---------------------------- MODULE MCVpnService ----------------------------
(* Instances of VpnService for TLC: what the user may ask for.             *)
EXTENDS VpnService, TLC

EngineRequests  == {<<0, "proxy">>, <<0, "engine">>, <<0, "chain">>}
CarrierRequests == {<<0, "direct">>, <<2, "engine">>}
OneCarrier      == {<<1, "engine">>}
SettlingRequests == {<<0, "engine">>, <<1, "engine">>}

BothOrNeither == {<<FALSE, FALSE>>, <<TRUE, TRUE>>}
Neither       == {<<FALSE, FALSE>>}

SlotSymmetry == Permutations(Slots)
=============================================================================
