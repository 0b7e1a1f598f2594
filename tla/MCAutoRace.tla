------------------------------ MODULE MCAutoRace ------------------------------
(* A small race for TLC: three engine rungs, Psiphon, and two ways into Tor.     *)
EXTENDS AutoRace

SomeLanes == <<<<"h3", "h2", "fragment">>, <<"psiphon">>, <<"snowflake", "direct">>>>
SomeEngines == {"h3", "h2", "fragment"}
=============================================================================
