------------------------------ MODULE QuicHost ------------------------------
(***************************************************************************)
(* What the example programs of quiche/examples run on: a network that     *)
(* loses, duplicates and reorders datagrams, system calls that fail, and   *)
(* libev's timer.  None of it is in this repository; it is modelled from   *)
(* how the programs use it.                                                *)
(***************************************************************************)
EXTENDS Quiche, FiniteSets

CONSTANTS Clients,      \* runs of the client program
          Server,       \* the address the server is bound to
          MaxCids,      \* bound: Retry packets, each with a connection id of its own
          MaxRebinds,   \* bound: new addresses a client is given
          MaxNet,       \* bound: datagrams in flight; a full network drops
          MaxDups,      \* bound: datagrams delivered twice
          MaxFaults     \* bound: system calls that fail, deadlines that pass

VARIABLES
  net,         \* datagrams in flight
  minted,      \* the tokens of the Retry packets sent (history)
  dups, faults \* what the network and the system have done of their bounds

Cids == 1..MaxCids
Addresses == [of: Clients, n: 0..MaxRebinds]
Tokens == [addr: Addresses, odcid: Clients, cid: Cids]

\* An address, an id a client chose, one the server chose and a token are told
\* apart; the ids are random, of 16 bytes.
ASSUME QuicAssumption ==
  /\ None \notin Clients \cup Tokens /\ Server \notin Clients \cup Addresses
  /\ Clients \cap Cids = {}
  /\ {MaxCids, MaxRebinds, MaxNet, MaxDups, MaxFaults} \subseteq Nat

\* ver is what quiche_header_info makes of it: a supported version, another
\* one, or 0 for a short header; to the client, the packet's type.
Versions == {"v1", "other", "none", "negotiation", "retry"}
Datagrams == [to: Addresses \cup {Server}, from: Addresses \cup {Server},
              ver: Versions, cid: Clients \cup Cids,
              token: Tokens \cup {None}, frames: SUBSET Frames]

HostTypeOK ==
  /\ net \subseteq Datagrams /\ Cardinality(net) <= MaxNet
  /\ minted \subseteq Tokens
  /\ dups \in 0..MaxDups /\ faults \in 0..MaxFaults

HostInit == net = {} /\ minted = {} /\ dups = 0 /\ faults = 0

Arriving == {p \in net : p.to = Server}

Carry(n, out) == IF Cardinality(n \cup out) <= MaxNet THEN n \cup out ELSE n

Send(out) == net' = Carry(net, out) /\ UNCHANGED dups

\* A datagram is read, perhaps with a second copy still to come.
Read(p, out) ==
  \/ net' = Carry(net \ {p}, out) /\ UNCHANGED dups
  \/ dups < MaxDups /\ dups' = dups + 1 /\ net' = Carry(net, out)

\* How a flush may go: through; a sendto fails; or a deadline passes before it
\* is asked for.
Hows == {"through", "sendFails", "due"}
Spend(n) == faults + n <= MaxFaults /\ faults' = faults + n
Price(how) == IF how = "through" THEN 0 ELSE 1

\* ev_timer_again with the timeout as its repeat: zero, if the deadline is due,
\* stops the timer.  No deadline at all is UINT64_MAX nanoseconds: active, and
\* never to fire.
Starts(q, how) == how # "due" \/ ~HasDeadline(q)

\* What a packet of a client looks like to quiche_header_info.  Until its handshake
\* has ended all it sends are Initial packets, which carry its token.
Packet(k, frames) ==
  [to |-> Server, from |-> k.addr, cid |-> k.dcid, frames |-> frames,
   ver |-> IF Initial(frames) THEN k.ver
           ELSE IF "finished" \in frames THEN "v1" ELSE "none",
   token |-> IF Initial(frames) THEN k.token ELSE None]

\* A packet without frames: version negotiation or Retry.
Stateless(p, ver, cid, token) ==
  [to |-> p.from, from |-> Server, ver |-> ver, cid |-> cid, token |-> token,
   frames |-> {}]

\* A uthash table as a function from connection ids.
WithEntry(f, i, e) == [j \in DOMAIN f \cup {i} |-> IF j = i THEN e ELSE f[j]]
Without(f, gone) == [i \in DOMAIN f \ gone |-> f[i]]
=============================================================================
