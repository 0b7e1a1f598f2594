---------------------------- MODULE QuicExchange ----------------------------
(***************************************************************************)
(* quiche/examples/server.c and client.c over a network that loses,        *)
(* duplicates and reorders datagrams and may give a client a new address.  *)
(*                                                                         *)
(* Each program is one libev loop, so its callbacks never overlap: a       *)
(* callback that reads is "reading" from its first recvfrom to its last,   *)
(* one datagram a step, and the datagrams that come in meanwhile are read  *)
(* by the same pass.                                                       *)
(***************************************************************************)
EXTENDS QuicHost

VARIABLES
  client,      \* the client programs: conn_io and the statics of recv_cb
  conns,       \* the server's hash table: connection id -> conn_io
  timer,       \* the server's conn_io timers that are active, by connection id
  pass         \* the server is inside recv_cb, or how it last left it

vars == <<client, conns, timer, pass, net, minted, dups, faults>>
serverVars == <<conns, timer, pass, minted>>

\* The client's connection, its negotiated version, its token and destination
\* id, whether the request was sent, whether the end of the answer is to be
\* read, the timer, the address the network sees, and where its loop is.
ClientStates == [q: Connection, ver: {"v1", "other"}, token: Tokens \cup {None},
                 dcid: Clients \cup Cids, reqSent: BOOLEAN,
                 fin: BOOLEAN, armed: BOOLEAN, addr: Addresses,
                 loop: {"start", "wait", "reading", "ended"}]

\* conn_io: peer_addr as it was when it was made, the address of the active
\* path, and the request's stream.
Entries == [q: Connection, peer: Addresses, path: Addresses,
            stream: {"none", "readable", "answered"}]

TypeOK ==
  /\ client \in [Clients -> ClientStates]
  /\ DOMAIN conns \subseteq Cids /\ \A i \in DOMAIN conns : conns[i] \in Entries
  /\ timer \subseteq Cids
  /\ pass \in {"whole", "cut", "reading"}
  /\ HostTypeOK

\* client.c asks for version 0xbabababa, which no server speaks.
ClientInit(c) ==
  [q |-> Connect, ver |-> "other", token |-> None, dcid |-> c,
   reqSent |-> FALSE, fin |-> FALSE, armed |-> FALSE,
   addr |-> [of |-> c, n |-> 0], loop |-> "start"]

ServerInit == conns = << >> /\ timer = {} /\ pass = "whole"

Init ==
  /\ client = [c \in Clients |-> ClientInit(c)]
  /\ ServerInit
  /\ HostInit

-----------------------------------------------------------------------------
(* The network.                                                            *)

Lose ==
  /\ \E p \in net : net' = net \ {p}
  /\ UNCHANGED <<client, serverVars, dups, faults>>

\* What is under way to the old address is not delivered any more.
Rebind(c) ==
  /\ client[c].loop = "wait"
  /\ client[c].addr.n < MaxRebinds
  /\ client' = [client EXCEPT ![c].addr.n = @ + 1]
  /\ UNCHANGED <<serverVars, net, dups, faults>>

-----------------------------------------------------------------------------
(* client.c                                                                *)

\* flush_egress: only a flush that gets to its end touches the timer.
ClientFlushed(k, how) ==
  LET failed == how = "sendFails" /\ HasToSend(k.q)
      q == IF HasToSend(k.q) THEN Sent(k.q) ELSE k.q
  IN  [k EXCEPT !.q = q,
                !.armed = IF failed THEN @ ELSE Starts(q, how)]

ClientSends(k, how) ==
  IF HasToSend(k.q) /\ how # "sendFails" THEN {Packet(k, k.q.unsent)} ELSE {}

ClientFlushes(c, k) ==
  \E how \in Hows :
    /\ client' = [client EXCEPT ![c] = ClientFlushed(k, how)]
    /\ Send(ClientSends(k, how))
    /\ Spend(Price(how))

\* main: quiche_connect, the watchers, the first flush.
Start(c) ==
  /\ client[c].loop = "start"
  /\ ClientFlushes(c, [client[c] EXCEPT !.loop = "wait"])
  /\ UNCHANGED serverVars

\* The answer; without the keys for it yet, it is dropped.
OnResponse(k) ==
  IF k.q.established
    THEN [k EXCEPT !.q = Acked(@, {"finished", "request"}), !.fin = TRUE] ELSE k

ClientRecv(k, p) ==
  IF ~Listens(k.q) THEN k
  ELSE CASE p.ver = "negotiation"                         -> OnNegotiation(k, p)
         [] p.ver = "retry"                               -> OnRetry(k, p)
         [] p.ver = "v1" /\ p.frames = {"flight"}         -> OnFlight(k)
         [] p.ver = "v1" /\ p.frames = {"response"}       -> OnResponse(k)
         [] OTHER                                         -> OnServerClose(k)

\* recvfrom and quiche_conn_recv.
ClientReads(c) ==
  /\ client[c].loop \in {"wait", "reading"}
  /\ \E p \in net :
       /\ p.to = client[c].addr
       /\ Read(p, {})
       /\ client' = [client EXCEPT ![c] = ClientRecv([@ EXCEPT !.loop = "reading"], p)]
  /\ UNCHANGED <<serverVars, faults>>

\* "failed to process packet": recv_cb reads on with a connection that is closing.
ClientRejects(c) ==
  /\ client[c].loop \in {"wait", "reading"}
  /\ \E p \in net :
       /\ p.to = client[c].addr /\ Read(p, {})
       /\ \E q \in Rejects(client[c].q, p) :
            client' = [client EXCEPT ![c].q = q, ![c].loop = "reading"]
  /\ Spend(1)
  /\ UNCHANGED serverVars

\* "failed to read", or "failed to send HTTP request": out of the callback, with
\* nothing flushed.
ClientReturns(c) ==
  /\ client[c].loop = "reading"
  /\ client' = [client EXCEPT ![c].loop = "wait"]
  /\ Spend(1)
  /\ UNCHANGED <<serverVars, net, dups>>

\* The rest of recv_cb once recvfrom would block.
ClientEnds(c) ==
  /\ client[c].loop = "reading" /\ client[c].q.phase = "closed"
  /\ client' = [client EXCEPT ![c].loop = "ended", ![c].armed = FALSE]
  /\ UNCHANGED <<serverVars, net, dups, faults>>

WantsRequest(k) == k.q.established /\ ~k.reqSent

WithRequest(k) ==
  [k EXCEPT !.reqSent = TRUE,
            !.q.unsent = IF k.q.phase = "open" THEN @ \cup {"request"} ELSE @]

\* The answer's fin closes the connection.
WithFinRead(k) == IF k.fin THEN [k EXCEPT !.fin = FALSE, !.q = Closing(@)] ELSE k

ClientReadDone(c) ==
  LET k == [client[c] EXCEPT !.loop = "wait"]
  IN  /\ client[c].loop = "reading" /\ k.q.phase # "closed"
      /\ ClientFlushes(c, WithFinRead(IF WantsRequest(k) THEN WithRequest(k) ELSE k))
      /\ UNCHANGED serverVars

\* Mutant: the loop goes on after the connection has closed.
ClientTimeoutGoesOn(c) ==
  LET k == [client[c] EXCEPT !.q = OnTimeout(@)]
  IN  /\ client[c].loop = "wait" /\ client[c].armed
      /\ ClientFlushes(c, k)
      /\ UNCHANGED serverVars

\* timeout_cb, with what quiche_conn_on_timeout makes of the connection.
ClientTimerFires(c, q) ==
  LET k == [client[c] EXCEPT !.q = q]
  IN  /\ client[c].loop = "wait" /\ client[c].armed
      /\ ClientFlushes(c, IF q.phase = "closed" THEN [k EXCEPT !.loop = "ended"] ELSE k)
      /\ UNCHANGED serverVars

ClientTimeout(c) == ClientTimerFires(c, OnTimeout(client[c].q))

\* The same before any deadline has passed: libev counts from the time its loop
\* began, and a callback cut short leaves the timer of an earlier flush.
ClientTimerEarly(c) == ClientTimerFires(c, client[c].q)

-----------------------------------------------------------------------------
(* server.c                                                                *)

\* Mutant: any token will do.
AnyToken(p) == p.token # None

\* validate_token compares the address in the token with the one it comes from; it
\* authenticates nothing.  Here every token is one a Retry gave a client.
ValidToken(p) == p.token # None /\ p.token.addr = p.from

\* An id the table does not hold, and a version the server does not speak:
\* that is also what a late short header looks like.
NegotiateVersion ==
  /\ \E p \in Arriving :
       /\ p.cid \notin DOMAIN conns /\ p.ver # "v1"
       /\ Read(p, {Stateless(p, "negotiation", p.cid, None)})
  /\ pass' = "reading"
  /\ UNCHANGED <<client, conns, timer, minted, faults>>

\* mint_token: the peer's address and the id it asked for.
MintToken(p) ==
  [addr |-> p.from, odcid |-> p.cid, cid |-> Cardinality(minted) + 1]

\* Without a token: a Retry with a fresh id, and nothing is kept.
Retry ==
  /\ \E p \in Arriving :
       /\ p.cid \in Clients /\ p.ver = "v1" /\ p.token = None
       /\ Cardinality(minted) < MaxCids
       /\ minted' = minted \cup {MintToken(p)}
       /\ Read(p, {Stateless(p, "retry", MintToken(p).cid, MintToken(p))})
  /\ pass' = "reading"
  /\ UNCHANGED <<client, conns, timer, faults>>

\* A token from another address; a Handshake packet of a connection that is
\* gone gets a Retry its client ignores; and a Retry beyond the bound is lost.
DropDatagram ==
  /\ \E p \in Arriving :
       /\ p.cid \notin DOMAIN conns /\ p.ver = "v1"
       /\ IF p.token = None
            THEN p.cid \in Cids \/ Cardinality(minted) = MaxCids
            ELSE ~ValidToken(p)
       /\ Read(p, {})
  /\ pass' = "reading"
  /\ UNCHANGED <<client, conns, timer, minted, faults>>

\* recv_cb after quiche_conn_recv: a stream that is readable to its end is
\* answered.
Received(e, p) ==
  LET r == ServerRecv(e, p)
  IN  IF r.stream = "readable"
        THEN [r EXCEPT !.stream = "answered", !.q.unsent = @ \cup {"response"}]
        ELSE r

\* create_conn: quiche_accept and HASH_ADD; the timer is only initialised.
\* Either allocation may fail, and the datagram is dropped; or the Initial does
\* not get through quiche_conn_recv, and the connection closes at once.
CreateConn(p) ==
  [q |-> Accept, peer |-> p.from, path |-> p.from, stream |-> "none"]

AcceptConn ==
  /\ \E p \in Arriving :
       /\ p.cid \notin DOMAIN conns /\ p.ver = "v1" /\ ValidToken(p)
       /\ Read(p, {})
       /\ \/ conns' = WithEntry(conns, p.cid, Received(CreateConn(p), p)) /\ UNCHANGED faults
          \/ Spend(1) /\ UNCHANGED conns
          \/ Spend(1) /\ conns' = WithEntry(conns, p.cid,
                                           [CreateConn(p) EXCEPT !.q = Closing(@)])
  /\ pass' = "reading"
  /\ UNCHANGED <<client, timer, minted>>

RecvKnown ==
  /\ \E p \in Arriving :
       /\ p.cid \in DOMAIN conns
       /\ Read(p, {})
       /\ \/ /\ conns' = [conns EXCEPT ![p.cid] = Received(@, p)]
             /\ UNCHANGED faults
          \/ \E e \in ServerRejects(conns[p.cid], p) :
               conns' = [conns EXCEPT ![p.cid] = e] /\ Spend(1)
  /\ pass' = "reading"
  /\ UNCHANGED <<client, timer, minted>>

\* "failed to read": out of recv_cb, with nothing flushed or freed.
ServerReadFails ==
  /\ pass = "reading"
  /\ pass' = "cut"
  /\ Spend(1)
  /\ UNCHANGED <<client, conns, timer, net, minted, dups>>

\* flush_egress: to the address quiche names, and then the timer.
ServerFlushed(e) == IF HasToSend(e.q) THEN [e EXCEPT !.q = Sent(@)] ELSE e

ServerSends(i, e, how) ==
  IF HasToSend(e.q) /\ how # "sendFails"
    THEN {[to |-> e.path, from |-> Server, ver |-> "v1", cid |-> i,
           token |-> None, frames |-> e.q.unsent]}
    ELSE {}

Armed(i, e, how) ==
  IF how = "sendFails" /\ HasToSend(e.q) THEN i \in timer
  ELSE Starts(ServerFlushed(e).q, how)

\* Mutant: only a connection the peer has closed is taken out.
FreedIfEstablished(f) ==
  {i \in DOMAIN f : f[i].q.phase = "closed" /\ f[i].q.established}

\* HASH_DELETE, ev_timer_stop, free.
Freed(f) == {i \in DOMAIN f : f[i].q.phase = "closed"}

\* Mutant: the entry goes and its timer stays.
FreedTimerKept(f, started) == started

Running(f, started) == started \ Freed(f)

\* The end of recv_cb: every connection is flushed, and freed if closed.
ServerReadDone ==
  /\ pass = "reading"
  /\ \E how \in [DOMAIN conns -> Hows] :
       LET flushed == [i \in DOMAIN conns |-> ServerFlushed(conns[i])]
           started == {i \in DOMAIN conns : Armed(i, conns[i], how[i])}
           out == UNION {ServerSends(i, conns[i], how[i]) : i \in DOMAIN conns}
       IN  /\ Spend(Cardinality({i \in DOMAIN conns : how[i] # "through"}))
           /\ conns' = Without(flushed, Freed(flushed))
           /\ timer' = Running(flushed, (timer \ DOMAIN conns) \cup started)
           /\ Send(out)
  /\ pass' = "whole"
  /\ UNCHANGED <<client, minted>>

\* timeout_cb of one connection.
ServerTimerFires(i, q) ==
  /\ pass # "reading" /\ i \in timer /\ i \in DOMAIN conns
  /\ \E how \in Hows :
       LET e == [conns[i] EXCEPT !.q = q]
           flushed == [conns EXCEPT ![i] = ServerFlushed(e)]
       IN  /\ Spend(Price(how))
           /\ conns' = Without(flushed, Freed(flushed) \cap {i})
           /\ timer' = Running([j \in {i} |-> flushed[i]],
                               (timer \ {i}) \cup (IF Armed(i, e, how) THEN {i} ELSE {}))
           /\ Send(ServerSends(i, e, how))
  /\ UNCHANGED <<client, pass, minted>>

ServerTimeout == \E i \in timer : ServerTimerFires(i, OnTimeout(conns[i].q))
ServerTimerEarly == \E i \in timer : ServerTimerFires(i, conns[i].q)

-----------------------------------------------------------------------------
ClientStep(c) ==
  \/ Start(c) \/ ClientEnds(c) \/ ClientReadDone(c) \/ ClientTimeout(c)

ServerStep == ServerReadDone \/ ServerTimeout

Next ==
  \/ \E c \in Clients :
       \/ ClientStep(c) \/ Rebind(c) \/ ClientReads(c)
       \/ ClientRejects(c) \/ ClientReturns(c) \/ ClientTimerEarly(c)
  \/ ServerStep \/ ServerTimerEarly \/ NegotiateVersion \/ Retry \/ DropDatagram \/ AcceptConn
  \/ RecvKnown \/ ServerReadFails
  \/ Lose

Spec == Init /\ [][Next]_vars

\* A callback runs to its end and an active libev timer fires, in the end with a
\* deadline passed.  Datagrams are not assumed to arrive.
FairSpec ==
  /\ Spec
  /\ \A c \in Clients : WF_vars(ClientStep(c))
  /\ WF_vars(ServerReadDone)
  /\ WF_vars(ServerTimeout)

-----------------------------------------------------------------------------
(* Properties.                                                             *)

\* Of clients that send only the token a Retry gave them, as quiche's do: whatever
\* the order, duplicates or a change of address, an entry is for the address and
\* the id of one Retry, so a token taken along to a new address makes none.
EntryFromRetry ==
  \A i \in DOMAIN conns :
    \E t \in minted : t.cid = i /\ t.addr = conns[i].peer

\* An active timer's w->data is a connection the table still holds, so no
\* timeout_cb runs on a conn_io recv_cb or another timeout_cb has freed.
TimersOwned == timer \subseteq DOMAIN conns

\* However often its Initials and Retries are repeated, one run of the client
\* occupies one entry of the server's table.
OneConnectionPerRun ==
  \A i, j \in DOMAIN conns : conns[i].peer.of = conns[j].peer.of => i = j

\* A version negotiation or Retry that arrives late does not take a client back
\* behind its handshake, nor point it at another connection.
EstablishedIsKept ==
  [][\A c \in Clients :
       client[c].q.established =>
         client'[c].q.established /\ client'[c].dcid = client[c].dcid]_vars

\* A client waiting without a timer; an entry without one although it has a
\* deadline, or although the last pass left before it got to the flushes.
ClientStranded(c) == client[c].loop = "wait" /\ ~client[c].armed
EntryStranded(i) ==
  /\ pass # "reading" /\ i \in DOMAIN conns \ timer
  /\ pass = "cut" \/ HasDeadline(conns[i].q)

\* Whatever the network loses, a run of the client ends: only a flush that did
\* not start the timer can keep it waiting.
ClientRunEnds ==
  \A c \in Clients : TRUE ~> client[c].loop = "ended" \/ ClientStranded(c)

\* Nor does the table fill with the dead: an entry, also one made anew by a
\* late Initial whose client is long gone, is freed in the end.
EntriesGo ==
  \A i \in Cids : TRUE ~> i \notin DOMAIN conns \/ EntryStranded(i)
=============================================================================
