--------------------------- MODULE Http3Exchange ---------------------------
(***************************************************************************)
(* quiche/examples/http3-server.c and http3-client.c.  They are server.c   *)
(* and client.c (QuicExchange) with an HTTP/3 connection made on top of    *)
(* the QUIC one when that is first seen established, and they differ from  *)
(* them in where a flush sends to, in what a malformed datagram does, and  *)
(* in which failures are looked at.                                        *)
(***************************************************************************)
EXTENDS QuicHost

VARIABLES
  peer,       \* the client programs: conn_io and the statics of recv_cb
  table,      \* the server's hash table: connection id -> conn_io
  ticking,    \* the server's conn_io timers that are active
  pass        \* the server is inside recv_cb, or how it last left it

vars == <<peer, table, ticking, pass, net, minted, dups, faults>>
served == <<table, ticking, pass, minted>>

\* The client's http3 pointer comes from malloc and is not initialised: "unset"
\* until quiche_h3_conn_new_with_transport has answered.  polled is the worst it
\* has been when it was handed to quiche_h3_conn_poll (history).
Handles == {"unset", "null", "made"}
Peers == [q: Connection, ver: {"v1", "other"}, token: Tokens \cup {None},
          dcid: Clients \cup Cids, http3: Handles, polled: {"no", "made", "unmade"},
          reqSent: BOOLEAN, finished: BOOLEAN, armed: BOOLEAN, addr: Addresses,
          loop: {"start", "wait", "reading", "ended"}]
Entries == [q: Connection, addr: Addresses, path: Addresses, http3: Handles,
            stream: {"none", "readable", "answered"}]

TypeOK ==
  /\ peer \in [Clients -> Peers]
  /\ DOMAIN table \subseteq Cids /\ \A i \in DOMAIN table : table[i] \in Entries
  /\ ticking \subseteq Cids
  /\ pass \in {"whole", "cut", "reading"}
  /\ HostTypeOK

PeerInit(c) ==
  [q |-> Connect, ver |-> "other", token |-> None, dcid |-> c,
   http3 |-> "unset", polled |-> "no", reqSent |-> FALSE, finished |-> FALSE,
   armed |-> FALSE, addr |-> [of |-> c, n |-> 0], loop |-> "start"]

TableInit == table = << >> /\ ticking = {} /\ pass = "whole"

Init == peer = [c \in Clients |-> PeerInit(c)] /\ TableInit /\ HostInit

Lose ==
  /\ \E p \in net : net' = net \ {p}
  /\ UNCHANGED <<peer, served, dups, faults>>

Rebind(c) ==
  /\ peer[c].loop = "wait" /\ peer[c].addr.n < MaxRebinds
  /\ peer' = [peer EXCEPT ![c].addr.n = @ + 1]
  /\ UNCHANGED <<served, net, dups, faults>>

-----------------------------------------------------------------------------
(* http3-client.c                                                          *)

\* flush_egress
Flushed(k, how) ==
  LET sends == HasToSend(k.q)
      q == IF sends THEN Sent(k.q) ELSE k.q
  IN  [k EXCEPT !.q = q,
                !.armed = IF sends /\ how = "sendFails" THEN @ ELSE Starts(q, how)]

PeerFlushes(c, k) ==
  \E how \in Hows :
    /\ peer' = [peer EXCEPT ![c] = Flushed(k, how)]
    /\ Send(IF HasToSend(k.q) /\ how # "sendFails" THEN {Packet(k, k.q.unsent)} ELSE {})
    /\ Spend(Price(how))

\* main
PeerStart(c) ==
  /\ peer[c].loop = "start"
  /\ PeerFlushes(c, [peer[c] EXCEPT !.loop = "wait"])
  /\ UNCHANGED served

\* The end of the answer; quiche_h3_conn_poll will report it as FINISHED.
OnAnswer(k) ==
  IF k.q.established
    THEN [k EXCEPT !.q = Acked(@, {"finished", "request"}), !.finished = TRUE] ELSE k

PeerRecv(k, p) ==
  IF ~Listens(k.q) THEN k
  ELSE CASE p.ver = "negotiation"                     -> OnNegotiation(k, p)
         [] p.ver = "retry"                           -> OnRetry(k, p)
         [] p.ver = "v1" /\ p.frames = {"flight"}     -> OnFlight(k)
         [] p.ver = "v1" /\ p.frames = {"response"}   -> OnAnswer(k)
         [] OTHER                                     -> OnServerClose(k)

\* One turn of the reading loop; an error of quiche_conn_recv is passed over.
PeerReads(c) ==
  /\ peer[c].loop \in {"wait", "reading"}
  /\ \E p \in net :
       /\ p.to = peer[c].addr
       /\ Read(p, {})
       /\ LET k == [peer[c] EXCEPT !.loop = "reading"]
          IN  \/ peer' = [peer EXCEPT ![c] = PeerRecv(k, p)] /\ UNCHANGED faults
              \/ /\ \E q \in Rejects(k.q, p) : peer' = [peer EXCEPT ![c] = [k EXCEPT !.q = q]]
                 /\ Spend(1)
  /\ UNCHANGED served

PeerReadFails(c) ==
  /\ peer[c].loop = "reading"
  /\ peer' = [peer EXCEPT ![c].loop = "wait"]
  /\ Spend(1)
  /\ UNCHANGED <<served, net, dups>>

PeerEnds(c) ==
  /\ peer[c].loop = "reading" /\ peer[c].q.phase = "closed"
  /\ peer' = [peer EXCEPT ![c].loop = "ended"]
  /\ UNCHANGED <<served, net, dups, faults>>

NeedsHttp3(k) == k.q.established /\ ~k.reqSent

\* Mutant: a failure to make the HTTP/3 connection is logged and passed over.
Http3FailurePasses(c) ==
  /\ peer[c].loop = "reading" /\ peer[c].q.phase # "closed" /\ NeedsHttp3(peer[c])
  /\ peer' = [peer EXCEPT ![c].http3 = "null", ![c].polled = "unmade", ![c].loop = "wait"]
  /\ Spend(1)
  /\ UNCHANGED <<served, net, dups>>

\* quiche_h3_config_new or quiche_h3_conn_new_with_transport fails: out of the
\* callback, with nothing flushed; the next one tries again.
Http3Fails(c) ==
  /\ peer[c].loop = "reading" /\ peer[c].q.phase # "closed" /\ NeedsHttp3(peer[c])
  /\ \E http3 \in {peer[c].http3, "null"} :
       peer' = [peer EXCEPT ![c].http3 = http3, ![c].loop = "wait"]
  /\ Spend(1)
  /\ UNCHANGED <<served, net, dups>>

\* quiche_h3_send_request: its stream id is logged and not looked at.
WithRequest(k, sent) ==
  [k EXCEPT !.http3 = "made", !.reqSent = TRUE,
            !.q.unsent = IF sent /\ k.q.phase = "open" THEN @ \cup {"request"} ELSE @]

\* The event loop of an established connection: FINISHED (or RESET, which this
\* server does not send) closes it.
Polled(k) ==
  IF ~k.q.established THEN k
  ELSE [k EXCEPT !.polled = IF k.http3 # "made" THEN "unmade" ELSE IF @ = "no" THEN "made" ELSE @,
                 !.finished = FALSE,
                 !.q = IF k.finished THEN Closing(@) ELSE @]

PeerReadDone(c) ==
  LET k == [peer[c] EXCEPT !.loop = "wait"]
  IN  /\ peer[c].loop = "reading" /\ k.q.phase # "closed"
      /\ PeerFlushes(c, Polled(IF NeedsHttp3(k) THEN WithRequest(k, TRUE) ELSE k))
      /\ UNCHANGED served

\* The same with a request that could not be sent, and a flush that goes through.
PeerSendsNothing(c) ==
  LET k == Polled(WithRequest([peer[c] EXCEPT !.loop = "wait"], FALSE))
  IN  /\ peer[c].loop = "reading" /\ k.q.phase # "closed" /\ NeedsHttp3(peer[c])
      /\ peer' = [peer EXCEPT ![c] = Flushed(k, "through")]
      /\ Send(IF HasToSend(k.q) THEN {Packet(k, k.q.unsent)} ELSE {})
      /\ Spend(1)
      /\ UNCHANGED served

\* Mutant: the loop is left before the timer has run out.
PeerTimeoutKeepsQuiet(c) ==
  LET k == [peer[c] EXCEPT !.q = OnTimeout(@)]
  IN  /\ peer[c].loop = "wait" /\ peer[c].armed /\ k.q.phase # "closed"
      /\ PeerFlushes(c, k)
      /\ UNCHANGED served

\* timeout_cb, once a deadline has passed or before any has.
PeerTimerFires(c, q) ==
  LET k == [peer[c] EXCEPT !.q = q]
  IN  /\ peer[c].loop = "wait" /\ peer[c].armed
      /\ PeerFlushes(c, IF q.phase = "closed" THEN [k EXCEPT !.loop = "ended"] ELSE k)
      /\ UNCHANGED served

PeerTimeout(c) == PeerTimerFires(c, OnTimeout(peer[c].q))
PeerTimerEarly(c) == PeerTimerFires(c, peer[c].q)

-----------------------------------------------------------------------------
(* http3-server.c                                                          *)

\* validate_token: of tokens a Retry gave a client; it authenticates nothing.
ValidToken(p) == p.token # None /\ p.token.addr = p.from

\* mint_token and gen_cid
MintToken(p) ==
  [addr |-> p.from, odcid |-> p.cid, cid |-> Cardinality(minted) + 1]

Unknown(p) == p.to = Server /\ p.cid \notin DOMAIN table

Negotiate ==
  /\ \E p \in net :
       /\ Unknown(p) /\ p.ver # "v1"
       /\ Read(p, {Stateless(p, "negotiation", p.cid, None)})
  /\ pass' = "reading"
  /\ UNCHANGED <<peer, table, ticking, minted, faults>>

SendRetry ==
  /\ Cardinality(minted) < MaxCids
  /\ \E p \in net :
       /\ Unknown(p) /\ p.ver = "v1" /\ p.token = None /\ p.cid \in Clients
       /\ minted' = minted \cup {MintToken(p)}
       /\ Read(p, {Stateless(p, "retry", MintToken(p).cid, MintToken(p))})
  /\ pass' = "reading"
  /\ UNCHANGED <<peer, table, ticking, faults>>

\* "invalid address validation token"; also a Retry for a Handshake packet,
\* which no client takes, and one beyond the bound.
Refuse ==
  /\ \E p \in net :
       /\ Unknown(p) /\ p.ver = "v1" /\ ~ValidToken(p)
       /\ p.token = None => p.cid \in Cids \/ Cardinality(minted) = MaxCids
       /\ Read(p, {})
  /\ pass' = "reading"
  /\ UNCHANGED <<peer, table, ticking, minted, faults>>

CreateConn(p) ==
  [q |-> Accept, addr |-> p.from, path |-> p.from, http3 |-> "null", stream |-> "none"]

\* What the event loop makes of a readable request: HEADERS are answered, with
\* the results of quiche_h3_send_response and quiche_h3_send_body not looked at.
Answered(r, sent) ==
  IF r.stream # "readable" THEN r
  ELSE [r EXCEPT !.stream = "answered",
                 !.q.unsent = IF sent THEN @ \cup {"response"} ELSE @]

\* quiche_conn_recv, and then, on an established connection, its HTTP/3
\* connection is made unless it is there, and polled.  "continue" if it cannot
\* be made: what is readable stays so until the next datagram.
Serve(i, r) ==
  \/ /\ ~r.q.established
     /\ table' = WithEntry(table, i, r) /\ UNCHANGED faults
  \/ /\ r.q.established
     /\ table' = WithEntry(table, i, Answered([r EXCEPT !.http3 = "made"], TRUE))
     /\ UNCHANGED faults
  \/ /\ r.q.established /\ r.http3 = "null"
     /\ table' = WithEntry(table, i, r) /\ Spend(1)
  \/ /\ r.q.established /\ r.stream = "readable"
     /\ table' = WithEntry(table, i, Answered([r EXCEPT !.http3 = "made"], FALSE))
     /\ Spend(1)

\* Making the connection may fail, or its first quiche_conn_recv, which closes it.
AcceptPeer ==
  /\ \E p \in net :
       /\ Unknown(p) /\ p.ver = "v1" /\ ValidToken(p)
       /\ Read(p, {})
       /\ \/ Serve(p.cid, ServerRecv(CreateConn(p), p))
          \/ UNCHANGED table /\ Spend(1)
          \/ /\ table' = WithEntry(table, p.cid, [CreateConn(p) EXCEPT !.q = Closing(@)])
             /\ Spend(1)
  /\ pass' = "reading"
  /\ UNCHANGED <<peer, ticking, minted>>

RecvPeer ==
  /\ \E p \in net :
       /\ p.to = Server /\ p.cid \in DOMAIN table
       /\ Read(p, {})
       /\ \/ Serve(p.cid, ServerRecv(table[p.cid], p))
          \/ \E e \in ServerRejects(table[p.cid], p) :
               table' = WithEntry(table, p.cid, e) /\ Spend(1)
  /\ pass' = "reading"
  /\ UNCHANGED <<peer, ticking, minted>>

\* "failed to parse header", or "failed to read": out of recv_cb, with nothing
\* flushed or freed.  (server.c reads on after a malformed datagram.)
Malformed ==
  /\ pass' = "cut"
  /\ Spend(1)
  /\ UNCHANGED <<peer, table, ticking, net, minted, dups>>

\* flush_egress: whatever address quiche names, to the one the connection was
\* made for.
AfterFlush(e) == IF HasToSend(e.q) THEN [e EXCEPT !.q = Sent(@)] ELSE e
ToPeerAddr(i, e, how) ==
  IF HasToSend(e.q) /\ how # "sendFails"
    THEN {[to |-> e.addr, from |-> Server, ver |-> "v1", cid |-> i,
           token |-> None, frames |-> e.q.unsent]}
    ELSE {}
Ticks(i, e, how) ==
  IF HasToSend(e.q) /\ how = "sendFails" THEN i \in ticking ELSE Starts(AfterFlush(e).q, how)

\* Mutant: a connection that timed out before it was up stays in the table.
DeadIfUp(f) == {i \in DOMAIN f : f[i].q.phase = "closed" /\ f[i].q.established}

\* The connections HASH_DELETE takes out, with ev_timer_stop and free.
Dead(f) == {i \in DOMAIN f : f[i].q.phase = "closed"}

\* The end of recv_cb.
ReadDone ==
  /\ pass = "reading"
  /\ \E how \in [DOMAIN table -> Hows] :
       LET after == [i \in DOMAIN table |-> AfterFlush(table[i])]
       IN  /\ Spend(Cardinality({i \in DOMAIN table : how[i] # "through"}))
           /\ table' = Without(after, Dead(after))
           /\ ticking' = {i \in DOMAIN table : Ticks(i, table[i], how[i])} \ Dead(after)
           /\ Send(UNION {ToPeerAddr(i, table[i], how[i]) : i \in DOMAIN table})
  /\ pass' = "whole"
  /\ UNCHANGED <<peer, minted>>

\* timeout_cb
TimerFires(i, q) ==
  /\ pass # "reading" /\ i \in ticking
  /\ \E how \in Hows :
       LET e == [table[i] EXCEPT !.q = q]
           after == [table EXCEPT ![i] = AfterFlush(e)]
           gone == Dead(after) \cap {i}
       IN  /\ Spend(Price(how))
           /\ table' = Without(after, gone)
           /\ ticking' = (ticking \ {i}) \cup (IF Ticks(i, e, how) THEN {i} \ gone ELSE {})
           /\ Send(ToPeerAddr(i, e, how))
  /\ UNCHANGED <<peer, pass, minted>>

Timeout == \E i \in ticking : TimerFires(i, OnTimeout(table[i].q))
TimerEarly == \E i \in ticking : TimerFires(i, table[i].q)

-----------------------------------------------------------------------------
PeerStep(c) == PeerStart(c) \/ PeerEnds(c) \/ PeerReadDone(c) \/ PeerTimeout(c)

Next ==
  \/ \E c \in Clients :
       \/ PeerStep(c) \/ Rebind(c) \/ PeerReads(c) \/ PeerReadFails(c)
       \/ Http3Fails(c) \/ PeerSendsNothing(c) \/ PeerTimerEarly(c)
  \/ ReadDone \/ Timeout \/ TimerEarly \/ Negotiate \/ SendRetry \/ Refuse \/ AcceptPeer
  \/ RecvPeer \/ Malformed
  \/ Lose

Spec == Init /\ [][Next]_vars

\* Callbacks run to their end and active timers fire, in the end with a deadline
\* passed; datagrams need not arrive.
FairSpec ==
  /\ Spec
  /\ \A c \in Clients : WF_vars(PeerStep(c))
  /\ WF_vars(ReadDone)
  /\ WF_vars(Timeout)

-----------------------------------------------------------------------------
(* Properties.                                                             *)

\* http3-client.c never polls a pointer no quiche_h3_conn_new_with_transport has
\* filled in, however often that fails and whatever order packets come in.
PolledIsMade == \A c \in Clients : peer[c].polled # "unmade"

\* Waiting without a timer: the client, or an entry that has a deadline or that
\* the last pass, cut short, never got to.
PeerStranded(c) == peer[c].loop = "wait" /\ ~peer[c].armed
EntryStranded(i) ==
  /\ pass # "reading" /\ i \in DOMAIN table \ ticking
  /\ pass = "cut" \/ HasDeadline(table[i].q)

\* A client ends, also when its request was never sent or its answer goes to the
\* address it had before, unless it waits without a timer.
PeerEndsAtLast ==
  \A c \in Clients : TRUE ~> peer[c].loop = "ended" \/ PeerStranded(c)

\* An entry goes, also one whose HTTP/3 connection could not be made.
EntriesGo ==
  \A i \in Cids : TRUE ~> i \notin DOMAIN table \/ EntryStranded(i)

\* What quiche.h says of quiche_send_info.to and flush_egress does not do: a
\* connection's packets go to the address of its active path.  The two part when
\* a client whose handshake has ended is given a new address and a packet with a
\* short header, its request for one, arrives from there.
RepliesFollowPath ==
  [][\A p \in net' \ net :
       (p.from = Server /\ p.frames # {}) =>
         p.cid \in DOMAIN table /\ p.to = table[p.cid].path]_vars
=============================================================================
