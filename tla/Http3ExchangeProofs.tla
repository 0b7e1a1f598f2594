------------------------- MODULE Http3ExchangeProofs -------------------------
(***************************************************************************)
(* What Http3Exchange promises for any number of clients and any bounds on *)
(* the network's mischief: its types, and that no event loop runs on an    *)
(* HTTP/3 pointer that was never filled in.                                *)
(***************************************************************************)
EXTENDS Http3Exchange, QuicHostProofs

\* A client that has sent its request has made its HTTP/3 connection, and it has
\* polled no other; with a token, it asks for an id the server gave it.
Sound(k) ==
  /\ k.polled # "unmade"
  /\ k.reqSent => k.http3 = "made"
  /\ k.token # None => k.dcid \in Cids

\* A datagram to the server comes from a client's address, and one with a token,
\* like a Retry, names an id of the server's.
Sendable(p) ==
  /\ p \in Datagrams
  /\ p.to = Server => p.from \in Addresses
  /\ p.to = Server /\ p.token # None => p.cid \in Cids
  /\ p.ver = "retry" => p.cid \in Cids

\* Nothing else is in flight, and the server's timers are its entries'.
Inv ==
  /\ TypeOK
  /\ IsFiniteSet(net) /\ IsFiniteSet(minted)
  /\ \A p \in net : Sendable(p)
  /\ \A c \in Clients : Sound(peer[c])
  /\ ticking \subseteq DOMAIN table

\* A step of the network: what is in flight was so before, or has just been sent.
Delivers(out) ==
  /\ net' \subseteq net \cup out
  /\ IsFiniteSet(net') /\ Cardinality(net') <= MaxNet
  /\ dups' \in 0..MaxDups /\ faults' \in 0..MaxFaults

-----------------------------------------------------------------------------
(* The client.                                                             *)

\* A step of a client keeps the invariant if what it becomes and sends is typed
\* and it polls no pointer that was not made.
LEMMA PeerMoves ==
  ASSUME Inv, NEW c \in Clients, NEW k \in Peers, Sound(k),
         peer' = [peer EXCEPT ![c] = k], UNCHANGED served,
         NEW out, Delivers(out), \A p \in out : Sendable(p)
  PROVE  Inv'
<1> USE DEF served
<1>1. peer' \in [Clients -> Peers] /\ \A d \in Clients : Sound(peer'[d])
  BY DEF Inv, TypeOK
<1>2. net' \subseteq Datagrams /\ \A p \in net' : Sendable(p)
  BY DEF Inv, TypeOK, HostTypeOK, Delivers, Sendable
<1>3. TypeOK'
  BY <1>1, <1>2 DEF Inv, TypeOK, HostTypeOK, Delivers
<1>4. \A d \in Clients : Sound(peer[d])'
  BY <1>1 DEF Sound
<1> QED
  BY <1>2, <1>3, <1>4 DEF Inv, Delivers

\* A step of a client that sends nothing.
LEMMA SilentPeerMoves ==
  ASSUME Inv, NEW c \in Clients, NEW k \in Peers, Sound(k),
         peer' = [peer EXCEPT ![c] = k], UNCHANGED served,
         UNCHANGED <<net, dups>> \/ \E p \in net : Read(p, {}),
         UNCHANGED faults \/ Spend(1)
  PROVE  Inv'
<1>1. faults' \in 0..MaxFaults
  BY Spends DEF Inv, TypeOK, HostTypeOK
<1>2. IsFiniteSet({})
  BY FS_EmptySet
<1>3. Delivers({})
  BY <1>1, <1>2, Reads DEF Inv, TypeOK, HostTypeOK, Delivers
<1> QED
  BY <1>3, PeerMoves

\* A flush sends what the connection has, and looks at nothing else.
LEMMA FlushMoves ==
  ASSUME Inv, NEW c \in Clients, NEW k \in Peers, Sound(k), NEW how \in Hows,
         peer' = [peer EXCEPT ![c] = Flushed(k, how)],
         Send(IF HasToSend(k.q) /\ how # "sendFails" THEN {Packet(k, k.q.unsent)} ELSE {}),
         NEW n \in Nat, Spend(n), UNCHANGED served
  PROVE  Inv'
<1> DEFINE f == Flushed(k, how)
           q == IF HasToSend(k.q) THEN Sent(k.q) ELSE k.q
           out == IF HasToSend(k.q) /\ how # "sendFails" THEN {Packet(k, k.q.unsent)} ELSE {}
<1>1. k.q \in Connection /\ k.q.unsent \in SUBSET Frames
  BY DEF Peers, Connection
<1>2. q \in Connection
  BY <1>1, ConnectionOps
<1>3. \E armed \in BOOLEAN : f = [k EXCEPT !.q = q, !.armed = armed]
  <2>1. Starts(q, how) \in BOOLEAN /\ k.armed \in BOOLEAN
    BY DEF Starts, HasDeadline, Peers
  <2> QED
    BY <2>1 DEF Flushed
<1> HIDE DEF f, q
<1>4. f \in Peers
  BY <1>2, <1>3 DEF Peers
<1>5. Sound(f)
  <2>1. /\ f.polled = k.polled /\ f.reqSent = k.reqSent /\ f.http3 = k.http3
        /\ f.token = k.token /\ f.dcid = k.dcid
    BY <1>3 DEF Peers
  <2> QED
    BY <2>1 DEF Sound
<1>6. Sendable(Packet(k, k.q.unsent))
  <2>1. /\ k.addr \in Addresses /\ k.dcid \in Clients \cup Cids
        /\ k.ver \in {"v1", "other"} /\ k.token \in Tokens \cup {None}
    BY DEF Peers
  <2> QED
    BY <1>1, <2>1, PacketTyped DEF Sound, Sendable
<1>7. Delivers(out)
  <2>1. IsFiniteSet(out)
    BY FS_Singleton, FS_EmptySet
  <2>2. Send(out) /\ faults' \in 0..MaxFaults
    BY Spends DEF Inv, TypeOK, HostTypeOK
  <2> HIDE DEF out
  <2> QED
    BY <2>1, <2>2, Sends DEF Inv, TypeOK, HostTypeOK, Delivers
<1>8. \A p \in out : Sendable(p)
  BY <1>6
<1>9. peer' = [peer EXCEPT ![c] = f]
  BY DEF f
<1> HIDE DEF out
<1> QED
  BY <1>4, <1>5, <1>7, <1>8, <1>9, PeerMoves

\* PeerFlushes is one.
LEMMA PeerFlushMoves ==
  ASSUME Inv, NEW c \in Clients, NEW k \in Peers, Sound(k), PeerFlushes(c, k),
         UNCHANGED served
  PROVE  Inv'
<1>1. PICK how \in Hows :
        /\ peer' = [peer EXCEPT ![c] = Flushed(k, how)]
        /\ Send(IF HasToSend(k.q) /\ how # "sendFails" THEN {Packet(k, k.q.unsent)} ELSE {})
        /\ Spend(Price(how))
  BY DEF PeerFlushes
<1>2. Price(how) \in Nat
  BY DEF Price
<1> QED
  BY <1>1, <1>2, FlushMoves

\* What quiche does to a client's connection is no concern of its HTTP/3 one.
LEMMA QuicOnly ==
  ASSUME NEW k \in Peers, Sound(k), NEW q \in Connection
  PROVE  [k EXCEPT !.q = q] \in Peers /\ Sound([k EXCEPT !.q = q])
  BY DEF Peers, Sound

\* One turn of the reading loop.
LEMMA PeerHears ==
  ASSUME Inv, NEW c \in Clients, PeerReads(c)
  PROVE  Inv'
<1>1. PICK k : k = [peer[c] EXCEPT !.loop = "reading"]
  OBVIOUS
<1>2. k \in Peers /\ Sound(k)
  BY <1>1 DEF Inv, TypeOK, Peers, Sound
<1>3. k.q \in Connection
  BY <1>2 DEF Peers
<1>4. PICK p \in net :
        /\ Read(p, {})
        /\ \/ peer' = [peer EXCEPT ![c] = PeerRecv(k, p)] /\ UNCHANGED faults
           \/ \E q \in Rejects(k.q, p) : peer' = [peer EXCEPT ![c] = [k EXCEPT !.q = q]] /\ Spend(1)
  BY <1>1 DEF PeerReads
<1>5. UNCHANGED served
  BY DEF PeerReads
<1>6. p \in Datagrams /\ Sendable(p)
  BY DEF Inv, TypeOK, HostTypeOK
<1>7. ASSUME NEW n \in Peers, Sound(n), peer' = [peer EXCEPT ![c] = n], UNCHANGED faults \/ Spend(1)
      PROVE  Inv'
  BY <1>4, <1>5, <1>7, SilentPeerMoves
<1>8. /\ StartOver(k.q) \in Connection /\ Draining(k.q) \in Connection
      /\ Acked(k.q, {"hello"}) \in Connection
      /\ Acked(k.q, {"finished", "request"}) \in Connection
  <2>1. {"hello"} \in SUBSET Frames /\ {"finished", "request"} \in SUBSET Frames
    BY DEF Frames
  <2> QED
    BY <1>3, <2>1, ConnectionOps
<1>9. OnNegotiation(k, p) \in Peers /\ Sound(OnNegotiation(k, p))
  <2>1. [k EXCEPT !.ver = "v1", !.q = StartOver(k.q)] \in Peers
    BY <1>2, <1>8 DEF Peers
  <2>2. Sound([k EXCEPT !.ver = "v1", !.q = StartOver(k.q)])
    BY <1>2 DEF Peers, Sound
  <2> QED
    BY <1>2, <2>1, <2>2 DEF OnNegotiation
<1>10. ASSUME p.ver = "retry" PROVE OnRetry(k, p) \in Peers /\ Sound(OnRetry(k, p))
  <2> DEFINE n == [k EXCEPT !.token = p.token, !.dcid = p.cid, !.q = StartOver(k.q)]
  <2>1. p.token \in Tokens \cup {None} /\ p.cid \in Clients \cup Cids
    BY <1>6 DEF Datagrams
  <2>2. n \in Peers
    BY <1>2, <1>8, <2>1 DEF Peers
  <2>3. Sound(n)
    <3>1. n.polled = k.polled /\ n.reqSent = k.reqSent /\ n.http3 = k.http3 /\ n.dcid = p.cid
      BY <1>2 DEF Peers
    <3> QED
      BY <1>2, <1>6, <1>10, <3>1 DEF Sound, Sendable
  <2> QED
    BY <1>2, <2>2, <2>3 DEF OnRetry
<1>11. OnFlight(k) \in Peers /\ Sound(OnFlight(k))
  <2> DEFINE q == [Acked(k.q, {"hello"}) EXCEPT !.established = TRUE, !.unsent = {"finished"}]
  <2>1. {"finished"} \in SUBSET Frames
    BY DEF Frames
  <2>2. q \in Connection
    BY <1>8, <2>1 DEF Connection
  <2>3. OnFlight(k) = k \/ OnFlight(k) = [k EXCEPT !.q = q]
    BY DEF OnFlight
  <2> HIDE DEF q
  <2> QED
    BY <1>2, <2>2, <2>3, QuicOnly
<1>12. OnAnswer(k) \in Peers /\ Sound(OnAnswer(k))
  <2> DEFINE q == Acked(k.q, {"finished", "request"})
             n == [k EXCEPT !.q = q, !.finished = TRUE]
  <2>1. OnAnswer(k) = k \/ OnAnswer(k) = n
    BY DEF OnAnswer
  <2> HIDE DEF q
  <2>2. n \in Peers
    BY <1>2, <1>8 DEF Peers, q
  <2>3. Sound(n)
    BY <1>2 DEF Peers, Sound
  <2> QED
    BY <1>2, <2>1, <2>2, <2>3
<1>13. OnServerClose(k) \in Peers /\ Sound(OnServerClose(k))
  BY <1>2, <1>8, QuicOnly DEF OnServerClose
<1>14. PeerRecv(k, p) \in Peers /\ Sound(PeerRecv(k, p))
  <2>1. CASE ~Listens(k.q)
    BY <1>2, <2>1 DEF PeerRecv
  <2>2. CASE Listens(k.q) /\ p.ver = "negotiation"
    BY <1>9, <2>2 DEF PeerRecv
  <2>3. CASE Listens(k.q) /\ p.ver = "retry"
    BY <1>10, <2>3 DEF PeerRecv
  <2>4. CASE Listens(k.q) /\ p.ver = "v1" /\ p.frames = {"flight"}
    BY <1>11, <2>4 DEF PeerRecv
  <2>5. CASE Listens(k.q) /\ p.ver = "v1" /\ p.frames = {"response"}
    <3>1. p.frames # {"flight"}
      BY <2>5
    <3> QED
      BY <1>12, <2>5, <3>1 DEF PeerRecv
  <2>6. CASE /\ Listens(k.q) /\ p.ver \notin {"negotiation", "retry"}
             /\ ~(p.ver = "v1" /\ p.frames = {"flight"}) /\ ~(p.ver = "v1" /\ p.frames = {"response"})
    BY <1>13, <2>6 DEF PeerRecv
  <2> QED
    BY <2>1, <2>2, <2>3, <2>4, <2>5, <2>6
<1>15. \A q \in Rejects(k.q, p) : [k EXCEPT !.q = q] \in Peers /\ Sound([k EXCEPT !.q = q])
  BY <1>2, <1>3, RejectsClose, QuicOnly
<1> QED
  BY <1>4, <1>7, <1>14, <1>15

\* The event loop closes the connection or not; it polls what it has.
LEMMA PollsWhatItHas ==
  ASSUME NEW k \in Peers, Sound(k), k.q.established => k.reqSent
  PROVE  Polled(k) \in Peers /\ Sound(Polled(k))
<1>1. CASE ~k.q.established
  BY <1>1 DEF Polled, Sound
<1>2. CASE k.q.established
  <2> DEFINE q == IF k.finished THEN Closing(k.q) ELSE k.q
             n == [k EXCEPT !.polled = IF @ = "no" THEN "made" ELSE @, !.finished = FALSE, !.q = q]
  <2>1. k.q \in Connection
    BY DEF Peers
  <2>2. q \in Connection
    BY <2>1, ConnectionOps
  <2>3. Polled(k) = n
    BY <1>2 DEF Polled, Sound
  <2> HIDE DEF q
  <2>4. n \in Peers
    BY <2>2 DEF Peers
  <2>5. /\ n.polled # "unmade" /\ n.reqSent = k.reqSent /\ n.http3 = k.http3
        /\ n.token = k.token /\ n.dcid = k.dcid
    BY DEF Peers, Sound
  <2> HIDE DEF n
  <2> QED
    BY <2>3, <2>4, <2>5 DEF Sound
<1> QED
  BY <1>1, <1>2

\* A request is sent on a connection that has just been made.
LEMMA RequestMade ==
  ASSUME NEW k \in Peers, Sound(k), NEW sent \in BOOLEAN
  PROVE  /\ WithRequest(k, sent) \in Peers /\ Sound(WithRequest(k, sent))
         /\ WithRequest(k, sent).reqSent
<1> DEFINE q == IF sent /\ k.q.phase = "open"
                  THEN [k.q EXCEPT !.unsent = @ \cup {"request"}] ELSE k.q
           n == [k EXCEPT !.http3 = "made", !.reqSent = TRUE, !.q = q]
<1>1. k.q \in Connection /\ {"request"} \in SUBSET Frames
  BY DEF Peers, Frames
<1>2. q \in Connection
  BY <1>1, ConnectionOps
<1>3. WithRequest(k, sent) = n
  <2>1. CASE sent /\ k.q.phase = "open"
    BY <1>1, <2>1 DEF WithRequest, Peers, Connection
  <2>2. CASE ~(sent /\ k.q.phase = "open")
    BY <1>1, <2>2 DEF WithRequest, Peers, Connection
  <2> QED
    BY <2>1, <2>2
<1> HIDE DEF q
<1>4. n \in Peers
  BY <1>2 DEF Peers, Handles
<1>5. /\ n.polled = k.polled /\ n.reqSent /\ n.http3 = "made"
      /\ n.token = k.token /\ n.dcid = k.dcid
  BY DEF Peers
<1> HIDE DEF n
<1> QED
  BY <1>3, <1>4, <1>5 DEF Sound

\* Whatever a client does.
LEMMA PeerActs ==
  ASSUME Inv, NEW c \in Clients,
         \/ PeerStep(c) \/ Rebind(c) \/ PeerReads(c) \/ PeerReadFails(c)
         \/ Http3Fails(c) \/ PeerSendsNothing(c) \/ PeerTimerEarly(c)
  PROVE  Inv'
<1> DEFINE k == peer[c]
<1>1. k \in Peers /\ Sound(k) /\ k.q \in Connection
  BY DEF Inv, TypeOK, Peers
<1>2. \A l \in {"start", "wait", "reading", "ended"} :
        /\ [k EXCEPT !.loop = l] \in Peers /\ Sound([k EXCEPT !.loop = l])
        /\ [k EXCEPT !.loop = l].q = k.q
        /\ [k EXCEPT !.loop = l].reqSent = k.reqSent
  BY <1>1 DEF Peers, Sound
<1>3. CASE PeerStart(c)
  BY <1>2, <1>3, PeerFlushMoves DEF PeerStart
<1>4. CASE PeerEnds(c)
  <2>1. peer' = [peer EXCEPT ![c] = [k EXCEPT !.loop = "ended"]]
    BY <1>4 DEF PeerEnds
  <2> QED
    BY <1>2, <1>4, <2>1, SilentPeerMoves DEF PeerEnds
<1>5. CASE PeerReadDone(c)
  <2> DEFINE w == [k EXCEPT !.loop = "wait"]
             r == IF NeedsHttp3(w) THEN WithRequest(w, TRUE) ELSE w
  <2>1. w \in Peers /\ Sound(w)
    BY <1>2
  <2>2. PeerFlushes(c, Polled(r)) /\ UNCHANGED served
    BY <1>5 DEF PeerReadDone
  <2> HIDE DEF w
  <2>3. /\ r \in Peers /\ Sound(r)
        /\ r.q.established => r.reqSent
    <3>1. CASE NeedsHttp3(w)
      BY <2>1, <3>1, RequestMade
    <3>2. CASE ~NeedsHttp3(w)
      BY <2>1, <3>2 DEF NeedsHttp3
    <3> QED
      BY <3>1, <3>2
  <2> HIDE DEF r
  <2> QED
    BY <2>2, <2>3, PollsWhatItHas, PeerFlushMoves
<1>6. ASSUME NEW q \in Connection, PeerTimerFires(c, q) PROVE Inv'
  <2> DEFINE t == [k EXCEPT !.q = q]
             n == IF q.phase = "closed" THEN [t EXCEPT !.loop = "ended"] ELSE t
  <2>1. t \in Peers /\ Sound(t)
    BY <1>1, QuicOnly
  <2>2. PeerFlushes(c, n) /\ UNCHANGED served
    BY <1>6 DEF PeerTimerFires
  <2> HIDE DEF t
  <2>3. n \in Peers /\ Sound(n)
    BY <2>1 DEF Peers, Sound
  <2> HIDE DEF n
  <2> QED
    BY <2>2, <2>3, PeerFlushMoves
<1>7. CASE Rebind(c)
  <2> DEFINE n == [k EXCEPT !.addr = [k.addr EXCEPT !.n = @ + 1]]
  <2>1. peer' = [peer EXCEPT ![c] = n] /\ UNCHANGED <<served, net, dups, faults>>
    BY <1>1, <1>7 DEF Rebind, Peers
  <2>2. [k.addr EXCEPT !.n = @ + 1] \in Addresses
    <3>1. k.addr \in Addresses /\ k.addr.n < MaxRebinds /\ MaxRebinds \in Nat
      BY <1>1, <1>7, QuicAssumption DEF Rebind, Peers
    <3>2. k.addr.n + 1 \in 0..MaxRebinds
      BY <3>1 DEF Addresses
    <3> QED
      BY <3>1, <3>2 DEF Addresses
  <2>3. n \in Peers /\ Sound(n)
    BY <1>1, <2>2 DEF Peers, Sound
  <2> HIDE DEF n
  <2> QED
    BY <2>1, <2>3, SilentPeerMoves
<1>8. CASE PeerReads(c)
  BY <1>8, PeerHears
<1>9. CASE PeerReadFails(c)
  <2>1. peer' = [peer EXCEPT ![c] = [k EXCEPT !.loop = "wait"]]
    BY <1>9 DEF PeerReadFails
  <2> QED
    BY <1>2, <1>9, <2>1, SilentPeerMoves DEF PeerReadFails
<1>10. CASE Http3Fails(c)
  <2>1. PICK http3 \in {k.http3, "null"} :
          peer' = [peer EXCEPT ![c] = [k EXCEPT !.http3 = http3, !.loop = "wait"]]
    BY <1>10 DEF Http3Fails
  <2> DEFINE n == [k EXCEPT !.http3 = http3, !.loop = "wait"]
  <2>2. n \in Peers
    BY <1>1 DEF Peers, Handles
  <2>3. Sound(n)
    BY <1>1, <1>10 DEF Http3Fails, NeedsHttp3, Peers, Sound
  <2> HIDE DEF n
  <2> QED
    BY <1>10, <2>1, <2>2, <2>3, SilentPeerMoves DEF Http3Fails, n
<1>11. CASE PeerSendsNothing(c)
  <2> DEFINE w == [k EXCEPT !.loop = "wait"]
             n == Polled(WithRequest(w, FALSE))
  <2>1. w \in Peers /\ Sound(w)
    BY <1>2
  <2>2. /\ peer' = [peer EXCEPT ![c] = Flushed(n, "through")]
        /\ Send(IF HasToSend(n.q) THEN {Packet(n, n.q.unsent)} ELSE {})
        /\ Spend(1) /\ UNCHANGED served
    BY <1>11 DEF PeerSendsNothing
  <2> HIDE DEF w
  <2>3. n \in Peers /\ Sound(n)
    BY <2>1, RequestMade, PollsWhatItHas
  <2> HIDE DEF n
  <2>4. (IF HasToSend(n.q) THEN {Packet(n, n.q.unsent)} ELSE {})
          = IF HasToSend(n.q) /\ "through" # "sendFails" THEN {Packet(n, n.q.unsent)} ELSE {}
    OBVIOUS
  <2>5. "through" \in Hows
    BY DEF Hows
  <2> QED
    BY <2>2, <2>3, <2>4, <2>5, FlushMoves
<1>12. CASE PeerTimeout(c) \/ PeerTimerEarly(c)
  <2>1. OnTimeout(k.q) \in Connection
    BY <1>1, ConnectionOps
  <2> QED
    BY <1>1, <1>6, <1>12, <2>1 DEF PeerTimeout, PeerTimerEarly
<1> QED
  BY <1>3, <1>4, <1>5, <1>7, <1>8, <1>9, <1>10, <1>11, <1>12 DEF PeerStep

-----------------------------------------------------------------------------
(* The server.                                                             *)

\* A step of the server keeps the invariant if every entry it leaves is typed and
\* every timer is an entry's.
LEMMA TableMoves ==
  ASSUME Inv, UNCHANGED peer, minted' \subseteq Tokens, IsFiniteSet(minted'),
         pass' \in {"whole", "cut", "reading"},
         ticking' \subseteq DOMAIN table', DOMAIN table' \subseteq Cids,
         \A i \in DOMAIN table' : table'[i] \in Entries,
         NEW out, Delivers(out), \A p \in out : Sendable(p)
  PROVE  Inv'
<1>1. net' \subseteq Datagrams /\ \A p \in net' : Sendable(p)
  BY DEF Inv, TypeOK, HostTypeOK, Delivers, Sendable
<1>2. TypeOK'
  BY <1>1 DEF Inv, TypeOK, HostTypeOK, Delivers
<1>3. \A d \in Clients : Sound(peer[d])'
  BY DEF Inv, Sound
<1> QED
  BY <1>1, <1>2, <1>3 DEF Inv, Delivers

\* What quiche does to an entry leaves an entry.
LEMMA EntriesTyped ==
  ASSUME NEW e \in Entries
  PROVE  /\ \A p : p.from \in Addresses => ServerRecv(e, p) \in Entries
         /\ AfterFlush(e) \in Entries
         /\ \A q \in Connection : [e EXCEPT !.q = q] \in Entries
         /\ \A sent \in BOOLEAN : Answered([e EXCEPT !.http3 = "made"], sent) \in Entries
<1>1. e.q \in Connection /\ e.path \in Addresses
  BY DEF Entries
<1>2. Sent(e.q) \in Connection /\ [e.q EXCEPT !.unsent = @ \cup {"response"}] \in Connection
  <2>1. {"response"} \in SUBSET Frames
    BY DEF Frames
  <2> QED
    BY <1>1, <2>1, ConnectionOps
<1>3. AfterFlush(e) \in Entries
  BY <1>2 DEF AfterFlush, Entries
<1>4. \A q \in Connection : [e EXCEPT !.q = q] \in Entries
  BY DEF Entries
<1>5. ASSUME NEW sent \in BOOLEAN PROVE Answered([e EXCEPT !.http3 = "made"], sent) \in Entries
  <2> DEFINE r == [e EXCEPT !.http3 = "made"]
             q == IF sent THEN [e.q EXCEPT !.unsent = @ \cup {"response"}] ELSE e.q
  <2>1. r \in Entries /\ r.q = e.q
    BY DEF Entries, Handles
  <2>2. q \in Connection
    BY <1>1, <1>2
  <2> HIDE DEF r
  <2>3. \/ Answered(r, sent) = r
        \/ Answered(r, sent) = [r EXCEPT !.stream = "answered", !.q = q]
    <3>1. CASE sent
      BY <2>1, <3>1 DEF Answered, Entries
    <3>2. CASE ~sent
      <4>1. [e.q EXCEPT !.unsent = e.q.unsent] = e.q
        BY <1>1 DEF Connection
      <4> QED
        BY <2>1, <3>2, <4>1 DEF Answered, Entries
    <3> QED
      BY <3>1, <3>2
  <2> HIDE DEF q
  <2>4. [r EXCEPT !.stream = "answered", !.q = q] \in Entries
    BY <2>1, <2>2 DEF Entries
  <2> QED
    BY <2>1, <2>3, <2>4 DEF r
<1>6. ASSUME NEW p, p.from \in Addresses PROVE ServerRecv(e, p) \in Entries
  <2> DEFINE r == ServerRecv(e, p)
  <2>1. Recvd(e, p, r)
    <3>1. e.stream \in Streams
      BY DEF Entries, Streams
    <3> QED
      BY <1>1, <3>1, ServerRecvs
  <2> HIDE DEF r
  <2>2. ASSUME NEW q \in Connection, NEW path \in {e.path, p.from}, NEW stream \in Streams,
               \/ r = [e EXCEPT !.q = q]
               \/ r = [e EXCEPT !.q = q, !.path = path]
               \/ r = [e EXCEPT !.q = q, !.path = path, !.stream = stream]
        PROVE  r \in Entries
    BY <1>1, <1>6, <2>2 DEF Entries, Streams
  <2>3. r \in Entries
    BY <2>1, <2>2, Zenon DEF Recvd
  <2> QED
    BY <2>3 DEF r
<1> QED
  BY <1>3, <1>4, <1>5, <1>6

\* A reading that leaves the table as it is.
LEMMA StatelessMoves ==
  ASSUME Inv, NEW p \in net, NEW out, IsFiniteSet(out), Read(p, out),
         \A a \in out : Sendable(a), minted' \subseteq Tokens, IsFiniteSet(minted'),
         pass' = "reading", UNCHANGED <<peer, table, ticking>>, UNCHANGED faults \/ Spend(1)
  PROVE  Inv'
<1>1. faults' \in 0..MaxFaults
  BY Spends DEF Inv, TypeOK, HostTypeOK
<1>2. Delivers(out)
  BY <1>1, Reads DEF Inv, TypeOK, HostTypeOK, Delivers
<1> QED
  BY <1>2, TableMoves DEF Inv, TypeOK

\* A reading that changes entry i or makes it.
LEMMA EntryMoves ==
  ASSUME Inv, NEW p \in net, Read(p, {}), NEW i \in Cids, NEW e \in Entries,
         table' = WithEntry(table, i, e), UNCHANGED faults \/ Spend(1),
         pass' = "reading", UNCHANGED <<peer, ticking, minted>>
  PROVE  Inv'
<1>1. faults' \in 0..MaxFaults
  BY Spends DEF Inv, TypeOK, HostTypeOK
<1>2. IsFiniteSet({})
  BY FS_EmptySet
<1>3. Delivers({})
  BY <1>1, <1>2, Reads DEF Inv, TypeOK, HostTypeOK, Delivers
<1>5. DOMAIN table' = DOMAIN table \cup {i}
  BY DEF WithEntry
<1>6. \A j \in DOMAIN table' : table'[j] \in Entries
  BY <1>5 DEF WithEntry, Inv, TypeOK
<1>7. /\ ticking' \subseteq DOMAIN table' /\ DOMAIN table' \subseteq Cids
      /\ minted' \subseteq Tokens /\ IsFiniteSet(minted')
  BY <1>5 DEF Inv, TypeOK, HostTypeOK
<1> QED
  BY <1>3, <1>6, <1>7, TableMoves

\* A reading that serves entry i, whatever fails on the way.
LEMMA ServeMoves ==
  ASSUME Inv, NEW p \in net, Read(p, {}), NEW i \in Cids, NEW r \in Entries, Serve(i, r),
         pass' = "reading", UNCHANGED <<peer, ticking, minted>>
  PROVE  Inv'
<1>1. PICK e \in Entries : table' = WithEntry(table, i, e)
  BY EntriesTyped DEF Serve
<1>2. UNCHANGED faults \/ Spend(1)
  BY DEF Serve
<1> QED
  BY <1>1, <1>2, EntryMoves

\* Whatever the server reads.
LEMMA TableHears ==
  ASSUME Inv,
         \/ Negotiate \/ SendRetry \/ Refuse \/ AcceptPeer \/ RecvPeer \/ Malformed
  PROVE  Inv'
<1> USE QuicAssumption
<1>0. /\ minted \subseteq Tokens /\ IsFiniteSet(minted)
      /\ \A p \in net : Sendable(p)
  BY DEF Inv, TypeOK, HostTypeOK
<1>1. CASE Negotiate
  <2>1. PICK p \in net : Unknown(p) /\ Read(p, {Stateless(p, "negotiation", p.cid, None)})
    BY <1>1 DEF Negotiate
  <2> DEFINE a == Stateless(p, "negotiation", p.cid, None)
  <2>2. p \in Datagrams /\ p.from \in Addresses
    BY <1>0, <2>1 DEF Unknown, Sendable
  <2>3. Sendable(a)
    BY <2>2 DEF Stateless, Datagrams, Versions, Sendable
  <2>4. IsFiniteSet({a})
    BY FS_Singleton
  <2>5. minted' \subseteq Tokens /\ IsFiniteSet(minted') /\ pass' = "reading"
        /\ UNCHANGED <<peer, table, ticking, faults>>
    BY <1>0, <1>1 DEF Negotiate
  <2> HIDE DEF a
  <2> QED
    BY <2>1, <2>3, <2>4, <2>5, StatelessMoves DEF a
<1>2. CASE SendRetry
  <2>1. PICK p \in net :
          /\ Unknown(p) /\ p.cid \in Clients /\ Cardinality(minted) < MaxCids
          /\ minted' = minted \cup {MintToken(p)}
          /\ Read(p, {Stateless(p, "retry", MintToken(p).cid, MintToken(p))})
    BY <1>2 DEF SendRetry
  <2>2. PICK t : t = MintToken(p)
    OBVIOUS
  <2> DEFINE a == Stateless(p, "retry", t.cid, t)
  <2>3. p \in Datagrams /\ p.from \in Addresses
    BY <1>0, <2>1 DEF Unknown, Sendable
  <2>4. t \in Tokens
    <3>1. Cardinality(minted) + 1 \in Cids
      BY <1>0, <2>1, FS_CardinalityType DEF Cids
    <3> QED
      BY <2>1, <2>2, <2>3, <3>1 DEF MintToken, Tokens
  <2>5. minted' \subseteq Tokens /\ IsFiniteSet(minted')
    BY <1>0, <2>1, <2>2, <2>4, FS_AddElement
  <2>6. Sendable(a)
    <3>1. t.cid \in Cids
      BY <2>4 DEF Tokens
    <3> QED
      BY <2>3, <2>4, <3>1 DEF Stateless, Datagrams, Versions, Sendable
  <2>7. IsFiniteSet({a}) /\ Read(p, {a})
    BY <2>1, <2>2, FS_Singleton
  <2> HIDE DEF a
  <2>8. pass' = "reading" /\ UNCHANGED <<peer, table, ticking, faults>>
    BY <1>2 DEF SendRetry
  <2> QED
    BY <2>5, <2>6, <2>7, <2>8, StatelessMoves
<1>3. CASE Refuse
  <2>1. PICK p \in net : Read(p, {})
    BY <1>3 DEF Refuse
  <2>2. IsFiniteSet({}) /\ pass' = "reading" /\ UNCHANGED <<peer, table, ticking, minted, faults>>
    BY <1>3, FS_EmptySet DEF Refuse
  <2> QED
    BY <1>0, <2>1, <2>2, StatelessMoves
<1>4. CASE AcceptPeer
  <2>1. PICK p \in net :
          /\ Unknown(p) /\ ValidToken(p) /\ Read(p, {})
          /\ \/ Serve(p.cid, ServerRecv(CreateConn(p), p))
             \/ UNCHANGED table /\ Spend(1)
             \/ /\ table' = WithEntry(table, p.cid, [CreateConn(p) EXCEPT !.q = Closing(@)])
                /\ Spend(1)
    BY <1>4 DEF AcceptPeer
  <2>2. pass' = "reading" /\ UNCHANGED <<peer, ticking, minted>>
    BY <1>4 DEF AcceptPeer
  <2>3. p.from \in Addresses
    BY <1>0, <2>1 DEF Unknown, Sendable
  <2>4. CASE UNCHANGED table /\ Spend(1)
    <3>1. IsFiniteSet({})
      BY FS_EmptySet
    <3> QED
      BY <1>0, <2>1, <2>2, <2>4, <3>1, StatelessMoves
  <2>5. p.cid \in Cids
    BY <1>0, <2>1 DEF Unknown, ValidToken, Sendable
  <2>6. Accept \in Connection
    BY MaxPtosAssumption DEF Accept, Fresh, Connection, Phases, Frames
  <2>7. CreateConn(p) \in Entries
    BY <2>3, <2>6 DEF CreateConn, Entries, Handles
  <2>8. CASE Serve(p.cid, ServerRecv(CreateConn(p), p))
    <3>1. ServerRecv(CreateConn(p), p) \in Entries
      BY <2>3, <2>7, EntriesTyped
    <3> QED
      BY <2>1, <2>2, <2>5, <2>8, <3>1, ServeMoves
  <2>9. CASE /\ table' = WithEntry(table, p.cid, [CreateConn(p) EXCEPT !.q = Closing(@)])
             /\ Spend(1)
    <3>1. CreateConn(p).q \in Connection
      BY <2>7 DEF Entries
    <3>2. Closing(CreateConn(p).q) \in Connection
      BY <3>1, ConnectionOps
    <3>3. [CreateConn(p) EXCEPT !.q = Closing(@)] \in Entries
      BY <2>7, <3>2, EntriesTyped
    <3> QED
      BY <2>1, <2>2, <2>5, <2>9, <3>3, EntryMoves
  <2> QED
    BY <2>1, <2>4, <2>8, <2>9
<1>5. CASE RecvPeer
  <2>1. PICK p \in net :
          /\ p.to = Server /\ p.cid \in DOMAIN table /\ Read(p, {})
          /\ \/ Serve(p.cid, ServerRecv(table[p.cid], p))
             \/ \E e \in ServerRejects(table[p.cid], p) :
                  table' = WithEntry(table, p.cid, e) /\ Spend(1)
    BY <1>5 DEF RecvPeer
  <2>2. p.from \in Addresses
    BY <1>0, <2>1 DEF Sendable
  <2>3. p.cid \in Cids /\ table[p.cid] \in Entries
    BY <2>1 DEF Inv, TypeOK
  <2>4. ServerRecv(table[p.cid], p) \in Entries
    BY <2>2, <2>3, EntriesTyped
  <2>5. pass' = "reading" /\ UNCHANGED <<peer, ticking, minted>>
    BY <1>5 DEF RecvPeer
  <2>6. \A e \in ServerRejects(table[p.cid], p) : e \in Entries
    <3>1. Closing(table[p.cid].q) \in Connection
      BY <2>3, ConnectionOps DEF Entries
    <3> QED
      BY <2>3, <3>1, EntriesTyped DEF ServerRejects
  <2> QED
    BY <2>1, <2>3, <2>4, <2>5, <2>6, ServeMoves, EntryMoves
<1>6. CASE Malformed
  <2>1. faults' \in 0..MaxFaults
    BY <1>6, Spends DEF Malformed, Inv, TypeOK, HostTypeOK
  <2>2. Delivers({})
    BY <1>6, <2>1 DEF Malformed, Delivers, Inv, TypeOK, HostTypeOK
  <2> QED
    BY <1>0, <1>6, <2>2, TableMoves DEF Malformed, Inv, TypeOK
<1> QED
  BY <1>1, <1>2, <1>3, <1>4, <1>5, <1>6

\* What a flush of an entry sends goes to the address the entry was made for.
LEMMA RepliesTyped ==
  ASSUME NEW i \in Cids, NEW e \in Entries, NEW how
  PROVE  /\ IsFiniteSet(ToPeerAddr(i, e, how))
         /\ \A p \in ToPeerAddr(i, e, how) : Sendable(p)
<1> DEFINE a == [to |-> e.addr, from |-> Server, ver |-> "v1", cid |-> i,
                 token |-> None, frames |-> e.q.unsent]
<1>1. e.addr \in Addresses /\ e.q.unsent \in SUBSET Frames
  BY DEF Entries, Connection
<1>2. a \in Datagrams
  BY <1>1 DEF Datagrams, Versions
<1>3. Sendable(a)
  BY <1>1, <1>2, QuicAssumption DEF Sendable
<1>4. ToPeerAddr(i, e, how) = {} \/ ToPeerAddr(i, e, how) = {a}
  BY DEF ToPeerAddr
<1> HIDE DEF a
<1>5. IsFiniteSet({}) /\ IsFiniteSet({a})
  BY FS_EmptySet, FS_Singleton
<1> QED
  BY <1>3, <1>4, <1>5

\* The end of recv_cb: every entry is flushed, and what goes takes its timer along.
LEMMA PassEnds == ASSUME Inv, ReadDone PROVE Inv'
<1> DEFINE after == [i \in DOMAIN table |-> AfterFlush(table[i])]
<1>1. PICK how \in [DOMAIN table -> Hows] :
        /\ Spend(Cardinality({i \in DOMAIN table : how[i] # "through"}))
        /\ table' = Without(after, Dead(after))
        /\ ticking' = {i \in DOMAIN table : Ticks(i, table[i], how[i])} \ Dead(after)
        /\ Send(UNION {ToPeerAddr(i, table[i], how[i]) : i \in DOMAIN table})
  BY DEF ReadDone
<1> DEFINE sends == [i \in DOMAIN table |-> ToPeerAddr(i, table[i], how[i])]
           all == {ToPeerAddr(i, table[i], how[i]) : i \in DOMAIN table}
           hitches == {i \in DOMAIN table : how[i] # "through"}
<1>2. DOMAIN table \subseteq Cids /\ \A i \in DOMAIN table : table[i] \in Entries
  BY DEF Inv, TypeOK
<1>3. IsFiniteSet(DOMAIN table)
  <2>1. IsFiniteSet(Cids)
    BY FS_Interval, QuicAssumption DEF Cids
  <2> QED
    BY <1>2, <2>1, FS_Subset
<1>4. faults' \in 0..MaxFaults
  <2>1. hitches \in SUBSET DOMAIN table
    OBVIOUS
  <2>2. Cardinality(hitches) \in Nat
    BY <1>3, <2>1, FS_Subset, FS_CardinalityType
  <2>3. Spend(Cardinality(hitches)) /\ faults \in 0..MaxFaults
    BY <1>1 DEF Inv, TypeOK, HostTypeOK
  <2> HIDE DEF hitches
  <2> QED
    BY <2>2, <2>3, Spends
<1>5. \A a \in all : IsFiniteSet(a) /\ \A p \in a : Sendable(p)
  BY <1>2, RepliesTyped
<1>6. IsFiniteSet(UNION all)
  <2>1. sends \in Surjection(DOMAIN table, all)
    BY DEF Surjection
  <2>2. IsFiniteSet(all)
    BY <1>3, <2>1, FS_Surjection
  <2> HIDE DEF all
  <2> QED
    BY <1>5, <2>2, FS_UNION
<1>7. Delivers(UNION all)
  <2>1. Send(UNION all)
    BY <1>1
  <2> HIDE DEF all
  <2> QED
    BY <1>4, <1>6, <2>1, Sends DEF Inv, TypeOK, HostTypeOK, Delivers
<1>8. \A p \in UNION all : Sendable(p)
  BY <1>5
<1>9. DOMAIN table' = DOMAIN table \ Dead(after)
  BY <1>1 DEF Without
<1>10. \A i \in DOMAIN table' : table'[i] \in Entries
  <2>1. \A i \in DOMAIN table' : i \in DOMAIN table /\ table'[i] = AfterFlush(table[i])
    BY <1>1, <1>9 DEF Without
  <2> QED
    BY <1>2, <2>1, EntriesTyped
<1>11. ticking' \subseteq DOMAIN table' /\ DOMAIN table' \subseteq Cids
  BY <1>1, <1>2, <1>9
<1>12. UNCHANGED <<peer, minted>> /\ pass' = "whole"
  BY DEF ReadDone
<1>13. minted' \subseteq Tokens /\ IsFiniteSet(minted')
  BY <1>12 DEF Inv, TypeOK, HostTypeOK
<1> HIDE DEF all
<1> QED
  BY <1>7, <1>8, <1>10, <1>11, <1>12, <1>13, TableMoves

\* timeout_cb of one entry.
LEMMA TickMoves ==
  ASSUME Inv, NEW i \in ticking, NEW q \in Connection, TimerFires(i, q)
  PROVE  Inv'
<1>1. /\ DOMAIN table \subseteq Cids /\ ticking \subseteq DOMAIN table
      /\ \A j \in DOMAIN table : table[j] \in Entries
  BY DEF Inv, TypeOK
<1>2. PICK how \in Hows :
        LET e == [table[i] EXCEPT !.q = q]
            after == [table EXCEPT ![i] = AfterFlush(e)]
            gone == Dead(after) \cap {i}
        IN  /\ Spend(Price(how))
            /\ table' = Without(after, gone)
            /\ ticking' = (ticking \ {i}) \cup (IF Ticks(i, e, how) THEN {i} \ gone ELSE {})
            /\ Send(ToPeerAddr(i, e, how))
  BY DEF TimerFires
<1>3. PICK e : e = [table[i] EXCEPT !.q = q]
  OBVIOUS
<1> DEFINE after == [table EXCEPT ![i] = AfterFlush(e)]
           gone == Dead(after) \cap {i}
           out == ToPeerAddr(i, e, how)
<1>4. i \in DOMAIN table /\ i \in Cids /\ e \in Entries
  BY <1>1, <1>3, EntriesTyped
<1>5. IsFiniteSet(out) /\ \A p \in out : Sendable(p)
  BY <1>4, RepliesTyped
<1>6. Delivers(out)
  <2>1. Send(out) /\ Spend(Price(how)) /\ Price(how) \in Nat
    BY <1>2, <1>3 DEF Price
  <2> HIDE DEF out
  <2> QED
    BY <1>5, <2>1, Sends, Spends DEF Inv, TypeOK, HostTypeOK, Delivers
<1>7. table' = Without(after, gone)
  BY <1>2, <1>3
<1>8. DOMAIN table' = DOMAIN table \ gone
  BY <1>7 DEF Without
<1>9. \A j \in DOMAIN table' : table'[j] \in Entries
  <2>1. \A j \in DOMAIN table' :
          j \in DOMAIN table /\ table'[j] = IF j = i THEN AfterFlush(e) ELSE table[j]
    BY <1>7, <1>8 DEF Without
  <2> QED
    BY <1>1, <1>4, <2>1, EntriesTyped
<1>10. ticking' \subseteq DOMAIN table' /\ DOMAIN table' \subseteq Cids
  <2>1. ticking' = (ticking \ {i}) \cup (IF Ticks(i, e, how) THEN {i} \ gone ELSE {})
    BY <1>2, <1>3
  <2>2. gone \subseteq {i}
    OBVIOUS
  <2> HIDE DEF gone
  <2> QED
    BY <1>1, <1>4, <1>8, <2>1, <2>2
<1>11. UNCHANGED <<peer, pass, minted>>
  BY DEF TimerFires
<1>12. /\ minted' \subseteq Tokens /\ IsFiniteSet(minted')
       /\ pass' \in {"whole", "cut", "reading"}
  BY <1>11 DEF Inv, TypeOK, HostTypeOK
<1> HIDE DEF out
<1> QED
  BY <1>5, <1>6, <1>9, <1>10, <1>11, <1>12, TableMoves

\* It fires with a deadline passed or before any has.
LEMMA TimerEnds == ASSUME Inv, Timeout \/ TimerEarly PROVE Inv'
<1>1. PICK i \in ticking : TimerFires(i, OnTimeout(table[i].q)) \/ TimerFires(i, table[i].q)
  BY DEF Timeout, TimerEarly
<1>2. table[i].q \in Connection
  BY DEF Inv, TypeOK, Entries
<1>3. OnTimeout(table[i].q) \in Connection
  BY <1>2, ConnectionOps
<1> QED
  BY <1>1, <1>2, <1>3, TickMoves

-----------------------------------------------------------------------------
(* What follows.                                                           *)

\* Every step keeps the invariant: client, server and network.
LEMMA StepsKeepInv == ASSUME Inv, [Next]_vars PROVE Inv'
<1>1. ASSUME NEW c \in Clients,
             \/ PeerStep(c) \/ Rebind(c) \/ PeerReads(c) \/ PeerReadFails(c)
             \/ Http3Fails(c) \/ PeerSendsNothing(c) \/ PeerTimerEarly(c)
      PROVE  Inv'
  BY <1>1, PeerActs
<1>2. CASE ReadDone
  BY <1>2, PassEnds
<1>3. CASE Timeout \/ TimerEarly
  BY <1>3, TimerEnds
<1>4. CASE Negotiate \/ SendRetry \/ Refuse \/ AcceptPeer \/ RecvPeer \/ Malformed
  BY <1>4, TableHears
<1>5. CASE Lose
  <2>1. PICK p \in net : net' = net \ {p}
    BY <1>5 DEF Lose
  <2>2. UNCHANGED <<peer, served, dups, faults>>
    BY <1>5 DEF Lose
  <2>3. IsFiniteSet(net') /\ Cardinality(net') = Cardinality(net) - 1
    BY <2>1, FS_RemoveElement DEF Inv
  <2>4. Cardinality(net) \in Nat /\ Cardinality(net) <= MaxNet /\ MaxNet \in Nat
    BY FS_CardinalityType, QuicAssumption DEF Inv, TypeOK, HostTypeOK
  <2>5. Cardinality(net') <= MaxNet
    BY <2>3, <2>4
  <2>6. Delivers({})
    BY <2>1, <2>2, <2>3, <2>5 DEF Delivers, Inv, TypeOK, HostTypeOK
  <2> QED
    BY <2>2, <2>6, TableMoves DEF served, Inv, TypeOK, HostTypeOK
<1>6. CASE UNCHANGED vars
  BY <1>6 DEF vars, Inv, TypeOK, HostTypeOK, Sound, Sendable
<1> QED
  BY <1>1, <1>2, <1>3, <1>4, <1>5, <1>6 DEF Next

LEMMA InvAtFirst == Init => Inv
<1> SUFFICES ASSUME Init PROVE Inv
  OBVIOUS
<1> USE QuicAssumption, MaxPtosAssumption DEF Init, TableInit, HostInit
<1>1. Connect \in Connection
  BY DEF Connect, Fresh, Connection, Phases, Frames
<1>2. ASSUME NEW c \in Clients PROVE PeerInit(c) \in Peers /\ Sound(PeerInit(c))
  <2>1. [of |-> c, n |-> 0] \in Addresses
    BY DEF Addresses
  <2>2. PeerInit(c) \in Peers
    BY <1>1, <2>1 DEF PeerInit, Peers, Handles
  <2> QED
    BY <2>2 DEF PeerInit, Sound
<1>3. DOMAIN table = {}
  OBVIOUS
<1>4. IsFiniteSet({}) /\ Cardinality({}) = 0
  BY FS_EmptySet
<1>5. HostTypeOK
  BY <1>4 DEF HostTypeOK
<1>6. peer \in [Clients -> Peers] /\ \A c \in Clients : Sound(peer[c])
  BY <1>2
<1>7. TypeOK
  BY <1>3, <1>5, <1>6 DEF TypeOK
<1> QED
  BY <1>3, <1>4, <1>6, <1>7 DEF Inv

\* The programs keep their types whatever arrives, and free with an entry the
\* timer that would run for it.
THEOREM Http3Typed == Spec => [](TypeOK /\ ticking \subseteq DOMAIN table)
<1>1. Spec => []Inv
  BY InvAtFirst, StepsKeepInv, PTL DEF Spec
<1>2. Inv => TypeOK /\ ticking \subseteq DOMAIN table
  BY DEF Inv
<1> QED
  BY <1>1, <1>2, PTL

\* However often making the HTTP/3 connection fails, and whatever order packets
\* come in, the client's event loop runs on one that was made.
THEOREM PollsOnlyTheMade == Spec => []PolledIsMade
<1>1. Spec => []Inv
  BY InvAtFirst, StepsKeepInv, PTL DEF Spec
<1>2. Inv => PolledIsMade
  BY DEF Inv, PolledIsMade, Sound
<1> QED
  BY <1>1, <1>2, PTL
=============================================================================
