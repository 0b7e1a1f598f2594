--------------------------- MODULE QuicHostProofs ---------------------------
(***************************************************************************)
(* What the operators of Quiche and QuicHost return, for the proofs about  *)
(* the programs that use them.                                             *)
(***************************************************************************)
EXTENDS QuicHost, FiniteSetTheorems, TLAPS

\* Whatever quiche does to a connection leaves a connection.
LEMMA ConnectionOps ==
  ASSUME NEW q \in Connection, NEW frames \in SUBSET Frames
  PROVE  /\ StartOver(q) \in Connection /\ Acked(q, frames) \in Connection
         /\ Sent(q) \in Connection /\ Closing(q) \in Connection
         /\ Draining(q) \in Connection /\ OnTimeout(q) \in Connection
         /\ [q EXCEPT !.unsent = @ \cup frames] \in Connection
<1> USE MaxPtosAssumption DEF Connection, Phases
<1>0. /\ {"hello"} \in SUBSET Frames /\ {} \in SUBSET Frames /\ 0 \in 0..MaxPtos
      /\ {IF q.established THEN "close" ELSE "abort"} \in SUBSET Frames
  BY DEF Frames
<1>1. StartOver(q) \in Connection
  BY <1>0 DEF StartOver
<1>2. Acked(q, frames) \in Connection
  <2>1. q.unsent \ frames \in SUBSET Frames /\ q.unacked \ frames \in SUBSET Frames
    OBVIOUS
  <2> QED
    BY <1>0, <2>1 DEF Acked
<1>3. Sent(q) \in Connection
  BY <1>0 DEF Sent
<1>4. Closing(q) \in Connection
  BY <1>0 DEF Closing
<1>5. Draining(q) \in Connection
  BY <1>0 DEF Draining
<1>6. OnTimeout(q) \in Connection
  <2>1. CASE q.phase = "draining"
    BY <2>1 DEF OnTimeout
  <2>2. CASE q.phase \in {"open", "closing"} /\ q.unacked # {} /\ q.ptos < MaxPtos
    <3>1. OnTimeout(q) = [q EXCEPT !.unsent = @ \cup q.unacked, !.ptos = @ + 1]
      BY <2>2 DEF OnTimeout
    <3>2. q.ptos + 1 \in 0..MaxPtos
      BY <2>2
    <3> QED
      BY <3>1, <3>2
  <2>3. CASE q.phase # "draining" /\ ~(q.phase \in {"open", "closing"} /\ q.unacked # {} /\ q.ptos < MaxPtos)
    <3>1. OnTimeout(q) = [q EXCEPT !.phase = "closed"]
      BY <2>3 DEF OnTimeout
    <3> QED
      BY <3>1
  <2> QED
    BY <2>1, <2>2, <2>3
<1>7. [q EXCEPT !.unsent = @ \cup frames] \in Connection
  OBVIOUS
<1> QED
  BY <1>1, <1>2, <1>3, <1>4, <1>5, <1>6, <1>7

\* Nothing but the peer's flight ends a handshake, and nothing undoes it.
LEMMA HandshakeStands ==
  ASSUME NEW q \in Connection, NEW frames \in SUBSET Frames
  PROVE  /\ StartOver(q).established = q.established
         /\ Acked(q, frames).established = q.established
         /\ Sent(q).established = q.established
         /\ Closing(q).established = q.established
         /\ Draining(q).established = q.established
         /\ OnTimeout(q).established = q.established
  BY DEF StartOver, Acked, Sent, Closing, Draining, OnTimeout, Connection

\* A failing quiche_conn_recv leaves a client with a connection, and the handshake as
\* it was.
LEMMA RejectsClose ==
  ASSUME NEW q \in Connection, NEW p, NEW r \in Rejects(q, p)
  PROVE  r \in Connection /\ r.established = q.established
<1> DEFINE h == [q EXCEPT !.heard = TRUE]
<1>1. h \in Connection /\ h.established = q.established
  BY DEF Connection
<1>2. r = Closing(q) \/ r = Closing(h)
  BY DEF Rejects
<1> HIDE DEF h
<1> QED
  BY <1>1, <1>2, ConnectionOps, HandshakeStands

\* At the server quiche_conn_recv changes the connection, the path and the stream:
\* the path to the address the datagram came from, or not at all.
Streams == {"none", "readable", "answered"}
Recvd(e, p, r) ==
  \/ r = e
  \/ \E q \in Connection, path \in {e.path, p.from}, stream \in Streams :
       \/ r = [e EXCEPT !.q = q]
       \/ r = [e EXCEPT !.q = q, !.path = path]
       \/ r = [e EXCEPT !.q = q, !.path = path, !.stream = stream]

LEMMA ServerRecvs ==
  ASSUME NEW e, e.q \in Connection, e.stream \in Streams, NEW p
  PROVE  Recvd(e, p, ServerRecv(e, p))
<1> DEFINE first == [Acked(e.q, {}) EXCEPT !.unsent = {"flight"}]
           done == [Acked(e.q, {"flight"}) EXCEPT !.established = TRUE]
           gone == Draining([e.q EXCEPT !.heard = TRUE])
           path == Migrated(e.path, p)
           stream == IF "request" \in p.frames /\ e.stream = "none" THEN "readable" ELSE e.stream
<1>1. first \in Connection /\ done \in Connection /\ gone \in Connection
  <2>1. {} \in SUBSET Frames /\ {"flight"} \in SUBSET Frames
    BY DEF Frames
  <2>2. Acked(e.q, {}) \in Connection /\ Acked(e.q, {"flight"}) \in Connection
    BY <2>1, ConnectionOps
  <2>3. [e.q EXCEPT !.heard = TRUE] \in Connection
    BY DEF Connection
  <2>4. gone \in Connection
    BY <2>1, <2>3, ConnectionOps
  <2> QED
    BY <2>1, <2>2, <2>4 DEF Connection
<1>2. path \in {e.path, p.from} /\ stream \in Streams
  BY DEF Migrated, Later, Streams
<1>3. \/ ServerRecv(e, p) = e
      \/ ServerRecv(e, p) = OnHello(e)
      \/ ServerRecv(e, p) = OnClose(e, p)
      \/ ServerRecv(e, p) = OnRequest(e, p)
  <2>1. CASE ~Listens(e.q)
    BY <2>1 DEF ServerRecv
  <2>2. CASE Listens(e.q) /\ p.frames = {"hello"}
    <3>1. p.frames \notin {{"close"}, {"abort"}}
      BY <2>2
    <3> QED
      BY <2>2, <3>1 DEF ServerRecv
  <2>3. CASE Listens(e.q) /\ p.frames \in {{"close"}, {"abort"}}
    <3>1. p.frames # {"hello"}
      BY <2>3
    <3> QED
      BY <2>3, <3>1 DEF ServerRecv
  <2>4. CASE Listens(e.q) /\ p.frames # {"hello"} /\ p.frames \notin {{"close"}, {"abort"}}
    BY <2>4 DEF ServerRecv
  <2> QED
    BY <2>1, <2>2, <2>3, <2>4
<1>4. OnHello(e) = e \/ OnHello(e) = [e EXCEPT !.q = first]
  BY DEF OnHello
<1>5. OnClose(e, p) = e \/ OnClose(e, p) = [e EXCEPT !.q = gone, !.path = path]
  BY DEF OnClose
<1>6. OnRequest(e, p) = [e EXCEPT !.q = done, !.path = path, !.stream = stream]
  BY DEF OnRequest
<1> HIDE DEF first, done, gone, path, stream
<1> QED
  BY <1>1, <1>2, <1>3, <1>4, <1>5, <1>6 DEF Recvd

\* The network takes what a flush sends or drops it, and never overflows.
LEMMA Sends ==
  ASSUME IsFiniteSet(net), Cardinality(net) <= MaxNet, dups \in 0..MaxDups,
         NEW out, IsFiniteSet(out), Send(out)
  PROVE  /\ net' \subseteq net \cup out /\ IsFiniteSet(net')
         /\ Cardinality(net') <= MaxNet /\ dups' \in 0..MaxDups
  BY FS_Union DEF Send, Carry

\* Reading takes a datagram out, unless a copy is still to come.
LEMMA Reads ==
  ASSUME IsFiniteSet(net), Cardinality(net) <= MaxNet, dups \in 0..MaxDups,
         NEW p \in net, NEW out, IsFiniteSet(out), Read(p, out)
  PROVE  /\ net' \subseteq net \cup out /\ IsFiniteSet(net')
         /\ Cardinality(net') <= MaxNet /\ dups' \in 0..MaxDups
<1> USE QuicAssumption
<1>1. IsFiniteSet(net \ {p}) /\ Cardinality(net \ {p}) = Cardinality(net) - 1
  BY FS_RemoveElement
<1>2. Cardinality(net) \in Nat
  BY FS_CardinalityType
<1>3. IsFiniteSet(net \cup out) /\ IsFiniteSet((net \ {p}) \cup out)
  BY <1>1, FS_Union
<1>4. CASE net' = Carry(net \ {p}, out) /\ UNCHANGED dups
  BY <1>1, <1>2, <1>3, <1>4 DEF Carry
<1>5. CASE dups < MaxDups /\ dups' = dups + 1 /\ net' = Carry(net, out)
  <2>1. dups' \in 0..MaxDups
    BY <1>5
  <2> QED
    BY <1>2, <1>3, <1>5, <2>1 DEF Carry
<1> QED
  BY <1>4, <1>5 DEF Read

\* What is spent stays within the bound.
LEMMA Spends ==
  ASSUME faults \in 0..MaxFaults, NEW n \in Nat, Spend(n)
  PROVE  faults' \in 0..MaxFaults
  BY QuicAssumption DEF Spend

\* A client's packet is a datagram from its address for the id it asks for, with
\* its token or none.
LEMMA PacketTyped ==
  ASSUME NEW k, NEW frames \in SUBSET Frames,
         k.addr \in Addresses, k.dcid \in Clients \cup Cids,
         k.ver \in {"v1", "other"}, k.token \in Tokens \cup {None}
  PROVE  /\ Packet(k, frames) \in Datagrams
         /\ Packet(k, frames).to = Server /\ Packet(k, frames).from = k.addr
         /\ Packet(k, frames).cid = k.dcid /\ Packet(k, frames).ver # "retry"
         /\ Packet(k, frames).token \in {k.token, None}
<1> DEFINE ver == IF Initial(frames) THEN k.ver
                  ELSE IF "finished" \in frames THEN "v1" ELSE "none"
           token == IF Initial(frames) THEN k.token ELSE None
<1>1. ver \in Versions /\ ver # "retry"
  BY DEF Versions
<1>2. token \in Tokens \cup {None} /\ token \in {k.token, None}
  OBVIOUS
<1>3. Packet(k, frames) = [to |-> Server, from |-> k.addr, cid |-> k.dcid,
                           frames |-> frames, ver |-> ver, token |-> token]
  BY Zenon DEF Packet
<1> HIDE DEF ver, token
<1> QED
  BY <1>1, <1>2, <1>3 DEF Datagrams
=============================================================================
