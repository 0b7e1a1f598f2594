------------------------- MODULE QuicExchangeProofs -------------------------
(***************************************************************************)
(* What QuicExchange promises for any number of clients and any bounds on  *)
(* the network's mischief.  A client has at most one token, for good; the  *)
(* argument follows that token from the Retry it came in through the       *)
(* Initials that carry it to the entry they make.                          *)
(***************************************************************************)
EXTENDS QuicExchange, QuicHostProofs

-----------------------------------------------------------------------------
(* The inductive invariant.                                                *)

\* Before its Retry a client asks for an id of its own and hears nothing of a
\* handshake; after it, it asks for the one its token was minted with.
SoundClient(c, k) ==
  /\ k.addr.of = c
  /\ k.token = None => k.dcid = c /\ ~k.q.established
  /\ k.token # None => k.token \in minted /\ k.dcid = k.token.cid

HasToken(a) == a \in Addresses /\ client[a.of].token # None

\* What a client sent carries the client's token or none; what the server sent
\* carries a token it minted, or goes to a client that has one.
SoundDatagram(p) ==
  /\ p.to = Server =>
       /\ p.from \in Addresses
       /\ p.cid \in Cids => HasToken(p.from)
       /\ p.token # None => p.token = client[p.from.of].token /\ p.cid = p.token.cid
  /\ p.to # Server =>
       \/ p.ver = "negotiation"
       \/ p.ver = "retry" /\ p.token \in minted /\ p.cid = p.token.cid
       \/ p.ver = "v1" /\ HasToken(p.to)

\* An entry is the one its peer's token was minted for.
SoundEntry(i, e) ==
  /\ HasToken(e.peer) /\ HasToken(e.path)
  /\ client[e.peer.of].token.addr = e.peer
  /\ client[e.peer.of].token.cid = i

\* What is under way belongs to somebody.
Inv ==
  /\ TypeOK
  /\ IsFiniteSet(net) /\ IsFiniteSet(minted)
  /\ \A c \in Clients : SoundClient(c, client[c])
  /\ \A p \in net : SoundDatagram(p)
  /\ \A i \in DOMAIN conns : SoundEntry(i, conns[i])
  /\ TimersOwned

-----------------------------------------------------------------------------
(* How the invariant is kept.                                              *)

\* A client goes on: with its token once it has one, and with its handshake behind
\* it once it was.
GoesOn(k, next) ==
  /\ k.token # None => next.token = k.token
  /\ k.q.established => next.q.established

\* No client is taken back, and no token that was minted is forgotten.
NoneGoesBack ==
  /\ minted \subseteq minted'
  /\ \A c \in Clients : GoesOn(client[c], client'[c])

\* What belongs to somebody goes on doing so.
LEMMA StillSound ==
  ASSUME NoneGoesBack
  PROVE  /\ \A p \in Datagrams : SoundDatagram(p) => SoundDatagram(p)'
         /\ \A i \in Cids, e \in Entries : SoundEntry(i, e) => SoundEntry(i, e)'
<1>1. \A a \in Addresses : a.of \in Clients
  BY DEF Addresses
<1>2. \A a : HasToken(a) => HasToken(a)' /\ client'[a.of].token = client[a.of].token
  BY <1>1 DEF NoneGoesBack, GoesOn, HasToken
<1>3. ASSUME NEW p \in Datagrams, SoundDatagram(p) PROVE SoundDatagram(p)'
  <2>1. CASE p.to = Server
    <3>1. p.cid \in Cids => HasToken(p.from)'
      BY <1>2, <1>3, <2>1 DEF SoundDatagram
    <3>2. p.token # None => p.token = client'[p.from.of].token
      BY <1>1, <1>3, <2>1 DEF SoundDatagram, NoneGoesBack, GoesOn
    <3> QED
      BY <1>3, <2>1, <3>1, <3>2 DEF SoundDatagram
  <2>2. CASE p.to # Server
    BY <1>2, <1>3, <2>2 DEF SoundDatagram, NoneGoesBack, GoesOn
  <2> QED
    BY <2>1, <2>2
<1>4. ASSUME NEW i \in Cids, NEW e \in Entries, SoundEntry(i, e) PROVE SoundEntry(i, e)'
  BY <1>2, <1>4 DEF SoundEntry
<1> QED
  BY <1>3, <1>4

\* A step of the network: what is in flight was so before, or has just been sent.
Delivers(out) ==
  /\ net' \subseteq net \cup out
  /\ IsFiniteSet(net') /\ Cardinality(net') <= MaxNet
  /\ dups' \in 0..MaxDups /\ faults' \in 0..MaxFaults

\* A step of a client keeps the invariant if what it becomes and what it sends
\* are sound and it keeps the token it has.
LEMMA ClientMoves ==
  ASSUME Inv, NEW c \in Clients, NEW k \in ClientStates, SoundClient(c, k),
         GoesOn(client[c], k),
         client' = [client EXCEPT ![c] = k], UNCHANGED serverVars,
         NEW out, Delivers(out), \A p \in out : p \in Datagrams /\ SoundDatagram(p)'
  PROVE  Inv' /\ NoneGoesBack
<1> USE DEF serverVars
<1>1. client' \in [Clients -> ClientStates]
  BY DEF Inv, TypeOK
<1>2. NoneGoesBack
  BY DEF NoneGoesBack, GoesOn, Inv, TypeOK
<1>3. \A d \in Clients : SoundClient(d, client[d])'
  BY DEF Inv, TypeOK, SoundClient
<1>4. net' \subseteq Datagrams /\ \A p \in net' : SoundDatagram(p)'
  BY <1>2, StillSound DEF Inv, TypeOK, HostTypeOK, Delivers
<1>5. \A i \in DOMAIN conns : SoundEntry(i, conns[i])'
  <2>1. \A i \in DOMAIN conns : i \in Cids /\ conns[i] \in Entries /\ SoundEntry(i, conns[i])
    BY DEF Inv, TypeOK
  <2> QED
    BY <1>2, <2>1, StillSound
<1>6. TypeOK'
  BY <1>1, <1>4 DEF Inv, TypeOK, HostTypeOK, Delivers
<1> QED
  BY <1>2, <1>3, <1>4, <1>5, <1>6 DEF Inv, TimersOwned, Delivers

\* A step of the server keeps it if what it sends and every entry it leaves are
\* sound.
LEMMA ServerMoves ==
  ASSUME Inv, UNCHANGED client, minted \subseteq minted', minted' \subseteq Tokens,
         IsFiniteSet(minted'), pass' \in {"whole", "cut", "reading"},
         timer' \subseteq DOMAIN conns', DOMAIN conns' \subseteq Cids,
         \A i \in DOMAIN conns' : conns'[i] \in Entries /\ SoundEntry(i, conns'[i]),
         NEW out, Delivers(out), \A p \in out : p \in Datagrams /\ SoundDatagram(p)'
  PROVE  Inv' /\ NoneGoesBack
<1>1. NoneGoesBack
  BY DEF NoneGoesBack, GoesOn
<1>2. net' \subseteq Datagrams /\ \A p \in net' : SoundDatagram(p)'
  BY <1>1, StillSound DEF Inv, TypeOK, HostTypeOK, Delivers
<1>3. \A i \in DOMAIN conns' : SoundEntry(i, conns[i])'
  <2>1. \A i \in DOMAIN conns' : i \in Cids /\ conns'[i] \in Entries /\ SoundEntry(i, conns'[i])
    OBVIOUS
  <2> QED
    BY <1>1, <2>1, StillSound
<1>4. \A c \in Clients : SoundClient(c, client[c])'
  BY DEF Inv, SoundClient
<1>5. TypeOK'
  BY <1>2 DEF Inv, TypeOK, HostTypeOK, Delivers
<1> QED
  BY <1>1, <1>2, <1>3, <1>4, <1>5 DEF Inv, TimersOwned, Delivers

\* What a client sends is a datagram, and sound once the client is what it was
\* sent by.
LEMMA PacketSound ==
  ASSUME NEW c \in Clients, NEW k \in ClientStates, SoundClient(c, k),
         NEW frames \in SUBSET Frames, client'[c] = k
  PROVE  Packet(k, frames) \in Datagrams /\ SoundDatagram(Packet(k, frames))'
<1> USE QuicAssumption
<1>1. /\ k.addr \in Addresses /\ k.addr.of = c /\ k.dcid \in Clients \cup Cids
      /\ k.ver \in {"v1", "other"} /\ k.token \in Tokens \cup {None}
  BY DEF ClientStates, SoundClient
<1>2. PICK p : p = Packet(k, frames)
  OBVIOUS
<1>3. /\ p \in Datagrams /\ p.to = Server /\ p.from = k.addr /\ p.cid = k.dcid
      /\ p.token \in {k.token, None}
  BY <1>1, <1>2, PacketTyped
<1>4. k.dcid \in Cids => k.token # None
  BY DEF SoundClient
<1>5. p.token # None => p.token = k.token /\ k.dcid = k.token.cid
  BY <1>3 DEF SoundClient
<1>6. SoundDatagram(p)'
  BY <1>1, <1>3, <1>4, <1>5 DEF SoundDatagram, HasToken
<1> QED
  BY <1>2, <1>3, <1>6

\* A flush touches neither the token nor the handshake.
LEMMA ClientFlushMoves ==
  ASSUME Inv, NEW c \in Clients, NEW k \in ClientStates, SoundClient(c, k),
         GoesOn(client[c], k),
         ClientFlushes(c, k), UNCHANGED serverVars
  PROVE  Inv' /\ NoneGoesBack
<1>1. PICK how \in Hows :
        /\ client' = [client EXCEPT ![c] = ClientFlushed(k, how)]
        /\ Send(ClientSends(k, how)) /\ Spend(Price(how))
  BY DEF ClientFlushes
<1> DEFINE f == ClientFlushed(k, how)
           q == IF HasToSend(k.q) THEN Sent(k.q) ELSE k.q
           out == ClientSends(k, how)
<1>2. k.q \in Connection /\ k.q.unsent \in SUBSET Frames
  BY DEF ClientStates, Connection
<1>3. q \in Connection /\ q.established = k.q.established
  BY <1>2, ConnectionOps, HandshakeStands
<1>4. \E armed \in BOOLEAN : f = [k EXCEPT !.q = q, !.armed = armed]
  <2>1. Starts(q, how) \in BOOLEAN /\ k.armed \in BOOLEAN
    BY DEF Starts, HasDeadline, ClientStates
  <2> QED
    BY <2>1 DEF ClientFlushed
<1> HIDE DEF f, q
<1>5. f \in ClientStates /\ SoundClient(c, f) /\ f.token = k.token
  BY <1>3, <1>4 DEF ClientStates, SoundClient
<1>6. client'[c] = f
  BY <1>1 DEF f, Inv, TypeOK
<1>7. f.addr = k.addr /\ f.dcid = k.dcid /\ f.ver = k.ver /\ f.q.established = k.q.established
  BY <1>3, <1>4 DEF ClientStates
<1>8. \A p \in out : p \in Datagrams /\ SoundDatagram(p)'
  <2>1. Packet(k, k.q.unsent) = Packet(f, k.q.unsent)
    BY <1>5, <1>7 DEF Packet
  <2> QED
    BY <1>2, <1>5, <1>6, <2>1, PacketSound DEF ClientSends
<1>9. Delivers(out)
  <2>1. IsFiniteSet(out)
    BY FS_Singleton, FS_EmptySet DEF ClientSends
  <2>2. faults' \in 0..MaxFaults
    BY <1>1, Spends DEF Inv, TypeOK, HostTypeOK, Price
  <2> QED
    BY <1>1, <2>1, <2>2, Sends DEF Inv, TypeOK, HostTypeOK, Delivers
<1>10. GoesOn(client[c], f)
  BY <1>5, <1>7 DEF GoesOn
<1> QED
  BY <1>1, <1>5, <1>8, <1>9, <1>10, ClientMoves DEF f

\* A step of a client that sends nothing.
LEMMA SilentClientMoves ==
  ASSUME Inv, NEW c \in Clients, NEW k \in ClientStates, SoundClient(c, k),
         GoesOn(client[c], k),
         client' = [client EXCEPT ![c] = k], UNCHANGED serverVars,
         UNCHANGED <<net, dups>> \/ \E p \in net : Read(p, {}),
         UNCHANGED faults \/ Spend(1)
  PROVE  Inv' /\ NoneGoesBack
<1>1. faults' \in 0..MaxFaults
  BY Spends DEF Inv, TypeOK, HostTypeOK
<1>2. IsFiniteSet({})
  BY FS_EmptySet
<1>3. Delivers({})
  BY <1>1, <1>2, Reads DEF Inv, TypeOK, HostTypeOK, Delivers
<1> QED
  BY <1>3, ClientMoves

\* What quiche_conn_recv makes of a datagram that is for this client.
LEMMA ClientHears ==
  ASSUME Inv, NEW c \in Clients, ClientReads(c), UNCHANGED serverVars
  PROVE  Inv' /\ NoneGoesBack
<1> DEFINE k == [client[c] EXCEPT !.loop = "reading"]
<1>1. PICK p \in net :
        /\ p.to = client[c].addr
        /\ Read(p, {})
        /\ client' = [client EXCEPT ![c] = ClientRecv(k, p)]
  BY DEF ClientReads
<1>2. client[c] \in ClientStates /\ SoundClient(c, client[c])
  BY DEF Inv, TypeOK
<1>3. /\ k \in ClientStates /\ SoundClient(c, k)
      /\ k.token = client[c].token /\ k.addr = client[c].addr /\ k.q = client[c].q
  BY <1>2 DEF ClientStates, SoundClient
<1>4. p \in Datagrams /\ SoundDatagram(p) /\ p.to # Server /\ p.to.of = c /\ p.to \in Addresses
  BY <1>1, <1>2, QuicAssumption DEF Inv, TypeOK, HostTypeOK, ClientStates, SoundClient
<1>5. k.q \in Connection
  BY <1>3 DEF ClientStates
<1> HIDE DEF k
<1>6. ASSUME NEW n \in ClientStates, SoundClient(c, n),
             GoesOn(client[c], n),
             client' = [client EXCEPT ![c] = n]
      PROVE  Inv' /\ NoneGoesBack
  BY <1>1, <1>6, SilentClientMoves DEF ClientReads
<1>7. CASE ~Listens(k.q)
  BY <1>1, <1>3, <1>6, <1>7 DEF GoesOn, ClientRecv
<1>8. CASE Listens(k.q) /\ p.ver = "negotiation"
  <2>1. client' = [client EXCEPT ![c] = OnNegotiation(k, p)]
    BY <1>1, <1>8 DEF ClientRecv
  <2>2. StartOver(k.q) \in Connection /\ StartOver(k.q).established = k.q.established
    BY <1>5, ConnectionOps, HandshakeStands
  <2>3. /\ OnNegotiation(k, p) \in ClientStates /\ SoundClient(c, OnNegotiation(k, p))
        /\ GoesOn(k, OnNegotiation(k, p))
    <3>1. CASE OnNegotiation(k, p) = k
      BY <1>3, <3>1 DEF GoesOn
    <3>2. CASE OnNegotiation(k, p) = [k EXCEPT !.ver = "v1", !.q = StartOver(k.q)]
      <4> DEFINE n == [k EXCEPT !.ver = "v1", !.q = StartOver(k.q)]
      <4>1. n \in ClientStates
        BY <1>3, <2>2 DEF ClientStates
      <4>2. /\ n.q = StartOver(k.q) /\ n.token = k.token /\ n.dcid = k.dcid
            /\ n.addr = k.addr
        BY <1>3 DEF ClientStates
      <4> HIDE DEF n
      <4> QED
        BY <1>3, <2>2, <3>2, <4>1, <4>2 DEF GoesOn, SoundClient, n
    <3> QED
      BY <3>1, <3>2 DEF OnNegotiation
  <2> QED
    BY <1>3, <1>6, <2>1, <2>3 DEF GoesOn
<1>9. CASE Listens(k.q) /\ p.ver = "retry"
  <2>1. client' = [client EXCEPT ![c] = OnRetry(k, p)]
    BY <1>1, <1>9 DEF ClientRecv
  <2>2. StartOver(k.q) \in Connection
    BY <1>5, ConnectionOps
  <2>3. p.token \in minted /\ p.token \in Tokens /\ p.cid = p.token.cid /\ p.token # None
    BY <1>4, <1>9, QuicAssumption DEF SoundDatagram, Inv, TypeOK, HostTypeOK
  <2>4. p.cid \in Clients \cup Cids
    BY <1>4 DEF Datagrams
  <2>5. OnRetry(k, p) \in ClientStates /\ SoundClient(c, OnRetry(k, p))
    <3>1. CASE k.token = None /\ p.token.odcid = k.dcid
      <4>1. OnRetry(k, p) = [k EXCEPT !.token = p.token, !.dcid = p.cid, !.q = StartOver(k.q)]
        BY <3>1 DEF OnRetry
      <4> QED
        BY <1>3, <2>2, <2>3, <2>4, <4>1 DEF ClientStates, SoundClient
    <3>2. CASE ~(k.token = None /\ p.token.odcid = k.dcid)
      BY <1>3, <3>2 DEF OnRetry
    <3> QED
      BY <3>1, <3>2
  <2>6. GoesOn(client[c], OnRetry(k, p))
    BY <1>3, <1>5, HandshakeStands DEF GoesOn, OnRetry, ClientStates
  <2> QED
    BY <1>6, <2>1, <2>5, <2>6
<1>10. CASE Listens(k.q) /\ p.ver \notin {"negotiation", "retry"}
  <2>1. p.ver = "v1" /\ client[c].token # None
    BY <1>4, <1>10 DEF SoundDatagram, HasToken
  <2>2. CASE p.frames = {"flight"}
    <3>1. client' = [client EXCEPT ![c] = OnFlight(k)]
      BY <1>1, <1>10, <2>1, <2>2 DEF ClientRecv
    <3>2. Acked(k.q, {"hello"}) \in Connection /\ {"finished"} \in SUBSET Frames
      BY <1>5, ConnectionOps DEF Frames
    <3>3. [Acked(k.q, {"hello"}) EXCEPT !.established = TRUE, !.unsent = {"finished"}] \in Connection
      BY <3>2 DEF Connection
    <3>4. /\ OnFlight(k) \in ClientStates /\ SoundClient(c, OnFlight(k))
          /\ GoesOn(k, OnFlight(k))
      BY <1>3, <2>1, <3>3 DEF GoesOn, OnFlight, ClientStates, SoundClient
    <3> QED
      BY <1>3, <1>6, <3>1, <3>4 DEF GoesOn
  <2>3. CASE p.frames = {"response"}
    <3>1. client' = [client EXCEPT ![c] = OnResponse(k)]
      <4>1. p.frames # {"flight"}
        BY <2>3
      <4> QED
        BY <1>1, <1>10, <2>1, <2>3, <4>1 DEF ClientRecv
    <3>2. /\ Acked(k.q, {"finished", "request"}) \in Connection
          /\ Acked(k.q, {"finished", "request"}).established = k.q.established
      <4>1. {"finished", "request"} \in SUBSET Frames
        BY DEF Frames
      <4> QED
        BY <1>5, <4>1, ConnectionOps, HandshakeStands
    <3>3. /\ OnResponse(k) \in ClientStates /\ SoundClient(c, OnResponse(k))
          /\ GoesOn(k, OnResponse(k))
      BY <1>3, <3>2 DEF GoesOn, OnResponse, ClientStates, SoundClient
    <3> QED
      BY <1>3, <1>6, <3>1, <3>3 DEF GoesOn
  <2>4. CASE p.frames # {"flight"} /\ p.frames # {"response"}
    <3>1. client' = [client EXCEPT ![c] = OnServerClose(k)]
      BY <1>1, <1>10, <2>4 DEF ClientRecv
    <3>2. Draining(k.q) \in Connection /\ Draining(k.q).established = k.q.established
      BY <1>5, ConnectionOps, HandshakeStands
    <3>3. /\ OnServerClose(k) \in ClientStates /\ SoundClient(c, OnServerClose(k))
          /\ GoesOn(k, OnServerClose(k))
      BY <1>3, <3>2 DEF GoesOn, OnServerClose, ClientStates, SoundClient
    <3> QED
      BY <1>3, <1>6, <3>1, <3>3 DEF GoesOn
  <2> QED
    BY <2>2, <2>3, <2>4
<1> QED
  BY <1>7, <1>8, <1>9, <1>10

\* Whatever a client does.
LEMMA ClientActs ==
  ASSUME Inv, NEW c \in Clients,
         \/ ClientStep(c) \/ Rebind(c) \/ ClientReads(c) \/ ClientRejects(c)
         \/ ClientReturns(c) \/ ClientTimerEarly(c)
  PROVE  Inv' /\ NoneGoesBack
<1> DEFINE k == client[c]
<1>1. k \in ClientStates /\ SoundClient(c, k) /\ k.q \in Connection
  BY DEF Inv, TypeOK, ClientStates
<1>2. OnTimeout(k.q) \in Connection /\ OnTimeout(k.q).established = k.q.established
  BY <1>1, ConnectionOps, HandshakeStands
<1> HIDE DEF k
<1>3. CASE Start(c)
  <2>1. ClientFlushes(c, [k EXCEPT !.loop = "wait"]) /\ UNCHANGED serverVars
    BY <1>3 DEF Start, k
  <2>2. /\ [k EXCEPT !.loop = "wait"] \in ClientStates
        /\ SoundClient(c, [k EXCEPT !.loop = "wait"]) /\ GoesOn(k, [k EXCEPT !.loop = "wait"])
    BY <1>1 DEF ClientStates, SoundClient, GoesOn
  <2> QED
    BY <2>1, <2>2, ClientFlushMoves DEF k
<1>4. CASE ClientEnds(c)
  <2> DEFINE n == [k EXCEPT !.loop = "ended", !.armed = FALSE]
  <2>1. n \in ClientStates /\ SoundClient(c, n) /\ GoesOn(k, n)
    BY <1>1 DEF ClientStates, SoundClient, GoesOn
  <2>2. client' = [client EXCEPT ![c] = n] /\ UNCHANGED <<serverVars, net, dups, faults>>
    BY <1>4 DEF ClientEnds, k
  <2> QED
    BY <2>1, <2>2, SilentClientMoves DEF k
<1>5. CASE ClientReadDone(c)
  <2> DEFINE w == [k EXCEPT !.loop = "wait"]
             r == IF WantsRequest(w) THEN WithRequest(w) ELSE w
             n == WithFinRead(r)
  <2>1. ClientFlushes(c, n) /\ UNCHANGED serverVars
    BY <1>5 DEF ClientReadDone, k
  <2>2. w \in ClientStates /\ SoundClient(c, w) /\ GoesOn(k, w) /\ w.q = k.q
    BY <1>1 DEF ClientStates, SoundClient, GoesOn
  <2> HIDE DEF w
  <2>3. r \in ClientStates /\ SoundClient(c, r) /\ GoesOn(k, r)
    <3>1. CASE ~WantsRequest(w)
      BY <2>2, <3>1
    <3>2. CASE WantsRequest(w) /\ w.q.phase = "open"
      <4>1. {"request"} \in SUBSET Frames
        BY DEF Frames
      <4>2. [w.q EXCEPT !.unsent = @ \cup {"request"}] \in Connection
        BY <1>1, <2>2, <4>1, ConnectionOps
      <4>3. r = [w EXCEPT !.reqSent = TRUE, !.q = [w.q EXCEPT !.unsent = @ \cup {"request"}]]
        BY <2>2, <3>2 DEF WithRequest, ClientStates, Connection
      <4>4. [w.q EXCEPT !.unsent = @ \cup {"request"}].established = w.q.established
        BY <1>1, <2>2 DEF Connection
      <4>5. /\ r.q = [w.q EXCEPT !.unsent = @ \cup {"request"}] /\ r.token = w.token
            /\ r.dcid = w.dcid /\ r.addr = w.addr
        BY <2>2, <4>3 DEF ClientStates
      <4>6. r \in ClientStates
        BY <2>2, <4>2, <4>3 DEF ClientStates
      <4> HIDE DEF r
      <4> QED
        BY <2>2, <4>4, <4>5, <4>6 DEF SoundClient, GoesOn
    <3>3. CASE WantsRequest(w) /\ w.q.phase # "open"
      <4>1. r = [w EXCEPT !.reqSent = TRUE, !.q = w.q]
        BY <1>1, <2>2, <3>3 DEF WithRequest, ClientStates, Connection
      <4>2. r.q = w.q /\ r.token = w.token /\ r.dcid = w.dcid /\ r.addr = w.addr
        BY <2>2, <4>1 DEF ClientStates
      <4>3. r \in ClientStates
        BY <2>2, <4>1 DEF ClientStates
      <4> HIDE DEF r
      <4> QED
        BY <2>2, <4>2, <4>3 DEF SoundClient, GoesOn
    <3> QED
      BY <3>1, <3>2, <3>3
  <2> HIDE DEF r
  <2>4. n \in ClientStates /\ SoundClient(c, n) /\ GoesOn(k, n)
    <3>1. r.q \in Connection
      BY <2>3 DEF ClientStates
    <3>2. Closing(r.q) \in Connection /\ Closing(r.q).established = r.q.established
      BY <3>1, ConnectionOps, HandshakeStands
    <3> QED
      BY <2>3, <3>2 DEF WithFinRead, ClientStates, SoundClient, GoesOn
  <2> HIDE DEF n
  <2> QED
    BY <2>1, <2>4, ClientFlushMoves DEF k
<1>6. CASE ClientTimeout(c) \/ ClientTimerEarly(c)
  <2>1. PICK q \in {k.q, OnTimeout(k.q)} : ClientTimerFires(c, q)
    BY <1>6 DEF ClientTimeout, ClientTimerEarly, k
  <2>2. q \in Connection /\ q.established = k.q.established
    BY <1>1, <1>2
  <2> DEFINE t == [k EXCEPT !.q = q]
             n == IF q.phase = "closed" THEN [t EXCEPT !.loop = "ended"] ELSE t
  <2>3. ClientFlushes(c, n) /\ UNCHANGED serverVars
    BY <2>1 DEF ClientTimerFires, k
  <2>4. t \in ClientStates /\ SoundClient(c, t) /\ GoesOn(k, t)
    BY <1>1, <2>2 DEF ClientStates, SoundClient, GoesOn
  <2> HIDE DEF t
  <2>5. n \in ClientStates /\ SoundClient(c, n) /\ GoesOn(k, n)
    BY <2>4 DEF ClientStates, SoundClient, GoesOn
  <2> HIDE DEF n
  <2> QED
    BY <2>3, <2>5, ClientFlushMoves DEF k
<1>7. CASE Rebind(c)
  <2> DEFINE n == [k EXCEPT !.addr.n = @ + 1]
  <2>1. client' = [client EXCEPT ![c] = n] /\ UNCHANGED <<serverVars, net, dups, faults>>
    BY <1>7 DEF Rebind, k
  <2>2. n = [k EXCEPT !.addr = [k.addr EXCEPT !.n = @ + 1]]
    BY <1>1 DEF ClientStates
  <2>3. /\ [k.addr EXCEPT !.n = @ + 1] \in Addresses
        /\ [k.addr EXCEPT !.n = @ + 1].of = k.addr.of
    <3>1. k.addr \in Addresses /\ k.addr.n < MaxRebinds /\ MaxRebinds \in Nat
      BY <1>1, <1>7, QuicAssumption DEF Rebind, k, ClientStates
    <3>2. k.addr.n + 1 \in 0..MaxRebinds
      BY <3>1 DEF Addresses
    <3> QED
      BY <3>1, <3>2 DEF Addresses
  <2>4. n \in ClientStates /\ SoundClient(c, n) /\ GoesOn(k, n)
    BY <1>1, <2>2, <2>3 DEF ClientStates, SoundClient, GoesOn
  <2> HIDE DEF n
  <2> QED
    BY <2>1, <2>4, SilentClientMoves DEF k
<1>8. CASE ClientReads(c)
  BY <1>8, ClientHears DEF ClientReads
<1>9. CASE ClientRejects(c)
  <2>0. PICK p \in net :
          /\ Read(p, {})
          /\ \E q \in Rejects(k.q, p) :
               client' = [client EXCEPT ![c] = [k EXCEPT !.q = q, !.loop = "reading"]]
    BY <1>9 DEF ClientRejects, k
  <2>1. PICK q \in Rejects(k.q, p) :
          client' = [client EXCEPT ![c] = [k EXCEPT !.q = q, !.loop = "reading"]]
    BY <2>0
  <2> DEFINE n == [k EXCEPT !.q = q, !.loop = "reading"]
  <2>2. UNCHANGED serverVars /\ Spend(1)
    BY <1>9 DEF ClientRejects
  <2>3. q \in Connection /\ q.established = k.q.established
    BY <1>1, <2>1, RejectsClose
  <2>4. n \in ClientStates /\ SoundClient(c, n) /\ GoesOn(k, n)
    BY <1>1, <2>3 DEF ClientStates, SoundClient, GoesOn
  <2> HIDE DEF n
  <2> QED
    BY <2>0, <2>1, <2>2, <2>4, SilentClientMoves DEF k, n
<1>10. CASE ClientReturns(c)
  <2> DEFINE n == [k EXCEPT !.loop = "wait"]
  <2>1. /\ client' = [client EXCEPT ![c] = n] /\ UNCHANGED serverVars
        /\ Spend(1) /\ UNCHANGED <<net, dups>>
    BY <1>10 DEF ClientReturns, k
  <2>2. n \in ClientStates /\ SoundClient(c, n) /\ GoesOn(k, n)
    BY <1>1 DEF ClientStates, SoundClient, GoesOn
  <2> QED
    BY <2>1, <2>2, SilentClientMoves DEF k
<1> QED
  BY <1>3, <1>4, <1>5, <1>6, <1>7, <1>8, <1>9, <1>10 DEF ClientStep

\* Whatever quiche makes of an entry's connection, the entry is still its peer's.
LEMMA EntryKeepsOwner ==
  ASSUME NEW i \in Cids, NEW e \in Entries, SoundEntry(i, e), NEW q \in Connection
  PROVE  [e EXCEPT !.q = q] \in Entries /\ SoundEntry(i, [e EXCEPT !.q = q])
  BY DEF Entries, SoundEntry

\* A datagram from a client with a token leaves an entry sound.
LEMMA ReceivedSound ==
  ASSUME NEW i \in Cids, NEW e \in Entries, SoundEntry(i, e), NEW p, HasToken(p.from)
  PROVE  Received(e, p) \in Entries /\ SoundEntry(i, Received(e, p))
<1> DEFINE r == ServerRecv(e, p)
           answered == [r EXCEPT !.stream = "answered", !.q = [r.q EXCEPT !.unsent = @ \cup {"response"}]]
<1>1. Recvd(e, p, r)
  <2>1. e.q \in Connection /\ e.stream \in Streams
    BY DEF Entries, Streams
  <2> QED
    BY <2>1, ServerRecvs
<1>2. r \in Entries /\ SoundEntry(i, r)
  <2> HIDE DEF r
  <2>1. CASE r = e
    BY <2>1
  <2>2. ASSUME NEW q \in Connection, NEW path \in {e.path, p.from}, NEW stream \in Streams,
               \/ r = [e EXCEPT !.q = q]
               \/ r = [e EXCEPT !.q = q, !.path = path]
               \/ r = [e EXCEPT !.q = q, !.path = path, !.stream = stream]
        PROVE  r \in Entries /\ SoundEntry(i, r)
    <3>1. path \in Addresses /\ HasToken(path)
      BY DEF Entries, SoundEntry, HasToken
    <3> QED
      BY <2>2, <3>1 DEF Entries, SoundEntry, Streams
  <2> QED
    BY <1>1, <2>1, <2>2, Zenon DEF Recvd
<1> HIDE DEF r
<1>3. [r.q EXCEPT !.unsent = @ \cup {"response"}] \in Connection
  <2>1. r.q \in Connection /\ {"response"} \in SUBSET Frames
    BY <1>2 DEF Entries, Frames
  <2> QED
    BY <2>1, ConnectionOps
<1>4. answered \in Entries /\ SoundEntry(i, answered)
  BY <1>2, <1>3 DEF Entries, SoundEntry
<1>5. Received(e, p) = r \/ Received(e, p) = answered
  BY <1>2 DEF Received, r, Entries
<1> HIDE DEF answered
<1> QED
  BY <1>2, <1>4, <1>5

\* A flush touches nothing but the connection.
LEMMA FlushedSound ==
  ASSUME NEW i \in Cids, NEW e \in Entries, SoundEntry(i, e)
  PROVE  ServerFlushed(e) \in Entries /\ SoundEntry(i, ServerFlushed(e))
<1>1. Sent(e.q) \in Connection
  BY ConnectionOps DEF Entries
<1> QED
  BY <1>1, EntryKeepsOwner DEF ServerFlushed

\* What the server reads came from a client; it goes by the address.
LEMMA ArrivingSound ==
  ASSUME Inv, NEW p \in Arriving
  PROVE  /\ p \in net /\ p \in Datagrams /\ SoundDatagram(p) /\ p.to = Server
         /\ p.from \in Addresses /\ p.from # Server
  BY QuicAssumption DEF Inv, TypeOK, HostTypeOK, Arriving, SoundDatagram

\* A reading that leaves the table as it is: an answer without a connection, or
\* none.
LEMMA StatelessMoves ==
  ASSUME Inv, NEW p \in Arriving, NEW out, IsFiniteSet(out), Read(p, out),
         \A a \in out : a \in Datagrams /\ SoundDatagram(a)',
         minted \subseteq minted', minted' \subseteq Tokens, IsFiniteSet(minted'),
         pass' = "reading", UNCHANGED <<client, conns, timer, faults>>
  PROVE  Inv' /\ NoneGoesBack
<1>1. p \in net
  BY ArrivingSound
<1>2. Delivers(out)
  BY <1>1, Reads DEF Inv, TypeOK, HostTypeOK, Delivers
<1>3. /\ timer' \subseteq DOMAIN conns' /\ DOMAIN conns' \subseteq Cids
      /\ \A i \in DOMAIN conns' : conns'[i] \in Entries /\ SoundEntry(i, conns'[i])
  BY DEF Inv, TypeOK, TimersOwned
<1> QED
  BY <1>2, <1>3, ServerMoves

\* A reading that puts a connection into the table, or leaves another one of it
\* there.
LEMMA EntryMoves ==
  ASSUME Inv, NEW p \in Arriving, Read(p, {}), NEW i \in Cids,
         NEW e \in Entries, SoundEntry(i, e), UNCHANGED faults \/ Spend(1),
         \/ conns' = WithEntry(conns, i, e)
         \/ i \in DOMAIN conns /\ conns' = [conns EXCEPT ![i] = e],
         pass' = "reading", UNCHANGED <<client, timer, minted>>
  PROVE  Inv' /\ NoneGoesBack
<1>1. p \in net
  BY ArrivingSound
<1>2. IsFiniteSet({})
  BY FS_EmptySet
<1>3. faults' \in 0..MaxFaults
  BY Spends DEF Inv, TypeOK, HostTypeOK
<1>4. Delivers({})
  BY <1>1, <1>2, <1>3, Reads DEF Inv, TypeOK, HostTypeOK, Delivers
<1>5. /\ timer' \subseteq DOMAIN conns' /\ DOMAIN conns' \subseteq Cids
      /\ \A j \in DOMAIN conns' : conns'[j] \in Entries /\ SoundEntry(j, conns'[j])
  <2>1. /\ timer \subseteq DOMAIN conns /\ DOMAIN conns \subseteq Cids
        /\ \A j \in DOMAIN conns : conns[j] \in Entries /\ SoundEntry(j, conns[j])
    BY DEF Inv, TypeOK, TimersOwned
  <2>2. DOMAIN conns' = DOMAIN conns \cup {i}
    BY DEF WithEntry
  <2>3. \A j \in DOMAIN conns' : conns'[j] = IF j = i THEN e ELSE conns[j]
    BY <2>2 DEF WithEntry
  <2> QED
    BY <2>1, <2>2, <2>3
<1>6. minted' \subseteq Tokens /\ IsFiniteSet(minted')
  BY DEF Inv, TypeOK, HostTypeOK
<1> QED
  BY <1>4, <1>5, <1>6, ServerMoves

\* Whatever the server reads.
LEMMA ServerHears ==
  ASSUME Inv,
         \/ NegotiateVersion \/ Retry \/ DropDatagram \/ AcceptConn \/ RecvKnown
         \/ ServerReadFails
  PROVE  Inv' /\ NoneGoesBack
<1> USE QuicAssumption
<1>0. minted \subseteq Tokens /\ IsFiniteSet(minted)
  BY DEF Inv, TypeOK, HostTypeOK
<1>1. CASE NegotiateVersion
  <2>1. PICK p \in Arriving : Read(p, {Stateless(p, "negotiation", p.cid, None)})
    BY <1>1 DEF NegotiateVersion
  <2> DEFINE a == Stateless(p, "negotiation", p.cid, None)
  <2>2. p \in Datagrams /\ p.from \in Addresses /\ p.from # Server
    BY ArrivingSound
  <2>3. a \in Datagrams /\ SoundDatagram(a)'
    BY <2>2 DEF Stateless, Datagrams, Versions, SoundDatagram
  <2>4. IsFiniteSet({a})
    BY FS_Singleton
  <2> HIDE DEF a
  <2> QED
    BY <1>0, <1>1, <2>1, <2>3, <2>4, StatelessMoves DEF NegotiateVersion, a
<1>2. CASE Retry
  <2>1. PICK p \in Arriving :
          /\ p.cid \in Clients /\ Cardinality(minted) < MaxCids
          /\ minted' = minted \cup {MintToken(p)}
          /\ Read(p, {Stateless(p, "retry", MintToken(p).cid, MintToken(p))})
    BY <1>2 DEF Retry
  <2>0. PICK t : t = MintToken(p)
    OBVIOUS
  <2> DEFINE a == Stateless(p, "retry", t.cid, t)
  <2>2. p \in Datagrams /\ p.from \in Addresses /\ p.from # Server
    BY ArrivingSound
  <2>3. t \in Tokens
    <3>1. Cardinality(minted) + 1 \in Cids
      BY <1>0, <2>1, FS_CardinalityType DEF Cids
    <3> QED
      BY <2>0, <2>1, <2>2, <3>1 DEF MintToken, Tokens
  <2>4. minted' \subseteq Tokens /\ IsFiniteSet(minted')
    BY <1>0, <2>0, <2>1, <2>3, FS_AddElement
  <2>5. a \in Datagrams /\ SoundDatagram(a)'
    <3>1. t.cid \in Cids
      BY <2>3 DEF Tokens
    <3>2. t \in minted'
      BY <2>0, <2>1
    <3> QED
      BY <2>2, <2>3, <3>1, <3>2 DEF Stateless, Datagrams, Versions, SoundDatagram
  <2>6. IsFiniteSet({a}) /\ Read(p, {a})
    BY <2>0, <2>1, FS_Singleton
  <2> HIDE DEF a
  <2>7. pass' = "reading" /\ UNCHANGED <<client, conns, timer, faults>> /\ minted \subseteq minted'
    BY <1>2, <2>1 DEF Retry
  <2> QED
    BY <2>4, <2>5, <2>6, <2>7, StatelessMoves
<1>3. CASE DropDatagram
  <2>1. PICK p \in Arriving : Read(p, {})
    BY <1>3 DEF DropDatagram
  <2>2. IsFiniteSet({})
    BY FS_EmptySet
  <2>3. pass' = "reading" /\ UNCHANGED <<client, conns, timer, minted, faults>>
    BY <1>3 DEF DropDatagram
  <2> QED
    BY <1>0, <2>1, <2>2, <2>3, StatelessMoves
<1>4. CASE AcceptConn
  <2>1. PICK p \in Arriving :
          /\ ValidToken(p) /\ Read(p, {})
          /\ \/ conns' = WithEntry(conns, p.cid, Received(CreateConn(p), p)) /\ UNCHANGED faults
             \/ Spend(1) /\ UNCHANGED conns
             \/ Spend(1) /\ conns' = WithEntry(conns, p.cid,
                                              [CreateConn(p) EXCEPT !.q = Closing(@)])
    BY <1>4 DEF AcceptConn
  <2>2. p \in Datagrams /\ p.from \in Addresses /\ SoundDatagram(p) /\ p.to = Server
    BY ArrivingSound
  <2>3. /\ p.token = client[p.from.of].token /\ p.cid = p.token.cid /\ p.token # None
        /\ p.token.addr = p.from /\ HasToken(p.from)
    BY <2>1, <2>2 DEF SoundDatagram, ValidToken, HasToken
  <2>4. p.cid \in Cids
    <3>1. p.token \in Tokens
      BY <2>2, <2>3 DEF Datagrams
    <3> QED
      BY <2>3, <3>1 DEF Tokens
  <2>5. Accept \in Connection
    BY MaxPtosAssumption DEF Accept, Fresh, Connection, Phases, Frames
  <2>6. CreateConn(p) \in Entries /\ SoundEntry(p.cid, CreateConn(p))
    BY <2>2, <2>3, <2>5 DEF CreateConn, Entries, SoundEntry
  <2>7. /\ [CreateConn(p) EXCEPT !.q = Closing(@)] \in Entries
        /\ SoundEntry(p.cid, [CreateConn(p) EXCEPT !.q = Closing(@)])
    <3>1. CreateConn(p).q = Accept
      BY DEF CreateConn
    <3>2. Closing(Accept) \in Connection
      BY <2>5, ConnectionOps
    <3> QED
      BY <2>4, <2>6, <3>1, <3>2, EntryKeepsOwner
  <2>8. /\ Received(CreateConn(p), p) \in Entries
        /\ SoundEntry(p.cid, Received(CreateConn(p), p))
    BY <2>3, <2>4, <2>6, ReceivedSound
  <2>9. pass' = "reading" /\ UNCHANGED <<client, timer, minted>>
    BY <1>4 DEF AcceptConn
  <2>10. CASE Spend(1) /\ UNCHANGED conns
    <3>1. IsFiniteSet({}) /\ faults' \in 0..MaxFaults
      BY <2>10, FS_EmptySet, Spends DEF Inv, TypeOK, HostTypeOK
    <3>2. Delivers({})
      BY <2>1, <3>1, ArrivingSound, Reads DEF Inv, TypeOK, HostTypeOK, Delivers
    <3> QED
      BY <1>0, <2>9, <2>10, <3>2, ServerMoves DEF Inv, TypeOK, TimersOwned
  <2> QED
    BY <2>1, <2>4, <2>7, <2>8, <2>9, <2>10, EntryMoves
<1>5. CASE RecvKnown
  <2>1. PICK p \in Arriving :
          /\ p.cid \in DOMAIN conns /\ Read(p, {})
          /\ \/ conns' = [conns EXCEPT ![p.cid] = Received(conns[p.cid], p)] /\ UNCHANGED faults
             \/ \E e \in ServerRejects(conns[p.cid], p) :
                  conns' = [conns EXCEPT ![p.cid] = e] /\ Spend(1)
    BY <1>5 DEF RecvKnown
  <2>2. p.cid \in Cids /\ conns[p.cid] \in Entries /\ SoundEntry(p.cid, conns[p.cid])
    BY <2>1 DEF Inv, TypeOK
  <2>3. p \in Datagrams /\ HasToken(p.from)
    BY <2>2, ArrivingSound DEF SoundDatagram
  <2>4. /\ Received(conns[p.cid], p) \in Entries
        /\ SoundEntry(p.cid, Received(conns[p.cid], p))
    BY <2>2, <2>3, ReceivedSound
  <2>5. \A e \in ServerRejects(conns[p.cid], p) : e \in Entries /\ SoundEntry(p.cid, e)
    <3>1. Closing(conns[p.cid].q) \in Connection
      BY <2>2, ConnectionOps DEF Entries
    <3> QED
      BY <2>2, <3>1, EntryKeepsOwner DEF ServerRejects
  <2>6. pass' = "reading" /\ UNCHANGED <<client, timer, minted>>
    BY <1>5 DEF RecvKnown
  <2> QED
    BY <2>1, <2>2, <2>4, <2>5, <2>6, EntryMoves
<1>6. CASE ServerReadFails
  <2>1. faults' \in 0..MaxFaults
    BY <1>6, Spends DEF ServerReadFails, Inv, TypeOK, HostTypeOK
  <2>2. Delivers({})
    BY <1>6, <2>1 DEF ServerReadFails, Delivers, Inv, TypeOK, HostTypeOK
  <2> QED
    BY <1>0, <1>6, <2>2, ServerMoves DEF ServerReadFails, Inv, TypeOK, TimersOwned
<1> QED
  BY <1>1, <1>2, <1>3, <1>4, <1>5, <1>6

\* What a flush of an entry sends goes to a client that has its token.
LEMMA ServerSendsSound ==
  ASSUME NEW i \in Cids, NEW e \in Entries, SoundEntry(i, e), NEW how \in Hows,
         UNCHANGED client
  PROVE  /\ IsFiniteSet(ServerSends(i, e, how))
         /\ \A p \in ServerSends(i, e, how) : p \in Datagrams /\ SoundDatagram(p)'
<1> DEFINE a == [to |-> e.path, from |-> Server, ver |-> "v1", cid |-> i,
                 token |-> None, frames |-> e.q.unsent]
<1>1. e.q \in Connection /\ e.path \in Addresses /\ HasToken(e.path)
  BY DEF Entries, SoundEntry
<1>2. a \in Datagrams
  BY <1>1 DEF Datagrams, Versions, Connection
<1>3. SoundDatagram(a)'
  BY <1>1, QuicAssumption DEF SoundDatagram, HasToken
<1>4. ServerSends(i, e, how) = {} \/ ServerSends(i, e, how) = {a}
  BY DEF ServerSends
<1>5. IsFiniteSet(ServerSends(i, e, how))
  BY <1>4, FS_EmptySet, FS_Singleton
<1> HIDE DEF a
<1> QED
  BY <1>2, <1>3, <1>4, <1>5

\* The end of recv_cb: every entry that is left has been flushed, and its timer is
\* the only one that may run for it.
LEMMA PassEnds == ASSUME Inv, ServerReadDone PROVE Inv' /\ NoneGoesBack
<1>1. PICK how \in [DOMAIN conns -> Hows] :
        LET flushed == [i \in DOMAIN conns |-> ServerFlushed(conns[i])]
            started == {i \in DOMAIN conns : Armed(i, conns[i], how[i])}
            out == UNION {ServerSends(i, conns[i], how[i]) : i \in DOMAIN conns}
        IN  /\ Spend(Cardinality({i \in DOMAIN conns : how[i] # "through"}))
            /\ conns' = Without(flushed, Freed(flushed))
            /\ timer' = Running(flushed, (timer \ DOMAIN conns) \cup started)
            /\ Send(out)
  BY DEF ServerReadDone
<1> DEFINE flushed == [i \in DOMAIN conns |-> ServerFlushed(conns[i])]
           sends == [i \in DOMAIN conns |-> ServerSends(i, conns[i], how[i])]
           all == {ServerSends(i, conns[i], how[i]) : i \in DOMAIN conns}
           hitches == {i \in DOMAIN conns : how[i] # "through"}
<1>2. /\ DOMAIN conns \subseteq Cids /\ timer \subseteq DOMAIN conns
      /\ \A i \in DOMAIN conns : conns[i] \in Entries /\ SoundEntry(i, conns[i])
  BY DEF Inv, TypeOK, TimersOwned
<1>3. IsFiniteSet(DOMAIN conns)
  <2>1. IsFiniteSet(Cids)
    BY FS_Interval, QuicAssumption DEF Cids
  <2> QED
    BY <1>2, <2>1, FS_Subset
<1>4. faults' \in 0..MaxFaults
  <2>1. hitches \in SUBSET DOMAIN conns
    OBVIOUS
  <2>2. Cardinality(hitches) \in Nat
    BY <1>3, <2>1, FS_Subset, FS_CardinalityType
  <2>3. Spend(Cardinality(hitches)) /\ faults \in 0..MaxFaults
    BY <1>1 DEF Inv, TypeOK, HostTypeOK
  <2> HIDE DEF hitches
  <2> QED
    BY <2>2, <2>3, Spends
<1>5. \A a \in all : IsFiniteSet(a) /\ \A p \in a : p \in Datagrams /\ SoundDatagram(p)'
  <2>1. UNCHANGED client
    BY DEF ServerReadDone
  <2> QED
    BY <1>1, <1>2, <2>1, ServerSendsSound
<1>6. IsFiniteSet(UNION all)
  <2>1. sends \in Surjection(DOMAIN conns, all)
    BY DEF Surjection
  <2>2. IsFiniteSet(all)
    BY <1>3, <2>1, FS_Surjection
  <2> HIDE DEF all
  <2> QED
    BY <1>5, <2>2, FS_UNION
<1>7. Delivers(UNION all)
  <2>1. Send(UNION all)
    BY <1>1
  <2> HIDE DEF all
  <2> QED
    BY <1>4, <1>6, <2>1, Sends DEF Inv, TypeOK, HostTypeOK, Delivers
<1>8. \A p \in UNION all : p \in Datagrams /\ SoundDatagram(p)'
  BY <1>5
<1>9. DOMAIN conns' = DOMAIN conns \ Freed(flushed)
  BY <1>1 DEF Without
<1>10. \A i \in DOMAIN conns' : conns'[i] \in Entries /\ SoundEntry(i, conns'[i])
  <2>1. \A i \in DOMAIN conns' : i \in DOMAIN conns /\ conns'[i] = ServerFlushed(conns[i])
    BY <1>1, <1>9 DEF Without
  <2> QED
    BY <1>2, <2>1, FlushedSound
<1>11. timer' \subseteq DOMAIN conns'
  <2>1. timer' = ((timer \ DOMAIN conns) \cup {i \in DOMAIN conns : Armed(i, conns[i], how[i])})
                   \ Freed(flushed)
    BY <1>1 DEF Running
  <2> QED
    BY <1>2, <1>9, <2>1
<1>12. UNCHANGED <<client, minted>> /\ pass' = "whole"
  BY DEF ServerReadDone
<1>13. minted' \subseteq Tokens /\ IsFiniteSet(minted') /\ minted \subseteq minted'
  BY <1>12 DEF Inv, TypeOK, HostTypeOK
<1>14. DOMAIN conns' \subseteq Cids
  BY <1>2, <1>9
<1> HIDE DEF all
<1> QED
  BY <1>7, <1>8, <1>10, <1>11, <1>12, <1>13, <1>14, ServerMoves

\* timeout_cb of one connection.
LEMMA TimerFires ==
  ASSUME Inv, NEW i \in timer, NEW q \in Connection, ServerTimerFires(i, q)
  PROVE  Inv' /\ NoneGoesBack
<1>1. PICK how \in Hows :
        /\ i \in DOMAIN conns
        /\ LET e == [conns[i] EXCEPT !.q = q]
               flushed == [conns EXCEPT ![i] = ServerFlushed(e)]
           IN  /\ Spend(Price(how))
               /\ conns' = Without(flushed, Freed(flushed) \cap {i})
               /\ timer' = Running([j \in {i} |-> flushed[i]],
                                   (timer \ {i}) \cup (IF Armed(i, e, how) THEN {i} ELSE {}))
               /\ Send(ServerSends(i, e, how))
  BY DEF ServerTimerFires
<1>2. /\ DOMAIN conns \subseteq Cids /\ timer \subseteq DOMAIN conns
      /\ \A j \in DOMAIN conns : conns[j] \in Entries /\ SoundEntry(j, conns[j])
  BY DEF Inv, TypeOK, TimersOwned
<1>3. PICK e : e = [conns[i] EXCEPT !.q = q]
  OBVIOUS
<1>4. e \in Entries /\ SoundEntry(i, e)
  BY <1>1, <1>2, <1>3, EntryKeepsOwner
<1> DEFINE flushed == [conns EXCEPT ![i] = ServerFlushed(e)]
           gone == Freed(flushed) \cap {i}
           out == ServerSends(i, e, how)
<1>5. UNCHANGED <<client, pass, minted>>
  BY DEF ServerTimerFires
<1>6. IsFiniteSet(out) /\ \A p \in out : p \in Datagrams /\ SoundDatagram(p)'
  BY <1>1, <1>2, <1>4, <1>5, ServerSendsSound
<1>7. Delivers(out)
  <2>1. Send(out) /\ Spend(Price(how)) /\ Price(how) \in Nat
    BY <1>1, <1>3 DEF Price
  <2> HIDE DEF out
  <2> QED
    BY <1>6, <2>1, Sends, Spends DEF Inv, TypeOK, HostTypeOK, Delivers
<1>8. conns' = Without(flushed, gone)
  BY <1>1, <1>3
<1>9. DOMAIN conns' = DOMAIN conns \ gone
  BY <1>8 DEF Without
<1>10. \A j \in DOMAIN conns' : conns'[j] \in Entries /\ SoundEntry(j, conns'[j])
  <2>1. \A j \in DOMAIN conns' :
          j \in DOMAIN conns /\ conns'[j] = IF j = i THEN ServerFlushed(e) ELSE conns[j]
    BY <1>8, <1>9 DEF Without
  <2>2. ServerFlushed(e) \in Entries /\ SoundEntry(i, ServerFlushed(e))
    BY <1>1, <1>2, <1>4, FlushedSound
  <2> QED
    BY <1>2, <2>1, <2>2
<1>11. timer' \subseteq DOMAIN conns'
  <2>1. timer' \subseteq timer \ gone
    <3>1. timer' = ((timer \ {i}) \cup (IF Armed(i, e, how) THEN {i} ELSE {}))
                     \ Freed([j \in {i} |-> flushed[i]])
      BY <1>1, <1>3 DEF Running
    <3>2. Freed([j \in {i} |-> flushed[i]]) = gone
      BY <1>1 DEF Freed
    <3> QED
      BY <1>1, <3>1, <3>2
  <2> QED
    BY <1>2, <1>9, <2>1
<1>12. minted' \subseteq Tokens /\ IsFiniteSet(minted') /\ minted \subseteq minted'
  BY <1>5 DEF Inv, TypeOK, HostTypeOK
<1>13. pass' \in {"whole", "cut", "reading"} /\ DOMAIN conns' \subseteq Cids
  BY <1>2, <1>5, <1>9 DEF Inv, TypeOK
<1> HIDE DEF out
<1> QED
  BY <1>5, <1>6, <1>7, <1>10, <1>11, <1>12, <1>13, ServerMoves

-----------------------------------------------------------------------------
(* What follows.                                                           *)

\* In every order, with every loss and repetition, what is under way belongs to
\* somebody.
LEMMA StepsAreSound == ASSUME Inv, [Next]_vars PROVE Inv' /\ NoneGoesBack
<1>1. ASSUME NEW c \in Clients,
             \/ ClientStep(c) \/ Rebind(c) \/ ClientReads(c) \/ ClientRejects(c)
             \/ ClientReturns(c) \/ ClientTimerEarly(c)
      PROVE  Inv' /\ NoneGoesBack
  BY <1>1, ClientActs
<1>2. CASE ServerStep \/ ServerTimerEarly
  <2>1. CASE ServerReadDone
    BY <2>1, PassEnds
  <2>2. CASE ServerTimeout \/ ServerTimerEarly
    <3>1. PICK i \in timer : \E q \in {conns[i].q, OnTimeout(conns[i].q)} : ServerTimerFires(i, q)
      BY <2>2 DEF ServerTimeout, ServerTimerEarly
    <3>2. conns[i].q \in Connection
      BY DEF Inv, TypeOK, TimersOwned, Entries
    <3> QED
      BY <3>1, <3>2, ConnectionOps, TimerFires
  <2> QED
    BY <1>2, <2>1, <2>2 DEF ServerStep
<1>3. CASE \/ NegotiateVersion \/ Retry \/ DropDatagram \/ AcceptConn \/ RecvKnown
           \/ ServerReadFails
  BY <1>3, ServerHears
<1>4. CASE Lose
  <2>1. PICK p \in net : net' = net \ {p}
    BY <1>4 DEF Lose
  <2>2. UNCHANGED <<client, serverVars, dups, faults>>
    BY <1>4 DEF Lose
  <2>3. IsFiniteSet(net') /\ Cardinality(net') = Cardinality(net) - 1
    BY <2>1, FS_RemoveElement DEF Inv
  <2>4. Cardinality(net) \in Nat /\ Cardinality(net) <= MaxNet /\ MaxNet \in Nat
    BY FS_CardinalityType, QuicAssumption DEF Inv, TypeOK, HostTypeOK
  <2>5. Cardinality(net') <= MaxNet
    BY <2>3, <2>4
  <2>6. Delivers({})
    BY <2>1, <2>2, <2>3, <2>5 DEF Delivers, Inv, TypeOK, HostTypeOK
  <2> QED
    BY <2>2, <2>6, ServerMoves DEF serverVars, Inv, TypeOK, HostTypeOK, TimersOwned
<1>5. CASE UNCHANGED vars
  BY <1>5 DEF vars, Inv, TypeOK, HostTypeOK, SoundClient, SoundDatagram, SoundEntry, HasToken,
              TimersOwned, NoneGoesBack, GoesOn
<1> QED
  BY <1>1, <1>2, <1>3, <1>4, <1>5 DEF Next

LEMMA StartsSound == Init => Inv
<1> SUFFICES ASSUME Init PROVE Inv
  OBVIOUS
<1> USE QuicAssumption, MaxPtosAssumption DEF Init, ServerInit, HostInit
<1>1. Connect \in Connection /\ Connect.established = FALSE
  BY DEF Connect, Fresh, Connection, Phases, Frames
<1>2. ASSUME NEW c \in Clients PROVE ClientInit(c) \in ClientStates /\ SoundClient(c, ClientInit(c))
  BY <1>1 DEF ClientInit, ClientStates, Addresses, SoundClient
<1>3. DOMAIN conns = {}
  OBVIOUS
<1>4. IsFiniteSet({}) /\ Cardinality({}) = 0
  BY FS_EmptySet
<1>5. HostTypeOK
  BY <1>4 DEF HostTypeOK
<1>6. client \in [Clients -> ClientStates] /\ \A c \in Clients : SoundClient(c, client[c])
  BY <1>2
<1> QED
  BY <1>3, <1>4, <1>5, <1>6 DEF Inv, TypeOK, TimersOwned

\* recv_cb and its counterpart keep their types whatever arrives.
THEOREM ExchangeTyped == Spec => []TypeOK
<1>1. Spec => []Inv
  BY StartsSound, StepsAreSound, PTL DEF Spec
<1> QED
  BY <1>1, PTL DEF Inv

\* Of clients that send only the token a Retry gave them: whatever arrives, in
\* whatever order, however often and from whatever new address, an entry of the
\* server's table is for the address and the id of one Retry.
THEOREM EntriesComeFromRetries == Spec => []EntryFromRetry
<1>1. Spec => []Inv
  BY StartsSound, StepsAreSound, PTL DEF Spec
<1>2. Inv => EntryFromRetry
  BY DEF Inv, EntryFromRetry, SoundEntry, SoundClient, HasToken, Addresses
<1> QED
  BY <1>1, <1>2, PTL

\* No timer of a conn_io outlives the entry it was started for.
THEOREM TimersHaveOwners == Spec => []TimersOwned
<1>1. Spec => []Inv
  BY StartsSound, StepsAreSound, PTL DEF Spec
<1> QED
  BY <1>1, PTL DEF Inv

\* One run of the client never occupies two entries: both would be for the one
\* token it ever has.
THEOREM OneEntryPerRun == Spec => []OneConnectionPerRun
<1>1. Spec => []Inv
  BY StartsSound, StepsAreSound, PTL DEF Spec
<1>2. Inv => OneConnectionPerRun
  BY DEF Inv, OneConnectionPerRun, SoundEntry
<1> QED
  BY <1>1, <1>2, PTL

\* No packet takes a client back behind its handshake or points it elsewhere.
THEOREM EstablishedStays == Spec => EstablishedIsKept
<1>1. Spec => []Inv
  BY StartsSound, StepsAreSound, PTL DEF Spec
<1>2. Inv /\ Inv' /\ NoneGoesBack =>
        \A c \in Clients :
          client[c].q.established =>
            client'[c].q.established /\ client'[c].dcid = client[c].dcid
  <2> SUFFICES ASSUME Inv, Inv', NoneGoesBack, NEW c \in Clients, client[c].q.established
               PROVE  client'[c].q.established /\ client'[c].dcid = client[c].dcid
    OBVIOUS
  <2>1. SoundClient(c, client[c]) /\ SoundClient(c, client[c])' /\ GoesOn(client[c], client'[c])
    BY DEF Inv, NoneGoesBack
  <2>2. client[c].token # None /\ client[c].dcid = client[c].token.cid
    BY <2>1 DEF SoundClient
  <2>3. client'[c].token = client[c].token /\ client'[c].dcid = client'[c].token.cid
    BY <2>1, <2>2 DEF SoundClient, GoesOn
  <2> QED
    BY <2>1, <2>2, <2>3 DEF GoesOn
<1> QED
  BY <1>1, <1>2, StepsAreSound, PTL DEF Spec, EstablishedIsKept
=============================================================================
