------------------------------- MODULE Quiche -------------------------------
(***************************************************************************)
(* One QUIC connection as the example programs of native/aether/quiche see *)
(* it through quiche.h: what quiche_conn_recv, quiche_conn_send,           *)
(* quiche_conn_close, quiche_conn_timeout_as_nanos and                     *)
(* quiche_conn_on_timeout do to it (quiche/src/lib.rs).                    *)
(*                                                                         *)
(* A packet is the set of things it carries.  Packet numbers, keys, flow   *)
(* and congestion control are left out: a frame is acknowledged by the     *)
(* frame of the other side that answers it, and a probe sends everything   *)
(* unacknowledged again.  Of the deadlines only their order is kept: a     *)
(* connection with something unacknowledged is probed MaxPtos times, then  *)
(* its idle timer runs out (idle_timeout() is at least three PTOs).  Of    *)
(* keys only the three levels are kept, not which handshake they are from; *)
(* a path's validation is left out.                                        *)
(***************************************************************************)
EXTENDS Naturals

CONSTANTS None,      \* no token
          MaxPtos    \* bound: probes sent before the idle timeout

ASSUME MaxPtosAssumption == MaxPtos \in Nat

Phases == {"open", "closing", "draining", "closed"}

\* The client's, the server's, and those of both.  "finished" ends the handshake;
\* "abort" is the CONNECTION_CLOSE of a side whose handshake has not ended.
Frames ==
  {"hello", "finished", "request"} \cup {"flight", "response"} \cup {"close", "abort"}

\* A client's Initial packets, and the frames that travel under a short header.
Initial(frames) == frames \cap {"hello", "abort"} # {}
Short(frames) == frames \cap {"request", "close"} # {}

Connection == [phase: Phases,             \* local_error, draining_timer, closed
               established: BOOLEAN,      \* handshake_completed
               heard: BOOLEAN,            \* recv_count > 0
               unsent: SUBSET Frames,
               unacked: SUBSET Frames,
               ptos: 0..MaxPtos]

Fresh(frames) == [phase |-> "open", established |-> FALSE, heard |-> FALSE,
                  unsent |-> frames, unacked |-> {}, ptos |-> 0]

\* quiche_connect: the first flight is ready to go; quiche_accept: nothing is.
Connect == Fresh({"hello"})
Accept  == Fresh({})

\* Version negotiation and Retry: drop_epoch_state(Initial), and another
\* Initial has to be sent.  Neither counts as a packet received.
StartOver(q) == [q EXCEPT !.unsent = {"hello"}, !.unacked = {}, !.ptos = 0]

\* A packet got through, and answers the frames given.
Acked(q, frames) ==
  [q EXCEPT !.heard = TRUE, !.ptos = 0,
            !.unsent = @ \ frames, !.unacked = @ \ frames]

\* recv_single drops everything once the connection is on its way out.
Listens(q) == q.phase = "open"

\* quiche_conn_send, until it answers QUICHE_ERR_DONE.  Sending the
\* CONNECTION_CLOSE starts the draining timer.
HasToSend(q) == q.phase \in {"open", "closing"} /\ q.unsent # {}
Sent(q) ==
  [q EXCEPT !.unacked = @ \cup q.unsent,
            !.unsent = {},
            !.phase = IF @ = "closing" THEN "draining" ELSE @]

\* quiche_conn_close, which quiche_conn_recv calls as well before it returns an
\* error; with nothing ever received the connection closes at once.
Closing(q) ==
  IF q.phase # "open" THEN q
  ELSE [q EXCEPT !.phase = IF q.heard THEN "closing" ELSE "closed",
                 !.unsent = {IF q.established THEN "close" ELSE "abort"},
                 !.unacked = {}]

\* The peer's CONNECTION_CLOSE.
Draining(q) == [q EXCEPT !.phase = "draining", !.unsent = {}, !.unacked = {}]

\* quiche_conn_timeout_as_nanos is not UINT64_MAX.  The idle timer starts with
\* the first packet received or the first ack-eliciting one sent.
HasDeadline(q) ==
  \/ q.phase = "draining"
  \/ q.phase # "closed" /\ (q.heard \/ q.unacked # {})

\* quiche_conn_on_timeout once a deadline has passed: draining takes precedence;
\* else the loss timer's probe; else the idle timer closes the connection.  Before
\* any has, it does nothing.
OnTimeout(q) ==
  CASE q.phase = "draining" -> [q EXCEPT !.phase = "closed"]
    [] q.phase \in {"open", "closing"} /\ q.unacked # {} /\ q.ptos < MaxPtos
         -> [q EXCEPT !.unsent = @ \cup q.unacked, !.ptos = @ + 1]
    [] OTHER -> [q EXCEPT !.phase = "closed"]

-----------------------------------------------------------------------------
(* quiche_conn_recv at the client, of a record with the fields q, ver,     *)
(* token and dcid.                                                         *)

\* A version negotiation: only the first, and only while
\* nothing else has been received.
OnNegotiation(k, p) ==
  IF k.ver = "other" /\ ~k.q.heard
    THEN [k EXCEPT !.ver = "v1", !.q = StartOver(@)] ELSE k

\* Mutant: a second Retry is obeyed as well.
OnRetryAgain(k, p) ==
  IF p.token.odcid = p.to.of
    THEN [k EXCEPT !.token = p.token, !.dcid = p.cid, !.q = StartOver(@)] ELSE k

\* A Retry: only the first, and only one for the id it was sent to.
OnRetry(k, p) ==
  IF k.token = None /\ p.token.odcid = k.dcid
    THEN [k EXCEPT !.token = p.token, !.dcid = p.cid, !.q = StartOver(@)] ELSE k

\* The server's first flight, which ends the client's handshake.
OnFlight(k) ==
  IF k.q.established THEN k
  ELSE [k EXCEPT !.q = [Acked(k.q, {"hello"}) EXCEPT !.established = TRUE,
                                                      !.unsent = {"finished"}]]

\* The server's CONNECTION_CLOSE, if the keys for it are there.
OnServerClose(k) == IF k.q.established THEN [k EXCEPT !.q = Draining(@)] ELSE k

\* quiche_conn_recv fails on a packet it has the keys for and closes: the flight,
\* in its first packet or its second, or what an established server sends.
Rejects(q, p) ==
  IF Listens(q) /\ p.frames = {IF q.established THEN "response" ELSE "flight"}
    THEN {Closing(q), Closing([q EXCEPT !.heard = TRUE])} ELSE {}

-----------------------------------------------------------------------------
(* quiche_conn_recv at the server, of a record with the fields q, path and *)
(* stream.                                                                 *)

\* on_peer_migrated: the latest packet's address is the active path's.  A
\* client's addresses are numbered in the order it had them.
Later(a, b) == IF b.n > a.n THEN b ELSE a

\* A packet with a long header is on the active path, wherever it comes from.
Migrated(path, p) == IF Short(p.frames) THEN Later(path, p.from) ELSE path

\* The first Initial is answered with the server's flight.
OnHello(e) ==
  IF e.q.heard THEN e ELSE [e EXCEPT !.q = [Acked(@, {}) EXCEPT !.unsent = {"flight"}]]

\* The keys of short headers are there with the end of the handshake.
Opens(q, p) == q.established \/ ("finished" \in p.frames /\ q.heard)

\* The end of the handshake, a request, or both in one datagram.
OnRequest(e, p) ==
  [e EXCEPT !.q = [Acked(@, {"flight"}) EXCEPT !.established = TRUE],
            !.path = Migrated(@, p),
            !.stream = IF "request" \in p.frames /\ @ = "none" THEN "readable" ELSE @]

\* A CONNECTION_CLOSE: with a short header, or in an Initial packet, whose keys
\* are dropped by the end of the handshake.
OnClose(e, p) ==
  IF e.q.established = ("close" \in p.frames)
    THEN [e EXCEPT !.q = Draining([@ EXCEPT !.heard = TRUE]), !.path = Migrated(@, p)]
    ELSE e

\* It fails on a connection that has heard something, and closes that.
ServerRejects(e, p) ==
  IF /\ Listens(e.q) /\ e.q.heard
     /\ IF e.q.established THEN Short(p.frames)
        ELSE Initial(p.frames) \/ "finished" \in p.frames
    THEN {[e EXCEPT !.q = Closing(@)]} ELSE {}

ServerRecv(e, p) ==
  CASE ~Listens(e.q) -> e
    [] Listens(e.q) /\ p.frames = {"hello"} -> OnHello(e)
    [] Listens(e.q) /\ p.frames \in {{"close"}, {"abort"}} -> OnClose(e, p)
    [] OTHER -> IF Opens(e.q, p) THEN OnRequest(e, p) ELSE e
=============================================================================
