------------------------------ MODULE TunPump ------------------------------
(***************************************************************************)
(* native/android-bridge/src/tun.rs: the two threads that carry packets    *)
(* between the TUN descriptor and the engine's queues, and the call of     *)
(* nativeRun that starts them, drops the runtime and joins them.           *)
(*                                                                         *)
(* A packet is its number in the order it was read from the device, or in  *)
(* the order the engine sent it.  The engine itself is external: it takes  *)
(* from one queue and fills the other for as long as the runtime lives.    *)
(***************************************************************************)
EXTENDS Naturals, Sequences

CONSTANTS Capacity,     \* PACKET_QUEUE
          MaxPackets    \* bound: packets in each direction

ASSUME CapacityAssumption == Capacity \in Nat \ {0}
ASSUME MaxPacketsAssumption == MaxPackets \in Nat

VARIABLES
  call,        \* where nativeRun is
  runtime,     \* the runtime lives, and with it the engine's ends of the queues
  cancelled,   \* TunPump.cancelled
  reader,      \* where the reading thread is
  writer,      \* where the writing thread is
  fds,         \* descriptors open: "read" the one handed in, "write" its copy
  device,      \* device_packets: from the device to the engine
  tunnel,      \* tunnel_packets: from the engine to the device
  read,        \* packets read from the device so far
  taken,       \* packets the engine has taken
  sent,        \* packets the engine has sent
  hand,        \* the packet the writer took from the queue last
  written      \* the last packet written whole

vars == <<call, runtime, cancelled, reader, writer, fds, device, tunnel, read,
          taken, sent, hand, written>>
queues == <<device, tunnel, read, taken, sent, hand, written>>

Calls == {"start", "spawn", "spawnWriter", "running", "dropped", "joinReader",
          "joinWriter", "returned", "failJoin", "failed"}
Readers == {"none", "check", "poll", "send", "done"}
Writers == {"none", "recv", "write", "done"}

TypeOK ==
  /\ call \in Calls
  /\ runtime \in BOOLEAN /\ cancelled \in BOOLEAN
  /\ reader \in Readers /\ writer \in Writers
  /\ fds \in SUBSET {"read", "write"}
  /\ device \in Seq(Nat) /\ Len(device) <= Capacity
  /\ tunnel \in Seq(Nat) /\ Len(tunnel) <= Capacity
  /\ read \in 0..MaxPackets /\ taken \in 0..MaxPackets
  /\ sent \in 0..MaxPackets /\ hand \in 0..MaxPackets /\ written \in 0..MaxPackets

Init ==
  /\ call = "start" /\ runtime = TRUE /\ cancelled = FALSE
  /\ reader = "none" /\ writer = "none"
  /\ fds = {"read"}
  /\ device = << >> /\ tunnel = << >>
  /\ read = 0 /\ taken = 0 /\ sent = 0 /\ hand = 0 /\ written = 0

-----------------------------------------------------------------------------
(* TunPump::start                                                          *)

\* dup, or the descriptor is closed and the start has failed.
Dup ==
  /\ call = "start"
  /\ \/ call' = "spawn" /\ fds' = {"read", "write"}
     \/ call' = "failed" /\ fds' = {}
  /\ UNCHANGED <<runtime, cancelled, reader, writer, queues>>

\* set_nonblocking and the reader's thread; either failure drops both files.
SpawnReader ==
  /\ call = "spawn"
  /\ \/ call' = "spawnWriter" /\ reader' = "check" /\ UNCHANGED fds
     \/ call' = "failed" /\ fds' = {} /\ UNCHANGED reader
  /\ UNCHANGED <<runtime, cancelled, writer, queues>>

\* Mutant: the reader is joined without having been told to stop.
SpawnWriterUntold ==
  /\ call = "spawnWriter"
  /\ \/ call' = "running" /\ writer' = "recv" /\ UNCHANGED fds
     \/ call' = "failJoin" /\ fds' = fds \ {"write"} /\ UNCHANGED writer
  /\ UNCHANGED <<runtime, cancelled, reader, queues>>

\* The writer's thread.  If there is none its file goes with the closure, and
\* the reader is told to stop and joined.
SpawnWriter ==
  /\ call = "spawnWriter"
  /\ \/ call' = "running" /\ writer' = "recv" /\ UNCHANGED <<cancelled, fds>>
     \/ /\ call' = "failJoin" /\ cancelled' = TRUE /\ fds' = fds \ {"write"}
        /\ UNCHANGED writer
  /\ UNCHANGED <<runtime, reader, queues>>

FailJoined ==
  /\ call = "failJoin" /\ reader = "done"
  /\ call' = "failed"
  /\ UNCHANGED <<runtime, cancelled, reader, writer, fds, queues>>

-----------------------------------------------------------------------------
(* The reading thread.                                                     *)

\* A thread that ends takes its file with it.
ReaderEnds == reader' = "done" /\ fds' = fds \ {"read"}

ReaderCheck ==
  /\ reader = "check"
  /\ IF cancelled THEN ReaderEnds ELSE reader' = "poll" /\ UNCHANGED fds
  /\ UNCHANGED <<call, runtime, cancelled, writer, queues>>

\* Nothing within 250 ms, or WouldBlock: round again.  The end of the file, or
\* an error: the thread is over.
ReaderIdle ==
  /\ reader = "poll"
  /\ \/ reader' = "check" /\ UNCHANGED fds
     \/ ReaderEnds
  /\ UNCHANGED <<call, runtime, cancelled, writer, queues>>

ReaderReads ==
  /\ reader = "poll" /\ read < MaxPackets
  /\ read' = read + 1
  /\ reader' = "send"
  /\ UNCHANGED <<call, runtime, cancelled, writer, fds, device, tunnel, taken, sent, hand, written>>

\* Mutant: try_send, whose error ends nothing: a packet the queue has no room
\* for is dropped.
ReaderTriesToSend ==
  /\ reader = "send"
  /\ device' = IF Len(device) < Capacity THEN Append(device, read) ELSE device
  /\ reader' = "check"
  /\ UNCHANGED <<call, runtime, cancelled, writer, fds, tunnel, read, taken, sent, hand, written>>

\* blocking_send: blocks on a full queue, fails once nobody can receive.
ReaderSends ==
  /\ reader = "send"
  /\ \/ /\ runtime /\ Len(device) < Capacity
        /\ device' = Append(device, read)
        /\ reader' = "check"
        /\ UNCHANGED fds
     \/ ~runtime /\ ReaderEnds /\ UNCHANGED device
  /\ UNCHANGED <<call, runtime, cancelled, writer, tunnel, read, taken, sent, hand, written>>

-----------------------------------------------------------------------------
(* The writing thread.                                                     *)

WriterEnds == writer' = "done" /\ fds' = fds \ {"write"}

\* blocking_recv: what is still in the queue comes out also after the sender is
\* gone, and each packet is followed by a look at the flag.
WriterReceives ==
  /\ writer = "recv"
  /\ \/ /\ tunnel # << >>
        /\ tunnel' = Tail(tunnel)
        /\ hand' = Head(tunnel)
        /\ IF cancelled THEN WriterEnds ELSE writer' = "write" /\ UNCHANGED fds
     \/ tunnel = << >> /\ ~runtime /\ WriterEnds /\ UNCHANGED <<tunnel, hand>>
  /\ UNCHANGED <<call, runtime, cancelled, reader, device, read, taken, sent, written>>

\* Mutant: write_packet gives the packet up when the device is not ready.
WriterGivesUp ==
  /\ writer = "write"
  /\ \/ written' \in {hand, written} /\ writer' = "recv" /\ UNCHANGED fds
     \/ WriterEnds /\ UNCHANGED written
  /\ UNCHANGED <<call, runtime, cancelled, reader, device, tunnel, read, taken, sent, hand>>

\* write_packet: written whole, or left where it was because the pump is
\* cancelled; or an error, and the thread is over.
WriterWrites ==
  /\ writer = "write"
  /\ \/ written' = hand /\ writer' = "recv" /\ UNCHANGED fds
     \/ cancelled /\ writer' = "recv" /\ UNCHANGED <<fds, written>>
     \/ WriterEnds /\ UNCHANGED written
  /\ UNCHANGED <<call, runtime, cancelled, reader, device, tunnel, read, taken, sent, hand>>

-----------------------------------------------------------------------------
(* The engine, and the end of nativeRun.                                   *)

EngineTakes ==
  /\ call = "running" /\ device # << >>
  /\ taken' = Head(device)
  /\ device' = Tail(device)
  /\ UNCHANGED <<call, runtime, cancelled, reader, writer, fds, tunnel, read, sent, hand, written>>

EngineSends ==
  /\ call = "running" /\ sent < MaxPackets /\ Len(tunnel) < Capacity
  /\ sent' = sent + 1
  /\ tunnel' = Append(tunnel, sent + 1)
  /\ UNCHANGED <<call, runtime, cancelled, reader, writer, fds, device, read, taken, hand, written>>

\* Mutant: the pump is stopped while the runtime still holds the queues.
DropRuntimeLast ==
  /\ call = "running"
  /\ call' = "dropped"
  /\ UNCHANGED <<runtime, cancelled, reader, writer, fds, queues>>

\* drop(runtime)
DropRuntime ==
  /\ call = "running"
  /\ runtime' = FALSE
  /\ call' = "dropped"
  /\ UNCHANGED <<cancelled, reader, writer, fds, queues>>

\* TunPump::stop: the flag, then the two joins.
Stop ==
  /\ call = "dropped"
  /\ cancelled' = TRUE
  /\ call' = "joinReader"
  /\ UNCHANGED <<runtime, reader, writer, fds, queues>>

JoinReader ==
  /\ call = "joinReader" /\ reader = "done"
  /\ call' = "joinWriter"
  /\ UNCHANGED <<runtime, cancelled, reader, writer, fds, queues>>

\* Mutant: the writer is left to end by itself.
JoinWriterDetached ==
  /\ call = "joinWriter"
  /\ call' = "returned"
  /\ UNCHANGED <<runtime, cancelled, reader, writer, fds, queues>>

JoinWriter ==
  /\ call = "joinWriter" /\ writer = "done"
  /\ call' = "returned"
  /\ UNCHANGED <<runtime, cancelled, reader, writer, fds, queues>>

-----------------------------------------------------------------------------
Start == Dup \/ SpawnReader \/ SpawnWriter \/ FailJoined
Reader == ReaderCheck \/ ReaderIdle \/ ReaderReads \/ ReaderSends
Writer == WriterReceives \/ WriterWrites
Ends == Stop \/ JoinReader \/ JoinWriter

Next == Start \/ Reader \/ Writer \/ EngineTakes \/ EngineSends \/ DropRuntime \/ Ends

Spec == Init /\ [][Next]_vars

\* The three threads are native threads nobody suspends.  Neither the engine
\* nor the device is assumed to move anything, nor the engine to end: a write
\* has to come back only once the pump is cancelled.
Fairness ==
  /\ WF_vars(Start) /\ WF_vars(Reader) /\ WF_vars(Ends)
  /\ WF_vars(WriterReceives) /\ WF_vars(cancelled /\ WriterWrites)

FairSpec == Spec /\ Fairness

-----------------------------------------------------------------------------
(* Properties.                                                             *)

\* What the engine gets is what the device gave, whole and in its order: the
\* queue holds the packets after the last one taken up to the last one read,
\* but for the one the reader has in its hand or lost with its receiver.
DeviceInOrder ==
  /\ \A i \in 1..Len(device) : device[i] = taken + i
  /\ taken + Len(device) <= read
  /\ reader \in {"none", "check", "poll"} => taken + Len(device) = read
  /\ reader = "send" => taken + Len(device) + 1 = read

\* The same for what the engine sends: until the pump is cancelled each packet
\* is written whole before the next is taken, and none is skipped.
TunnelInOrder ==
  /\ \A i \in 1..Len(tunnel) : tunnel[i] = hand + i
  /\ hand + Len(tunnel) = sent
  /\ writer = "write" => written + 1 = hand
  /\ writer = "recv" /\ ~cancelled => written = hand

\* When nativeRun is back, the start having failed or the pump having been
\* stopped, both copies of the descriptor are closed and no thread is left: the
\* interface is down, and the next session's is not read by the last one's.
ClosedOnReturn ==
  call \in {"returned", "failed"} =>
    fds = {} /\ reader \in {"none", "done"} /\ writer \in {"none", "done"}

\* Once the runtime is dropped the pump is joined, whatever the threads were
\* doing: a reader blocked on a full queue, a writer on an empty one or on a
\* device that takes nothing.
StopReturns == call = "dropped" ~> call = "returned"

\* A start that fails half way comes back too, unless the reader has already
\* filled a queue nobody will ever read from.
FailedStartReturns ==
  call = "failJoin" ~> call = "failed" \/ (reader = "send" /\ Len(device) = Capacity)
=============================================================================
