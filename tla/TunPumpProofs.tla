--------------------------- MODULE TunPumpProofs ---------------------------
(***************************************************************************)
(* What TunPump promises for a queue of any length and any number of       *)
(* packets.  Types and orders are proved together: that a packet taken from *)
(* a queue is one that was put there is what bounds its number.            *)
(***************************************************************************)
EXTENDS TunPump, TLAPS

\* The queues hold consecutive packets and every packet is accounted for.
InOrder ==
  /\ TypeOK /\ DeviceInOrder /\ TunnelInOrder
  /\ writer = "none" => written = hand

\* Which threads and descriptors there are at each step of the call.
Owned ==
  /\ call \in Calls /\ reader \in Readers /\ writer \in Writers
  /\ fds \in SUBSET {"read", "write"}
  /\ reader = "none" <=> call \in {"start", "spawn"} \/ (call = "failed" /\ reader = "none")
  /\ writer = "none" <=>
       \/ call \in {"start", "spawn", "spawnWriter", "failJoin"}
       \/ (call = "failed" /\ writer = "none")
  /\ reader = "done" => "read" \notin fds
  /\ writer = "done" => "write" \notin fds
  /\ call = "failJoin" => "write" \notin fds
  /\ call = "joinWriter" => reader = "done"
  /\ ClosedOnReturn

\* A packet put at the end of a queue is after all the others, and one taken
\* from its head leaves the rest as they were.
LEMMA QueueEnds ==
  ASSUME NEW q \in Seq(Nat), NEW n \in Nat
  PROVE  /\ Append(q, n) \in Seq(Nat) /\ Len(Append(q, n)) = Len(q) + 1
         /\ \A i \in 1..Len(q) : Append(q, n)[i] = q[i]
         /\ Append(q, n)[Len(q) + 1] = n
         /\ q # << >> => /\ Len(q) >= 1 /\ Head(q) = q[1]
                         /\ Tail(q) \in Seq(Nat) /\ Len(Tail(q)) = Len(q) - 1
                         /\ \A i \in 1..Len(Tail(q)) : Tail(q)[i] = q[i + 1]
  OBVIOUS

\* A thread exists from its spawn to its end, and takes its file with it.
LEMMA AlwaysOwned == Spec => []Owned
<1>1. Init => Owned
  BY DEF Init, Owned, ClosedOnReturn, Calls, Readers, Writers
<1>2. Owned /\ [Next]_vars => Owned'
  <2> SUFFICES ASSUME Owned, [Next]_vars PROVE Owned'
    OBVIOUS
  <2> USE DEF Owned, Calls, Readers, Writers, ClosedOnReturn, ReaderEnds, WriterEnds
  <2>1. CASE Dup
    BY <2>1 DEF Dup
  <2>2. CASE SpawnReader
    BY <2>2 DEF SpawnReader
  <2>3. CASE SpawnWriter
    BY <2>3 DEF SpawnWriter
  <2>4. CASE FailJoined
    BY <2>4 DEF FailJoined
  <2>5. CASE Reader
    BY <2>5 DEF Reader, ReaderCheck, ReaderIdle, ReaderReads, ReaderSends
  <2>6. CASE Writer
    BY <2>6 DEF Writer, WriterReceives, WriterWrites
  <2>7. CASE EngineTakes \/ EngineSends
    BY <2>7 DEF EngineTakes, EngineSends
  <2>8. CASE DropRuntime
    BY <2>8 DEF DropRuntime
  <2>9. CASE Stop
    BY <2>9 DEF Stop
  <2>10. CASE JoinReader
    BY <2>10 DEF JoinReader
  <2>11. CASE JoinWriter
    BY <2>11 DEF JoinWriter
  <2>12. CASE UNCHANGED vars
    BY <2>12 DEF vars
  <2> QED
    BY <2>1, <2>2, <2>3, <2>4, <2>5, <2>6, <2>7, <2>8, <2>9, <2>10, <2>11, <2>12
    DEF Next, Start, Ends
<1> QED
  BY <1>1, <1>2, PTL DEF Spec

\* A run or a failed start that is back has left neither a thread nor an open
\* copy of the descriptor behind.
THEOREM NothingLeftBehind == Spec => []ClosedOnReturn
<1>1. Owned => ClosedOnReturn
  BY DEF Owned
<1> QED
  BY <1>1, AlwaysOwned, PTL

\* Whatever the threads, the engine and the device do, no packet overtakes
\* another and none is lost while both ends of its queue live, and neither
\* queue outgrows its capacity.
THEOREM PacketsInOrder == Spec => [](TypeOK /\ DeviceInOrder /\ TunnelInOrder)
<1> USE CapacityAssumption, MaxPacketsAssumption
<1>1. Init => InOrder
  <2> SUFFICES ASSUME Init PROVE InOrder
    OBVIOUS
  <2> USE DEF Init
  <2>1. << >> \in Seq(Nat) /\ Len(<< >>) = 0
    OBVIOUS
  <2>2. TypeOK
    <3>1. device \in Seq(Nat) /\ Len(device) <= Capacity
      BY <2>1
    <3>2. tunnel \in Seq(Nat) /\ Len(tunnel) <= Capacity
      BY <2>1
    <3>3. runtime \in BOOLEAN /\ cancelled \in BOOLEAN
      OBVIOUS
    <3> QED
      BY <3>1, <3>2, <3>3 DEF TypeOK, Calls, Readers, Writers
  <2>3. DeviceInOrder /\ TunnelInOrder
    BY <2>1 DEF DeviceInOrder, TunnelInOrder
  <2> QED
    BY <2>2, <2>3 DEF InOrder
<1>2. Owned /\ InOrder /\ [Next]_vars => InOrder'
  <2> SUFFICES ASSUME Owned, InOrder, [Next]_vars PROVE InOrder'
    OBVIOUS
  <2> USE DEF InOrder, TypeOK, Calls, Readers, Writers, DeviceInOrder, TunnelInOrder,
              queues, ReaderEnds, WriterEnds
  <2>0. Len(device) \in Nat /\ Len(tunnel) \in Nat
    OBVIOUS
  <2>1. CASE Dup
    BY <2>1 DEF Dup
  <2>2. CASE SpawnReader
    BY <2>2 DEF SpawnReader, Owned
  <2>3. CASE SpawnWriter
    BY <2>3 DEF SpawnWriter, Owned
  <2>4. CASE FailJoined
    BY <2>4 DEF FailJoined
  <2>5. CASE ReaderCheck
    BY <2>5 DEF ReaderCheck
  <2>6. CASE ReaderIdle
    <3> USE <2>6 DEF ReaderIdle
    <3>1. TypeOK'
      OBVIOUS
    <3>2. DeviceInOrder'
      OBVIOUS
    <3>3. TunnelInOrder' /\ (writer = "none" => written = hand)'
      OBVIOUS
    <3> HIDE DEF TypeOK, DeviceInOrder, TunnelInOrder, ReaderIdle
    <3> QED
      BY <3>1, <3>2, <3>3
  <2>7. CASE ReaderReads
    <3> USE <2>7 DEF ReaderReads
    <3>1. TypeOK'
      BY <2>0
    <3>2. /\ device' = device /\ taken' = taken /\ read' = read + 1 /\ reader' = "send"
          /\ taken + Len(device) = read
      OBVIOUS
    <3>3. taken' + Len(device') + 1 = read' /\ taken' + Len(device') <= read'
      <4>1. taken \in Nat /\ read \in Nat
        OBVIOUS
      <4> HIDE DEF InOrder, TypeOK, ReaderReads
      <4> QED
        BY <4>1, <3>2, <2>0
    <3>4. DeviceInOrder'
      BY <3>2, <3>3
    <3> QED
      BY <3>1, <3>4
  <2>8. CASE ReaderSends
    <3>1. CASE runtime /\ Len(device) < Capacity /\ device' = Append(device, read)
      <4> USE <2>8, <3>1 DEF ReaderSends
      <4>1. /\ device' \in Seq(Nat) /\ Len(device') = Len(device) + 1
            /\ \A i \in 1..Len(device) : device'[i] = device[i]
            /\ device'[Len(device) + 1] = read
        BY QueueEnds
      <4>2. /\ reader' = "check"
            /\ UNCHANGED <<call, runtime, cancelled, writer, fds, tunnel, read, taken, sent,
                           hand, written>>
            /\ reader = "send"
        OBVIOUS
      <4>6. TypeOK'
        BY <4>1, <4>2, <2>0
      <4>3. \A i \in 1..Len(device') : device'[i] = taken + i
        <5> SUFFICES ASSUME NEW i \in 1..Len(device') PROVE device'[i] = taken + i
          OBVIOUS
        <5>1. CASE i \in 1..Len(device)
          BY <5>1, <4>1
        <5>2. CASE i = Len(device) + 1
          BY <5>2, <4>1, <4>2, <2>0
        <5> QED
          BY <5>1, <5>2, <4>1, <2>0
      <4>4. taken' + Len(device') = read' /\ taken' + Len(device') <= read'
        <5>1. taken \in Nat /\ read \in Nat /\ taken + Len(device) + 1 = read
          BY <4>2
        <5> HIDE DEF InOrder, TypeOK, ReaderSends
        <5> QED
          BY <5>1, <4>1, <4>2, <2>0
      <4>5. DeviceInOrder'
        BY <4>2, <4>3, <4>4 DEF DeviceInOrder
      <4>7. TunnelInOrder' /\ (writer = "none" => written = hand)'
        BY <4>2
      <4> HIDE DEF TypeOK, DeviceInOrder, TunnelInOrder, ReaderSends
      <4> QED
        BY <4>5, <4>6, <4>7
    <3>2. CASE ~runtime /\ ReaderEnds /\ UNCHANGED device
      BY <2>8, <3>2 DEF ReaderSends
    <3> QED
      BY <2>8, <3>1, <3>2 DEF ReaderSends
  <2>9. CASE WriterReceives
    <3>1. CASE tunnel # << >>
      <4>1. /\ tunnel' = Tail(tunnel) /\ hand' = Head(tunnel)
            /\ writer' \in {"write", "done"} /\ fds' \in SUBSET {"read", "write"}
            /\ cancelled => writer' = "done"
            /\ UNCHANGED <<call, runtime, cancelled, reader, device, read, taken, sent, written>>
            /\ writer = "recv"
        BY <2>9, <3>1 DEF WriterReceives
      <4>2. /\ tunnel' \in Seq(Nat) /\ Len(tunnel') = Len(tunnel) - 1 /\ Len(tunnel) >= 1
            /\ \A i \in 1..Len(tunnel') : tunnel'[i] = tunnel[i + 1]
            /\ hand' = tunnel[1]
        BY <3>1, <4>1, QueueEnds
      <4>3. hand' = hand + 1
        BY <4>2, <2>0
      <4>4. \A i \in 1..Len(tunnel') : tunnel'[i] = hand' + i
        <5> SUFFICES ASSUME NEW i \in 1..Len(tunnel') PROVE tunnel'[i] = hand' + i
          OBVIOUS
        <5>1. i + 1 \in 1..Len(tunnel) /\ i \in Nat /\ hand \in Nat
          BY <4>2, <2>0
        <5>2. tunnel'[i] = tunnel[i + 1] /\ tunnel[i + 1] = hand + (i + 1)
          BY <5>1, <4>2
        <5> HIDE DEF InOrder, TypeOK, DeviceInOrder, TunnelInOrder
        <5> QED
          BY <5>1, <5>2, <4>3
      <4>5. hand' + Len(tunnel') = sent'
        BY <4>1, <4>2, <4>3, <2>0
      <4>6. TypeOK'
        <5>1. /\ hand \in Nat /\ sent \in Nat /\ sent <= MaxPackets
              /\ Len(tunnel) <= Capacity
          OBVIOUS
        <5>2. hand' \in 0..MaxPackets /\ Len(tunnel') <= Capacity
          <6> HIDE DEF InOrder, TypeOK, DeviceInOrder, TunnelInOrder
          <6> QED
            BY <5>1, <4>1, <4>2, <4>3, <4>5, <2>0
        <5> QED
          BY <5>2, <4>1, <4>2
      <4>7. writer' = "write" => written' + 1 = hand'
        BY <4>1, <4>3
      <4> QED
        BY <4>1, <4>4, <4>5, <4>6, <4>7
    <3>2. CASE tunnel = << >>
      BY <2>9, <3>2 DEF WriterReceives
    <3> QED
      BY <3>1, <3>2
  <2>10. CASE WriterWrites
    <3> USE <2>10 DEF WriterWrites
    <3>1. /\ writer' \in {"recv", "done"} /\ fds' \in SUBSET {"read", "write"}
          /\ UNCHANGED <<call, runtime, cancelled, reader, device, tunnel, read, taken, sent, hand>>
      OBVIOUS
    <3>2. /\ written' \in 0..MaxPackets
          /\ writer' = "recv" /\ ~cancelled => written' = hand
      OBVIOUS
    <3>3. TypeOK'
      BY <3>1, <3>2
    <3>4. DeviceInOrder'
      BY <3>1
    <3>5. TunnelInOrder'
      <4> HIDE DEF WriterWrites
      <4> QED
        BY <3>1, <3>2
    <3> HIDE DEF TypeOK, DeviceInOrder, TunnelInOrder
    <3> QED
      BY <3>1, <3>3, <3>4, <3>5
  <2>11. CASE EngineTakes
    <3> USE <2>11 DEF EngineTakes
    <3>1. /\ device' \in Seq(Nat) /\ Len(device') = Len(device) - 1 /\ Len(device) >= 1
          /\ \A i \in 1..Len(device') : device'[i] = device[i + 1]
          /\ taken' = device[1]
      BY QueueEnds
    <3>2. taken' = taken + 1
      BY <3>1, <2>0
    <3>3. \A i \in 1..Len(device') : device'[i] = taken' + i
      <4> SUFFICES ASSUME NEW i \in 1..Len(device') PROVE device'[i] = taken' + i
        OBVIOUS
      <4>1. i + 1 \in 1..Len(device) /\ i \in Nat
        BY <3>1, <2>0
      <4> QED
        BY <4>1, <3>1, <3>2
    <3>4. taken' + Len(device') = taken + Len(device)
      BY <3>1, <3>2, <2>0
    <3>5. taken' \in 0..MaxPackets
      <4>1. taken' + Len(device') <= read
        BY <3>4, <2>0
      <4> QED
        BY <4>1, <3>1, <3>2, <2>0
    <3>6. TypeOK'
      BY <3>1, <3>5, <2>0
    <3> QED
      BY <3>3, <3>4, <3>6
  <2>12. CASE EngineSends
    <3> USE <2>12 DEF EngineSends
    <3>1. /\ tunnel' \in Seq(Nat) /\ Len(tunnel') = Len(tunnel) + 1
          /\ \A i \in 1..Len(tunnel) : tunnel'[i] = tunnel[i]
          /\ tunnel'[Len(tunnel) + 1] = sent + 1
      BY QueueEnds
    <3>2. TypeOK'
      BY <3>1, <2>0
    <3>3. \A i \in 1..Len(tunnel') : tunnel'[i] = hand + i
      <4> SUFFICES ASSUME NEW i \in 1..Len(tunnel') PROVE tunnel'[i] = hand + i
        OBVIOUS
      <4>1. CASE i \in 1..Len(tunnel)
        BY <4>1, <3>1
      <4>2. CASE i = Len(tunnel) + 1
        <5>1. hand \in Nat /\ sent \in Nat /\ hand + Len(tunnel) = sent
          OBVIOUS
        <5> HIDE DEF InOrder, TypeOK, DeviceInOrder, TunnelInOrder, EngineSends
        <5> QED
          BY <5>1, <4>2, <3>1, <2>0
      <4> QED
        BY <4>1, <4>2, <3>1, <2>0
    <3>4. hand + Len(tunnel') = sent'
      <4>1. sent' = sent + 1 /\ hand + Len(tunnel) = sent
        OBVIOUS
      <4>2. hand \in Nat /\ sent \in Nat
        OBVIOUS
      <4> HIDE DEF InOrder, TypeOK, EngineSends
      <4> QED
        BY <4>1, <4>2, <3>1, <2>0
    <3> QED
      BY <3>2, <3>3, <3>4
  <2>13. CASE DropRuntime
    BY <2>13 DEF DropRuntime
  <2>14. CASE Stop
    BY <2>14 DEF Stop
  <2>15. CASE JoinReader
    BY <2>15 DEF JoinReader
  <2>16. CASE JoinWriter
    BY <2>16 DEF JoinWriter
  <2>17. CASE UNCHANGED vars
    BY <2>17 DEF vars
  <2> QED
    BY <2>1, <2>2, <2>3, <2>4, <2>5, <2>6, <2>7, <2>8, <2>9, <2>10, <2>11, <2>12,
       <2>13, <2>14, <2>15, <2>16, <2>17
    DEF Next, Start, Reader, Writer, Ends
<1> QED
  BY <1>1, <1>2, AlwaysOwned, PTL DEF Spec, InOrder

\* Writer: until the pump is cancelled every packet of the engine is written whole
\* and none is skipped or overtaken.
THEOREM TunnelKeepsOrder == Spec => []TunnelInOrder
  BY PacketsInOrder, PTL
=============================================================================
