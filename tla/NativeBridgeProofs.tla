------------------------- MODULE NativeBridgeProofs -------------------------
(***************************************************************************)
(* What NativeBridge promises for any number of calling threads.  Each     *)
(* property is inductive relative to the type invariant, which says        *)
(* through which labels each entry point passes and so tells the steps of  *)
(* a preparation from those of a scan or a run.                            *)
(***************************************************************************)
EXTENDS NativeBridge, TLAPS

\* Every thread stays within the steps of the entry point it called.
THEOREM TypeCorrect == Spec => []TypeOK
<1>1. Init => TypeOK
  BY DEF Init, TypeOK, Labels, FdStates, LabelsOf, Calls, PrepareCalls, RunCalls
<1>2. TypeOK /\ [Next]_vars => TypeOK'
  <2> SUFFICES ASSUME TypeOK, [Next]_vars PROVE TypeOK'
    OBVIOUS
  <2> USE NoThreadAssumption
      DEF TypeOK, Labels, FdStates, LabelsOf, GuardLabels, FlagLabels, RunLabels,
          Calls, PrepareCalls, RunCalls, flags, runVars, Goto
  <2>1. CASE Stop
    BY <2>1 DEF Stop, TakeSlot, Resolved
  <2>2. ASSUME NEW t \in Threads, Step(t) PROVE TypeOK'
    <3>1. CASE CheckSlot(t)
      BY <3>1 DEF CheckSlot
    <3>2. CASE CheckOther(t)
      BY <3>2 DEF CheckOther
    <3>3. CASE PrepareSwap(t)
      BY <3>3 DEF PrepareSwap
    <3>4. CASE PrepareReset(t)
      BY <3>4 DEF PrepareReset
    <3>5. CASE PrepareHearsCancel(t)
      BY <3>5 DEF PrepareHearsCancel
    <3>6. CASE PrepareRelease(t)
      BY <3>6 DEF PrepareRelease
    <3>7. CASE ScanSwap(t)
      BY <3>7 DEF ScanSwap
    <3>8. CASE ScanReset(t)
      BY <3>8 DEF ScanReset
    <3>9. CASE ScanHearsCancel(t)
      BY <3>9 DEF ScanHearsCancel
    <3>10. CASE ScanRelease(t)
      BY <3>10 DEF ScanRelease
    <3>11. CASE CancelPrepareStore(t)
      BY <3>11 DEF CancelPrepareStore
    <3>12. CASE CancelScanStore(t)
      BY <3>12 DEF CancelScanStore
    <3>13. CASE RunParse(t)
      BY <3>13 DEF RunParse
    <3>14. CASE RunInstall(t)
      BY <3>14 DEF RunInstall
    <3>15. CASE RunNoDescriptor(t)
      BY <3>15 DEF RunNoDescriptor, TakeSlot, Resolved
    <3>16. CASE RunAttach(t)
      BY <3>16 DEF RunAttach
    <3>17. CASE RunHearsStop(t)
      BY <3>17 DEF RunHearsStop
    <3>18. CASE RunFinish(t)
      BY <3>18 DEF RunFinish, TakeSlot, Resolved
    <3>19. CASE RunJoin(t)
      <4>1. CASE failed[t]
        BY <3>19, <4>1 DEF RunJoin
      <4>2. CASE ~failed[t]
        <5>1. /\ Return(t)
              /\ stopped' = [stopped EXCEPT ![t] = FALSE]
              /\ fd' = [fd EXCEPT ![t] = "none"]
              /\ UNCHANGED <<slot, flags, promised>>
          BY <3>19, <4>2, Zenon DEF RunJoin
        <5> QED
          BY <5>1 DEF Return
      <4> QED
        BY <4>1, <4>2
    <3>20. CASE RunBail(t)
      BY <3>20 DEF RunBail, Return, Resolved
    <3> QED
      BY <2>2, <3>1, <3>2, <3>3, <3>4, <3>5, <3>6, <3>7, <3>8, <3>9, <3>10,
         <3>11, <3>12, <3>13, <3>14, <3>15, <3>16, <3>17, <3>18, <3>19, <3>20
      DEF Step
  <2>3. ASSUME NEW t \in Threads, Outside(t) PROVE TypeOK'
    <3>1. CASE EnterGuarded(t)
      BY <3>1 DEF EnterGuarded, Enter
    <3>2. CASE EnterRun(t)
      BY <3>2 DEF EnterRun, Enter
    <3>3. CASE CancelLoad(t)
      BY <3>3 DEF CancelLoad, Enter
    <3>4. CASE PrepareWorkEnds(t)
      BY <3>4 DEF PrepareWorkEnds
    <3>5. CASE ScanWorkEnds(t)
      BY <3>5 DEF ScanWorkEnds
    <3>6. CASE TestEnds(t)
      BY <3>6 DEF TestEnds
    <3>7. CASE RunPumpFails(t)
      BY <3>7 DEF RunPumpFails
    <3>8. CASE RunReady(t)
      BY <3>8 DEF RunReady
    <3>9. CASE RunEngineEnds(t)
      BY <3>9 DEF RunEngineEnds
    <3> QED
      BY <2>3, <3>1, <3>2, <3>3, <3>4, <3>5, <3>6, <3>7, <3>8, <3>9 DEF Outside
  <2>4. CASE UNCHANGED vars
    BY <2>4 DEF vars
  <2> QED
    BY <2>1, <2>2, <2>3, <2>4 DEF Next
<1> QED
  BY <1>1, <1>2, PTL DEF Spec

\* At most one preparation or provisioning is past the swap at any time, and
\* PREPARE_RUNNING is up exactly while one is.
THEOREM PreparationMutualExclusion == Spec => []PreparationsExclude
<1>1. Init => PreparationsExclude
  BY NoThreadAssumption DEF Init, PreparationsExclude, Preparing, PrepareCalls
<1>2. TypeOK /\ PreparationsExclude /\ [Next]_vars => PreparationsExclude'
  <2> SUFFICES ASSUME TypeOK, PreparationsExclude, [Next]_vars PROVE PreparationsExclude'
    OBVIOUS
  <2> USE NoThreadAssumption
      DEF TypeOK, PreparationsExclude, Preparing, LabelsOf, GuardLabels, FlagLabels,
          RunLabels, PrepareCalls, RunCalls,
          flags, runVars, Goto
  <2>1. CASE Stop
    BY <2>1 DEF Stop, TakeSlot, Resolved
  <2>2. ASSUME NEW t \in Threads, Step(t) PROVE PreparationsExclude'
    <3>1. CASE CheckSlot(t)
      BY <3>1 DEF CheckSlot
    <3>2. CASE CheckOther(t)
      BY <3>2 DEF CheckOther
    <3>3. CASE PrepareSwap(t)
      BY <3>3 DEF PrepareSwap
    <3>4. CASE PrepareReset(t)
      BY <3>4 DEF PrepareReset
    <3>5. CASE PrepareHearsCancel(t)
      BY <3>5 DEF PrepareHearsCancel
    <3>6. CASE PrepareRelease(t)
      BY <3>6 DEF PrepareRelease
    <3>7. CASE ScanSwap(t)
      BY <3>7 DEF ScanSwap
    <3>8. CASE ScanReset(t)
      BY <3>8 DEF ScanReset
    <3>9. CASE ScanHearsCancel(t)
      BY <3>9 DEF ScanHearsCancel
    <3>10. CASE ScanRelease(t)
      BY <3>10 DEF ScanRelease
    <3>11. CASE CancelPrepareStore(t)
      BY <3>11 DEF CancelPrepareStore
    <3>12. CASE CancelScanStore(t)
      BY <3>12 DEF CancelScanStore
    <3>13. CASE RunParse(t)
      BY <3>13 DEF RunParse
    <3>14. CASE RunInstall(t)
      BY <3>14 DEF RunInstall
    <3>15. CASE RunNoDescriptor(t)
      BY <3>15 DEF RunNoDescriptor, TakeSlot, Resolved
    <3>16. CASE RunAttach(t)
      BY <3>16 DEF RunAttach
    <3>17. CASE RunHearsStop(t)
      BY <3>17 DEF RunHearsStop
    <3>18. CASE RunFinish(t)
      BY <3>18 DEF RunFinish, TakeSlot, Resolved
    <3>19. CASE RunJoin(t)
      BY <3>19 DEF RunJoin, Return
    <3>20. CASE RunBail(t)
      BY <3>20 DEF RunBail, Return, Resolved
    <3> QED
      BY <2>2, <3>1, <3>2, <3>3, <3>4, <3>5, <3>6, <3>7, <3>8, <3>9, <3>10,
         <3>11, <3>12, <3>13, <3>14, <3>15, <3>16, <3>17, <3>18, <3>19, <3>20
      DEF Step
  <2>3. ASSUME NEW t \in Threads, Outside(t) PROVE PreparationsExclude'
    <3>1. CASE EnterGuarded(t)
      BY <3>1 DEF EnterGuarded, Enter
    <3>2. CASE EnterRun(t)
      BY <3>2 DEF EnterRun, Enter
    <3>3. CASE CancelLoad(t)
      BY <3>3 DEF CancelLoad, Enter
    <3>4. CASE PrepareWorkEnds(t)
      BY <3>4 DEF PrepareWorkEnds
    <3>5. CASE ScanWorkEnds(t)
      BY <3>5 DEF ScanWorkEnds
    <3>6. CASE TestEnds(t)
      BY <3>6 DEF TestEnds
    <3>7. CASE RunPumpFails(t)
      BY <3>7 DEF RunPumpFails
    <3>8. CASE RunReady(t)
      BY <3>8 DEF RunReady
    <3>9. CASE RunEngineEnds(t)
      BY <3>9 DEF RunEngineEnds
    <3> QED
      BY <2>3, <3>1, <3>2, <3>3, <3>4, <3>5, <3>6, <3>7, <3>8, <3>9
      DEF Outside
  <2>4. CASE UNCHANGED vars
    BY <2>4 DEF vars
  <2> QED
    BY <2>1, <2>2, <2>3, <2>4 DEF Next
<1> QED
  BY <1>1, <1>2, TypeCorrect, PTL DEF Spec

\* At most one standalone scan is past the swap at any time, and SCAN_RUNNING
\* is up exactly while one is.
THEOREM ScanMutualExclusion == Spec => []ScansExclude
<1>1. Init => ScansExclude
  BY NoThreadAssumption DEF Init, ScansExclude, Scanning
<1>2. TypeOK /\ ScansExclude /\ [Next]_vars => ScansExclude'
  <2> SUFFICES ASSUME TypeOK, ScansExclude, [Next]_vars PROVE ScansExclude'
    OBVIOUS
  <2> USE NoThreadAssumption
      DEF TypeOK, ScansExclude, Scanning, LabelsOf, GuardLabels, FlagLabels,
          RunLabels, PrepareCalls, RunCalls,
          flags, runVars, Goto
  <2>1. CASE Stop
    BY <2>1 DEF Stop, TakeSlot, Resolved
  <2>2. ASSUME NEW t \in Threads, Step(t) PROVE ScansExclude'
    <3>1. CASE CheckSlot(t)
      BY <3>1 DEF CheckSlot
    <3>2. CASE CheckOther(t)
      BY <3>2 DEF CheckOther
    <3>3. CASE PrepareSwap(t)
      BY <3>3 DEF PrepareSwap
    <3>4. CASE PrepareReset(t)
      BY <3>4 DEF PrepareReset
    <3>5. CASE PrepareHearsCancel(t)
      BY <3>5 DEF PrepareHearsCancel
    <3>6. CASE PrepareRelease(t)
      BY <3>6 DEF PrepareRelease
    <3>7. CASE ScanSwap(t)
      BY <3>7 DEF ScanSwap
    <3>8. CASE ScanReset(t)
      BY <3>8 DEF ScanReset
    <3>9. CASE ScanHearsCancel(t)
      BY <3>9 DEF ScanHearsCancel
    <3>10. CASE ScanRelease(t)
      BY <3>10 DEF ScanRelease
    <3>11. CASE CancelPrepareStore(t)
      BY <3>11 DEF CancelPrepareStore
    <3>12. CASE CancelScanStore(t)
      BY <3>12 DEF CancelScanStore
    <3>13. CASE RunParse(t)
      BY <3>13 DEF RunParse
    <3>14. CASE RunInstall(t)
      BY <3>14 DEF RunInstall
    <3>15. CASE RunNoDescriptor(t)
      BY <3>15 DEF RunNoDescriptor, TakeSlot, Resolved
    <3>16. CASE RunAttach(t)
      BY <3>16 DEF RunAttach
    <3>17. CASE RunHearsStop(t)
      BY <3>17 DEF RunHearsStop
    <3>18. CASE RunFinish(t)
      BY <3>18 DEF RunFinish, TakeSlot, Resolved
    <3>19. CASE RunJoin(t)
      BY <3>19 DEF RunJoin, Return
    <3>20. CASE RunBail(t)
      BY <3>20 DEF RunBail, Return, Resolved
    <3> QED
      BY <2>2, <3>1, <3>2, <3>3, <3>4, <3>5, <3>6, <3>7, <3>8, <3>9, <3>10,
         <3>11, <3>12, <3>13, <3>14, <3>15, <3>16, <3>17, <3>18, <3>19, <3>20
      DEF Step
  <2>3. ASSUME NEW t \in Threads, Outside(t) PROVE ScansExclude'
    <3>1. CASE EnterGuarded(t)
      BY <3>1 DEF EnterGuarded, Enter
    <3>2. CASE EnterRun(t)
      BY <3>2 DEF EnterRun, Enter
    <3>3. CASE CancelLoad(t)
      BY <3>3 DEF CancelLoad, Enter
    <3>4. CASE PrepareWorkEnds(t)
      BY <3>4 DEF PrepareWorkEnds
    <3>5. CASE ScanWorkEnds(t)
      BY <3>5 DEF ScanWorkEnds
    <3>6. CASE TestEnds(t)
      BY <3>6 DEF TestEnds
    <3>7. CASE RunPumpFails(t)
      BY <3>7 DEF RunPumpFails
    <3>8. CASE RunReady(t)
      BY <3>8 DEF RunReady
    <3>9. CASE RunEngineEnds(t)
      BY <3>9 DEF RunEngineEnds
    <3> QED
      BY <2>3, <3>1, <3>2, <3>3, <3>4, <3>5, <3>6, <3>7, <3>8, <3>9
      DEF Outside
  <2>4. CASE UNCHANGED vars
    BY <2>4 DEF vars
  <2> QED
    BY <2>1, <2>2, <2>3, <2>4 DEF Next
<1> QED
  BY <1>1, <1>2, TypeCorrect, PTL DEF Spec

\* However runs, refusals and stops interleave, an engine that has been given
\* a sender is in the slot or has already been told to stop.
THEOREM EveryEngineReachable == Spec => []EnginesReachable
<1>1. Init => EnginesReachable
  BY NoThreadAssumption DEF Init, EnginesReachable
<1>2. TypeOK /\ EnginesReachable /\ [Next]_vars => EnginesReachable'
  <2> SUFFICES ASSUME TypeOK, EnginesReachable, [Next]_vars PROVE EnginesReachable'
    OBVIOUS
  <2> USE NoThreadAssumption
      DEF TypeOK, EnginesReachable, LabelsOf, GuardLabels, FlagLabels, RunLabels, PrepareCalls, RunCalls,
          flags, runVars, Goto
  <2>1. CASE Stop
    BY <2>1 DEF Stop, TakeSlot, Resolved
  <2>2. ASSUME NEW t \in Threads, Step(t) PROVE EnginesReachable'
    <3>1. CASE CheckSlot(t)
      BY <3>1 DEF CheckSlot
    <3>2. CASE CheckOther(t)
      BY <3>2 DEF CheckOther
    <3>3. CASE PrepareSwap(t)
      BY <3>3 DEF PrepareSwap
    <3>4. CASE PrepareReset(t)
      BY <3>4 DEF PrepareReset
    <3>5. CASE PrepareHearsCancel(t)
      BY <3>5 DEF PrepareHearsCancel
    <3>6. CASE PrepareRelease(t)
      BY <3>6 DEF PrepareRelease
    <3>7. CASE ScanSwap(t)
      BY <3>7 DEF ScanSwap
    <3>8. CASE ScanReset(t)
      BY <3>8 DEF ScanReset
    <3>9. CASE ScanHearsCancel(t)
      BY <3>9 DEF ScanHearsCancel
    <3>10. CASE ScanRelease(t)
      BY <3>10 DEF ScanRelease
    <3>11. CASE CancelPrepareStore(t)
      BY <3>11 DEF CancelPrepareStore
    <3>12. CASE CancelScanStore(t)
      BY <3>12 DEF CancelScanStore
    <3>13. CASE RunParse(t)
      BY <3>13 DEF RunParse
    <3>14. CASE RunInstall(t)
      BY <3>14 DEF RunInstall
    <3>15. CASE RunNoDescriptor(t)
      BY <3>15 DEF RunNoDescriptor, TakeSlot, Resolved
    <3>16. CASE RunAttach(t)
      BY <3>16 DEF RunAttach
    <3>17. CASE RunHearsStop(t)
      BY <3>17 DEF RunHearsStop
    <3>18. CASE RunFinish(t)
      BY <3>18 DEF RunFinish, TakeSlot, Resolved
    <3>19. CASE RunJoin(t)
      BY <3>19 DEF RunJoin, Return
    <3>20. CASE RunBail(t)
      BY <3>20 DEF RunBail, Return, Resolved
    <3> QED
      BY <2>2, <3>1, <3>2, <3>3, <3>4, <3>5, <3>6, <3>7, <3>8, <3>9, <3>10,
         <3>11, <3>12, <3>13, <3>14, <3>15, <3>16, <3>17, <3>18, <3>19, <3>20
      DEF Step
  <2>3. ASSUME NEW t \in Threads, Outside(t) PROVE EnginesReachable'
    <3>1. CASE EnterGuarded(t)
      BY <3>1 DEF EnterGuarded, Enter
    <3>2. CASE EnterRun(t)
      BY <3>2 DEF EnterRun, Enter
    <3>3. CASE CancelLoad(t)
      BY <3>3 DEF CancelLoad, Enter
    <3>4. CASE PrepareWorkEnds(t)
      BY <3>4 DEF PrepareWorkEnds
    <3>5. CASE ScanWorkEnds(t)
      BY <3>5 DEF ScanWorkEnds
    <3>6. CASE TestEnds(t)
      BY <3>6 DEF TestEnds
    <3>7. CASE RunPumpFails(t)
      BY <3>7 DEF RunPumpFails
    <3>8. CASE RunReady(t)
      BY <3>8 DEF RunReady
    <3>9. CASE RunEngineEnds(t)
      BY <3>9 DEF RunEngineEnds
    <3> QED
      BY <2>3, <3>1, <3>2, <3>3, <3>4, <3>5, <3>6, <3>7, <3>8, <3>9
      DEF Outside
  <2>4. CASE UNCHANGED vars
    BY <2>4 DEF vars
  <2> QED
    BY <2>1, <2>2, <2>3, <2>4 DEF Next
<1> QED
  BY <1>1, <1>2, TypeCorrect, PTL DEF Spec

\* The stop-sender slot only ever holds the sender of a run still inside the
\* bridge.
THEOREM SlotNeverOutlivesItsRun == Spec => []SlotIsLive
<1>1. Init => SlotIsLive
  BY NoThreadAssumption DEF Init, SlotIsLive
<1>2. TypeOK /\ SlotIsLive /\ [Next]_vars => SlotIsLive'
  <2> SUFFICES ASSUME TypeOK, SlotIsLive, [Next]_vars PROVE SlotIsLive'
    OBVIOUS
  <2> USE NoThreadAssumption
      DEF TypeOK, SlotIsLive, LabelsOf, GuardLabels, FlagLabels, RunLabels, PrepareCalls, RunCalls,
          flags, runVars, Goto
  <2>1. CASE Stop
    BY <2>1 DEF Stop, TakeSlot, Resolved
  <2>2. ASSUME NEW t \in Threads, Step(t) PROVE SlotIsLive'
    <3>1. CASE CheckSlot(t)
      BY <3>1 DEF CheckSlot
    <3>2. CASE CheckOther(t)
      BY <3>2 DEF CheckOther
    <3>3. CASE PrepareSwap(t)
      BY <3>3 DEF PrepareSwap
    <3>4. CASE PrepareReset(t)
      BY <3>4 DEF PrepareReset
    <3>5. CASE PrepareHearsCancel(t)
      BY <3>5 DEF PrepareHearsCancel
    <3>6. CASE PrepareRelease(t)
      BY <3>6 DEF PrepareRelease
    <3>7. CASE ScanSwap(t)
      BY <3>7 DEF ScanSwap
    <3>8. CASE ScanReset(t)
      BY <3>8 DEF ScanReset
    <3>9. CASE ScanHearsCancel(t)
      BY <3>9 DEF ScanHearsCancel
    <3>10. CASE ScanRelease(t)
      BY <3>10 DEF ScanRelease
    <3>11. CASE CancelPrepareStore(t)
      BY <3>11 DEF CancelPrepareStore
    <3>12. CASE CancelScanStore(t)
      BY <3>12 DEF CancelScanStore
    <3>13. CASE RunParse(t)
      BY <3>13 DEF RunParse
    <3>14. CASE RunInstall(t)
      <4>1. call[t] \in RunCalls
        BY <3>14 DEF RunInstall, Calls
      <4> QED
        BY <3>14, <4>1 DEF RunInstall
    <3>15. CASE RunNoDescriptor(t)
      BY <3>15 DEF RunNoDescriptor, TakeSlot, Resolved
    <3>16. CASE RunAttach(t)
      BY <3>16 DEF RunAttach
    <3>17. CASE RunHearsStop(t)
      BY <3>17 DEF RunHearsStop
    <3>18. CASE RunFinish(t)
      BY <3>18 DEF RunFinish, TakeSlot, Resolved
    <3>19. CASE RunJoin(t)
      BY <3>19 DEF RunJoin, Return
    <3>20. CASE RunBail(t)
      BY <3>20 DEF RunBail, Return, Resolved
    <3> QED
      BY <2>2, <3>1, <3>2, <3>3, <3>4, <3>5, <3>6, <3>7, <3>8, <3>9, <3>10,
         <3>11, <3>12, <3>13, <3>14, <3>15, <3>16, <3>17, <3>18, <3>19, <3>20
      DEF Step
  <2>3. ASSUME NEW t \in Threads, Outside(t) PROVE SlotIsLive'
    <3>1. CASE EnterGuarded(t)
      BY <3>1 DEF EnterGuarded, Enter
    <3>2. CASE EnterRun(t)
      BY <3>2 DEF EnterRun, Enter
    <3>3. CASE CancelLoad(t)
      BY <3>3 DEF CancelLoad, Enter
    <3>4. CASE PrepareWorkEnds(t)
      BY <3>4 DEF PrepareWorkEnds
    <3>5. CASE ScanWorkEnds(t)
      BY <3>5 DEF ScanWorkEnds
    <3>6. CASE TestEnds(t)
      BY <3>6 DEF TestEnds
    <3>7. CASE RunPumpFails(t)
      BY <3>7 DEF RunPumpFails
    <3>8. CASE RunReady(t)
      BY <3>8 DEF RunReady
    <3>9. CASE RunEngineEnds(t)
      BY <3>9 DEF RunEngineEnds
    <3> QED
      BY <2>3, <3>1, <3>2, <3>3, <3>4, <3>5, <3>6, <3>7, <3>8, <3>9
      DEF Outside
  <2>4. CASE UNCHANGED vars
    BY <2>4 DEF vars
  <2> QED
    BY <2>1, <2>2, <2>3, <2>4 DEF Next
<1> QED
  BY <1>1, <1>2, TypeCorrect, PTL DEF Spec


\* The labels at which a run has an engine.
EngineLabels == {"attach", "starting", "up", "finish", "join"}

\* A call that has not reached its engine has not been told to stop.
Unstarted == \A t \in Threads : pc[t] \notin EngineLabels \cup {"bail"} => ~stopped[t]

\* No stop reaches a call before its engine: the slot only holds senders of runs
\* that have one, and a run that returns leaves its receiver behind.
LEMMA NoneToldTooEarly == Spec => []Unstarted
<1>1. Init => Unstarted
  BY DEF Init, Unstarted
<1>2. TypeOK /\ SlotIsLive /\ Unstarted /\ [Next]_vars => Unstarted'
  <2> SUFFICES ASSUME TypeOK, SlotIsLive, Unstarted, [Next]_vars PROVE Unstarted'
    OBVIOUS
  <2> USE NoThreadAssumption
      DEF TypeOK, SlotIsLive, Unstarted, EngineLabels, LabelsOf, GuardLabels, FlagLabels,
          RunLabels, PrepareCalls, RunCalls, flags, runVars, Goto
  <2>1. CASE Stop
    BY <2>1 DEF Stop, TakeSlot, Resolved
  <2>2. ASSUME NEW t \in Threads, Step(t) PROVE Unstarted'
    <3>1. CASE CheckSlot(t)
      BY <3>1 DEF CheckSlot
    <3>2. CASE CheckOther(t)
      BY <3>2 DEF CheckOther
    <3>3. CASE PrepareSwap(t)
      BY <3>3 DEF PrepareSwap
    <3>4. CASE PrepareReset(t)
      BY <3>4 DEF PrepareReset
    <3>5. CASE PrepareHearsCancel(t)
      BY <3>5 DEF PrepareHearsCancel
    <3>6. CASE PrepareRelease(t)
      BY <3>6 DEF PrepareRelease
    <3>7. CASE ScanSwap(t)
      BY <3>7 DEF ScanSwap
    <3>8. CASE ScanReset(t)
      BY <3>8 DEF ScanReset
    <3>9. CASE ScanHearsCancel(t)
      BY <3>9 DEF ScanHearsCancel
    <3>10. CASE ScanRelease(t)
      BY <3>10 DEF ScanRelease
    <3>11. CASE CancelPrepareStore(t)
      BY <3>11 DEF CancelPrepareStore
    <3>12. CASE CancelScanStore(t)
      BY <3>12 DEF CancelScanStore
    <3>13. CASE RunParse(t)
      BY <3>13 DEF RunParse
    <3>14. CASE RunInstall(t)
      BY <3>14 DEF RunInstall
    <3>15. CASE RunNoDescriptor(t)
      BY <3>15 DEF RunNoDescriptor, TakeSlot, Resolved
    <3>16. CASE RunAttach(t)
      BY <3>16 DEF RunAttach
    <3>17. CASE RunHearsStop(t)
      BY <3>17 DEF RunHearsStop
    <3>18. CASE RunFinish(t)
      BY <3>18 DEF RunFinish, TakeSlot, Resolved
    <3>19. CASE RunJoin(t)
      BY <3>19 DEF RunJoin, Return
    <3>20. CASE RunBail(t)
      BY <3>20 DEF RunBail, Return, Resolved
    <3> QED
      BY <2>2, <3>1, <3>2, <3>3, <3>4, <3>5, <3>6, <3>7, <3>8, <3>9, <3>10,
         <3>11, <3>12, <3>13, <3>14, <3>15, <3>16, <3>17, <3>18, <3>19, <3>20
      DEF Step
  <2>3. ASSUME NEW t \in Threads, Outside(t) PROVE Unstarted'
    <3>1. CASE EnterGuarded(t)
      BY <3>1 DEF EnterGuarded, Enter
    <3>2. CASE EnterRun(t)
      BY <3>2 DEF EnterRun, Enter
    <3>3. CASE CancelLoad(t)
      BY <3>3 DEF CancelLoad, Enter
    <3>4. CASE PrepareWorkEnds(t)
      BY <3>4 DEF PrepareWorkEnds
    <3>5. CASE ScanWorkEnds(t)
      BY <3>5 DEF ScanWorkEnds
    <3>6. CASE TestEnds(t)
      BY <3>6 DEF TestEnds
    <3>7. CASE RunPumpFails(t)
      BY <3>7 DEF RunPumpFails
    <3>8. CASE RunReady(t)
      BY <3>8 DEF RunReady
    <3>9. CASE RunEngineEnds(t)
      BY <3>9 DEF RunEngineEnds
    <3> QED
      BY <2>3, <3>1, <3>2, <3>3, <3>4, <3>5, <3>6, <3>7, <3>8, <3>9 DEF Outside
  <2>4. CASE UNCHANGED vars
    BY <2>4 DEF vars
  <2> QED
    BY <2>1, <2>2, <2>3, <2>4 DEF Next
<1> QED
  BY <1>1, <1>2, TypeCorrect, SlotNeverOutlivesItsRun, PTL DEF Spec

\* A step that moves one thread outside its engine, and resolves no receiver,
\* is none of EngineSlot's.
LEMMA QuietStep ==
  ASSUME TypeOK, NEW t \in Threads, NEW l \in Labels \ EngineLabels,
         pc[t] \notin EngineLabels, pc' = [pc EXCEPT ![t] = l], stopped' = stopped
  PROVE  UNCHANGED ES!vars
<1>1. \A u \in Threads : Live(u)' = Live(u) /\ Ending(u)' = Ending(u)
  BY DEF TypeOK, Live, Ending, EngineLabels
<1> QED
  BY <1>1 DEF ES!vars

\* The bridge implements EngineSlot, for any number of calling threads: whatever
\* prepares, scans, cancels and refused runs do meanwhile, each of its steps
\* starts, stops, fails or ends engines as EngineSlot says, or is none of its.
THEOREM BridgeImplementsEngineSlot == Spec => ImplementsEngineSlot
<1>1. Init => ES!Init
  BY DEF Init, ES!Init, Live, Ending
<1>2. TypeOK /\ EnginesReachable /\ Unstarted /\ [Next]_vars => [ES!Next]_(ES!vars)
  <2> SUFFICES ASSUME TypeOK, EnginesReachable, Unstarted, [Next]_vars
               PROVE  [ES!Next]_(ES!vars)
    OBVIOUS
  <2> DEFINE L == {u \in Threads : Live(u)}
             E == {u \in Threads : Ending(u)}
  <2>a. \A u \in L : slot = u
    BY DEF EnginesReachable, Live
  <2>b. L = {} \/ L = {slot}
    BY <2>a
  <2>1. CASE Stop
    <3>1. L' = {} /\ E' = E \cup L
      BY <2>1, <2>a DEF Stop, TakeSlot, Resolved, TypeOK, Live, Ending
    <3> QED
      BY <3>1, <2>b DEF ES!Next, ES!Stop, ES!vars
  <2>2. ASSUME NEW t \in Threads, Step(t) PROVE [ES!Next]_(ES!vars)
    <3>1. CASE CheckSlot(t)
      <4>1. pc[t] \notin EngineLabels
        BY <3>1 DEF CheckSlot, EngineLabels
      <4>2. stopped' = stopped /\ \E l \in Labels \ EngineLabels : pc' = [pc EXCEPT ![t] = l]
        BY <3>1 DEF CheckSlot, EngineLabels, Labels, Goto, runVars
      <4> QED
        BY <4>1, <4>2, QuietStep
    <3>2. CASE CheckOther(t)
      <4>1. pc[t] \notin EngineLabels
        BY <3>2 DEF CheckOther, EngineLabels
      <4>2. stopped' = stopped /\ \E l \in Labels \ EngineLabels : pc' = [pc EXCEPT ![t] = l]
        BY <3>2 DEF CheckOther, EngineLabels, Labels, Goto, runVars
      <4> QED
        BY <4>1, <4>2, QuietStep
    <3>3. CASE PrepareSwap(t)
      <4>1. pc[t] \notin EngineLabels
        BY <3>3 DEF PrepareSwap, EngineLabels
      <4>2. stopped' = stopped /\ \E l \in Labels \ EngineLabels : pc' = [pc EXCEPT ![t] = l]
        BY <3>3 DEF PrepareSwap, EngineLabels, Labels, Goto, runVars
      <4> QED
        BY <4>1, <4>2, QuietStep
    <3>4. CASE PrepareReset(t)
      <4>1. pc[t] \notin EngineLabels
        BY <3>4 DEF PrepareReset, EngineLabels
      <4>2. stopped' = stopped /\ \E l \in Labels \ EngineLabels : pc' = [pc EXCEPT ![t] = l]
        BY <3>4 DEF PrepareReset, EngineLabels, Labels, Goto, runVars
      <4> QED
        BY <4>1, <4>2, QuietStep
    <3>5. CASE PrepareHearsCancel(t)
      <4>1. pc[t] \notin EngineLabels
        BY <3>5 DEF PrepareHearsCancel, EngineLabels
      <4>2. stopped' = stopped /\ \E l \in Labels \ EngineLabels : pc' = [pc EXCEPT ![t] = l]
        BY <3>5 DEF PrepareHearsCancel, EngineLabels, Labels, Goto, runVars
      <4> QED
        BY <4>1, <4>2, QuietStep
    <3>6. CASE PrepareRelease(t)
      <4>1. pc[t] \notin EngineLabels
        BY <3>6 DEF PrepareRelease, EngineLabels
      <4>2. stopped' = stopped /\ \E l \in Labels \ EngineLabels : pc' = [pc EXCEPT ![t] = l]
        BY <3>6 DEF PrepareRelease, EngineLabels, Labels, Goto, runVars
      <4> QED
        BY <4>1, <4>2, QuietStep
    <3>7. CASE ScanSwap(t)
      <4>1. pc[t] \notin EngineLabels
        BY <3>7 DEF ScanSwap, EngineLabels
      <4>2. stopped' = stopped /\ \E l \in Labels \ EngineLabels : pc' = [pc EXCEPT ![t] = l]
        BY <3>7 DEF ScanSwap, EngineLabels, Labels, Goto, runVars
      <4> QED
        BY <4>1, <4>2, QuietStep
    <3>8. CASE ScanReset(t)
      <4>1. pc[t] \notin EngineLabels
        BY <3>8 DEF ScanReset, EngineLabels
      <4>2. stopped' = stopped /\ \E l \in Labels \ EngineLabels : pc' = [pc EXCEPT ![t] = l]
        BY <3>8 DEF ScanReset, EngineLabels, Labels, Goto, runVars
      <4> QED
        BY <4>1, <4>2, QuietStep
    <3>9. CASE ScanHearsCancel(t)
      <4>1. pc[t] \notin EngineLabels
        BY <3>9 DEF ScanHearsCancel, EngineLabels
      <4>2. stopped' = stopped /\ \E l \in Labels \ EngineLabels : pc' = [pc EXCEPT ![t] = l]
        BY <3>9 DEF ScanHearsCancel, EngineLabels, Labels, Goto, runVars
      <4> QED
        BY <4>1, <4>2, QuietStep
    <3>10. CASE ScanRelease(t)
      <4>1. pc[t] \notin EngineLabels
        BY <3>10 DEF ScanRelease, EngineLabels
      <4>2. stopped' = stopped /\ \E l \in Labels \ EngineLabels : pc' = [pc EXCEPT ![t] = l]
        BY <3>10 DEF ScanRelease, EngineLabels, Labels, Goto, runVars
      <4> QED
        BY <4>1, <4>2, QuietStep
    <3>11. CASE CancelPrepareStore(t)
      <4>1. pc[t] \notin EngineLabels
        BY <3>11 DEF CancelPrepareStore, EngineLabels
      <4>2. stopped' = stopped /\ \E l \in Labels \ EngineLabels : pc' = [pc EXCEPT ![t] = l]
        BY <3>11 DEF CancelPrepareStore, EngineLabels, Labels, Goto, runVars
      <4> QED
        BY <4>1, <4>2, QuietStep
    <3>12. CASE CancelScanStore(t)
      <4>1. pc[t] \notin EngineLabels
        BY <3>12 DEF CancelScanStore, EngineLabels
      <4>2. stopped' = stopped /\ \E l \in Labels \ EngineLabels : pc' = [pc EXCEPT ![t] = l]
        BY <3>12 DEF CancelScanStore, EngineLabels, Labels, Goto, runVars
      <4> QED
        BY <4>1, <4>2, QuietStep
    <3>13. CASE RunParse(t)
      <4>1. pc[t] \notin EngineLabels
        BY <3>13 DEF RunParse, EngineLabels
      <4>2. stopped' = stopped /\ \E l \in Labels \ EngineLabels : pc' = [pc EXCEPT ![t] = l]
        BY <3>13 DEF RunParse, EngineLabels, Labels, Goto, runVars
      <4> QED
        BY <4>1, <4>2, QuietStep
    <3>14. CASE RunInstall(t)
      <4>1. CASE slot # NoThread
        <5>1. pc[t] \notin EngineLabels /\ stopped' = stopped /\ pc' = [pc EXCEPT ![t] = "bail"]
          BY <3>14, <4>1 DEF RunInstall, EngineLabels, Goto, runVars
        <5> QED
          BY <5>1, QuietStep DEF Labels, EngineLabels
      <4>2. CASE slot = NoThread
        <5>1. L = {} /\ t \notin E
          BY <3>14, <4>2, <2>a, NoThreadAssumption DEF RunInstall, Ending
        <5>2. L' = {t} /\ E' = E
          BY <3>14, <4>2, <5>1
          DEF RunInstall, Goto, runVars, TypeOK, Unstarted, EngineLabels, Live, Ending
        <5> QED
          BY <5>1, <5>2 DEF ES!Next, ES!Start
      <4> QED
        BY <4>1, <4>2
    <3>15. CASE RunNoDescriptor(t)
      <4>1. CASE t \in L
        <5>1. slot = t /\ L = {t}
          BY <2>a, <2>b, <4>1
        <5>2. L' = {} /\ E' = E
          BY <3>15, <5>1
          DEF RunNoDescriptor, TakeSlot, Resolved, Goto, TypeOK, Live, Ending
        <5> QED
          BY <5>1, <5>2 DEF ES!Next, ES!Fail
      <4>2. CASE t \notin L
        <5>1. t \in E
          BY <3>15, <4>2 DEF RunNoDescriptor, Live, Ending
        <5>2. L' = {} /\ E' = (E \ {t}) \cup L
          BY <3>15, <4>2, <2>a
          DEF RunNoDescriptor, TakeSlot, Resolved, Goto, TypeOK, Live, Ending
        <5> QED
          BY <5>1, <5>2 DEF ES!Next, ES!Go
      <4> QED
        BY <4>1, <4>2
    <3>16. CASE RunAttach(t)
      <4>1. L' = L /\ E' = E
        BY <3>16 DEF RunAttach, Goto, TypeOK, Live, Ending
      <4> QED
        BY <4>1 DEF ES!vars
    <3>17. CASE RunHearsStop(t)
      <4>1. L' = L /\ E' = E
        BY <3>17 DEF RunHearsStop, runVars, Goto, TypeOK, Live, Ending
      <4> QED
        BY <4>1 DEF ES!vars
    <3>18. CASE RunFinish(t)
      <4>1. L' = {} /\ E' = E \cup L
        BY <3>18, <2>a DEF RunFinish, TakeSlot, Resolved, Goto, TypeOK, Live, Ending
      <4> QED
        BY <4>1, <2>b DEF ES!Next, ES!Stop, ES!vars
    <3>19. CASE RunJoin(t)
      <4>1. t \in E
        BY <3>19 DEF RunJoin, Ending
      <4>2. \E l \in {"idle", "bail"} : pc' = [pc EXCEPT ![t] = l]
        BY <3>19 DEF RunJoin, Return, Goto
      <4>3. \A u \in Threads : u # t => stopped'[u] = stopped[u]
        BY <3>19 DEF RunJoin, TypeOK
      <4>4. L' = L /\ E' = E \ {t}
        BY <3>19, <4>2, <4>3 DEF RunJoin, TypeOK, Live, Ending
      <4> QED
        BY <4>1, <4>4 DEF ES!Next, ES!Go
    <3>20. CASE RunBail(t)
      <4>1. L' = {} /\ E' = E \cup L
        BY <3>20, <2>a DEF RunBail, Return, Resolved, Goto, TypeOK, Live, Ending
      <4> QED
        BY <4>1, <2>b DEF ES!Next, ES!Stop, ES!vars
    <3> QED
      BY <2>2, <3>1, <3>2, <3>3, <3>4, <3>5, <3>6, <3>7, <3>8, <3>9, <3>10,
         <3>11, <3>12, <3>13, <3>14, <3>15, <3>16, <3>17, <3>18, <3>19, <3>20
      DEF Step
  <2>3. ASSUME NEW t \in Threads, Outside(t) PROVE [ES!Next]_(ES!vars)
    <3>1. CASE EnterGuarded(t)
      <4>1. pc[t] \notin EngineLabels
        BY <3>1 DEF EnterGuarded, Enter, EngineLabels
      <4>2. stopped' = stopped /\ \E l \in Labels \ EngineLabels : pc' = [pc EXCEPT ![t] = l]
        BY <3>1 DEF EnterGuarded, Enter, EngineLabels, Labels, Goto, runVars
      <4> QED
        BY <4>1, <4>2, QuietStep
    <3>2. CASE EnterRun(t)
      <4>1. pc[t] \notin EngineLabels
        BY <3>2 DEF EnterRun, Enter, EngineLabels
      <4>2. stopped' = stopped /\ \E l \in Labels \ EngineLabels : pc' = [pc EXCEPT ![t] = l]
        BY <3>2 DEF EnterRun, Enter, EngineLabels, Labels, Goto, runVars
      <4> QED
        BY <4>1, <4>2, QuietStep
    <3>3. CASE CancelLoad(t)
      <4>1. pc[t] \notin EngineLabels
        BY <3>3 DEF CancelLoad, Enter, EngineLabels
      <4>2. stopped' = stopped /\ \E l \in Labels \ EngineLabels : pc' = [pc EXCEPT ![t] = l]
        BY <3>3 DEF CancelLoad, Enter, EngineLabels, Labels, Goto, runVars
      <4> QED
        BY <4>1, <4>2, QuietStep
    <3>4. CASE PrepareWorkEnds(t)
      <4>1. pc[t] \notin EngineLabels
        BY <3>4 DEF PrepareWorkEnds, EngineLabels
      <4>2. stopped' = stopped /\ \E l \in Labels \ EngineLabels : pc' = [pc EXCEPT ![t] = l]
        BY <3>4 DEF PrepareWorkEnds, EngineLabels, Labels, Goto, runVars
      <4> QED
        BY <4>1, <4>2, QuietStep
    <3>5. CASE ScanWorkEnds(t)
      <4>1. pc[t] \notin EngineLabels
        BY <3>5 DEF ScanWorkEnds, EngineLabels
      <4>2. stopped' = stopped /\ \E l \in Labels \ EngineLabels : pc' = [pc EXCEPT ![t] = l]
        BY <3>5 DEF ScanWorkEnds, EngineLabels, Labels, Goto, runVars
      <4> QED
        BY <4>1, <4>2, QuietStep
    <3>6. CASE TestEnds(t)
      <4>1. pc[t] \notin EngineLabels
        BY <3>6 DEF TestEnds, EngineLabels
      <4>2. stopped' = stopped /\ \E l \in Labels \ EngineLabels : pc' = [pc EXCEPT ![t] = l]
        BY <3>6 DEF TestEnds, EngineLabels, Labels, Goto, runVars
      <4> QED
        BY <4>1, <4>2, QuietStep
    <3>7. CASE RunPumpFails(t)
      <4>1. CASE t \in L
        <5>1. L' = L \ {t} /\ E' = E
          BY <3>7, <4>1 DEF RunPumpFails, Goto, TypeOK, Live, Ending
        <5> QED
          BY <4>1, <5>1 DEF ES!Next, ES!Fail
      <4>2. CASE t \notin L
        <5>1. t \in E
          BY <3>7, <4>2 DEF RunPumpFails, Live, Ending
        <5>2. L' = L /\ E' = E \ {t}
          BY <3>7, <4>2 DEF RunPumpFails, Goto, TypeOK, Live, Ending
        <5> QED
          BY <5>1, <5>2 DEF ES!Next, ES!Go
      <4> QED
        BY <4>1, <4>2
    <3>8. CASE RunReady(t)
      <4>1. CASE pc' = [pc EXCEPT ![t] = "up"]
        <5>1. L' = L /\ E' = E
          BY <3>8, <4>1 DEF RunReady, TypeOK, Live, Ending
        <5> QED
          BY <5>1 DEF ES!vars
      <4>2. CASE pc' = [pc EXCEPT ![t] = "finish"]
        <5>1. \/ L = {t} /\ L' = {} /\ E' = E \cup {t}
              \/ L' = L /\ E' = E
          BY <3>8, <4>2, <2>b DEF RunReady, TypeOK, Live, Ending
        <5> QED
          BY <5>1 DEF ES!Next, ES!Stop, ES!vars
      <4> QED
        BY <3>8, <4>1, <4>2 DEF RunReady, Goto
    <3>9. CASE RunEngineEnds(t)
      <4>1. \/ L = {t} /\ L' = {} /\ E' = E \cup {t}
            \/ L' = L /\ E' = E
        BY <3>9, <2>b DEF RunEngineEnds, Goto, TypeOK, Live, Ending
      <4> QED
        BY <4>1 DEF ES!Next, ES!Stop, ES!vars
    <3> QED
      BY <2>3, <3>1, <3>2, <3>3, <3>4, <3>5, <3>6, <3>7, <3>8, <3>9 DEF Outside
  <2>4. CASE UNCHANGED vars
    BY <2>4 DEF vars, ES!vars, Live, Ending
  <2> QED
    BY <2>1, <2>2, <2>3, <2>4 DEF Next
<1> QED
  BY <1>1, <1>2, TypeCorrect, EveryEngineReachable, NoneToldTooEarly, PTL
  DEF Spec, ImplementsEngineSlot, ES!Spec
=============================================================================
