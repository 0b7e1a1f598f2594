---------------------------- MODULE NativeBridge ----------------------------
(***************************************************************************)
(* The native half of the app's engine: the JNI entry points of            *)
(* native/android-bridge/src/lib.rs and the four process-wide flags and    *)
(* the one stop-sender slot they share.                                    *)
(*                                                                         *)
(* Every Kotlin thread may enter any entry point at any time (sessions of  *)
(* the service, the carrier client and the screen's own scans all run on   *)
(* Dispatchers.IO), so one atomic load, store, swap or lock region is one  *)
(* action here and everything else interleaves.  A call is identified by   *)
(* the thread inside it.  Configurations, results and log lines are        *)
(* abstracted away; a call that fails to parse and one whose work fails    *)
(* leave by the same path in the code and do so here.                      *)
(***************************************************************************)
EXTENDS Naturals, FiniteSets

CONSTANTS Threads,     \* JVM threads that enter the bridge
          NoThread     \* the empty stop-sender slot (None)

ASSUME NoThreadAssumption == NoThread \notin Threads

PrepareCalls == {"prepare", "provision"}
RunCalls     == {"runTun", "runProxy"}
Calls        == PrepareCalls \cup RunCalls
                  \cup {"scan", "test", "cancelPrepare", "cancelScan"}

VARIABLES
  slot,              \* STOP_SENDER: the run whose sender it holds, or NoThread
  prepareRunning,    \* PREPARE_RUNNING
  prepareCancelled,  \* PREPARE_CANCELLED
  scanRunning,       \* SCAN_RUNNING
  scanCancelled,     \* SCAN_CANCELLED
  pc,                \* where each thread is; "idle" outside the bridge
  call,              \* which entry point it is inside
  stopped,           \* its stop receiver has resolved: sent to, or sender dropped
  failed,            \* the outcome its run carries out of block_on is an Err
  fd,                \* the TUN descriptor the call was handed
  promised           \* preparations a cancelPrepare answered TRUE for (history)

vars == <<slot, prepareRunning, prepareCancelled, scanRunning, scanCancelled,
          pc, call, stopped, failed, fd, promised>>
flags == <<prepareRunning, prepareCancelled, scanRunning, scanCancelled>>
runVars == <<stopped, failed, fd>>

Labels == {"idle",
           \* prepare, provision, scan and test, in the order of their guards
           "checkSlot", "checkOther", "swap", "reset", "work", "release",
           \* cancelPrepare and cancelScan after their load said TRUE
           "cancel",
           \* run
           "parse", "install", "attach", "starting", "up", "finish", "join",
           "bail"}

\* "raw": handed in and not yet owned by anything; "pumped": owned by a TunPump.
FdStates == {"none", "raw", "pumped"}

\* The labels each entry point passes through.
GuardLabels == {"checkSlot", "checkOther"}
FlagLabels  == {"swap", "reset", "work", "release"}
RunLabels   == {"parse", "install", "attach", "starting", "up", "finish", "join",
                "bail"}
LabelsOf(c) ==
  CASE c = "none"                                 -> {"idle"}
    [] c \in PrepareCalls \cup {"scan"}            -> GuardLabels \cup FlagLabels
    [] c = "test"                                 -> GuardLabels \cup {"work"}
    [] c \in {"cancelPrepare", "cancelScan"}       -> {"cancel"}
    [] c \in RunCalls                             -> RunLabels

\* The types, and that no thread strays into another entry point's steps (a
\* test, say, into the flag a scan or a preparation holds).
TypeOK ==
  /\ slot \in Threads \cup {NoThread}
  /\ prepareRunning \in BOOLEAN /\ prepareCancelled \in BOOLEAN
  /\ scanRunning \in BOOLEAN /\ scanCancelled \in BOOLEAN
  /\ pc \in [Threads -> Labels]
  /\ call \in [Threads -> Calls \cup {"none"}]
  /\ stopped \in [Threads -> BOOLEAN]
  /\ failed \in [Threads -> BOOLEAN]
  /\ fd \in [Threads -> FdStates]
  /\ promised \in SUBSET Threads
  /\ \A t \in Threads : pc[t] \in LabelsOf(call[t])

Init ==
  /\ slot = NoThread
  /\ prepareRunning = FALSE /\ prepareCancelled = FALSE
  /\ scanRunning = FALSE /\ scanCancelled = FALSE
  /\ pc = [t \in Threads |-> "idle"]
  /\ call = [t \in Threads |-> "none"]
  /\ stopped = [t \in Threads |-> FALSE]
  /\ failed = [t \in Threads |-> FALSE]
  /\ fd = [t \in Threads |-> "none"]
  /\ promised = {}

Goto(t, label) ==
  /\ pc' = [pc EXCEPT ![t] = label]
  /\ call' = [call EXCEPT ![t] = IF label = "idle" THEN "none" ELSE call[t]]

-----------------------------------------------------------------------------
(* Who holds what.                                                         *)

\* Past the swap of PREPARE_RUNNING and not yet past the guard's drop.
Preparing(t) == call[t] \in PrepareCalls /\ pc[t] \in {"reset", "work", "release"}
Scanning(t)  == call[t] = "scan" /\ pc[t] \in {"reset", "work", "release"}

\* A run that has its sender and has not been told to stop.
Live(t) == pc[t] \in {"attach", "starting", "up"} /\ ~stopped[t]

-----------------------------------------------------------------------------
(* Entering.  A run in tun mode is handed a descriptor or -1; in proxy     *)
(* mode the callers pass -1, and the code closes one if it is passed.      *)

Enter(t, c, label) ==
  /\ pc[t] = "idle"
  /\ pc' = [pc EXCEPT ![t] = label]
  /\ call' = [call EXCEPT ![t] = c]
  /\ UNCHANGED <<slot, flags, stopped, failed, promised>>

EnterGuarded(t) ==
  /\ \E c \in PrepareCalls \cup {"scan", "test"} : Enter(t, c, "checkSlot")
  /\ UNCHANGED fd

EnterRun(t) ==
  /\ \E c \in RunCalls : Enter(t, c, "parse")
  /\ \E handed \in {"none", "raw"} : fd' = [fd EXCEPT ![t] = handed]

\* STOP_SENDER.lock().is_some()
CheckSlot(t) ==
  /\ pc[t] = "checkSlot"
  /\ Goto(t, IF slot # NoThread THEN "idle" ELSE "checkOther")
  /\ UNCHANGED <<slot, flags, runVars, promised>>

\* Mutant: a test takes the same way as a scan.
CheckOtherTestSwaps(t) ==
  /\ pc[t] = "checkOther"
  /\ Goto(t, IF scanRunning THEN "idle" ELSE "swap")
  /\ UNCHANGED <<slot, flags, runVars, promised>>

\* The load of the other operation's RUNNING flag.  A test has no flag of
\* its own and goes straight to its work.
CheckOther(t) ==
  /\ pc[t] = "checkOther"
  /\ LET other == IF call[t] = "scan" THEN prepareRunning ELSE scanRunning
     IN  Goto(t, CASE other                     -> "idle"
                   [] ~other /\ call[t] = "test" -> "work"
                   [] OTHER                      -> "swap")
  /\ UNCHANGED <<slot, flags, runVars, promised>>

-----------------------------------------------------------------------------
(* Preparation and provisioning.                                           *)

\* Mutant: the flag is stored, not swapped, so nobody is refused.
PrepareStore(t) ==
  /\ pc[t] = "swap" /\ call[t] \in PrepareCalls
  /\ prepareRunning' = TRUE
  /\ Goto(t, "reset")
  /\ UNCHANGED <<slot, prepareCancelled, scanRunning, scanCancelled, runVars, promised>>

\* PREPARE_RUNNING.swap(true): refused if it was already set.
PrepareSwap(t) ==
  /\ pc[t] = "swap" /\ call[t] \in PrepareCalls
  /\ prepareRunning' = TRUE
  /\ Goto(t, IF prepareRunning THEN "idle" ELSE "reset")
  /\ UNCHANGED <<slot, prepareCancelled, scanRunning, scanCancelled, runVars, promised>>

\* PREPARE_CANCELLED.store(false)
PrepareReset(t) ==
  /\ pc[t] = "reset" /\ call[t] \in PrepareCalls
  /\ prepareCancelled' = FALSE
  /\ Goto(t, "work")
  /\ UNCHANGED <<slot, prepareRunning, scanRunning, scanCancelled, runVars, promised>>

\* Mutant: only the scan's own cancel reaches a preparation.
PrepareHearsCancelScan(t) ==
  /\ pc[t] = "work" /\ call[t] \in PrepareCalls
  /\ scanCancelled
  /\ Goto(t, "release")
  /\ UNCHANGED <<slot, flags, runVars, promised>>

\* until_cancelled saw the flag and won the select.
PrepareHearsCancel(t) ==
  /\ pc[t] = "work" /\ call[t] \in PrepareCalls
  /\ prepareCancelled
  /\ Goto(t, "release")
  /\ UNCHANGED <<slot, flags, runVars, promised>>

\* The configuration was refused, or the engine's own work returned.
PrepareWorkEnds(t) ==
  /\ pc[t] = "work" /\ call[t] \in PrepareCalls
  /\ Goto(t, "release")
  /\ UNCHANGED <<slot, flags, runVars, promised>>

\* PrepareRunningGuard::drop
PrepareRelease(t) ==
  /\ pc[t] = "release" /\ call[t] \in PrepareCalls
  /\ prepareRunning' = FALSE
  /\ promised' = promised \ {t}
  /\ Goto(t, "idle")
  /\ UNCHANGED <<slot, prepareCancelled, scanRunning, scanCancelled, runVars>>

-----------------------------------------------------------------------------
(* The standalone endpoint scan, and the test of one endpoint.             *)

ScanSwap(t) ==
  /\ pc[t] = "swap" /\ call[t] = "scan"
  /\ scanRunning' = TRUE
  /\ Goto(t, IF scanRunning THEN "idle" ELSE "reset")
  /\ UNCHANGED <<slot, prepareRunning, prepareCancelled, scanCancelled, runVars, promised>>

\* Mutant: the guard is bound to `_` and dropped on the spot.
ScanResetGuardDropped(t) ==
  /\ pc[t] = "reset" /\ call[t] = "scan"
  /\ scanCancelled' = FALSE
  /\ scanRunning' = FALSE
  /\ Goto(t, "work")
  /\ UNCHANGED <<slot, prepareRunning, prepareCancelled, runVars, promised>>

ScanReset(t) ==
  /\ pc[t] = "reset" /\ call[t] = "scan"
  /\ scanCancelled' = FALSE
  /\ Goto(t, "work")
  /\ UNCHANGED <<slot, prepareRunning, prepareCancelled, scanRunning, runVars, promised>>

ScanHearsCancel(t) ==
  /\ pc[t] = "work" /\ call[t] = "scan"
  /\ scanCancelled
  /\ Goto(t, "release")
  /\ UNCHANGED <<slot, flags, runVars, promised>>

ScanWorkEnds(t) ==
  /\ pc[t] = "work" /\ call[t] = "scan"
  /\ Goto(t, "release")
  /\ UNCHANGED <<slot, flags, runVars, promised>>

ScanRelease(t) ==
  /\ pc[t] = "release" /\ call[t] = "scan"
  /\ scanRunning' = FALSE
  /\ Goto(t, "idle")
  /\ UNCHANGED <<slot, prepareRunning, prepareCancelled, scanCancelled, runVars, promised>>

TestEnds(t) ==
  /\ pc[t] = "work" /\ call[t] = "test"
  /\ Goto(t, "idle")
  /\ UNCHANGED <<slot, flags, runVars, promised>>

-----------------------------------------------------------------------------
(* nativeCancelPrepare and nativeCancelScan: a load, then a store.         *)

CancelLoad(t) ==
  /\ \E c \in {"cancelPrepare", "cancelScan"} :
       /\ IF c = "cancelPrepare" THEN prepareRunning ELSE scanRunning
       /\ Enter(t, c, "cancel")
  /\ UNCHANGED fd

\* The caller is told TRUE; whichever preparation holds the flag is the one
\* it was told about.
CancelPrepareStore(t) ==
  /\ pc[t] = "cancel" /\ call[t] = "cancelPrepare"
  /\ prepareCancelled' = TRUE
  /\ promised' = promised \cup {u \in Threads : Preparing(u)}
  /\ Goto(t, "idle")
  /\ UNCHANGED <<slot, prepareRunning, scanRunning, scanCancelled, runVars>>

CancelScanStore(t) ==
  /\ pc[t] = "cancel" /\ call[t] = "cancelScan"
  /\ scanCancelled' = TRUE
  /\ Goto(t, "idle")
  /\ UNCHANGED <<slot, prepareRunning, prepareCancelled, scanRunning, runVars, promised>>

-----------------------------------------------------------------------------
(* The slot.  Sending and dropping both resolve the receiver, and the      *)
(* select's `_ = &mut stop_rx` takes either for a stop.                    *)

Resolved(s) == [t \in Threads |-> stopped[t] \/ t = s]

TakeSlot ==
  /\ slot' = NoThread
  /\ stopped' = Resolved(slot)

\* Back to the caller; the call's own channel and outcome go with it.
Return(t) ==
  /\ Goto(t, "idle")
  /\ failed' = [failed EXCEPT ![t] = FALSE]

\* nativeStop: take under the lock, and send if there was one.
Stop ==
  /\ TakeSlot
  /\ UNCHANGED <<flags, pc, call, failed, fd, promised>>

-----------------------------------------------------------------------------
(* nativeRun.                                                              *)

\* Strings, peer address, configuration, JVM handles, runtime: any may fail.
RunParse(t) ==
  /\ pc[t] = "parse"
  /\ \E ok \in BOOLEAN : Goto(t, IF ok THEN "install" ELSE "bail")
  /\ UNCHANGED <<slot, flags, runVars, promised>>

\* Mutant: an occupied slot is left alone and the run goes on, its sender in a
\* local that lives as long as the call.
RunInstallIfFree(t) ==
  /\ pc[t] = "install"
  /\ slot' = IF slot = NoThread THEN t ELSE slot
  /\ Goto(t, "attach")
  /\ UNCHANGED <<flags, runVars, promised>>

\* The lock region: refused, or this run's sender goes into the slot.
RunInstall(t) ==
  /\ pc[t] = "install"
  /\ IF slot # NoThread
       THEN Goto(t, "bail") /\ UNCHANGED slot
       ELSE Goto(t, "attach") /\ slot' = t
  /\ UNCHANGED <<flags, runVars, promised>>

\* Tun mode without a descriptor: the slot is cleared before the Err.
RunNoDescriptor(t) ==
  /\ pc[t] = "attach" /\ call[t] = "runTun" /\ fd[t] = "none"
  /\ TakeSlot
  /\ Goto(t, "bail")
  /\ UNCHANGED <<flags, failed, fd, promised>>

\* TunPump::start fails; every failure path of it closes the descriptor.
RunPumpFails(t) ==
  /\ pc[t] = "attach" /\ call[t] = "runTun" /\ fd[t] = "raw"
  /\ fd' = [fd EXCEPT ![t] = "none"]
  /\ Goto(t, "bail")
  /\ UNCHANGED <<slot, flags, stopped, failed, promised>>

\* The pump's threads take the descriptor, or proxy mode closes a stray one.
RunAttach(t) ==
  /\ pc[t] = "attach"
  /\ call[t] = "runTun" => fd[t] = "raw"
  /\ fd' = [fd EXCEPT ![t] = IF call[t] = "runTun" THEN "pumped" ELSE "none"]
  /\ Goto(t, "starting")
  /\ UNCHANGED <<slot, flags, stopped, failed, promised>>

\* The ready signal wins the first select; telling the listener may throw.
RunReady(t) ==
  /\ pc[t] = "starting"
  /\ \E ok \in BOOLEAN :
       /\ failed' = [failed EXCEPT ![t] = ~ok]
       /\ Goto(t, IF ok THEN "up" ELSE "finish")
  /\ UNCHANGED <<slot, flags, stopped, fd, promised>>

\* Mutant: the first select does not listen for a stop.
RunHearsStopOnceUp(t) ==
  /\ pc[t] = "up"
  /\ stopped[t]
  /\ Goto(t, "finish")
  /\ UNCHANGED <<slot, flags, runVars, promised>>

RunHearsStop(t) ==
  /\ pc[t] \in {"starting", "up"}
  /\ stopped[t]
  /\ Goto(t, "finish")
  /\ UNCHANGED <<slot, flags, runVars, promised>>

\* run_embedded returned by itself.
RunEngineEnds(t) ==
  /\ pc[t] \in {"starting", "up"}
  /\ \E ok \in BOOLEAN : failed' = [failed EXCEPT ![t] = ~ok]
  /\ Goto(t, "finish")
  /\ UNCHANGED <<slot, flags, stopped, fd, promised>>

\* After block_on: take the slot, whatever it holds by now.
RunFinish(t) ==
  /\ pc[t] = "finish"
  /\ TakeSlot
  /\ Goto(t, "join")
  /\ UNCHANGED <<flags, failed, fd, promised>>

\* Drop the runtime, join the pump's threads (which closes the descriptor),
\* then return, or leave by way of `outcome?`.
RunJoin(t) ==
  /\ pc[t] = "join"
  /\ fd' = [fd EXCEPT ![t] = "none"]
  /\ IF failed[t]
       THEN Goto(t, "bail") /\ UNCHANGED <<stopped, failed>>
       ELSE Return(t) /\ stopped' = [stopped EXCEPT ![t] = FALSE]
  /\ UNCHANGED <<slot, flags, promised>>

\* Mutant: an Err after the install leaves the sender in the slot.
RunBailKeepsSlot(t) ==
  /\ pc[t] = "bail"
  /\ stopped' = [stopped EXCEPT ![t] = FALSE]
  /\ Return(t)
  /\ UNCHANGED <<slot, flags, fd, promised>>

\* unwrap_or_else: every Err takes the slot, also that of a refused run.
RunBail(t) ==
  /\ pc[t] = "bail"
  /\ slot' = NoThread
  /\ stopped' = [Resolved(slot) EXCEPT ![t] = FALSE]
  /\ Return(t)
  /\ UNCHANGED <<flags, fd, promised>>

-----------------------------------------------------------------------------
Step(t) ==
  \/ CheckSlot(t) \/ CheckOther(t)
  \/ PrepareSwap(t) \/ PrepareReset(t) \/ PrepareHearsCancel(t) \/ PrepareRelease(t)
  \/ ScanSwap(t) \/ ScanReset(t) \/ ScanHearsCancel(t) \/ ScanRelease(t)
  \/ CancelPrepareStore(t) \/ CancelScanStore(t)
  \/ RunParse(t) \/ RunInstall(t) \/ RunNoDescriptor(t) \/ RunAttach(t)
  \/ RunHearsStop(t) \/ RunFinish(t) \/ RunJoin(t) \/ RunBail(t)

\* What the caller, the network or the engine's own work decides.
Outside(t) ==
  \/ EnterGuarded(t) \/ EnterRun(t) \/ CancelLoad(t)
  \/ PrepareWorkEnds(t) \/ ScanWorkEnds(t) \/ TestEnds(t)
  \/ RunPumpFails(t) \/ RunReady(t) \/ RunEngineEnds(t)

Next == Stop \/ \E t \in Threads : Step(t) \/ Outside(t)

Spec == Init /\ [][Next]_vars

\* A thread inside the bridge keeps running: it is a native thread nobody
\* suspends, and every step of Step is a finite piece of code.  The engine's
\* own work is not assumed to end.
Fairness == \A t \in Threads : WF_vars(Step(t))

FairSpec == Spec /\ Fairness

-----------------------------------------------------------------------------
(* Properties.                                                             *)

\* Two callers never hold PREPARE_RUNNING at once, so two provisionings never
\* race for one identity file; and the flag says so exactly.
PreparationsExclude ==
  /\ \A t, u \in Threads : Preparing(t) /\ Preparing(u) => t = u
  /\ prepareRunning <=> \E t \in Threads : Preparing(t)

\* The same for the standalone scan: one at a time, and a scan that has
\* returned leaves the flag down, so the next is not refused for ever.
ScansExclude ==
  /\ \A t, u \in Threads : Scanning(t) /\ Scanning(u) => t = u
  /\ scanRunning <=> \E t \in Threads : Scanning(t)

\* Every engine inside block_on can be stopped: its sender is in the slot, or
\* its receiver has already resolved.  An engine nobody can reach would hold
\* the VPN up for ever, since nativeStop is the only way to end it.
EnginesReachable ==
  \A t \in Threads : pc[t] \in {"attach", "starting", "up"} => slot = t \/ stopped[t]

\* The slot never outlives its run: what it holds is the sender of a run that
\* has not yet finished, never that of a call that has returned (which would
\* refuse every later prepare, scan and run).
SlotIsLive ==
  slot # NoThread =>
    /\ pc[slot] \in {"attach", "starting", "up", "finish", "bail"}
    /\ call[slot] \in RunCalls

\* The bridge, with all its threads, keeps what EngineSlot promises: engines
\* start one at a time, only while none is live, and none comes back once it was
\* told to stop or is over.
Ending(t) == \/ pc[t] \in {"attach", "starting", "up"} /\ stopped[t]
             \/ pc[t] \in {"finish", "join"}

ES == INSTANCE EngineSlot WITH live <- {t \in Threads : Live(t)},
                               ending <- {t \in Threads : Ending(t)}

ImplementsEngineSlot == ES!Spec

\* A preparation that was cancelled after it cleared the flag ends, however
\* long its own work would have taken, and no other caller can swallow the
\* cancellation before it is heard.
CancelledPreparationEnds ==
  \A t \in Threads :
    (pc[t] = "work" /\ call[t] \in PrepareCalls /\ prepareCancelled)
      ~> pc[t] = "idle"

\* A run whose receiver has resolved returns to its caller, whatever its
\* engine does.
StoppedRunReturns ==
  \A t \in Threads :
    (pc[t] \in {"starting", "up"} /\ stopped[t]) ~> pc[t] = "idle"

\* What the comments and error messages promise and the code does not keep.

\* "Ends a preparation that is still running, and says whether there was one":
\* a preparation a cancel answered TRUE for still has its cancellation ahead
\* of it, or has ended.
CancelIsNotLost ==
  \A t \in promised : pc[t] \in {"reset", "work"} => prepareCancelled
=============================================================================
