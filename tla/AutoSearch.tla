----------------------------- MODULE AutoSearch -----------------------------
(***************************************************************************)
(* AetherVpnService with Automatic on: which step a session runs, how an   *)
(* engine step is held to its budget, what follows a failure, and when the *)
(* search gives up.  What a race does inside is AutoRace.                  *)
(*                                                                         *)
(* Every coroutine of the service runs on Dispatchers.Main.immediate: what *)
(* happens between two suspension points is one action.  Generations and   *)
(* leash tokens are only ever compared for equality, so the model keeps    *)
(* whether a session's generation is the current one (fresh), the one      *)
(* leash whose token still is, and the number of relaunches that will find *)
(* their generation unchanged; the others do nothing when they wake.       *)
(* Delays and budgets end in any order.  The service outlives a search     *)
(* that gave up, as it does when it blocks traffic.                        *)
(***************************************************************************)
EXTENDS Naturals, Sequences, FiniteSets

CONSTANTS MaxJobs,       \* bound: sessions, and lanes left behind, at once
          Plans,         \* what AutoPlanner.plan may return
          MaxPasses,     \* MAX_AUTO_PASSES
          MaxEvents      \* bound: start commands, roams and lost connections, together

Kinds == {"engine", "race"}

ASSUME ConstantsAssumption ==
  /\ MaxJobs \in Nat \ {0}
  /\ Plans \subseteq Seq(Kinds) \ {<< >>}
  /\ MaxPasses \in Nat \ {0}
  /\ MaxEvents \in Nat

Jobs == 1..MaxJobs
None == 0

VARIABLES
  jobs,         \* the session coroutines, and the lanes that races left behind
  job,          \* sessionJob
  cancellable,  \* sessionCancellable
  joining,      \* the job a replaceSession joins, holding the lock
  relaunches,   \* relaunches of the current generation that are pending
  hops,         \* what the watchers of this generation watch
  steps,        \* autoSteps
  index,        \* autoStepIndex
  passes,       \* autoPasses
  engineUp,     \* autoEngineUp
  connected,    \* autoConnected
  running,      \* autoRunningRoute is set
  won,          \* an autoWon is posted to the main thread
  leash,        \* the leash whose token is the current one: none, budget, grace
  room,         \* autoStepDeadline leaves time for another attempt
  stale,        \* staleEngine
  online,       \* the phone has a network
  search,       \* off, on, or over: gave up or was refused
  events        \* start commands, roams and lost connections so far

jobVars == <<jobs, job, cancellable, joining, relaunches, hops>>
planVars == <<steps, index, passes, engineUp, connected, running, won, leash, room, stale>>
vars == <<jobVars, planVars, online, search, events>>

Labels == {"done", "begin", "network", "stale", "prepare", "launch", "run", "up", "race",
           "chain", "parked", "lane"}

\* at: where the coroutine is; fresh: its generation is the current one;
\* halted: its nativeRun was told to stop; cancelled: it was cancelled in a
\* blocking call, and ends when that returns; waits: the job it joins.
JobStates == [at : Labels, fresh : BOOLEAN, halted : BOOLEAN, cancelled : BOOLEAN,
              waits : Jobs \cup {None}]
Idle == [at |-> "done", fresh |-> FALSE, halted |-> FALSE, cancelled |-> FALSE, waits |-> None]
Begun == [Idle EXCEPT !.at = "begin", !.fresh = TRUE]
Lane == [Idle EXCEPT !.at = "lane"]

\* watched: the session whose winner is watched under the current hopAttempt, until
\* its loss is reported: collapsedAttempt then names the attempt, and the client,
\* stopped, reports nothing more.  crossed records what no variable of the
\* service does: in this generation a winner was lost while its own session was
\* still handing the interface over.
HopStates == [watched : Jobs \cup {None}, crossed : BOOLEAN]
NoHops == [watched |-> None, crossed |-> FALSE]

TypeOK ==
  /\ jobs \in [Jobs -> JobStates]
  /\ job \in Jobs \cup {None} /\ joining \in Jobs \cup {None}
  /\ cancellable \in BOOLEAN
  /\ relaunches \in Nat
  /\ hops \in HopStates
  /\ steps \in Plans \cup {<< >>}
  /\ index \in Nat
  /\ passes \in Nat
  /\ engineUp \in BOOLEAN /\ connected \in BOOLEAN /\ running \in BOOLEAN /\ won \in BOOLEAN
  /\ leash \in {"none", "budget", "grace"}
  /\ room \in BOOLEAN
  /\ stale \in Jobs \cup {None}
  /\ online \in BOOLEAN
  /\ search \in {"off", "on", "over"}
  /\ events \in 0..MaxEvents

Init ==
  /\ jobs = [s \in Jobs |-> Idle]
  /\ job = None /\ joining = None /\ cancellable = FALSE /\ relaunches = 0
  /\ hops = NoHops
  /\ steps = << >> /\ index = 0 /\ passes = 0
  /\ engineUp = FALSE /\ connected = FALSE /\ running = FALSE /\ won = FALSE
  /\ leash = "none" /\ room = FALSE /\ stale = None
  /\ online \in BOOLEAN
  /\ search = "off"
  /\ events = 0

-----------------------------------------------------------------------------
(* Parts shared by the handlers.                                           *)

At(s) == jobs[s].at
Resumes(s, l) == At(s) = l /\ ~jobs[s].cancelled
Ended(q, s) == [q EXCEPT ![s] = Idle]
Moved(q, s, l) == [q EXCEPT ![s].at = l]
Gone(q, s) == IF s = None THEN TRUE ELSE q[s].at = "done"

\* A place nothing runs in and nothing refers to; the first of them is used.
Free(q) ==
  {s \in Jobs : /\ q[s].at = "done" /\ s \notin {joining, stale}
                /\ \A t \in Jobs : q[t].waits # s}
Place(q) == CHOOSE s \in Free(q) : \A t \in Free(q) : s <= t

\* generation += 1: no session of before is current.
Outdated(q) == [s \in Jobs |-> [q[s] EXCEPT !.fresh = FALSE]]

\* NativeAetherBridge.stop reaches the run that has taken the engine's slot.
NativeStop(q) ==
  [s \in Jobs |-> IF q[s].at \in {"run", "up"} THEN [q[s] EXCEPT !.halted = TRUE] ELSE q[s]]

\* A losing engine that has not heard its stop when its race ends: perhaps one,
\* which staleEngine then names.
Losers(q) ==
  {None} \cup {l \in Free(q) \ {job} : \A f \in Free(q) \ {job} : l <= f}
WithLane(q, l) == IF l = None THEN q ELSE [q EXCEPT ![l] = Lane]
StaleAfter(l) == IF l = None THEN stale ELSE l

\* if (sessionCancellable) sessionJob?.cancel(): where the job is suspended it ends,
\* and a race may leave a lane; in a blocking call it is to end.
Cancelled(q) ==
  IF ~cancellable \/ Gone(q, job) THEN q
  ELSE IF q[job].at \in {"network", "stale", "race", "parked"} THEN Ended(q, job)
  ELSE [q EXCEPT ![job].cancelled = TRUE]
Cancelling(q) ==
  IF cancellable /\ job # None /\ q[job].at = "race" THEN Losers(Ended(q, job)) ELSE {None}

\* Something from outside, within the bound.
Happens == events < MaxEvents /\ events' = events + 1

\* A session just launched runs on the main thread before anything else.
Turn == \A s \in Jobs : At(s) # "begin"

-----------------------------------------------------------------------------
(* The plan.                                                               *)

StepAt(p, i) == IF i < Len(p) THEN p[i + 1] ELSE "none"

\* Mutant: the index is the one before.
EnterStepBefore(p, i, current) ==
  /\ index' = i - 1
  /\ engineUp' = FALSE
  /\ leash' = IF StepAt(p, i) = "engine" /\ current THEN "budget" ELSE "none"
  /\ room' = (StepAt(p, i) = "engine")

\* enterStep, for a caller whose generation is current or not: a new token, so
\* the older leash stands down, and a leash of its own for an engine step.
EnterStep(p, i, current) ==
  /\ index' = i
  /\ engineUp' = FALSE
  /\ leash' = IF StepAt(p, i) = "engine" /\ current THEN "budget" ELSE "none"
  /\ room' = (StepAt(p, i) = "engine")

\* giveUp, by a caller whose session is over: a new generation, no session.
GiveUp(q) ==
  /\ search' = "over"
  /\ jobs' = NativeStop(Outdated(q))
  /\ relaunches' = 0 /\ hops' = NoHops
  /\ job' = None
  /\ UNCHANGED <<steps, running>>

\* Mutant: the steps of the pass that is over are kept.
FinishStepKeepsPlan(q, r, h, current) ==
  /\ EnterStep(steps, index + 1, current)
  /\ IF index + 1 < Len(steps)
       THEN jobs' = q /\ relaunches' = r /\ hops' = h /\ UNCHANGED <<job, search, steps, passes, running>>
       ELSE /\ passes' = passes + 1
            /\ \/ GiveUp(q)
               \/ /\ passes + 1 < MaxPasses
                  /\ jobs' = q /\ relaunches' = r /\ hops' = h
                  /\ UNCHANGED <<job, search, steps, running>>

\* Mutant: the passes are not counted.
FinishStepUncounted(q, r, h, current) ==
  /\ EnterStep(steps, index + 1, current)
  /\ UNCHANGED passes
  /\ IF index + 1 < Len(steps)
       THEN jobs' = q /\ relaunches' = r /\ hops' = h /\ UNCHANGED <<job, search, steps, running>>
       ELSE \/ GiveUp(q)
            \/ /\ passes < MaxPasses
               /\ steps' = << >> /\ running' = FALSE
               /\ jobs' = q /\ relaunches' = r /\ hops' = h
               /\ UNCHANGED <<job, search>>

\* finishStep, with the sessions that are left, the relaunches pending once its
\* own is scheduled, and what the watchers watch: the next step, another pass,
\* or, after the last one or when time is short, the end.
FinishStep(q, r, h, current) ==
  /\ EnterStep(steps, index + 1, current)
  /\ IF index + 1 < Len(steps)
       THEN jobs' = q /\ relaunches' = r /\ hops' = h /\ UNCHANGED <<job, search, steps, passes, running>>
       ELSE /\ passes' = passes + 1
            /\ \/ GiveUp(q)
               \/ /\ passes + 1 < MaxPasses
                  /\ steps' = << >> /\ running' = FALSE
                  /\ jobs' = q /\ relaunches' = r /\ hops' = h
                  /\ UNCHANGED <<job, search>>

\* advanceAuto, for a session of the current generation that has failed: a
\* route that had worked starts the search again, an engine step with time
\* left tries once more, anything else has had its turn.
AdvanceAuto(q, h, time) ==
  IF connected
    THEN /\ steps' = << >> /\ passes' = 0 /\ connected' = FALSE /\ running' = FALSE
         /\ jobs' = q /\ relaunches' = relaunches + 1 /\ hops' = h
         /\ UNCHANGED <<job, search, index, engineUp, leash, room>>
    ELSE /\ UNCHANGED connected
         /\ IF StepAt(steps, index) = "engine" /\ time
              THEN /\ engineUp' = FALSE
                   /\ jobs' = q /\ relaunches' = relaunches + 1 /\ hops' = h
                   /\ UNCHANGED <<job, search, steps, index, passes, running, leash, room>>
              ELSE FinishStep(q, relaunches + 1, h, TRUE)

\* scheduleReconnect by a session that is over: nothing if it was replaced.
ScheduleReconnect(s, h, time) ==
  IF jobs[s].fresh THEN AdvanceAuto(Ended(jobs, s), h, time)
  ELSE /\ jobs' = Ended(jobs, s) /\ hops' = h
       /\ room' = time
       /\ UNCHANGED <<job, relaunches, search, steps, index, passes, engineUp, connected, running,
                      leash>>

\* reportError and finishIfCurrent: no permission, or no interface.
Refused(s) ==
  /\ jobs' = Ended(jobs, s)
  /\ search' = IF jobs[s].fresh THEN "over" ELSE search

-----------------------------------------------------------------------------
(* Commands and the network.                                               *)

\* replaceSession up to its join, and past it when there is nothing to wait for.
Connect ==
  /\ Turn /\ joining = None /\ Happens
  /\ search' = "on"
  /\ steps' = << >> /\ passes' = 0 /\ connected' = FALSE
  /\ leash' = "none" /\ relaunches' = 0 /\ hops' = NoHops
  /\ LET before == NativeStop(Outdated(jobs)) IN
     \E l \in Cancelling(before) :
       LET q == WithLane(Cancelled(before), l) IN
       /\ stale' = StaleAfter(l)
       /\ IF Gone(q, job)
            THEN /\ Free(q) # {}
                 /\ jobs' = [q EXCEPT ![Place(q)] = Begun] /\ job' = Place(q)
                 /\ cancellable' = FALSE /\ UNCHANGED joining
            ELSE jobs' = q /\ joining' = job /\ UNCHANGED <<job, cancellable>>
  /\ UNCHANGED <<index, engineUp, running, won, room, online>>

JoinReturns ==
  /\ Turn /\ joining # None /\ Gone(jobs, joining) /\ Free(jobs) # {}
  /\ joining' = None
  /\ jobs' = [jobs EXCEPT ![Place(jobs)] = Begun] /\ job' = Place(jobs)
  /\ cancellable' = FALSE
  /\ UNCHANGED <<relaunches, hops, planVars, online, search, events>>

\* relaunch after its delay: replaceParkedSession.
RelaunchFires ==
  /\ Turn /\ relaunches > 0
  /\ relaunches' = relaunches - 1
  /\ \E l \in Cancelling(jobs) :
       LET q == WithLane(Cancelled(jobs), l) IN
       /\ Free(q) # {}
       /\ jobs' = [q EXCEPT ![Place(q)] = Begun] /\ job' = Place(q)
       /\ stale' = StaleAfter(l)
  /\ cancellable' = FALSE
  /\ UNCHANGED <<joining, hops, steps, index, passes, engineUp, connected, running, won, leash,
                 room, online, search, events>>

\* networkMayHaveChanged on a move to another network, once it has the lock.
Roam ==
  /\ Turn /\ joining = None /\ Happens
  /\ IF ~connected /\ steps # << >> THEN steps' = << >> /\ index' = 0
     ELSE UNCHANGED <<steps, index>>
  /\ UNCHANGED <<jobVars, passes, engineUp, connected, running, won, leash, room, stale,
                 online, search>>

Online ==
  /\ ~online /\ online' = TRUE
  /\ UNCHANGED <<jobVars, planVars, search, events>>

-----------------------------------------------------------------------------
(* A session: autoStepFor and what the step runs.                          *)

\* The step the session has is taken.  An engine step waits for an engine that
\* was left behind.
TakeStep(s, p, i) ==
  CASE StepAt(p, i) = "none" ->
         jobs' = Ended(jobs, s) /\ UNCHANGED <<cancellable, stale>>
    [] StepAt(p, i) = "race" ->
         jobs' = Moved(jobs, s, "race") /\ cancellable' = TRUE /\ UNCHANGED stale
    [] StepAt(p, i) = "engine" ->
         /\ UNCHANGED cancellable
         /\ IF Gone(jobs, stale)
              THEN jobs' = Moved(jobs, s, "prepare") /\ stale' = None
              ELSE jobs' = [jobs EXCEPT ![s].at = "stale", ![s].waits = stale] /\ UNCHANGED stale

\* A new pass is planned, its first step entered and taken.
Plan(s) ==
  \E p \in Plans :
    /\ steps' = p
    /\ connected' = FALSE
    /\ running' = (StepAt(p, 0) = "engine" /\ Gone(jobs, stale))
    /\ EnterStep(p, 0, jobs[s].fresh)
    /\ TakeStep(s, p, 0)

Begin(s) ==
  /\ At(s) = "begin"
  /\ IF steps # << >>
       THEN /\ TakeStep(s, steps, index)
            /\ running' = (running \/ (StepAt(steps, index) = "engine" /\ Gone(jobs, stale)))
            /\ UNCHANGED <<steps, connected, index, engineUp, leash, room>>
       ELSE IF online THEN Plan(s)
       ELSE /\ jobs' = Moved(jobs, s, "network")
            /\ UNCHANGED <<steps, connected, running, index, engineUp, leash, room, cancellable,
                           stale>>
  /\ UNCHANGED <<job, joining, relaunches, hops, passes, won, online, search, events>>

\* awaitNetwork: replaced, or a network came, or NETWORK_WAIT_MS have passed.
NetworkReplaced(s) ==
  /\ Turn /\ At(s) = "network" /\ ~jobs[s].fresh
  /\ jobs' = Ended(jobs, s)
  /\ UNCHANGED <<job, cancellable, joining, relaunches, hops, planVars, online, search, events>>

NetworkCame(s) ==
  /\ Turn /\ At(s) = "network" /\ jobs[s].fresh /\ online
  /\ Plan(s)
  /\ UNCHANGED <<job, joining, relaunches, hops, passes, won, online, search, events>>

NetworkNever(s) ==
  /\ Turn /\ At(s) = "network" /\ jobs[s].fresh /\ ~online
  /\ GiveUp(Ended(jobs, s))
  /\ leash' = "none"
  /\ UNCHANGED <<cancellable, joining, index, passes, engineUp, connected, won, room, stale,
                 online, events>>

\* The engine that was left behind has gone.
StaleGone(s) ==
  /\ Turn /\ At(s) = "stale" /\ Gone(jobs, jobs[s].waits)
  /\ stale' = None
  /\ IF jobs[s].fresh
       THEN jobs' = [jobs EXCEPT ![s].at = "prepare", ![s].waits = None] /\ running' = TRUE
       ELSE jobs' = Ended(jobs, s) /\ UNCHANGED running
  /\ UNCHANGED <<job, cancellable, joining, relaunches, hops, steps, index, passes, engineUp,
                 connected, won, leash, room, online, search, events>>

\* STALE_ENGINE_WAIT_MS have passed with it still going.
StaleWaited(s) ==
  /\ Turn /\ At(s) = "stale" /\ ~Gone(jobs, jobs[s].waits)
  /\ FinishStep(Ended(jobs, s), relaunches + (IF jobs[s].fresh THEN 1 ELSE 0), hops,
                jobs[s].fresh)
  /\ UNCHANGED <<cancellable, joining, connected, won, stale, online, events>>

\* prepare fails; a refusal that is conclusive sets autoStepDeadline to 0, before
\* anyone asks whose step it is.
PrepareFails(s) ==
  /\ Turn /\ Resumes(s, "prepare")
  /\ \E conclusive \in BOOLEAN : ScheduleReconnect(s, hops, room /\ ~conclusive)
  /\ UNCHANGED <<cancellable, joining, won, stale, online, events>>

\* An interface is asked for, and the engine run.
Prepared(s) ==
  /\ Turn /\ Resumes(s, "prepare")
  /\ \/ /\ jobs' = IF jobs[s].fresh THEN Moved(jobs, s, "launch") ELSE Ended(jobs, s)
        /\ UNCHANGED search
     \/ Refused(s)
  /\ UNCHANGED <<job, cancellable, joining, relaunches, hops, planVars, online, events>>

\* nativeRun takes the engine's slot, also for a session cancelled meanwhile.
RunTakes(s) ==
  /\ At(s) = "launch"
  /\ jobs' = Moved(jobs, s, "run")
  /\ UNCHANGED <<job, cancellable, joining, relaunches, hops, planVars, online, search, events>>

\* The listener, on the engine's own thread: up, and autoWon posted.  It may be
\* on its way when a stop reaches the run.
EngineReady(s) ==
  /\ At(s) = "run"
  /\ IF jobs[s].halted THEN Happens ELSE UNCHANGED events
  /\ jobs' = Moved(jobs, s, "up")
  /\ engineUp' = TRUE
  /\ won' = (won \/ running)
  /\ UNCHANGED <<job, cancellable, joining, relaunches, hops, steps, index, passes, connected,
                 running, leash, room, stale, online, search>>

\* autoWon, in its turn on the main thread.
AutoWon ==
  /\ Turn /\ won
  /\ won' = FALSE
  /\ connected' = TRUE /\ passes' = 0 /\ leash' = "none"
  /\ UNCHANGED <<jobVars, steps, index, engineUp, running, room, stale, online, search, events>>

\* nativeRun returns: it never came up, was told to stop, or was lost.
Returns(s) ==
  /\ Turn /\ ~won
  /\ IF At(s) = "up" /\ ~jobs[s].halted THEN Happens ELSE UNCHANGED events

RunReturns(s) ==
  /\ At(s) \in {"run", "up"} /\ ~jobs[s].cancelled
  /\ Returns(s)
  /\ ScheduleReconnect(s, hops, room)
  /\ UNCHANGED <<cancellable, joining, won, stale, online>>

\* A blocking call of a session that was cancelled in it returns, and nothing
\* after it is run.
Unwinds(s) ==
  /\ jobs[s].cancelled
  /\ Returns(s)
  /\ jobs' = Ended(jobs, s)
  /\ UNCHANGED <<job, cancellable, joining, relaunches, hops, planVars, online, search>>

\* A race: the interface is refused, no lane got out, or one did.
RaceRefused(s) ==
  /\ Turn /\ Resumes(s, "race")
  /\ Refused(s)
  /\ UNCHANGED <<job, cancellable, joining, relaunches, hops, planVars, online, events>>

RaceLost(s) ==
  /\ Turn /\ Resumes(s, "race")
  /\ ScheduleReconnect(s, hops, room)
  /\ UNCHANGED <<cancellable, joining, won, stale, online, events>>

\* newHopAttempt and watchHop: from here on the winner is watched, and mihomo is
\* given the interface in a blocking call.
RaceWon(s) ==
  /\ Turn /\ Resumes(s, "race")
  /\ \E l \in Losers(jobs) :
       /\ stale' = StaleAfter(l)
       /\ jobs' = IF jobs[s].fresh THEN Moved(WithLane(jobs, l), s, "chain")
                  ELSE Ended(WithLane(jobs, l), s)
  /\ IF jobs[s].fresh
       THEN hops' = [hops EXCEPT !.watched = s] /\ running' = TRUE
       ELSE UNCHANGED <<hops, running>>
  /\ UNCHANGED <<job, cancellable, joining, relaunches, steps, index, passes, engineUp, connected,
                 won, leash, room, online, search, events>>

\* startCarrier returns: the session is parked and connected, whatever was
\* decided about it meanwhile; autoWon runs at once if there is a route to name.
ChainUp(s) ==
  /\ Turn /\ Resumes(s, "chain")
  /\ jobs' = Moved(jobs, s, "parked")
  /\ IF running THEN connected' = TRUE /\ passes' = 0 /\ leash' = "none"
     ELSE UNCHANGED <<connected, passes, leash>>
  /\ UNCHANGED <<job, cancellable, joining, relaunches, hops, steps, index, engineUp, running, won,
                 room, stale, online, search, events>>

\* ... or fails: the session claims the collapse of its attempt, without asking
\* whether the watcher has, and is scheduled again.
ChainFails(s) ==
  /\ Turn /\ Resumes(s, "chain")
  /\ ScheduleReconnect(s, [hops EXCEPT !.watched = IF @ = s THEN None ELSE @], room)
  /\ UNCHANGED <<cancellable, joining, won, stale, online, events>>

\* The winner is lost, also while its session still hands the interface over:
\* the hop's watcher reports it once, and the session goes on, or stays parked,
\* until it is relaunched over.
CarrierLost ==
  /\ Turn /\ hops.watched # None
  /\ Happens
  /\ LET early == At(hops.watched) = "chain" IN
     AdvanceAuto(jobs, [watched |-> None, crossed |-> hops.crossed \/ early], room)
  /\ UNCHANGED <<cancellable, joining, won, stale, online>>

\* A losing engine's lane has heard its stop.
LaneEnds(s) ==
  /\ At(s) = "lane"
  /\ jobs' = Ended(jobs, s)
  /\ UNCHANGED <<job, cancellable, joining, relaunches, hops, planVars, online, search, events>>

-----------------------------------------------------------------------------
(* The leash of an engine step.                                            *)

LeashHolds == ~engineUp /\ ~connected

DeadlinePasses ==
  /\ room /\ room' = FALSE
  /\ UNCHANGED <<jobVars, steps, index, passes, engineUp, connected, running, won, leash, stale,
                 online, search, events>>

\* The budget is over: gently first.
LeashPulls ==
  /\ Turn /\ leash = "budget"
  /\ IF LeashHolds
       THEN /\ leash' = "grace" /\ room' = FALSE
            /\ jobs' = NativeStop(jobs)
       ELSE leash' = "none" /\ UNCHANGED <<room, jobs>>
  /\ UNCHANGED <<job, cancellable, joining, relaunches, hops, steps, index, passes, engineUp, connected,
                 running, won, stale, online, search, events>>

\* Mutant: the session is left behind under its own generation.
LeashLeavesCurrent ==
  /\ Turn /\ leash = "grace"
  /\ IF LeashHolds
       THEN stale' = job /\ FinishStep(jobs, relaunches + 1, NoHops, TRUE)
       ELSE /\ leash' = "none"
            /\ UNCHANGED <<jobs, relaunches, hops, job, search, steps, index, passes, engineUp, running,
                           room, stale>>
  /\ UNCHANGED <<cancellable, joining, connected, won, online, events>>

\* ... and the session is left behind if it has not noticed.
LeashLeaves ==
  /\ Turn /\ leash = "grace"
  /\ IF LeashHolds
       THEN stale' = job /\ FinishStep(Outdated(jobs), 1, NoHops, TRUE)
       ELSE /\ leash' = "none"
            /\ UNCHANGED <<jobs, relaunches, hops, job, search, steps, index, passes, engineUp, running,
                           room, stale>>
  /\ UNCHANGED <<cancellable, joining, connected, won, online, events>>

-----------------------------------------------------------------------------
Session(s) ==
  \/ Begin(s) \/ NetworkReplaced(s) \/ NetworkCame(s) \/ NetworkNever(s) \/ StaleGone(s)
  \/ StaleWaited(s) \/ PrepareFails(s) \/ Prepared(s) \/ RunTakes(s) \/ RaceRefused(s)
  \/ RaceLost(s) \/ RaceWon(s) \/ ChainUp(s) \/ ChainFails(s)

Next ==
  \/ Connect \/ JoinReturns \/ RelaunchFires \/ Roam \/ Online \/ AutoWon
  \/ DeadlinePasses \/ LeashPulls \/ LeashLeaves \/ CarrierLost
  \/ \E s \in Jobs : \/ Session(s) \/ EngineReady(s) \/ RunReturns(s)
                     \/ Unwinds(s) \/ LaneEnds(s)

Spec == Init /\ [][Next]_vars

\* The main thread and the clock move.  A run that has been told to stop
\* returns; a preparation, and a run that has not come up, have a timeout of
\* their own in the engine, and a hand-over is local work.  Nothing makes an
\* engine come up, a run that is up return, or a network come.
Fairness ==
  /\ WF_vars(JoinReturns) /\ WF_vars(RelaunchFires) /\ WF_vars(AutoWon)
  /\ WF_vars(DeadlinePasses) /\ WF_vars(LeashPulls) /\ WF_vars(LeashLeaves)
  /\ \A s \in Jobs : /\ WF_vars(Session(s)) /\ WF_vars(LaneEnds(s))
                     /\ WF_vars((jobs[s].halted \/ At(s) = "run") /\ RunReturns(s))
                     /\ WF_vars((jobs[s].halted \/ At(s) # "up") /\ Unwinds(s))

FairSpec == Spec /\ Fairness

-----------------------------------------------------------------------------
(* Properties.                                                             *)

Live(s) == jobs[s].fresh /\ ~jobs[s].cancelled /\ At(s) \notin {"done", "parked"}

\* There is one search: of the current generation at most one session is under
\* way or about to be, whether the session that failed, its leash, a watcher or
\* a command scheduled it.  The exception is the one named at crossed: then the
\* session and its watcher each schedule a relaunch, until the generation moves.
OneSession ==
  ~hops.crossed => Cardinality({s \in Jobs : Live(s)}) + relaunches <= 1

\* Handing the interface over, or parked, for a winner nobody has lost.
Carries(s) == At(s) \in {"chain", "parked"} /\ hops.watched = s

Drives(s) ==
  /\ jobs[s].fresh /\ ~jobs[s].cancelled
  /\ At(s) \notin {"done", "chain", "parked"} \/ Carries(s)

\* A search that is on is being driven: something of the current generation is
\* under way, scheduled or carrying traffic over a winner that is not lost.
\* Nothing of the plan is dropped between a step that ended and the one after
\* it, also where a watcher and its session have both acted.
NeverStranded ==
  search = "on" => relaunches > 0 \/ joining # None \/ \E s \in Jobs : Drives(s)

\* An engine that comes up, be it one that was left behind, carries traffic too.
Carrying(s) ==
  \/ At(s) = "up" /\ ~jobs[s].halted
  \/ At(s) = "parked" /\ Carries(s)

\* A search comes to an end: a route carries traffic, or the user is told that
\* nothing did.
SearchEnds == search = "on" ~> search = "over" \/ \E s \in Jobs : Carrying(s)
=============================================================================
