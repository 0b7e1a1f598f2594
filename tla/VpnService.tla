----------------------------- MODULE VpnService -----------------------------
(***************************************************************************)
(* AetherVpnService: the Android service that owns the VPN session, for    *)
(* the sessions a user configures by hand (the automatic search replaces   *)
(* only the choice of what to try next).                                   *)
(*                                                                         *)
(* Every coroutine of the service runs on Dispatchers.Main.immediate: what *)
(* happens between two suspension points is one action, and a launched     *)
(* session runs in place up to its first suspension (label "begin").  A    *)
(* blocking native or Go call is a label at which a session waits while    *)
(* everything else goes on.                                                *)
(*                                                                         *)
(* The service tells a session that it has been replaced by a generation   *)
(* counter which the session compares with the number it was started with. *)
(* Only equality is ever asked, so the model keeps, for each session,      *)
(* whether its generation is the current one (fresh).  Timers and watchers *)
(* of an older generation do nothing when they wake: they are dropped here *)
(* when the generation moves on.                                           *)
(***************************************************************************)
EXTENDS Naturals, Sequences, FiniteSets

CONSTANTS Slots,       \* session coroutines that may exist at once
          None,        \* no session
          Requests,    \* what the user may ask for, pairs <<carriers, config>>
          Switches,    \* ... with which kill switches, pairs <<kill, strict>>
          MaxRetries,  \* MAX_RECONNECT_ATTEMPTS
          MaxQueued,   \* start commands waiting for the lock at once
          MaxTimers    \* reconnect delays told apart (more count as this many)

\* proxy: the engine behind a local listener; engine: the engine on the
\* interface; chain: mihomo's exit chain through the engine; direct: the exit
\* chain without it.
Configs == {"proxy", "engine", "chain", "direct"}
EngineRoutes  == {"proxy", "engine", "chain"}
CarrierRoutes == {"one", "two"}
\* misfit: carriers asked for together with proxy mode, which runs refuse.
AllRoutes == EngineRoutes \cup CarrierRoutes \cup {"direct", "misfit"}
Hops == 1..2

ASSUME ConstantsAssumption ==
  /\ None \notin Slots
  /\ Requests \subseteq (0..2) \X Configs
  /\ Switches \subseteq BOOLEAN \X BOOLEAN
  /\ MaxRetries \in Nat /\ MaxQueued \in Nat /\ MaxTimers \in Nat \ {0}

\* What runSession makes of the carrier fields and the configuration.
RouteOf(c, g) ==
  CASE c = 0 -> g
    [] c # 0 /\ g = "proxy" -> "misfit"
    [] c = 1 /\ g # "proxy" -> "one"
    [] c = 2 /\ g # "proxy" -> "two"
NumHops(r) == IF r = "two" THEN 2 ELSE 1

NotSaved == [carriers |-> 0, config |-> "proxy", kill |-> FALSE, strict |-> FALSE]
Saved == [carriers : 0..2, config : Configs, kill : BOOLEAN, strict : BOOLEAN]

VARIABLES
  \* the sessions
  pc,          \* where each session coroutine is
  fresh,       \* its generation is the current one
  via,         \* the route it read when it began
  tun,         \* its interface: none, own (open, ours), detached, given (to mihomo or the engine)
  engine,      \* its nativeRun: off, launched, running or ready (stoppable; it reported
               \* ready), halted or over (the same, told to stop)
  client,      \* the carrier clients of its hops
  job,         \* sessionJob
  cancellable, \* sessionCancellable
  \* retries and watchers
  retries,     \* reconnectAttempt
  timers,      \* reconnect delays of the current generation that are running
  attempt,     \* hopAttempt: the session that opened it
  watched,     \* hopWatchers: the hops of that session which are watched
  collapsed,   \* collapsedAttempt: the session whose attempt it names
  \* commands
  joining,     \* commandMutex: None, or the job a replaceSession joins holding it
  queue,       \* configurations of replaceSession coroutines waiting for the lock
  stopper,     \* the coroutine of stopFromUser: none, joining, closing
  stopping,    \* the job it waits for
  \* what the process holds
  chain,       \* mihomo has an interface
  protector,   \* a socket protector is installed
  blackhole,   \* the blocking interface is up
  \* the request, and what of it is on disk
  carriers, config, kill, strict, saved,
  \* the service
  stage,       \* the published EngineStage
  service,     \* off, on, closing (stopSelf called), killed
  \* history: the user's last word, and the kill switch that came with it
  wanted, asked

sessionVars == <<pc, fresh, via, tun, engine, client, job, cancellable>>
retryVars   == <<retries, timers, attempt, watched, collapsed>>
commandVars == <<joining, queue, stopper, stopping>>
heldVars    == <<chain, protector, blackhole>>
requestVars == <<carriers, config, kill, strict, saved>>
serviceVars == <<stage, service>>
historyVars == <<wanted, asked>>
vars == <<sessionVars, retryVars, commandVars, heldVars, requestVars, serviceVars,
          historyVars>>

Stages == {"IDLE", "PREPARING", "CONNECTING", "CONNECTED", "STOPPING", "ERROR"}
Labels == {"done", "begin", "prepare", "run", "up", "engineWait", "engineUp", "hop1",
           "hop2", "chainStart", "nodes", "chainUp", "parked", "dying"}
ClientStates == {"none", "connecting", "connected", "failed", "stopped"}

\* Every variable has its type.
TypeOK ==
  /\ pc \in [Slots -> Labels]
  /\ fresh \in [Slots -> BOOLEAN]
  /\ via \in [Slots -> AllRoutes]
  /\ tun \in [Slots -> {"none", "own", "detached", "given"}]
  /\ engine \in [Slots -> {"off", "launched", "running", "ready", "halted", "over"}]
  /\ client \in [Slots -> [Hops -> ClientStates]]
  /\ job \in Slots \cup {None}
  /\ cancellable \in BOOLEAN
  /\ retries \in 0..MaxRetries
  /\ timers \in 0..MaxTimers
  /\ attempt \in Slots \cup {None}
  /\ watched \subseteq Hops
  /\ collapsed \in Slots \cup {None}
  /\ joining \in Slots \cup {None}
  /\ queue \in Seq(Configs) /\ Len(queue) <= MaxQueued
  /\ stopper \in {"none", "joining", "closing"} /\ stopping \in Slots \cup {None}
  /\ chain \in BOOLEAN /\ protector \in BOOLEAN /\ blackhole \in BOOLEAN
  /\ carriers \in 0..2 /\ config \in Configs
  /\ kill \in BOOLEAN /\ strict \in BOOLEAN
  /\ saved \in Saved
  /\ stage \in Stages
  /\ service \in {"off", "on", "closing", "killed"}
  /\ wanted \in BOOLEAN /\ asked \in BOOLEAN

NoClients == [h \in Hops |-> "none"]

Init ==
  /\ pc = [s \in Slots |-> "done"]
  /\ fresh = [s \in Slots |-> FALSE]
  /\ via = [s \in Slots |-> "proxy"]
  /\ tun = [s \in Slots |-> "none"]
  /\ engine = [s \in Slots |-> "off"]
  /\ client = [s \in Slots |-> NoClients]
  /\ job = None /\ cancellable = FALSE
  /\ retries = 0 /\ timers = 0
  /\ attempt = None /\ watched = {} /\ collapsed = None
  /\ joining = None /\ queue = <<>>
  /\ stopper = "none" /\ stopping = None
  /\ chain = FALSE /\ protector = FALSE /\ blackhole = FALSE
  /\ carriers = 0 /\ config = "proxy" /\ kill = FALSE /\ strict = FALSE
  /\ saved = NotSaved
  /\ stage = "IDLE" /\ service = "off"
  /\ wanted = FALSE /\ asked = FALSE

-----------------------------------------------------------------------------
(* Parts shared by the handlers.                                           *)

Stale == [s \in Slots |-> FALSE]         \* generation += 1

\* stopCarrier: every client there is, is told to stop.
StopHops(c, hs) ==
  [s \in Slots |-> [h \in Hops |-> IF h \in hs /\ c[s][h] # "none" THEN "stopped"
                                   ELSE c[s][h]]]
AllStopped(c) == StopHops(c, Hops)

\* NativeAetherBridge.stop: reaches a run that has taken the engine's slot, and
\* no run that has been dispatched and has not taken it yet.
Stoppable == {"running", "ready"}
Halted == {"halted", "over"}
NativeStop(e) ==
  [s \in Slots |-> IF e[s] = "running" THEN "halted" ELSE IF e[s] = "ready" THEN "over"
                   ELSE e[s]]

\* Cancelling a session: one suspended in a coroutine ends there and then; one
\* inside a blocking call ends when that call returns.
Blocking == {"prepare", "run", "up", "chainStart", "nodes"}
Cancelled(p, s) ==
  IF s = None THEN p
  ELSE [p EXCEPT ![s] = CASE p[s] \in Blocking          -> "dying"
                          [] p[s] \in {"done", "dying"} -> p[s]
                          [] OTHER                      -> "done"]

\* if (sessionCancellable) sessionJob?.cancel()
AfterCancel == IF cancellable THEN Cancelled(pc, job) ELSE pc

Ended(p, s) == IF s = None THEN TRUE ELSE p[s] = "done"

\* A slot whose coroutine has ended, its engine too, or is parked for good: one
\* of an older generation that nothing refers to any more.
Free(p, s) ==
  /\ s # stopping /\ engine[s] = "off"
  /\ \/ p[s] = "done"
     \/ p[s] = "parked" /\ ~fresh[s] /\ s \notin {job, joining}

\* A session that was just launched, and then the next holder of the lock, run
\* on the main thread before anything else does.
Beginning == \E s \in Slots : pc[s] = "begin"
Waiting == joining = None /\ queue # <<>>
Turn == ~Beginning /\ ~Waiting

\* A free slot starts as the current session: sessionJob = launch { runSession }.
Launch(p, s) ==
  /\ Free(p, s)
  /\ pc' = [p EXCEPT ![s] = "begin"]
  /\ job' = s
  /\ cancellable' = FALSE
  /\ tun' = [tun EXCEPT ![s] = "none"]
  /\ via' = [via EXCEPT ![s] = RouteOf(carriers', config')]

-----------------------------------------------------------------------------
(* Commands.                                                               *)

\* replaceSession with commandMutex free, for a configuration, up to the join;
\* and past it when there is nothing to wait for.
ReplaceSession(g) ==
  LET p == AfterCancel IN
  /\ config' = g
  /\ retries' = 0 /\ timers' = 0
  /\ attempt' = None /\ watched' = {} /\ collapsed' = None
  /\ chain' = FALSE
  /\ client' = AllStopped(client)
  /\ IF Ended(p, job)
       THEN \E s \in Slots :
              /\ Launch(p, s)
              /\ fresh' = [Stale EXCEPT ![s] = TRUE]
              /\ UNCHANGED joining
       ELSE /\ pc' = p /\ fresh' = Stale
            /\ joining' = job
            /\ UNCHANGED <<via, tun, job, cancellable>>
  /\ engine' = NativeStop(engine)
  /\ UNCHANGED <<stopper, stopping, protector, blackhole>>

\* The join returned: read the generation again, launch, unlock.
JoinReturns ==
  /\ Turn /\ joining # None /\ Ended(pc, joining)
  /\ UNCHANGED requestVars
  /\ \E s \in Slots :
       /\ Launch(pc, s)
       /\ fresh' = [fresh EXCEPT ![s] = TRUE]
  /\ joining' = None
  /\ UNCHANGED <<engine, client, retryVars, queue, stopper, stopping, heldVars, serviceVars,
                 historyVars>>

\* The next replaceSession gets the lock, in the turn that released it.
Dequeue ==
  /\ ~Beginning /\ Waiting
  /\ queue' = Tail(queue)
  /\ UNCHANGED <<carriers, kill, strict, saved>>
  /\ ReplaceSession(Head(queue))
  /\ UNCHANGED <<serviceVars, historyVars>>

\* replaceSession: at once if the lock is free, or behind it.
Replace(g) ==
  IF joining = None
    THEN ReplaceSession(g) /\ UNCHANGED queue
    ELSE /\ queue' = Append(queue, g)
         /\ UNCHANGED <<sessionVars, retryVars, joining, stopper, stopping, heldVars,
                        config>>

\* onStartCommand with ACTION_START.  The fields of the request are written at
\* once, its configuration when replaceSession has the lock.
StartCommand ==
  /\ Turn /\ service # "closing" /\ (joining # None => Len(queue) < MaxQueued)
  /\ \E r \in Requests, k \in Switches :
       /\ carriers' = r[1] /\ kill' = k[1] /\ strict' = k[2] /\ asked' = k[1]
       /\ saved' = IF r[2] = "proxy" THEN NotSaved
                   ELSE [carriers |-> r[1], config |-> r[2], kill |-> k[1],
                         strict |-> k[2]]
       /\ Replace(r[2])
  /\ service' = "on"
  /\ wanted' = TRUE
  /\ UNCHANGED stage

\* Mutant: the restart comes back with both switches off.
RestoreForgetsSwitches ==
  /\ Turn /\ service \in {"off", "killed"} /\ saved # NotSaved
  /\ carriers' = saved.carriers /\ kill' = FALSE /\ strict' = FALSE
  /\ Replace(saved.config)
  /\ service' = "on"
  /\ UNCHANGED <<saved, stage, historyVars>>

\* onStartCommand with no action: Android restarting a sticky service, or
\* starting an always-on VPN.
RestoreCommand ==
  /\ Turn /\ service \in {"off", "killed"} /\ saved # NotSaved
  /\ carriers' = saved.carriers /\ kill' = saved.kill /\ strict' = saved.strict
  /\ Replace(saved.config)
  /\ service' = "on"
  /\ UNCHANGED <<saved, stage, historyVars>>

\* ... and nothing to restore: stopSelf.
RestoreNothing ==
  /\ Turn /\ service = "killed" /\ saved = NotSaved
  /\ service' = "off"
  /\ UNCHANGED <<sessionVars, retryVars, commandVars, heldVars, requestVars, stage,
                 historyVars>>

\* Mutant: the stop leaves the configuration on disk.
StopKeepsSaved ==
  /\ Turn /\ service = "on" /\ stopper = "none"
  /\ service' \in {service, "closing"}
  /\ stage' = "STOPPING"
  /\ fresh' = Stale /\ timers' = 0 /\ watched' = {}
  /\ engine' = NativeStop(engine)
  /\ pc' = AfterCancel
  /\ stopper' = "joining" /\ stopping' = job
  /\ wanted' = FALSE
  /\ UNCHANGED <<via, tun, client, job, cancellable, retries, attempt, collapsed,
                 joining, queue, heldVars, requestVars, asked>>

\* stopFromUser, by ACTION_STOP or onRevoke: outside the lock, up to the join.
\* After it super.onRevoke calls stopSelf, which waits for nothing.
StopCommand ==
  /\ Turn /\ service = "on" /\ stopper = "none"
  /\ service' \in {service, "closing"}
  /\ saved' = NotSaved
  /\ stage' = "STOPPING"
  /\ fresh' = Stale /\ timers' = 0 /\ watched' = {}
  /\ engine' = NativeStop(engine)
  /\ pc' = AfterCancel
  /\ stopper' = "joining" /\ stopping' = job
  /\ wanted' = FALSE
  /\ UNCHANGED <<via, tun, client, job, cancellable, retries, attempt, collapsed,
                 joining, queue, heldVars, carriers, config, kill, strict, asked>>

\* joinAll returned, or STOP_GRACE_MS passed; sessionJob = null, chain.stop()
\* off the main thread.
StopLeavesJob ==
  /\ stopper' = "closing" /\ stopping' = None
  /\ job' = None
  /\ chain' = FALSE
  /\ UNCHANGED <<pc, fresh, via, tun, engine, client, cancellable, retryVars, joining,
                 queue, protector, blackhole, requestVars, serviceVars, historyVars>>

StopJoined ==
  /\ Turn /\ stopper = "joining" /\ Ended(pc, stopping)
  /\ StopLeavesJob

\* Mutant: joinAll without the timeout.
StopWaitsForever == Turn /\ FALSE /\ StopLeavesJob

StopGraceExpires ==
  /\ Turn /\ stopper = "joining" /\ ~Ended(pc, stopping)
  /\ StopLeavesJob

\* The rest: carriers, the protector of whatever generation is current now,
\* and either the strict block or stopSelf.
StopFinishes ==
  /\ Turn /\ stopper = "closing"
  /\ stopper' = "none"
  /\ client' = AllStopped(client)
  /\ protector' = FALSE
  /\ stage' = "IDLE"
  /\ \E raised \in BOOLEAN :
       LET blocking == strict /\ (blackhole \/ raised) IN
       /\ blackhole' = (blackhole \/ blocking)
       /\ service' = IF blocking THEN service ELSE "closing"
  /\ UNCHANGED <<pc, fresh, via, tun, engine, job, cancellable, retryVars, joining,
                 queue, stopping, chain, requestVars, historyVars>>

\* ACTION_LIFT_BLOCK.
LiftBlock ==
  /\ Turn /\ blackhole /\ service = "on"
  /\ blackhole' = FALSE
  /\ strict' = FALSE
  /\ stage' = "IDLE"
  /\ service' = "closing"
  /\ UNCHANGED <<sessionVars, retryVars, commandVars, chain, protector, carriers,
                 config, kill, saved, historyVars>>

\* Everything in memory goes; a new service object starts from its defaults.
Teardown ==
  /\ pc' = [s \in Slots |-> "done"]
  /\ fresh' = Stale
  /\ via' = [s \in Slots |-> "proxy"]
  /\ tun' = [s \in Slots |-> "none"]
  /\ engine' = [s \in Slots |-> "off"]
  /\ client' = [s \in Slots |-> NoClients]
  /\ job' = None /\ cancellable' = FALSE
  /\ retries' = 0 /\ timers' = 0
  /\ attempt' = None /\ watched' = {} /\ collapsed' = None
  /\ joining' = None /\ queue' = <<>>
  /\ stopper' = "none" /\ stopping' = None
  /\ chain' = FALSE /\ protector' = FALSE /\ blackhole' = FALSE
  /\ carriers' = 0 /\ config' = "proxy" /\ kill' = FALSE /\ strict' = FALSE
  /\ UNCHANGED <<saved, historyVars>>

\* onDestroy.
Destroy ==
  /\ Turn /\ service = "closing"
  /\ service' = "off"
  /\ Teardown
  /\ UNCHANGED stage

\* The process dies under a running service.
ProcessDies ==
  /\ Turn /\ service = "on"
  /\ service' = "killed"
  /\ Teardown
  /\ stage' = "IDLE"

-----------------------------------------------------------------------------
(* Ways a session ends or goes on.                                         *)

\* Mutants of Retry: one attempt too many, no limit at all, no generation check.
RetryOffByOne(s, c, e, ch, pr) ==
  /\ fresh[s] /\ retries <= MaxRetries
  /\ retries' = retries + 1
  /\ timers' = IF timers < MaxTimers THEN timers + 1 ELSE timers
  /\ stage' = "CONNECTING"
  /\ client' = c /\ engine' = e /\ chain' = ch /\ protector' = pr
  /\ UNCHANGED <<fresh, job, watched, blackhole, saved, service, wanted>>

RetryForever(s, c, e, ch, pr) ==
  /\ timers' = IF fresh[s] /\ timers < MaxTimers THEN timers + 1 ELSE timers
  /\ stage' = IF fresh[s] THEN "CONNECTING" ELSE stage
  /\ client' = c /\ engine' = e /\ chain' = ch /\ protector' = pr
  /\ UNCHANGED <<fresh, job, retries, watched, blackhole, saved, service, wanted>>

RetryUnchecked(s, c, e, ch, pr) ==
  /\ timers' = IF timers < MaxTimers THEN timers + 1 ELSE timers
  /\ stage' = "CONNECTING"
  /\ client' = c /\ engine' = e /\ chain' = ch /\ protector' = pr
  /\ UNCHANGED <<fresh, job, retries, watched, blackhole, saved, service, wanted>>

\* scheduleReconnect and giveUp, after a cleanup that left the clients at c,
\* the engines at e, mihomo at ch and the protector at pr.
Retry(s, c, e, ch, pr) ==
  \/ /\ ~fresh[s]
     /\ client' = c /\ engine' = e /\ chain' = ch /\ protector' = pr
     /\ UNCHANGED <<fresh, job, retries, timers, watched, blackhole, saved, stage,
                    service, wanted>>
  \/ /\ fresh[s] /\ retries < MaxRetries
     /\ retries' = retries + 1
     /\ timers' = IF timers < MaxTimers THEN timers + 1 ELSE timers
     /\ stage' = "CONNECTING"
     /\ client' = c /\ engine' = e /\ chain' = ch /\ protector' = pr
     /\ UNCHANGED <<fresh, job, watched, blackhole, saved, service, wanted>>
  \/ /\ fresh[s] /\ retries = MaxRetries
     /\ fresh' = Stale /\ timers' = 0 /\ watched' = {}
     /\ saved' = NotSaved
     /\ \E raised \in BOOLEAN :
          LET blocking == kill /\ (blackhole \/ raised) IN
          /\ blackhole' = (blackhole \/ blocking)
          /\ service' = IF blocking THEN service ELSE "closing"
     /\ client' = AllStopped(c) /\ engine' = NativeStop(e)
     /\ chain' = FALSE /\ protector' = FALSE
     /\ job' = None
     /\ stage' = "ERROR"
     /\ wanted' = FALSE
     /\ UNCHANGED retries

\* clearSocketProtector(sessionGeneration)
ClearedProtector(s) == IF fresh[s] THEN FALSE ELSE protector

\* reportConnected: no generation is asked here.
ReportConnected ==
  /\ blackhole' = FALSE
  /\ stage' = "CONNECTED"

\* reportError and finishIfCurrent.
Refuse(s) ==
  /\ pc' = [pc EXCEPT ![s] = "done"]
  /\ stage' = "ERROR"
  /\ service' = IF fresh[s] THEN "closing" ELSE service

quiet == <<commandVars, carriers, config, kill, strict, asked>>

-----------------------------------------------------------------------------
(* runSession up to its first suspension.  Nothing can replace the session  *)
(* in between, so its generation checks there always pass.                  *)

\* Permission, the chain library, the mode or the interface: refused before
\* anything runs.  Dialled directly, the interface is raised after the protector is
\* installed, which stays.
BeginRefused(s) ==
  /\ pc[s] = "begin" /\ via[s] # "proxy"
  /\ Refuse(s)
  /\ protector' \in {protector, protector \/ via[s] = "direct"}
  /\ UNCHANGED <<fresh, via, tun, engine, client, job, cancellable, retryVars, chain,
                 blackhole, saved, wanted, quiet>>

\* The engine's routes: the protector is installed before prepare() probes.
BeginEngine(s) ==
  /\ pc[s] = "begin" /\ via[s] \in EngineRoutes
  /\ pc' = [pc EXCEPT ![s] = "prepare"]
  /\ protector' = (protector \/ via[s] # "proxy")
  /\ stage' = "PREPARING"
  /\ UNCHANGED <<fresh, via, tun, engine, client, job, cancellable, retryVars, chain,
                 blackhole, saved, service, wanted, quiet>>

\* An exit chain dialled directly: no engine, straight to chain.start.
BeginDirect(s) ==
  /\ pc[s] = "begin" /\ via[s] = "direct"
  /\ pc' = [pc EXCEPT ![s] = "chainStart"]
  /\ tun' = [tun EXCEPT ![s] = "detached"]
  /\ protector' = TRUE
  /\ stage' = "CONNECTING"
  /\ UNCHANGED <<fresh, via, engine, client, job, cancellable, retryVars, chain,
                 blackhole, saved, service, wanted, quiet>>

\* Mutant: the marker is kept for the generation, so a retry begins claimed.
BeginCarrierClaimed(s) ==
  /\ pc[s] = "begin" /\ via[s] \in CarrierRoutes
  /\ pc' = [pc EXCEPT ![s] = "hop1"]
  /\ tun' = [tun EXCEPT ![s] = "own"]
  /\ attempt' = s /\ watched' = {}
  /\ collapsed' = IF collapsed = None THEN None ELSE s
  /\ client' = [StopHops(client, {1}) EXCEPT ![s] = [NoClients EXCEPT ![1] = "connecting"]]
  /\ stage' = "CONNECTING"
  /\ UNCHANGED <<fresh, via, engine, job, cancellable, retries, timers, heldVars, saved,
                 service, wanted, quiet>>

\* A path of carriers: the interface, a new hop attempt, the first hop.  A new
\* client stops the older one of its carrier.
BeginCarrier(s) ==
  /\ pc[s] = "begin" /\ via[s] \in CarrierRoutes
  /\ pc' = [pc EXCEPT ![s] = "hop1"]
  /\ tun' = [tun EXCEPT ![s] = "own"]
  /\ attempt' = s /\ watched' = {} /\ collapsed' = None
  /\ client' = [StopHops(client, {1}) EXCEPT ![s] = [NoClients EXCEPT ![1] = "connecting"]]
  /\ stage' = "CONNECTING"
  /\ UNCHANGED <<fresh, via, engine, job, cancellable, retries, timers, heldVars, saved,
                 service, wanted, quiet>>

Begin(s) == BeginRefused(s) \/ BeginEngine(s) \/ BeginDirect(s) \/ BeginCarrier(s)

-----------------------------------------------------------------------------
(* The engine alone, and the engine below an exit chain.                   *)

\* prepare() returned a peer: nativeRun is dispatched to another thread.
PrepareReturns(s) ==
  /\ Turn /\ pc[s] = "prepare"
  /\ IF fresh[s]
       THEN /\ pc' = [pc EXCEPT ![s] = IF via[s] = "chain" THEN "engineWait" ELSE "run"]
            /\ tun' = [tun EXCEPT ![s] = CASE via[s] = "proxy"  -> "none"
                                          [] via[s] = "engine" -> "given"
                                          [] via[s] = "chain"  -> "own"]
            /\ engine' = [engine EXCEPT ![s] = "launched"]
            /\ protector' = (protector /\ via[s] # "proxy")
            /\ stage' = "CONNECTING"
       ELSE /\ pc' = [pc EXCEPT ![s] = "done"]
            /\ UNCHANGED <<tun, engine, protector, stage>>
  /\ UNCHANGED <<fresh, via, client, job, cancellable, retryVars, chain, blackhole,
                 saved, service, wanted, quiet>>

\* The interface could not be established, or the failure was conclusive (a
\* refused registration): no retry.
PrepareRefused(s) ==
  /\ Turn /\ pc[s] = "prepare"
  /\ Refuse(s)
  /\ UNCHANGED <<fresh, via, tun, engine, client, job, cancellable, retryVars, heldVars,
                 saved, wanted, quiet>>

PrepareFails(s) ==
  /\ Turn /\ pc[s] = "prepare"
  /\ pc' = [pc EXCEPT ![s] = "done"]
  /\ Retry(s, client, engine, chain, protector)
  /\ UNCHANGED <<via, tun, cancellable, attempt, collapsed, quiet>>

\* nativeRun takes the engine's slot; from here nativeStop can reach it.
EngineTakesSlot(s) ==
  /\ Turn /\ engine[s] = "launched" /\ \A t \in Slots : engine[t] \notin Stoppable
  /\ engine' = [engine EXCEPT ![s] = "running"]
  /\ UNCHANGED <<pc, fresh, via, tun, client, job, cancellable, retryVars, heldVars,
                 saved, serviceVars, wanted, quiet>>

\* onNativeReady, on the engine's own thread, once: also of a run that was told to
\* stop and has not seen it, whatever became of its session.
ReportsReady(s) ==
  /\ engine[s] \in {"running", "halted"}
  /\ engine' = [engine EXCEPT ![s] = IF @ = "running" THEN "ready" ELSE "over"]
  /\ retries' = 0

EngineReady(s) ==
  /\ Turn /\ via[s] # "chain" /\ ReportsReady(s)
  /\ pc' = IF pc[s] = "run" THEN [pc EXCEPT ![s] = "up"] ELSE pc
  /\ ReportConnected
  /\ UNCHANGED <<fresh, via, tun, client, job, cancellable, timers, attempt, watched,
                 collapsed, chain, protector, saved, service, wanted, quiet>>

\* Below an exit chain it is half way.
EngineReadyBelow(s) ==
  /\ Turn /\ via[s] = "chain" /\ ReportsReady(s)
  /\ pc' = IF pc[s] = "engineWait" THEN [pc EXCEPT ![s] = "engineUp"] ELSE pc
  /\ UNCHANGED <<fresh, via, tun, client, job, cancellable, timers, attempt, watched,
                 collapsed, heldVars, saved, serviceVars, wanted, quiet>>

\* nativeRun returned.  On its way out it takes the stop-sender slot, whichever
\* run's sender it holds by then.
Returned(s) == NativeStop([engine EXCEPT ![s] = "off"])

\* run() returned: it failed, the engine stopped, or it was stopped.
EngineReturns(s) ==
  /\ Turn /\ pc[s] \in {"run", "up"}
  /\ pc' = [pc EXCEPT ![s] = "done"]
  /\ tun' = [tun EXCEPT ![s] = "none"]
  /\ Retry(s, client, Returned(s), chain, ClearedProtector(s))
  /\ UNCHANGED <<via, cancellable, attempt, collapsed, quiet>>

\* The same below an exit chain, where the run is a coroutine of its own and
\* may outlive the session.
EngineEndsBelow(s) ==
  /\ Turn /\ via[s] = "chain" /\ engine[s] # "off"
  /\ engine' = Returned(s)
  /\ UNCHANGED <<pc, fresh, via, tun, client, job, cancellable, retryVars, heldVars,
                 saved, serviceVars, wanted, quiet>>

\* cleanUp of runChainSession stops whatever engine there is; then the retry.
ChainFails(s) ==
  /\ pc' = [pc EXCEPT ![s] = "done"]
  /\ tun' = [tun EXCEPT ![s] = IF tun[s] = "detached" THEN "detached" ELSE "none"]
  /\ Retry(s, client, NativeStop(engine), FALSE, ClearedProtector(s))
  /\ UNCHANGED <<via, cancellable, attempt, collapsed, quiet>>

\* The wait was answered; on to mihomo, unless the session was replaced.
EngineReached(s) ==
  /\ Turn /\ pc[s] = "engineUp" /\ fresh[s]
  /\ pc' = [pc EXCEPT ![s] = "chainStart"]
  /\ tun' = [tun EXCEPT ![s] = "detached"]
  /\ stage' = "CONNECTING"
  /\ UNCHANGED <<fresh, via, engine, client, job, cancellable, retryVars, heldVars,
                 saved, service, wanted, quiet>>

EngineReachedStale(s) ==
  /\ Turn /\ pc[s] = "engineUp" /\ ~fresh[s]
  /\ ChainFails(s)

\* TUNNEL_WAIT_MS passed, or the engine stopped before it was ready.
EngineWaitEnds(s) ==
  /\ Turn /\ pc[s] = "engineWait"
  /\ ChainFails(s)

\* engine.join() of a running exit chain.
ChainEngineReturns(s) ==
  /\ Turn /\ pc[s] = "chainUp" /\ engine[s] = "off"
  /\ ChainFails(s)

-----------------------------------------------------------------------------
(* Hops: carriers in processes of their own (Psiphon, Tor).                *)

HopOf(s) == IF pc[s] = "hop1" THEN 1 ELSE 2

\* client.start returned a port.  One that was stopped never does.
HopUp(s) ==
  /\ Turn /\ pc[s] \in {"hop1", "hop2"} /\ client[s][HopOf(s)] = "connecting" /\ fresh[s]
  /\ watched' = IF attempt = s THEN watched \cup {HopOf(s)} ELSE watched
  /\ IF HopOf(s) < NumHops(via[s])
       THEN /\ client' = [StopHops(client, {2}) EXCEPT
                            ![s] = [h \in Hops |-> IF h = 1 THEN "connected"
                                                   ELSE "connecting"]]
            /\ pc' = [pc EXCEPT ![s] = "hop2"]
            /\ UNCHANGED tun
       ELSE /\ client' = [client EXCEPT ![s][HopOf(s)] = "connected"]
            /\ pc' = [pc EXCEPT ![s] = "chainStart"]
            /\ tun' = [tun EXCEPT ![s] = "detached"]
  /\ stage' = "CONNECTING"
  /\ UNCHANGED <<fresh, via, engine, job, cancellable, retries, timers, attempt,
                 collapsed, heldVars, saved, service, wanted, quiet>>

HopUpStale(s) ==
  /\ Turn /\ pc[s] \in {"hop1", "hop2"} /\ client[s][HopOf(s)] = "connecting" /\ ~fresh[s]
  /\ client' = AllStopped(client)
  /\ pc' = [pc EXCEPT ![s] = "done"]
  /\ tun' = [tun EXCEPT ![s] = "none"]
  /\ UNCHANGED <<fresh, via, engine, job, cancellable, retryVars, heldVars, saved,
                 serviceVars, wanted, quiet>>

\* client.start failed or timed out: carriers stopped, interface closed, retry.
HopFails(s) ==
  /\ Turn /\ pc[s] \in {"hop1", "hop2"}
  /\ pc' = [pc EXCEPT ![s] = "done"]
  /\ tun' = [tun EXCEPT ![s] = "none"]
  /\ Retry(s, AllStopped(client), engine, chain, protector)
  /\ UNCHANGED <<via, cancellable, attempt, collapsed, quiet>>

\* A carrier that was up is gone: its process was killed, its tunnel gave up.
HopDies(s, h) ==
  /\ Turn /\ client[s][h] = "connected"
  /\ client' = [client EXCEPT ![s][h] = "failed"]
  /\ UNCHANGED <<pc, fresh, via, tun, engine, job, cancellable, retryVars, heldVars,
                 saved, serviceVars, wanted, quiet>>

\* A watcher of the current attempt sees its hop failed or stopped, and nobody
\* has claimed the collapse yet.
WatchHop(s, h) ==
  /\ Turn /\ s = attempt /\ h \in watched /\ fresh[s]
  /\ client[s][h] \in {"failed", "stopped"}
  /\ collapsed # s
  /\ collapsed' = s
  /\ Retry(s, AllStopped(client), engine, FALSE, protector)
  /\ UNCHANGED <<pc, via, tun, cancellable, attempt, quiet>>

-----------------------------------------------------------------------------
(* mihomo.                                                                 *)

\* Mutant: parked without sessionCancellable.
CarrierParksOnly(s) ==
  /\ Turn /\ pc[s] = "chainStart" /\ via[s] \in CarrierRoutes
  /\ pc' = [pc EXCEPT ![s] = "parked"]
  /\ tun' = [tun EXCEPT ![s] = "given"]
  /\ chain' = TRUE
  /\ retries' = 0
  /\ ReportConnected
  /\ UNCHANGED <<fresh, via, engine, client, job, cancellable, timers, attempt, watched,
                 collapsed, protector, saved, service, wanted, quiet>>

\* chain.startCarrier returned success: connected, and parked until cancelled.
CarrierStarted(s) ==
  /\ Turn /\ pc[s] = "chainStart" /\ via[s] \in CarrierRoutes
  /\ pc' = [pc EXCEPT ![s] = "parked"]
  /\ tun' = [tun EXCEPT ![s] = "given"]
  /\ chain' = TRUE
  /\ retries' = 0
  /\ ReportConnected
  /\ cancellable' = TRUE
  /\ UNCHANGED <<fresh, via, engine, client, job, timers, attempt, watched, collapsed,
                 protector, saved, service, wanted, quiet>>

\* ... or an error: the collapse is claimed before the hops are stopped.
CarrierChainFails(s) ==
  /\ Turn /\ pc[s] = "chainStart" /\ via[s] \in CarrierRoutes
  /\ collapsed' = s
  /\ pc' = [pc EXCEPT ![s] = "done"]
  /\ Retry(s, AllStopped(client), engine, FALSE, protector)
  /\ UNCHANGED <<via, tun, cancellable, attempt, quiet>>

\* chain.start returned success; the nodes are counted before it is reported.
ChainStarted(s) ==
  /\ Turn /\ pc[s] = "chainStart" /\ via[s] \notin CarrierRoutes
  /\ pc' = [pc EXCEPT ![s] = "nodes"]
  /\ tun' = [tun EXCEPT ![s] = "given"]
  /\ chain' = TRUE
  /\ UNCHANGED <<fresh, via, engine, client, job, cancellable, retryVars, protector,
                 blackhole, saved, serviceVars, wanted, quiet>>

\* Dialled directly there is no engine to wait for, and the session ends here.
NodesListed(s) ==
  /\ Turn /\ pc[s] = "nodes"
  /\ pc' = [pc EXCEPT ![s] = IF via[s] = "chain" THEN "chainUp" ELSE "done"]
  /\ ReportConnected
  /\ UNCHANGED <<fresh, via, tun, engine, client, job, cancellable, retryVars, chain,
                 protector, saved, service, wanted, quiet>>

\* chain.start returned an error.  The descriptor was detached for the call.
ChainStartFails(s) ==
  /\ Turn /\ pc[s] = "chainStart" /\ via[s] \notin CarrierRoutes
  /\ ChainFails(s)

\* A blocking call of a cancelled session returns: nativeRun as it ever does, or,
\* if no thread had taken it up, without having been called.
DyingEnds(s) ==
  /\ Turn /\ pc[s] = "dying"
  /\ pc' = [pc EXCEPT ![s] = "done"]
  /\ \/ (via[s] = "chain" \/ engine[s] = "off") /\ UNCHANGED engine
     \/ via[s] # "chain" /\ engine[s] # "off" /\ engine' = Returned(s)
     \/ via[s] # "chain" /\ engine[s] = "launched" /\ engine' = [engine EXCEPT ![s] = "off"]
  /\ UNCHANGED <<fresh, via, tun, client, job, cancellable, retryVars, heldVars, saved,
                 serviceVars, wanted, quiet>>

\* The reconnect delay is over: replaceParkedSession.
TimerFires ==
  /\ Turn /\ timers > 0
  /\ timers' = timers - 1
  /\ UNCHANGED <<saved, quiet>>
  /\ \E s \in Slots :
       /\ Launch(AfterCancel, s)
       /\ fresh' = [fresh EXCEPT ![s] = TRUE]
  /\ UNCHANGED <<engine, client, retries, attempt, watched, collapsed, heldVars, serviceVars,
                 wanted>>

-----------------------------------------------------------------------------
\* What a session does by itself once its call returns or its wait times out.
SessionStep(s) ==
  \/ PrepareReturns(s) \/ PrepareRefused(s) \/ PrepareFails(s)
  \/ EngineReached(s) \/ EngineReachedStale(s) \/ EngineWaitEnds(s)
  \/ HopUp(s) \/ HopUpStale(s) \/ HopFails(s)
  \/ CarrierStarted(s) \/ CarrierChainFails(s)
  \/ ChainStarted(s) \/ NodesListed(s) \/ ChainStartFails(s) \/ ChainEngineReturns(s)

\* What the engine and the carriers do.
Environment(s) ==
  \/ EngineTakesSlot(s) \/ EngineReady(s) \/ EngineReadyBelow(s)
  \/ EngineReturns(s) \/ EngineEndsBelow(s) \/ DyingEnds(s)
  \/ \E h \in Hops : HopDies(s, h)

Commands == StartCommand \/ StopCommand \/ LiftBlock \/ ProcessDies

ServiceStep ==
  \/ JoinReturns \/ RestoreCommand \/ RestoreNothing
  \/ StopJoined \/ StopGraceExpires \/ StopFinishes \/ Destroy \/ TimerFires

Next ==
  \/ Dequeue \/ Commands \/ ServiceStep
  \/ \E s \in Slots : \/ Begin(s) \/ SessionStep(s) \/ Environment(s)
                      \/ \E h \in Hops : WatchHop(s, h)

Spec == Init /\ [][Next]_vars

\* A call returns: it has a deadline of its own (the engine's is on its start),
\* or the engine was told to stop.
Returns(s) ==
  \/ SessionStep(s)
  \/ DyingEnds(s)
  \/ pc[s] = "run" /\ (EngineReady(s) \/ EngineReturns(s))
  \/ engine[s] \in Halted /\ EngineReturns(s)

\* Delays, joins, watchers and the system's calls into the service are not put
\* off for ever.  The command coroutines, once ready, stay ready, and the main
\* thread takes what is posted to it in order: a turn that keeps being somebody
\* else's does not starve them (SF).
FairSpec ==
  /\ Spec
  /\ WF_vars(Dequeue) /\ SF_vars(JoinReturns) /\ WF_vars(TimerFires)
  /\ SF_vars(StopJoined) /\ SF_vars(StopGraceExpires) /\ SF_vars(StopFinishes)
  /\ WF_vars(RestoreCommand) /\ WF_vars(RestoreNothing) /\ WF_vars(Destroy)
  /\ \A s \in Slots :
       /\ WF_vars(Begin(s)) /\ WF_vars(Returns(s))
       /\ WF_vars(engine[s] \in Halted /\ EngineEndsBelow(s))
       /\ \A h \in Hops : WF_vars(WatchHop(s, h))

-----------------------------------------------------------------------------
(* Properties.                                                             *)

\* A parked session is one replaceSession and stopFromUser will cancel, not one
\* they would wait on for ever with the command lock held.
ParkedIsCancellable ==
  job # None => (pc[job] = "parked" => cancellable)

\* While the user wants a session, the kill switch in memory is the one they
\* asked for, also after the process died and Android restarted the service.
KillSwitchSurvives ==
  (wanted /\ service = "on" /\ (job # None \/ timers > 0)) => kill = asked

\* What is on disk is only ever a session the user still wants: a sticky
\* restart never brings back one they stopped or the service gave up on.
NothingToResurrect == saved # NotSaved => wanted

\* One failure, one retry: of the current generation at most one thing is under
\* way, a session or the delay before the next.
Underway == {s \in Slots : fresh[s] /\ pc[s] \notin {"done", "parked"}}
OneAttempt == timers + Cardinality(Underway) <= 1

\* The current path, once it lost a hop, is never left up with nobody to notice:
\* a watcher is still to act on it, or the next attempt is on its way.
DeadPathNoticed ==
  \A s \in Slots, h \in Hops :
    (s = job /\ fresh[s] /\ pc[s] = "parked" /\ client[s][h] \in {"failed", "stopped"})
      => \/ attempt = s /\ h \in watched /\ collapsed # s
         \/ timers > 0
         \/ Underway # {}

\* A start command never waits for ever behind the command lock.
ReplaceCompletes == joining # None ~> joining = None

\* A stop finishes, whatever the session it waits for is doing.
StopCompletes == stopper # "none" ~> stopper = "none"

\* Left alone, a service that is connecting ends up connected or says it failed.
Calm == <>[][~Commands]_vars
Connecting == service = "on" /\ stage \in {"PREPARING", "CONNECTING"}
Settles == Calm => (Connecting ~> ~Connecting)
=============================================================================
