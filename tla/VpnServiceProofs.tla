--------------------------- MODULE VpnServiceProofs ---------------------------
(***************************************************************************)
(* What VpnService promises for any number of sessions, requests, retries, *)
(* queued commands and timers: what is on disk is what the user wants, the *)
(* kill switch is the one asked for, a parked session can be cancelled, a  *)
(* dead path is noticed, and, without carriers, one failure makes one      *)
(* retry.                                                                  *)
(***************************************************************************)
EXTENDS VpnService, FiniteSetTheorems, TLAPS

Clients == [Slots -> [Hops -> ClientStates]]
Engines == [Slots -> {"off", "launched", "running", "ready", "halted", "over"}]

\* TypeOK, in parts.
SessionTypes ==
  /\ pc \in [Slots -> Labels] /\ fresh \in [Slots -> BOOLEAN]
  /\ via \in [Slots -> AllRoutes]
  /\ tun \in [Slots -> {"none", "own", "detached", "given"}]
  /\ engine \in Engines /\ client \in Clients
  /\ job \in Slots \cup {None} /\ cancellable \in BOOLEAN
RetryTypes ==
  /\ retries \in 0..MaxRetries /\ timers \in 0..MaxTimers
  /\ attempt \in Slots \cup {None} /\ watched \subseteq Hops
  /\ collapsed \in Slots \cup {None}
CommandTypes ==
  /\ joining \in Slots \cup {None}
  /\ queue \in Seq(Configs) /\ Len(queue) <= MaxQueued
  /\ stopper \in {"none", "joining", "closing"} /\ stopping \in Slots \cup {None}
HeldTypes == chain \in BOOLEAN /\ protector \in BOOLEAN /\ blackhole \in BOOLEAN
RequestTypes ==
  /\ carriers \in 0..2 /\ config \in Configs
  /\ kill \in BOOLEAN /\ strict \in BOOLEAN /\ saved \in Saved
ServiceTypes ==
  /\ stage \in Stages /\ service \in {"off", "on", "closing", "killed"}
  /\ wanted \in BOOLEAN /\ asked \in BOOLEAN

\* The parts make the whole, and each is kept with its variables.
LEMMA Parts ==
  /\ TypeOK <=> /\ SessionTypes /\ RetryTypes /\ CommandTypes /\ HeldTypes /\ RequestTypes
                /\ ServiceTypes
  /\ TypeOK' <=> /\ SessionTypes' /\ RetryTypes' /\ CommandTypes' /\ HeldTypes'
                 /\ RequestTypes' /\ ServiceTypes'
  /\ SessionTypes /\ UNCHANGED sessionVars => SessionTypes'
  /\ RetryTypes /\ UNCHANGED retryVars => RetryTypes'
  /\ CommandTypes /\ UNCHANGED commandVars => CommandTypes'
  /\ HeldTypes /\ UNCHANGED heldVars => HeldTypes'
  /\ RequestTypes /\ UNCHANGED requestVars => RequestTypes'
  /\ ServiceTypes /\ UNCHANGED <<serviceVars, historyVars>> => ServiceTypes'
<1>1. TypeOK <=> /\ SessionTypes /\ RetryTypes /\ CommandTypes /\ HeldTypes /\ RequestTypes
                 /\ ServiceTypes
  BY DEF TypeOK, SessionTypes, RetryTypes, CommandTypes, HeldTypes, RequestTypes, ServiceTypes,
         Engines, Clients
<1>2. TypeOK' <=> /\ SessionTypes' /\ RetryTypes' /\ CommandTypes' /\ HeldTypes'
                  /\ RequestTypes' /\ ServiceTypes'
  BY DEF TypeOK, SessionTypes, RetryTypes, CommandTypes, HeldTypes, RequestTypes, ServiceTypes,
         Engines, Clients
<1>3. SessionTypes /\ UNCHANGED sessionVars => SessionTypes'
  BY DEF SessionTypes, sessionVars
<1>4. RetryTypes /\ UNCHANGED retryVars => RetryTypes'
  BY DEF RetryTypes, retryVars
<1>5. CommandTypes /\ UNCHANGED commandVars => CommandTypes'
  BY DEF CommandTypes, commandVars
<1>6. HeldTypes /\ UNCHANGED heldVars => HeldTypes'
  BY DEF HeldTypes, heldVars
<1>7. RequestTypes /\ UNCHANGED requestVars => RequestTypes'
  BY DEF RequestTypes, requestVars
<1>8. ServiceTypes /\ UNCHANGED <<serviceVars, historyVars>> => ServiceTypes'
  BY DEF ServiceTypes, serviceVars, historyVars
<1> QED
  BY <1>1, <1>2, <1>3, <1>4, <1>5, <1>6, <1>7, <1>8

-----------------------------------------------------------------------------
(* The operators.                                                          *)

\* Whatever is asked for has a route, and no carrier's unless carriers were asked
\* for.
LEMMA RoutesTyped ==
  ASSUME NEW c \in 0..2, NEW g \in Configs
  PROVE  /\ RouteOf(c, g) \in AllRoutes
         /\ c = 0 => RouteOf(c, g) = g
<1>1. CASE c = 0
  BY <1>1 DEF RouteOf, AllRoutes, EngineRoutes, Configs
<1>2. CASE c = 1
  BY <1>2 DEF RouteOf, AllRoutes, CarrierRoutes
<1>3. CASE c = 2
  BY <1>3 DEF RouteOf, AllRoutes, CarrierRoutes
<1> QED
  BY <1>1, <1>2, <1>3

\* Nothing saved is a value for what is saved.
LEMMA NotSavedTyped == NotSaved \in Saved
  BY DEF NotSaved, Saved, Configs

\* Telling clients to stop makes none.
LEMMA StoppingClients ==
  ASSUME NEW c \in Clients, NEW hs
  PROVE  /\ StopHops(c, hs) \in Clients
         /\ \A s \in Slots, h \in Hops : c[s][h] = "none" => StopHops(c, hs)[s][h] = "none"
  BY DEF StopHops, Clients, ClientStates

\* nativeStop, and a run that returns, leave runs.
LEMMA StoppingEngines ==
  ASSUME NEW e \in Engines, NEW s \in Slots
  PROVE  NativeStop(e) \in Engines /\ NativeStop([e EXCEPT ![s] = "off"]) \in Engines
  BY DEF NativeStop, Engines

\* A session that is cancelled is over, or will be when its call returns, and
\* cancelling touches no other.
LEMMA CancellingEnds ==
  ASSUME NEW p \in [Slots -> Labels], NEW s \in Slots \cup {None}
  PROVE  /\ Cancelled(p, s) \in [Slots -> Labels]
         /\ \A t \in Slots : t # s => Cancelled(p, s)[t] = p[t]
         /\ s # None => Cancelled(p, s)[s] \in {"done", "dying"}
         /\ s # None => (Cancelled(p, s)[s] = "dying" => p[s] \in Blocking \cup {"dying"})
<1> USE ConstantsAssumption
<1>1. CASE s = None
  BY <1>1 DEF Cancelled
<1>2. CASE s # None
  <2> DEFINE l == CASE p[s] \in Blocking          -> "dying"
                    [] p[s] \in {"done", "dying"} -> p[s]
                    [] OTHER                      -> "done"
  <2>1. Cancelled(p, s) = [p EXCEPT ![s] = l]
    BY <1>2 DEF Cancelled
  <2>2. l \in {"done", "dying"} /\ (l = "dying" => p[s] \in Blocking \cup {"dying"})
    <3>1. CASE p[s] \in Blocking
      BY <3>1 DEF Blocking
    <3>2. CASE p[s] \in {"done", "dying"}
      BY <3>2 DEF Blocking
    <3>3. CASE p[s] \notin Blocking /\ p[s] \notin {"done", "dying"}
      BY <3>3
    <3> QED
      BY <3>1, <3>2, <3>3
  <2> HIDE DEF l
  <2> QED
    BY <1>2, <2>1, <2>2 DEF Labels
<1> QED
  BY <1>1, <1>2

\* So are those of if (sessionCancellable).
LEMMA AfterCancelling ==
  ASSUME TypeOK
  PROVE  /\ AfterCancel \in [Slots -> Labels]
         /\ \A t \in Slots : t # job => AfterCancel[t] = pc[t]
         /\ \A t \in Slots : AfterCancel[t] \in {pc[t], "done", "dying"}
         /\ \A t \in Slots : AfterCancel[t] = "dying" => pc[t] \in Blocking \cup {"dying"}
         /\ cancellable /\ job # None => AfterCancel[job] \in {"done", "dying"}
<1>1. pc \in [Slots -> Labels] /\ job \in Slots \cup {None}
  BY DEF TypeOK
<1>2. CASE cancellable
  BY <1>1, <1>2, CancellingEnds DEF AfterCancel, Cancelled
<1>3. CASE ~cancellable
  BY <1>1, <1>3 DEF AfterCancel
<1> QED
  BY <1>2, <1>3 DEF TypeOK

-----------------------------------------------------------------------------
(* Types.                                                                  *)

\* Where a session can be on which route.
RouteFits(s) ==
  /\ pc[s] = "begin" => s = job
  /\ pc[s] = "prepare" => via[s] \in EngineRoutes
  /\ pc[s] \in {"engineWait", "engineUp", "chainUp"} => via[s] = "chain"
  /\ pc[s] \in {"hop1", "parked"} => via[s] \in CarrierRoutes
  /\ pc[s] = "hop2" => via[s] = "two"

\* No command waits for a service that is not there.
NobodyWaits == service \in {"off", "killed"} => joining = None /\ queue = << >>

\* A session that is launched starts at its beginning, on the route of the
\* request.
LEMMA LaunchTyped ==
  ASSUME TypeOK, NEW p \in [Slots -> Labels], NEW s \in Slots, Launch(p, s),
         carriers' \in 0..2, config' \in Configs
  PROVE  /\ pc' \in [Slots -> Labels] /\ pc'[s] = "begin" /\ \A t \in Slots \ {s} : pc'[t] = p[t]
         /\ via' \in [Slots -> AllRoutes] /\ via'[s] = RouteOf(carriers', config')
         /\ \A t \in Slots \ {s} : via'[t] = via[t]
         /\ tun' \in [Slots -> {"none", "own", "detached", "given"}]
         /\ job' = s /\ cancellable' = FALSE
  BY RoutesTyped DEF Launch, TypeOK, Labels

\* replaceSession keeps the types, with the lock ...
LEMMA ReplaceSessionTyped ==
  ASSUME TypeOK, NEW g \in Configs, ReplaceSession(g), carriers' \in 0..2,
         queue' \in Seq(Configs), Len(queue') <= MaxQueued,
         kill' \in BOOLEAN, strict' \in BOOLEAN, saved' \in Saved, stage' \in Stages,
         service' \in {"off", "on", "closing", "killed"}, wanted' \in BOOLEAN, asked' \in BOOLEAN
  PROVE  TypeOK'
<1> USE ConstantsAssumption
<1>1. engine' \in Engines /\ client' \in Clients
  <2>1. engine \in Engines /\ client \in Clients
    BY DEF TypeOK, Engines, Clients
  <2> QED
    BY <2>1, StoppingClients, StoppingEngines DEF ReplaceSession, AllStopped, NativeStop, Engines
<1>2. AfterCancel \in [Slots -> Labels] /\ config' \in Configs
  BY AfterCancelling DEF ReplaceSession
<1>3. /\ pc' \in [Slots -> Labels] /\ fresh' \in [Slots -> BOOLEAN]
      /\ via' \in [Slots -> AllRoutes] /\ job' \in Slots \cup {None} /\ cancellable' \in BOOLEAN
      /\ tun' \in [Slots -> {"none", "own", "detached", "given"}]
      /\ joining' \in Slots \cup {None}
  <2>1. CASE Ended(AfterCancel, job)
    <3>1. PICK s \in Slots : Launch(AfterCancel, s) /\ fresh' = [Stale EXCEPT ![s] = TRUE]
                             /\ UNCHANGED joining
      BY <2>1 DEF ReplaceSession
    <3> QED
      BY <1>2, <3>1, LaunchTyped DEF Stale, TypeOK
  <2>2. CASE ~Ended(AfterCancel, job)
    <3>1. pc' = AfterCancel /\ fresh' = Stale /\ joining' = job /\ UNCHANGED <<via, tun, job, cancellable>>
      BY <2>2 DEF ReplaceSession
    <3>2. fresh' \in [Slots -> BOOLEAN]
      BY <3>1 DEF Stale
    <3> QED
      BY <1>2, <3>1, <3>2 DEF TypeOK
  <2> QED
    BY <2>1, <2>2
<1>4. /\ retries' = 0 /\ timers' = 0 /\ attempt' = None /\ watched' = {} /\ collapsed' = None
      /\ chain' = FALSE /\ UNCHANGED <<stopper, stopping, protector, blackhole>>
  BY DEF ReplaceSession
<1>5. retries' \in 0..MaxRetries /\ timers' \in 0..MaxTimers
  BY <1>4
<1> QED
  BY <1>1, <1>2, <1>3, <1>4, <1>5 DEF TypeOK, Engines, Clients

\* ... or waiting for it.
LEMMA ReplaceTyped ==
  ASSUME TypeOK, NEW g \in Configs, Replace(g), carriers' \in 0..2,
         joining # None => Len(queue) < MaxQueued,
         kill' \in BOOLEAN, strict' \in BOOLEAN, saved' \in Saved, stage' \in Stages,
         service' \in {"off", "on", "closing", "killed"}, wanted' \in BOOLEAN, asked' \in BOOLEAN
  PROVE  TypeOK'
<1>1. CASE joining # None
  <2>1. /\ queue' = Append(queue, g)
        /\ UNCHANGED <<sessionVars, retryVars, joining, stopper, stopping, heldVars, config>>
    BY <1>1 DEF Replace
  <2>2. queue' \in Seq(Configs) /\ Len(queue') <= MaxQueued
    <3>1. queue \in Seq(Configs) /\ Len(queue) < MaxQueued /\ Len(queue) \in Nat /\ MaxQueued \in Nat
      BY <1>1, ConstantsAssumption DEF TypeOK
    <3>2. queue' \in Seq(Configs) /\ Len(queue') = Len(queue) + 1
      BY <2>1, <3>1
    <3> QED
      BY <3>1, <3>2
  <2> QED
    BY <2>1, <2>2 DEF TypeOK, sessionVars, retryVars, heldVars
<1>2. CASE joining = None
  <2>1. ReplaceSession(g) /\ UNCHANGED queue
    BY <1>2 DEF Replace
  <2> QED
    BY <2>1, ReplaceSessionTyped DEF TypeOK
<1> QED
  BY <1>1, <1>2

\* A service starts, or starts again, with nothing.
LEMMA TeardownTyped ==
  ASSUME TypeOK, Teardown, stage' \in Stages, service' \in {"off", "killed"}
  PROVE  TypeOK'
<1> USE ConstantsAssumption
<1>1. RetryTypes'
  BY DEF Teardown, RetryTypes
<1>2. CommandTypes'
  BY DEF Teardown, CommandTypes
<1>3. SessionTypes'
  <2>1. /\ pc' \in [Slots -> Labels] /\ fresh' \in [Slots -> BOOLEAN]
        /\ via' \in [Slots -> AllRoutes]
    BY DEF Teardown, Stale, Labels, AllRoutes, EngineRoutes
  <2>2. tun' \in [Slots -> {"none", "own", "detached", "given"}] /\ engine' \in Engines
    BY DEF Teardown, Engines
  <2>3. client' \in Clients
    BY DEF Teardown, Clients, NoClients, ClientStates
  <2>4. job' = None /\ cancellable' = FALSE
    BY DEF Teardown
  <2> QED
    BY <2>1, <2>2, <2>3, <2>4 DEF SessionTypes
<1>4. HeldTypes' /\ RequestTypes' /\ ServiceTypes'
  <2>1. RequestTypes /\ ServiceTypes
    BY Parts
  <2>2. /\ chain' = FALSE /\ protector' = FALSE /\ blackhole' = FALSE
        /\ carriers' = 0 /\ config' = "proxy" /\ kill' = FALSE /\ strict' = FALSE
        /\ saved' = saved /\ wanted' = wanted /\ asked' = asked
    BY DEF Teardown, historyVars
  <2>3. HeldTypes' /\ RequestTypes'
    <3>1. carriers' \in 0..2 /\ config' \in Configs /\ saved' \in Saved
      BY <2>1, <2>2 DEF RequestTypes, Configs
    <3>2. kill' \in BOOLEAN /\ strict' \in BOOLEAN
      BY <2>2
    <3> QED
      BY <2>2, <3>1, <3>2 DEF HeldTypes, RequestTypes
  <2> QED
    BY <2>1, <2>2, <2>3 DEF ServiceTypes
<1> QED
  BY <1>1, <1>2, <1>3, <1>4, Parts

\* Commands and what the service does on its own.
LEMMA CommandsTyped ==
  ASSUME TypeOK, NobodyWaits, Dequeue \/ Commands \/ ServiceStep
  PROVE  TypeOK'
<1> USE ConstantsAssumption
<1>0. /\ AfterCancel \in [Slots -> Labels] /\ Stale \in [Slots -> BOOLEAN]
      /\ NativeStop(engine) \in Engines /\ AllStopped(client) \in Clients
  <2>1. engine \in Engines /\ client \in Clients
    BY DEF TypeOK, Engines, Clients
  <2> QED
    BY <2>1, AfterCancelling, StoppingClients DEF AllStopped, NativeStop, Engines, Stale
<1>a. SessionTypes /\ RetryTypes /\ CommandTypes /\ HeldTypes /\ RequestTypes /\ ServiceTypes
  BY Parts
<1>1. CASE Dequeue
  <2>1. queue \in Seq(Configs) /\ queue # << >> /\ Len(queue) <= MaxQueued
    BY <1>1 DEF Dequeue, Waiting, TypeOK
  <2>2. Head(queue) \in Configs /\ Tail(queue) \in Seq(Configs) /\ Len(Tail(queue)) <= MaxQueued
    BY <2>1
  <2> QED
    BY <1>1, <2>2, ReplaceSessionTyped DEF Dequeue, TypeOK, serviceVars, historyVars
<1>2. CASE StartCommand
  <2>1. PICK r \in Requests, k \in Switches :
          /\ carriers' = r[1] /\ kill' = k[1] /\ strict' = k[2] /\ asked' = k[1]
          /\ saved' = IF r[2] = "proxy" THEN NotSaved
                      ELSE [carriers |-> r[1], config |-> r[2], kill |-> k[1],
                            strict |-> k[2]]
          /\ Replace(r[2])
    BY <1>2 DEF StartCommand
  <2>2. r[1] \in 0..2 /\ r[2] \in Configs /\ k[1] \in BOOLEAN /\ k[2] \in BOOLEAN
    OBVIOUS
  <2>3. saved' \in Saved
    BY <2>1, <2>2 DEF NotSaved, Saved, Configs
  <2> QED
    BY <1>2, <2>1, <2>2, <2>3, ReplaceTyped DEF StartCommand, TypeOK
<1>3. CASE RestoreCommand
  <2>1. /\ saved.carriers \in 0..2 /\ saved.config \in Configs
        /\ saved.kill \in BOOLEAN /\ saved.strict \in BOOLEAN
    BY DEF TypeOK, Saved
  <2>2. joining = None
    BY <1>3 DEF RestoreCommand, NobodyWaits
  <2> QED
    BY <1>3, <2>1, <2>2, ReplaceTyped DEF RestoreCommand, TypeOK, historyVars
<1>4. CASE RestoreNothing
  BY <1>a, <1>4, Parts DEF RestoreNothing, ServiceTypes, historyVars
<1>5. CASE StopCommand
  <2>1. SessionTypes'
    BY <1>0, <1>5, <1>a DEF StopCommand, SessionTypes
  <2>2. RetryTypes' /\ CommandTypes'
    BY <1>5, <1>a DEF StopCommand, RetryTypes, CommandTypes, SessionTypes
  <2>4. RequestTypes' /\ ServiceTypes' /\ HeldTypes'
    BY <1>5, <1>a, NotSavedTyped, Parts DEF StopCommand, RequestTypes, ServiceTypes, Stages
  <2> QED
    BY <2>1, <2>2, <2>4, Parts
<1>6. CASE LiftBlock
  <2>1. HeldTypes' /\ RequestTypes' /\ ServiceTypes'
    BY <1>6, <1>a DEF LiftBlock, HeldTypes, RequestTypes, ServiceTypes, historyVars, Stages
  <2> QED
    BY <1>6, <1>a, <2>1, Parts DEF LiftBlock
<1>7. CASE StopJoined \/ StopGraceExpires
  <2>1. StopLeavesJob
    BY <1>7 DEF StopJoined, StopGraceExpires
  <2>2. SessionTypes' /\ CommandTypes' /\ HeldTypes'
    BY <1>a, <2>1 DEF StopLeavesJob, SessionTypes, CommandTypes, HeldTypes
  <2> QED
    BY <1>a, <2>1, <2>2, Parts DEF StopLeavesJob
<1>8. CASE StopFinishes
  <2>1. PICK raised \in BOOLEAN :
          LET blocking == strict /\ (blackhole \/ raised) IN
          /\ blackhole' = (blackhole \/ blocking)
          /\ service' = IF blocking THEN service ELSE "closing"
    BY <1>8 DEF StopFinishes
  <2>2. blackhole' \in BOOLEAN /\ service' \in {"off", "on", "closing", "killed"}
    BY <2>1 DEF TypeOK
  <2>3. SessionTypes' /\ CommandTypes'
    BY <1>0, <1>8, <1>a DEF StopFinishes, SessionTypes, CommandTypes
  <2>4. HeldTypes' /\ ServiceTypes'
    BY <1>8, <1>a, <2>2 DEF StopFinishes, HeldTypes, ServiceTypes, Stages, historyVars
  <2> QED
    BY <1>8, <1>a, <2>3, <2>4, Parts DEF StopFinishes
<1>9. CASE Destroy
  BY <1>9, TeardownTyped DEF Destroy, TypeOK
<1>10. CASE ProcessDies
  BY <1>10, TeardownTyped DEF ProcessDies, Stages
<1>11. CASE JoinReturns
  <2>1. PICK s \in Slots : Launch(pc, s) /\ fresh' = [fresh EXCEPT ![s] = TRUE]
    BY <1>11 DEF JoinReturns
  <2>2. carriers' \in 0..2 /\ config' \in Configs
    BY <1>11 DEF JoinReturns, requestVars, TypeOK
  <2>3. SessionTypes'
    <3>1. pc \in [Slots -> Labels] /\ fresh' \in [Slots -> BOOLEAN]
      BY <1>a, <2>1 DEF SessionTypes
    <3>2. /\ pc' \in [Slots -> Labels] /\ via' \in [Slots -> AllRoutes] /\ job' = s
          /\ tun' \in [Slots -> {"none", "own", "detached", "given"}] /\ cancellable' = FALSE
      BY <2>1, <2>2, <3>1, LaunchTyped
    <3>3. engine' = engine /\ client' = client
      BY <1>11 DEF JoinReturns
    <3> QED
      BY <1>a, <3>1, <3>2, <3>3 DEF SessionTypes
  <2>4. CommandTypes'
    BY <1>11, <1>a DEF JoinReturns, CommandTypes
  <2> QED
    BY <1>11, <1>a, <2>3, <2>4, Parts DEF JoinReturns
<1>12. CASE TimerFires
  <2>1. PICK s \in Slots : Launch(AfterCancel, s) /\ fresh' = [fresh EXCEPT ![s] = TRUE]
    BY <1>12 DEF TimerFires
  <2>2. carriers' \in 0..2 /\ config' \in Configs
    BY <1>12 DEF TimerFires, quiet, TypeOK
  <2>3. SessionTypes'
    <3>1. fresh' \in [Slots -> BOOLEAN]
      BY <1>a, <2>1 DEF SessionTypes
    <3>2. /\ pc' \in [Slots -> Labels] /\ via' \in [Slots -> AllRoutes] /\ job' = s
          /\ tun' \in [Slots -> {"none", "own", "detached", "given"}] /\ cancellable' = FALSE
      BY <1>0, <2>1, <2>2, LaunchTyped
    <3>3. engine' = engine /\ client' = client
      BY <1>12 DEF TimerFires
    <3> QED
      BY <1>a, <3>1, <3>2, <3>3 DEF SessionTypes
  <2>4. RetryTypes'
    BY <1>12, <1>a DEF TimerFires, RetryTypes
  <2>5. RequestTypes' /\ ServiceTypes'
    BY <1>12, <1>a DEF TimerFires, RequestTypes, ServiceTypes, serviceVars, quiet
  <2> QED
    BY <1>12, <1>a, <2>3, <2>4, <2>5, Parts DEF TimerFires, quiet
<1> QED
  BY <1>1, <1>2, <1>3, <1>4, <1>5, <1>6, <1>7, <1>8, <1>9, <1>10, <1>11, <1>12
  DEF Commands, ServiceStep

\* A failure makes a retry, is of an older generation, or was the last allowed.
LEMMA RetryEffect ==
  ASSUME TypeOK, NEW s \in Slots, NEW c \in Clients, NEW e \in Engines, NEW ch, NEW pr,
         Retry(s, c, e, ch, pr)
  PROVE  /\ \/ /\ fresh' = fresh /\ job' = job /\ watched' = watched /\ saved' = saved
               /\ wanted' = wanted /\ service' = service /\ client' = c
               /\ timers' >= timers /\ (fresh[s] => timers' > 0)
            \/ /\ fresh' = Stale /\ job' = None /\ watched' = {} /\ saved' = NotSaved
               /\ wanted' = FALSE /\ service' \in {service, "closing"}
               /\ client' = AllStopped(c) /\ timers' = 0
         /\ \A t \in Slots, h \in Hops : c[t][h] = "none" => client'[t][h] = "none"
<1> USE ConstantsAssumption
<1>1. /\ fresh \in [Slots -> BOOLEAN] /\ timers \in 0..MaxTimers /\ retries \in 0..MaxRetries
  BY DEF TypeOK
<1>2. CASE ~fresh[s]
  BY <1>1, <1>2 DEF Retry
<1>3. CASE fresh[s] /\ retries < MaxRetries
  BY <1>1, <1>3 DEF Retry
<1>4. CASE fresh[s] /\ retries = MaxRetries
  <2>1. \A t \in Slots, h \in Hops : c[t][h] = "none" => AllStopped(c)[t][h] = "none"
    BY StoppingClients DEF AllStopped
  <2>2. service' \in {service, "closing"}
    BY <1>4 DEF Retry
  <2> QED
    BY <1>4, <2>1, <2>2 DEF Retry
<1>5. retries < MaxRetries \/ retries = MaxRetries
  BY <1>1
<1>6. fresh[s] \/ ~fresh[s]
  OBVIOUS
<1> QED
  BY <1>2, <1>3, <1>4, <1>5, <1>6

\* Whatever it is, the types stay.
LEMMA RetryTyped ==
  ASSUME TypeOK, NEW s \in Slots, NEW c \in Clients, NEW e \in Engines,
         NEW ch \in BOOLEAN, NEW pr \in BOOLEAN, Retry(s, c, e, ch, pr),
         pc' \in [Slots -> Labels], via' = via, cancellable' = cancellable,
         tun' \in [Slots -> {"none", "own", "detached", "given"}],
         attempt' = attempt, collapsed' \in Slots \cup {None}, UNCHANGED quiet
  PROVE  TypeOK'
<1> USE ConstantsAssumption
<1>1. SessionTypes /\ RetryTypes /\ CommandTypes /\ HeldTypes /\ RequestTypes /\ ServiceTypes
  BY Parts
<1>2. client' \in Clients /\ engine' \in Engines
  BY StoppingClients, StoppingEngines DEF Retry, AllStopped, NativeStop, Engines
<1>3. chain' \in BOOLEAN /\ protector' \in BOOLEAN /\ blackhole' \in BOOLEAN
  <2>1. blackhole \in BOOLEAN /\ kill \in BOOLEAN
    BY DEF TypeOK
  <2> QED
    BY <2>1 DEF Retry
<1>4. SessionTypes'
  <2>1. fresh' \in [Slots -> BOOLEAN] /\ job' \in Slots \cup {None}
    <3>1. \/ fresh' = fresh /\ job' = job
          \/ fresh' = Stale /\ job' = None
      BY RetryEffect
    <3> QED
      BY <1>1, <3>1 DEF SessionTypes, Stale
  <2> QED
    BY <1>1, <1>2, <2>1 DEF SessionTypes
<1>5. RetryTypes'
  <2>1. retries' \in 0..MaxRetries /\ timers' \in 0..MaxTimers
    BY <1>1 DEF Retry, RetryTypes
  <2>2. watched' \subseteq Hops
    BY <1>1, RetryEffect DEF RetryTypes
  <2> QED
    BY <1>1, <2>1, <2>2 DEF RetryTypes
<1>6. RequestTypes' /\ CommandTypes'
  <2>1. saved' \in Saved
    <3>1. saved' = saved \/ saved' = NotSaved
      BY RetryEffect
    <3> QED
      BY <1>1, <3>1, NotSavedTyped DEF RequestTypes
  <2> QED
    BY <1>1, <2>1, Parts DEF RequestTypes, quiet
<1>7. ServiceTypes'
  <2>1. stage' \in Stages
    BY <1>1 DEF Retry, ServiceTypes, Stages
  <2> QED
    BY <1>1, <2>1, RetryEffect DEF ServiceTypes, quiet
<1>8. HeldTypes'
  BY <1>3 DEF HeldTypes
<1> QED
  BY <1>4, <1>5, <1>6, <1>7, <1>8, Parts

\* A session begins.
LEMMA BeginTyped ==
  ASSUME TypeOK, NEW s \in Slots, Begin(s)
  PROVE  TypeOK'
<1> USE ConstantsAssumption
<1>1. SessionTypes /\ RetryTypes /\ CommandTypes /\ HeldTypes /\ RequestTypes /\ ServiceTypes
  BY Parts
<1>2. UNCHANGED quiet => CommandTypes'
  BY <1>1, Parts DEF quiet
<1>3. UNCHANGED <<quiet, saved>> => RequestTypes'
  BY <1>1 DEF quiet, RequestTypes
<1>4. CASE BeginRefused(s)
  <2>1. SessionTypes'
    BY <1>1, <1>4 DEF BeginRefused, Refuse, SessionTypes, Labels
  <2>2. ServiceTypes'
    BY <1>1, <1>4 DEF BeginRefused, Refuse, ServiceTypes, Stages, quiet
  <2>3. HeldTypes'
    BY <1>1, <1>4 DEF BeginRefused, HeldTypes
  <2> QED
    BY <1>1, <1>2, <1>3, <1>4, <2>1, <2>2, <2>3, Parts DEF BeginRefused
<1>5. CASE BeginEngine(s)
  <2>1. SessionTypes'
    BY <1>1, <1>5 DEF BeginEngine, SessionTypes, Labels
  <2>2. ServiceTypes' /\ HeldTypes'
    BY <1>1, <1>5 DEF BeginEngine, ServiceTypes, HeldTypes, Stages, quiet
  <2> QED
    BY <1>1, <1>2, <1>3, <1>5, <2>1, <2>2, Parts DEF BeginEngine
<1>6. CASE BeginDirect(s)
  <2>1. SessionTypes'
    BY <1>1, <1>6 DEF BeginDirect, SessionTypes, Labels
  <2>2. ServiceTypes' /\ HeldTypes'
    BY <1>1, <1>6 DEF BeginDirect, ServiceTypes, HeldTypes, Stages, quiet
  <2> QED
    BY <1>1, <1>2, <1>3, <1>6, <2>1, <2>2, Parts DEF BeginDirect
<1>7. CASE BeginCarrier(s)
  <2>1. client' \in Clients
    <3>1. StopHops(client, {1}) \in Clients
      BY <1>1, StoppingClients DEF SessionTypes
    <3>2. [NoClients EXCEPT ![1] = "connecting"] \in [Hops -> ClientStates]
      BY DEF NoClients, ClientStates
    <3> QED
      BY <1>7, <3>1, <3>2 DEF BeginCarrier, Clients
  <2>2. SessionTypes'
    BY <1>1, <1>7, <2>1 DEF BeginCarrier, SessionTypes, Labels
  <2>3. RetryTypes'
    BY <1>1, <1>7 DEF BeginCarrier, RetryTypes
  <2>4. ServiceTypes'
    BY <1>1, <1>7 DEF BeginCarrier, ServiceTypes, Stages, quiet
  <2> QED
    BY <1>1, <1>2, <1>3, <1>7, <2>2, <2>3, <2>4, Parts DEF BeginCarrier
<1> QED
  BY <1>4, <1>5, <1>6, <1>7 DEF Begin

\* The cleanup of an exit chain, and its retry.
LEMMA ChainFailsTyped ==
  ASSUME TypeOK, NEW s \in Slots, ChainFails(s)
  PROVE  TypeOK'
<1>1. SessionTypes /\ RetryTypes /\ HeldTypes
  BY Parts
<1>2. NativeStop(engine) \in Engines /\ ClearedProtector(s) \in BOOLEAN /\ FALSE \in BOOLEAN
      /\ client \in Clients
  BY <1>1 DEF NativeStop, Engines, ClearedProtector, SessionTypes, HeldTypes
<1>3. /\ pc' \in [Slots -> Labels]
      /\ tun' \in [Slots -> {"none", "own", "detached", "given"}]
      /\ via' = via /\ cancellable' = cancellable /\ attempt' = attempt
      /\ collapsed' \in Slots \cup {None} /\ UNCHANGED quiet
  BY <1>1 DEF ChainFails, SessionTypes, RetryTypes, Labels
<1>4. Retry(s, client, NativeStop(engine), FALSE, ClearedProtector(s))
  BY DEF ChainFails
<1> QED
  BY <1>2, <1>3, <1>4, RetryTyped

\* What a session does when a call returns.
LEMMA SessionStepTyped ==
  ASSUME TypeOK, NEW s \in Slots, RouteFits(s), SessionStep(s)
  PROVE  TypeOK'
<1> USE ConstantsAssumption
<1>1. SessionTypes /\ RetryTypes /\ CommandTypes /\ HeldTypes /\ RequestTypes /\ ServiceTypes
  BY Parts
<1>2. UNCHANGED quiet => CommandTypes'
  BY <1>1, Parts DEF quiet
<1>3. UNCHANGED <<quiet, saved>> => RequestTypes'
  BY <1>1 DEF quiet, RequestTypes
<1>4. \A x \in Labels : [pc EXCEPT ![s] = x] \in [Slots -> Labels]
  BY <1>1 DEF SessionTypes
<1>5. client \in Clients /\ AllStopped(client) \in Clients /\ engine \in Engines
  BY <1>1, StoppingClients DEF SessionTypes, AllStopped
<1>6. CASE PrepareReturns(s)
  <2>1. CASE fresh[s]
    <3>1. via[s] \in EngineRoutes
      BY <1>6 DEF PrepareReturns, RouteFits
    <3>2. tun' \in [Slots -> {"none", "own", "detached", "given"}]
      BY <1>1, <1>6, <2>1, <3>1 DEF PrepareReturns, SessionTypes, EngineRoutes
    <3>3. pc' \in [Slots -> Labels] /\ engine' \in Engines
      BY <1>1, <1>4, <1>6, <2>1 DEF PrepareReturns, SessionTypes, Labels, Engines
    <3>4. SessionTypes'
      BY <1>1, <1>6, <3>2, <3>3 DEF PrepareReturns, SessionTypes
    <3>5. HeldTypes' /\ ServiceTypes'
      BY <1>1, <1>6, <2>1 DEF PrepareReturns, HeldTypes, ServiceTypes, Stages, quiet
    <3> QED
      BY <1>1, <1>2, <1>3, <1>6, <3>4, <3>5, Parts DEF PrepareReturns
  <2>2. CASE ~fresh[s]
    <3>1. SessionTypes'
      BY <1>1, <1>6, <2>2 DEF PrepareReturns, SessionTypes, Labels
    <3>2. HeldTypes' /\ ServiceTypes'
      BY <1>1, <1>6, <2>2 DEF PrepareReturns, HeldTypes, ServiceTypes, quiet
    <3> QED
      BY <1>1, <1>2, <1>3, <1>6, <3>1, <3>2, Parts DEF PrepareReturns
  <2> QED
    BY <2>1, <2>2
<1>7. CASE PrepareRefused(s)
  <2>1. SessionTypes'
    BY <1>1, <1>7 DEF PrepareRefused, Refuse, SessionTypes, Labels
  <2>2. ServiceTypes'
    BY <1>1, <1>7 DEF PrepareRefused, Refuse, ServiceTypes, Stages, quiet
  <2> QED
    BY <1>1, <1>2, <1>3, <1>7, <2>1, <2>2, Parts DEF PrepareRefused
<1>8. CASE PrepareFails(s)
  <2>1. Retry(s, client, engine, chain, protector)
    BY <1>8 DEF PrepareFails
  <2>2. /\ pc' \in [Slots -> Labels] /\ UNCHANGED <<via, tun, cancellable, attempt, collapsed, quiet>>
    BY <1>4, <1>8 DEF PrepareFails, Labels
  <2> QED
    BY <1>1, <1>5, <2>1, <2>2, RetryTyped DEF SessionTypes, RetryTypes, HeldTypes
<1>9. CASE EngineReached(s)
  <2>1. SessionTypes'
    BY <1>1, <1>9 DEF EngineReached, SessionTypes, Labels
  <2>2. ServiceTypes'
    BY <1>1, <1>9 DEF EngineReached, ServiceTypes, Stages, quiet
  <2> QED
    BY <1>1, <1>2, <1>3, <1>9, <2>1, <2>2, Parts DEF EngineReached
<1>10. CASE EngineReachedStale(s) \/ EngineWaitEnds(s) \/ ChainStartFails(s) \/ ChainEngineReturns(s)
  BY <1>10, ChainFailsTyped
  DEF EngineReachedStale, EngineWaitEnds, ChainStartFails, ChainEngineReturns
<1>11. CASE HopUp(s)
  <2>1. pc' \in [Slots -> Labels] /\ tun' \in [Slots -> {"none", "own", "detached", "given"}]
    BY <1>1, <1>4, <1>11 DEF HopUp, SessionTypes, Labels
  <2>2. client' \in Clients
    <3>1. CASE HopOf(s) < NumHops(via[s])
      <4> DEFINE both == [h \in Hops |-> IF h = 1 THEN "connected" ELSE "connecting"]
      <4>1. StopHops(client, {2}) \in Clients /\ both \in [Hops -> ClientStates]
        BY <1>5, StoppingClients DEF ClientStates
      <4>2. client' = [StopHops(client, {2}) EXCEPT ![s] = both]
        BY <1>11, <3>1 DEF HopUp
      <4> HIDE DEF both
      <4> QED
        BY <4>1, <4>2 DEF Clients
    <3>2. CASE ~(HopOf(s) < NumHops(via[s]))
      <4>1. client' = [client EXCEPT ![s][HopOf(s)] = "connected"]
        BY <1>11, <3>2 DEF HopUp
      <4>2. "connected" \in ClientStates /\ HopOf(s) \in Hops
        BY DEF ClientStates, HopOf, Hops
      <4> QED
        BY <1>5, <4>1, <4>2 DEF Clients
    <3> QED
      BY <3>1, <3>2
  <2>3. SessionTypes'
    BY <1>1, <1>11, <2>1, <2>2 DEF HopUp, SessionTypes
  <2>4. RetryTypes'
    BY <1>1, <1>11 DEF HopUp, RetryTypes, HopOf, Hops
  <2>5. ServiceTypes'
    BY <1>1, <1>11 DEF HopUp, ServiceTypes, Stages, quiet
  <2> QED
    BY <1>1, <1>2, <1>3, <1>11, <2>3, <2>4, <2>5, Parts DEF HopUp
<1>12. CASE HopUpStale(s)
  <2>1. SessionTypes'
    BY <1>1, <1>5, <1>12 DEF HopUpStale, SessionTypes, Labels
  <2>2. ServiceTypes'
    BY <1>1, <1>12 DEF HopUpStale, ServiceTypes, serviceVars, quiet
  <2> QED
    BY <1>1, <1>2, <1>3, <1>12, <2>1, <2>2, Parts DEF HopUpStale
<1>13. CASE HopFails(s)
  <2>1. Retry(s, AllStopped(client), engine, chain, protector)
    BY <1>13 DEF HopFails
  <2>2. /\ pc' \in [Slots -> Labels] /\ UNCHANGED <<via, cancellable, attempt, collapsed, quiet>>
        /\ tun' \in [Slots -> {"none", "own", "detached", "given"}]
    BY <1>1, <1>4, <1>13 DEF HopFails, SessionTypes, Labels
  <2> QED
    BY <1>1, <1>5, <2>1, <2>2, RetryTyped DEF RetryTypes, HeldTypes
<1>14. CASE CarrierStarted(s)
  <2>1. SessionTypes'
    BY <1>1, <1>14 DEF CarrierStarted, SessionTypes, Labels
  <2>2. ServiceTypes' /\ HeldTypes'
    BY <1>1, <1>14 DEF CarrierStarted, ReportConnected, ServiceTypes, HeldTypes, Stages, quiet
  <2>3. RetryTypes'
    BY <1>1, <1>14 DEF CarrierStarted, RetryTypes
  <2> QED
    BY <1>1, <1>2, <1>3, <1>14, <2>1, <2>2, <2>3, Parts DEF CarrierStarted
<1>15. CASE CarrierChainFails(s)
  <2>1. PICK off \in BOOLEAN : Retry(s, AllStopped(client), engine, off, protector)
    BY <1>15 DEF CarrierChainFails
  <2>2. /\ pc' \in [Slots -> Labels] /\ via' = via /\ cancellable' = cancellable
        /\ attempt' = attempt /\ collapsed' \in Slots \cup {None} /\ UNCHANGED quiet
        /\ tun' \in [Slots -> {"none", "own", "detached", "given"}]
    BY <1>1, <1>4, <1>15 DEF CarrierChainFails, Labels, SessionTypes
  <2>3. protector \in BOOLEAN
    BY <1>1 DEF HeldTypes
  <2> QED
    BY <1>5, <2>1, <2>2, <2>3, RetryTyped
<1>16. CASE ChainStarted(s)
  <2>1. SessionTypes'
    BY <1>1, <1>16 DEF ChainStarted, SessionTypes, Labels
  <2>2. ServiceTypes' /\ HeldTypes'
    BY <1>1, <1>16 DEF ChainStarted, ServiceTypes, HeldTypes, serviceVars, quiet
  <2> QED
    BY <1>1, <1>2, <1>3, <1>16, <2>1, <2>2, Parts DEF ChainStarted
<1>17. CASE NodesListed(s)
  <2>1. SessionTypes'
    BY <1>1, <1>17 DEF NodesListed, SessionTypes, Labels
  <2>2. ServiceTypes' /\ HeldTypes'
    BY <1>1, <1>17 DEF NodesListed, ReportConnected, ServiceTypes, HeldTypes, Stages, quiet
  <2> QED
    BY <1>1, <1>2, <1>3, <1>17, <2>1, <2>2, Parts DEF NodesListed
<1> QED
  BY <1>6, <1>7, <1>8, <1>9, <1>10, <1>11, <1>12, <1>13, <1>14, <1>15, <1>16, <1>17
  DEF SessionStep

\* What the engine, the carriers and the watchers of hops do.
LEMMA EnvironmentTyped ==
  ASSUME TypeOK, NEW s \in Slots, Environment(s) \/ \E h \in Hops : WatchHop(s, h)
  PROVE  TypeOK'
<1> USE ConstantsAssumption
<1>1. SessionTypes /\ RetryTypes /\ CommandTypes /\ HeldTypes /\ RequestTypes /\ ServiceTypes
  BY Parts
<1>2. UNCHANGED quiet => CommandTypes'
  BY <1>1, Parts DEF quiet
<1>3. UNCHANGED <<quiet, saved>> => RequestTypes'
  BY <1>1 DEF quiet, RequestTypes
<1>4. client \in Clients /\ AllStopped(client) \in Clients /\ engine \in Engines
  BY <1>1, StoppingClients DEF SessionTypes, AllStopped
<1>5. Returned(s) \in Engines
  BY <1>4, StoppingEngines DEF Returned
<1>6. UNCHANGED <<serviceVars, wanted, quiet>> => ServiceTypes'
  BY <1>1, Parts DEF ServiceTypes, serviceVars, quiet
<1>7. CASE EngineTakesSlot(s)
  <2>1. SessionTypes'
    BY <1>1, <1>7 DEF EngineTakesSlot, SessionTypes, Engines
  <2> QED
    BY <1>1, <1>2, <1>3, <1>6, <1>7, <2>1, Parts DEF EngineTakesSlot
<1>8. CASE EngineReady(s)
  <2>0. engine' \in Engines /\ pc' \in [Slots -> Labels]
    <3>1. engine \in Engines /\ pc \in [Slots -> Labels]
      BY <1>1, <1>4 DEF SessionTypes
    <3>2. engine' \in Engines
      BY <1>8, <3>1 DEF EngineReady, ReportsReady, Engines
    <3> QED
      BY <1>8, <3>1, <3>2 DEF EngineReady, Labels
  <2>1. SessionTypes'
    BY <1>1, <1>8, <2>0 DEF EngineReady, SessionTypes
  <2>2. ServiceTypes' /\ HeldTypes'
    BY <1>1, <1>8 DEF EngineReady, ReportConnected, ServiceTypes, HeldTypes, Stages, quiet
  <2>3. RetryTypes'
    BY <1>1, <1>8 DEF EngineReady, ReportsReady, RetryTypes
  <2> QED
    BY <1>1, <1>2, <1>3, <1>8, <2>1, <2>2, <2>3, Parts DEF EngineReady
<1>9. CASE EngineReadyBelow(s)
  <2>0. engine' \in Engines /\ pc' \in [Slots -> Labels]
    <3>1. engine \in Engines /\ pc \in [Slots -> Labels]
      BY <1>1, <1>4 DEF SessionTypes
    <3>2. engine' \in Engines
      BY <1>9, <3>1 DEF EngineReadyBelow, ReportsReady, Engines
    <3> QED
      BY <1>9, <3>1, <3>2 DEF EngineReadyBelow, Labels
  <2>1. SessionTypes'
    BY <1>1, <1>9, <2>0 DEF EngineReadyBelow, SessionTypes
  <2>2. RetryTypes'
    BY <1>1, <1>9 DEF EngineReadyBelow, ReportsReady, RetryTypes
  <2> QED
    BY <1>1, <1>2, <1>3, <1>6, <1>9, <2>1, <2>2, Parts DEF EngineReadyBelow
<1>10. CASE EngineReturns(s)
  <2>1. Retry(s, client, Returned(s), chain, ClearedProtector(s))
    BY <1>10 DEF EngineReturns
  <2>2. /\ pc' \in [Slots -> Labels] /\ UNCHANGED <<via, cancellable, attempt, collapsed, quiet>>
        /\ tun' \in [Slots -> {"none", "own", "detached", "given"}]
    BY <1>1, <1>10 DEF EngineReturns, SessionTypes, Labels
  <2>3. ClearedProtector(s) \in BOOLEAN /\ chain \in BOOLEAN /\ collapsed \in Slots \cup {None}
    BY <1>1 DEF ClearedProtector, HeldTypes, RetryTypes
  <2> QED
    BY <1>4, <1>5, <2>1, <2>2, <2>3, RetryTyped
<1>11. CASE EngineEndsBelow(s)
  <2>1. SessionTypes'
    BY <1>1, <1>5, <1>11 DEF EngineEndsBelow, SessionTypes
  <2> QED
    BY <1>1, <1>2, <1>3, <1>6, <1>11, <2>1, Parts DEF EngineEndsBelow
<1>12. CASE DyingEnds(s)
  <2>1. engine' \in Engines
    BY <1>4, <1>5, <1>12 DEF DyingEnds, Engines
  <2>2. SessionTypes'
    BY <1>1, <1>12, <2>1 DEF DyingEnds, SessionTypes, Labels
  <2> QED
    BY <1>1, <1>2, <1>3, <1>6, <1>12, <2>2, Parts DEF DyingEnds
<1>13. ASSUME NEW h \in Hops, HopDies(s, h)
       PROVE  TypeOK'
  <2>1. client' \in Clients
    BY <1>4, <1>13 DEF HopDies, Clients, ClientStates
  <2>2. SessionTypes'
    BY <1>1, <1>13, <2>1 DEF HopDies, SessionTypes
  <2> QED
    BY <1>1, <1>2, <1>3, <1>6, <1>13, <2>2, Parts DEF HopDies
<1>14. ASSUME NEW h \in Hops, WatchHop(s, h)
       PROVE  TypeOK'
  <2>1. PICK off \in BOOLEAN : Retry(s, AllStopped(client), engine, off, protector)
    BY <1>14 DEF WatchHop
  <2>2. /\ pc' \in [Slots -> Labels] /\ via' = via /\ cancellable' = cancellable
        /\ attempt' = attempt /\ collapsed' \in Slots \cup {None} /\ UNCHANGED quiet
        /\ tun' \in [Slots -> {"none", "own", "detached", "given"}]
    BY <1>1, <1>14 DEF WatchHop, SessionTypes
  <2>3. protector \in BOOLEAN
    BY <1>1 DEF HeldTypes
  <2> QED
    BY <1>4, <2>1, <2>2, <2>3, RetryTyped
<1> QED
  BY <1>7, <1>8, <1>9, <1>10, <1>11, <1>12, <1>13, <1>14 DEF Environment

\* Where a path of carriers is current.
OnPath(s) == pc[s] \in {"hop1", "hop2", "chainStart", "parked"} /\ via[s] \in CarrierRoutes

\* A path of one carrier has no second client.
SecondUnused(s) == OnPath(s) /\ via[s] = "one" => client[s][2] = "none"

\* The current path has the attempt; its hops are watched from when they are up,
\* and when its collapse has been claimed the next attempt is on its way.
PathWatched(s) ==
  s = job /\ fresh[s] /\ OnPath(s) =>
    /\ attempt = s
    /\ collapsed = s => timers > 0
    /\ pc[s] # "hop1" => 1 \in watched
    /\ pc[s] \in {"chainStart", "parked"} /\ via[s] = "two" => 2 \in watched

\* The switch in memory is the one asked for while the service runs; what is on
\* disk is wanted, and has that switch.
Wishes ==
  /\ service = "on" => kill = asked
  /\ saved # NotSaved => saved.kill = asked /\ wanted

Inv ==
  /\ TypeOK
  /\ NobodyWaits
  /\ \A s \in Slots : RouteFits(s)
  /\ Wishes
  /\ ParkedIsCancellable
  /\ \A s \in Slots : SecondUnused(s)
  /\ \A s \in Slots : PathWatched(s)

-----------------------------------------------------------------------------
(* Steps of the service itself.                                            *)

\* Sessions stay where they are, end, or begin as the job.
Moves ==
  \A t \in Slots : \/ pc'[t] = pc[t] /\ via'[t] = via[t] /\ pc[t] # "begin"
                   \/ pc'[t] \in {"done", "dying"}
                   \/ pc'[t] = "begin" /\ t = job'

\* No client is made.
MakesNoClient ==
  \A t \in Slots : client[t][2] = "none" => client'[t][2] = "none"

\* The job stays as cancellable as it was, is given up, or begins.
JobKept ==
  \/ job' = job /\ cancellable' = cancellable
  \/ job' = None
  \/ pc'[job'] = "begin"

\* The current path, if it goes on, is watched as before.
PathKept ==
  \A t \in Slots : t = job' /\ fresh'[t] /\ pc'[t] \notin {"begin", "done", "dying"} =>
    /\ job = t /\ fresh[t]
    /\ attempt' = attempt /\ watched' = watched /\ collapsed' = collapsed /\ timers' = timers

CommandFrame == Moves /\ MakesNoClient /\ JobKept /\ PathKept

\* A launched session is the job, and nobody else begins.
LEMMA Framed ==
  ASSUME NEW s \in Slots, pc'[s] = "begin", job' = s,
         \A t \in Slots : pc[t] # "begin",
         NEW p, \A t \in Slots : p[t] \in {pc[t], "done", "dying"},
         \A t \in Slots \ {s} : pc'[t] = p[t] /\ via'[t] = via[t],
         \A t \in Slots : client[t][2] = "none" => client'[t][2] = "none"
  PROVE  CommandFrame
<1>1. Moves
  <2> SUFFICES ASSUME NEW t \in Slots
               PROVE  \/ pc'[t] = pc[t] /\ via'[t] = via[t] /\ pc[t] # "begin"
                      \/ pc'[t] \in {"done", "dying"}
                      \/ pc'[t] = "begin" /\ t = job'
    BY DEF Moves
  <2>1. CASE t = s
    BY <2>1
  <2>2. CASE t # s
    BY <2>2
  <2> QED
    BY <2>1, <2>2
<1>2. JobKept /\ PathKept
  BY DEF JobKept, PathKept
<1> QED
  BY <1>1, <1>2 DEF CommandFrame, MakesNoClient

\* replaceSession is such a step.
LEMMA ReplaceSessionFrame ==
  ASSUME TypeOK, ~Beginning, NEW g \in Configs, ReplaceSession(g), carriers' \in 0..2
  PROVE  CommandFrame
<1>1. /\ pc \in [Slots -> Labels] /\ job \in Slots \cup {None} /\ client \in Clients
      /\ AfterCancel \in [Slots -> Labels] /\ config' \in Configs
  BY AfterCancelling DEF TypeOK, Clients, ReplaceSession
<1>2. \A t \in Slots : pc[t] # "begin" /\ AfterCancel[t] \in {pc[t], "done", "dying"}
  BY AfterCancelling DEF Beginning
<1>3. \A t \in Slots : client[t][2] = "none" => client'[t][2] = "none"
  BY <1>1, StoppingClients DEF ReplaceSession, AllStopped, Hops
<1>4. CASE Ended(AfterCancel, job)
  <2>1. PICK s \in Slots : Launch(AfterCancel, s) /\ fresh' = [Stale EXCEPT ![s] = TRUE]
    BY <1>4 DEF ReplaceSession
  <2>2. /\ pc'[s] = "begin" /\ job' = s
        /\ \A t \in Slots \ {s} : pc'[t] = AfterCancel[t] /\ via'[t] = via[t]
    BY <1>1, <2>1, LaunchTyped
  <2> QED
    BY <1>2, <1>3, <2>2, Framed
<1>5. CASE ~Ended(AfterCancel, job)
  <2>1. pc' = AfterCancel /\ fresh' = Stale /\ UNCHANGED <<via, job, cancellable>>
    BY <1>5 DEF ReplaceSession
  <2>2. PathKept /\ JobKept
    BY <2>1 DEF PathKept, JobKept, Stale
  <2>3. Moves
    BY <1>2, <2>1 DEF Moves
  <2> QED
    BY <1>3, <2>2, <2>3 DEF CommandFrame, MakesNoClient
<1> QED
  BY <1>4, <1>5

\* So is every command and everything else the service does.
LEMMA CommandsFrame ==
  ASSUME TypeOK, NobodyWaits, Dequeue \/ Commands \/ ServiceStep
  PROVE  CommandFrame
<1> USE ConstantsAssumption
<1>1. /\ pc \in [Slots -> Labels] /\ job \in Slots \cup {None} /\ client \in Clients
      /\ AfterCancel \in [Slots -> Labels] /\ fresh \in [Slots -> BOOLEAN]
  BY AfterCancelling DEF TypeOK, Clients
<1>2. \A t \in Slots : AfterCancel[t] \in {pc[t], "done", "dying"}
  BY AfterCancelling
<1>3. ~Beginning => \A t \in Slots : pc[t] # "begin"
  BY DEF Beginning
<1>4. ~Beginning /\ UNCHANGED <<sessionVars, retryVars>> => CommandFrame
  <2> SUFFICES ASSUME ~Beginning, UNCHANGED <<sessionVars, retryVars>>
               PROVE  CommandFrame
    OBVIOUS
  <2>1. UNCHANGED <<pc, fresh, via, client, job, cancellable, timers, attempt, watched, collapsed>>
    BY DEF sessionVars, retryVars
  <2>2. Moves /\ MakesNoClient
    BY <1>3, <2>1 DEF Moves, MakesNoClient
  <2>3. JobKept /\ PathKept
    BY <2>1 DEF JobKept, PathKept
  <2> QED
    BY <2>2, <2>3 DEF CommandFrame
<1>5. ASSUME NEW g \in Configs, Turn, Replace(g), carriers' \in 0..2
      PROVE  CommandFrame
  <2>1. CASE joining = None
    BY <1>5, <2>1, ReplaceSessionFrame DEF Replace, Turn
  <2>2. CASE joining # None
    BY <1>4, <1>5, <2>2 DEF Replace, Turn
  <2> QED
    BY <2>1, <2>2
<1>6. CASE Dequeue
  <2>1. queue \in Seq(Configs) /\ queue # << >> /\ carriers \in 0..2
    BY <1>6 DEF Dequeue, Waiting, TypeOK
  <2>2. Head(queue) \in Configs
    BY <2>1
  <2> QED
    BY <1>6, <2>1, <2>2, ReplaceSessionFrame DEF Dequeue
<1>7. CASE StartCommand
  <2>1. PICK r \in Requests : carriers' = r[1] /\ Replace(r[2])
    BY <1>7 DEF StartCommand
  <2>2. r[1] \in 0..2 /\ r[2] \in Configs
    OBVIOUS
  <2> QED
    BY <1>5, <1>7, <2>1, <2>2 DEF StartCommand
<1>8. CASE RestoreCommand
  <2>1. saved.carriers \in 0..2 /\ saved.config \in Configs
    BY DEF TypeOK, Saved
  <2> QED
    BY <1>5, <1>8, <2>1 DEF RestoreCommand
<1>9. CASE RestoreNothing \/ LiftBlock
  BY <1>4, <1>9 DEF RestoreNothing, LiftBlock, Turn
<1>10. CASE StopCommand
  <2>1. ~Beginning /\ pc' = AfterCancel /\ fresh' = Stale /\ UNCHANGED <<via, client, job, cancellable>>
    BY <1>10 DEF StopCommand, Turn
  <2>2. PathKept /\ JobKept
    BY <2>1 DEF PathKept, JobKept, Stale
  <2>3. Moves /\ MakesNoClient
    BY <1>2, <1>3, <2>1 DEF Moves, MakesNoClient
  <2> QED
    BY <2>2, <2>3 DEF CommandFrame
<1>11. CASE StopJoined \/ StopGraceExpires
  <2>1. ~Beginning /\ job' = None /\ UNCHANGED <<pc, via, client>>
    BY <1>11 DEF StopJoined, StopGraceExpires, StopLeavesJob, Turn
  <2>2. PathKept /\ JobKept
    BY <2>1 DEF PathKept, JobKept
  <2>3. Moves /\ MakesNoClient
    BY <1>3, <2>1 DEF Moves, MakesNoClient
  <2> QED
    BY <2>2, <2>3 DEF CommandFrame
<1>12. CASE StopFinishes
  <2>1. \A t \in Slots : client[t][2] = "none" => client'[t][2] = "none"
    BY <1>1, <1>12, StoppingClients DEF StopFinishes, AllStopped, Hops
  <2>2. /\ ~Beginning
        /\ UNCHANGED <<pc, fresh, via, job, cancellable, timers, attempt, watched, collapsed>>
    BY <1>12 DEF StopFinishes, Turn, retryVars
  <2>3. PathKept /\ JobKept
    BY <2>2 DEF PathKept, JobKept
  <2>4. Moves
    BY <1>3, <2>2 DEF Moves
  <2> QED
    BY <2>1, <2>3, <2>4 DEF CommandFrame, MakesNoClient
<1>13. CASE Destroy \/ ProcessDies
  <2>1. Teardown
    BY <1>13 DEF Destroy, ProcessDies
  <2>2. pc' = [s \in Slots |-> "done"] /\ job' = None /\ client' = [s \in Slots |-> NoClients]
    BY <2>1 DEF Teardown
  <2>3. PathKept /\ JobKept
    BY <2>2 DEF PathKept, JobKept
  <2>4. Moves
    BY <2>2 DEF Moves
  <2>5. MakesNoClient
    BY <2>2 DEF MakesNoClient, NoClients, Hops
  <2> QED
    BY <2>3, <2>4, <2>5 DEF CommandFrame
<1>14. CASE JoinReturns
  <2>1. PICK s \in Slots : Launch(pc, s) /\ fresh' = [fresh EXCEPT ![s] = TRUE]
    BY <1>14 DEF JoinReturns
  <2>2. carriers' \in 0..2 /\ config' \in Configs /\ client' = client /\ ~Beginning
    BY <1>14 DEF JoinReturns, requestVars, TypeOK, Turn
  <2>3. /\ pc'[s] = "begin" /\ job' = s
        /\ \A t \in Slots \ {s} : pc'[t] = pc[t] /\ via'[t] = via[t]
    BY <1>1, <2>1, <2>2, LaunchTyped
  <2> QED
    BY <1>3, <2>2, <2>3, Framed
<1>15. CASE TimerFires
  <2>1. PICK s \in Slots : Launch(AfterCancel, s)
    BY <1>15 DEF TimerFires
  <2>2. carriers' \in 0..2 /\ config' \in Configs /\ client' = client /\ ~Beginning
    BY <1>15 DEF TimerFires, quiet, TypeOK, Turn
  <2>3. /\ pc'[s] = "begin" /\ job' = s
        /\ \A t \in Slots \ {s} : pc'[t] = AfterCancel[t] /\ via'[t] = via[t]
    BY <1>1, <2>1, <2>2, LaunchTyped
  <2> QED
    BY <1>2, <1>3, <2>2, <2>3, Framed
<1> QED
  BY <1>6, <1>7, <1>8, <1>9, <1>10, <1>11, <1>12, <1>13, <1>14, <1>15 DEF Commands, ServiceStep

\* What such a step keeps.
LEMMA FramedCommands ==
  ASSUME Inv, TypeOK', CommandFrame
  PROVE  /\ ParkedIsCancellable'
         /\ \A s \in Slots : RouteFits(s)' /\ SecondUnused(s)' /\ PathWatched(s)'
<1> USE ConstantsAssumption
<1>1. ParkedIsCancellable'
  <2>1. job' # None => job' \in Slots
    BY DEF TypeOK
  <2> QED
    BY <2>1 DEF Inv, CommandFrame, JobKept, Moves, ParkedIsCancellable
<1>2. ASSUME NEW s \in Slots
      PROVE  RouteFits(s)' /\ SecondUnused(s)' /\ PathWatched(s)'
  <2>1. RouteFits(s) /\ SecondUnused(s) /\ PathWatched(s)
    BY DEF Inv
  <2>2. RouteFits(s)'
    BY <2>1 DEF CommandFrame, Moves, RouteFits
  <2>3. SecondUnused(s)'
    BY <2>1 DEF CommandFrame, Moves, MakesNoClient, SecondUnused, OnPath
  <2>4. PathWatched(s)'
    BY <2>1 DEF CommandFrame, Moves, PathKept, PathWatched, OnPath
  <2> QED
    BY <2>2, <2>3, <2>4
<1> QED
  BY <1>1, <1>2

\* What the user asked for, and that nobody waits for a service that is not there.
LEMMA CommandWishes ==
  ASSUME TypeOK, NobodyWaits, Wishes, Dequeue \/ Commands \/ ServiceStep
  PROVE  NobodyWaits' /\ Wishes'
<1>1. CASE Dequeue
  BY <1>1 DEF Dequeue, NobodyWaits, Wishes, Waiting, serviceVars, historyVars
<1>2. CASE StartCommand
  <2>1. PICK r \in Requests, k \in Switches :
          /\ kill' = k[1] /\ asked' = k[1]
          /\ saved' = IF r[2] = "proxy" THEN NotSaved
                      ELSE [carriers |-> r[1], config |-> r[2], kill |-> k[1],
                            strict |-> k[2]]
    BY <1>2 DEF StartCommand
  <2>2. saved' # NotSaved => saved'.kill = k[1]
    BY <2>1
  <2> QED
    BY <1>2, <2>1, <2>2 DEF StartCommand, NobodyWaits, Wishes
<1>3. CASE RestoreCommand
  BY <1>3 DEF RestoreCommand, NobodyWaits, Wishes, historyVars
<1>4. CASE RestoreNothing
  BY <1>4 DEF RestoreNothing, NobodyWaits, Wishes, commandVars, requestVars, historyVars
<1>5. CASE StopCommand
  BY <1>5 DEF StopCommand, NobodyWaits, Wishes
<1>6. CASE LiftBlock
  BY <1>6 DEF LiftBlock, NobodyWaits, Wishes, historyVars
<1>7. CASE StopJoined \/ StopGraceExpires
  BY <1>7 DEF StopJoined, StopGraceExpires, StopLeavesJob, NobodyWaits, Wishes, requestVars,
              serviceVars, historyVars
<1>8. CASE StopFinishes
  <2>1. service' \in {service, "closing"}
    BY <1>8 DEF StopFinishes
  <2> QED
    BY <1>8, <2>1 DEF StopFinishes, NobodyWaits, Wishes, requestVars, historyVars
<1>9. CASE Destroy \/ ProcessDies
  BY <1>9 DEF Destroy, ProcessDies, Teardown, NobodyWaits, Wishes, historyVars
<1>10. CASE JoinReturns
  BY <1>10 DEF JoinReturns, NobodyWaits, Wishes, requestVars, serviceVars, historyVars
<1>11. CASE TimerFires
  BY <1>11 DEF TimerFires, NobodyWaits, Wishes, commandVars, serviceVars, quiet
<1> QED
  BY <1>1, <1>2, <1>3, <1>4, <1>5, <1>6, <1>7, <1>8, <1>9, <1>10, <1>11 DEF Commands, ServiceStep

-----------------------------------------------------------------------------
(* Steps of a session, of its engine, its carriers and its watchers.       *)

\* Nothing happens to the other sessions.
OthersKept(s) ==
  \A t \in Slots \ {s} : /\ pc'[t] = pc[t] /\ via'[t] = via[t]
                         /\ client[t][2] = "none" => client'[t][2] = "none"

\* The path of the others, if it is current, stays watched: the session acts for
\* its own attempt, or gives up the generation.
PathGoesOn(s) ==
  \/ fresh' = Stale /\ job' = None /\ ~Beginning
  \/ /\ fresh' = fresh /\ job' = job
     /\ \/ pc[s] = "begin"
        \/ /\ timers' >= timers /\ watched \subseteq watched' /\ attempt' = attempt
           /\ collapsed' \in {collapsed, s}

SessionFrame(s) == OthersKept(s) /\ PathGoesOn(s) /\ (cancellable => cancellable')

\* The user's wishes, and what was asked of the service, stay or are withdrawn.
WishFrame ==
  /\ UNCHANGED quiet
  /\ service' \in {service, "closing"}
  /\ \/ saved' = saved /\ wanted' = wanted
     \/ saved' = NotSaved

\* What a session keeps for itself.
Own(s) ==
  /\ RouteFits(s)' /\ SecondUnused(s)' /\ PathWatched(s)'
  /\ job' = s /\ pc'[s] = "parked" => cancellable'

\* One that ends keeps everything.
LEMMA EndedOwn ==
  ASSUME NEW s, pc'[s] \in {"done", "dying"}
  PROVE  Own(s)
  BY DEF Own, RouteFits, SecondUnused, PathWatched, OnPath

\* So does one that is not on a path of carriers.
LEMMA OffPathOwn ==
  ASSUME NEW s, RouteFits(s)', ~OnPath(s)', pc'[s] # "parked"
  PROVE  Own(s)
  BY DEF Own, SecondUnused, PathWatched

\* A retry leaves the other sessions alone.
LEMMA RetryFrame ==
  ASSUME TypeOK, Turn, NEW s \in Slots, NEW c \in Clients, NEW e \in Engines, NEW ch, NEW pr,
         Retry(s, c, e, ch, pr), c \in {client, AllStopped(client)},
         NEW l, pc' = [pc EXCEPT ![s] = l] \/ pc' = pc,
         UNCHANGED <<via, cancellable, attempt, quiet>>, collapsed' \in {collapsed, s}
  PROVE  SessionFrame(s) /\ WishFrame
<1>1. pc \in [Slots -> Labels] /\ client \in Clients /\ timers \in Nat
  BY ConstantsAssumption DEF TypeOK, Clients
<1>2. OthersKept(s)
  <2>1. \A t \in Slots : client[t][2] = "none" => c[t][2] = "none"
    BY <1>1, StoppingClients DEF AllStopped, Hops
  <2>2. \A t \in Slots : c[t][2] = "none" => client'[t][2] = "none"
    <3>1. \A t \in Slots, h \in Hops : c[t][h] = "none" => client'[t][h] = "none"
      BY RetryEffect
    <3> QED
      BY <3>1 DEF Hops
  <2> QED
    BY <1>1, <2>1, <2>2 DEF OthersKept
<1>3. PathGoesOn(s)
  BY <1>1, RetryEffect DEF PathGoesOn, Turn
<1>4. WishFrame
  BY RetryEffect DEF WishFrame
<1> QED
  BY <1>2, <1>3, <1>4 DEF SessionFrame

\* A session that begins does, and watches its own path from the start.
LEMMA BeginFramed ==
  ASSUME Inv, NEW s \in Slots, Begin(s)
  PROVE  SessionFrame(s) /\ WishFrame /\ Own(s)
<1> USE ConstantsAssumption
<1>1. pc \in [Slots -> Labels] /\ client \in Clients /\ RouteFits(s) /\ via[s] \in AllRoutes
  BY DEF Inv, TypeOK, Clients
<1>2. CASE BeginRefused(s)
  <2>1. pc'[s] = "done" /\ OthersKept(s)
    BY <1>1, <1>2 DEF BeginRefused, Refuse, OthersKept
  <2>2. PathGoesOn(s) /\ (cancellable => cancellable') /\ WishFrame
    BY <1>2 DEF BeginRefused, Refuse, PathGoesOn, WishFrame
  <2> QED
    BY <2>1, <2>2, EndedOwn DEF SessionFrame
<1>3. CASE BeginEngine(s)
  <2>1. pc'[s] = "prepare" /\ OthersKept(s) /\ via'[s] = via[s] /\ via[s] \in EngineRoutes
    BY <1>1, <1>3 DEF BeginEngine, OthersKept
  <2>2. PathGoesOn(s) /\ (cancellable => cancellable') /\ WishFrame
    BY <1>3 DEF BeginEngine, PathGoesOn, WishFrame
  <2>3. RouteFits(s)' /\ ~OnPath(s)'
    BY <2>1 DEF RouteFits, OnPath
  <2> QED
    BY <2>1, <2>2, <2>3, OffPathOwn DEF SessionFrame
<1>4. CASE BeginDirect(s)
  <2>1. pc'[s] = "chainStart" /\ OthersKept(s) /\ via'[s] = "direct"
    BY <1>1, <1>4 DEF BeginDirect, OthersKept
  <2>2. PathGoesOn(s) /\ (cancellable => cancellable') /\ WishFrame
    BY <1>4 DEF BeginDirect, PathGoesOn, WishFrame
  <2>3. RouteFits(s)' /\ ~OnPath(s)'
    BY <2>1 DEF RouteFits, OnPath, CarrierRoutes
  <2> QED
    BY <2>1, <2>2, <2>3, OffPathOwn DEF SessionFrame
<1>5. CASE BeginCarrier(s)
  <2>1. pc'[s] = "hop1" /\ via'[s] = via[s] /\ via[s] \in CarrierRoutes
    BY <1>1, <1>5 DEF BeginCarrier
  <2>2. client'[s] = [NoClients EXCEPT ![1] = "connecting"]
        /\ \A t \in Slots \ {s} : client'[t] = StopHops(client, {1})[t]
    <3>1. StopHops(client, {1}) \in Clients
      BY <1>1, StoppingClients
    <3> QED
      BY <1>5, <3>1 DEF BeginCarrier, Clients
  <2>3. OthersKept(s)
    <3>1. \A t \in Slots : client[t][2] = "none" => StopHops(client, {1})[t][2] = "none"
      BY <1>1, StoppingClients DEF Hops
    <3> QED
      BY <1>1, <1>5, <2>2, <3>1 DEF BeginCarrier, OthersKept
  <2>4. PathGoesOn(s) /\ (cancellable => cancellable') /\ WishFrame
    BY <1>5 DEF BeginCarrier, PathGoesOn, WishFrame
  <2>5. RouteFits(s)'
    BY <2>1 DEF RouteFits
  <2>6. SecondUnused(s)'
    BY <2>2 DEF SecondUnused, NoClients, Hops
  <2>7. PathWatched(s)'
    BY <1>5, <2>1 DEF BeginCarrier, PathWatched
  <2> QED
    BY <2>1, <2>3, <2>4, <2>5, <2>6, <2>7 DEF SessionFrame, Own
<1> QED
  BY <1>2, <1>3, <1>4, <1>5 DEF Begin

\* So do the cleanup of an exit chain and its retry.
LEMMA ChainFailsFramed ==
  ASSUME TypeOK, Turn, NEW s \in Slots, ChainFails(s)
  PROVE  SessionFrame(s) /\ WishFrame /\ Own(s)
<1>1. pc \in [Slots -> Labels] /\ client \in Clients /\ NativeStop(engine) \in Engines
  BY DEF TypeOK, Clients, Engines, NativeStop
<1>2. /\ pc' = [pc EXCEPT ![s] = "done"]
      /\ UNCHANGED <<via, cancellable, attempt, collapsed, quiet>>
      /\ Retry(s, client, NativeStop(engine), FALSE, ClearedProtector(s))
  BY DEF ChainFails
<1>3. PICK off : Retry(s, client, NativeStop(engine), off, ClearedProtector(s))
  BY <1>2
<1>4. SessionFrame(s) /\ WishFrame
  BY <1>1, <1>2, <1>3, RetryFrame
<1> QED
  BY <1>1, <1>2, <1>4, EndedOwn

\* And every other step of a session.
LEMMA SessionStepFramed ==
  ASSUME Inv, NEW s \in Slots, SessionStep(s)
  PROVE  SessionFrame(s) /\ WishFrame /\ Own(s)
<1> USE ConstantsAssumption
<1>1. /\ pc \in [Slots -> Labels] /\ client \in Clients /\ engine \in Engines
      /\ RouteFits(s) /\ SecondUnused(s) /\ PathWatched(s) /\ TypeOK
      /\ timers \in Nat /\ AllStopped(client) \in Clients
  BY StoppingClients DEF Inv, TypeOK, Clients, Engines, AllStopped
<1>2. ASSUME NEW l, pc' = [pc EXCEPT ![s] = l], UNCHANGED <<via, client>>
      PROVE  pc'[s] = l /\ via'[s] = via[s] /\ OthersKept(s)
  BY <1>1, <1>2 DEF OthersKept
<1>3. UNCHANGED <<fresh, job, retryVars>> \/ UNCHANGED <<fresh, job, timers, attempt, watched, collapsed>>
      => PathGoesOn(s)
  BY <1>1 DEF PathGoesOn, retryVars
<1>4. CASE PrepareReturns(s)
  <2>1. PathGoesOn(s) /\ (cancellable => cancellable') /\ WishFrame
    BY <1>3, <1>4 DEF PrepareReturns, WishFrame
  <2>2. UNCHANGED <<via, client>>
    BY <1>4 DEF PrepareReturns
  <2>3. CASE fresh[s]
    <3>1. via[s] \in EngineRoutes /\ pc' = [pc EXCEPT ![s] = IF via[s] = "chain" THEN "engineWait" ELSE "run"]
      BY <1>1, <1>4, <2>3 DEF PrepareReturns, RouteFits
    <3>2. /\ pc'[s] = IF via[s] = "chain" THEN "engineWait" ELSE "run"
          /\ via'[s] = via[s] /\ OthersKept(s)
      BY <1>1, <2>2, <3>1 DEF OthersKept
    <3>3. RouteFits(s)' /\ ~OnPath(s)' /\ pc'[s] # "parked"
      BY <3>1, <3>2 DEF RouteFits, OnPath
    <3> QED
      BY <2>1, <3>2, <3>3, OffPathOwn DEF SessionFrame
  <2>4. CASE ~fresh[s]
    <3>1. pc' = [pc EXCEPT ![s] = "done"]
      BY <1>4, <2>4 DEF PrepareReturns
    <3>2. pc'[s] = "done" /\ OthersKept(s)
      BY <1>1, <2>2, <3>1 DEF OthersKept
    <3> QED
      BY <2>1, <3>2, EndedOwn DEF SessionFrame
  <2> QED
    BY <2>3, <2>4
<1>5. CASE PrepareRefused(s)
  <2>1. PathGoesOn(s) /\ (cancellable => cancellable') /\ WishFrame
    BY <1>3, <1>5 DEF PrepareRefused, Refuse, WishFrame
  <2>2. pc'[s] = "done" /\ OthersKept(s)
    BY <1>2, <1>5 DEF PrepareRefused, Refuse
  <2> QED
    BY <2>1, <2>2, EndedOwn DEF SessionFrame
<1>6. CASE PrepareFails(s)
  <2>1. /\ Turn /\ Retry(s, client, engine, chain, protector) /\ pc' = [pc EXCEPT ![s] = "done"]
        /\ UNCHANGED <<via, cancellable, attempt, collapsed, quiet>>
    BY <1>6 DEF PrepareFails
  <2>2. SessionFrame(s) /\ WishFrame
    BY <1>1, <2>1, RetryFrame
  <2> QED
    BY <1>1, <2>1, <2>2, EndedOwn
<1>7. CASE EngineReached(s)
  <2>1. PathGoesOn(s) /\ (cancellable => cancellable') /\ WishFrame
    BY <1>3, <1>7 DEF EngineReached, WishFrame
  <2>2. pc'[s] = "chainStart" /\ via'[s] = via[s] /\ via[s] = "chain" /\ OthersKept(s)
    BY <1>1, <1>2, <1>7 DEF EngineReached, RouteFits
  <2>3. RouteFits(s)' /\ ~OnPath(s)'
    BY <2>2 DEF RouteFits, OnPath, CarrierRoutes
  <2> QED
    BY <2>1, <2>2, <2>3, OffPathOwn DEF SessionFrame
<1>8. CASE EngineReachedStale(s) \/ EngineWaitEnds(s) \/ ChainStartFails(s) \/ ChainEngineReturns(s)
  BY <1>1, <1>8, ChainFailsFramed
  DEF EngineReachedStale, EngineWaitEnds, ChainStartFails, ChainEngineReturns
<1>9. CASE HopUpStale(s)
  <2>1. PathGoesOn(s) /\ (cancellable => cancellable') /\ WishFrame
    BY <1>3, <1>9 DEF HopUpStale, WishFrame, serviceVars
  <2>2. \A t \in Slots : client[t][2] = "none" => client'[t][2] = "none"
    BY <1>1, <1>9, StoppingClients DEF HopUpStale, AllStopped, Hops
  <2>3. pc'[s] = "done" /\ OthersKept(s)
    BY <1>1, <1>9, <2>2 DEF HopUpStale, OthersKept
  <2> QED
    BY <2>1, <2>3, EndedOwn DEF SessionFrame
<1>10. CASE HopFails(s)
  <2>1. /\ Turn /\ Retry(s, AllStopped(client), engine, chain, protector)
        /\ pc' = [pc EXCEPT ![s] = "done"]
        /\ UNCHANGED <<via, cancellable, attempt, collapsed, quiet>>
    BY <1>10 DEF HopFails
  <2>2. SessionFrame(s) /\ WishFrame
    BY <1>1, <2>1, RetryFrame
  <2> QED
    BY <1>1, <2>1, <2>2, EndedOwn
<1>11. CASE CarrierStarted(s)
  <2>1. PathGoesOn(s) /\ cancellable' /\ WishFrame
    BY <1>3, <1>11 DEF CarrierStarted, WishFrame, ReportConnected
  <2>2. /\ pc[s] = "chainStart" /\ pc'[s] = "parked" /\ via'[s] = via[s] /\ via[s] \in CarrierRoutes
        /\ UNCHANGED <<fresh, client, job, timers, attempt, watched, collapsed>> /\ OthersKept(s)
    BY <1>2, <1>11 DEF CarrierStarted
  <2>3. RouteFits(s)'
    BY <2>2 DEF RouteFits
  <2>4. SecondUnused(s)'
    BY <1>1, <2>2 DEF SecondUnused, OnPath
  <2>5. PathWatched(s)'
    BY <1>1, <2>2 DEF PathWatched, OnPath
  <2> QED
    BY <2>1, <2>2, <2>3, <2>4, <2>5 DEF SessionFrame, Own
<1>12. CASE CarrierChainFails(s)
  <2>1. /\ Turn /\ Retry(s, AllStopped(client), engine, FALSE, protector)
        /\ pc' = [pc EXCEPT ![s] = "done"] /\ collapsed' = s
        /\ UNCHANGED <<via, cancellable, attempt, quiet>>
    BY <1>12 DEF CarrierChainFails
  <2>2. PICK off : Retry(s, AllStopped(client), engine, off, protector)
    BY <2>1
  <2>3. SessionFrame(s) /\ WishFrame
    BY <1>1, <2>1, <2>2, RetryFrame
  <2> QED
    BY <1>1, <2>1, <2>3, EndedOwn
<1>13. CASE ChainStarted(s)
  <2>1. PathGoesOn(s) /\ (cancellable => cancellable') /\ WishFrame
    BY <1>3, <1>13 DEF ChainStarted, WishFrame, serviceVars
  <2>2. pc'[s] = "nodes" /\ via'[s] = via[s] /\ OthersKept(s)
    BY <1>2, <1>13 DEF ChainStarted
  <2>3. RouteFits(s)' /\ ~OnPath(s)'
    BY <2>2 DEF RouteFits, OnPath
  <2> QED
    BY <2>1, <2>2, <2>3, OffPathOwn DEF SessionFrame
<1>14. CASE NodesListed(s)
  <2>1. PathGoesOn(s) /\ (cancellable => cancellable') /\ WishFrame
    BY <1>3, <1>14 DEF NodesListed, ReportConnected, WishFrame
  <2>2. /\ pc'[s] = IF via[s] = "chain" THEN "chainUp" ELSE "done"
        /\ via'[s] = via[s] /\ OthersKept(s)
    BY <1>2, <1>14 DEF NodesListed
  <2>3. RouteFits(s)' /\ ~OnPath(s)' /\ pc'[s] # "parked"
    BY <2>2 DEF RouteFits, OnPath
  <2> QED
    BY <2>1, <2>2, <2>3, OffPathOwn DEF SessionFrame
<1>15. CASE HopUp(s)
  <2>1. /\ pc[s] \in {"hop1", "hop2"} /\ fresh[s] /\ UNCHANGED <<fresh, job, via, timers, attempt, collapsed>>
        /\ watched' = IF attempt = s THEN watched \cup {HopOf(s)} ELSE watched
    BY <1>15 DEF HopUp
  <2>2. PathGoesOn(s) /\ (cancellable => cancellable') /\ WishFrame
    BY <1>1, <1>15, <2>1 DEF HopUp, PathGoesOn, WishFrame
  <2>3. pc[s] = "hop1" => HopOf(s) = 1
    BY DEF HopOf
  <2>4. pc[s] = "hop2" => HopOf(s) = 2 /\ via[s] = "two"
    BY <1>1 DEF HopOf, RouteFits
  <2>5. NumHops(via[s]) = IF via[s] = "two" THEN 2 ELSE 1
    BY DEF NumHops
  <2>6. OnPath(s)
    BY <1>1, <2>1 DEF RouteFits, OnPath, CarrierRoutes
  <2>7. CASE pc[s] = "hop1" /\ via[s] = "two"
    <3>1. pc' = [pc EXCEPT ![s] = "hop2"]
          /\ client' = [StopHops(client, {2}) EXCEPT
                           ![s] = [h \in Hops |-> IF h = 1 THEN "connected" ELSE "connecting"]]
      BY <1>15, <2>3, <2>5, <2>7 DEF HopUp
    <3>2. \A t \in Slots : client[t][2] = "none" => StopHops(client, {2})[t][2] = "none"
      BY <1>1, StoppingClients DEF Hops
    <3>3. StopHops(client, {2}) \in Clients
      BY <1>1, StoppingClients
    <3>4. pc'[s] = "hop2" /\ via'[s] = "two" /\ OthersKept(s)
      BY <1>1, <2>1, <2>7, <3>1, <3>2, <3>3 DEF OthersKept, Clients
    <3>5. RouteFits(s)' /\ SecondUnused(s)'
      BY <3>4 DEF RouteFits, SecondUnused
    <3>6. PathWatched(s)'
      BY <1>1, <2>1, <2>3, <2>6, <2>7, <3>4 DEF PathWatched
    <3> QED
      BY <2>2, <3>4, <3>5, <3>6 DEF SessionFrame, Own
  <2>8. CASE pc[s] = "hop2" \/ via[s] # "two"
    <3>1. ~(HopOf(s) < NumHops(via[s])) /\ HopOf(s) \in Hops
      BY <2>1, <2>3, <2>4, <2>5, <2>8 DEF Hops
    <3>2. /\ pc' = [pc EXCEPT ![s] = "chainStart"]
          /\ client' = [client EXCEPT ![s][HopOf(s)] = "connected"]
      BY <1>15, <3>1 DEF HopUp
    <3>3. pc'[s] = "chainStart" /\ via'[s] = via[s] /\ OthersKept(s)
      BY <1>1, <2>1, <3>2 DEF OthersKept, Clients
    <3>4. via[s] = "one" => client'[s][2] = client[s][2]
      BY <1>1, <2>1, <2>3, <2>4, <3>2 DEF Clients, Hops
    <3>5. RouteFits(s)'
      BY <3>3 DEF RouteFits
    <3>6. SecondUnused(s)'
      BY <1>1, <2>6, <3>3, <3>4 DEF SecondUnused
    <3>7. PathWatched(s)'
      BY <1>1, <2>1, <2>3, <2>4, <2>6, <2>8, <3>3 DEF PathWatched
    <3> QED
      BY <2>2, <3>3, <3>5, <3>6, <3>7 DEF SessionFrame, Own
  <2> QED
    BY <2>1, <2>7, <2>8
<1> QED
  BY <1>4, <1>5, <1>6, <1>7, <1>8, <1>9, <1>10, <1>11, <1>12, <1>13, <1>14, <1>15 DEF SessionStep

\* And what the engine, the carriers and the watchers do.
LEMMA EnvironmentFramed ==
  ASSUME Inv, NEW s \in Slots, Environment(s) \/ \E h \in Hops : WatchHop(s, h)
  PROVE  SessionFrame(s) /\ WishFrame /\ Own(s)
<1> USE ConstantsAssumption
<1>1. /\ pc \in [Slots -> Labels] /\ client \in Clients /\ engine \in Engines
      /\ RouteFits(s) /\ SecondUnused(s) /\ PathWatched(s) /\ TypeOK
      /\ timers \in Nat /\ AllStopped(client) \in Clients /\ Returned(s) \in Engines
  <2>1. engine \in Engines /\ client \in Clients
    BY DEF Inv, TypeOK, Engines, Clients
  <2>2. AllStopped(client) \in Clients /\ Returned(s) \in Engines
    BY <2>1, StoppingClients, StoppingEngines DEF AllStopped, Returned
  <2> QED
    BY <2>1, <2>2 DEF Inv, TypeOK
<1>2. UNCHANGED <<fresh, job, retryVars>> \/ UNCHANGED <<fresh, job, timers, attempt, watched, collapsed>>
      => PathGoesOn(s)
  BY <1>1 DEF PathGoesOn, retryVars
<1>3. job = s /\ pc[s] = "parked" => cancellable
  BY DEF Inv, ParkedIsCancellable
<1>4. ASSUME UNCHANGED <<pc, fresh, via, job, cancellable, timers, attempt, watched, collapsed>>,
             \A t \in Slots : client[t][2] = "none" => client'[t][2] = "none"
      PROVE  SessionFrame(s) /\ Own(s)
  <2>1. UNCHANGED <<pc, fresh, via, job, cancellable, timers, attempt, watched, collapsed>>
    BY <1>4
  <2>2. OthersKept(s) /\ PathGoesOn(s) /\ (cancellable => cancellable')
    BY <1>2, <1>4, <2>1 DEF OthersKept
  <2>3. RouteFits(s)'
    BY <1>1, <2>1 DEF RouteFits
  <2>4. SecondUnused(s)'
    BY <1>1, <1>4, <2>1 DEF SecondUnused, OnPath
  <2>5. PathWatched(s)'
    BY <1>1, <2>1 DEF PathWatched, OnPath
  <2> QED
    BY <1>3, <2>1, <2>2, <2>3, <2>4, <2>5 DEF SessionFrame, Own
<1>5. CASE EngineTakesSlot(s)
  BY <1>4, <1>5 DEF EngineTakesSlot, WishFrame, serviceVars, retryVars
<1>6. CASE EngineReady(s)
  <2>1. PathGoesOn(s) /\ (cancellable => cancellable') /\ WishFrame
    BY <1>2, <1>6 DEF EngineReady, ReportConnected, WishFrame
  <2>2. CASE pc[s] = "run"
    <3>1. pc'[s] = "up" /\ OthersKept(s)
      BY <1>1, <1>6, <2>2 DEF EngineReady, OthersKept
    <3>2. RouteFits(s)' /\ ~OnPath(s)'
      BY <3>1 DEF RouteFits, OnPath
    <3> QED
      BY <2>1, <3>1, <3>2, OffPathOwn DEF SessionFrame
  <2>3. CASE pc[s] # "run"
    BY <1>4, <1>6, <2>1, <2>3 DEF EngineReady
  <2> QED
    BY <2>2, <2>3
<1>7. CASE EngineReadyBelow(s)
  <2>1. PathGoesOn(s) /\ (cancellable => cancellable') /\ WishFrame
    BY <1>2, <1>7 DEF EngineReadyBelow, WishFrame, serviceVars
  <2>2. CASE pc[s] = "engineWait"
    <3>1. pc'[s] = "engineUp" /\ via'[s] = via[s] /\ via[s] = "chain" /\ OthersKept(s)
      BY <1>1, <1>7, <2>2 DEF EngineReadyBelow, OthersKept, RouteFits
    <3>2. RouteFits(s)' /\ ~OnPath(s)'
      BY <3>1 DEF RouteFits, OnPath
    <3> QED
      BY <2>1, <3>1, <3>2, OffPathOwn DEF SessionFrame
  <2>3. CASE pc[s] # "engineWait"
    BY <1>4, <1>7, <2>1, <2>3 DEF EngineReadyBelow
  <2> QED
    BY <2>2, <2>3
<1>8. CASE EngineReturns(s)
  <2>1. /\ Turn /\ Retry(s, client, Returned(s), chain, ClearedProtector(s))
        /\ pc' = [pc EXCEPT ![s] = "done"]
        /\ UNCHANGED <<via, cancellable, attempt, collapsed, quiet>>
    BY <1>8 DEF EngineReturns
  <2>2. SessionFrame(s) /\ WishFrame
    BY <1>1, <2>1, RetryFrame
  <2> QED
    BY <1>1, <2>1, <2>2, EndedOwn
<1>9. CASE EngineEndsBelow(s)
  BY <1>4, <1>9 DEF EngineEndsBelow, WishFrame, serviceVars, retryVars
<1>10. CASE DyingEnds(s)
  <2>1. PathGoesOn(s) /\ (cancellable => cancellable') /\ WishFrame
    BY <1>2, <1>10 DEF DyingEnds, WishFrame, serviceVars
  <2>2. pc'[s] = "done" /\ OthersKept(s)
    BY <1>1, <1>10 DEF DyingEnds, OthersKept
  <2> QED
    BY <2>1, <2>2, EndedOwn DEF SessionFrame
<1>11. ASSUME NEW h \in Hops, HopDies(s, h)
       PROVE  SessionFrame(s) /\ WishFrame /\ Own(s)
  <2>1. \A t \in Slots : client[t][2] = "none" => client'[t][2] = "none"
    BY <1>1, <1>11 DEF HopDies, Clients, Hops
  <2> QED
    BY <1>4, <1>11, <2>1 DEF HopDies, WishFrame, serviceVars, retryVars
<1>12. ASSUME NEW h \in Hops, WatchHop(s, h)
       PROVE  SessionFrame(s) /\ WishFrame /\ Own(s)
  <2>1. /\ Turn /\ Retry(s, AllStopped(client), engine, FALSE, protector)
        /\ UNCHANGED <<pc, via, cancellable, attempt, quiet>> /\ collapsed' = s
        /\ s = attempt /\ fresh[s]
    BY <1>12 DEF WatchHop
  <2>2. PICK off : Retry(s, AllStopped(client), engine, off, protector)
    BY <2>1
  <2>3. SessionFrame(s) /\ WishFrame
    BY <1>1, <2>1, <2>2, RetryFrame
  <2>4. /\ \/ /\ fresh' = fresh /\ job' = job /\ watched' = watched /\ timers' > 0
           \/ fresh' = Stale /\ job' = None
        /\ \A t \in Slots, i \in Hops : AllStopped(client)[t][i] = "none" => client'[t][i] = "none"
    BY <1>1, <2>1, <2>2, RetryEffect
  <2>5. RouteFits(s)'
    BY <1>1, <2>1, <2>4 DEF RouteFits, Turn, Beginning
  <2>6. client[s][2] = "none" => client'[s][2] = "none"
    <3>1. client[s][2] = "none" => AllStopped(client)[s][2] = "none"
      BY <1>1, StoppingClients DEF AllStopped, Hops
    <3> QED
      BY <2>4, <3>1 DEF Hops
  <2>7. SecondUnused(s)'
    BY <1>1, <2>1, <2>6 DEF SecondUnused, OnPath
  <2>8. PathWatched(s)'
    BY <1>1, <2>1, <2>4 DEF PathWatched, OnPath
  <2>9. job' = s /\ pc'[s] = "parked" => cancellable'
    BY <1>3, <2>1, <2>4
  <2> QED
    BY <2>3, <2>5, <2>7, <2>8, <2>9 DEF Own
<1> QED
  BY <1>5, <1>6, <1>7, <1>8, <1>9, <1>10, <1>11, <1>12 DEF Environment

\* What these steps keep.
LEMMA FramedSessions ==
  ASSUME Inv, TypeOK', NEW s \in Slots, SessionFrame(s), Own(s), WishFrame
  PROVE  Inv'
<1> USE ConstantsAssumption
<1>1. ParkedIsCancellable'
  <2>1. job' # None => job' \in Slots /\ job' = job
    BY DEF TypeOK, SessionFrame, PathGoesOn
  <2>2. job' # s /\ job' # None => pc'[job'] = pc[job]
    BY <2>1 DEF SessionFrame, OthersKept
  <2> QED
    BY <2>1, <2>2 DEF Inv, SessionFrame, Own, ParkedIsCancellable
<1>2. ASSUME NEW t \in Slots, t # s
      PROVE  RouteFits(t)' /\ SecondUnused(t)' /\ PathWatched(t)'
  <2>1. /\ RouteFits(t) /\ SecondUnused(t) /\ PathWatched(t)
        /\ pc[s] = "begin" => s = job
    BY DEF Inv, RouteFits
  <2>2. pc'[t] = pc[t] /\ via'[t] = via[t] /\ (client[t][2] = "none" => client'[t][2] = "none")
    BY <1>2 DEF SessionFrame, OthersKept
  <2>3. RouteFits(t)'
    BY <2>1, <2>2 DEF SessionFrame, PathGoesOn, RouteFits, Beginning
  <2>4. SecondUnused(t)'
    BY <2>1, <2>2 DEF SecondUnused, OnPath
  <2>5. PathWatched(t)'
    <3> SUFFICES ASSUME t = job', fresh'[t], OnPath(t)'
                 PROVE  /\ attempt' = t
                        /\ collapsed' = t => timers' > 0
                        /\ pc'[t] # "hop1" => 1 \in watched'
                        /\ pc'[t] \in {"chainStart", "parked"} /\ via'[t] = "two" => 2 \in watched'
      BY DEF PathWatched
    <3>1. PathGoesOn(s) /\ job' # None
      BY DEF SessionFrame
    <3>2. /\ fresh' = fresh /\ job' = job /\ pc[s] # "begin"
          /\ timers' >= timers /\ watched \subseteq watched' /\ attempt' = attempt
          /\ collapsed' \in {collapsed, s}
      BY <1>2, <2>1, <3>1 DEF PathGoesOn
    <3>3. timers \in Nat /\ timers' \in Nat
      BY DEF Inv, TypeOK
    <3>4. OnPath(t)
      BY <2>2 DEF OnPath
    <3> QED
      BY <1>2, <2>1, <2>2, <3>2, <3>3, <3>4 DEF PathWatched
  <2> QED
    BY <2>3, <2>4, <2>5
<1>3. NobodyWaits' /\ Wishes'
  BY DEF Inv, WishFrame, NobodyWaits, Wishes, quiet, commandVars
<1> QED
  BY <1>1, <1>2, <1>3 DEF Inv, Own

-----------------------------------------------------------------------------
(* The theorems.                                                           *)

\* Init.
LEMMA InitInv == Init => Inv
<1> SUFFICES ASSUME Init
             PROVE  Inv
  OBVIOUS
<1> USE ConstantsAssumption
<1>1. SessionTypes
  <2>1. /\ pc \in [Slots -> Labels] /\ fresh \in [Slots -> BOOLEAN]
        /\ via \in [Slots -> AllRoutes]
    BY DEF Init, Labels, AllRoutes, EngineRoutes
  <2>2. tun \in [Slots -> {"none", "own", "detached", "given"}] /\ engine \in Engines
    BY DEF Init, Engines
  <2>3. client \in Clients
    BY DEF Init, Clients, NoClients, ClientStates
  <2>4. job = None /\ cancellable = FALSE
    BY DEF Init
  <2> QED
    BY <2>1, <2>2, <2>3, <2>4 DEF SessionTypes
<1>2. RetryTypes /\ CommandTypes
  BY DEF Init, RetryTypes, CommandTypes
<1>3. HeldTypes /\ ServiceTypes
  BY DEF Init, HeldTypes, ServiceTypes, Stages
<1>4. RequestTypes
  <2>1. /\ carriers = 0 /\ config = "proxy" /\ kill = FALSE /\ strict = FALSE
        /\ saved = NotSaved
    BY DEF Init
  <2>2. carriers \in 0..2 /\ config \in Configs /\ saved \in Saved
    BY <2>1, NotSavedTyped DEF Configs
  <2>3. kill \in BOOLEAN /\ strict \in BOOLEAN
    BY <2>1
  <2> QED
    BY <2>2, <2>3 DEF RequestTypes
<1>5. TypeOK
  BY <1>1, <1>2, <1>3, <1>4, Parts
<1>6. NobodyWaits /\ Wishes /\ ParkedIsCancellable
  BY DEF Init, NobodyWaits, Wishes, ParkedIsCancellable
<1>7. \A s \in Slots : RouteFits(s) /\ SecondUnused(s) /\ PathWatched(s)
  BY DEF Init, RouteFits, SecondUnused, PathWatched, OnPath
<1> QED
  BY <1>5, <1>6, <1>7 DEF Inv

\* Every step keeps the invariant.
LEMMA NextInv == Inv /\ [Next]_vars => Inv'
<1> SUFFICES ASSUME Inv, [Next]_vars
             PROVE  Inv'
  OBVIOUS
<1>1. TypeOK /\ NobodyWaits /\ Wishes /\ \A s \in Slots : RouteFits(s)
  BY DEF Inv
<1>2. CASE Dequeue \/ Commands \/ ServiceStep
  <2>1. TypeOK' /\ CommandFrame /\ NobodyWaits' /\ Wishes'
    BY <1>1, <1>2, CommandsTyped, CommandsFrame, CommandWishes
  <2> QED
    BY <2>1, FramedCommands DEF Inv
<1>3. ASSUME NEW s \in Slots, Begin(s)
      PROVE  Inv'
  BY <1>1, <1>3, BeginTyped, BeginFramed, FramedSessions
<1>4. ASSUME NEW s \in Slots, SessionStep(s)
      PROVE  Inv'
  BY <1>1, <1>4, SessionStepTyped, SessionStepFramed, FramedSessions
<1>5. ASSUME NEW s \in Slots, Environment(s) \/ \E h \in Hops : WatchHop(s, h)
      PROVE  Inv'
  BY <1>1, <1>5, EnvironmentTyped, EnvironmentFramed, FramedSessions
<1>6. CASE UNCHANGED vars
  <2>1. /\ UNCHANGED <<sessionVars, retryVars, commandVars, heldVars, requestVars, serviceVars,
                       historyVars>>
    BY <1>6 DEF vars
  <2>2. TypeOK'
    BY <1>1, <2>1, Parts
  <2>3. UNCHANGED <<pc, fresh, via, client, job, cancellable, timers, attempt, watched, collapsed,
                    joining, queue, kill, saved, service, wanted, asked>>
    BY <2>1 DEF sessionVars, retryVars, commandVars, requestVars, serviceVars, historyVars
  <2>4. NobodyWaits' /\ Wishes' /\ ParkedIsCancellable'
    BY <2>3 DEF Inv, NobodyWaits, Wishes, ParkedIsCancellable
  <2>5. \A s \in Slots : RouteFits(s)' /\ SecondUnused(s)' /\ PathWatched(s)'
    BY <2>3 DEF Inv, RouteFits, SecondUnused, PathWatched, OnPath
  <2> QED
    BY <2>2, <2>4, <2>5 DEF Inv
<1> QED
  BY <1>2, <1>3, <1>4, <1>5, <1>6 DEF Next

\* The invariant holds throughout.
LEMMA Invariance == Spec => []Inv
  BY InitInv, NextInv, PTL DEF Spec

\* Every variable of the service keeps its type, whatever its handlers are
\* interleaved with.
THEOREM ServiceTyped == Spec => []TypeOK
<1>1. Inv => TypeOK
  BY DEF Inv
<1> QED
  BY <1>1, Invariance, PTL

\* runSession's carrier paths: replaceSession and stopFromUser can cancel whatever
\* is parked, and never wait on it with the command lock held.
THEOREM ParkedCanBeCancelled == Spec => []ParkedIsCancellable
<1>1. Inv => ParkedIsCancellable
  BY DEF Inv
<1> QED
  BY <1>1, Invariance, PTL

\* restoreLastRequest: after the process died, as before, the kill switch is the
\* one the user asked for.
THEOREM KillSwitchIsKept == Spec => []KillSwitchSurvives
<1>1. Inv => KillSwitchSurvives
  BY DEF Inv, Wishes, KillSwitchSurvives
<1> QED
  BY <1>1, Invariance, PTL

\* saveLastRequest and clearLastRequest: what a sticky restart would bring back is
\* what the user still wants.
THEOREM OnlyTheWantedIsSaved == Spec => []NothingToResurrect
<1>1. Inv => NothingToResurrect
  BY DEF Inv, Wishes, NothingToResurrect
<1> QED
  BY <1>1, Invariance, PTL

\* watchHops and the collapse marker: the current path, once it has lost a hop, has
\* a watcher that will act on it, or the next attempt on its way.
THEOREM DeadPathsAreNoticed == Spec => []DeadPathNoticed
<1>1. Inv => DeadPathNoticed
  <2> SUFFICES ASSUME Inv, NEW s \in Slots, NEW h \in Hops, s = job, fresh[s], pc[s] = "parked",
                      client[s][h] \in {"failed", "stopped"}
               PROVE  \/ attempt = s /\ h \in watched /\ collapsed # s
                      \/ timers > 0
    BY DEF DeadPathNoticed
  <2>1. RouteFits(s) /\ SecondUnused(s) /\ PathWatched(s)
    BY DEF Inv
  <2>2. OnPath(s)
    BY <2>1 DEF RouteFits, OnPath
  <2>3. h = 2 => via[s] = "two"
    BY <2>1, <2>2 DEF SecondUnused, OnPath, CarrierRoutes
  <2>4. h \in watched
    BY <2>1, <2>2, <2>3 DEF PathWatched, Hops
  <2> QED
    BY <2>1, <2>2, <2>4 DEF PathWatched
<1> QED
  BY <1>1, Invariance, PTL

-----------------------------------------------------------------------------
(* One failure, one retry.  With carriers it does not hold: a hop that     *)
(* cannot be opened schedules a retry without claiming the collapse, which *)
(* the watcher of a hop that was up may claim as well.                     *)

NoCarriers == Requests \subseteq {0} \X Configs

Under(s) == fresh[s] /\ pc[s] \notin {"done", "parked"}

\* Nothing is on a carrier's route, and no path is open.
EngineOnly ==
  /\ carriers = 0 /\ saved.carriers = 0 /\ attempt = None
  /\ \A s \in Slots : via[s] \in Configs

\* At most one session is under way; none while a delay runs or a job is joined,
\* and not both of those.
Alone ==
  /\ \A s, t \in Slots : Under(s) /\ Under(t) => s = t
  /\ timers <= 1
  /\ timers > 0 \/ joining # None => \A s \in Slots : ~Under(s)
  /\ joining # None => timers = 0

\* What Retry does to the delays.
LEMMA RetryTimers ==
  ASSUME TypeOK, NEW s \in Slots, NEW c, NEW e, NEW ch, NEW pr, Retry(s, c, e, ch, pr)
  PROVE  \/ fresh' = fresh /\ timers' = timers
         \/ fresh' = fresh /\ timers' = timers + 1 /\ fresh[s]
         \/ fresh' = Stale /\ timers' = 0
<1>1. CASE ~fresh[s]
  BY <1>1 DEF Retry
<1>2. CASE fresh[s]
  BY <1>2 DEF Retry
<1> QED
  BY <1>1, <1>2

\* A session takes steps while it is under way, and starts the delay as it ends.
TakesTurns(s) ==
  /\ \A t \in Slots : pc'[t] = pc[t] \/ (t = s /\ pc[s] \notin {"done", "parked"})
  /\ \/ fresh' = fresh /\ timers' = timers
     \/ fresh' = fresh /\ timers' = timers + 1 /\ Under(s) /\ pc'[s] = "done"
     \/ fresh' = Stale /\ timers' = 0
  /\ UNCHANGED <<via, attempt>>

\* Every session's step, its engine's and its carriers' is of that kind when there
\* are no carriers.
LEMMA SessionsTakeTurns ==
  ASSUME Inv, EngineOnly, NEW s \in Slots,
         \/ Begin(s) \/ SessionStep(s) \/ Environment(s) \/ \E h \in Hops : WatchHop(s, h)
  PROVE  TakesTurns(s)
<1> USE ConstantsAssumption
<1>1. /\ pc \in [Slots -> Labels] /\ fresh \in [Slots -> BOOLEAN] /\ TypeOK /\ RouteFits(s)
      /\ via[s] \in Configs /\ attempt = None
  BY DEF Inv, TypeOK, EngineOnly
<1>2. via[s] \notin CarrierRoutes
  BY <1>1 DEF Configs, CarrierRoutes
<1>3. ASSUME NEW l, pc' = [pc EXCEPT ![s] = l], pc[s] \notin {"done", "parked"},
             UNCHANGED <<fresh, via, attempt, timers>>
      PROVE  TakesTurns(s)
  BY <1>1, <1>3 DEF TakesTurns
<1>4. ASSUME pc' = [pc EXCEPT ![s] = "done"], pc[s] \notin {"done", "parked"},
             UNCHANGED <<via, attempt>>,
             NEW c, NEW e, NEW ch, NEW pr, Retry(s, c, e, ch, pr)
      PROVE  TakesTurns(s)
  <2>1. \/ fresh' = fresh /\ timers' = timers
        \/ fresh' = fresh /\ timers' = timers + 1 /\ fresh[s]
        \/ fresh' = Stale /\ timers' = 0
    BY <1>1, <1>4, RetryTimers
  <2> QED
    BY <1>1, <1>4, <2>1 DEF TakesTurns, Under
<1>5. CASE Begin(s)
  BY <1>2, <1>3, <1>5
  DEF Begin, BeginRefused, BeginEngine, BeginDirect, BeginCarrier, Refuse, retryVars
<1>6. CASE PrepareReturns(s)
  <2>1. PICK l : pc' = [pc EXCEPT ![s] = l]
    BY <1>6 DEF PrepareReturns
  <2> QED
    BY <1>3, <1>6, <2>1 DEF PrepareReturns, retryVars
<1>7. CASE PrepareRefused(s) \/ EngineReached(s) \/ ChainStarted(s) \/ NodesListed(s)
  BY <1>3, <1>7 DEF PrepareRefused, Refuse, EngineReached, ChainStarted, NodesListed, retryVars
<1>8. CASE PrepareFails(s)
  BY <1>4, <1>8 DEF PrepareFails
<1>9. CASE EngineReachedStale(s) \/ EngineWaitEnds(s) \/ ChainStartFails(s) \/ ChainEngineReturns(s)
  <2>1. ChainFails(s) /\ pc[s] \notin {"done", "parked"}
    BY <1>9 DEF EngineReachedStale, EngineWaitEnds, ChainStartFails, ChainEngineReturns
  <2>2. PICK off : Retry(s, client, NativeStop(engine), off, ClearedProtector(s))
    BY <2>1 DEF ChainFails
  <2> QED
    BY <1>4, <2>1, <2>2 DEF ChainFails
<1>10. ~(HopUp(s) \/ HopUpStale(s) \/ HopFails(s) \/ CarrierStarted(s) \/ CarrierChainFails(s))
  BY <1>1, <1>2
  DEF HopUp, HopUpStale, HopFails, CarrierStarted, CarrierChainFails, RouteFits, CarrierRoutes
<1>11. CASE EngineTakesSlot(s) \/ EngineEndsBelow(s) \/ \E h \in Hops : HopDies(s, h)
  <2>1. UNCHANGED <<pc, fresh, via, attempt, timers>>
    BY <1>11 DEF EngineTakesSlot, EngineEndsBelow, HopDies, retryVars
  <2> QED
    BY <2>1 DEF TakesTurns
<1>12. CASE EngineReady(s) \/ EngineReadyBelow(s) \/ DyingEnds(s)
  <2>1. CASE UNCHANGED pc
    BY <1>12, <2>1 DEF EngineReady, EngineReadyBelow, DyingEnds, retryVars, TakesTurns
  <2>2. CASE ~UNCHANGED pc
    <3>1. PICK l : pc' = [pc EXCEPT ![s] = l] /\ pc[s] \notin {"done", "parked"}
      BY <1>12, <2>2 DEF EngineReady, EngineReadyBelow, DyingEnds
    <3>2. UNCHANGED <<fresh, via, attempt, timers>>
      BY <1>12 DEF EngineReady, EngineReadyBelow, DyingEnds, retryVars
    <3> QED
      BY <1>3, <3>1, <3>2
  <2> QED
    BY <2>1, <2>2
<1>13. CASE EngineReturns(s)
  BY <1>4, <1>13 DEF EngineReturns
<1>14. ~ \E h \in Hops : WatchHop(s, h)
  BY <1>1 DEF WatchHop
<1> QED
  BY <1>5, <1>6, <1>7, <1>8, <1>9, <1>10, <1>11, <1>12, <1>13, <1>14 DEF SessionStep, Environment

\* Such a step leaves at most one thing under way.
LEMMA TurnsStayAlone ==
  ASSUME Inv, Inv', EngineOnly, Alone, NEW s \in Slots, TakesTurns(s), WishFrame
  PROVE  EngineOnly' /\ Alone'
<1> USE ConstantsAssumption
<1>1. EngineOnly'
  BY DEF EngineOnly, TakesTurns, WishFrame, NotSaved, quiet
<1>2. \A t \in Slots : Under(t)' => Under(t)
  BY DEF TakesTurns, Under, Stale
<1>3. joining' = joining /\ timers \in Nat /\ timers' \in Nat
  BY DEF WishFrame, quiet, commandVars, Inv, TypeOK
<1>4. CASE fresh' = fresh /\ timers' = timers + 1 /\ Under(s) /\ pc'[s] = "done"
  <2>1. ~Under(s)'
    BY <1>4 DEF Under
  <2>2. timers = 0 /\ joining = None
    BY <1>3, <1>4 DEF Alone
  <2>3. \A t \in Slots : ~Under(t)'
    BY <1>2, <1>4, <2>1 DEF Alone
  <2> QED
    BY <1>1, <1>3, <1>4, <2>2, <2>3 DEF Alone
<1>5. CASE timers' \in {timers, 0}
  BY <1>1, <1>2, <1>3, <1>5 DEF Alone
<1> QED
  BY <1>4, <1>5 DEF TakesTurns

\* A launch is of an engine's route, and replaces everything under way.
LEMMA LaunchAlone ==
  ASSUME TypeOK, NEW p \in [Slots -> Labels], NEW s \in Slots, Launch(p, s), carriers' = 0,
         config' \in Configs, \A t \in Slots \ {s} : ~(fresh'[t] /\ p[t] \notin {"done", "parked"}),
         EngineOnly, attempt' \in {attempt, None}, saved'.carriers = 0, timers' = 0, joining' = None
  PROVE  EngineOnly' /\ Alone'
<1>1. /\ \A t \in Slots \ {s} : pc'[t] = p[t] /\ via'[t] = via[t]
      /\ via'[s] = RouteOf(carriers', config') /\ carriers' \in 0..2
  <2>1. carriers' \in 0..2
    OBVIOUS
  <2> QED
    BY <2>1, LaunchTyped
<1>2. EngineOnly'
  BY <1>1, RoutesTyped DEF EngineOnly
<1>3. Alone'
  BY <1>1 DEF Alone, Under
<1> QED
  BY <1>2, <1>3

\* replaceSession leaves one session under way, or none.
LEMMA ReplaceAlone ==
  ASSUME Inv, EngineOnly, NEW g \in Configs, ReplaceSession(g), carriers' = 0, joining = None,
         saved'.carriers = 0
  PROVE  EngineOnly' /\ Alone'
<1>1. AfterCancel \in [Slots -> Labels] /\ TypeOK /\ config' = g /\ timers' = 0 /\ attempt' = None
  BY AfterCancelling DEF Inv, ReplaceSession
<1>2. CASE Ended(AfterCancel, job)
  <2>1. PICK s \in Slots : Launch(AfterCancel, s) /\ fresh' = [Stale EXCEPT ![s] = TRUE]
                           /\ joining' = joining
    BY <1>2 DEF ReplaceSession
  <2>2. \A t \in Slots \ {s} : ~fresh'[t]
    BY <2>1 DEF Stale
  <2> QED
    BY <1>1, <2>1, <2>2, LaunchAlone
<1>3. CASE ~Ended(AfterCancel, job)
  <2>1. fresh' = Stale /\ via' = via
    BY <1>3 DEF ReplaceSession
  <2>2. \A t \in Slots : ~Under(t)'
    BY <2>1 DEF Under, Stale
  <2> QED
    BY <1>1, <2>1, <2>2 DEF EngineOnly, Alone
<1> QED
  BY <1>2, <1>3

\* And so do all the commands.
LEMMA CommandsAlone ==
  ASSUME NoCarriers, Inv, EngineOnly, Alone, Dequeue \/ Commands \/ ServiceStep
  PROVE  EngineOnly' /\ Alone'
<1> USE ConstantsAssumption
<1>1. /\ TypeOK /\ pc \in [Slots -> Labels] /\ AfterCancel \in [Slots -> Labels]
      /\ fresh \in [Slots -> BOOLEAN] /\ timers \in Nat /\ carriers = 0 /\ saved.carriers = 0
      /\ config \in Configs
  BY AfterCancelling DEF Inv, TypeOK, EngineOnly
<1>2. NotSaved.carriers = 0
  BY DEF NotSaved
<1>3. ASSUME UNCHANGED <<pc, fresh, via, timers, attempt, joining, carriers>>,
             saved'.carriers = 0
      PROVE  EngineOnly' /\ Alone'
  BY <1>3 DEF EngineOnly, Alone, Under
<1>4. ASSUME NEW g \in Configs, Replace(g), carriers' = 0, saved'.carriers = 0
      PROVE  EngineOnly' /\ Alone'
  <2>1. CASE joining = None
    BY <1>4, <2>1, ReplaceAlone DEF Replace
  <2>2. CASE joining # None
    <3>1. UNCHANGED <<pc, fresh, via, timers, attempt, joining>> /\ carriers' = carriers
      BY <1>1, <1>4, <2>2 DEF Replace, sessionVars, retryVars
    <3> QED
      BY <1>3, <1>4, <3>1
  <2> QED
    BY <2>1, <2>2
<1>5. CASE Dequeue
  <2>1. queue \in Seq(Configs) /\ queue # << >> /\ joining = None
    BY <1>1, <1>5 DEF Dequeue, Waiting, TypeOK
  <2>2. Head(queue) \in Configs
    BY <2>1
  <2> QED
    BY <1>1, <1>5, <2>1, <2>2, ReplaceAlone DEF Dequeue
<1>6. CASE StartCommand
  <2>1. PICK r \in Requests, k \in Switches :
          /\ carriers' = r[1]
          /\ saved' = IF r[2] = "proxy" THEN NotSaved
                      ELSE [carriers |-> r[1], config |-> r[2], kill |-> k[1],
                            strict |-> k[2]]
          /\ Replace(r[2])
    BY <1>6 DEF StartCommand
  <2>2. r[1] = 0 /\ r[2] \in Configs
    BY DEF NoCarriers
  <2>3. saved'.carriers = 0
    BY <1>2, <2>1, <2>2
  <2> QED
    BY <1>4, <2>1, <2>2, <2>3
<1>7. CASE RestoreCommand
  <2>1. saved.config \in Configs
    BY <1>1 DEF TypeOK, Saved
  <2> QED
    BY <1>1, <1>4, <1>7, <2>1 DEF RestoreCommand
<1>8. CASE RestoreNothing \/ LiftBlock
  BY <1>1, <1>3, <1>8 DEF RestoreNothing, LiftBlock, sessionVars, retryVars, commandVars, requestVars
<1>9. CASE StopCommand
  <2>1. /\ fresh' = Stale /\ timers' = 0 /\ saved' = NotSaved
        /\ UNCHANGED <<via, attempt, carriers, joining>>
    BY <1>9 DEF StopCommand
  <2>2. \A t \in Slots : ~Under(t)'
    BY <2>1 DEF Under, Stale
  <2> QED
    BY <1>2, <2>1, <2>2 DEF EngineOnly, Alone
<1>10. CASE StopJoined \/ StopGraceExpires
  BY <1>1, <1>3, <1>10 DEF StopJoined, StopGraceExpires, StopLeavesJob, retryVars, requestVars
<1>11. CASE StopFinishes
  BY <1>1, <1>3, <1>11 DEF StopFinishes, retryVars, requestVars
<1>12. CASE Destroy \/ ProcessDies
  <2>1. Teardown
    BY <1>12 DEF Destroy, ProcessDies
  <2>2. /\ pc' = [s \in Slots |-> "done"] /\ via' = [s \in Slots |-> "proxy"]
        /\ timers' = 0 /\ attempt' = None /\ joining' = None /\ carriers' = 0 /\ saved' = saved
    BY <2>1 DEF Teardown
  <2> QED
    BY <1>1, <2>2 DEF EngineOnly, Alone, Under, Configs
<1>13. CASE JoinReturns
  <2>1. PICK s \in Slots : Launch(pc, s) /\ fresh' = [fresh EXCEPT ![s] = TRUE]
    BY <1>13 DEF JoinReturns
  <2>2. \A t \in Slots : ~Under(t)
    BY <1>13 DEF JoinReturns, Alone
  <2>3. \A t \in Slots \ {s} : ~(fresh'[t] /\ pc[t] \notin {"done", "parked"})
    BY <1>1, <2>1, <2>2 DEF Under
  <2>4. /\ timers' = 0 /\ attempt' = attempt /\ joining' = None /\ carriers' = 0
        /\ saved' = saved /\ config' \in Configs
    BY <1>1, <1>13 DEF JoinReturns, Alone, requestVars, retryVars
  <2> QED
    BY <1>1, <2>1, <2>3, <2>4, LaunchAlone
<1>14. CASE TimerFires
  <2>1. PICK s \in Slots : Launch(AfterCancel, s) /\ fresh' = [fresh EXCEPT ![s] = TRUE]
    BY <1>14 DEF TimerFires
  <2>2. timers = 1 /\ joining = None /\ \A t \in Slots : ~Under(t)
    BY <1>1, <1>14 DEF TimerFires, Alone
  <2>3. \A t \in Slots : AfterCancel[t] \in {pc[t], "done", "dying"}
                       /\ (AfterCancel[t] = "dying" => pc[t] \in Blocking \cup {"dying"})
    BY <1>1, AfterCancelling
  <2>4. \A t \in Slots \ {s} : ~(fresh'[t] /\ AfterCancel[t] \notin {"done", "parked"})
    BY <1>1, <2>1, <2>2, <2>3 DEF Under, Blocking
  <2>5. /\ timers' = 0 /\ attempt' = attempt /\ joining' = None /\ carriers' = 0
        /\ saved' = saved /\ config' \in Configs
    BY <1>1, <1>14, <2>2 DEF TimerFires, quiet, commandVars
  <2> QED
    BY <1>1, <2>1, <2>4, <2>5, LaunchAlone
<1> QED
  BY <1>5, <1>6, <1>7, <1>8, <1>9, <1>10, <1>11, <1>12, <1>13, <1>14 DEF Commands, ServiceStep

\* scheduleReconnect and replaceParkedSession, for requests without carriers: of
\* the current generation there is one session under way, or one delay, or neither.
THEOREM OneFailureOneRetry ==
  ASSUME NoCarriers
  PROVE  Spec => []OneAttempt
<1> DEFINE I == Inv /\ EngineOnly /\ Alone
<1>1. Init => I
  <2>1. Init => EngineOnly /\ Alone
    BY DEF Init, EngineOnly, Alone, Under, NotSaved, Configs
  <2> QED
    BY <2>1, InitInv
<1>2. I /\ [Next]_vars => I'
  <2> SUFFICES ASSUME I, [Next]_vars
               PROVE  I'
    OBVIOUS
  <2>1. Inv'
    BY NextInv
  <2>2. CASE Dequeue \/ Commands \/ ServiceStep
    BY <2>1, <2>2, CommandsAlone
  <2>3. ASSUME NEW s \in Slots,
               \/ Begin(s) \/ SessionStep(s) \/ Environment(s) \/ \E h \in Hops : WatchHop(s, h)
        PROVE  I'
    <3>1. WishFrame
      BY <2>3, BeginFramed, SessionStepFramed, EnvironmentFramed
    <3> QED
      BY <2>1, <2>3, <3>1, SessionsTakeTurns, TurnsStayAlone
  <2>4. CASE UNCHANGED vars
    BY <2>1, <2>4
    DEF vars, sessionVars, retryVars, commandVars, requestVars, EngineOnly, Alone, Under
  <2> QED
    BY <2>2, <2>3, <2>4 DEF Next
<1>3. I => OneAttempt
  <2> SUFFICES ASSUME I
               PROVE  OneAttempt
    OBVIOUS
  <2>1. timers \in Nat
    BY DEF Inv, TypeOK
  <2>2. CASE \A s \in Slots : ~Under(s)
    <3>1. Underway = {}
      BY <2>2 DEF Underway, Under
    <3> QED
      BY <2>1, <3>1, FS_EmptySet DEF OneAttempt, Alone
  <2>3. CASE \E s \in Slots : Under(s)
    <3>1. PICK s \in Slots : Under(s)
      BY <2>3
    <3>2. Underway = {s}
      BY <3>1 DEF Underway, Under, Alone
    <3>3. timers = 0
      BY <2>1, <3>1 DEF Alone
    <3>4. Cardinality({s}) = 1
      BY FS_Singleton
    <3> QED
      BY <3>2, <3>3, <3>4 DEF OneAttempt
  <2> QED
    BY <2>2, <2>3
<1> QED
  BY <1>1, <1>2, <1>3, PTL DEF Spec
=============================================================================
