------------------------------ MODULE AutoRace ------------------------------
(***************************************************************************)
(* One race of the automatic search: raceLanes and tryRoute of             *)
(* AetherVpnService.kt, with the carrier clients they start.  AutoSearch   *)
(* takes a race as one state of a session; this is what happens in it.     *)
(*                                                                         *)
(* Every coroutine runs on Dispatchers.Main.immediate, so a lane goes from *)
(* one suspension to the next in one action, and completing the winner     *)
(* settles the race in the same turn.  The engine's preparation is a       *)
(* blocking call that a cancellation does not reach: the lane inside it    *)
(* outlives its race.  A nativeRun is a thread of its own.                 *)
(***************************************************************************)
EXTENDS Naturals, Sequences

CONSTANTS Lanes,     \* the routes of each lane, in the order they are tried
          Engines,   \* the routes that race the engine
          None       \* no route

Ids == 1..Len(Lanes)
Routes == UNION {{Lanes[i][k] : k \in 1..Len(Lanes[i])} : i \in Ids}

\* A carrier has one lane: "two routes of one carrier cannot" be tried at once.
ASSUME RaceAssumption ==
  /\ Lanes \in Seq(Seq(Routes)) /\ Lanes # << >>
  /\ \A i, j \in Ids : \A k \in 1..Len(Lanes[i]), n \in 1..Len(Lanes[j]) :
       Lanes[i][k] = Lanes[j][n] => i = j
  /\ Engines \subseteq Routes /\ None \notin Routes

VARIABLES
  lane,       \* where each lane is and which of its routes it tries
  begun,      \* lanes whose head start is over
  client,     \* each route's client: none, starting, up or stopped
  inFlight,   \* autoInFlight
  engine,     \* the nativeRun of each engine route
  left,       \* staleEngine: an engine of an earlier step has not gone
  race        \* whether it is settled, and for whom

vars == <<lane, begun, client, inFlight, engine, left, race>>

Labels == {"head", "stale", "start", "prepare", "wait", "probe", "blocked", "over"}

\* launched: dispatched and not yet stoppable; halted: told to stop.
Runs == {"none", "launched", "running", "halted"}

TypeOK ==
  /\ lane \in [Ids -> [at : Labels, k : Nat]]
  /\ \A i \in Ids : lane[i].k <= Len(Lanes[i]) + IF lane[i].at = "over" THEN 1 ELSE 0
  /\ begun \subseteq Ids
  /\ client \in [Routes -> {"none", "starting", "up", "stopped"}]
  /\ inFlight \subseteq Routes
  /\ engine \in [Engines -> Runs]
  /\ left \in BOOLEAN
  /\ race \in [settled : BOOLEAN, winner : Routes \cup {None}]

Init ==
  /\ lane = [i \in Ids |-> [at |-> "head", k |-> 0]]
  /\ begun = {} /\ inFlight = {}
  /\ client = [r \in Routes |-> "none"]
  /\ engine = [r \in Engines |-> "none"]
  /\ left \in BOOLEAN
  /\ race = [settled |-> FALSE, winner |-> None]

At(i) == lane[i].at
Route(i) == Lanes[i][lane[i].k]
Moved(i, label) == [lane EXCEPT ![i].at = label]

-----------------------------------------------------------------------------
(* The bridge and the clients.                                             *)

\* nativeStop, and every return of nativeRun, take the one stop sender.
SlotTaken(e) == [r \in Engines |-> IF e[r] = "running" THEN "halted" ELSE e[r]]

\* CarrierClient.stop of the routes given.  An engine's takes the slot and
\* cancels its own run, which is in time only if that has not begun.
Stopped(routes) ==
  IF routes \cap Engines = {} THEN {engine}
  ELSE {[r \in Engines |-> IF r \in unbegun THEN "none" ELSE SlotTaken(engine)[r]] :
          unbegun \in SUBSET {r \in routes \cap Engines : engine[r] = "launched"}}

ClientsStopped(routes) ==
  [r \in Routes |-> IF r \in routes THEN "stopped" ELSE client[r]]

-----------------------------------------------------------------------------
(* Lanes.                                                                  *)

\* Mutant: nobody is told that the last running lane has run out.
HandOnNothing(i, b) == begun' = b /\ UNCHANGED race

\* handOn: with no lane running the next begins at once, and with none left the
\* race is over without a winner.
HandOn(i, b) ==
  LET running == {j \in b \ {i} : At(j) # "over"}
      unbegun == Ids \ b
      next == CHOOSE j \in unbegun : \A n \in unbegun : j <= n
  IN  IF running # {} THEN begun' = b /\ UNCHANGED race
      ELSE IF unbegun # {} THEN begun' = b \cup {next} /\ UNCHANGED race
      ELSE begun' = b /\ race' = [race EXCEPT !.settled = TRUE]

\* Lane i comes to its route k, with these lanes begun, these clients and these
\* routes in flight: an engine waits for one that was left behind.
GoOn(i, k, b, c, flying) ==
  IF k > Len(Lanes[i])
    THEN /\ lane' = [lane EXCEPT ![i] = [at |-> "over", k |-> k]]
         /\ HandOn(i, b)
         /\ client' = c /\ inFlight' = flying
    ELSE LET r == Lanes[i][k]
             waits == r \in Engines /\ left
             label == CASE waits                   -> "stale"
                        [] ~waits /\ r \in Engines -> "prepare"
                        [] OTHER                   -> "start"
         IN  /\ lane' = [lane EXCEPT ![i] = [at |-> label, k |-> k]]
             /\ client' = IF waits THEN c ELSE [c EXCEPT ![r] = "starting"]
             /\ inFlight' = IF waits THEN flying ELSE flying \cup {r}
             /\ begun' = b /\ UNCHANGED race

\* A lane's head start is over, or another lane handed on to it.
HeadEnds(i) ==
  /\ At(i) = "head"
  /\ GoOn(i, 1, begun \cup {i}, client, inFlight)
  /\ UNCHANGED <<engine, left>>

StaleGone(i) ==
  /\ At(i) = "stale" /\ ~left
  /\ GoOn(i, lane[i].k, begun, client, inFlight)
  /\ UNCHANGED <<engine, left>>

\* STALE_ENGINE_WAIT_MS: the route is passed over.
StaleWaited(i) ==
  /\ At(i) = "stale" /\ left
  /\ GoOn(i, lane[i].k + 1, begun, client, inFlight)
  /\ UNCHANGED <<engine, left>>

\* The route is not kept, and stopped by its own lane.
GivesUp(i) ==
  /\ engine' \in Stopped({Route(i)})
  /\ GoOn(i, lane[i].k + 1, begun, ClientsStopped({Route(i)}), inFlight \ {Route(i)})
  /\ UNCHANGED left

\* start failed, or took longer than the route's budget; or the request through
\* it did not get out.
StartFails(i) == At(i) \in {"start", "prepare"} /\ GivesUp(i)
ProbeFails(i) == At(i) = "probe" /\ GivesUp(i)

StartReturns(i) ==
  /\ At(i) = "start"
  /\ lane' = Moved(i, "probe")
  /\ client' = [client EXCEPT ![Route(i)] = "up"]
  /\ UNCHANGED <<begun, inFlight, engine, left, race>>

\* The engine: prepared, and its run dispatched ...
Prepared(i) ==
  /\ At(i) = "prepare"
  /\ lane' = Moved(i, "wait")
  /\ engine' = [engine EXCEPT ![Route(i)] = "launched"]
  /\ UNCHANGED <<begun, client, inFlight, left, race>>

\* ... whose listener says that a route opened ...
EngineOpens(i) ==
  /\ At(i) = "wait" /\ engine[Route(i)] = "running"
  /\ lane' = Moved(i, "probe")
  /\ client' = [client EXCEPT ![Route(i)] = "up"]
  /\ UNCHANGED <<begun, inFlight, engine, left, race>>

\* ... or which returned first, or not in time.
WaitEnds(i) == At(i) = "wait" /\ GivesUp(i)

-----------------------------------------------------------------------------
(* The end of the race.                                                    *)

Abandoned(i) ==
  [lane[i] EXCEPT !.at = IF @ \in {"prepare", "blocked"} THEN "blocked" ELSE "over"]

\* Mutant: the losers are left to their own lanes.
SettleForgetsLosers(result, stops) ==
  /\ race' = [settled |-> TRUE, winner |-> result]
  /\ lane' = [i \in Ids |-> Abandoned(i)]
  /\ inFlight' = {}
  /\ UNCHANGED <<client, engine, begun, left>>

\* raceLanes' finally: whatever is in flight has lost and is stopped; lanes are
\* cancelled where they are suspended.
Settle(result, stops) ==
  /\ race' = [settled |-> TRUE, winner |-> result]
  /\ lane' = [i \in Ids |-> Abandoned(i)]
  /\ inFlight' = {}
  /\ client' = ClientsStopped(stops)
  /\ engine' \in Stopped(stops)
  /\ UNCHANGED <<begun, left>>

\* Mutant: a route that is kept is stopped like the others.
ProbeWorksUnkept(i) ==
  /\ At(i) = "probe" /\ ~race.settled
  /\ Settle(Route(i), inFlight)

\* A real request got through.
ProbeWorks(i) ==
  /\ At(i) = "probe" /\ ~race.settled
  /\ Settle(Route(i), inFlight \ {Route(i)})

\* replaceSession and stopFromUser: every carrier is stopped and the race's
\* session cancelled.
Replaced ==
  /\ ~race.settled
  /\ Settle(None, Routes)

\* Mutant: a lane that comes back late goes on as if nothing had been settled.
BlockedGoesOn(i) == At(i) = "blocked" /\ GivesUp(i)

\* A preparation that outlived its race returns; its lane touches nothing.
BlockedReturns(i) ==
  /\ At(i) = "blocked"
  /\ lane' = Moved(i, "over")
  /\ UNCHANGED <<begun, client, inFlight, engine, left, race>>

-----------------------------------------------------------------------------
(* nativeRun, and the engine an earlier step left.                         *)

\* It takes the slot, or is refused; the refusal takes the slot as well.
RunTakes(r) ==
  /\ engine[r] = "launched"
  /\ engine' = IF \A o \in Engines : engine[o] # "running"
                 THEN [engine EXCEPT ![r] = "running"]
                 ELSE [SlotTaken(engine) EXCEPT ![r] = "none"]
  /\ UNCHANGED <<lane, begun, client, inFlight, left, race>>

RunReturns(r) ==
  /\ engine[r] \in {"running", "halted"}
  /\ engine' = [SlotTaken(engine) EXCEPT ![r] = "none"]
  /\ UNCHANGED <<lane, begun, client, inFlight, left, race>>

LeftGoes ==
  /\ left /\ left' = FALSE
  /\ UNCHANGED <<lane, begun, client, inFlight, engine, race>>

-----------------------------------------------------------------------------
LaneStep(i) ==
  \/ HeadEnds(i) \/ StaleGone(i) \/ StaleWaited(i) \/ StartFails(i) \/ StartReturns(i)
  \/ Prepared(i) \/ EngineOpens(i) \/ WaitEnds(i) \/ ProbeWorks(i) \/ ProbeFails(i)

Native(r) == RunTakes(r) \/ RunReturns(r)

Next ==
  \/ \E i \in Ids : LaneStep(i) \/ BlockedReturns(i)
  \/ \E r \in Engines : Native(r)
  \/ Replaced \/ LeftGoes

Spec == Init /\ [][Next]_vars

\* Everything a lane waits for has a budget, and a preparation that is cancelled
\* returns.  No route is assumed to work, no run to return.
FairSpec ==
  /\ Spec
  /\ \A i \in Ids : WF_vars(LaneStep(i)) /\ WF_vars(BlockedReturns(i))

-----------------------------------------------------------------------------
(* Properties.                                                             *)

\* Nothing the race started outlives it, in the service's own books: once it is
\* settled no client but the winner's is starting or up, and no lane that is
\* still inside its preparation can bring one up.
LosersStopped ==
  race.settled =>
    \A r \in Routes : client[r] \in {"starting", "up"} => r = race.winner

\* The winner is kept: what a request got through is still up, whichever losers
\* were stopped on its account.
WinnerKept == race.winner # None => client[race.winner] = "up"

\* A lane never sits out its head start behind lanes that have run out: while
\* the race is on, one that has begun is still running, once one has begun.
SomeLaneRuns ==
  ~race.settled /\ begun # {} => \E i \in begun : At(i) # "over"

\* A race is settled once and for good: neither a lane that comes back late from
\* its preparation nor one that was cancelled starts, stops or claims anything
\* after it, when the slots and stages are the next session's.
SettledForGood == [][race.settled => UNCHANGED <<race, client, inFlight>>]_vars

\* The race ends: a route gets out or every lane runs out of them.
RaceSettles == <>race.settled
=============================================================================
