--------------------------- MODULE AutoSearchProofs ---------------------------
(***************************************************************************)
(* What AutoSearch promises for any number of sessions, any plans, passes  *)
(* and events: the types; that there is one session of the current         *)
(* generation or one relaunch, unless a watcher has crossed its session;   *)
(* and that a search that is on is driven, crossed or not.                 *)
(***************************************************************************)
EXTENDS AutoSearch, FiniteSetTheorems, TLAPS

\* A session of the current generation that has not ended.
Here(s) == jobs[s].fresh /\ At(s) # "done"

\* It is the job, and not cancelled; a relaunch waits only on one that is parked;
\* from its race on it can be cancelled, and while it hands over it is watched.
Alone(s) ==
  Here(s) =>
    /\ s = job /\ ~jobs[s].cancelled
    /\ relaunches > 0 => At(s) = "parked"
    /\ At(s) \in {"race", "chain", "parked"} => cancellable
    /\ At(s) = "chain" => hops.watched = s

\* A winner that is watched is that of a session which is still there, and no
\* relaunch is pending.
WatchedThere ==
  hops.watched # None =>
    /\ Here(hops.watched) /\ At(hops.watched) \in {"chain", "parked"}
    /\ relaunches = 0

\* What holds until a watcher crosses its session.
Uncrossed ==
  ~hops.crossed => relaunches <= 1 /\ WatchedThere /\ \A s \in Jobs : Alone(s)

\* What a race left behind is nobody's.
LanesApart == \A s \in Jobs : At(s) = "lane" => ~jobs[s].fresh

\* While a command joins the old job, nothing is current, scheduled, watched or
\* leashed.
JoinIsAlone ==
  joining # None =>
    /\ relaunches = 0 /\ leash = "none" /\ hops.watched = None
    /\ \A s \in Jobs : ~Here(s)

\* A search that is on has a step to take, or is to be planned.
InPlan == search = "on" /\ steps # << >> => index < Len(steps)

Inv ==
  /\ TypeOK
  /\ Uncrossed
  /\ LanesApart
  /\ JoinIsAlone
  /\ InPlan
  /\ NeverStranded

JobFns == [Jobs -> JobStates]

\* The parts of the type invariant.
JobTypes ==
  /\ jobs \in JobFns
  /\ job \in Jobs \cup {None} /\ joining \in Jobs \cup {None} /\ stale \in Jobs \cup {None}
  /\ cancellable \in BOOLEAN
  /\ relaunches \in Nat /\ hops \in HopStates

StepTypes ==
  /\ steps \in Plans \cup {<< >>}
  /\ index \in Nat /\ passes \in Nat
  /\ engineUp \in BOOLEAN /\ running \in BOOLEAN
  /\ leash \in {"none", "budget", "grace"}
  /\ room \in BOOLEAN

OtherTypes ==
  /\ connected \in BOOLEAN /\ won \in BOOLEAN
  /\ online \in BOOLEAN
  /\ search \in {"off", "on", "over"}
  /\ events \in 0..MaxEvents

-----------------------------------------------------------------------------
(* The operators.                                                          *)

\* The type invariant is its parts.
LEMMA TypeParts ==
  /\ TypeOK <=> JobTypes /\ StepTypes /\ OtherTypes
  /\ TypeOK' <=> JobTypes' /\ StepTypes' /\ OtherTypes'
  BY DEF TypeOK, JobTypes, StepTypes, OtherTypes, JobFns

\* What a handler leaves alone keeps its type.
LEMMA SameTypes ==
  ASSUME TypeOK
  PROVE  /\ UNCHANGED <<steps, index, passes, engineUp, running, leash, room>> => StepTypes'
         /\ UNCHANGED <<connected, won, online, search, events>> => OtherTypes'
         /\ UNCHANGED <<jobVars, stale>> => JobTypes'
  BY DEF TypeOK, StepTypes, OtherTypes, JobTypes, jobVars, JobFns

\* Something from outside is counted.
LEMMA Counted ==
  ASSUME TypeOK, Happens
  PROVE  events' \in 0..MaxEvents
  BY ConstantsAssumption DEF TypeOK, Happens

\* The states that sessions and lanes start and end in.
LEMMA PlainJobs ==
  /\ Idle \in JobStates /\ Idle.at = "done" /\ Idle.fresh = FALSE
  /\ Begun \in JobStates /\ Begun.at = "begin" /\ Begun.fresh = TRUE /\ Begun.cancelled = FALSE
  /\ Lane \in JobStates /\ Lane.at = "lane" /\ Lane.fresh = FALSE
  /\ NoHops \in HopStates /\ NoHops.watched = None /\ NoHops.crossed = FALSE
<1>1. Idle \in JobStates /\ Idle.at = "done" /\ Idle.fresh = FALSE
  BY DEF Idle, JobStates, Labels
<1>2. Begun \in JobStates /\ Begun.at = "begin" /\ Begun.fresh = TRUE /\ Begun.cancelled = FALSE
  BY DEF Idle, Begun, JobStates, Labels
<1>3. Lane \in JobStates /\ Lane.at = "lane" /\ Lane.fresh = FALSE
  BY DEF Idle, Lane, JobStates, Labels
<1>4. NoHops \in HopStates /\ NoHops.watched = None /\ NoHops.crossed = FALSE
  BY DEF NoHops, HopStates
<1> QED
  BY <1>1, <1>2, <1>3, <1>4

\* A session that has ended is idle; the others stay.
LEMMA EndedJobs ==
  ASSUME NEW q \in JobFns, NEW s \in Jobs
  PROVE  /\ Ended(q, s) \in JobFns
         /\ Ended(q, s)[s].at = "done" /\ Ended(q, s)[s].fresh = FALSE
         /\ \A t \in Jobs \ {s} : Ended(q, s)[t] = q[t]
  BY PlainJobs DEF Ended, JobFns

\* One that goes on is of the generation it was.
LEMMA MovedJobs ==
  ASSUME NEW q \in JobFns, NEW s \in Jobs, NEW l \in Labels
  PROVE  /\ Moved(q, s, l) \in JobFns
         /\ Moved(q, s, l)[s].at = l /\ Moved(q, s, l)[s].fresh = q[s].fresh
         /\ Moved(q, s, l)[s].cancelled = q[s].cancelled
         /\ \A t \in Jobs \ {s} : Moved(q, s, l)[t] = q[t]
<1>1. q[s] \in JobStates
  BY DEF JobFns
<1>2. [q[s] EXCEPT !.at = l] \in JobStates /\ [q[s] EXCEPT !.at = l].at = l
      /\ [q[s] EXCEPT !.at = l].fresh = q[s].fresh
      /\ [q[s] EXCEPT !.at = l].cancelled = q[s].cancelled
  BY <1>1 DEF JobStates
<1>3. Moved(q, s, l) = [q EXCEPT ![s] = [q[s] EXCEPT !.at = l]]
  BY DEF Moved
<1> QED
  BY <1>2, <1>3 DEF JobFns

\* A new generation leaves none current, and all where they are.
LEMMA OutdatedJobs ==
  ASSUME NEW q \in JobFns
  PROVE  /\ Outdated(q) \in JobFns
         /\ \A t \in Jobs : Outdated(q)[t].at = q[t].at /\ Outdated(q)[t].fresh = FALSE
<1>1. \A t \in Jobs :
        /\ [q[t] EXCEPT !.fresh = FALSE] \in JobStates
        /\ [q[t] EXCEPT !.fresh = FALSE].at = q[t].at
        /\ [q[t] EXCEPT !.fresh = FALSE].fresh = FALSE
  BY DEF JobFns, JobStates
<1> QED
  BY <1>1 DEF Outdated, JobFns

\* A stop moves nobody.
LEMMA StoppedJobs ==
  ASSUME NEW q \in JobFns
  PROVE  /\ NativeStop(q) \in JobFns
         /\ \A t \in Jobs : /\ NativeStop(q)[t].at = q[t].at
                            /\ NativeStop(q)[t].fresh = q[t].fresh
                            /\ NativeStop(q)[t].cancelled = q[t].cancelled
<1>1. \A t \in Jobs :
        /\ q[t] \in JobStates
        /\ [q[t] EXCEPT !.halted = TRUE] \in JobStates
        /\ [q[t] EXCEPT !.halted = TRUE].at = q[t].at
        /\ [q[t] EXCEPT !.halted = TRUE].fresh = q[t].fresh
        /\ [q[t] EXCEPT !.halted = TRUE].cancelled = q[t].cancelled
  BY DEF JobFns, JobStates
<1> QED
  BY <1>1 DEF NativeStop, JobFns

\* Of some places there is a first.
LEMMA FirstPlace ==
  ASSUME NEW S, S \subseteq Jobs, S # {}
  PROVE  (CHOOSE s \in S : \A t \in S : s <= t) \in S
<1> DEFINE upTo == {1..j : j \in S}
<1>1. S \subseteq Nat /\ \A j \in S : 1..j \subseteq Jobs
  BY ConstantsAssumption DEF Jobs
<1>2. IsWellFoundedOn(StrictSubsetOrdering(Jobs), SUBSET Jobs)
  <2>1. IsFiniteSet(Jobs)
    BY ConstantsAssumption, FS_Interval DEF Jobs
  <2> QED
    BY <2>1, FS_StrictSubsetOrderingWellFounded, FS_FiniteSubsetsOfFinite
<1>3. PICK T \in upTo : \A U \in upTo : ~ (<<U, T>> \in StrictSubsetOrdering(Jobs))
  <2>1. upTo \subseteq SUBSET Jobs /\ upTo # {}
    BY <1>1
  <2> HIDE DEF upTo
  <2> QED
    BY <1>2, <2>1, WFMin
<1>4. PICK j \in S : T = 1..j
  BY <1>3
<1>5. ASSUME NEW n \in S PROVE j <= n
  <2> SUFFICES ASSUME n < j PROVE FALSE
    BY <1>1
  <2>1. 1..n \subseteq 1..j /\ 1..n # 1..j
    <3>1. j \in 1..j /\ j \notin 1..n
      BY <1>1
    <3> QED
      BY <1>1, <3>1
  <2>2. <<1..n, 1..j>> \in StrictSubsetOrdering(Jobs)
    BY <1>1, <2>1 DEF StrictSubsetOrdering
  <2> QED
    BY <1>3, <1>4, <2>2
<1> QED
  BY <1>5

\* Of the places that are free it is one of them.
LEMMA PlaceIsFree ==
  ASSUME NEW q, Free(q) # {}
  PROVE  Place(q) \in Free(q)
<1>1. Free(q) \subseteq Jobs
  BY DEF Free
<1> QED
  BY <1>1, FirstPlace DEF Place

\* A place that is free: the session there has ended.
LEMMA FreePlaces ==
  ASSUME NEW q, NEW l \in Free(q)
  PROVE  l \in Jobs /\ q[l].at = "done" /\ l # joining /\ l # stale
  BY DEF Free

\* A losing lane takes a place that is free.
LEMMA LaneTyped ==
  ASSUME NEW q \in JobFns, NEW l \in Losers(q)
  PROVE  /\ WithLane(q, l) \in JobFns /\ l \in Jobs \cup {None}
         /\ \A t \in Jobs :
              \/ WithLane(q, l)[t] = q[t]
              \/ q[t].at = "done" /\ WithLane(q, l)[t] = Lane
         /\ StaleAfter(l) \in {l, stale}
<1>0. StaleAfter(l) \in {l, stale}
  BY DEF StaleAfter
<1>1. l = None \/ l \in Free(q)
  BY DEF Losers
<1>2. CASE l = None
  <2>1. WithLane(q, l) = q
    BY <1>2 DEF WithLane
  <2> QED
    BY <1>0, <1>2, <2>1
<1>3. CASE l \in Free(q) /\ l # None
  <2>1. l \in Jobs /\ q[l].at = "done"
    BY <1>3, FreePlaces
  <2>2. WithLane(q, l) = [q EXCEPT ![l] = Lane]
    BY <1>3 DEF WithLane
  <2>3. Lane \in JobStates
    BY PlainJobs
  <2>4. WithLane(q, l) \in JobFns
    BY <2>1, <2>2, <2>3 DEF JobFns
  <2>5. \A t \in Jobs : WithLane(q, l)[t] = IF t = l THEN Lane ELSE q[t]
    BY <2>1, <2>2 DEF JobFns
  <2> QED
    BY <1>0, <2>1, <2>4, <2>5
<1> QED
  BY <1>1, <1>2, <1>3

\* The job is cancelled if it can be, and its race may leave a lane: whoever is
\* still there was there before, and is not a job that was suspended and could be
\* cancelled.
LEMMA CancelledJobs ==
  ASSUME NEW q \in JobFns, NEW l \in Cancelling(q), job \in Jobs \cup {None}
  PROVE  /\ WithLane(Cancelled(q), l) \in JobFns /\ l \in Jobs \cup {None}
         /\ StaleAfter(l) \in {l, stale}
         /\ \A t \in Jobs :
              \/ /\ WithLane(Cancelled(q), l)[t].at = q[t].at
                 /\ WithLane(Cancelled(q), l)[t].fresh = q[t].fresh
              \/ WithLane(Cancelled(q), l)[t] \in {Idle, Lane}
         /\ cancellable /\ job # None /\ q[job].at = "parked" =>
              WithLane(Cancelled(q), l)[job] \in {Idle, Lane}
<1>1. /\ Cancelled(q) \in JobFns
      /\ \A t \in Jobs : \/ Cancelled(q)[t].at = q[t].at /\ Cancelled(q)[t].fresh = q[t].fresh
                         \/ Cancelled(q)[t] = Idle
      /\ cancellable /\ job # None /\ q[job].at = "parked" => Cancelled(q)[job] = Idle
  <2>1. CASE ~cancellable \/ Gone(q, job)
    <3>1. Cancelled(q) = q
      BY <2>1 DEF Cancelled
    <3>2. ~(cancellable /\ job # None /\ q[job].at = "parked")
      BY <2>1 DEF Gone
    <3> QED
      BY <3>1, <3>2
  <2>2. CASE /\ cancellable /\ ~Gone(q, job)
             /\ q[job].at \in {"network", "stale", "race", "parked"}
    <3>1. Cancelled(q) = Ended(q, job) /\ job \in Jobs
      BY <2>2 DEF Cancelled, Gone
    <3>2. Cancelled(q) \in JobFns
      BY <3>1, EndedJobs
    <3>3. \A t \in Jobs : Cancelled(q)[t] = IF t = job THEN Idle ELSE q[t]
      BY <3>1 DEF Ended, JobFns
    <3> QED
      BY <3>1, <3>2, <3>3
  <2>3. CASE /\ cancellable /\ ~Gone(q, job)
             /\ q[job].at \notin {"network", "stale", "race", "parked"}
    <3> DEFINE c == [q[job] EXCEPT !.cancelled = TRUE]
    <3>1. Cancelled(q) = [q EXCEPT ![job] = c] /\ job \in Jobs
      BY <2>3 DEF Cancelled, Gone
    <3>2. c \in JobStates /\ c.at = q[job].at /\ c.fresh = q[job].fresh
      BY <3>1 DEF JobStates, JobFns
    <3> HIDE DEF c
    <3>3. \A t \in Jobs : Cancelled(q)[t] = IF t = job THEN c ELSE q[t]
      BY <3>1 DEF JobFns
    <3>4. Cancelled(q) \in JobFns
      BY <3>1, <3>2 DEF JobFns
    <3> QED
      BY <2>3, <3>2, <3>3, <3>4
  <2> QED
    BY <2>1, <2>2, <2>3
<1>2. l = None \/ l \in Losers(Cancelled(q))
  <2>1. CASE cancellable /\ job # None /\ q[job].at = "race"
    <3>1. Cancelling(q) = Losers(Ended(q, job)) /\ Cancelled(q) = Ended(q, job)
      BY <2>1 DEF Cancelling, Cancelled, Gone
    <3> QED
      BY <3>1
  <2>2. CASE ~(cancellable /\ job # None /\ q[job].at = "race")
    BY <2>2 DEF Cancelling
  <2> QED
    BY <2>1, <2>2
<1>3. CASE l = None
  BY <1>1, <1>3 DEF WithLane, StaleAfter
<1>4. CASE l \in Losers(Cancelled(q))
  <2>1. /\ WithLane(Cancelled(q), l) \in JobFns /\ l \in Jobs \cup {None}
        /\ \A t \in Jobs : WithLane(Cancelled(q), l)[t] \in {Cancelled(q)[t], Lane}
        /\ StaleAfter(l) \in {l, stale}
    BY <1>1, <1>4, LaneTyped
  <2> QED
    BY <1>1, <2>1
<1> QED
  BY <1>2, <1>3, <1>4

-----------------------------------------------------------------------------
(* Three ways a step can go.                                               *)

\* A session goes on, or ends, and the relaunches are as they were; a race that
\* ends may leave a lane.  One that was watched is parked, or no longer watched.
LEMMA OneMoves ==
  ASSUME Inv, TypeOK', InPlan', NEW s \in Jobs, At(s) \notin {"done", "parked"},
         job' = job, joining' = joining, relaunches' = relaunches,
         search' \in {search, "over"}, cancellable => cancellable',
         At(s)' # "lane",
         ~hops.crossed /\ Here(s) /\ At(s)' \in {"race", "chain", "parked"} => cancellable',
         jobs'[s].fresh => jobs[s].fresh /\ (jobs'[s].cancelled => jobs[s].cancelled),
         Drives(s) => Drives(s)' \/ search' # "on",
         leash' \notin {leash, "none"} => Here(s),
         hops'.crossed = hops.crossed,
         \/ hops'.watched = hops.watched
         \/ hops'.watched = None /\ hops.watched = s
         \/ hops'.watched = s /\ At(s)' = "chain" /\ jobs'[s].fresh /\ ~jobs'[s].cancelled,
         At(s)' = "chain" => hops'.watched = s,
         ~hops.crossed /\ hops.watched = s =>
           hops'.watched = None \/ (At(s)' \in {"chain", "parked"} /\ jobs'[s].fresh),
         \A t \in Jobs \ {s} : \/ jobs'[t] = jobs[t]
                               \/ jobs[t].at = "done" /\ jobs'[t] = Lane
  PROVE  Inv'
<1>1. \A t \in Jobs : Here(t)' => Here(t)
  BY PlainJobs DEF Here, At
<1>2. LanesApart'
  BY PlainJobs DEF Inv, LanesApart, At
<1>3. \A t \in Jobs \ {s} : Here(t) => jobs'[t] = jobs[t]
  BY DEF Here, At
<1>4. JoinIsAlone'
  <2> SUFFICES ASSUME joining # None
               PROVE  /\ relaunches' = 0 /\ leash' = "none" /\ hops'.watched = None
                      /\ \A t \in Jobs : ~Here(t)'
    BY DEF JoinIsAlone
  <2>1. /\ relaunches = 0 /\ leash = "none" /\ hops.watched = None
        /\ \A t \in Jobs : ~Here(t)
    BY DEF Inv, JoinIsAlone
  <2>2. ~jobs[s].fresh
    BY <2>1 DEF Here
  <2> QED
    BY <1>1, <2>1, <2>2
<1>5. Uncrossed'
  <2> SUFFICES ASSUME ~hops.crossed
               PROVE  relaunches' <= 1 /\ WatchedThere' /\ \A t \in Jobs : Alone(t)'
    BY DEF Uncrossed
  <2>1. relaunches <= 1 /\ WatchedThere /\ \A t \in Jobs : Alone(t)
    BY DEF Inv, Uncrossed
  <2>2. Here(s) => relaunches = 0 /\ s = job
    <3>1. relaunches \in Nat
      BY DEF Inv, TypeOK
    <3> QED
      BY <2>1, <3>1 DEF Alone
  <2>3. \A t \in Jobs : Alone(t)'
    <3> SUFFICES ASSUME NEW t \in Jobs, Here(t)' PROVE Alone(t)'
      BY DEF Alone
    <3>1. Here(t) /\ Alone(t)
      BY <1>1, <2>1
    <3>2. CASE t = s
      BY <2>2, <3>1, <3>2 DEF Alone, Here
    <3>3. CASE t # s
      <4>1. jobs'[t] = jobs[t]
        BY <1>3, <3>1, <3>3
      <4>2. t = job /\ ~Here(s)
        BY <2>2, <3>1, <3>3 DEF Alone
      <4>3. At(t) = "chain" => hops'.watched = hops.watched
        <5> SUFFICES ASSUME At(t) = "chain", hops'.watched # hops.watched PROVE FALSE
          OBVIOUS
        <5>1. hops.watched = t
          BY <3>1 DEF Alone
        <5>2. jobs[s].fresh
          BY <3>3, <5>1
        <5> QED
          BY <4>2, <5>2 DEF Here
      <4> QED
        BY <3>1, <4>1, <4>2, <4>3 DEF Alone, Here, At
    <3> QED
      BY <3>2, <3>3
  <2>4. WatchedThere'
    <3> SUFFICES ASSUME hops'.watched # None
                 PROVE  /\ Here(hops.watched)' /\ At(hops.watched)' \in {"chain", "parked"}
                        /\ relaunches' = 0
      BY DEF WatchedThere
    <3>1. CASE hops'.watched = s
      <4>1. At(s)' \in {"chain", "parked"} /\ jobs'[s].fresh
        BY <3>1
      <4>2. Here(s) /\ Here(s)'
        BY <4>1 DEF Here, At
      <4> QED
        BY <2>2, <3>1, <4>1, <4>2 DEF Here, At
    <3>2. CASE hops'.watched # s /\ hops'.watched = hops.watched
      <4>1. Here(hops.watched) /\ At(hops.watched) \in {"chain", "parked"} /\ relaunches = 0
        BY <2>1, <3>2 DEF WatchedThere
      <4>2. hops.watched \in Jobs
        BY <3>2 DEF Inv, TypeOK, HopStates
      <4>3. jobs'[hops.watched] = jobs[hops.watched]
        BY <1>3, <3>2, <4>1, <4>2
      <4> QED
        BY <3>2, <4>1, <4>3 DEF Here, At
    <3> QED
      BY <3>1, <3>2
  <2> QED
    BY <2>1, <2>3, <2>4
<1>6. NeverStranded'
  <2> SUFFICES ASSUME search' = "on", ~(relaunches' > 0), joining' = None
               PROVE  \E t \in Jobs : Drives(t)'
    BY DEF NeverStranded
  <2>1. PICK t \in Jobs : Drives(t)
    BY DEF Inv, NeverStranded
  <2>2. CASE t = s
    BY <2>1, <2>2
  <2>3. CASE t # s
    <3>1. jobs'[t] = jobs[t]
      BY <1>3, <2>1, <2>3 DEF Drives, Carries, Here
    <3>2. CASE hops'.watched = hops.watched \/ hops.watched = s
      BY <2>1, <2>3, <3>1, <3>2 DEF Drives, Carries, At
    <3>3. CASE /\ hops'.watched = s /\ At(s)' = "chain"
               /\ jobs'[s].fresh /\ ~jobs'[s].cancelled
      BY <3>3 DEF Drives, Carries
    <3> QED
      BY <3>2, <3>3
  <2> QED
    BY <2>2, <2>3
<1> QED
  BY <1>2, <1>4, <1>5, <1>6 DEF Inv

\* A session that is in no winner's place goes on, or ends where none is needed.
LEMMA SessionMoves ==
  ASSUME Inv, TypeOK', InPlan', NEW s \in Jobs, At(s) \notin {"done", "chain", "parked"},
         UNCHANGED <<job, joining, relaunches, hops>>, search' \in {search, "over"},
         cancellable => cancellable', leash' \notin {leash, "none"} => Here(s),
         \A t \in Jobs \ {s} : jobs'[t] = jobs[t],
         \/ /\ jobs'[s].at \notin {"done", "lane", "chain", "parked"}
            /\ jobs'[s].fresh = jobs[s].fresh /\ jobs'[s].cancelled = jobs[s].cancelled
            /\ jobs'[s].at = "race" => cancellable'
         \/ /\ jobs'[s].at = "done" /\ ~jobs'[s].fresh
            /\ jobs[s].fresh /\ ~jobs[s].cancelled => search' # "on"
  PROVE  Inv'
<1>1. Drives(s) => Drives(s)' \/ search' # "on"
  BY DEF Drives, Carries, At
<1>2. ~(~hops.crossed /\ hops.watched = s)
  BY DEF Inv, Uncrossed, WatchedThere, None, Jobs
<1>3. At(s)' \notin {"lane", "chain", "parked"} /\ (At(s)' = "race" => cancellable')
  BY DEF At
<1> QED
  BY <1>1, <1>2, <1>3, OneMoves

\* Who watches goes on, but for the winner of s.
LetsGo(h, s) ==
  /\ h.crossed = hops.crossed
  /\ h.watched = hops.watched \/ (h.watched = None /\ hops.watched = s)

\* One that was replaced, or cancelled, ends; its winner, if it had one, is no
\* longer watched.
LEMMA NobodysEnds ==
  ASSUME Inv, TypeOK', InPlan', NEW s \in Jobs, jobs[s].cancelled \/ ~jobs[s].fresh,
         jobs'[s].at = "done", ~jobs'[s].fresh, \A t \in Jobs \ {s} : jobs'[t] = jobs[t],
         UNCHANGED <<job, cancellable, joining, relaunches, search>>, leash' \in {leash, "none"},
         LetsGo(hops', s)
  PROVE  Inv'
<1>0. /\ hops'.crossed = hops.crossed
      /\ hops'.watched = hops.watched \/ (hops'.watched = None /\ hops.watched = s)
  BY DEF LetsGo
<1>1. \A t \in Jobs : Here(t)' => Here(t) /\ jobs'[t] = jobs[t]
  BY DEF Here, At
<1>2. LanesApart'
  BY DEF Inv, LanesApart, At
<1>3. JoinIsAlone'
  BY <1>0, <1>1 DEF Inv, JoinIsAlone
<1>4. Uncrossed'
  <2> SUFFICES ASSUME ~hops.crossed
               PROVE  relaunches' <= 1 /\ WatchedThere' /\ \A t \in Jobs : Alone(t)'
    BY <1>0 DEF Uncrossed
  <2>1. relaunches <= 1 /\ WatchedThere /\ \A t \in Jobs : Alone(t)
    BY DEF Inv, Uncrossed
  <2>2. ~Here(s)
    BY <2>1 DEF Alone, Here
  <2>3. hops'.watched = hops.watched /\ hops.watched # s
    BY <1>0, <2>1, <2>2 DEF WatchedThere, None, Jobs
  <2>4. \A t \in Jobs : Alone(t)'
    BY <1>1, <2>1, <2>3 DEF Alone, At
  <2>5. WatchedThere'
    <3> SUFFICES ASSUME hops.watched # None
                 PROVE  /\ Here(hops.watched)' /\ At(hops.watched)' \in {"chain", "parked"}
                        /\ relaunches' = 0
      BY <2>3 DEF WatchedThere
    <3>1. hops.watched \in Jobs
      BY DEF Inv, TypeOK, HopStates
    <3>2. jobs'[hops.watched] = jobs[hops.watched]
      BY <2>3, <3>1
    <3> QED
      BY <2>1, <2>3, <3>2 DEF WatchedThere, Here, At
  <2> QED
    BY <2>1, <2>4, <2>5
<1>5. NeverStranded'
  <2> SUFFICES ASSUME search' = "on", ~(relaunches' > 0), joining' = None
               PROVE  \E t \in Jobs : Drives(t)'
    BY DEF NeverStranded
  <2>1. PICK t \in Jobs : Drives(t)
    BY DEF Inv, NeverStranded
  <2>2. t # s
    BY <2>1 DEF Drives
  <2>3. jobs'[t] = jobs[t]
    BY <2>2
  <2> QED
    BY <1>0, <2>1, <2>2, <2>3 DEF Drives, Carries, At
<1> QED
  BY <1>2, <1>3, <1>4, <1>5 DEF Inv

\* Nobody moves.
LEMMA NobodyMoves ==
  ASSUME Inv, TypeOK', InPlan',
         UNCHANGED <<job, cancellable, joining, relaunches, hops, search>>,
         leash' \notin {leash, "none"} => joining = None,
         \A t \in Jobs : /\ jobs'[t].at = jobs[t].at /\ jobs'[t].fresh = jobs[t].fresh
                         /\ jobs'[t].cancelled = jobs[t].cancelled
  PROVE  Inv'
<1>1. \A t \in Jobs : (Here(t)' <=> Here(t)) /\ At(t)' = At(t)
  BY DEF Here, At
<1>2. LanesApart' /\ JoinIsAlone'
  BY <1>1 DEF Inv, LanesApart, JoinIsAlone
<1>3. Uncrossed'
  <2> SUFFICES ASSUME ~hops.crossed
               PROVE  relaunches' <= 1 /\ WatchedThere' /\ \A t \in Jobs : Alone(t)'
    BY DEF Uncrossed
  <2>1. relaunches <= 1 /\ WatchedThere /\ \A t \in Jobs : Alone(t)
    BY DEF Inv, Uncrossed
  <2>2. \A t \in Jobs : Alone(t)'
    BY <1>1, <2>1 DEF Alone
  <2>3. hops.watched # None => hops.watched \in Jobs
    BY DEF Inv, TypeOK, HopStates
  <2>4. WatchedThere'
    BY <1>1, <2>1, <2>3 DEF WatchedThere
  <2> QED
    BY <2>1, <2>2, <2>4
<1>4. \A t \in Jobs : Drives(t) => Drives(t)'
  BY <1>1 DEF Drives, Carries
<1>5. NeverStranded'
  BY <1>4 DEF Inv, NeverStranded
<1> QED
  BY <1>2, <1>3, <1>5 DEF Inv

\* Nobody left: the search gave up.
LEMMA NobodyLeft ==
  ASSUME Inv, TypeOK', search' = "over", relaunches' = 0, leash' = "none", hops' = NoHops,
         \A t \in Jobs : ~Here(t)', \A t \in Jobs : At(t)' = "lane" => ~jobs'[t].fresh
  PROVE  Inv'
<1>1. Uncrossed'
  BY PlainJobs DEF Uncrossed, WatchedThere, Alone
<1> QED
  BY <1>1, PlainJobs DEF Inv, JoinIsAlone, InPlan, NeverStranded, LanesApart

\* One begins, alone if no watcher has crossed its session.
LEMMA OneBegins ==
  ASSUME Inv, TypeOK', NEW s \in Jobs, job' = s, jobs'[s] = Begun, joining' = None,
         ~hops'.crossed => /\ relaunches' = 0 /\ hops'.watched = None
                           /\ \A t \in Jobs \ {s} : ~Here(t)',
         \A t \in Jobs \ {s} : At(t)' = "lane" => ~jobs'[t].fresh, InPlan'
  PROVE  Inv'
<1>1. At(s)' = "begin" /\ jobs'[s].fresh /\ ~jobs'[s].cancelled
  BY PlainJobs DEF At
<1>2. Uncrossed'
  <2> SUFFICES ASSUME ~hops'.crossed
               PROVE  relaunches' <= 1 /\ WatchedThere' /\ \A t \in Jobs : Alone(t)'
    BY DEF Uncrossed
  <2>1. relaunches' = 0 /\ hops'.watched = None /\ \A t \in Jobs \ {s} : ~Here(t)'
    OBVIOUS
  <2>2. \A t \in Jobs : Alone(t)'
    BY <1>1, <2>1 DEF Alone
  <2> QED
    BY <2>1, <2>2 DEF WatchedThere
<1>3. NeverStranded'
  BY <1>1 DEF NeverStranded, Drives
<1>4. LanesApart'
  BY <1>1 DEF LanesApart
<1> QED
  BY <1>2, <1>3, <1>4 DEF Inv, JoinIsAlone

-----------------------------------------------------------------------------
(* Commands and the network.                                               *)

\* A place in q, and who is there when a session begins in it.
LEMMA BegunJobs ==
  ASSUME NEW q \in JobFns, Free(q) # {}
  PROVE  /\ Place(q) \in Jobs /\ q[Place(q)].at = "done"
         /\ [q EXCEPT ![Place(q)] = Begun] \in JobFns
         /\ [q EXCEPT ![Place(q)] = Begun][Place(q)] = Begun
         /\ \A t \in Jobs \ {Place(q)} : [q EXCEPT ![Place(q)] = Begun][t] = q[t]
<1>1. Place(q) \in Jobs /\ q[Place(q)].at = "done"
  BY PlaceIsFree, FreePlaces
<1> QED
  BY <1>1, PlainJobs DEF JobFns

\* replaceSession: nothing of before is current.
LEMMA ConnectKeeps == Inv /\ Connect => Inv'
<1> SUFFICES ASSUME Inv, Connect
             PROVE  Inv'
  OBVIOUS
<1>1. jobs \in JobFns /\ job \in Jobs \cup {None} /\ TypeOK
  BY DEF Inv, TypeOK, JobFns
<1> DEFINE before == NativeStop(Outdated(jobs))
<1>2. before \in JobFns /\ \A t \in Jobs : ~before[t].fresh
  BY <1>1, OutdatedJobs, StoppedJobs
<1>3. PICK l \in Cancelling(before) :
        LET q == WithLane(Cancelled(before), l) IN
        /\ stale' = StaleAfter(l)
        /\ IF Gone(q, job)
             THEN /\ Free(q) # {}
                  /\ jobs' = [q EXCEPT ![Place(q)] = Begun] /\ job' = Place(q)
                  /\ cancellable' = FALSE /\ UNCHANGED joining
             ELSE jobs' = q /\ joining' = job /\ UNCHANGED <<job, cancellable>>
  BY DEF Connect
<1> HIDE DEF before
<1> DEFINE q == WithLane(Cancelled(before), l)
<1>4. /\ q \in JobFns /\ stale' \in Jobs \cup {None}
      /\ \A t \in Jobs : ~q[t].fresh
  <2>1. /\ q \in JobFns /\ l \in Jobs \cup {None} /\ StaleAfter(l) \in {l, stale}
        /\ \A t \in Jobs : q[t].fresh = before[t].fresh \/ q[t] \in {Idle, Lane}
    BY <1>1, <1>2, CancelledJobs
  <2> QED
    BY <1>1, <1>2, <1>3, <2>1, PlainJobs DEF TypeOK
<1>5. /\ IF Gone(q, job)
           THEN /\ Free(q) # {}
                /\ jobs' = [q EXCEPT ![Place(q)] = Begun] /\ job' = Place(q)
                /\ cancellable' = FALSE /\ UNCHANGED joining
           ELSE jobs' = q /\ joining' = job /\ UNCHANGED <<job, cancellable>>
  BY <1>3
<1> HIDE DEF q
<1>6. /\ joining = None /\ search' = "on" /\ steps' = << >> /\ leash' = "none" /\ relaunches' = 0
      /\ passes' = 0 /\ connected' = FALSE /\ events < MaxEvents /\ events' = events + 1
      /\ hops' = NoHops
      /\ UNCHANGED <<index, engineUp, running, won, room, online>>
  BY DEF Connect, Happens
<1>7. InPlan'
  BY <1>6 DEF InPlan
<1>8. job' \in Jobs \cup {None} /\ joining' \in Jobs \cup {None} /\ jobs' \in JobFns
      /\ cancellable' \in BOOLEAN
  <2>1. CASE Gone(q, job)
    <3>1. /\ Free(q) # {} /\ jobs' = [q EXCEPT ![Place(q)] = Begun] /\ job' = Place(q)
          /\ cancellable' = FALSE /\ joining' = joining
      BY <1>5, <2>1
    <3>2. Place(q) \in Jobs /\ jobs' \in JobFns
      BY <1>4, <3>1, BegunJobs
    <3> QED
      BY <1>6, <3>1, <3>2
  <2>2. CASE ~Gone(q, job)
    <3>1. jobs' = q /\ joining' = job /\ UNCHANGED <<job, cancellable>>
      BY <1>5, <2>2
    <3> QED
      BY <1>1, <1>4, <3>1 DEF TypeOK
  <2> QED
    BY <2>1, <2>2
<1>9. TypeOK'
  <2>1. events' \in 0..MaxEvents
    BY <1>1, <1>6, ConstantsAssumption DEF TypeOK
  <2>2. JobTypes'
    BY <1>4, <1>6, <1>8, PlainJobs DEF JobTypes
  <2>3. StepTypes'
    BY <1>1, <1>6 DEF StepTypes, TypeOK
  <2>4. OtherTypes'
    BY <1>1, <1>6, <2>1 DEF OtherTypes, TypeOK
  <2> QED
    BY <2>2, <2>3, <2>4, TypeParts
<1>10. CASE Gone(q, job)
  <2>1. /\ Place(q) \in Jobs /\ job' = Place(q) /\ jobs'[Place(q)] = Begun /\ joining' = None
        /\ \A t \in Jobs \ {Place(q)} : jobs'[t] = q[t]
    BY <1>4, <1>5, <1>6, <1>10, BegunJobs
  <2>2. \A t \in Jobs \ {Place(q)} : ~jobs'[t].fresh
    BY <1>4, <2>1
  <2> QED
    BY <1>6, <1>7, <1>9, <2>1, <2>2, OneBegins, PlainJobs DEF Here
<1>11. CASE ~Gone(q, job)
  <2>1. job # None /\ joining' = job /\ jobs' = q
    BY <1>5, <1>11 DEF Gone
  <2>2. \A t \in Jobs : ~jobs'[t].fresh /\ ~Here(t)'
    BY <1>4, <2>1 DEF Here
  <2>3. Uncrossed' /\ LanesApart'
    BY <1>6, <2>2, PlainJobs DEF Uncrossed, WatchedThere, Alone, LanesApart
  <2> QED
    BY <1>6, <1>7, <1>9, <2>1, <2>2, <2>3, PlainJobs DEF Inv, JoinIsAlone, NeverStranded
<1> QED
  BY <1>10, <1>11

\* The join returned: the new session is alone.
LEMMA JoinKeeps == Inv /\ JoinReturns => Inv'
<1> SUFFICES ASSUME Inv, JoinReturns
             PROVE  Inv'
  OBVIOUS
<1>1. jobs \in JobFns /\ TypeOK
  BY DEF Inv, TypeOK, JobFns
<1>2. /\ joining # None /\ Free(jobs) # {} /\ joining' = None
      /\ jobs' = [jobs EXCEPT ![Place(jobs)] = Begun] /\ job' = Place(jobs) /\ cancellable' = FALSE
      /\ UNCHANGED <<relaunches, hops, steps, index, passes, engineUp, connected, running, won,
                     leash, room, stale, online, search, events>>
  BY DEF JoinReturns, planVars
<1>3. /\ Place(jobs) \in Jobs /\ jobs' \in JobFns /\ jobs'[Place(jobs)] = Begun
      /\ \A t \in Jobs \ {Place(jobs)} : jobs'[t] = jobs[t]
  BY <1>1, <1>2, BegunJobs
<1>4. relaunches' = 0 /\ hops'.watched = None /\ \A t \in Jobs : ~Here(t)
  BY <1>2 DEF Inv, JoinIsAlone
<1>5. TypeOK'
  <2>1. cancellable' \in BOOLEAN
    BY <1>2
  <2>2. JobTypes'
    BY <1>1, <1>2, <1>3, <2>1 DEF TypeOK, JobTypes
  <2>3. StepTypes' /\ OtherTypes'
    BY <1>1, <1>2, SameTypes
  <2> QED
    BY <2>2, <2>3, TypeParts
<1>6. InPlan'
  BY <1>2 DEF Inv, InPlan
<1>7. \A t \in Jobs \ {Place(jobs)} : ~Here(t)' /\ (At(t)' = "lane" => ~jobs'[t].fresh)
  BY <1>3, <1>4 DEF Inv, LanesApart, Here, At
<1> QED
  BY <1>2, <1>3, <1>4, <1>5, <1>6, <1>7, OneBegins

\* A relaunch takes over from the session it replaces.
LEMMA RelaunchKeeps == Inv /\ RelaunchFires => Inv'
<1> SUFFICES ASSUME Inv, RelaunchFires
             PROVE  Inv'
  OBVIOUS
<1>1. jobs \in JobFns /\ job \in Jobs \cup {None} /\ TypeOK
  BY DEF Inv, TypeOK, JobFns
<1>2. PICK l \in Cancelling(jobs) :
        LET q == WithLane(Cancelled(jobs), l) IN
        /\ Free(q) # {}
        /\ jobs' = [q EXCEPT ![Place(q)] = Begun] /\ job' = Place(q)
        /\ stale' = StaleAfter(l)
  BY DEF RelaunchFires
<1> DEFINE q == WithLane(Cancelled(jobs), l)
<1>3. /\ q \in JobFns /\ l \in Jobs \cup {None} /\ StaleAfter(l) \in {l, stale}
      /\ \A t \in Jobs : \/ q[t].at = jobs[t].at /\ q[t].fresh = jobs[t].fresh
                         \/ q[t] \in {Idle, Lane}
      /\ cancellable /\ job # None /\ jobs[job].at = "parked" => q[job] \in {Idle, Lane}
  BY <1>1, CancelledJobs
<1>4. /\ Free(q) # {} /\ jobs' = [q EXCEPT ![Place(q)] = Begun] /\ job' = Place(q)
      /\ stale' = StaleAfter(l)
  BY <1>2
<1> HIDE DEF q
<1>5. /\ relaunches > 0 /\ relaunches' = relaunches - 1 /\ cancellable' = FALSE
      /\ UNCHANGED <<joining, hops, steps, index, passes, engineUp, connected, running, won, leash,
                     room, online, search, events>>
  BY DEF RelaunchFires
<1>6. relaunches \in Nat /\ relaunches' \in Nat /\ joining' = None
  <2>1. relaunches \in Nat
    BY <1>1 DEF TypeOK
  <2> QED
    BY <1>5, <2>1 DEF Inv, JoinIsAlone
<1>7. /\ Place(q) \in Jobs /\ jobs' \in JobFns /\ jobs'[Place(q)] = Begun
      /\ \A t \in Jobs \ {Place(q)} : jobs'[t] = q[t]
  BY <1>3, <1>4, BegunJobs
<1>8. TypeOK'
  <2>1. job' \in Jobs \cup {None} /\ joining' \in Jobs \cup {None} /\ stale' \in Jobs \cup {None}
    BY <1>1, <1>3, <1>4, <1>6, <1>7 DEF TypeOK
  <2>2. /\ cancellable' \in BOOLEAN /\ relaunches' \in Nat /\ hops' \in HopStates
        /\ jobs' \in JobFns
    <3>1. cancellable' \in BOOLEAN /\ hops' \in HopStates
      BY <1>1, <1>5 DEF TypeOK
    <3> QED
      BY <1>6, <1>7, <3>1
  <2>3. StepTypes' /\ OtherTypes'
    BY <1>1, <1>5 DEF StepTypes, OtherTypes, TypeOK
  <2> QED
    BY <2>1, <2>2, <2>3, TypeParts DEF JobTypes
<1>9. InPlan'
  BY <1>5 DEF Inv, InPlan
<1>10. \A t \in Jobs \ {Place(q)} : At(t)' = "lane" => ~jobs'[t].fresh
  BY <1>3, <1>7, PlainJobs DEF Inv, LanesApart, At
<1>11. ASSUME ~hops.crossed
       PROVE  /\ relaunches' = 0 /\ hops.watched = None
              /\ \A t \in Jobs \ {Place(q)} : ~Here(t)'
  <2>1. relaunches <= 1 /\ WatchedThere /\ \A t \in Jobs : Alone(t)
    BY <1>11 DEF Inv, Uncrossed
  <2>2. relaunches' = 0 /\ hops.watched = None
    BY <1>5, <1>6, <2>1 DEF WatchedThere
  <2>3. ASSUME NEW t \in Jobs \ {Place(q)} PROVE ~Here(t)'
    <3>1. jobs'[t] = q[t]
      BY <1>7, <2>3
    <3>2. CASE q[t] \in {Idle, Lane}
      BY <3>1, <3>2, PlainJobs DEF Here
    <3>3. CASE q[t].at = jobs[t].at /\ q[t].fresh = jobs[t].fresh /\ q[t] \notin {Idle, Lane}
      <4> SUFFICES ASSUME Here(t) PROVE FALSE
        BY <3>1, <3>3 DEF Here, At
      <4>1. t = job /\ At(t) = "parked" /\ cancellable
        BY <1>5, <2>1, <2>3 DEF Alone
      <4>2. job # None
        BY <2>3, <4>1 DEF None, Jobs
      <4> QED
        BY <1>3, <3>3, <4>1, <4>2 DEF At
    <3> QED
      BY <1>3, <2>3, <3>2, <3>3
  <2> QED
    BY <2>2, <2>3
<1>12. hops' = hops
  BY <1>5
<1> QED
  BY <1>4, <1>6, <1>7, <1>8, <1>9, <1>10, <1>11, <1>12, OneBegins

-----------------------------------------------------------------------------
(* What follows a step that is over.                                       *)

\* The session that failed, or its watcher, has a relaunch scheduled.
Scheduled(q, r, h) ==
  /\ jobs' = q /\ relaunches' = r /\ hops' = h
  /\ job' = job /\ search' = search /\ InPlan'

\* The search gave up: a new generation, and nothing of it.
GaveUp ==
  /\ search' = "over" /\ relaunches' = 0 /\ hops' = NoHops /\ job' = None /\ leash' = "none"
  /\ \A t \in Jobs : ~jobs'[t].fresh

\* enterStep leashes only a session of the current generation.
LEMMA EnterTyped ==
  ASSUME NEW p, NEW i \in Nat, NEW current \in BOOLEAN, EnterStep(p, i, current)
  PROVE  /\ index' = i /\ engineUp' \in BOOLEAN /\ room' \in BOOLEAN
         /\ leash' \in {"none", "budget", "grace"}
         /\ leash' = "none" \/ current
         /\ StepAt(p, i) = "none" => leash' = "none"
  BY DEF EnterStep

\* giveUp leaves nobody.
LEMMA GiveUpLeaves ==
  ASSUME NEW q \in JobFns, GiveUp(q)
  PROVE  /\ jobs' \in JobFns /\ \A t \in Jobs : ~jobs'[t].fresh
         /\ search' = "over" /\ relaunches' = 0 /\ hops' = NoHops /\ job' = None
         /\ UNCHANGED <<steps, running>>
<1>1. /\ jobs' = NativeStop(Outdated(q))
      /\ search' = "over" /\ relaunches' = 0 /\ hops' = NoHops /\ job' = None
      /\ UNCHANGED <<steps, running>>
  BY DEF GiveUp
<1>2. Outdated(q) \in JobFns /\ \A t \in Jobs : ~Outdated(q)[t].fresh
  BY OutdatedJobs
<1>3. jobs' \in JobFns /\ \A t \in Jobs : ~jobs'[t].fresh
  BY <1>1, <1>2, StoppedJobs
<1> QED
  BY <1>1, <1>3

\* finishStep: what it schedules has a step to take, or it gave up.
LEMMA FinishTyped ==
  ASSUME TypeOK, NEW q \in JobFns, NEW r \in Nat, NEW h \in HopStates, NEW current \in BOOLEAN,
         FinishStep(q, r, h, current)
  PROVE  /\ StepTypes' /\ jobs' \in JobFns /\ relaunches' \in Nat /\ hops' \in HopStates
         /\ leash' = "none" \/ current
         /\ Scheduled(q, r, h) \/ GaveUp
<1>1. /\ index \in Nat /\ passes \in Nat /\ steps \in Plans \cup {<< >>} /\ running \in BOOLEAN
  BY DEF TypeOK
<1>2. /\ EnterStep(steps, index + 1, current)
      /\ IF index + 1 < Len(steps)
           THEN /\ jobs' = q /\ relaunches' = r /\ hops' = h
                /\ UNCHANGED <<job, search, steps, passes, running>>
           ELSE /\ passes' = passes + 1
                /\ \/ GiveUp(q)
                   \/ /\ passes + 1 < MaxPasses
                      /\ steps' = << >> /\ running' = FALSE
                      /\ jobs' = q /\ relaunches' = r /\ hops' = h
                      /\ UNCHANGED <<job, search>>
  BY DEF FinishStep
<1>3. /\ index' = index + 1 /\ index' \in Nat /\ engineUp' \in BOOLEAN /\ room' \in BOOLEAN
      /\ leash' \in {"none", "budget", "grace"} /\ (leash' = "none" \/ current)
      /\ StepAt(steps, index + 1) = "none" => leash' = "none"
  <2>1. EnterStep(steps, index + 1, current) /\ index + 1 \in Nat
    BY <1>1, <1>2
  <2> QED
    BY <2>1, EnterTyped
<1>4. CASE index + 1 < Len(steps)
  <2>1. /\ jobs' = q /\ relaunches' = r /\ hops' = h
        /\ UNCHANGED <<job, search, steps, passes, running>>
    BY <1>2, <1>4
  <2>2. StepTypes'
    BY <1>1, <1>3, <2>1 DEF StepTypes
  <2>3. Scheduled(q, r, h)
    BY <1>3, <1>4, <2>1 DEF Scheduled, InPlan
  <2> QED
    BY <1>3, <2>1, <2>2, <2>3
<1>5. CASE ~(index + 1 < Len(steps))
  <2>1. passes' = passes + 1 /\ passes' \in Nat
    BY <1>1, <1>2, <1>5
  <2>2. CASE GiveUp(q)
    <3>1. /\ jobs' \in JobFns /\ \A t \in Jobs : ~jobs'[t].fresh
          /\ search' = "over" /\ relaunches' = 0 /\ hops' = NoHops /\ job' = None
          /\ UNCHANGED <<steps, running>>
      BY <2>2, GiveUpLeaves
    <3>2. leash' = "none"
      BY <1>3, <1>5 DEF StepAt
    <3> QED
      BY <1>1, <1>3, <2>1, <3>1, <3>2, PlainJobs DEF StepTypes, GaveUp
  <2>3. CASE steps' = << >> /\ running' = FALSE
             /\ jobs' = q /\ relaunches' = r /\ hops' = h
             /\ UNCHANGED <<job, search>>
    <3>1. StepTypes'
      BY <1>1, <1>3, <2>1, <2>3 DEF StepTypes
    <3>2. Scheduled(q, r, h)
      BY <2>3 DEF Scheduled, InPlan
    <3> QED
      BY <1>3, <2>3, <3>1, <3>2
  <2> QED
    BY <1>2, <1>5, <2>2, <2>3
<1> QED
  BY <1>4, <1>5

\* advanceAuto: one relaunch more, or the search gave up.
LEMMA AdvanceTyped ==
  ASSUME Inv, NEW q \in JobFns, NEW h \in HopStates, NEW time, AdvanceAuto(q, h, time)
  PROVE  /\ StepTypes' /\ connected' \in BOOLEAN
         /\ jobs' \in JobFns /\ relaunches' \in Nat /\ hops' \in HopStates
         /\ Scheduled(q, relaunches + 1, h) \/ GaveUp
<1>1. TypeOK /\ connected \in BOOLEAN /\ relaunches + 1 \in Nat
  BY DEF Inv, TypeOK
<1>2. CASE connected
  <2>1. /\ steps' = << >> /\ passes' = 0 /\ connected' = FALSE /\ running' = FALSE
        /\ jobs' = q /\ relaunches' = relaunches + 1 /\ hops' = h
        /\ UNCHANGED <<job, search, index, engineUp, leash, room>>
    BY <1>2 DEF AdvanceAuto
  <2>2. StepTypes'
    BY <1>1, <2>1 DEF StepTypes, TypeOK
  <2>3. Scheduled(q, relaunches + 1, h) /\ connected' \in BOOLEAN
    BY <2>1 DEF Scheduled, InPlan
  <2> QED
    BY <1>1, <2>1, <2>2, <2>3
<1>3. CASE ~connected /\ StepAt(steps, index) = "engine" /\ time
  <2>1. /\ connected' = connected /\ engineUp' = FALSE
        /\ jobs' = q /\ relaunches' = relaunches + 1 /\ hops' = h
        /\ UNCHANGED <<job, search, steps, index, passes, running, leash, room>>
    BY <1>3 DEF AdvanceAuto
  <2>2. StepTypes'
    BY <1>1, <2>1 DEF StepTypes, TypeOK
  <2>3. InPlan'
    BY <2>1 DEF Inv, InPlan
  <2> QED
    BY <1>1, <2>1, <2>2, <2>3 DEF Scheduled
<1>4. CASE ~connected /\ ~(StepAt(steps, index) = "engine" /\ time)
  <2>1. connected' = connected
    BY <1>4 DEF AdvanceAuto
  <2>2. FinishStep(q, relaunches + 1, h, TRUE)
    BY <1>4 DEF AdvanceAuto
  <2>3. /\ StepTypes' /\ jobs' \in JobFns /\ relaunches' \in Nat /\ hops' \in HopStates
        /\ Scheduled(q, relaunches + 1, h) \/ GaveUp
    BY <1>1, <2>2, FinishTyped
  <2> QED
    BY <1>1, <2>1, <2>2, <2>3
<1> QED
  BY <1>2, <1>3, <1>4

\* A session that failed is over, and if it was of the current generation it has
\* a relaunch scheduled, or the search gave up.
LEMMA ScheduleTyped ==
  ASSUME Inv, NEW s \in Jobs, NEW h \in HopStates, NEW time \in BOOLEAN,
         ScheduleReconnect(s, h, time)
  PROVE  /\ StepTypes' /\ connected' \in BOOLEAN /\ jobs' \in JobFns /\ relaunches' \in Nat
         /\ hops' \in HopStates
         /\ \/ jobs[s].fresh /\ (Scheduled(Ended(jobs, s), relaunches + 1, h) \/ GaveUp)
            \/ ~jobs[s].fresh /\ Scheduled(Ended(jobs, s), relaunches, h) /\ leash' = leash
<1>1. jobs \in JobFns /\ relaunches \in Nat /\ TypeOK
  BY DEF Inv, TypeOK, JobFns
<1> DEFINE q == Ended(jobs, s)
<1>2. q \in JobFns
  BY <1>1, EndedJobs
<1> HIDE DEF q
<1>3. CASE jobs[s].fresh
  <2>1. AdvanceAuto(q, h, time)
    BY <1>3 DEF ScheduleReconnect, q
  <2>2. /\ StepTypes' /\ connected' \in BOOLEAN /\ jobs' \in JobFns /\ relaunches' \in Nat
        /\ hops' \in HopStates
        /\ Scheduled(q, relaunches + 1, h) \/ GaveUp
    BY <1>2, <2>1, AdvanceTyped
  <2> QED
    BY <1>3, <2>2 DEF q
<1>4. CASE ~jobs[s].fresh
  <2>1. /\ jobs' = q /\ hops' = h /\ room' = time
        /\ UNCHANGED <<job, relaunches, search, steps, index, passes, engineUp, connected, running,
                       leash>>
    BY <1>4 DEF ScheduleReconnect, q
  <2>2. StepTypes'
    BY <1>1, <2>1 DEF StepTypes, TypeOK
  <2>3. InPlan'
    BY <2>1 DEF Inv, InPlan
  <2>4. connected' \in BOOLEAN
    BY <1>1, <2>1 DEF TypeOK
  <2>5. Scheduled(q, relaunches, h)
    BY <2>1, <2>3 DEF Scheduled
  <2> QED
    BY <1>1, <1>2, <1>4, <2>1, <2>2, <2>4, <2>5 DEF q
<1> QED
  BY <1>3, <1>4

\* A relaunch is scheduled.  Until a watcher crosses its session it is the only
\* one, nobody is watched, and who is current is parked.
LEMMA OneScheduled ==
  ASSUME Inv, TypeOK', NEW q \in JobFns, NEW r \in Nat, NEW h \in HopStates, r > 0,
         Scheduled(q, r, h), joining = None, joining' = joining, cancellable' = cancellable,
         ~h.crossed =>
           /\ r = 1 /\ h.watched = None
           /\ \A t \in Jobs : q[t].fresh /\ q[t].at # "done" =>
                ~hops.crossed /\ q[t] = jobs[t] /\ At(t) = "parked",
         \A t \in Jobs : q[t].at = "lane" => ~q[t].fresh
  PROVE  Inv'
<1>1. /\ jobs' = q /\ relaunches' = r /\ hops' = h /\ job' = job /\ search' = search /\ InPlan'
  BY DEF Scheduled
<1>2. Uncrossed'
  <2> SUFFICES ASSUME ~h.crossed
               PROVE  relaunches' <= 1 /\ WatchedThere' /\ \A t \in Jobs : Alone(t)'
    BY <1>1 DEF Uncrossed
  <2>1. ASSUME NEW t \in Jobs, Here(t)' PROVE Alone(t)'
    <3>1. ~hops.crossed /\ q[t] = jobs[t] /\ At(t) = "parked"
      BY <1>1, <2>1 DEF Here, At
    <3>2. Here(t) /\ Alone(t)
      BY <1>1, <2>1, <3>1 DEF Here, At, Inv, Uncrossed
    <3> QED
      BY <1>1, <3>1, <3>2 DEF Alone, At
  <2>2. \A t \in Jobs : Alone(t)'
    BY <2>1 DEF Alone
  <2> QED
    BY <1>1, <2>2 DEF WatchedThere
<1>3. LanesApart'
  BY <1>1 DEF LanesApart, At
<1> QED
  BY <1>1, <1>2, <1>3 DEF Inv, JoinIsAlone, NeverStranded

\* The search gave up: nobody is left.
LEMMA GaveUpKeeps == ASSUME Inv, TypeOK', GaveUp PROVE Inv'
<1>1. \A t \in Jobs : ~Here(t)' /\ (At(t)' = "lane" => ~jobs'[t].fresh)
  BY DEF GaveUp, Here
<1> QED
  BY <1>1, NobodyLeft DEF GaveUp

-----------------------------------------------------------------------------
(* The handlers of the network, the clock and the engine.                  *)

\* A move to another network.
LEMMA RoamKeeps == Inv /\ Roam => Inv'
<1> SUFFICES ASSUME Inv, Roam
             PROVE  Inv'
  OBVIOUS
<1>1. TypeOK /\ JobTypes /\ StepTypes
  BY TypeParts DEF Inv
<1>2. /\ UNCHANGED <<jobs, job, cancellable, joining, relaunches, hops, passes, engineUp,
                     connected, running, won, leash, room, stale, online, search>>
      /\ Happens
      /\ \/ steps' = << >> /\ index' = 0
         \/ UNCHANGED <<steps, index>>
  BY DEF Roam, jobVars
<1>3. TypeOK'
  <2>1. JobTypes' /\ StepTypes'
    BY <1>1, <1>2 DEF JobTypes, StepTypes
  <2>2. events' \in 0..MaxEvents
    BY <1>1, <1>2, Counted
  <2>3. OtherTypes'
    BY <1>1, <1>2, <2>2 DEF OtherTypes, TypeOK
  <2> QED
    BY <2>1, <2>3, TypeParts
<1>4. InPlan'
  BY <1>2 DEF Inv, InPlan
<1> QED
  BY <1>2, <1>3, <1>4, NobodyMoves

\* A handler that leaves the sessions and the plan alone, and leashes nobody.
LEMMA NothingMoves ==
  ASSUME Inv, TypeOK', UNCHANGED <<jobVars, steps, index, search>>, leash' \in {leash, "none"}
  PROVE  Inv'
<1>1. InPlan'
  BY DEF Inv, InPlan
<1>2. UNCHANGED <<jobs, job, cancellable, joining, relaunches, hops>>
  BY DEF jobVars
<1> QED
  BY <1>1, <1>2, NobodyMoves

\* A network came, autoWon had its turn, or the deadline has passed.
LEMMA QuietKeeps == Inv /\ (Online \/ AutoWon \/ DeadlinePasses) => Inv'
<1> SUFFICES ASSUME Inv, Online \/ AutoWon \/ DeadlinePasses
             PROVE  Inv'
  OBVIOUS
<1>1. UNCHANGED <<jobVars, steps, index, search, stale>> /\ leash' \in {leash, "none"}
  BY DEF Online, AutoWon, DeadlinePasses, planVars
<1>2. TypeOK
  BY DEF Inv
<1>3. JobTypes'
  BY <1>1, <1>2, SameTypes
<1>4. StepTypes' /\ OtherTypes'
  <2>1. CASE Online
    BY <1>2, <2>1 DEF Online, planVars, TypeOK, StepTypes, OtherTypes
  <2>2. CASE AutoWon
    BY <1>2, <2>2 DEF AutoWon, TypeOK, StepTypes, OtherTypes
  <2>3. CASE DeadlinePasses
    BY <1>2, <2>3 DEF DeadlinePasses, TypeOK, StepTypes, OtherTypes
  <2> QED
    BY <2>1, <2>2, <2>3
<1>5. TypeOK'
  BY <1>3, <1>4, TypeParts
<1> QED
  BY <1>1, <1>5, NothingMoves

\* A leash that is out belongs to a command that is not joining.
LEMMA LeashedAlone == Inv /\ leash # "none" => joining = None
  BY DEF Inv, JoinIsAlone

\* The budget is over: the stop moves nobody.
LEMMA PullKeeps == Inv /\ LeashPulls => Inv'
<1> SUFFICES ASSUME Inv, LeashPulls
             PROVE  Inv'
  OBVIOUS
<1>1. TypeOK /\ jobs \in JobFns
  BY DEF Inv, TypeOK, JobFns
<1>2. /\ leash = "budget" /\ leash' \in {"none", "grace"}
      /\ UNCHANGED <<job, cancellable, joining, relaunches, hops, steps, index, passes, engineUp,
                     connected, running, won, stale, online, search, events>>
      /\ room' \in {room, FALSE}
      /\ jobs' \in {jobs, NativeStop(jobs)}
  BY DEF LeashPulls
<1>3. /\ jobs' \in JobFns
      /\ \A t \in Jobs : /\ jobs'[t].at = jobs[t].at /\ jobs'[t].fresh = jobs[t].fresh
                         /\ jobs'[t].cancelled = jobs[t].cancelled
  BY <1>1, <1>2, StoppedJobs
<1>4. TypeOK'
  <2>1. room' \in BOOLEAN
    BY <1>1, <1>2 DEF TypeOK
  <2>2. StepTypes' /\ OtherTypes'
    BY <1>1, <1>2, <2>1 DEF TypeOK, StepTypes, OtherTypes
  <2>3. JobTypes'
    BY <1>1, <1>2, <1>3 DEF TypeOK, JobTypes
  <2> QED
    BY <2>2, <2>3, TypeParts
<1>5. InPlan' /\ joining = None
  BY <1>2, LeashedAlone DEF Inv, InPlan
<1> QED
  BY <1>2, <1>3, <1>4, <1>5, NobodyMoves

\* The session is left behind: none of its generation is, one relaunch is to come.
LEMMA LeaveKeeps == Inv /\ LeashLeaves => Inv'
<1> SUFFICES ASSUME Inv, LeashLeaves
             PROVE  Inv'
  OBVIOUS
<1>1. TypeOK /\ jobs \in JobFns /\ joining = None
  BY LeashedAlone DEF Inv, TypeOK, JobFns, LeashLeaves
<1>2. UNCHANGED <<cancellable, joining, connected, won, online, events>>
  BY DEF LeashLeaves
<1>3. CASE LeashHolds
  <2> DEFINE q == Outdated(jobs)
  <2>1. q \in JobFns /\ \A t \in Jobs : ~q[t].fresh
    BY <1>1, OutdatedJobs
  <2> HIDE DEF q
  <2>2. FinishStep(q, 1, NoHops, TRUE) /\ NoHops \in HopStates
    BY <1>3, PlainJobs DEF LeashLeaves, q
  <2>3. /\ StepTypes' /\ jobs' \in JobFns /\ relaunches' \in Nat /\ hops' \in HopStates
        /\ Scheduled(q, 1, NoHops) \/ GaveUp
    BY <1>1, <2>1, <2>2, FinishTyped
  <2>4. stale' = job
    BY <1>3 DEF LeashLeaves
  <2>5. job' \in Jobs \cup {None} /\ search' \in {search, "over"}
    BY <1>1, <2>3 DEF Scheduled, GaveUp, TypeOK
  <2>6. TypeOK'
    <3>1. JobTypes'
      BY <1>1, <1>2, <2>3, <2>4, <2>5 DEF TypeOK, JobTypes
    <3>2. OtherTypes'
      BY <1>1, <1>2, <2>5 DEF TypeOK, OtherTypes
    <3> QED
      BY <2>3, <3>1, <3>2, TypeParts
  <2>7. CASE Scheduled(q, 1, NoHops)
    BY <1>1, <1>2, <2>1, <2>2, <2>6, <2>7, PlainJobs, OneScheduled
  <2>8. CASE GaveUp
    BY <2>6, <2>8, GaveUpKeeps
  <2> QED
    BY <2>3, <2>7, <2>8
<1>4. CASE ~LeashHolds
  <2>1. /\ leash' = "none"
        /\ UNCHANGED <<jobs, relaunches, hops, job, search, steps, index, passes, engineUp,
                       running, room, stale>>
    BY <1>4 DEF LeashLeaves
  <2>2. TypeOK'
    <3>1. JobTypes'
      BY <1>1, <1>2, <2>1 DEF TypeOK, JobTypes, JobFns
    <3>2. StepTypes' /\ OtherTypes'
      BY <1>1, <1>2, <2>1 DEF TypeOK, StepTypes, OtherTypes
    <3> QED
      BY <3>1, <3>2, TypeParts
  <2> QED
    BY <1>2, <2>1, <2>2, NothingMoves DEF jobVars
<1> QED
  BY <1>3, <1>4

\* A losing lane ends: it was nobody's.
LEMMA LaneKeeps == ASSUME NEW s \in Jobs, Inv, LaneEnds(s) PROVE Inv'
<1>1. TypeOK /\ jobs \in JobFns
  BY DEF Inv, TypeOK, JobFns
<1>2. /\ At(s) = "lane" /\ jobs' = Ended(jobs, s)
      /\ UNCHANGED <<job, cancellable, joining, relaunches, hops, steps, index, passes, engineUp,
                     connected, running, won, leash, room, stale, online, search, events>>
  BY DEF LaneEnds, planVars
<1>3. /\ jobs' \in JobFns /\ jobs'[s].at = "done" /\ ~jobs'[s].fresh
      /\ \A t \in Jobs \ {s} : jobs'[t] = jobs[t]
  BY <1>1, <1>2, EndedJobs
<1>4. TypeOK'
  <2>1. JobTypes'
    BY <1>1, <1>2, <1>3 DEF TypeOK, JobTypes
  <2>2. StepTypes' /\ OtherTypes'
    BY <1>1, <1>2, SameTypes
  <2> QED
    BY <2>1, <2>2, TypeParts
<1>5. InPlan'
  BY <1>2 DEF Inv, InPlan
<1>6. ~jobs[s].fresh /\ LetsGo(hops', s)
  BY <1>2 DEF Inv, LanesApart, LetsGo
<1> QED
  BY <1>2, <1>3, <1>4, <1>5, <1>6, NobodysEnds

\* A blocking call of one that was cancelled returns.
LEMMA UnwindsKeeps == ASSUME NEW s \in Jobs, Inv, Unwinds(s) PROVE Inv'
<1>1. TypeOK /\ jobs \in JobFns
  BY DEF Inv, TypeOK, JobFns
<1>2. /\ jobs[s].cancelled /\ jobs' = Ended(jobs, s)
      /\ Happens \/ UNCHANGED events
      /\ UNCHANGED <<job, cancellable, joining, relaunches, hops, steps, index, passes, engineUp,
                     connected, running, won, leash, room, stale, online, search>>
  BY DEF Unwinds, Returns, planVars
<1>3. /\ jobs' \in JobFns /\ jobs'[s].at = "done" /\ ~jobs'[s].fresh
      /\ \A t \in Jobs \ {s} : jobs'[t] = jobs[t]
  BY <1>1, <1>2, EndedJobs
<1>4. TypeOK'
  <2>1. events' \in 0..MaxEvents
    BY <1>1, <1>2, Counted DEF TypeOK
  <2>2. JobTypes'
    BY <1>1, <1>2, <1>3 DEF TypeOK, JobTypes
  <2>3. StepTypes' /\ OtherTypes'
    BY <1>1, <1>2, <2>1 DEF TypeOK, StepTypes, OtherTypes
  <2> QED
    BY <2>2, <2>3, TypeParts
<1>5. InPlan'
  BY <1>2 DEF Inv, InPlan
<1>6. LetsGo(hops', s)
  BY <1>2 DEF LetsGo
<1> QED
  BY <1>2, <1>3, <1>4, <1>5, <1>6, NobodysEnds

\* The session and its engine go on together, or end, with the plan as it is.
LEMMA RunKeeps ==
  ASSUME NEW s \in Jobs, Inv, NetworkReplaced(s) \/ RunTakes(s) \/ EngineReady(s)
  PROVE  Inv'
<1>1. TypeOK /\ jobs \in JobFns
  BY DEF Inv, TypeOK, JobFns
<1>2. /\ UNCHANGED <<job, cancellable, joining, relaunches, hops, steps, index, passes, connected,
                     running, leash, room, stale, online, search>>
      /\ Happens \/ UNCHANGED events
  BY DEF NetworkReplaced, RunTakes, EngineReady, planVars
<1>3. \/ At(s) = "network" /\ ~jobs[s].fresh /\ jobs' = Ended(jobs, s)
      \/ At(s) = "launch" /\ jobs' = Moved(jobs, s, "run")
      \/ At(s) = "run" /\ jobs' = Moved(jobs, s, "up")
  BY DEF NetworkReplaced, RunTakes, EngineReady
<1>4. /\ jobs' \in JobFns /\ \A t \in Jobs \ {s} : jobs'[t] = jobs[t]
      /\ \/ jobs'[s].at = "done" /\ ~jobs[s].fresh /\ ~jobs'[s].fresh
         \/ /\ jobs'[s].at \in {"run", "up"} /\ jobs'[s].fresh = jobs[s].fresh
            /\ jobs'[s].cancelled = jobs[s].cancelled
  <2>1. "run" \in Labels /\ "up" \in Labels
    BY DEF Labels
  <2>2. CASE ~jobs[s].fresh /\ jobs' = Ended(jobs, s)
    BY <1>1, <2>2, EndedJobs
  <2>3. CASE jobs' = Moved(jobs, s, "run")
    BY <1>1, <2>1, <2>3, MovedJobs
  <2>4. CASE jobs' = Moved(jobs, s, "up")
    BY <1>1, <2>1, <2>4, MovedJobs
  <2> QED
    BY <1>3, <2>2, <2>3, <2>4
<1>5. engineUp' \in BOOLEAN /\ won' \in BOOLEAN
  BY <1>1 DEF NetworkReplaced, RunTakes, EngineReady, planVars, TypeOK
<1>6. TypeOK'
  <2>1. JobTypes'
    BY <1>1, <1>2, <1>4 DEF TypeOK, JobTypes
  <2>2. events' \in 0..MaxEvents
    BY <1>1, <1>2, Counted DEF TypeOK
  <2>3. StepTypes' /\ OtherTypes'
    BY <1>1, <1>2, <1>5, <2>2 DEF TypeOK, StepTypes, OtherTypes
  <2> QED
    BY <2>1, <2>3, TypeParts
<1>7. InPlan'
  BY <1>2 DEF Inv, InPlan
<1>8. At(s) \notin {"done", "chain", "parked"}
  BY <1>3
<1> QED
  BY <1>2, <1>4, <1>6, <1>7, <1>8, SessionMoves

-----------------------------------------------------------------------------
(* The handlers of a session.                                              *)

\* What is left of a session that failed: until a watcher crosses it, nobody else.
LEMMA OthersStay ==
  ASSUME Inv, NEW s \in Jobs, Here(s), At(s) # "parked"
  PROVE  /\ Ended(jobs, s) \in JobFns /\ joining = None
         /\ \A t \in Jobs : Ended(jobs, s)[t].at = "lane" => ~Ended(jobs, s)[t].fresh
         /\ ~hops.crossed =>
              /\ relaunches = 0
              /\ hops.watched = None \/ (hops.watched = s /\ At(s) = "chain")
              /\ \A t \in Jobs : ~(Ended(jobs, s)[t].fresh /\ Ended(jobs, s)[t].at # "done")
<1>1. jobs \in JobFns /\ relaunches \in Nat /\ hops.watched \in Jobs \cup {None}
  BY DEF Inv, TypeOK, JobFns, HopStates
<1>2. /\ Ended(jobs, s) \in JobFns
      /\ Ended(jobs, s)[s].at = "done"
      /\ \A t \in Jobs \ {s} : Ended(jobs, s)[t] = jobs[t]
  BY <1>1, EndedJobs
<1>3. joining = None
  BY DEF Inv, JoinIsAlone
<1>4. \A t \in Jobs : Ended(jobs, s)[t].at = "lane" => ~Ended(jobs, s)[t].fresh
  BY <1>2 DEF Inv, LanesApart, At
<1>5. ASSUME ~hops.crossed
      PROVE  /\ relaunches = 0
             /\ hops.watched = None \/ (hops.watched = s /\ At(s) = "chain")
             /\ \A t \in Jobs : ~(Ended(jobs, s)[t].fresh /\ Ended(jobs, s)[t].at # "done")
  <2>1. WatchedThere /\ \A t \in Jobs : Alone(t)
    BY <1>5 DEF Inv, Uncrossed
  <2>2. s = job /\ relaunches = 0
    BY <1>1, <2>1 DEF Alone
  <2>3. \A t \in Jobs \ {s} : ~Here(t)
    BY <2>1, <2>2 DEF Alone
  <2>4. hops.watched = None \/ (hops.watched = s /\ At(s) = "chain")
    BY <1>1, <2>1, <2>3 DEF WatchedThere, Here
  <2> QED
    BY <1>2, <2>2, <2>3, <2>4 DEF Here, At
<1> QED
  BY <1>2, <1>3, <1>4, <1>5

\* A session that is over, replaced: the others go on as they were.
LEMMA ReplacedEnds ==
  ASSUME Inv, TypeOK', NEW s \in Jobs, ~jobs[s].fresh, NEW h,
         Scheduled(Ended(jobs, s), relaunches, h), leash' \in {leash, "none"},
         LetsGo(h, s), joining' = joining, cancellable' = cancellable
  PROVE  Inv'
<1>1. /\ jobs' = Ended(jobs, s) /\ relaunches' = relaunches /\ hops' = h
      /\ job' = job /\ search' = search /\ InPlan'
  BY DEF Scheduled
<1>2. jobs'[s].at = "done" /\ ~jobs'[s].fresh /\ \A t \in Jobs \ {s} : jobs'[t] = jobs[t]
  <2>1. jobs \in JobFns
    BY DEF Inv, TypeOK, JobFns
  <2> QED
    BY <1>1, <2>1, EndedJobs
<1> QED
  BY <1>1, <1>2, NobodysEnds

\* What has changed when a session that failed was scheduled again, or not.
LEMMA FailedTyped ==
  ASSUME Inv, NEW q, NEW r, NEW h, Scheduled(q, r, h) \/ GaveUp,
         StepTypes', connected' \in BOOLEAN, jobs' \in JobFns, relaunches' \in Nat,
         hops' \in HopStates,
         events' \in 0..MaxEvents, UNCHANGED <<cancellable, joining, won, stale, online>>
  PROVE  TypeOK'
<1>1. TypeOK
  BY DEF Inv
<1>2. job' \in Jobs \cup {None} /\ search' \in {search, "over"}
  BY <1>1 DEF Scheduled, GaveUp, TypeOK
<1>3. JobTypes'
  BY <1>1, <1>2 DEF TypeOK, JobTypes
<1>4. OtherTypes'
  BY <1>1, <1>2 DEF TypeOK, OtherTypes
<1> QED
  BY <1>3, <1>4, TypeParts

\* A session that failed has a relaunch scheduled.
LEMMA NextScheduled ==
  ASSUME Inv, TypeOK', NEW s \in Jobs, Here(s), At(s) # "parked", NEW h \in HopStates,
         Scheduled(Ended(jobs, s), relaunches + 1, h), joining' = joining,
         cancellable' = cancellable, LetsGo(h, s),
         At(s) = "chain" => h.watched # s
  PROVE  Inv'
<1>1. relaunches \in Nat /\ relaunches + 1 \in Nat /\ relaunches + 1 > 0
  BY DEF Inv, TypeOK
<1> DEFINE r == relaunches + 1
           q == Ended(jobs, s)
<1>2. /\ q \in JobFns /\ joining = None
      /\ \A t \in Jobs : q[t].at = "lane" => ~q[t].fresh
      /\ ~h.crossed => /\ r = 1 /\ h.watched = None
                       /\ \A t \in Jobs : ~(q[t].fresh /\ q[t].at # "done")
  BY OthersStay DEF LetsGo
<1>3. Scheduled(q, r, h) /\ r \in Nat /\ r > 0
  BY <1>1
<1> HIDE DEF q, r
<1> QED
  BY <1>2, <1>3, OneScheduled

\* scheduleReconnect, whoever comes to it.
LEMMA ScheduleKeeps ==
  ASSUME Inv, NEW s \in Jobs, NEW time \in BOOLEAN, At(s) \notin {"done", "parked"},
         NEW h \in HopStates, ScheduleReconnect(s, h, time), events' \in 0..MaxEvents,
         UNCHANGED <<cancellable, joining, won, stale, online>>, LetsGo(h, s),
         At(s) = "chain" => h.watched # s
  PROVE  Inv'
<1>1. /\ StepTypes' /\ connected' \in BOOLEAN /\ jobs' \in JobFns /\ relaunches' \in Nat
      /\ hops' \in HopStates
      /\ \/ jobs[s].fresh /\ (Scheduled(Ended(jobs, s), relaunches + 1, h) \/ GaveUp)
         \/ ~jobs[s].fresh /\ Scheduled(Ended(jobs, s), relaunches, h) /\ leash' = leash
  BY ScheduleTyped
<1>2. CASE GaveUp
  <2>1. TypeOK'
    BY <1>1, <1>2, FailedTyped
  <2> QED
    BY <1>2, <2>1, GaveUpKeeps
<1>3. CASE jobs[s].fresh /\ Scheduled(Ended(jobs, s), relaunches + 1, h)
  <2>1. TypeOK'
    BY <1>1, <1>3, FailedTyped
  <2>2. Here(s)
    BY <1>3 DEF Here
  <2> QED
    BY <1>3, <2>1, <2>2, NextScheduled
<1>4. CASE ~jobs[s].fresh /\ Scheduled(Ended(jobs, s), relaunches, h) /\ leash' = leash
  <2>1. TypeOK'
    BY <1>1, <1>4, FailedTyped
  <2> QED
    BY <1>4, <2>1, ReplacedEnds
<1> QED
  BY <1>1, <1>2, <1>3, <1>4

\* A preparation, a run or a race that has failed.
LEMMA FailedKeeps ==
  ASSUME Inv, NEW s \in Jobs, PrepareFails(s) \/ RunReturns(s) \/ RaceLost(s)
  PROVE  Inv'
<1>1. TypeOK /\ room \in BOOLEAN /\ hops \in HopStates
  BY DEF Inv, TypeOK
<1>2. /\ At(s) \notin {"done", "chain", "parked"}
      /\ UNCHANGED <<cancellable, joining, won, stale, online>>
  BY DEF PrepareFails, RunReturns, RaceLost, Resumes
<1>3. events' \in 0..MaxEvents
  <2>1. Happens \/ UNCHANGED events
    BY DEF PrepareFails, RunReturns, RaceLost, Returns
  <2> QED
    BY <1>1, <2>1, Counted DEF TypeOK
<1>4. PICK time \in BOOLEAN : ScheduleReconnect(s, hops, time)
  <2>1. CASE PrepareFails(s)
    <3>1. PICK conclusive \in BOOLEAN : ScheduleReconnect(s, hops, room /\ ~conclusive)
      BY <2>1 DEF PrepareFails
    <3>2. (room /\ ~conclusive) \in BOOLEAN
      OBVIOUS
    <3> QED
      BY <3>1, <3>2
  <2>2. CASE RunReturns(s) \/ RaceLost(s)
    <3>1. ScheduleReconnect(s, hops, room)
      BY <2>2 DEF RunReturns, RaceLost
    <3> QED
      BY <1>1, <3>1
  <2> QED
    BY <2>1, <2>2
<1>5. LetsGo(hops, s)
  BY DEF LetsGo
<1> QED
  BY <1>1, <1>2, <1>3, <1>4, <1>5, ScheduleKeeps

\* mihomo could not be given the interface: the winner is no longer watched.
LEMMA ChainFailsKeeps == ASSUME Inv, NEW s \in Jobs, ChainFails(s) PROVE Inv'
<1> DEFINE h == [hops EXCEPT !.watched = IF @ = s THEN None ELSE @]
<1>1. TypeOK /\ room \in BOOLEAN /\ hops \in HopStates /\ events \in 0..MaxEvents
  BY DEF Inv, TypeOK
<1>2. h \in HopStates /\ h.watched # s /\ LetsGo(h, s)
  <2>1. s # None
    BY DEF None, Jobs
  <2>2. CASE hops.watched = s
    <3>1. h = [hops EXCEPT !.watched = None]
      BY <2>2
    <3> QED
      BY <1>1, <2>1, <2>2, <3>1 DEF HopStates, LetsGo
  <2>3. CASE hops.watched # s
    <3>1. h = hops
      BY <1>1, <2>3 DEF HopStates
    <3> QED
      BY <1>1, <2>3, <3>1 DEF LetsGo
  <2> QED
    BY <2>2, <2>3
<1>3. /\ At(s) = "chain" /\ ScheduleReconnect(s, h, room)
      /\ UNCHANGED <<cancellable, joining, won, stale, online, events>>
  BY DEF ChainFails, Resumes
<1> HIDE DEF h
<1> QED
  BY <1>1, <1>2, <1>3, ScheduleKeeps

\* The engine that was left behind has not gone.
LEMMA WaitedKeeps == ASSUME Inv, NEW s \in Jobs, StaleWaited(s) PROVE Inv'
<1>1. TypeOK /\ jobs \in JobFns /\ relaunches \in Nat /\ connected \in BOOLEAN
      /\ events \in 0..MaxEvents /\ hops \in HopStates
  BY DEF Inv, TypeOK, JobFns
<1>2. At(s) = "stale" /\ UNCHANGED <<cancellable, joining, connected, won, stale, online, events>>
  BY DEF StaleWaited
<1> DEFINE r == relaunches + (IF jobs[s].fresh THEN 1 ELSE 0)
<1>3. jobs[s].fresh \in BOOLEAN /\ Ended(jobs, s) \in JobFns
  BY <1>1, EndedJobs DEF JobFns, JobStates
<1>4. /\ r \in Nat /\ (jobs[s].fresh => r = relaunches + 1)
      /\ (~jobs[s].fresh => r = relaunches)
  BY <1>1
<1>5. FinishStep(Ended(jobs, s), r, hops, jobs[s].fresh)
  BY DEF StaleWaited
<1> HIDE DEF r
<1>0. LetsGo(hops, s)
  BY DEF LetsGo
<1>6. /\ StepTypes' /\ jobs' \in JobFns /\ relaunches' \in Nat /\ hops' \in HopStates
      /\ leash' = "none" \/ jobs[s].fresh
      /\ Scheduled(Ended(jobs, s), r, hops) \/ GaveUp
  BY <1>1, <1>3, <1>4, <1>5, FinishTyped
<1>7. TypeOK'
  BY <1>1, <1>2, <1>6, FailedTyped
<1>8. CASE GaveUp
  BY <1>7, <1>8, GaveUpKeeps
<1>9. CASE jobs[s].fresh /\ Scheduled(Ended(jobs, s), r, hops)
  <2>1. Scheduled(Ended(jobs, s), relaunches + 1, hops) /\ Here(s)
    BY <1>2, <1>4, <1>9 DEF Here
  <2> QED
    BY <1>0, <1>1, <1>2, <1>7, <2>1, NextScheduled
<1>10. CASE ~jobs[s].fresh /\ Scheduled(Ended(jobs, s), r, hops)
  <2>1. Scheduled(Ended(jobs, s), relaunches, hops) /\ leash' \in {leash, "none"}
    BY <1>4, <1>6, <1>10
  <2> QED
    BY <1>0, <1>2, <1>7, <1>10, <2>1, ReplacedEnds
<1> QED
  BY <1>3, <1>6, <1>8, <1>9, <1>10

\* The winner is lost: a relaunch is to come, and its session, if it is not parked
\* yet, has been crossed.
LEMMA LostKeeps == Inv /\ CarrierLost => Inv'
<1> SUFFICES ASSUME Inv, CarrierLost
             PROVE  Inv'
  OBVIOUS
<1> DEFINE early == At(hops.watched) = "chain"
           h == [watched |-> None, crossed |-> hops.crossed \/ early]
           r == relaunches + 1
<1>1. TypeOK /\ jobs \in JobFns /\ relaunches \in Nat /\ hops \in HopStates
  BY DEF Inv, TypeOK, JobFns
<1>2. /\ hops.watched # None /\ Happens /\ AdvanceAuto(jobs, h, room)
      /\ UNCHANGED <<cancellable, joining, won, stale, online>>
  BY DEF CarrierLost
<1>3. h \in HopStates /\ h.watched = None /\ h.crossed = (hops.crossed \/ early)
  BY <1>1 DEF HopStates
<1>4. r \in Nat /\ r > 0 /\ r = relaunches + 1
  BY <1>1
<1>5. ~h.crossed =>
        /\ r = 1 /\ h.watched = None
        /\ \A t \in Jobs : jobs[t].fresh /\ jobs[t].at # "done" =>
             ~hops.crossed /\ jobs[t] = jobs[t] /\ At(t) = "parked"
  <2> SUFFICES ASSUME ~hops.crossed, ~early
               PROVE  /\ r = 1
                      /\ \A t \in Jobs : jobs[t].fresh /\ jobs[t].at # "done" => At(t) = "parked"
    BY <1>3
  <2>1. WatchedThere /\ \A t \in Jobs : Alone(t)
    BY DEF Inv, Uncrossed
  <2>2. /\ Here(hops.watched) /\ At(hops.watched) = "parked" /\ relaunches = 0
        /\ hops.watched \in Jobs
    BY <1>1, <1>2, <2>1 DEF WatchedThere, HopStates
  <2>3. \A t \in Jobs : Here(t) => t = hops.watched
    BY <2>1, <2>2 DEF Alone
  <2> QED
    BY <2>2, <2>3 DEF Here, At
<1> HIDE DEF h, r, early
<1>6. /\ StepTypes' /\ connected' \in BOOLEAN /\ jobs' \in JobFns /\ relaunches' \in Nat
      /\ hops' \in HopStates
      /\ Scheduled(jobs, r, h) \/ GaveUp
  BY <1>1, <1>2, <1>3, <1>4, AdvanceTyped
<1>7. TypeOK'
  <2>1. events' \in 0..MaxEvents
    BY <1>1, <1>2, Counted
  <2> QED
    BY <1>2, <1>6, <2>1, FailedTyped
<1>8. joining = None /\ \A t \in Jobs : jobs[t].at = "lane" => ~jobs[t].fresh
  BY <1>2 DEF Inv, JoinIsAlone, LanesApart, At
<1>9. CASE Scheduled(jobs, r, h)
  BY <1>1, <1>2, <1>3, <1>4, <1>5, <1>7, <1>8, <1>9, OneScheduled
<1>10. CASE GaveUp
  BY <1>7, <1>10, GaveUpKeeps
<1> QED
  BY <1>6, <1>9, <1>10

\* No network came.
LEMMA NeverKeeps == ASSUME Inv, NEW s \in Jobs, NetworkNever(s) PROVE Inv'
<1>1. TypeOK /\ jobs \in JobFns
  BY DEF Inv, TypeOK, JobFns
<1>2. /\ GiveUp(Ended(jobs, s)) /\ leash' = "none"
      /\ UNCHANGED <<cancellable, joining, index, passes, engineUp, connected, won, room, stale,
                     online, events>>
  BY DEF NetworkNever
<1>3. Ended(jobs, s) \in JobFns
  BY <1>1, EndedJobs
<1>4. /\ jobs' \in JobFns /\ \A t \in Jobs : ~jobs'[t].fresh
      /\ search' = "over" /\ relaunches' = 0 /\ hops' = NoHops /\ job' = None
      /\ UNCHANGED <<steps, running>>
  BY <1>2, <1>3, GiveUpLeaves
<1>5. TypeOK'
  <2>1. JobTypes'
    BY <1>1, <1>2, <1>4, PlainJobs DEF TypeOK, JobTypes
  <2>2. StepTypes' /\ OtherTypes'
    BY <1>1, <1>2, <1>4 DEF TypeOK, StepTypes, OtherTypes
  <2> QED
    BY <2>1, <2>2, TypeParts
<1> QED
  BY <1>2, <1>4, <1>5, GaveUpKeeps DEF GaveUp

\* The step is taken by a session that is there: it goes on, or, where the plan
\* has no step for it, ends.
LEMMA TakeTyped ==
  ASSUME TypeOK, NEW s \in Jobs, NEW p, NEW i, StepAt(p, i) \in Kinds \cup {"none"},
         TakeStep(s, p, i)
  PROVE  /\ jobs' \in JobFns /\ stale' \in {stale, None} /\ cancellable' \in {cancellable, TRUE}
         /\ \A t \in Jobs \ {s} : jobs'[t] = jobs[t]
         /\ \/ /\ jobs'[s].at \in {"race", "prepare", "stale"} /\ jobs'[s].fresh = jobs[s].fresh
               /\ jobs'[s].at = "race" => cancellable' = TRUE
               /\ jobs'[s].cancelled = jobs[s].cancelled
            \/ StepAt(p, i) = "none" /\ jobs'[s].at = "done" /\ ~jobs'[s].fresh
<1>1. jobs \in JobFns /\ stale \in Jobs \cup {None} /\ jobs[s] \in JobStates
  BY DEF TypeOK, JobFns
<1>2. "race" \in Labels /\ "prepare" \in Labels /\ "stale" \in Labels
  BY DEF Labels
<1>3. StepAt(p, i) \in {"none", "race", "engine"}
  BY DEF Kinds
<1>4. CASE StepAt(p, i) = "none"
  <2>1. jobs' = Ended(jobs, s) /\ UNCHANGED <<cancellable, stale>>
    BY <1>4 DEF TakeStep
  <2> QED
    BY <1>1, <1>4, <2>1, EndedJobs
<1>5. CASE StepAt(p, i) = "race"
  <2>1. jobs' = Moved(jobs, s, "race") /\ cancellable' = TRUE /\ UNCHANGED stale
    BY <1>5 DEF TakeStep
  <2>2. /\ jobs' \in JobFns /\ jobs'[s].at = "race" /\ jobs'[s].fresh = jobs[s].fresh
        /\ jobs'[s].cancelled = jobs[s].cancelled
        /\ \A t \in Jobs \ {s} : jobs'[t] = jobs[t]
    <3>1. jobs \in JobFns /\ jobs' = Moved(jobs, s, "race") /\ "race" \in Labels
      BY <1>1, <1>2, <2>1
    <3> QED
      BY <3>1, MovedJobs
  <2> QED
    BY <2>1, <2>2
<1>6. CASE StepAt(p, i) = "engine"
  <2>1. /\ UNCHANGED cancellable
        /\ IF Gone(jobs, stale)
             THEN jobs' = Moved(jobs, s, "prepare") /\ stale' = None
             ELSE jobs' = [jobs EXCEPT ![s].at = "stale", ![s].waits = stale] /\ UNCHANGED stale
    BY <1>6 DEF TakeStep
  <2>2. CASE Gone(jobs, stale)
    <3>1. jobs' = Moved(jobs, s, "prepare") /\ stale' = None
      BY <2>1, <2>2
    <3>2. /\ jobs' \in JobFns /\ jobs'[s].at = "prepare" /\ jobs'[s].fresh = jobs[s].fresh
          /\ jobs'[s].cancelled = jobs[s].cancelled
          /\ \A t \in Jobs \ {s} : jobs'[t] = jobs[t]
      <4>1. jobs \in JobFns /\ jobs' = Moved(jobs, s, "prepare") /\ "prepare" \in Labels
        BY <1>1, <1>2, <3>1
      <4> QED
        BY <4>1, MovedJobs
    <3> QED
      BY <2>1, <3>1, <3>2
  <2>3. CASE ~Gone(jobs, stale)
    <3> DEFINE here == [jobs[s] EXCEPT !.at = "stale", !.waits = stale]
    <3>1. jobs' = [jobs EXCEPT ![s] = here] /\ UNCHANGED stale
      BY <2>1, <2>3
    <3>2. /\ here \in JobStates /\ here.at = "stale" /\ here.fresh = jobs[s].fresh
          /\ here.cancelled = jobs[s].cancelled
      BY <1>1, <1>2 DEF JobStates
    <3> HIDE DEF here
    <3>3. jobs' \in JobFns /\ jobs'[s] = here /\ \A t \in Jobs \ {s} : jobs'[t] = jobs[t]
      BY <1>1, <3>1, <3>2 DEF JobFns
    <3> QED
      BY <2>1, <3>1, <3>2, <3>3
  <2> QED
    BY <2>2, <2>3
<1> QED
  BY <1>3, <1>4, <1>5, <1>6

\* A session that was taken on: what remains to be known is the plan.
LEMMA TakenKeeps ==
  ASSUME Inv, NEW s \in Jobs, NEW p, NEW i, At(s) \in {"begin", "network"}, TakeStep(s, p, i),
         StepAt(p, i) \in Kinds \cup {"none"},
         StepTypes', connected' \in BOOLEAN, InPlan',
         search = "on" => StepAt(p, i) # "none",
         leash' \notin {leash, "none"} => Here(s),
         UNCHANGED <<job, joining, relaunches, hops, won, online, search, events>>
  PROVE  Inv'
<1>1. TypeOK
  BY DEF Inv
<1>2. /\ jobs' \in JobFns /\ stale' \in {stale, None} /\ cancellable' \in {cancellable, TRUE}
      /\ \A t \in Jobs \ {s} : jobs'[t] = jobs[t]
      /\ \/ /\ jobs'[s].at \in {"race", "prepare", "stale"} /\ jobs'[s].fresh = jobs[s].fresh
            /\ jobs'[s].at = "race" => cancellable' = TRUE
            /\ jobs'[s].cancelled = jobs[s].cancelled
         \/ StepAt(p, i) = "none" /\ jobs'[s].at = "done" /\ ~jobs'[s].fresh
  BY <1>1, TakeTyped
<1>3. TypeOK'
  <2>1. JobTypes'
    BY <1>1, <1>2 DEF TypeOK, JobTypes
  <2>2. OtherTypes'
    BY <1>1 DEF TypeOK, OtherTypes
  <2> QED
    BY <2>1, <2>2, TypeParts
<1>0. search' \in {search, "over"} /\ relaunches' = relaunches /\ (cancellable => cancellable')
  <2>1. cancellable' \in {cancellable, TRUE} /\ cancellable \in BOOLEAN
    BY <1>1, <1>2 DEF TypeOK
  <2>2. cancellable => cancellable'
    BY <2>1
  <2> QED
    BY <2>2
<1> QED
  BY <1>0, <1>2, <1>3, SessionMoves

\* The plan offers a step at every place of it.
LEMMA StepOffered ==
  ASSUME NEW p \in Plans, NEW i \in Nat
  PROVE  /\ StepAt(p, i) \in Kinds \cup {"none"}
         /\ i < Len(p) => StepAt(p, i) # "none"
<1>1. CASE i < Len(p)
  <2>1. p \in Seq(Kinds) /\ i + 1 \in 1..Len(p)
    BY <1>1, ConstantsAssumption
  <2>2. p[i + 1] \in Kinds
    BY <2>1
  <2> QED
    BY <1>1, <2>2 DEF StepAt, Kinds
<1>2. CASE ~(i < Len(p))
  BY <1>2 DEF StepAt
<1> QED
  BY <1>1, <1>2

\* A pass is planned and its first step taken.
LEMMA PlanKeeps ==
  ASSUME Inv, NEW s \in Jobs, At(s) \in {"begin", "network"}, Plan(s),
         UNCHANGED <<job, joining, relaunches, hops, passes, won, online, search, events>>
  PROVE  Inv'
<1>1. TypeOK /\ jobs[s].fresh \in BOOLEAN
  BY DEF Inv, TypeOK, JobStates
<1>2. PICK p \in Plans :
        /\ steps' = p /\ connected' = FALSE
        /\ running' = (StepAt(p, 0) = "engine" /\ Gone(jobs, stale))
        /\ EnterStep(p, 0, jobs[s].fresh)
        /\ TakeStep(s, p, 0)
  BY DEF Plan
<1>3. /\ index' = 0 /\ engineUp' \in BOOLEAN /\ room' \in BOOLEAN
      /\ leash' \in {"none", "budget", "grace"}
      /\ leash' = "none" \/ jobs[s].fresh
  BY <1>1, <1>2, EnterTyped
<1>4. p \in Seq(Kinds) /\ p # << >> /\ 0 < Len(p)
  BY ConstantsAssumption
<1>5. StepTypes'
  <2>1. running' \in BOOLEAN
    BY <1>2
  <2> QED
    BY <1>1, <1>2, <1>3, <2>1 DEF StepTypes, TypeOK
<1>6. InPlan'
  BY <1>2, <1>3, <1>4 DEF InPlan
<1>7. StepAt(p, 0) \in Kinds \cup {"none"} /\ StepAt(p, 0) # "none"
  BY <1>4, StepOffered
<1>8. leash' \notin {leash, "none"} => Here(s)
  BY <1>3 DEF Here
<1>9. connected' \in BOOLEAN /\ TakeStep(s, p, 0)
  BY <1>2
<1> QED
  BY <1>5, <1>6, <1>7, <1>8, <1>9, TakenKeeps

\* A session begins: with the step the search is at, or with a plan.
LEMMA BeginKeeps == ASSUME Inv, NEW s \in Jobs, Begin(s) PROVE Inv'
<1>1. TypeOK /\ jobs \in JobFns
  BY DEF Inv, TypeOK, JobFns
<1>2. /\ At(s) = "begin"
      /\ UNCHANGED <<job, joining, relaunches, hops, passes, won, online, search, events>>
  BY DEF Begin
<1>3. CASE steps # << >>
  <2>1. /\ TakeStep(s, steps, index)
        /\ running' = (running \/ (StepAt(steps, index) = "engine" /\ Gone(jobs, stale)))
        /\ UNCHANGED <<steps, connected, index, engineUp, leash, room>>
    BY <1>3 DEF Begin
  <2>2. StepTypes'
    <3>1. running' \in BOOLEAN
      BY <1>1, <2>1 DEF TypeOK
    <3> QED
      BY <1>1, <1>2, <2>1, <3>1 DEF TypeOK, StepTypes
  <2>3. InPlan'
    BY <1>2, <2>1 DEF Inv, InPlan
  <2>4. /\ StepAt(steps, index) \in Kinds \cup {"none"}
        /\ search = "on" => StepAt(steps, index) # "none"
    <3>1. steps \in Plans /\ index \in Nat
      BY <1>1, <1>3 DEF TypeOK
    <3>2. search = "on" => index < Len(steps)
      BY <1>3 DEF Inv, InPlan
    <3> QED
      BY <3>1, <3>2, StepOffered
  <2>5. connected' \in BOOLEAN /\ leash' = leash
    BY <1>1, <2>1 DEF TypeOK
  <2> QED
    BY <1>2, <2>1, <2>2, <2>3, <2>4, <2>5, TakenKeeps
<1>4. CASE steps = << >> /\ online
  <2>1. Plan(s)
    BY <1>4 DEF Begin
  <2> QED
    BY <1>2, <2>1, PlanKeeps
<1>5. CASE steps = << >> /\ ~online
  <2>1. /\ jobs' = Moved(jobs, s, "network")
        /\ UNCHANGED <<steps, connected, running, index, engineUp, leash, room, cancellable, stale>>
    BY <1>5 DEF Begin
  <2>2. /\ jobs' \in JobFns /\ jobs'[s].at = "network" /\ jobs'[s].fresh = jobs[s].fresh
        /\ jobs'[s].cancelled = jobs[s].cancelled
        /\ \A t \in Jobs \ {s} : jobs'[t] = jobs[t]
    <3>1. "network" \in Labels
      BY DEF Labels
    <3> QED
      BY <1>1, <2>1, <3>1, MovedJobs
  <2>3. TypeOK'
    <3>1. JobTypes'
      BY <1>1, <1>2, <2>1, <2>2 DEF TypeOK, JobTypes
    <3>2. StepTypes' /\ OtherTypes'
      BY <1>1, <1>2, <2>1, SameTypes
    <3> QED
      BY <3>1, <3>2, TypeParts
  <2>4. InPlan'
    BY <1>2, <2>1 DEF Inv, InPlan
  <2> QED
    BY <1>2, <2>1, <2>2, <2>3, <2>4, SessionMoves
<1> QED
  BY <1>3, <1>4, <1>5

\* A network came to the session that waited for one.
LEMMA CameKeeps == ASSUME Inv, NEW s \in Jobs, NetworkCame(s) PROVE Inv'
<1>1. /\ At(s) = "network" /\ Plan(s)
      /\ UNCHANGED <<job, joining, relaunches, hops, passes, won, online, search, events>>
  BY DEF NetworkCame
<1> QED
  BY <1>1, PlanKeeps

\* The engine that was left behind has gone.
LEMMA GoneKeeps == ASSUME Inv, NEW s \in Jobs, StaleGone(s) PROVE Inv'
<1>1. TypeOK /\ jobs \in JobFns /\ jobs[s] \in JobStates
  BY DEF Inv, TypeOK, JobFns
<1>2. /\ At(s) = "stale" /\ stale' = None
      /\ UNCHANGED <<job, cancellable, joining, relaunches, hops, steps, index, passes, engineUp,
                     connected, won, leash, room, online, search, events>>
  BY DEF StaleGone
<1>3. /\ jobs' \in JobFns /\ running' \in BOOLEAN /\ \A t \in Jobs \ {s} : jobs'[t] = jobs[t]
      /\ \/ /\ jobs'[s].at = "prepare" /\ jobs'[s].fresh = jobs[s].fresh
            /\ jobs'[s].cancelled = jobs[s].cancelled
         \/ jobs'[s].at = "done" /\ ~jobs[s].fresh /\ ~jobs'[s].fresh
  <2>1. CASE jobs[s].fresh
    <3> DEFINE here == [jobs[s] EXCEPT !.at = "prepare", !.waits = None]
    <3>1. jobs' = [jobs EXCEPT ![s] = here] /\ running' = TRUE
      BY <2>1 DEF StaleGone
    <3>2. /\ here \in JobStates /\ here.at = "prepare" /\ here.fresh = jobs[s].fresh
          /\ here.cancelled = jobs[s].cancelled
      BY <1>1 DEF JobStates, Labels
    <3> HIDE DEF here
    <3>3. jobs' \in JobFns /\ jobs'[s] = here /\ \A t \in Jobs \ {s} : jobs'[t] = jobs[t]
      BY <1>1, <3>1, <3>2 DEF JobFns
    <3> QED
      BY <3>1, <3>2, <3>3
  <2>2. CASE ~jobs[s].fresh
    <3>1. jobs' = Ended(jobs, s) /\ UNCHANGED running
      BY <2>2 DEF StaleGone
    <3> QED
      BY <1>1, <2>2, <3>1, EndedJobs DEF TypeOK
  <2> QED
    BY <2>1, <2>2
<1>4. TypeOK'
  <2>1. JobTypes'
    BY <1>1, <1>2, <1>3 DEF TypeOK, JobTypes
  <2>2. StepTypes' /\ OtherTypes'
    BY <1>1, <1>2, <1>3 DEF TypeOK, StepTypes, OtherTypes
  <2> QED
    BY <2>1, <2>2, TypeParts
<1>5. InPlan'
  BY <1>2 DEF Inv, InPlan
<1> QED
  BY <1>2, <1>3, <1>4, <1>5, SessionMoves

\* The interface is asked for: the session goes on, or is over with its search.
LEMMA PreparedKeeps ==
  ASSUME Inv, NEW s \in Jobs, Prepared(s) \/ RaceRefused(s)
  PROVE  Inv'
<1>1. TypeOK /\ jobs \in JobFns
  BY DEF Inv, TypeOK, JobFns
<1>2. /\ At(s) \in {"prepare", "race"}
      /\ UNCHANGED <<job, cancellable, joining, relaunches, hops, steps, index, passes, engineUp,
                     connected, running, won, leash, room, stale, online, events>>
  BY DEF Prepared, RaceRefused, Resumes, planVars
<1>3. \/ jobs[s].fresh /\ jobs' = Moved(jobs, s, "launch") /\ search' = search
      \/ ~jobs[s].fresh /\ jobs' = Ended(jobs, s) /\ search' = search
      \/ jobs[s].fresh /\ jobs' = Ended(jobs, s) /\ search' = "over"
  BY DEF Prepared, RaceRefused, Refused
<1>4. /\ jobs' \in JobFns /\ search' \in {search, "over"}
      /\ \A t \in Jobs \ {s} : jobs'[t] = jobs[t]
      /\ \/ /\ jobs'[s].at = "launch" /\ jobs'[s].fresh = jobs[s].fresh
            /\ jobs'[s].cancelled = jobs[s].cancelled
         \/ jobs'[s].at = "done" /\ ~jobs'[s].fresh /\ (search' = "over" \/ ~jobs[s].fresh)
  <2>1. CASE jobs' = Moved(jobs, s, "launch") /\ search' = search
    <3>1. "launch" \in Labels
      BY DEF Labels
    <3> QED
      BY <1>1, <2>1, <3>1, MovedJobs
  <2>2. CASE jobs' = Ended(jobs, s) /\ (search' = "over" \/ ~jobs[s].fresh)
    <3>1. /\ jobs' \in JobFns /\ jobs'[s].at = "done" /\ ~jobs'[s].fresh
          /\ \A t \in Jobs \ {s} : jobs'[t] = jobs[t]
      BY <1>1, <2>2, EndedJobs
    <3> QED
      BY <1>3, <2>2, <3>1
  <2> QED
    BY <1>3, <2>1, <2>2
<1>5. TypeOK'
  <2>1. JobTypes'
    BY <1>1, <1>2, <1>4 DEF TypeOK, JobTypes
  <2>2. StepTypes' /\ OtherTypes'
    BY <1>1, <1>2, <1>4 DEF TypeOK, StepTypes, OtherTypes
  <2> QED
    BY <2>1, <2>2, TypeParts
<1>6. InPlan'
  BY <1>2, <1>4 DEF Inv, InPlan
<1> QED
  BY <1>2, <1>4, <1>5, <1>6, SessionMoves

\* A race is won: its session hands the interface over, or was replaced, and may
\* leave a lane.
LEMMA WonKeeps == ASSUME Inv, NEW s \in Jobs, RaceWon(s) PROVE Inv'
<1>1. TypeOK /\ jobs \in JobFns /\ hops \in HopStates
  BY DEF Inv, TypeOK, JobFns
<1>2. /\ At(s) = "race" /\ ~jobs[s].cancelled
      /\ UNCHANGED <<job, cancellable, joining, relaunches, steps, index, passes, engineUp,
                     connected, won, leash, room, online, search, events>>
  BY DEF RaceWon, Resumes
<1>3. PICK l \in Losers(jobs) :
        /\ stale' = StaleAfter(l)
        /\ jobs' = IF jobs[s].fresh THEN Moved(WithLane(jobs, l), s, "chain")
                   ELSE Ended(WithLane(jobs, l), s)
  BY DEF RaceWon
<1> DEFINE q == WithLane(jobs, l)
<1>4. /\ q \in JobFns /\ l \in Jobs \cup {None} /\ StaleAfter(l) \in {l, stale}
      /\ \A t \in Jobs : \/ q[t] = jobs[t]
                         \/ jobs[t].at = "done" /\ q[t] = Lane
  BY <1>1, LaneTyped
<1>5. /\ jobs[s].fresh => jobs' = Moved(q, s, "chain")
      /\ ~jobs[s].fresh => jobs' = Ended(q, s)
  BY <1>3
<1> HIDE DEF q
<1>6. q[s] = jobs[s]
  BY <1>2, <1>4 DEF At
<1>7. /\ jobs' \in JobFns /\ \A t \in Jobs \ {s} : jobs'[t] = q[t]
      /\ \/ /\ jobs'[s].at = "chain" /\ jobs[s].fresh /\ jobs'[s].fresh /\ ~jobs'[s].cancelled
            /\ hops' = [hops EXCEPT !.watched = s]
         \/ /\ jobs'[s].at = "done" /\ ~jobs[s].fresh /\ ~jobs'[s].fresh
            /\ hops' = hops
      /\ running' \in BOOLEAN
  <2>1. CASE jobs[s].fresh
    <3>1. "chain" \in Labels /\ jobs' = Moved(q, s, "chain")
      BY <1>5, <2>1 DEF Labels
    <3>2. hops' = [hops EXCEPT !.watched = s] /\ running' \in BOOLEAN
      BY <2>1 DEF RaceWon
    <3> QED
      BY <1>2, <1>4, <1>6, <2>1, <3>1, <3>2, MovedJobs
  <2>2. CASE ~jobs[s].fresh
    <3>1. jobs' = Ended(q, s)
      BY <1>5, <2>2
    <3>2. /\ jobs' \in JobFns /\ jobs'[s].at = "done" /\ jobs'[s].fresh = FALSE
          /\ \A t \in Jobs \ {s} : jobs'[t] = q[t]
      BY <1>4, <3>1, EndedJobs
    <3>3. hops' = hops /\ running' \in BOOLEAN
      BY <1>1, <2>2 DEF RaceWon, TypeOK
    <3> QED
      BY <2>2, <3>2, <3>3
  <2> QED
    BY <2>1, <2>2
<1>8. /\ hops' \in HopStates /\ hops'.crossed = hops.crossed
      /\ \/ hops'.watched = s /\ jobs'[s].at = "chain"
         \/ hops'.watched = hops.watched /\ jobs'[s].at = "done"
  BY <1>1, <1>7 DEF HopStates
<1>9. TypeOK'
  <2>1. JobTypes'
    <3>1. stale' \in Jobs \cup {None}
      BY <1>1, <1>3, <1>4 DEF TypeOK
    <3> QED
      BY <1>1, <1>2, <1>7, <1>8, <3>1 DEF TypeOK, JobTypes
  <2>2. StepTypes' /\ OtherTypes'
    BY <1>1, <1>2, <1>7 DEF TypeOK, StepTypes, OtherTypes
  <2> QED
    BY <2>1, <2>2, TypeParts
<1>10. InPlan'
  BY <1>2 DEF Inv, InPlan
<1>11. /\ At(s)' \in {"chain", "done"} /\ At(s)' = jobs'[s].at
       /\ ~hops.crossed /\ Here(s) => cancellable'
  BY <1>2, <1>7 DEF Inv, Uncrossed, Alone, At
<1>12. Drives(s) => Drives(s)'
  BY <1>7, <1>8, <1>11 DEF Drives, Carries
<1>13. \A t \in Jobs \ {s} : \/ jobs'[t] = jobs[t]
                             \/ jobs[t].at = "done" /\ jobs'[t] = Lane
  BY <1>4, <1>7
<1>14. ~(~hops.crossed /\ hops.watched = s)
  BY <1>2 DEF Inv, Uncrossed, WatchedThere, None, Jobs
<1> QED
  BY <1>2, <1>7, <1>8, <1>9, <1>10, <1>11, <1>12, <1>13, <1>14, OneMoves

\* The interface is handed over: the session is parked.
LEMMA ChainUpKeeps == ASSUME Inv, NEW s \in Jobs, ChainUp(s) PROVE Inv'
<1>1. TypeOK /\ jobs \in JobFns
  BY DEF Inv, TypeOK, JobFns
<1>2. /\ At(s) = "chain" /\ jobs' = Moved(jobs, s, "parked")
      /\ UNCHANGED <<job, cancellable, joining, relaunches, hops, steps, index, engineUp, running,
                     won, room, stale, online, search, events>>
  BY DEF ChainUp, Resumes
<1>3. connected' \in BOOLEAN /\ passes' \in Nat /\ leash' \in {leash, "none"}
  <2>1. CASE running
    BY <2>1 DEF ChainUp
  <2>2. CASE ~running
    BY <1>1, <2>2 DEF ChainUp, TypeOK
  <2> QED
    BY <2>1, <2>2
<1>4. /\ jobs' \in JobFns /\ jobs'[s].at = "parked" /\ jobs'[s].fresh = jobs[s].fresh
      /\ jobs'[s].cancelled = jobs[s].cancelled /\ \A t \in Jobs \ {s} : jobs'[t] = jobs[t]
  <2>1. "parked" \in Labels
    BY DEF Labels
  <2> QED
    BY <1>1, <1>2, <2>1, MovedJobs
<1>5. TypeOK'
  <2>1. JobTypes'
    BY <1>1, <1>2, <1>4 DEF TypeOK, JobTypes
  <2>2. StepTypes' /\ OtherTypes'
    BY <1>1, <1>2, <1>3 DEF TypeOK, StepTypes, OtherTypes
  <2> QED
    BY <2>1, <2>2, TypeParts
<1>6. InPlan'
  BY <1>2 DEF Inv, InPlan
<1>7. At(s)' = "parked" /\ (~hops.crossed /\ Here(s) => cancellable')
  BY <1>2, <1>4 DEF Inv, Uncrossed, Alone, At
<1>8. Drives(s) => Drives(s)'
  BY <1>2, <1>4, <1>7 DEF Drives, Carries
<1>9. ~hops.crossed /\ hops.watched = s => jobs'[s].fresh
  BY <1>4 DEF Inv, Uncrossed, WatchedThere, Here, None, Jobs
<1> QED
  BY <1>2, <1>3, <1>4, <1>5, <1>6, <1>7, <1>8, <1>9, OneMoves

-----------------------------------------------------------------------------
(* The theorems.                                                           *)

\* At first nobody is there and no search is on.
LEMMA InitKeeps == Init => Inv
<1> SUFFICES ASSUME Init
             PROVE  Inv
  OBVIOUS
<1>1. jobs \in JobFns /\ \A s \in Jobs : jobs[s] = Idle
  BY PlainJobs DEF Init, JobFns
<1>2. TypeOK
  <2>1. events \in 0..MaxEvents
    BY ConstantsAssumption DEF Init
  <2>2. JobTypes
    <3>1. cancellable \in BOOLEAN
      BY DEF Init
    <3>2. relaunches \in Nat /\ hops \in HopStates /\ job \in Jobs \cup {None} /\ joining \in Jobs \cup {None}
          /\ stale \in Jobs \cup {None}
      BY PlainJobs DEF Init
    <3> QED
      BY <1>1, <3>1, <3>2 DEF JobTypes
  <2>3. StepTypes /\ OtherTypes
    BY <2>1 DEF Init, StepTypes, OtherTypes
  <2> QED
    BY <2>2, <2>3, TypeParts
<1>3. \A s \in Jobs : ~Here(s) /\ Alone(s) /\ At(s) # "lane"
  BY <1>1, PlainJobs DEF Here, Alone, At
<1>4. relaunches = 0 /\ hops.watched = None /\ joining = None /\ search = "off"
  BY PlainJobs DEF Init
<1>5. Uncrossed
  BY <1>3, <1>4 DEF Uncrossed, WatchedThere
<1> QED
  BY <1>2, <1>3, <1>4, <1>5 DEF Inv, LanesApart, JoinIsAlone, InPlan, NeverStranded

\* Every step keeps it.
LEMMA NextKeeps == Inv /\ [Next]_vars => Inv'
<1> SUFFICES ASSUME Inv, [Next]_vars
             PROVE  Inv'
  OBVIOUS
<1>1. CASE Connect
  BY <1>1, ConnectKeeps
<1>2. CASE JoinReturns
  BY <1>2, JoinKeeps
<1>3. CASE RelaunchFires
  BY <1>3, RelaunchKeeps
<1>4. CASE Roam
  BY <1>4, RoamKeeps
<1>5. CASE Online \/ AutoWon \/ DeadlinePasses
  BY <1>5, QuietKeeps
<1>6. CASE LeashPulls
  BY <1>6, PullKeeps
<1>7. CASE LeashLeaves
  BY <1>7, LeaveKeeps
<1>10. CASE CarrierLost
  BY <1>10, LostKeeps
<1>8. ASSUME NEW s \in Jobs,
             Session(s) \/ EngineReady(s) \/ RunReturns(s) \/ Unwinds(s) \/ LaneEnds(s)
      PROVE  Inv'
  <2>1. CASE Begin(s)
    BY <2>1, BeginKeeps
  <2>2. CASE NetworkReplaced(s) \/ RunTakes(s) \/ EngineReady(s)
    BY <2>2, RunKeeps
  <2>3. CASE NetworkCame(s)
    BY <2>3, CameKeeps
  <2>4. CASE NetworkNever(s)
    BY <2>4, NeverKeeps
  <2>5. CASE StaleGone(s)
    BY <2>5, GoneKeeps
  <2>6. CASE StaleWaited(s)
    BY <2>6, WaitedKeeps
  <2>7. CASE PrepareFails(s) \/ RunReturns(s) \/ RaceLost(s)
    BY <2>7, FailedKeeps
  <2>8. CASE Prepared(s) \/ RaceRefused(s)
    BY <2>8, PreparedKeeps
  <2>9. CASE RaceWon(s)
    BY <2>9, WonKeeps
  <2>10. CASE ChainUp(s)
    BY <2>10, ChainUpKeeps
  <2>12. CASE ChainFails(s)
    BY <2>12, ChainFailsKeeps
  <2>13. CASE Unwinds(s)
    BY <2>13, UnwindsKeeps
  <2>11. CASE LaneEnds(s)
    BY <2>11, LaneKeeps
  <2> QED
    BY <1>8, <2>1, <2>2, <2>3, <2>4, <2>5, <2>6, <2>7, <2>8, <2>9, <2>10, <2>11, <2>12, <2>13
    DEF Session
<1>9. CASE UNCHANGED vars
  <2>1. UNCHANGED <<jobs, job, cancellable, joining, relaunches, hops, steps, index, passes,
                    engineUp, connected, running, won, leash, room, stale, online, search, events>>
    BY <1>9 DEF vars, jobVars, planVars
  <2>2. TypeOK' /\ InPlan'
    BY <2>1 DEF Inv, TypeOK, InPlan
  <2> QED
    BY <2>1, <2>2, NothingMoves DEF jobVars
<1> QED
  BY <1>1, <1>2, <1>3, <1>4, <1>5, <1>6, <1>7, <1>8, <1>9, <1>10 DEF Next

\* The invariant the theorems below follow from.
THEOREM Inductive == Spec => []Inv
  BY InitKeeps, NextKeeps, PTL DEF Spec

\* Every variable keeps its type, for any sessions, plans, passes and events.
THEOREM SearchTyped == Spec => []TypeOK
<1>1. Inv => TypeOK
  BY DEF Inv
<1> QED
  BY <1>1, Inductive, PTL

\* A search that is on is driven: something of the current generation is under way,
\* scheduled, or carries traffic over a winner nobody has lost, whichever of the
\* session, its leash, the winner's watcher and a command was the last to act
\* (relaunch, replaceSession, leashEngineStep, watchHop), also where the watcher
\* has acted while the session was handing the interface over.
THEOREM SearchIsDriven == Spec => []NeverStranded
<1>1. Inv => NeverStranded
  BY DEF Inv
<1> QED
  BY <1>1, Inductive, PTL

\* There is one search: no two of the session, its leash, the winner's watcher and
\* a command have each put a session, or a relaunch, on the way, as long as no
\* winner was lost in this generation while startCarrier still ran for it
\* (watchHop and establishAndRunAutoRace then each schedule one).
THEOREM OneSearch == Spec => []OneSession
<1>1. Inv => OneSession
  <2> SUFFICES ASSUME Inv, ~hops.crossed
               PROVE  Cardinality({s \in Jobs : Live(s)}) + relaunches <= 1
    BY DEF OneSession
  <2> DEFINE S == {s \in Jobs : Live(s)}
  <2>1. /\ relaunches \in Nat /\ relaunches <= 1
        /\ \A s \in S : s = job /\ ~(relaunches > 0)
    BY DEF Inv, TypeOK, Uncrossed, Alone, Here, Live
  <2>2. CASE S = {}
    <3>1. Cardinality(S) = 0
      BY <2>2, FS_EmptySet
    <3> QED
      BY <2>1, <3>1
  <2>3. CASE S # {}
    <3>1. S = {job}
      BY <2>1, <2>3
    <3>2. Cardinality({job}) = 1
      BY FS_Singleton
    <3>3. relaunches = 0
      BY <2>1, <2>3
    <3> QED
      BY <3>1, <3>2, <3>3
  <2> QED
    BY <2>2, <2>3
<1> QED
  BY <1>1, Inductive, PTL
=============================================================================
