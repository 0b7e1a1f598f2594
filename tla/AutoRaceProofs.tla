---------------------------- MODULE AutoRaceProofs ----------------------------
(***************************************************************************)
(* What AutoRace promises for any lanes and any number of routes: whatever *)
(* the race started is stopped or has won, the lanes take turns to the     *)
(* end, and what is settled stays so.                                      *)
(***************************************************************************)
EXTENDS AutoRace, FiniteSetTheorems, TLAPS

\* A lane with a client of its own under way; one at "stale" waits to have one.
Working == {"start", "prepare", "wait", "probe"}
Alive == {"starting", "up"}
Tries(i) == At(i) \in Working

\* A lane that tries a route has begun and is at one of its own, whose client is up
\* if a request is being made through it and starting otherwise.
LaneSound(i) ==
  /\ At(i) \in Working \cup {"stale"} => lane[i].k \in 1..Len(Lanes[i]) /\ i \in begun
  /\ Tries(i) => client[Route(i)] = IF At(i) = "probe" THEN "up" ELSE "starting"

\* While the race is on, a client that is alive is in flight, and what is in
\* flight is what some lane tries.
Running ==
  /\ race.winner = None
  /\ \A i \in Ids : At(i) # "blocked" /\ (i \notin begun => At(i) = "head")
  /\ \A r \in inFlight : \E i \in Ids : Tries(i) /\ Route(i) = r
  /\ \A r \in Routes : client[r] \in Alive => r \in inFlight

\* Once it is settled nothing is in flight, and a lane is over or held up where a
\* cancellation does not reach it.
Settled ==
  /\ inFlight = {}
  /\ \A i \in Ids : At(i) \in {"blocked", "over"}
  /\ LosersStopped /\ WinnerKept

Inv ==
  /\ TypeOK
  /\ \A i \in Ids : LaneSound(i)
  /\ IF race.settled THEN Settled ELSE Running
  /\ SomeLaneRuns

-----------------------------------------------------------------------------
(* The operators.                                                          *)

\* A lane's routes are routes, and none of another lane's.
LEMMA LanesTyped ==
  ASSUME NEW i \in Ids
  PROVE  /\ Len(Lanes[i]) \in Nat
         /\ \A k \in 1..Len(Lanes[i]) : Lanes[i][k] \in Routes
         /\ \A j \in Ids : \A k \in 1..Len(Lanes[i]), n \in 1..Len(Lanes[j]) :
              Lanes[i][k] = Lanes[j][n] => i = j
<1>1. Lanes[i] \in Seq(Routes)
  <2>1. Lanes \in Seq(Seq(Routes))
    BY RaceAssumption
  <2> HIDE DEF Routes
  <2> QED
    BY <2>1 DEF Ids
<1>2. \A j \in Ids : \A k \in 1..Len(Lanes[i]), n \in 1..Len(Lanes[j]) :
        Lanes[i][k] = Lanes[j][n] => i = j
  BY RaceAssumption
<1> QED
  BY <1>1, <1>2

LEMMA LanesCounted == Len(Lanes) \in Nat
<1>1. Lanes \in Seq(Seq(Routes))
  BY RaceAssumption
<1> HIDE DEF Routes
<1> QED
  BY <1>1

\* A lane is at one of its routes, or has run out.
LEMMA AtRoute ==
  ASSUME NEW k \in Nat, NEW n \in Nat, NEW at
  PROVE  (k <= n + IF at = "over" THEN 1 ELSE 0) <=> (k <= n \/ (at = "over" /\ k = n + 1))
<1>1. CASE at = "over"
  BY <1>1
<1>2. CASE at # "over"
  BY <1>2
<1> QED
  BY <1>1, <1>2

\* Whatever is stopped, an engine's run is in one of its four states.
LEMMA StoppedTyped ==
  ASSUME engine \in [Engines -> Runs], NEW routes, engine' \in Stopped(routes)
  PROVE  engine' \in [Engines -> Runs]
  BY DEF Stopped, SlotTaken, Runs

\* Of the lanes that have not begun there is a first.
LEMMA FirstLane ==
  ASSUME NEW S, S \subseteq Ids, S # {}
  PROVE  (CHOOSE j \in S : \A n \in S : j <= n) \in S
<1> DEFINE upTo == {1..j : j \in S}
<1>1. S \subseteq Nat /\ \A j \in S : 1..j \subseteq Ids
  BY LanesCounted DEF Ids
<1>2. IsWellFoundedOn(StrictSubsetOrdering(Ids), SUBSET Ids)
  <2>1. IsFiniteSet(Ids)
    BY LanesCounted, FS_Interval DEF Ids
  <2> QED
    BY <2>1, FS_StrictSubsetOrderingWellFounded, FS_FiniteSubsetsOfFinite
<1>3. PICK T \in upTo : \A U \in upTo : ~ (<<U, T>> \in StrictSubsetOrdering(Ids))
  <2>1. upTo \subseteq SUBSET Ids /\ upTo # {}
    BY <1>1
  <2> HIDE DEF upTo
  <2> QED
    BY <1>2, <2>1, WFMin
<1>4. PICK j \in S : T = 1..j
  BY <1>3
<1>5. ASSUME NEW n \in S PROVE j <= n
  <2> SUFFICES ASSUME n < j PROVE FALSE
    BY <1>1
  <2>1. 1..n \subseteq 1..j /\ 1..n # 1..j
    <3>1. j \in 1..j /\ j \notin 1..n
      BY <1>1
    <3> QED
      BY <1>1, <3>1
  <2>2. <<1..n, 1..j>> \in StrictSubsetOrdering(Ids)
    BY <1>1, <2>1 DEF StrictSubsetOrdering
  <2> QED
    BY <1>3, <1>4, <2>2
<1> QED
  BY <1>5

-----------------------------------------------------------------------------
(* Lanes.                                                                  *)

\* A lane goes on: what it leaves alive is other lanes', and it hands on when it
\* has run out.
LEMMA LaneGoesOn ==
  ASSUME Inv, ~race.settled, NEW i \in Ids, At(i) # "over",
         NEW k \in 1..(Len(Lanes[i]) + 1),
         NEW c \in [Routes -> {"none", "starting", "up", "stopped"}],
         NEW flying \in SUBSET inFlight,
         \A r \in flying : \E j \in Ids \ {i} : Tries(j) /\ Route(j) = r,
         \A r \in Routes : c[r] \in Alive => r \in flying,
         \A j \in Ids \ {i} : Tries(j) => c[Route(j)] = client[Route(j)],
         GoOn(i, k, begun \cup {i}, c, flying),
         engine' \in [Engines -> Runs], UNCHANGED left
  PROVE  Inv'
<1> DEFINE b == begun \cup {i}
           r == Lanes[i][k]
<1>0. /\ lane \in [Ids -> [at : Labels, k : Nat]] /\ b \subseteq Ids
      /\ Len(Lanes[i]) \in Nat /\ k \in Nat
      /\ \A j \in Ids : LaneSound(j)
      /\ Running
  BY LanesTyped DEF Inv, TypeOK
<1>1. CASE k > Len(Lanes[i])
  <2>1. /\ lane' = [lane EXCEPT ![i] = [at |-> "over", k |-> k]]
        /\ HandOn(i, b) /\ client' = c /\ inFlight' = flying
    BY <1>1 DEF GoOn
  <2>2. lane' \in [Ids -> [at : Labels, k : Nat]] /\ At(i)' = "over" /\ lane'[i].k = k
    BY <1>0, <2>1 DEF Labels, At
  <2>3. \A j \in Ids \ {i} : lane'[j] = lane[j] /\ At(j)' = At(j) /\ Route(j)' = Route(j)
    BY <1>0, <2>1 DEF At, Route
  <2> DEFINE running == {j \in b \ {i} : At(j) # "over"}
             next == CHOOSE j \in Ids \ b : \A n \in Ids \ b : j <= n
  <2>4. \/ running # {} /\ begun' = b /\ UNCHANGED race
        \/ /\ running = {} /\ Ids \ b # {}
           /\ begun' = b \cup {next} /\ UNCHANGED race
        \/ /\ running = {} /\ Ids \subseteq b
           /\ begun' = b /\ race' = [race EXCEPT !.settled = TRUE]
    BY <2>1 DEF HandOn
  <2>5. Ids \ b # {} => next \in Ids \ b
    BY FirstLane
  <2> HIDE DEF b, running, next
  <2>6. begun' \subseteq Ids /\ b \subseteq begun'
    BY <1>0, <2>4, <2>5
  <2>7. race' \in [settled : BOOLEAN, winner : Routes \cup {None}]
    BY <2>4 DEF Inv, TypeOK
  <2>8. inFlight' \subseteq Routes
    BY <2>1 DEF Inv, TypeOK
  <2>9. \A j \in Ids : lane'[j].k <= Len(Lanes[j]) + IF lane'[j].at = "over" THEN 1 ELSE 0
    <3>1. \A j \in Ids : lane[j].k <= Len(Lanes[j]) + IF lane[j].at = "over" THEN 1 ELSE 0
      BY DEF Inv, TypeOK
    <3>2. lane'[i].at = "over" /\ lane'[i].k = k /\ k <= Len(Lanes[i]) + 1
      BY <1>0, <2>2 DEF At
    <3> QED
      BY <2>3, <3>1, <3>2
  <2>10. TypeOK'
    BY <2>1, <2>2, <2>6, <2>7, <2>8, <2>9 DEF Inv, TypeOK
  <2>11. \A j \in Ids : LaneSound(j)'
    <3> SUFFICES ASSUME NEW j \in Ids PROVE LaneSound(j)'
      OBVIOUS
    <3>1. CASE j = i
      BY <2>2, <3>1 DEF LaneSound, Tries, Working
    <3>2. CASE j # i
      BY <1>0, <2>1, <2>3, <2>6, <3>2 DEF LaneSound, Tries, b
    <3> QED
      BY <3>1, <3>2
  <2>12. CASE running # {} /\ begun' = b /\ UNCHANGED race
    <3>1. PICK j \in b \ {i} : At(j) # "over"
      BY <2>12 DEF running
    <3>2. SomeLaneRuns'
      BY <1>0, <2>3, <2>12, <3>1 DEF SomeLaneRuns, b
    <3>3. Running'
      <4>1. \A n \in Ids : At(n)' # "blocked" /\ (n \notin begun' => At(n)' = "head")
        BY <1>0, <2>2, <2>3, <2>12 DEF Running, b
      <4>2. \A q \in inFlight' : \E n \in Ids : Tries(n)' /\ Route(n)' = q
        BY <2>1, <2>3 DEF Tries
      <4> QED
        BY <1>0, <2>1, <2>12, <4>1, <4>2 DEF Running
    <3> QED
      BY <2>10, <2>11, <2>12, <3>2, <3>3 DEF Inv
  <2>13. CASE /\ running = {} /\ Ids \ b # {}
              /\ begun' = b \cup {next} /\ UNCHANGED race
    <3>1. next \in Ids /\ next \notin b /\ next # i
      BY <2>5, <2>13 DEF b
    <3>2. At(next) = "head"
      BY <1>0, <3>1 DEF Running, b
    <3>3. SomeLaneRuns'
      BY <2>3, <2>13, <3>1, <3>2 DEF SomeLaneRuns
    <3>4. Running'
      <4>1. \A n \in Ids : At(n)' # "blocked" /\ (n \notin begun' => At(n)' = "head")
        BY <1>0, <2>2, <2>3, <2>6 DEF Running, b
      <4>2. \A q \in inFlight' : \E n \in Ids : Tries(n)' /\ Route(n)' = q
        BY <2>1, <2>3 DEF Tries
      <4> QED
        BY <1>0, <2>1, <2>13, <4>1, <4>2 DEF Running
    <3> QED
      BY <2>10, <2>11, <2>13, <3>3, <3>4 DEF Inv
  <2>14. CASE /\ running = {} /\ Ids \subseteq b
              /\ begun' = b /\ race' = [race EXCEPT !.settled = TRUE]
    <3>1. \A j \in Ids \ {i} : At(j) = "over"
      BY <2>14 DEF running, b
    <3>2. race'.settled /\ race'.winner = None
      BY <1>0, <2>14 DEF Inv, TypeOK, Running
    <3>3. flying = {}
      BY <3>1 DEF Tries, Working
    <3>4. \A j \in Ids : At(j)' = "over"
      BY <2>2, <2>3, <3>1
    <3>5. \A q \in Routes : client'[q] \notin Alive
      BY <2>1, <3>3
    <3>6. Settled'
      BY <2>1, <3>2, <3>3, <3>4, <3>5 DEF Settled, LosersStopped, WinnerKept, Alive
    <3>7. SomeLaneRuns'
      BY <3>2 DEF SomeLaneRuns
    <3> QED
      BY <2>10, <2>11, <3>2, <3>6, <3>7 DEF Inv
  <2> QED
    BY <2>4, <2>12, <2>13, <2>14
<1>2. CASE k <= Len(Lanes[i])
  <2>1. PICK label \in {"stale", "prepare", "start"} :
          /\ lane' = [lane EXCEPT ![i] = [at |-> label, k |-> k]]
          /\ \/ label = "stale" /\ client' = c /\ inFlight' = flying
             \/ /\ label # "stale" /\ client' = [c EXCEPT ![r] = "starting"]
                /\ inFlight' = flying \cup {r}
          /\ begun' = b /\ UNCHANGED race
    <3>1. CASE r \in Engines /\ left
      BY <1>0, <1>2, <3>1 DEF GoOn
    <3>2. CASE r \in Engines /\ ~left
      BY <1>0, <1>2, <3>2 DEF GoOn
    <3>3. CASE r \notin Engines
      BY <1>0, <1>2, <3>3 DEF GoOn
    <3> QED
      BY <3>1, <3>2, <3>3
  <2>2. k \in 1..Len(Lanes[i]) /\ r \in Routes
    BY <1>0, <1>2, LanesTyped
  <2>3. lane' \in [Ids -> [at : Labels, k : Nat]] /\ lane'[i] = [at |-> label, k |-> k]
    BY <1>0, <2>1 DEF Labels
  <2>4. At(i)' = label /\ Route(i)' = r
    BY <2>3 DEF At, Route
  <2>5. \A j \in Ids \ {i} : lane'[j] = lane[j] /\ At(j)' = At(j) /\ Route(j)' = Route(j)
    BY <1>0, <2>1 DEF At, Route
  <2> HIDE DEF b, r
  <2>6. \A j \in Ids \ {i} : At(j) \in Working \cup {"stale"} => Route(j) # r
    BY <1>0, <2>2, LanesTyped DEF LaneSound, Route, r
  <2>7. client' \in [Routes -> {"none", "starting", "up", "stopped"}] /\ inFlight' \subseteq Routes
    BY <2>1, <2>2 DEF Inv, TypeOK
  <2>8. \A j \in Ids : lane'[j].k <= Len(Lanes[j]) + IF lane'[j].at = "over" THEN 1 ELSE 0
    <3>1. \A j \in Ids : lane[j].k <= Len(Lanes[j]) + IF lane[j].at = "over" THEN 1 ELSE 0
      BY DEF Inv, TypeOK
    <3>2. lane'[i].at # "over" /\ lane'[i].k = k
      BY <2>1, <2>3
    <3>3. lane'[i].k <= Len(Lanes[i]) + IF lane'[i].at = "over" THEN 1 ELSE 0
      BY <1>0, <1>2, <3>2
    <3> QED
      BY <2>5, <3>1, <3>3
  <2>9. TypeOK'
    BY <1>0, <2>1, <2>3, <2>7, <2>8 DEF Inv, TypeOK
  <2>10. \A j \in Ids : LaneSound(j)'
    <3> SUFFICES ASSUME NEW j \in Ids PROVE LaneSound(j)'
      OBVIOUS
    <3>1. CASE j = i
      BY <2>1, <2>2, <2>3, <2>4, <3>1 DEF LaneSound, Tries, Working, b
    <3>2. CASE j # i
      <4>1. ASSUME Tries(j) PROVE client'[Route(j)] = client[Route(j)]
        <5>1. c[Route(j)] = client[Route(j)] /\ Route(j) # r
          BY <2>6, <3>2, <4>1 DEF Tries
        <5>2. Route(j) \in Routes
          BY <1>0, <4>1, LanesTyped DEF LaneSound, Route, Tries
        <5> QED
          BY <2>1, <5>1, <5>2
      <4> QED
        BY <1>0, <2>1, <2>5, <3>2, <4>1 DEF LaneSound, Tries, b
    <3> QED
      BY <3>1, <3>2
  <2>11. Running'
    <3>1. \A n \in Ids : At(n)' # "blocked" /\ (n \notin begun' => At(n)' = "head")
      BY <1>0, <2>1, <2>4, <2>5 DEF Running, b
    <3>2. \A q \in inFlight' : \E n \in Ids : Tries(n)' /\ Route(n)' = q
      <4> SUFFICES ASSUME NEW q \in inFlight' PROVE \E n \in Ids : Tries(n)' /\ Route(n)' = q
        OBVIOUS
      <4>1. CASE q \in flying
        BY <2>5, <4>1 DEF Tries
      <4>2. CASE q \notin flying
        BY <2>1, <2>4, <4>2 DEF Tries, Working
      <4> QED
        BY <4>1, <4>2
    <3>3. \A q \in Routes : client'[q] \in Alive => q \in inFlight'
      BY <2>1, <2>2
    <3> QED
      BY <1>0, <2>1, <3>1, <3>2, <3>3 DEF Running
  <2>12. SomeLaneRuns'
    BY <2>1, <2>4 DEF SomeLaneRuns, b
  <2> QED
    BY <2>1, <2>9, <2>10, <2>11, <2>12 DEF Inv
<1> QED
  BY <1>0, <1>1, <1>2

\* A lane that goes from one suspension to the next of the same route leaves the
\* race as it is.
LEMMA SameRoute ==
  ASSUME Inv, ~race.settled, NEW i \in Ids, Tries(i), At(i) # "probe",
         NEW label \in {"wait", "probe"}, lane' = Moved(i, label),
         \/ label = "wait" /\ UNCHANGED client
         \/ label = "probe" /\ client' = [client EXCEPT ![Route(i)] = "up"],
         engine' \in [Engines -> Runs], UNCHANGED <<begun, inFlight, left, race>>
  PROVE  Inv'
<1>1. /\ lane \in [Ids -> [at : Labels, k : Nat]] /\ lane[i].k \in 1..Len(Lanes[i])
      /\ i \in begun /\ \A j \in Ids : LaneSound(j)
  BY DEF Inv, TypeOK, LaneSound, Tries
<1>2. lane' \in [Ids -> [at : Labels, k : Nat]] /\ lane'[i] = [at |-> label, k |-> lane[i].k]
  BY <1>1 DEF Moved, Labels
<1>3. At(i)' = label /\ Route(i)' = Route(i) /\ Route(i) \in Routes
  BY <1>1, <1>2, LanesTyped DEF At, Route
<1>4. \A j \in Ids \ {i} : lane'[j] = lane[j] /\ At(j)' = At(j) /\ Route(j)' = Route(j)
  BY <1>1 DEF Moved, At, Route
<1>5. client' \in [Routes -> {"none", "starting", "up", "stopped"}]
  BY <1>3 DEF Inv, TypeOK
<1>6. TypeOK'
  <2>1. \A j \in Ids : lane[j].k <= Len(Lanes[j]) + IF lane[j].at = "over" THEN 1 ELSE 0
    BY DEF Inv, TypeOK
  <2>2. Len(Lanes[i]) \in Nat /\ lane'[i].at # "over" /\ lane'[i].k <= Len(Lanes[i])
    BY <1>1, <1>2, LanesTyped
  <2>3. lane'[i].k <= Len(Lanes[i]) + IF lane'[i].at = "over" THEN 1 ELSE 0
    BY <2>2
  <2>4. \A j \in Ids : lane'[j].k <= Len(Lanes[j]) + IF lane'[j].at = "over" THEN 1 ELSE 0
    BY <1>4, <2>1, <2>3
  <2> QED
    BY <1>2, <1>5, <2>4 DEF Inv, TypeOK
<1>7. \A j \in Ids : LaneSound(j)'
  <2> SUFFICES ASSUME NEW j \in Ids PROVE LaneSound(j)'
    OBVIOUS
  <2>1. CASE j = i
    <3>1. client'[Route(i)] = IF label = "probe" THEN "up" ELSE "starting"
      BY <1>1, <1>3 DEF Inv, TypeOK, LaneSound
    <3> QED
      BY <1>1, <1>2, <1>3, <2>1, <3>1 DEF LaneSound
  <2>2. CASE j # i
    <3>1. ASSUME Tries(j) PROVE client'[Route(j)] = client[Route(j)]
      <4>1. Route(j) \in Routes /\ Route(j) # Route(i)
        BY <1>1, <2>2, <3>1, LanesTyped DEF LaneSound, Route, Tries
      <4> QED
        BY <4>1 DEF Inv, TypeOK
    <3> QED
      BY <1>1, <1>4, <2>2, <3>1 DEF LaneSound, Tries
  <2> QED
    BY <2>1, <2>2
<1>8. Running'
  <2>0. Running
    BY DEF Inv
  <2>1. \A n \in Ids : At(n)' # "blocked" /\ (n \notin begun' => At(n)' = "head")
    BY <1>1, <1>3, <1>4, <2>0 DEF Running
  <2>2. \A q \in inFlight' : \E n \in Ids : Tries(n)' /\ Route(n)' = q
    BY <1>3, <1>4, <2>0 DEF Running, Tries, Working
  <2>3. \A q \in Routes : client'[q] \in Alive => q \in inFlight'
    <3> SUFFICES ASSUME NEW q \in Routes, client'[q] \in Alive PROVE q \in inFlight
      OBVIOUS
    <3>1. CASE q = Route(i) /\ label = "probe"
      <4>1. client[q] \in Alive
        BY <1>1, <3>1 DEF LaneSound, Alive
      <4> QED
        BY <2>0, <4>1 DEF Running
    <3>2. CASE ~(q = Route(i) /\ label = "probe")
      <4>1. client'[q] = client[q]
        BY <3>2 DEF Inv, TypeOK
      <4> QED
        BY <2>0, <4>1 DEF Running
    <3> QED
      BY <3>1, <3>2
  <2> QED
    BY <2>0, <2>1, <2>2, <2>3 DEF Running
<1>9. SomeLaneRuns'
  BY <1>1, <1>3 DEF SomeLaneRuns
<1> QED
  BY <1>6, <1>7, <1>8, <1>9 DEF Inv

\* Losing or not being kept: its own lane stops the route and goes on.
LEMMA GivingUp ==
  ASSUME Inv, ~race.settled, NEW i \in Ids, Tries(i), GivesUp(i)
  PROVE  Inv'
<1> DEFINE r == Route(i)
           k == lane[i].k + 1
           c == ClientsStopped({r})
<1>1. /\ lane[i].k \in 1..Len(Lanes[i]) /\ i \in begun /\ r \in Routes
      /\ k \in 1..(Len(Lanes[i]) + 1)
      /\ Running /\ \A j \in Ids : LaneSound(j)
  <2>1. /\ lane[i].k \in 1..Len(Lanes[i]) /\ i \in begun
        /\ Running /\ \A j \in Ids : LaneSound(j)
    BY DEF Inv, LaneSound, Tries
  <2> QED
    BY <2>1, LanesTyped DEF Route
<1>2. engine' \in [Engines -> Runs] /\ UNCHANGED left
  BY StoppedTyped DEF GivesUp, Inv, TypeOK
<1>3. GoOn(i, k, begun \cup {i}, c, inFlight \ {r})
  <2>1. begun \cup {i} = begun
    BY <1>1
  <2> QED
    BY <2>1 DEF GivesUp
<1>4. c \in [Routes -> {"none", "starting", "up", "stopped"}]
  BY DEF ClientsStopped, Inv, TypeOK
<1>5. \A q \in inFlight \ {r} : \E j \in Ids \ {i} : Tries(j) /\ Route(j) = q
  BY <1>1 DEF Running
<1>6. \A q \in Routes : c[q] \in Alive => q \in inFlight \ {r}
  BY <1>1 DEF Running, ClientsStopped, Alive
<1>7. \A j \in Ids \ {i} : Tries(j) => c[Route(j)] = client[Route(j)]
  <2> SUFFICES ASSUME NEW j \in Ids \ {i}, Tries(j) PROVE c[Route(j)] = client[Route(j)]
    OBVIOUS
  <2>1. Route(j) \in Routes /\ Route(j) # r
    BY <1>1, LanesTyped DEF LaneSound, Route, Tries
  <2> QED
    BY <2>1 DEF ClientsStopped
<1>8. At(i) # "over"
  BY DEF Tries, Working
<1> HIDE DEF c, k, r
<1> QED
  BY <1>1, <1>2, <1>3, <1>4, <1>5, <1>6, <1>7, <1>8, LaneGoesOn

\* A lane that has no client yet goes on to a route of its own, or runs out.
LEMMA NothingYet ==
  ASSUME Inv, ~race.settled, NEW i \in Ids, At(i) \in {"head", "stale"},
         NEW k \in 1..(Len(Lanes[i]) + 1),
         GoOn(i, k, begun \cup {i}, client, inFlight), UNCHANGED <<engine, left>>
  PROVE  Inv'
<1>1. \A q \in inFlight : \E j \in Ids \ {i} : Tries(j) /\ Route(j) = q
  BY DEF Inv, Running, Tries, Working
<1>2. \A q \in Routes : client[q] \in Alive => q \in inFlight
  BY DEF Inv, Running
<1>3. /\ client \in [Routes -> {"none", "starting", "up", "stopped"}]
      /\ engine' \in [Engines -> Runs]
  BY DEF Inv, TypeOK
<1> QED
  BY <1>1, <1>2, <1>3, LaneGoesOn

-----------------------------------------------------------------------------
(* The end of the race.                                                    *)

\* Settling leaves nothing alive but the winner, whatever else is stopped.
LEMMA Settling ==
  ASSUME Inv, ~race.settled, NEW winner \in Routes \cup {None}, NEW stops,
         \A r \in inFlight \ {winner} : r \in stops, winner \notin stops,
         winner # None => client[winner] = "up", Settle(winner, stops)
  PROVE  Inv'
<1>1. lane' \in [Ids -> [at : Labels, k : Nat]] /\ \A i \in Ids : At(i)' \in {"blocked", "over"}
  BY DEF Settle, Abandoned, Inv, TypeOK, Labels, At
<1>2. \A j \in Ids : lane'[j].k <= Len(Lanes[j]) + IF lane'[j].at = "over" THEN 1 ELSE 0
  <2> SUFFICES ASSUME NEW j \in Ids
               PROVE  lane'[j].k <= Len(Lanes[j]) + IF lane'[j].at = "over" THEN 1 ELSE 0
    OBVIOUS
  <2>1. /\ Len(Lanes[j]) \in Nat /\ lane[j].k \in Nat
        /\ lane[j].k <= Len(Lanes[j]) + IF lane[j].at = "over" THEN 1 ELSE 0
    BY LanesTyped DEF Inv, TypeOK
  <2>2. lane'[j] = [lane[j] EXCEPT !.at = IF @ \in {"prepare", "blocked"} THEN "blocked" ELSE "over"]
    BY DEF Settle, Abandoned
  <2>3. lane'[j].k = lane[j].k /\ (lane[j].at = "over" => lane'[j].at = "over")
    BY <2>2 DEF Inv, TypeOK
  <2>4. lane'[j].k \in Nat /\ (lane'[j].k <= Len(Lanes[j])
                                \/ (lane'[j].at = "over" /\ lane'[j].k = Len(Lanes[j]) + 1))
    BY <2>1, <2>3, AtRoute
  <2> DEFINE k == lane'[j].k
             n == Len(Lanes[j])
             at == lane'[j].at
  <2>5. k \in Nat /\ n \in Nat /\ (k <= n \/ (at = "over" /\ k = n + 1))
    BY <2>1, <2>4
  <2> HIDE DEF k, n, at
  <2>6. k <= n + IF at = "over" THEN 1 ELSE 0
    BY <2>5, AtRoute
  <2> QED
    BY <2>6 DEF k, n, at
<1>3. TypeOK'
  BY <1>1, <1>2, StoppedTyped DEF Settle, ClientsStopped, Inv, TypeOK
<1>4. Settled'
  <2>1. \A r \in Routes : client'[r] \in {"starting", "up"} => r = winner
    BY DEF Settle, ClientsStopped, Inv, Running, Alive
  <2>2. winner # None => client'[winner] = "up"
    BY DEF Settle, ClientsStopped
  <2> QED
    BY <1>1, <2>1, <2>2 DEF Settled, LosersStopped, WinnerKept, Settle
<1>5. race'.settled /\ SomeLaneRuns'
  BY DEF Settle, SomeLaneRuns
<1>6. \A i \in Ids : LaneSound(i)'
  BY <1>1 DEF LaneSound, Tries, Working
<1> QED
  BY <1>3, <1>4, <1>5, <1>6 DEF Inv

\* What a lane of a race that is on does.
LEMMA LaneSteps ==
  ASSUME Inv, NEW i \in Ids, LaneStep(i)
  PROVE  Inv' /\ ~race.settled
<1>1. ~race.settled
  BY DEF LaneStep, HeadEnds, StaleGone, StaleWaited, StartFails, StartReturns, Prepared,
         EngineOpens, WaitEnds, ProbeWorks, ProbeFails, Inv, Settled
<1> USE <1>1
<1>2. /\ Len(Lanes[i]) \in Nat
      /\ \A j \in Ids : LaneSound(j)
      /\ engine \in [Engines -> Runs]
  BY LanesTyped DEF Inv, TypeOK
<1>3. At(i) = "stale" => /\ begun \cup {i} = begun
                         /\ {lane[i].k, lane[i].k + 1} \subseteq 1..(Len(Lanes[i]) + 1)
  BY <1>2 DEF LaneSound
<1>4. CASE HeadEnds(i)
  BY <1>2, <1>4, NothingYet DEF HeadEnds
<1>5. CASE StaleGone(i)
  BY <1>3, <1>5, NothingYet DEF StaleGone
<1>6. CASE StaleWaited(i)
  BY <1>3, <1>6, NothingYet DEF StaleWaited
<1>7. CASE StartFails(i) \/ WaitEnds(i) \/ ProbeFails(i)
  BY <1>7, GivingUp DEF StartFails, WaitEnds, ProbeFails, Tries, Working
<1>8. CASE StartReturns(i) \/ EngineOpens(i)
  BY <1>2, <1>8, SameRoute DEF StartReturns, EngineOpens, Tries, Working
<1>9. CASE Prepared(i)
  <2>1. engine' \in [Engines -> Runs]
    BY <1>2, <1>9 DEF Prepared, Runs
  <2> QED
    BY <1>9, <2>1, SameRoute DEF Prepared, Tries, Working
<1>10. CASE ProbeWorks(i)
  <2>1. Route(i) \in Routes /\ client[Route(i)] = "up"
    BY <1>2, <1>10, LanesTyped DEF ProbeWorks, LaneSound, Route, Tries, Working
  <2> QED
    BY <1>10, <2>1, Settling DEF ProbeWorks
<1> QED
  BY <1>4, <1>5, <1>6, <1>7, <1>8, <1>9, <1>10 DEF LaneStep

\* Settling, and the settled race: the lanes left in a preparation come back to
\* nothing, and the engines' own threads are none of the race's books.
LEMMA OtherSteps ==
  ASSUME Inv, \/ Replaced \/ LeftGoes
              \/ \E i \in Ids : BlockedReturns(i)
              \/ \E r \in Engines : Native(r)
  PROVE  Inv' /\ (race.settled => UNCHANGED <<race, client, inFlight>>)
<1>1. CASE Replaced
  <2>1. inFlight \subseteq Routes /\ None \notin Routes
    BY RaceAssumption DEF Inv, TypeOK
  <2> QED
    BY <1>1, <2>1, Settling DEF Replaced
<1>2. CASE LeftGoes
  BY <1>2 DEF LeftGoes, Inv, TypeOK, LaneSound, Tries, At, Route, Running, Settled,
              LosersStopped, WinnerKept, SomeLaneRuns
<1>3. ASSUME NEW r \in Engines, Native(r) PROVE Inv' /\ UNCHANGED <<race, client, inFlight>>
  <2>1. engine' \in [Engines -> Runs]
    BY <1>3 DEF Native, RunTakes, RunReturns, SlotTaken, Runs, Inv, TypeOK
  <2>2. UNCHANGED <<lane, begun, client, inFlight, left, race>>
    BY <1>3 DEF Native, RunTakes, RunReturns
  <2> QED
    BY <2>1, <2>2 DEF Inv, TypeOK, LaneSound, Tries, At, Route, Running, Settled,
              LosersStopped, WinnerKept, SomeLaneRuns
<1>4. ASSUME NEW i \in Ids, BlockedReturns(i) PROVE Inv' /\ UNCHANGED <<race, client, inFlight>>
  <2>1. race.settled /\ UNCHANGED <<begun, client, inFlight, engine, left, race>>
    BY <1>4 DEF BlockedReturns, Inv, Running
  <2>2. lane \in [Ids -> [at : Labels, k : Nat]] /\ lane[i].at = "blocked" /\ lane' = Moved(i, "over")
    BY <1>4 DEF BlockedReturns, Inv, TypeOK, At
  <2>3. /\ lane' \in [Ids -> [at : Labels, k : Nat]]
        /\ \A j \in Ids : lane'[j].k = lane[j].k
                       /\ lane'[j].at = IF j = i THEN "over" ELSE lane[j].at
    BY <2>2 DEF Moved, Labels
  <2>4. \A j \in Ids : lane'[j].k <= Len(Lanes[j]) + IF lane'[j].at = "over" THEN 1 ELSE 0
    <3> SUFFICES ASSUME NEW j \in Ids
                 PROVE  lane'[j].k <= Len(Lanes[j]) + IF lane'[j].at = "over" THEN 1 ELSE 0
      OBVIOUS
    <3>1. /\ Len(Lanes[j]) \in Nat /\ lane[j].k \in Nat
          /\ lane[j].k <= Len(Lanes[j]) + IF lane[j].at = "over" THEN 1 ELSE 0
      BY LanesTyped DEF Inv, TypeOK
    <3>2. lane'[j].k \in Nat /\ (lane'[j].k <= Len(Lanes[j])
                                  \/ (lane'[j].at = "over" /\ lane'[j].k = Len(Lanes[j]) + 1))
      BY <2>2, <2>3, <3>1, AtRoute
    <3> QED
      BY <3>1, <3>2, AtRoute
  <2>5. TypeOK'
    BY <2>1, <2>3, <2>4 DEF Inv, TypeOK
  <2>6. \A j \in Ids : At(j)' \in {"blocked", "over"}
    BY <2>1, <2>3 DEF Inv, Settled, At
  <2>7. \A j \in Ids : LaneSound(j)'
    BY <2>6 DEF LaneSound, Tries, Working
  <2>8. Settled' /\ SomeLaneRuns'
    BY <2>1, <2>6 DEF Inv, Settled, LosersStopped, WinnerKept, SomeLaneRuns
  <2> QED
    BY <2>1, <2>5, <2>7, <2>8 DEF Inv
<1>5. Replaced => ~race.settled
  BY DEF Replaced
<1>6. LeftGoes => UNCHANGED <<race, client, inFlight>>
  BY DEF LeftGoes
<1> QED
  BY <1>1, <1>2, <1>3, <1>4, <1>5, <1>6

-----------------------------------------------------------------------------
(* What follows.                                                           *)

LEMMA RaceSteps ==
  ASSUME Inv, [Next]_vars
  PROVE  Inv' /\ (race.settled => UNCHANGED <<race, client, inFlight>>)
<1>1. CASE UNCHANGED vars
  BY <1>1 DEF vars, Inv, TypeOK, LaneSound, Tries, At, Route, Running, Settled,
              LosersStopped, WinnerKept, SomeLaneRuns
<1> QED
  BY <1>1, LaneSteps, OtherSteps DEF Next

LEMMA RaceStarts == Init => Inv
<1> SUFFICES ASSUME Init PROVE Inv
  OBVIOUS
<1>1. \A i \in Ids : lane[i] = [at |-> "head", k |-> 0] /\ At(i) = "head" /\ Len(Lanes[i]) \in Nat
  BY LanesTyped DEF Init, At
<1>2. \A i \in Ids : lane[i].k <= Len(Lanes[i]) + IF lane[i].at = "over" THEN 1 ELSE 0
  <2>1. \A i \in Ids : lane[i].at = "head" /\ lane[i].k = 0
    BY <1>1
  <2>2. \A i \in Ids : 0 <= Len(Lanes[i]) + 0
    BY <1>1
  <2> QED
    BY <2>1, <2>2
<1>3. TypeOK
  BY <1>2 DEF Init, TypeOK, Labels, Runs
<1>4. \A i \in Ids : LaneSound(i)
  BY <1>1 DEF LaneSound, Tries, Working
<1>5. Running /\ SomeLaneRuns /\ ~race.settled
  BY <1>1 DEF Init, Running, SomeLaneRuns, Alive
<1> QED
  BY <1>3, <1>4, <1>5 DEF Inv

\* Lanes, clients and runs stay what they are said to be, for any lanes.
THEOREM RaceTyped == Spec => []TypeOK
<1>1. Spec => []Inv
  BY RaceStarts, RaceSteps, PTL DEF Spec
<1> QED
  BY <1>1, PTL DEF Inv

\* Nothing the race started outlives it in the service's books.
THEOREM LosersAreStopped == Spec => []LosersStopped
<1>1. Spec => []Inv
  BY RaceStarts, RaceSteps, PTL DEF Spec
<1>2. Inv => LosersStopped
  BY DEF Inv, Settled, LosersStopped
<1> QED
  BY <1>1, <1>2, PTL

\* Whatever is stopped on its account, the winner is up.
THEOREM WinnerIsKept == Spec => []WinnerKept
<1>1. Spec => []Inv
  BY RaceStarts, RaceSteps, PTL DEF Spec
<1>2. Inv => WinnerKept
  BY DEF Inv, Settled, Running, WinnerKept
<1> QED
  BY <1>1, <1>2, PTL

\* No lane sits out its head start behind lanes that have run out.
THEOREM LanesTakeTurns == Spec => []SomeLaneRuns
<1>1. Spec => []Inv
  BY RaceStarts, RaceSteps, PTL DEF Spec
<1> QED
  BY <1>1, PTL DEF Inv

\* A race is settled once: nothing that comes back late starts, stops or claims
\* anything.
THEOREM SettledOnce == Spec => SettledForGood
<1>1. Spec => []Inv
  BY RaceStarts, RaceSteps, PTL DEF Spec
<1> QED
  BY <1>1, RaceSteps, PTL DEF Spec, SettledForGood
=============================================================================
