----------------------------- MODULE EngineSlot -----------------------------
(***************************************************************************)
(* What the native bridge promises the service about engines, without its  *)
(* flags, locks and channels: at most one engine is live; it is started    *)
(* only while there is none; and once told to stop, or over by itself, it  *)
(* is never live again.  Engines that are going may overlap the next one,  *)
(* and one that goes may take the live one with it (the end of nativeRun   *)
(* takes whatever the slot holds).                                         *)
(***************************************************************************)
CONSTANT Threads

VARIABLES live,    \* engines that have not been told to stop
          ending   \* engines that are going

vars == <<live, ending>>

Init == live = {} /\ ending = {}

Start(t) ==
  /\ live = {} /\ t \notin ending
  /\ live' = {t}
  /\ UNCHANGED ending

\* Told to stop, or over by itself.
Stop ==
  /\ live # {}
  /\ live' = {}
  /\ ending' = ending \cup live

\* An engine that could not be given its descriptor never gets to run.
Fail(t) ==
  /\ t \in live
  /\ live' = live \ {t}
  /\ UNCHANGED ending

\* An engine goes, and the live one may be told to stop by that.
Go(t) ==
  /\ t \in ending
  /\ \/ ending' = ending \ {t} /\ UNCHANGED live
     \/ live' = {} /\ ending' = (ending \ {t}) \cup live

Next == Stop \/ \E t \in Threads : Start(t) \/ Fail(t) \/ Go(t)

Spec == Init /\ [][Next]_vars
=============================================================================
