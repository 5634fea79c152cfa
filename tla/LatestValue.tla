---------------------------- MODULE LatestValue ----------------------------
(***************************************************************************)
(* What a primitive that shares a value between one writer and one reader  *)
(* promises: a load returns, whole, a value that was the latest committed  *)
(* one at some moment between its call and its return.  So a load never    *)
(* returns something older than what was committed when it was called,     *)
(* nor older than what an earlier load returned.                           *)
(***************************************************************************)
CONSTANTS
  Wholes,      \* the values that can be stored
  Initial      \* the value before the first store

VARIABLES
  committed,   \* the latest committed value
  loading,     \* a load is in progress
  candidates,  \* what it may return
  result       \* what the last load returned

vars == <<committed, loading, candidates, result>>

Init ==
  /\ committed = Initial
  /\ loading = FALSE
  /\ candidates = {}
  /\ result = Initial

Commit(v) ==
  /\ committed' = v
  /\ candidates' = IF loading THEN candidates \cup {v} ELSE candidates
  /\ UNCHANGED <<loading, result>>

Call ==
  /\ ~loading
  /\ loading' = TRUE
  /\ candidates' = {committed}
  /\ UNCHANGED <<committed, result>>

Return ==
  /\ loading
  /\ result' \in candidates
  /\ loading' = FALSE
  /\ candidates' = {}
  /\ UNCHANGED committed

Next ==
  \/ \E v \in Wholes : Commit(v)
  \/ Call
  \/ Return

Spec == Init /\ [][Next]_vars
=============================================================================
