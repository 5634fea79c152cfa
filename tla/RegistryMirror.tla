--------------------------- MODULE RegistryMirror ---------------------------
(***************************************************************************)
(* emb::trouble::registry_mirror: what is known of a registry on another   *)
(* node, from the flags of its levels as they are received.                *)
(***************************************************************************)
EXTENDS Integers

CONSTANTS
  Statuses,
  LevelCount

VARIABLE
  flags_    \* the statuses of each level that were active when it was received

Levels == 0 .. LevelCount - 1

Init == flags_ = [l \in Levels |-> {}]

store(l, flags) == flags_' = [flags_ EXCEPT ![l] = flags]
clear == flags_' = [l \in Levels |-> {}]

Next ==
  \/ \E l \in Levels, flags \in SUBSET Statuses : store(l, flags)
  \/ clear

-----------------------------------------------------------------------------
\* The questions at one level, and over all of them: a loop that leaves at the first
\* level, from the lowest or from the highest, that decides.
test_at(s, l) == s \in flags_[l]
any_at(l) == flags_[l] # {}

test(s) ==
  LET from[l \in 0 .. LevelCount] == l < LevelCount /\ (s \in flags_[l] \/ from[l + 1])
  IN  from[0]

any ==
  LET from[l \in 0 .. LevelCount] == l < LevelCount /\ (flags_[l] # {} \/ from[l + 1])
  IN  from[0]

\* No level, or the one.
worst ==
  LET below[l \in 0 .. LevelCount] ==
        IF l = 0 THEN {} ELSE IF flags_[l - 1] # {} THEN {l - 1} ELSE below[l - 1]
  IN  below[LevelCount]

-----------------------------------------------------------------------------
\* The answers about one status, about any, and the worst level agree with each
\* other and with the answers at each level, whatever was received in which order:
\* no level is left out and none is read past the last (test, any, worst).
AnswersAgree ==
  /\ \A s \in Statuses : test(s) <=> \E l \in Levels : test_at(s, l)
  /\ any <=> \E s \in Statuses : test(s)
  /\ worst = {l \in Levels : any_at(l) /\ \A m \in Levels : m > l => ~any_at(m)}
=============================================================================
