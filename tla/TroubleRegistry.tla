--------------------------- MODULE TroubleRegistry ---------------------------
(***************************************************************************)
(* emb::trouble::registry: which statuses are active at which level.       *)
(* Writers change a shadow under a lock and publish it through one         *)
(* emb::double_buffer for each level; readers take no lock.                *)
(*                                                                         *)
(* The flags of a level are a bitset of several words, copied word by      *)
(* word.  Writers exclude each other by the lock.  A reader shares the     *)
(* processor with them: a writer may preempt it, and then runs to its end, *)
(* unless the reader has itself preempted a writer: it then runs to its    *)
(* end first.                                                              *)
(***************************************************************************)
EXTENDS Integers

CONSTANTS
  Words,     \* the words of flags_type: each is the set of statuses it holds
  LevelCount,
  Range,     \* Range[s]: the levels from level_min to level_max of a status
  Writers    \* the contexts that set and reset statuses

Statuses == UNION Words
Levels == 0 .. LevelCount - 1
Nobody == "nobody"

ASSUME RegistryAssumption ==
  /\ LevelCount \in Nat \ {0}
  /\ \A u, v \in Words : u # v => u \cap v = {}
  /\ \A s \in Statuses : \E lo, hi \in Levels : lo <= hi /\ Range[s] = lo .. hi
  /\ Nobody \notin Writers

VARIABLES
  shadow,     \* shadow_
  buf,        \* buf_ of the double buffer of each level
  front,      \* front_ of each
  lock,       \* who is in a critical section
  wpc,        \* where each writer is
  change,     \* what it does: [kind, status], or clear
  todo,       \* the levels it has not published yet
  fetched,    \* the level of the shadow it has read
  wleft,      \* the words it has not written yet
  nested,     \* whether the reader has preempted a writer
  rpc,        \* where the reader is
  query,      \* what it asks: test(status), any or flags
  scope,      \* the levels it asks about
  ahead,      \* the levels it has not scanned yet
  sampled,    \* double_buffer::load's front
  rleft,      \* the words it has not copied yet
  copied,     \* what it has copied
  truth,      \* ghost: the statuses set and not reset, at each level
  candidates, \* ghost: what the level of a query for flags published since
  commits,    \* ghost: how often; 2 stands for more
  kept,       \* ghost: statuses active all through the scan, that never moved down
  seen        \* ghost: statuses active at some moment of the scan

levelVars == <<shadow, buf, front, truth>>
writerVars == <<lock, wpc, change, todo, fetched, wleft>>
scanVars == <<nested, rpc, query, scope, ahead, sampled, rleft, copied>>
watchVars == <<candidates, commits, kept, seen>>
vars == <<levelVars, writerVars, scanVars, watchVars>>

First(L) == CHOOSE l \in L : \A m \in L : l <= m
Published(l) == buf[l][front[l]]

None == [kind |-> "none"]
Changes ==
  [kind : {"set", "reset"}, status : Statuses] \cup {[kind |-> "clear"]}
Queries ==
  [kind : {"test"}, status : Statuses] \cup {[kind |-> "any"], [kind |-> "flags"]}

\* The statuses a query is about; flags takes the words as they are.
Asked(q) ==
  IF q.kind = "test" THEN {q.status} ELSE IF q.kind = "any" THEN Statuses ELSE {}

Applied(c, flags) ==
  IF c.kind = "set" THEN flags \cup {c.status}
  ELSE IF c.kind = "reset" THEN flags \ {c.status} ELSE {}

Init ==
  /\ shadow = [l \in Levels |-> {}]
  /\ buf = [l \in Levels |-> [i \in 0 .. 1 |-> {}]]
  /\ front = [l \in Levels |-> 0]
  /\ lock = Nobody
  /\ wpc = [w \in Writers |-> "idle"]
  /\ change = [w \in Writers |-> None]
  /\ todo = [w \in Writers |-> {}]
  /\ fetched = [w \in Writers |-> {}]
  /\ wleft = [w \in Writers |-> {}]
  /\ nested = FALSE /\ rpc = "idle" /\ query = None /\ scope = {} /\ ahead = {}
  /\ sampled = 0 /\ rleft = {} /\ copied = {}
  /\ truth = [l \in Levels |-> {}]
  /\ candidates = {} /\ commits = 0 /\ kept = {} /\ seen = {}

-----------------------------------------------------------------------------
(* The writers.                                                            *)

WriterRuns == ~nested

\* Faulty Enter: there is no critical section.
EnterUnlocked(w, c, L) ==
  /\ WriterRuns
  /\ wpc[w] = "idle"
  /\ lock' = w
  /\ wpc' = [wpc EXCEPT ![w] = "modify"]
  /\ change' = [change EXCEPT ![w] = c]
  /\ todo' = [todo EXCEPT ![w] = L]
  /\ fetched' = [fetched EXCEPT ![w] = shadow[First(L)]]
  /\ UNCHANGED <<levelVars, wleft, scanVars, watchVars>>

Enter(w, c, L) ==
  /\ WriterRuns
  /\ wpc[w] = "idle"
  /\ lock = Nobody
  /\ lock' = w
  /\ wpc' = [wpc EXCEPT ![w] = "modify"]
  /\ change' = [change EXCEPT ![w] = c]
  /\ todo' = [todo EXCEPT ![w] = L]
  /\ fetched' = [fetched EXCEPT ![w] = shadow[First(L)]]
  /\ UNCHANGED <<levelVars, wleft, scanVars, watchVars>>

Set(w, s, l) == l \in Range[s] /\ Enter(w, [kind |-> "set", status |-> s], {l})
Reset(w, s, l) == l \in Range[s] /\ Enter(w, [kind |-> "reset", status |-> s], {l})
ResetAll(w, s) == Enter(w, [kind |-> "reset", status |-> s], Range[s])
Clear(w) == Enter(w, [kind |-> "clear"], Levels)

\* The shadow that was read is written back changed; clear overwrites that of
\* every level first.
Modify(w) ==
  /\ WriterRuns
  /\ wpc[w] = "modify"
  /\ LET touched == IF change[w].kind = "clear" THEN Levels ELSE {First(todo[w])}
     IN /\ shadow' = [l \in Levels |-> IF l \in touched
                        THEN Applied(change[w], fetched[w]) ELSE shadow[l]]
        /\ truth' = [l \in Levels |-> IF l \in touched
                       THEN Applied(change[w], truth[l]) ELSE truth[l]]
  /\ fetched' = [fetched EXCEPT ![w] = {}]
  /\ wleft' = [wleft EXCEPT ![w] = Words]
  /\ wpc' = [wpc EXCEPT ![w] = "store"]
  /\ UNCHANGED <<buf, front, lock, change, todo, scanVars, watchVars>>

\* Faulty StoreWord: it writes to the buffer that readers are given.
StoreWordFront(w, u) ==
  /\ WriterRuns
  /\ wpc[w] = "store"
  /\ u \in wleft[w]
  /\ LET l == First(todo[w])
     IN  buf' = [buf EXCEPT ![l][front[l]] = (@ \ u) \cup (shadow[l] \cap u)]
  /\ wleft' = [wleft EXCEPT ![w] = @ \ {u}]
  /\ UNCHANGED <<shadow, front, truth, lock, wpc, change, todo, fetched,
                 scanVars, watchVars>>

\* double_buffer::store: the words of the buffer behind the front one.
StoreWord(w, u) ==
  /\ WriterRuns
  /\ wpc[w] = "store"
  /\ u \in wleft[w]
  /\ LET l == First(todo[w])
     IN  buf' = [buf EXCEPT ![l][1 - front[l]] = (@ \ u) \cup (shadow[l] \cap u)]
  /\ wleft' = [wleft EXCEPT ![w] = @ \ {u}]
  /\ UNCHANGED <<shadow, front, truth, lock, wpc, change, todo, fetched,
                 scanVars, watchVars>>

\* What the reader's scan lives through when level l comes to be as in pub.
Lowest(s, pub) == First({l \in scope : s \in pub[l]})
Observe(l, pub) ==
  CASE rpc = "idle" \/ l \notin scope -> UNCHANGED watchVars
    [] rpc # "idle" /\ l \in scope /\ query.kind = "flags" ->
       /\ candidates' = candidates \cup {pub[l]}
       /\ commits' = IF commits < 2 THEN commits + 1 ELSE 2
       /\ UNCHANGED <<kept, seen>>
    [] OTHER ->
       /\ kept' = {s \in kept : /\ \E m \in scope : s \in pub[m]
                                /\ Lowest(s, pub) >= Lowest(s, [m \in Levels |-> Published(m)])}
       /\ seen' = seen \cup {s \in Asked(query) : \E m \in scope : s \in pub[m]}
       /\ UNCHANGED <<candidates, commits>>

\* The front is changed, and the next level follows or the lock is left.
Publish(w) ==
  /\ WriterRuns
  /\ wpc[w] = "store"
  /\ wleft[w] = {}
  /\ LET l == First(todo[w])
         rest == todo[w] \ {l}
     IN /\ front' = [front EXCEPT ![l] = 1 - @]
        /\ Observe(l, [m \in Levels |-> IF m = l THEN buf[l][1 - front[l]] ELSE Published(m)])
        /\ todo' = [todo EXCEPT ![w] = rest]
        /\ IF rest = {}
             THEN /\ lock' = Nobody
                  /\ wpc' = [wpc EXCEPT ![w] = "idle"]
                  /\ change' = [change EXCEPT ![w] = None]
                  /\ UNCHANGED <<fetched, wleft>>
           ELSE IF change[w].kind = "clear"
             THEN /\ wleft' = [wleft EXCEPT ![w] = Words]
                  /\ UNCHANGED <<lock, wpc, change, fetched>>
           ELSE /\ wpc' = [wpc EXCEPT ![w] = "modify"]
                /\ fetched' = [fetched EXCEPT ![w] = shadow[First(rest)]]
                /\ UNCHANGED <<lock, change, wleft>>
  /\ UNCHANGED <<shadow, buf, truth, scanVars>>

-----------------------------------------------------------------------------
(* The reader.                                                             *)

ReaderRuns == nested \/ lock = Nobody

\* Faulty AskShort: the scan stops before the last level.
AskShort(q, L) ==
  /\ rpc = "idle"
  /\ nested' = (lock # Nobody)
  /\ rpc' = "sample"
  /\ query' = q
  /\ scope' = L
  /\ ahead' = {First(L)} \cup {l \in L : \E m \in L : l < m}
  /\ kept' = {s \in Asked(q) : \E l \in L : s \in Published(l)}
  /\ seen' = kept'
  /\ candidates' = IF q.kind = "flags" THEN {Published(First(L))} ELSE {}
  /\ UNCHANGED <<levelVars, writerVars, sampled, rleft, copied, commits>>

Ask(q, L) ==
  /\ rpc = "idle"
  /\ nested' = (lock # Nobody)
  /\ rpc' = "sample"
  /\ query' = q
  /\ scope' = L
  /\ ahead' = L
  /\ kept' = {s \in Asked(q) : \E l \in L : s \in Published(l)}
  /\ seen' = kept'
  /\ candidates' = IF q.kind = "flags" THEN {Published(First(L))} ELSE {}
  /\ UNCHANGED <<levelVars, writerVars, sampled, rleft, copied, commits>>

Test(s, l) == l \in Range[s] /\ Ask([kind |-> "test", status |-> s], {l})
TestAll(s) == Ask([kind |-> "test", status |-> s], Range[s])
AnyAt(l) == Ask([kind |-> "any"], {l})
AnyAll == Ask([kind |-> "any"], Levels)
Flags(l) == Ask([kind |-> "flags"], {l})

Sample ==
  /\ ReaderRuns
  /\ rpc = "sample"
  /\ sampled' = front[First(ahead)]
  /\ rleft' = Words
  /\ rpc' = "copy"
  /\ UNCHANGED <<levelVars, writerVars, nested, query, scope, ahead, copied, watchVars>>

\* Faulty CopyWordBack: it reads the buffer the writer fills.
CopyWordBack(u) ==
  /\ ReaderRuns
  /\ rpc = "copy"
  /\ u \in rleft
  /\ copied' = copied \cup (buf[First(ahead)][1 - sampled] \cap u)
  /\ rleft' = rleft \ {u}
  /\ UNCHANGED <<levelVars, writerVars, nested, rpc, query, scope, ahead, sampled, watchVars>>

CopyWord(u) ==
  /\ ReaderRuns
  /\ rpc = "copy"
  /\ u \in rleft
  /\ copied' = copied \cup (buf[First(ahead)][sampled] \cap u)
  /\ rleft' = rleft \ {u}
  /\ UNCHANGED <<levelVars, writerVars, nested, rpc, query, scope, ahead, sampled, watchVars>>

Found == IF query.kind = "test" THEN query.status \in copied ELSE copied # {}

Answers == rpc = "copy" /\ rleft = {} /\ (query.kind = "flags" \/ Found \/ ahead = {First(ahead)})

Answer ==
  /\ ReaderRuns
  /\ Answers
  /\ nested' = FALSE /\ rpc' = "idle" /\ query' = None /\ scope' = {} /\ ahead' = {}
  /\ sampled' = 0 /\ copied' = {}
  /\ candidates' = {} /\ commits' = 0 /\ kept' = {} /\ seen' = {}
  /\ UNCHANGED <<levelVars, writerVars, rleft>>

\* Nothing found at this level.
NextLevel ==
  /\ ReaderRuns
  /\ rpc = "copy" /\ rleft = {} /\ ~Answers
  /\ rpc' = "sample"
  /\ ahead' = ahead \ {First(ahead)}
  /\ sampled' = 0 /\ copied' = {}
  /\ UNCHANGED <<levelVars, writerVars, nested, query, scope, rleft, watchVars>>

-----------------------------------------------------------------------------
WriterStep(w) ==
  \/ \E s \in Statuses, l \in Levels : Set(w, s, l) \/ Reset(w, s, l)
  \/ \E s \in Statuses : ResetAll(w, s)
  \/ Clear(w)
  \/ Modify(w)
  \/ \E u \in Words : StoreWord(w, u)
  \/ Publish(w)

ReaderStep ==
  \/ \E s \in Statuses, l \in Levels : Test(s, l)
  \/ \E s \in Statuses : TestAll(s)
  \/ \E l \in Levels : AnyAt(l) \/ Flags(l)
  \/ AnyAll
  \/ Sample
  \/ \E u \in Words : CopyWord(u)
  \/ NextLevel
  \/ Answer

Next == (\E w \in Writers : WriterStep(w)) \/ ReaderStep

Spec == Init /\ [][Next]_vars

-----------------------------------------------------------------------------
TypeOK ==
  /\ shadow \in [Levels -> SUBSET Statuses] /\ truth \in [Levels -> SUBSET Statuses]
  /\ buf \in [Levels -> [0 .. 1 -> SUBSET Statuses]]
  /\ front \in [Levels -> 0 .. 1]
  /\ lock \in Writers \cup {Nobody}
  /\ wpc \in [Writers -> {"idle", "modify", "store"}]
  /\ change \in [Writers -> Changes \cup {None}]
  /\ todo \in [Writers -> SUBSET Levels]
  /\ fetched \in [Writers -> SUBSET Statuses]
  /\ wleft \in [Writers -> SUBSET Words]
  /\ nested \in BOOLEAN
  /\ rpc \in {"idle", "sample", "copy"} /\ query \in Queries \cup {None}
  /\ scope \in SUBSET Levels /\ ahead \in SUBSET scope
  /\ sampled \in 0 .. 1 /\ rleft \in SUBSET Words /\ copied \in SUBSET Statuses
  /\ candidates \in SUBSET SUBSET Statuses /\ commits \in 0 .. 2
  /\ kept \in SUBSET Statuses /\ seen \in SUBSET Statuses

\* Where a writer is in its critical section: it has read the shadow of the level
\* it is at, or has changed it and is copying it behind the front; the levels it
\* is past, and those it will not touch, are published.
AtWork(w) ==
  /\ lock = w /\ todo[w] # {} /\ change[w] \in Changes
  /\ wpc[w] = "modify" => change[w].kind = "clear" \/ fetched[w] = shadow[First(todo[w])]
  /\ wpc[w] = "store" =>
       \A u \in Words \ wleft[w] :
         LET l == First(todo[w]) IN buf[l][1 - front[l]] \cap u = shadow[l] \cap u

IInv ==
  /\ TypeOK
  /\ shadow = truth
  /\ \A w \in Writers : wpc[w] # "idle" => AtWork(w)
  /\ lock # Nobody => wpc[lock] # "idle"
  /\ \A l \in Levels :
       \/ Published(l) = truth[l]
       \/ lock # Nobody /\ l \in todo[lock]

\* No set or reset is lost to another context's, wherever in its critical section a
\* context is, and once none is in its own the readers are given every one of them
\* (set, reset, clear).
NoLostUpdate ==
  /\ IInv
  /\ lock = Nobody => \A l \in Levels : Published(l) = truth[l]

Gives(found) == Answers /\ rpc' = "idle" /\ query.kind # "flags" /\ Found = found

\* A status that is active during the whole of a scan and that only moves up (set
\* at a higher level before it is reset at the lower one) is found, however many
\* changes the scan is interrupted by (test and any without a level).
SteadyStatusFound ==
  [][Gives(FALSE) => IF query.kind = "test" THEN query.status \notin kept
                                            ELSE kept = {}]_vars

\* What a scan finds was active at one of its levels while it ran.
FoundStatusWasActive ==
  [][Gives(TRUE) => IF query.kind = "test" THEN query.status \in seen
                                           ELSE seen # {}]_vars

\* The flags of a level are read whole, as they were at some moment of the load,
\* unless they were published more than once meanwhile (double_buffer.hpp:10).
FlagsWhole ==
  [][Answers /\ rpc' = "idle" /\ query.kind = "flags" /\ commits <= 1
       => copied \in candidates]_vars
=============================================================================
