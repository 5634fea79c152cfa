------------------------ MODULE TroubleRegistryProofs ------------------------
(***************************************************************************)
(* That no set, reset or clear of emb::trouble::registry is lost, and that *)
(* a scan interrupted by writers answers right, for any words, levels,     *)
(* statuses and number of writers.                                         *)
(***************************************************************************)
EXTENDS TroubleRegistry, ModArith, TLAPS

\* What a call works through: the levels from one to another.
Span(L) == \E lo, hi \in Levels : lo <= hi /\ L = lo .. hi

LEMMA FirstOfSpan ==
  ASSUME NEW L, Span(L)
  PROVE  /\ First(L) \in L /\ L \subseteq Levels
         /\ L \ {First(L)} = {} \/ Span(L \ {First(L)})
<1>1. PICK lo \in Levels, hi \in Levels : lo <= hi /\ L = lo .. hi
  BY DEF Span
<1>2. lo \in Int /\ hi \in Int /\ LevelCount \in Int
  BY <1>1, RegistryAssumption DEF Levels
<1>3. First(L) = lo
  <2>1. lo \in L /\ \A m \in L : lo <= m
    BY <1>1, <1>2
  <2>2. \A l \in L : (\A m \in L : l <= m) => l = lo
    BY <1>1, <1>2
  <2>3. QED
    BY <2>1, <2>2 DEF First
<1>4. L \subseteq Levels
  BY <1>1, <1>2 DEF Levels
<1>5. lo \in L
  BY <1>1, <1>2
<1>6. L \ {lo} = {} \/ Span(L \ {lo})
  <2>1. CASE lo = hi
    BY <1>1, <1>2, <2>1
  <2>2. CASE lo # hi
    <3>1. lo + 1 \in Levels /\ lo + 1 <= hi /\ L \ {lo} = (lo + 1) .. hi
      BY <1>1, <1>2, <2>2 DEF Levels
    <3>2. QED
      BY <1>1, <3>1 DEF Span
  <2>3. QED
    BY <2>1, <2>2
<1>7. QED
  BY <1>3, <1>4, <1>5, <1>6

LEMMA Spans ==
  /\ Span(Levels)
  /\ \A l \in Levels : Span({l})
  /\ \A s \in Statuses : Span(Range[s])
<1>1. LevelCount \in Nat \ {0}
  BY RegistryAssumption
<1>2. 0 \in Levels /\ LevelCount - 1 \in Levels
  BY <1>1 DEF Levels
<1>3. Span(Levels)
  <2>1. 0 <= LevelCount - 1 /\ Levels = 0 .. (LevelCount - 1)
    BY <1>1 DEF Levels
  <2>2. QED
    BY <1>2, <2>1 DEF Span
<1>4. ASSUME NEW l \in Levels PROVE Span({l})
  <2>1. l <= l /\ {l} = l .. l
    BY <1>1 DEF Levels
  <2>2. QED
    BY <2>1 DEF Span
<1>5. \A s \in Statuses : Span(Range[s])
  BY RegistryAssumption DEF Span
<1>6. QED
  BY <1>3, <1>4, <1>5

LEMMA SpanLevels ==
  ASSUME NEW L, Span(L)
  PROVE  First(L) \in Levels /\ L \subseteq Levels /\ L # {}
BY FirstOfSpan

-----------------------------------------------------------------------------
(* The inductive invariant: IInv, and that a call works through spans of   *)
(* levels, a clear through all of them.                                    *)

WriterTypes ==
  /\ shadow \in [Levels -> SUBSET Statuses] /\ truth \in [Levels -> SUBSET Statuses]
  /\ buf \in [Levels -> [0 .. 1 -> SUBSET Statuses]]
  /\ front \in [Levels -> 0 .. 1]
  /\ lock \in Writers \cup {Nobody}
  /\ wpc \in [Writers -> {"idle", "modify", "store"}]
  /\ change \in [Writers -> Changes \cup {None}]
  /\ todo \in [Writers -> SUBSET Levels]
  /\ fetched \in [Writers -> SUBSET Statuses]
  /\ wleft \in [Writers -> SUBSET Words]

ReaderTypes ==
  /\ nested \in BOOLEAN
  /\ rpc \in {"idle", "sample", "copy"} /\ query \in Queries \cup {None}
  /\ scope \in SUBSET Levels /\ ahead \in SUBSET scope
  /\ sampled \in 0 .. 1 /\ rleft \in SUBSET Words /\ copied \in SUBSET Statuses

WatchTypes ==
  /\ candidates \in SUBSET SUBSET Statuses /\ commits \in 0 .. 2
  /\ kept \in SUBSET Statuses /\ seen \in SUBSET Statuses

LEMMA Typed == TypeOK <=> WriterTypes /\ ReaderTypes /\ WatchTypes
BY DEF TypeOK, WriterTypes, ReaderTypes, WatchTypes

WriterInv ==
  /\ shadow = truth
  /\ \A w \in Writers : wpc[w] # "idle" =>
       /\ AtWork(w)
       /\ Span(todo[w])
       /\ wpc[w] = "modify" /\ change[w].kind = "clear" => todo[w] = Levels
  /\ lock # Nobody => wpc[lock] # "idle"
  /\ \A l \in Levels :
       \/ Published(l) = truth[l]
       \/ lock # Nobody /\ l \in todo[lock]

ReaderInv == ReaderTypes /\ (rpc # "idle" => Span(ahead))
Inv == WriterTypes /\ WriterInv /\ ReaderInv /\ WatchTypes

LEMMA Implied == Inv => IInv
BY Typed DEF Inv, IInv, WriterInv, ReaderInv

LEMMA Initially == Init => Inv
<1> SUFFICES ASSUME Init PROVE Inv
  OBVIOUS
<1>1. WriterTypes
  <2>1. shadow \in [Levels -> SUBSET Statuses] /\ truth \in [Levels -> SUBSET Statuses]
    BY DEF Init
  <2>2. [i \in 0 .. 1 |-> {}] \in [0 .. 1 -> SUBSET Statuses]
    OBVIOUS
  <2>3. buf \in [Levels -> [0 .. 1 -> SUBSET Statuses]] /\ front \in [Levels -> 0 .. 1]
    BY <2>2 DEF Init
  <2>4. QED
    BY <2>1, <2>3 DEF Init, WriterTypes
<1>2. WriterInv
  <2>1. \A l \in Levels : Published(l) = truth[l]
    BY DEF Init, Published
  <2>2. QED
    BY <2>1 DEF Init, WriterInv
<1>3. ReaderInv /\ WatchTypes
  <2>1. nested \in BOOLEAN /\ query \in Queries \cup {None}
    BY DEF Init
  <2>2. ReaderInv
    BY <2>1 DEF Init, ReaderInv, ReaderTypes
  <2>3. QED
    BY <2>2 DEF Init, WatchTypes
<1>4. QED
  BY <1>1, <1>2, <1>3 DEF Inv

\* The lock tells who works.
LEMMA Alone ==
  ASSUME WriterTypes, WriterInv, NEW w \in Writers, wpc[w] # "idle"
  PROVE  /\ lock = w /\ w # Nobody
         /\ \A v \in Writers \ {w} : wpc[v] = "idle"
         /\ Span(todo[w]) /\ First(todo[w]) \in Levels /\ First(todo[w]) \in todo[w]
         /\ todo[w] \subseteq Levels
<1>1. w # Nobody
  BY RegistryAssumption
<1>2. QED
  BY <1>1, FirstOfSpan DEF WriterInv, AtWork

-----------------------------------------------------------------------------
(* The writers.                                                            *)

LEMMA EnterKeeps ==
  ASSUME WriterTypes, WriterInv, NEW w \in Writers, NEW c \in Changes, NEW L,
         Span(L), c.kind = "clear" => L = Levels, Enter(w, c, L)
  PROVE  WriterTypes' /\ WriterInv'
<1>1. First(L) \in Levels /\ L \subseteq Levels /\ L # {}
  BY SpanLevels
<1>2. /\ lock = Nobody /\ lock' = w /\ w # Nobody
      /\ wpc' = [wpc EXCEPT ![w] = "modify"]
      /\ change' = [change EXCEPT ![w] = c]
      /\ todo' = [todo EXCEPT ![w] = L]
      /\ fetched' = [fetched EXCEPT ![w] = shadow[First(L)]]
      /\ UNCHANGED <<shadow, buf, front, truth, wleft>>
  BY RegistryAssumption DEF Enter, levelVars
<1>3. WriterTypes'
  BY <1>1, <1>2 DEF WriterTypes
<1>4. \A v \in Writers : wpc[v] = "idle"
  BY <1>2, RegistryAssumption DEF WriterInv, AtWork
<1>5. /\ wpc'[w] = "modify" /\ change'[w] = c /\ todo'[w] = L
      /\ fetched'[w] = shadow[First(L)]
      /\ \A v \in Writers \ {w} : wpc'[v] = "idle"
  BY <1>2, <1>4 DEF WriterTypes
<1>6. ASSUME NEW v \in Writers, wpc'[v] # "idle"
      PROVE  /\ AtWork(v)' /\ Span(todo'[v])
             /\ wpc'[v] = "modify" /\ change'[v].kind = "clear" => todo'[v] = Levels
  <2>1. v = w
    BY <1>5, <1>6
  <2>2. AtWork(w)'
    BY <1>1, <1>2, <1>5 DEF AtWork
  <2>3. QED
    BY <1>5, <2>1, <2>2
<1>7. \A l \in Levels : Published(l)' = truth'[l]
  BY <1>2 DEF WriterInv, Published
<1>8. QED
  BY <1>2, <1>3, <1>5, <1>6, <1>7 DEF WriterInv

LEMMA ModifyKeeps ==
  ASSUME WriterTypes, WriterInv, NEW w \in Writers, Modify(w)
  PROVE  WriterTypes' /\ WriterInv'
<1> DEFINE touched == IF change[w].kind = "clear" THEN Levels ELSE {First(todo[w])}
<1>1. /\ wpc[w] = "modify"
      /\ shadow' = [l \in Levels |-> IF l \in touched
                      THEN Applied(change[w], fetched[w]) ELSE shadow[l]]
      /\ truth' = [l \in Levels |-> IF l \in touched
                     THEN Applied(change[w], truth[l]) ELSE truth[l]]
      /\ fetched' = [fetched EXCEPT ![w] = {}]
      /\ wleft' = [wleft EXCEPT ![w] = Words]
      /\ wpc' = [wpc EXCEPT ![w] = "store"]
      /\ UNCHANGED <<buf, front, lock, change, todo>>
  BY DEF Modify
<1>2. /\ lock = w /\ w # Nobody /\ Span(todo[w]) /\ todo[w] \subseteq Levels
      /\ First(todo[w]) \in Levels /\ First(todo[w]) \in todo[w]
      /\ \A v \in Writers \ {w} : wpc[v] = "idle"
  BY <1>1, Alone
<1>3. /\ change[w] \in Changes /\ todo[w] # {}
      /\ change[w].kind = "clear" => todo[w] = Levels
      /\ change[w].kind = "clear" \/ fetched[w] = shadow[First(todo[w])]
  BY <1>1 DEF WriterInv, AtWork
<1>4. touched \subseteq todo[w]
  BY <1>2, <1>3
<1>5. \A f \in SUBSET Statuses : Applied(change[w], f) \in SUBSET Statuses
  <2>1. ASSUME NEW f \in SUBSET Statuses PROVE Applied(change[w], f) \in SUBSET Statuses
    <3>1. CASE change[w].kind = "set"
      <4>1. change[w].status \in Statuses
        BY <1>3, <3>1 DEF Changes
      <4>2. QED
        BY <3>1, <4>1 DEF Applied
    <3>2. CASE change[w].kind # "set"
      BY <3>2 DEF Applied
    <3>3. QED
      BY <3>1, <3>2
  <2>2. QED
    BY <2>1
<1>6. \A l \in touched : Applied(change[w], fetched[w]) = Applied(change[w], truth[l])
  <2>1. CASE change[w].kind = "clear"
    BY <2>1 DEF Applied
  <2>2. CASE change[w].kind # "clear"
    <3>1. touched = {First(todo[w])}
      BY <2>2
    <3>2. fetched[w] = truth[First(todo[w])]
      BY <1>3, <2>2 DEF WriterInv
    <3>3. QED
      BY <3>1, <3>2
  <2>3. QED
    BY <2>1, <2>2
<1>7. shadow' = truth'
  BY <1>1, <1>6 DEF WriterInv
<1> HIDE DEF touched
<1>8. WriterTypes'
  <2>1. truth' \in [Levels -> SUBSET Statuses]
    BY <1>1, <1>5 DEF WriterTypes
  <2>2. QED
    BY <1>1, <1>7, <2>1 DEF WriterTypes
<1>9. ASSUME NEW v \in Writers, wpc'[v] # "idle"
      PROVE  /\ AtWork(v)' /\ Span(todo'[v])
             /\ wpc'[v] = "modify" /\ change'[v].kind = "clear" => todo'[v] = Levels
  <2>1. v = w /\ wpc'[w] = "store" /\ wleft'[w] = Words
    BY <1>1, <1>2, <1>9 DEF WriterTypes
  <2>2. AtWork(w)'
    BY <1>1, <1>2, <1>3, <2>1 DEF AtWork
  <2>3. QED
    BY <1>1, <1>2, <2>1, <2>2
<1>10. wpc'[w] # "idle"
  BY <1>1 DEF WriterTypes
<1>11. ASSUME NEW l \in Levels
       PROVE  Published(l)' = truth'[l] \/ l \in todo'[lock']
  <2>1. CASE l \in touched
    BY <1>1, <1>2, <1>4, <2>1
  <2>2. CASE l \notin touched
    <3>1. truth'[l] = truth[l] /\ Published(l)' = Published(l)
      BY <1>1, <2>2 DEF Published
    <3>2. QED
      BY <1>1, <3>1 DEF WriterInv
  <2>3. QED
    BY <2>1, <2>2
<1>12. QED
  BY <1>1, <1>2, <1>7, <1>8, <1>9, <1>10, <1>11 DEF WriterInv

LEMMA StoreWordKeeps ==
  ASSUME WriterTypes, WriterInv, NEW w \in Writers, NEW u \in Words, StoreWord(w, u)
  PROVE  WriterTypes' /\ WriterInv'
<1> DEFINE l == First(todo[w])
           back == 1 - front[l]
           stored == (buf[l][back] \ u) \cup (shadow[l] \cap u)
<1>1. /\ wpc[w] = "store" /\ u \in wleft[w]
      /\ buf' = [buf EXCEPT ![l][back] = stored]
      /\ wleft' = [wleft EXCEPT ![w] = @ \ {u}]
      /\ UNCHANGED <<shadow, front, truth, lock, wpc, change, todo, fetched>>
  BY DEF StoreWord
<1>2. /\ lock = w /\ w # Nobody /\ Span(todo[w]) /\ todo[w] \subseteq Levels
      /\ l \in Levels /\ l \in todo[w]
      /\ \A v \in Writers \ {w} : wpc[v] = "idle"
  BY <1>1, Alone
<1>3. front[l] \in 0 .. 1 /\ back \in 0 .. 1 /\ back # front[l]
  BY <1>2 DEF WriterTypes
<1> HIDE DEF l, back
<1>4. stored \in SUBSET Statuses
  BY <1>2, <1>3 DEF WriterTypes
<1> HIDE DEF stored
<1>5. /\ buf' \in [Levels -> [0 .. 1 -> SUBSET Statuses]]
      /\ buf'[l][back] = stored
      /\ \A m \in Levels : buf'[m][front[m]] = buf[m][front[m]]
  BY <1>1, <1>2, <1>3, <1>4 DEF WriterTypes
<1>6. WriterTypes'
  BY <1>1, <1>5 DEF WriterTypes
<1>7. ASSUME NEW x \in Words \ wleft'[w]
      PROVE  buf'[l][back] \cap x = shadow[l] \cap x
  <2>1. CASE x = u
    BY <1>5, <2>1 DEF stored
  <2>2. CASE x # u
    <3>1. x \cap u = {}
      BY <2>2, RegistryAssumption
    <3>2. x \in Words \ wleft[w]
      BY <1>1, <2>2 DEF WriterTypes
    <3>3. buf[l][back] \cap x = shadow[l] \cap x
      BY <1>1, <3>2 DEF WriterInv, AtWork, l, back
    <3>4. QED
      BY <1>5, <3>1, <3>3 DEF stored
  <2>3. QED
    BY <2>1, <2>2
<1>8. ASSUME NEW v \in Writers, wpc'[v] # "idle"
      PROVE  /\ AtWork(v)' /\ Span(todo'[v])
             /\ wpc'[v] = "modify" /\ change'[v].kind = "clear" => todo'[v] = Levels
  <2>1. v = w /\ wpc'[w] = "store"
    BY <1>1, <1>2, <1>8
  <2>2. lock = w /\ todo[w] # {} /\ change[w] \in Changes
    BY <1>1 DEF WriterInv, AtWork
  <2>3. AtWork(w)'
    BY <1>1, <1>7, <2>1, <2>2 DEF AtWork, l, back
  <2>4. QED
    BY <1>1, <1>2, <2>1, <2>3
<1>9. \A m \in Levels : Published(m)' = Published(m)
  BY <1>1, <1>5 DEF Published
<1>10. QED
  BY <1>1, <1>6, <1>8, <1>9 DEF WriterInv

LEMMA PublishKeeps ==
  ASSUME WriterTypes, WriterInv, NEW w \in Writers, Publish(w)
  PROVE  WriterTypes' /\ WriterInv'
<1> DEFINE l == First(todo[w])
           rest == todo[w] \ {l}
<1>1. /\ wpc[w] = "store" /\ wleft[w] = {}
      /\ front' = [front EXCEPT ![l] = 1 - @]
      /\ todo' = [todo EXCEPT ![w] = rest]
      /\ UNCHANGED <<shadow, buf, truth>>
  BY DEF Publish
<1>2. /\ lock = w /\ w # Nobody /\ Span(todo[w]) /\ todo[w] \subseteq Levels
      /\ l \in Levels /\ l \in todo[w]
      /\ \A v \in Writers \ {w} : wpc[v] = "idle"
  BY <1>1, Alone
<1>3. rest = {} \/ Span(rest)
  BY <1>2, FirstOfSpan
<1>4. front[l] \in 0 .. 1 /\ 1 - front[l] \in 0 .. 1
  BY <1>2 DEF WriterTypes
<1>5. change[w] \in Changes
      /\ \A u \in Words : buf[l][1 - front[l]] \cap u = shadow[l] \cap u
  BY <1>1 DEF WriterInv, AtWork
<1>6. buf[l][1 - front[l]] = truth[l]
  <2>1. buf[l][1 - front[l]] \in SUBSET Statuses /\ shadow[l] \in SUBSET Statuses
    BY <1>2, <1>4 DEF WriterTypes
  <2>2. \A s \in Statuses : \E u \in Words : s \in u
    BY DEF Statuses
  <2>3. buf[l][1 - front[l]] = shadow[l]
    <3>1. \A s \in Statuses : s \in buf[l][1 - front[l]] <=> s \in shadow[l]
      BY <1>5, <2>2
    <3>2. QED
      BY <2>1, <3>1
  <2>4. QED
    BY <2>3 DEF WriterInv
<1>7. \A m \in Levels : Published(m)' = IF m = l THEN truth[l] ELSE Published(m)
  BY <1>1, <1>6 DEF Published, WriterTypes
<1>8. \A m \in Levels : Published(m)' = truth'[m] \/ m \in rest
  BY <1>1, <1>2, <1>7 DEF WriterInv
<1>9. /\ lock' \in Writers \cup {Nobody} /\ wpc' \in [Writers -> {"idle", "modify", "store"}]
      /\ change' \in [Writers -> Changes \cup {None}]
      /\ fetched' \in [Writers -> SUBSET Statuses] /\ wleft' \in [Writers -> SUBSET Words]
  <2>1. CASE rest = {}
    BY <2>1 DEF Publish, WriterTypes
  <2>2. CASE rest # {} /\ change[w].kind = "clear"
    BY <2>2 DEF Publish, WriterTypes
  <2>3. CASE rest # {} /\ change[w].kind # "clear"
    <3>1. First(rest) \in Levels
      BY <1>3, <2>3, SpanLevels
    <3>2. shadow[First(rest)] \in SUBSET Statuses
      BY <3>1 DEF WriterTypes
    <3>3. QED
      BY <2>3, <3>2 DEF Publish, WriterTypes
  <2>4. QED
    BY <2>1, <2>2, <2>3
<1>10. WriterTypes'
  BY <1>1, <1>2, <1>4, <1>9 DEF WriterTypes
<1>11. CASE rest = {}
  <2>1. lock' = Nobody /\ wpc' = [wpc EXCEPT ![w] = "idle"]
    BY <1>11 DEF Publish
  <2>2. \A v \in Writers : wpc'[v] = "idle"
    BY <1>2, <2>1 DEF WriterTypes
  <2>3. QED
    BY <1>1, <1>8, <1>10, <1>11, <2>1, <2>2 DEF WriterInv
<1>12. CASE rest # {}
  <2>1. Span(rest) /\ lock' = w /\ change' = change /\ todo'[w] = rest
    BY <1>1, <1>2, <1>3, <1>12 DEF Publish, WriterTypes
  <2>2. \/ wpc' = wpc /\ wleft'[w] = Words
        \/ /\ change[w].kind # "clear" /\ wpc' = [wpc EXCEPT ![w] = "modify"]
           /\ fetched'[w] = shadow[First(rest)]
    BY <1>12 DEF Publish, WriterTypes
  <2>3. \A v \in Writers \ {w} : wpc'[v] = "idle"
    BY <1>2, <2>2 DEF WriterTypes
  <2>4. wpc'[w] # "idle" /\ (wpc'[w] = "modify" => change'[w].kind # "clear")
    BY <1>1, <2>1, <2>2 DEF WriterTypes
  <2>5. AtWork(w)'
    <3>1. wpc'[w] = "modify" => fetched'[w] = shadow[First(rest)]
      BY <1>1, <2>2
    <3>2. wpc'[w] = "store" => wleft'[w] = Words
      BY <2>2 DEF WriterTypes
    <3>3. QED
      BY <1>1, <1>5, <1>12, <2>1, <3>1, <3>2 DEF AtWork
  <2>6. ASSUME NEW v \in Writers, wpc'[v] # "idle"
        PROVE  /\ AtWork(v)' /\ Span(todo'[v])
               /\ wpc'[v] = "modify" /\ change'[v].kind = "clear" => todo'[v] = Levels
    BY <2>1, <2>3, <2>4, <2>5, <2>6
  <2>7. shadow' = truth' /\ (lock' # Nobody => wpc'[lock'] # "idle")
    BY <1>1, <2>1, <2>4 DEF WriterInv
  <2>8. QED
    BY <1>2, <1>8, <1>10, <2>1, <2>6, <2>7 DEF WriterInv
<1>13. QED
  BY <1>11, <1>12

\* A step of the reader's leaves the writers alone.
LEMMA WritersStay ==
  ASSUME WriterTypes, WriterInv, UNCHANGED <<levelVars, writerVars>>
  PROVE  WriterTypes' /\ WriterInv'
<1> USE DEF levelVars, writerVars
<1>1. WriterTypes'
  BY DEF WriterTypes
<1>2. \A w \in Writers : AtWork(w) => AtWork(w)'
  BY DEF AtWork
<1>3. \A l \in Levels : Published(l)' = Published(l)
  BY DEF Published
<1>4. QED
  BY <1>1, <1>2, <1>3 DEF WriterInv

-----------------------------------------------------------------------------
(* The reader, and what it watches.                                        *)

LEMMA AskedTyped ==
  ASSUME NEW q \in Queries \cup {None} PROVE Asked(q) \in SUBSET Statuses
<1>1. CASE q.kind = "test"
  <2>1. q.status \in Statuses
    BY <1>1 DEF Queries, None
  <2>2. QED
    BY <1>1, <2>1 DEF Asked
<1>2. CASE q.kind # "test"
  BY <1>2 DEF Asked
<1>3. QED
  BY <1>1, <1>2

LEMMA PublishedTyped ==
  ASSUME WriterTypes, NEW l \in Levels PROVE Published(l) \in SUBSET Statuses
BY DEF WriterTypes, Published

LEMMA PublishWatched ==
  ASSUME Inv, NEW w \in Writers, Publish(w)
  PROVE  WatchTypes'
<1> DEFINE l == First(todo[w])
           pub == [m \in Levels |-> IF m = l THEN buf[l][1 - front[l]] ELSE Published(m)]
<1>1. l \in Levels
  BY Alone DEF Publish, Inv
<1>2. pub[l] \in SUBSET Statuses
  <2>1. 1 - front[l] \in 0 .. 1
    BY <1>1 DEF Inv, WriterTypes
  <2>2. QED
    BY <1>1, <2>1 DEF Inv, WriterTypes
<1>3. Observe(l, pub)
  BY DEF Publish
<1>4. Asked(query) \in SUBSET Statuses
  BY AskedTyped DEF Inv, ReaderInv, ReaderTypes
<1> HIDE DEF l, pub
<1>5. CASE rpc = "idle" \/ l \notin scope
  BY <1>3, <1>5 DEF Observe, watchVars, Inv, WatchTypes
<1>6. CASE rpc # "idle" /\ l \in scope /\ query.kind = "flags"
  <2>1. /\ candidates' = candidates \cup {pub[l]}
        /\ commits' = IF commits < 2 THEN commits + 1 ELSE 2
        /\ UNCHANGED <<kept, seen>>
    BY <1>3, <1>6 DEF Observe
  <2>2. QED
    BY <1>2, <2>1 DEF Inv, WatchTypes
<1>7. CASE rpc # "idle" /\ l \in scope /\ query.kind # "flags"
  <2>1. /\ kept' \subseteq kept
        /\ seen' \subseteq seen \cup Asked(query)
        /\ UNCHANGED <<candidates, commits>>
    BY <1>3, <1>7 DEF Observe
  <2>2. QED
    BY <1>4, <2>1 DEF Inv, WatchTypes
<1>8. QED
  BY <1>5, <1>6, <1>7

LEMMA AskKeeps ==
  ASSUME Inv, NEW q \in Queries, NEW L, Span(L), Ask(q, L)
  PROVE  ReaderInv' /\ WatchTypes'
<1>1. L \subseteq Levels /\ First(L) \in Levels
  BY SpanLevels
<1>2. ReaderInv'
  BY <1>1 DEF Ask, Inv, ReaderInv, ReaderTypes
<1>3. kept' \in SUBSET Statuses /\ seen' = kept'
  BY AskedTyped DEF Ask
<1>4. candidates' \in SUBSET SUBSET Statuses
  <2>1. Published(First(L)) \in SUBSET Statuses
    BY <1>1, PublishedTyped DEF Inv
  <2>2. QED
    BY <2>1 DEF Ask
<1>5. commits' = commits
  BY DEF Ask
<1>6. QED
  BY <1>2, <1>3, <1>4, <1>5 DEF Inv, WatchTypes

LEMMA ScanKeeps ==
  ASSUME Inv, Sample \/ (\E u \in Words : CopyWord(u)) \/ NextLevel \/ Answer
  PROVE  ReaderInv' /\ WatchTypes'
<1> USE DEF Inv, ReaderInv, ReaderTypes, WatchTypes, watchVars
<1>1. rpc # "idle" => First(ahead) \in Levels
  BY SpanLevels
<1>2. CASE Sample
  <2>1. front[First(ahead)] \in 0 .. 1
    BY <1>1, <1>2 DEF Sample, WriterTypes
  <2>2. QED
    BY <1>2, <2>1 DEF Sample
<1>3. ASSUME NEW u \in Words, CopyWord(u) PROVE ReaderInv' /\ WatchTypes'
  <2>1. buf[First(ahead)][sampled] \in SUBSET Statuses
    BY <1>1, <1>3 DEF CopyWord, WriterTypes
  <2>2. QED
    BY <1>3, <2>1 DEF CopyWord
<1>4. CASE NextLevel
  <2>1. Span(ahead) /\ ahead # {First(ahead)} /\ First(ahead) \in ahead
    BY <1>4, FirstOfSpan DEF NextLevel, Answers
  <2>2. Span(ahead \ {First(ahead)})
    BY <2>1, FirstOfSpan
  <2>3. QED
    BY <1>4, <2>2 DEF NextLevel
<1>5. CASE Answer
  <2>1. nested' \in BOOLEAN /\ query' \in Queries \cup {None} /\ rleft' = rleft
    BY <1>5 DEF Answer
  <2>2. ReaderInv'
    BY <1>5, <2>1 DEF Answer
  <2>3. WatchTypes'
    BY <1>5 DEF Answer
  <2>4. QED
    BY <2>2, <2>3
<1>6. QED
  BY <1>2, <1>3, <1>4, <1>5

-----------------------------------------------------------------------------
LEMMA WriterStepKeeps ==
  ASSUME Inv, NEW w \in Writers, WriterStep(w)
  PROVE  Inv'
<1> USE DEF Inv
<1>1. ASSUME NEW c \in Changes, NEW L, Span(L), c.kind = "clear" => L = Levels, Enter(w, c, L)
      PROVE  Inv'
  <2>1. WriterTypes' /\ WriterInv'
    BY <1>1, EnterKeeps
  <2>2. ReaderInv' /\ WatchTypes'
    BY <1>1 DEF Enter, scanVars, watchVars, ReaderInv, ReaderTypes, WatchTypes
  <2>3. QED
    BY <2>1, <2>2
<1>2. ASSUME NEW s \in Statuses, NEW l \in Levels, Set(w, s, l) \/ Reset(w, s, l) PROVE Inv'
  <2>1. [kind |-> "set", status |-> s] \in Changes /\ [kind |-> "reset", status |-> s] \in Changes
    BY DEF Changes
  <2>2. Span({l})
    BY Spans
  <2>3. QED
    BY <1>1, <1>2, <2>1, <2>2 DEF Set, Reset
<1>3. ASSUME NEW s \in Statuses, ResetAll(w, s) PROVE Inv'
  <2>1. [kind |-> "reset", status |-> s] \in Changes /\ Span(Range[s])
    BY Spans DEF Changes
  <2>2. QED
    BY <1>1, <1>3, <2>1 DEF ResetAll
<1>4. ASSUME Clear(w) PROVE Inv'
  <2>1. [kind |-> "clear"] \in Changes /\ Span(Levels)
    BY Spans DEF Changes
  <2>2. QED
    BY <1>1, <1>4, <2>1 DEF Clear
<1>5. ASSUME Modify(w) PROVE Inv'
  <2>1. WriterTypes' /\ WriterInv'
    BY <1>5, ModifyKeeps
  <2>2. ReaderInv' /\ WatchTypes'
    BY <1>5 DEF Modify, scanVars, watchVars, ReaderInv, ReaderTypes, WatchTypes
  <2>3. QED
    BY <2>1, <2>2
<1>6. ASSUME NEW u \in Words, StoreWord(w, u) PROVE Inv'
  <2>1. WriterTypes' /\ WriterInv'
    BY <1>6, StoreWordKeeps
  <2>2. ReaderInv' /\ WatchTypes'
    BY <1>6 DEF StoreWord, scanVars, watchVars, ReaderInv, ReaderTypes, WatchTypes
  <2>3. QED
    BY <2>1, <2>2
<1>7. ASSUME Publish(w) PROVE Inv'
  <2>1. WriterTypes' /\ WriterInv' /\ WatchTypes'
    BY <1>7, PublishKeeps, PublishWatched
  <2>2. ReaderInv'
    BY <1>7 DEF Publish, scanVars, ReaderInv, ReaderTypes
  <2>3. QED
    BY <2>1, <2>2
<1>8. QED
  BY <1>2, <1>3, <1>4, <1>5, <1>6, <1>7 DEF WriterStep

LEMMA ReaderStepKeeps == Inv /\ ReaderStep => Inv'
<1> SUFFICES ASSUME Inv, ReaderStep PROVE Inv'
  OBVIOUS
<1>1. ReaderInv' /\ WatchTypes'
  <2>1. ASSUME NEW q \in Queries, NEW L, Span(L), Ask(q, L) PROVE ReaderInv' /\ WatchTypes'
    BY <2>1, AskKeeps
  <2>2. ASSUME NEW s \in Statuses, NEW l \in Levels, Test(s, l)
        PROVE  ReaderInv' /\ WatchTypes'
    <3>1. [kind |-> "test", status |-> s] \in Queries /\ Span({l})
      BY Spans DEF Queries
    <3>2. QED
      BY <2>1, <2>2, <3>1 DEF Test
  <2>3. ASSUME NEW s \in Statuses, TestAll(s) PROVE ReaderInv' /\ WatchTypes'
    <3>1. [kind |-> "test", status |-> s] \in Queries /\ Span(Range[s])
      BY Spans DEF Queries
    <3>2. QED
      BY <2>1, <2>3, <3>1 DEF TestAll
  <2>4. ASSUME NEW l \in Levels, AnyAt(l) \/ Flags(l) PROVE ReaderInv' /\ WatchTypes'
    <3>1. [kind |-> "any"] \in Queries /\ [kind |-> "flags"] \in Queries /\ Span({l})
      BY Spans DEF Queries
    <3>2. QED
      BY <2>1, <2>4, <3>1 DEF AnyAt, Flags
  <2>5. ASSUME AnyAll PROVE ReaderInv' /\ WatchTypes'
    <3>1. [kind |-> "any"] \in Queries /\ Span(Levels)
      BY Spans DEF Queries
    <3>2. QED
      BY <2>1, <2>5, <3>1 DEF AnyAll
  <2>6. QED
    BY <2>2, <2>3, <2>4, <2>5, ScanKeeps DEF ReaderStep
<1>2. UNCHANGED <<levelVars, writerVars>>
  BY DEF ReaderStep, Test, TestAll, AnyAt, Flags, AnyAll, Ask, Sample, CopyWord, NextLevel, Answer
<1>3. WriterTypes' /\ WriterInv'
  BY <1>2, WritersStay DEF Inv
<1>4. QED
  BY <1>1, <1>3 DEF Inv

LEMMA StutterKeeps == Inv /\ UNCHANGED vars => Inv'
<1> SUFFICES ASSUME Inv, UNCHANGED vars PROVE Inv'
  OBVIOUS
<1>1. WriterTypes' /\ WriterInv'
  BY WritersStay DEF Inv, vars
<1>2. ReaderInv' /\ WatchTypes'
  BY DEF Inv, vars, scanVars, watchVars, ReaderInv, ReaderTypes, WatchTypes
<1>3. QED
  BY <1>1, <1>2 DEF Inv

LEMMA Inductive == Inv /\ [Next]_vars => Inv'
BY WriterStepKeeps, ReaderStepKeeps, StutterKeeps DEF Next

\* What has been set and not reset is in the shadow, whatever contexts contend for the
\* lock, and every level that no context is at work on is published as it is (set, reset,
\* clear).
THEOREM NothingLost == Spec => []NoLostUpdate
<1>1. Inv => NoLostUpdate
  <2> SUFFICES ASSUME Inv PROVE NoLostUpdate
    OBVIOUS
  <2>1. IInv
    BY Implied
  <2>2. lock = Nobody => \A l \in Levels : Published(l) = truth[l]
    BY <2>1 DEF IInv
  <2>3. QED
    BY <2>1, <2>2 DEF NoLostUpdate
<1>2. QED
  BY <1>1, Initially, Inductive, PTL DEF Spec

-----------------------------------------------------------------------------
(* Scans. The reader copies from the buffer that was in front when it      *)
(* sampled the front: still that, or, after a change of front, the one     *)
(* behind it, which nobody writes to unless a writer is at its level.      *)

Here == First(ahead)
Source == buf[Here][sampled]
Settled == lock = Nobody \/ Here \notin todo[lock]
Low(s) == First({l \in scope : s \in Published(l)})

PlaceInv ==
  /\ rpc = "idle" => commits = 0
  /\ rpc # "copy" => copied = {}
  /\ rpc # "idle" => /\ query \in Queries
                     /\ kept \subseteq Asked(query)
                     /\ \A m \in scope \ ahead, n \in ahead : m < n
  /\ rpc = "copy" /\ nested => sampled = front[Here]

\* What is copied, and what will be, was seen.
SeenInv ==
  rpc # "idle" /\ query.kind # "flags" =>
    /\ \A m \in scope : Published(m) \cap Asked(query) \subseteq seen
    /\ copied \cap Asked(query) \subseteq seen
    /\ rpc = "copy" /\ sampled # front[Here] /\ Settled => Source \cap Asked(query) \subseteq seen

\* A kept status is at a level that is still ahead, or here, and then copied when its
\* word is.
Kept(s) ==
  /\ \E m \in scope : s \in Published(m)
  /\ Low(s) \in ahead
  /\ rpc = "copy" /\ Low(s) = Here =>
       /\ sampled # front[Here] /\ Settled => s \in Source
       /\ \A u \in Words \ rleft : s \in u => s \in copied
KeptInv == rpc # "idle" /\ query.kind # "flags" => \A s \in kept : Kept(s)

\* Of a level that was published at most once, one of its flags is copied.
FlagsInv ==
  rpc # "idle" /\ query.kind = "flags" =>
    /\ scope = {Here} /\ ahead = {Here}
    /\ Published(Here) \in candidates
    /\ rpc = "copy" => /\ sampled # front[Here] => commits >= 1
                       /\ \A u \in rleft : copied \cap u = {}
    /\ rpc = "copy" /\ commits <= 1 /\ (sampled = front[Here] \/ Settled) =>
         /\ Source \in candidates
         /\ \A u \in Words \ rleft : copied \cap u = Source \cap u

ScanInv == PlaceInv /\ SeenInv /\ KeptInv /\ FlagsInv

LEMMA FirstLevel ==
  ASSUME NEW T \in SUBSET Levels, T # {}
  PROVE  First(T) \in T /\ \A m \in T : First(T) <= m
<1>1. T \in SUBSET Nat
  BY RegistryAssumption DEF Levels
<1>2. \E m \in T : \A n \in T : m <= n
  BY <1>1, Least
<1>3. QED
  BY <1>2 DEF First

LEMMA HereIs ==
  ASSUME Inv, rpc # "idle"
  PROVE  /\ Here \in ahead /\ Here \in scope /\ Here \in Levels
         /\ ahead \subseteq scope /\ scope \subseteq Levels
         /\ \A m \in ahead : Here <= m
<1>1. ahead \subseteq scope /\ scope \subseteq Levels /\ ahead # {}
  BY SpanLevels DEF Inv, ReaderInv, ReaderTypes
<1>2. QED
  BY <1>1, FirstLevel DEF Here

LEMMA LowestIsLow ==
  ASSUME Inv, NEW s
  PROVE  Lowest(s, [m \in Levels |-> Published(m)]) = Low(s)
<1>1. scope \subseteq Levels
  BY DEF Inv, ReaderInv, ReaderTypes
<1>2. {l \in scope : s \in [m \in Levels |-> Published(m)][l]} = {l \in scope : s \in Published(l)}
  BY <1>1
<1>3. QED
  BY <1>2 DEF Lowest, Low

LEMMA LowIs ==
  ASSUME Inv, NEW s, \E m \in scope : s \in Published(m)
  PROVE  Low(s) \in scope /\ s \in Published(Low(s))
<1> DEFINE T == {l \in scope : s \in Published(l)}
<1>1. T \in SUBSET Levels /\ T # {}
  BY DEF Inv, ReaderInv, ReaderTypes
<1>2. First(T) \in T
  BY <1>1, FirstLevel
<1>3. QED
  BY <1>2 DEF Low

\* The reader copies each word once.
LEMMA OnceCopied ==
  ASSUME FlagsInv, rpc = "copy", query.kind = "flags"
  PROVE  \A u \in rleft : copied \cap u = {}
<1>1. rpc # "idle"
  OBVIOUS
<1>2. QED
  BY <1>1 DEF FlagsInv

LEMMA ScanInitially == Init => ScanInv
BY DEF Init, ScanInv, PlaceInv, SeenInv, KeptInv, FlagsInv

\* A step that neither publishes what is asked about nor writes where the reader
\* copies.
LEMMA ScanStays ==
  ASSUME Inv, ScanInv, UNCHANGED <<scanVars, watchVars>>,
         rpc # "idle" =>
           /\ \A m \in scope : Published(m)' = Published(m)
           /\ front'[Here] = front[Here]
           /\ Settled' => Settled
           /\ rpc = "copy" /\ (sampled = front[Here] \/ Settled') => Source' = Source
  PROVE  ScanInv'
<1>1. /\ UNCHANGED <<nested, rpc, query, scope, ahead, sampled, rleft, copied>>
      /\ UNCHANGED <<candidates, commits, kept, seen>>
      /\ Here' = Here
  BY DEF scanVars, watchVars, Here
<1>2. PlaceInv'
  BY <1>1 DEF ScanInv, PlaceInv
<1>3. SeenInv'
  <2> SUFFICES ASSUME rpc # "idle", query.kind # "flags"
               PROVE  SeenInv'
    BY <1>1 DEF SeenInv
  <2>1. \A m \in scope' : Published(m)' \cap Asked(query') \subseteq seen'
    BY <1>1 DEF ScanInv, SeenInv
  <2>2. copied' \cap Asked(query') \subseteq seen'
    BY <1>1 DEF ScanInv, SeenInv
  <2>3. ASSUME rpc = "copy", sampled # front'[Here], Settled'
        PROVE  Source' \cap Asked(query) \subseteq seen
    BY <2>3 DEF ScanInv, SeenInv
  <2>4. QED
    BY <1>1, <2>1, <2>2, <2>3 DEF SeenInv
<1>4. KeptInv'
  <2> SUFFICES ASSUME rpc # "idle", query.kind # "flags", NEW s \in kept
               PROVE  Kept(s)'
    BY <1>1 DEF KeptInv
  <2>1. Kept(s)
    BY DEF ScanInv, KeptInv
  <2>2. Low(s)' = Low(s)
    <3>1. {l \in scope' : s \in Published(l)'} = {l \in scope : s \in Published(l)}
      BY <1>1
    <3>2. QED
      BY <3>1 DEF Low
  <2>3. \E m \in scope' : s \in Published(m)'
    BY <1>1, <2>1 DEF Kept
  <2>4. ASSUME rpc = "copy", Low(s) = Here, sampled # front'[Here], Settled'
        PROVE  s \in Source'
    BY <2>1, <2>4 DEF Kept
  <2>5. Low(s)' \in ahead'
    BY <1>1, <2>1, <2>2 DEF Kept
  <2>6. ASSUME rpc = "copy", Low(s) = Here, NEW u \in Words \ rleft, s \in u
        PROVE  s \in copied
    BY <2>1, <2>6 DEF Kept
  <2>7. QED
    BY <1>1, <2>2, <2>3, <2>4, <2>5, <2>6 DEF Kept
<1>5. FlagsInv'
  <2> SUFFICES ASSUME rpc # "idle", query.kind = "flags"
               PROVE  FlagsInv'
    BY <1>1 DEF FlagsInv
  <2>0. scope = {Here} /\ ahead = {Here} /\ Published(Here) \in candidates
    BY DEF ScanInv, FlagsInv
  <2>1. scope = {Here} /\ ahead = {Here} /\ Published(Here)' \in candidates
    BY <1>1, <2>0
  <2>2. rpc = "copy" => /\ sampled # front'[Here] => commits >= 1
                        /\ \A u \in rleft : copied \cap u = {}
    BY OnceCopied DEF ScanInv, FlagsInv
  <2>3. ASSUME rpc = "copy", commits <= 1, sampled = front'[Here] \/ Settled'
        PROVE  /\ Source' \in candidates
               /\ \A u \in Words \ rleft : copied \cap u = Source' \cap u
    BY <2>3 DEF ScanInv, FlagsInv
  <2>4. QED
    BY <1>1, <2>1, <2>2, <2>3 DEF FlagsInv
<1>6. QED
  BY <1>2, <1>3, <1>4, <1>5 DEF ScanInv

-----------------------------------------------------------------------------
(* Scans and the writers.                                                  *)

LEMMA EnterScans ==
  ASSUME Inv, ScanInv, NEW w, NEW c, NEW L, Enter(w, c, L)
  PROVE  ScanInv'
<1>1. UNCHANGED <<scanVars, watchVars, buf, front>> /\ Settled
  BY DEF Enter, levelVars, Settled
<1>2. \A m \in scope : Published(m)' = Published(m)
  BY <1>1 DEF Published
<1>3. Source' = Source
  BY <1>1 DEF Source, Here, scanVars
<1>4. QED
  BY <1>1, <1>2, <1>3, ScanStays

LEMMA ModifyScans ==
  ASSUME Inv, ScanInv, NEW w \in Writers, Modify(w)
  PROVE  ScanInv'
<1>1. UNCHANGED <<scanVars, watchVars, buf, front, lock, todo>>
  BY DEF Modify
<1>2. \A m \in scope : Published(m)' = Published(m)
  BY <1>1 DEF Published
<1>3. Source' = Source /\ Settled' = Settled
  BY <1>1 DEF Source, Here, Settled, scanVars
<1>4. QED
  BY <1>1, <1>2, <1>3, ScanStays

LEMMA StoreWordScans ==
  ASSUME Inv, ScanInv, NEW w \in Writers, NEW u \in Words, StoreWord(w, u)
  PROVE  ScanInv'
<1> DEFINE l == First(todo[w])
           back == 1 - front[l]
           stored == (buf[l][back] \ u) \cup (shadow[l] \cap u)
<1>1. /\ wpc[w] = "store"
      /\ buf' = [buf EXCEPT ![l][back] = stored]
      /\ UNCHANGED <<scanVars, watchVars, front, lock, todo>>
  BY DEF StoreWord
<1>2. lock = w /\ w # Nobody /\ l \in Levels /\ l \in todo[w]
  BY <1>1, Alone DEF Inv
<1>3. front[l] \in 0 .. 1 /\ back # front[l]
  BY <1>2 DEF Inv, WriterTypes
<1> HIDE DEF l, back, stored
<1>4. \A m \in Levels : m # l => buf'[m] = buf[m]
  BY <1>1 DEF Inv, WriterTypes
<1>5. \A m \in Levels : buf'[m][front[m]] = buf[m][front[m]]
  BY <1>1, <1>2, <1>3, <1>4 DEF Inv, WriterTypes
<1>6. Settled' = Settled /\ Here' = Here
  BY <1>1 DEF Settled, Here, scanVars
<1>7. ASSUME rpc # "idle", sampled = front[Here] \/ Settled'
      PROVE  Source' = Source
  <2>1. Here \in Levels
    BY <1>7, HereIs
  <2>2. CASE sampled = front[Here]
    BY <1>1, <1>5, <1>6, <2>1, <2>2 DEF Source, scanVars
  <2>3. CASE Settled
    <3>1. Here # l
      BY <1>2, <2>3 DEF Settled
    <3>2. QED
      BY <1>1, <1>4, <1>6, <2>1, <3>1 DEF Source, scanVars
  <2>4. QED
    BY <1>6, <1>7, <2>2, <2>3
<1>8. \A m \in scope : Published(m)' = Published(m)
  BY <1>1, <1>5 DEF Published, Inv, ReaderInv, ReaderTypes
<1>9. QED
  BY <1>1, <1>6, <1>7, <1>8, ScanStays

LEMMA PublishScans ==
  ASSUME Inv, ScanInv, NEW w \in Writers, Publish(w)
  PROVE  ScanInv'
<1> DEFINE l == First(todo[w])
           pub == [m \in Levels |-> IF m = l THEN buf[l][1 - front[l]] ELSE Published(m)]
           rest == todo[w] \ {l}
<1>1. /\ ~nested /\ wpc[w] = "store"
      /\ front' = [front EXCEPT ![l] = 1 - @]
      /\ Observe(l, pub)
      /\ todo' = [todo EXCEPT ![w] = rest]
      /\ UNCHANGED <<buf, scanVars>>
      /\ rest # {} => lock' = lock
  BY DEF Publish, WriterRuns
<1>2. lock = w /\ w # Nobody /\ l \in Levels /\ l \in todo[w]
  BY <1>1, Alone DEF Inv
<1>3. front[l] \in 0 .. 1 /\ 1 - front[l] \in 0 .. 1
  BY <1>2 DEF Inv, WriterTypes
<1>4. \A m \in Levels : Published(m)' = pub[m]
  BY <1>1, <1>2, <1>3 DEF Published, Inv, WriterTypes
<1>5. \A m \in Levels : m # l => pub[m] = Published(m) /\ front'[m] = front[m]
  BY <1>1 DEF Inv, WriterTypes
<1>6. Settled' => Here = l \/ Settled
  <2>1. CASE rest = {}
    BY <1>2, <2>1 DEF Settled
  <2>2. CASE rest # {}
    BY <1>1, <1>2, <2>2 DEF Settled, Inv, WriterTypes, Here, scanVars
  <2>3. QED
    BY <2>1, <2>2
<1>7. /\ UNCHANGED <<nested, rpc, query, scope, ahead, sampled, rleft, copied>>
      /\ Here' = Here /\ Source' = Source
  BY <1>1 DEF Source, Here, scanVars
<1>8. scope \subseteq Levels
  BY DEF Inv, ReaderInv, ReaderTypes
<1>9. rpc = "copy" => /\ sampled \in 0 .. 1 /\ front[Here] \in 0 .. 1
                      /\ Here = l => front'[Here] = 1 - front[Here]
  BY <1>1, HereIs DEF Inv, ReaderInv, ReaderTypes, WriterTypes
<1> HIDE DEF l, pub, rest
<1>10. CASE rpc = "idle"
  <2>1. UNCHANGED watchVars
    BY <1>1, <1>10 DEF Observe
  <2>2. QED
    BY <1>1, <1>10, <2>1, ScanStays
<1>11. CASE rpc # "idle" /\ l \notin scope
  <2>1. UNCHANGED watchVars
    BY <1>1, <1>11 DEF Observe
  <2>2. Here # l /\ Here \in Levels
    BY <1>11, HereIs
  <2>3. \A m \in scope : Published(m)' = Published(m)
    BY <1>4, <1>5, <1>8, <1>11
  <2>4. QED
    BY <1>1, <1>5, <1>6, <1>7, <2>1, <2>2, <2>3, ScanStays
<1>12. CASE rpc # "idle" /\ l \in scope /\ query.kind = "flags"
  <2>1. /\ candidates' = candidates \cup {pub[l]}
        /\ commits' = IF commits < 2 THEN commits + 1 ELSE 2
        /\ UNCHANGED <<kept, seen>>
    BY <1>1, <1>12 DEF Observe
  <2>2. scope = {Here} /\ ahead = {Here} /\ Here = l /\ Published(l) \in candidates
    BY <1>12 DEF ScanInv, FlagsInv
  <2>3. commits' >= 1 /\ (commits' <= 1 => commits = 0)
    BY <2>1 DEF Inv, WatchTypes
  <2>4. PlaceInv'
    BY <1>1, <1>7, <1>12, <2>1 DEF ScanInv, PlaceInv
  <2>5. SeenInv' /\ KeptInv'
    BY <1>7, <1>12 DEF SeenInv, KeptInv
  <2>6. Published(Here)' \in candidates'
    BY <1>2, <1>4, <1>7, <2>1, <2>2
  <2>7. rpc = "copy" => \A u \in rleft : copied \cap u = {}
    BY <1>12, OnceCopied DEF ScanInv
  <2>8. ASSUME rpc = "copy", commits' <= 1
        PROVE  /\ Source \in candidates'
               /\ \A u \in Words \ rleft : copied \cap u = Source \cap u
    <3>1. sampled = front[Here]
      BY <1>12, <2>3, <2>8 DEF ScanInv, FlagsInv
    <3>2. QED
      BY <1>12, <2>1, <2>3, <2>8, <3>1 DEF ScanInv, FlagsInv
  <2>9. FlagsInv'
    BY <1>7, <1>12, <2>2, <2>3, <2>6, <2>7, <2>8 DEF FlagsInv
  <2>10. QED
    BY <2>4, <2>5, <2>9 DEF ScanInv
<1>13. CASE rpc # "idle" /\ l \in scope /\ query.kind # "flags"
  <2>1. /\ kept' = {s \in kept : /\ \E m \in scope : s \in pub[m]
                                 /\ Lowest(s, pub) >= Lowest(s, [m \in Levels |-> Published(m)])}
        /\ seen' = seen \cup {s \in Asked(query) : \E m \in scope : s \in pub[m]}
        /\ UNCHANGED <<candidates, commits>>
    BY <1>1, <1>13 DEF Observe
  <2>2. PlaceInv'
    BY <1>1, <1>7, <1>13, <2>1 DEF ScanInv, PlaceInv
  <2>3. FlagsInv'
    BY <1>7, <1>13 DEF FlagsInv
  <2>4. SeenInv'
    <3>1. \A m \in scope : Published(m)' \cap Asked(query) \subseteq seen'
      BY <1>4, <1>8, <2>1
    <3>2. copied \cap Asked(query) \subseteq seen'
      BY <1>13, <2>1 DEF ScanInv, SeenInv
    <3>3. ASSUME rpc = "copy", sampled # front'[Here], Settled'
          PROVE  Source \cap Asked(query) \subseteq seen'
      <4>1. CASE Here = l
        <5>1. sampled = front[Here]
          BY <1>9, <3>3, <4>1
        <5>2. Source = Published(l) /\ l \in scope
          BY <1>13, <4>1, <5>1 DEF Source, Published
        <5>3. QED
          BY <1>13, <2>1, <5>2 DEF ScanInv, SeenInv
      <4>2. CASE Here # l
        <5>1. sampled # front[Here] /\ Settled
          BY <1>5, <1>6, <1>13, <3>3, <4>2, HereIs
        <5>2. QED
          BY <1>13, <2>1, <3>3, <5>1 DEF ScanInv, SeenInv
      <4>3. QED
        BY <4>1, <4>2
    <3>4. QED
      BY <1>7, <3>1, <3>2, <3>3 DEF SeenInv
  <2>5. ASSUME NEW s \in kept'
        PROVE  Kept(s)'
    <3> DEFINE T == {m \in scope : s \in pub[m]}
               low == First(T)
    <3>1. Kept(s) /\ T # {} /\ T \subseteq Levels
      BY <1>8, <1>13, <2>1, <2>5 DEF ScanInv, KeptInv
    <3>2. low \in T
      BY <3>1, FirstLevel
    <3>3. Lowest(s, pub) = low
      BY DEF Lowest
    <3>4. low >= Low(s)
      BY <2>1, <2>5, <3>3, LowestIsLow
    <3>5. Low(s)' = low
      <4>1. {m \in scope' : s \in Published(m)'} = T
        BY <1>4, <1>7, <1>8
      <4>2. QED
        BY <4>1 DEF Low
    <3> HIDE DEF low
    <3>6. Low(s) \in ahead /\ low \in scope /\ ahead \subseteq scope /\ scope \subseteq Int
      BY <1>8, <1>13, <3>1, <3>2, HereIs, RegistryAssumption DEF Kept, Levels
    <3>7. low \in ahead
      <4>1. \A m \in scope \ ahead, n \in ahead : m < n
        BY <1>13 DEF ScanInv, PlaceInv
      <4>2. ASSUME low \notin ahead PROVE low < Low(s)
        BY <3>6, <4>1, <4>2
      <4>3. low \in Int /\ Low(s) \in Int
        BY <3>6
      <4>4. QED
        BY <3>4, <4>2, <4>3
    <3>8. low = Here => Low(s) = Here
      <4>1. Here \in Int /\ \A m \in ahead : Here <= m
        BY <1>13, <3>6, HereIs
      <4>2. Here <= Low(s) /\ Low(s) \in Int /\ low \in Int
        BY <3>6, <4>1
      <4>3. QED
        BY <3>4, <4>1, <4>2
    <3>9. ASSUME rpc = "copy", low = Here, sampled # front'[Here], Settled'
          PROVE  s \in Source
      <4>1. CASE Here = l
        <5>1. sampled = front[Here]
          BY <1>9, <3>9, <4>1
        <5>2. s \in Published(Here)
          BY <3>1, <3>8, <3>9, LowIs DEF Kept
        <5>3. QED
          BY <5>1, <5>2 DEF Source, Published
      <4>2. CASE Here # l
        <5>1. sampled # front[Here] /\ Settled
          BY <1>5, <1>6, <1>13, <3>9, <4>2, HereIs
        <5>2. QED
          BY <3>1, <3>8, <3>9, <5>1 DEF Kept
      <4>3. QED
        BY <4>1, <4>2
    <3>10. \E m \in scope' : s \in Published(m)'
      BY <1>4, <1>7, <1>8, <3>2
    <3>11. ASSUME rpc = "copy", low = Here, NEW u \in Words \ rleft, s \in u
           PROVE  s \in copied
      BY <3>1, <3>8, <3>11 DEF Kept
    <3>12. QED
      BY <1>7, <3>5, <3>7, <3>9, <3>10, <3>11 DEF Kept
  <2>6. KeptInv'
    BY <2>5 DEF KeptInv
  <2>7. QED
    BY <2>2, <2>3, <2>4, <2>6 DEF ScanInv
<1>14. QED
  BY <1>10, <1>11, <1>12, <1>13

-----------------------------------------------------------------------------
(* Scans and the reader.                                                   *)

LEMMA AskScans ==
  ASSUME Inv, ScanInv, NEW q \in Queries, NEW L, Span(L), Ask(q, L),
         q.kind = "flags" => \E l \in Levels : L = {l}
  PROVE  ScanInv'
<1>1. L \in SUBSET Levels /\ L # {} /\ First(L) \in L
  BY SpanLevels, FirstOfSpan
<1>2. /\ rpc = "idle" /\ rpc' = "sample" /\ query' = q /\ scope' = L /\ ahead' = L
      /\ kept' = {s \in Asked(q) : \E l \in L : s \in Published(l)}
      /\ seen' = kept'
      /\ candidates' = IF q.kind = "flags" THEN {Published(First(L))} ELSE {}
      /\ UNCHANGED <<levelVars, writerVars, sampled, rleft, copied, commits>>
  BY DEF Ask
<1>3. copied' = {} /\ Here' = First(L) /\ \A l : Published(l)' = Published(l)
  BY <1>2 DEF ScanInv, PlaceInv, Here, Published, levelVars
<1>4. PlaceInv'
  BY <1>2, <1>3 DEF PlaceInv
<1>5. SeenInv'
  BY <1>2, <1>3 DEF SeenInv
<1>6. ASSUME NEW s \in kept' PROVE Kept(s)'
  <2> DEFINE T == {l \in L : s \in Published(l)}
  <2>1. T \in SUBSET Levels /\ T # {}
    BY <1>1, <1>2, <1>6
  <2>2. First(T) \in T
    BY <2>1, FirstLevel
  <2>3. {l \in scope' : s \in Published(l)'} = T
    BY <1>2, <1>3
  <2>4. Low(s)' = First(T)
    BY <2>3 DEF Low
  <2>5. Low(s)' \in ahead' /\ \E m \in scope' : s \in Published(m)'
    BY <1>2, <1>3, <2>2, <2>4
  <2>6. QED
    BY <1>2, <2>5 DEF Kept
<1>7. KeptInv'
  BY <1>6 DEF KeptInv
<1>8. FlagsInv'
  <2> SUFFICES ASSUME q.kind = "flags"
               PROVE  L = {First(L)} /\ Published(First(L)) \in candidates'
    BY <1>2, <1>3 DEF FlagsInv
  <2>1. QED
    BY <1>1, <1>2
<1>9. QED
  BY <1>4, <1>5, <1>7, <1>8 DEF ScanInv

LEMMA SampleScans ==
  ASSUME Inv, ScanInv, Sample
  PROVE  ScanInv'
<1>1. /\ rpc = "sample" /\ sampled' = front[Here] /\ rleft' = Words /\ rpc' = "copy"
      /\ UNCHANGED <<buf, front, lock, todo, query, scope, ahead, copied>>
      /\ UNCHANGED <<nested, candidates, commits, kept, seen>>
  BY DEF Sample, levelVars, writerVars, watchVars, Here
<1>2. /\ copied = {} /\ Here' = Here /\ sampled' = front'[Here'] /\ Source' = Published(Here)
      /\ \A l : Published(l)' = Published(l)
  BY <1>1 DEF ScanInv, PlaceInv, Here, Source, Published
<1>3. PlaceInv'
  BY <1>1, <1>2 DEF ScanInv, PlaceInv
<1>4. SeenInv'
  BY <1>1, <1>2 DEF ScanInv, SeenInv
<1>5. KeptInv'
  <2> SUFFICES ASSUME query.kind # "flags", NEW s \in kept PROVE Kept(s)'
    BY <1>1 DEF KeptInv
  <2>1. Kept(s)
    BY <1>1 DEF ScanInv, KeptInv
  <2>2. Low(s)' = Low(s)
    BY <1>1, <1>2 DEF Low
  <2>3. QED
    BY <1>1, <1>2, <2>1, <2>2 DEF Kept
<1>6. FlagsInv'
  <2> SUFFICES ASSUME query.kind = "flags" PROVE FlagsInv'
    BY <1>1 DEF FlagsInv
  <2>1. scope = {Here} /\ ahead = {Here} /\ Published(Here) \in candidates
    BY <1>1 DEF ScanInv, FlagsInv
  <2>2. \A u \in rleft' : copied' \cap u = {}
    BY <1>1, <1>2
  <2>3. Published(Here)' \in candidates' /\ Source' \in candidates'
    BY <1>1, <1>2, <2>1
  <2>4. QED
    BY <1>1, <1>2, <2>1, <2>2, <2>3 DEF FlagsInv
<1>7. QED
  BY <1>3, <1>4, <1>5, <1>6 DEF ScanInv

\* When the reader runs, its buffer is the front one or nobody writes at its level.
LEMMA Quiet ==
  ASSUME Inv, ScanInv, ReaderRuns, rpc = "copy"
  PROVE  sampled = front[Here] \/ Settled
BY DEF ReaderRuns, ScanInv, PlaceInv, Settled

LEMMA CopyWordScans ==
  ASSUME Inv, ScanInv, NEW u \in Words, CopyWord(u)
  PROVE  ScanInv'
<1>1. /\ ReaderRuns /\ rpc = "copy" /\ u \in rleft
      /\ copied' = copied \cup (Source \cap u) /\ rleft' = rleft \ {u}
      /\ UNCHANGED <<buf, front, lock, todo, nested, rpc, query, scope, ahead, sampled>>
      /\ UNCHANGED <<candidates, commits, kept, seen>>
  BY DEF CopyWord, levelVars, writerVars, watchVars, Here, Source
<1>2. /\ Here' = Here /\ Source' = Source /\ Settled' = Settled
      /\ \A l : Published(l)' = Published(l)
  BY <1>1 DEF Here, Source, Settled, Published
<1>3. sampled = front[Here] \/ Settled
  BY <1>1, Quiet
<1>4. sampled = front[Here] => Source = Published(Here)
  BY DEF Source, Published
<1>5. Here \in scope /\ \A v \in Words \ {u} : v \cap u = {}
  BY <1>1, HereIs, RegistryAssumption
<1>6. PlaceInv'
  BY <1>1, <1>2 DEF ScanInv, PlaceInv
<1>7. SeenInv'
  <2> SUFFICES ASSUME query.kind # "flags" PROVE SeenInv'
    BY <1>1 DEF SeenInv
  <2>1. Source \cap Asked(query) \subseteq seen
    BY <1>1, <1>3, <1>4, <1>5 DEF ScanInv, SeenInv
  <2>2. copied' \cap Asked(query) \subseteq seen
    BY <1>1, <2>1 DEF ScanInv, SeenInv
  <2>3. \A m \in scope : Published(m) \cap Asked(query) \subseteq seen
    BY <1>1 DEF ScanInv, SeenInv
  <2>4. QED
    BY <1>1, <1>2, <2>1, <2>2, <2>3 DEF SeenInv
<1>8. KeptInv'
  <2> SUFFICES ASSUME query.kind # "flags", NEW s \in kept PROVE Kept(s)'
    BY <1>1 DEF KeptInv
  <2>1. Kept(s)
    BY <1>1 DEF ScanInv, KeptInv
  <2>2. Low(s)' = Low(s)
    BY <1>1, <1>2 DEF Low
  <2>3. Low(s) = Here => s \in Source
    <3>1. s \in Published(Low(s))
      BY <2>1, LowIs DEF Kept
    <3>2. QED
      BY <1>1, <1>3, <1>4, <2>1, <3>1 DEF Kept
  <2>4. ASSUME Low(s) = Here, NEW v \in Words \ rleft', s \in v PROVE s \in copied'
    BY <1>1, <2>1, <2>3, <2>4 DEF Kept
  <2>5. QED
    BY <1>1, <1>2, <2>1, <2>2, <2>3, <2>4 DEF Kept
<1>9. FlagsInv'
  <2> SUFFICES ASSUME query.kind = "flags" PROVE FlagsInv'
    BY <1>1 DEF FlagsInv
  <2>1. scope = {Here} /\ ahead = {Here} /\ Published(Here) \in candidates
    BY <1>1 DEF ScanInv, FlagsInv
  <2>2. Published(Here)' \in candidates' /\ (sampled # front[Here] => commits >= 1)
    BY <1>1, <1>2, <2>1 DEF ScanInv, FlagsInv
  <2>3. \A v \in rleft : copied \cap v = {}
    BY <1>1, OnceCopied DEF ScanInv
  <2>4. ASSUME NEW v \in rleft' PROVE copied' \cap v = {}
    <3>1. copied \cap v = {} /\ v \cap u = {}
      BY <1>1, <1>5, <2>3, <2>4 DEF Inv, ReaderInv, ReaderTypes
    <3>2. QED
      BY <1>1, <3>1
  <2>5. ASSUME commits <= 1
        PROVE  /\ Source \in candidates
               /\ \A v \in Words \ rleft' : copied' \cap v = Source \cap v
    <3>1. /\ Source \in candidates
          /\ \A v \in Words \ rleft : copied \cap v = Source \cap v
      BY <1>1, <1>3, <2>5 DEF ScanInv, FlagsInv
    <3>2. ASSUME NEW v \in Words \ rleft' PROVE copied' \cap v = Source \cap v
      <4>1. CASE v = u
        <5>1. copied \cap u = {}
          BY <1>1, <2>3
        <5>2. QED
          BY <1>1, <4>1, <5>1
      <4>2. CASE v # u
        <5>1. copied \cap v = Source \cap v /\ v \cap u = {}
          BY <1>1, <1>5, <3>1, <3>2, <4>2
        <5>2. QED
          BY <1>1, <5>1
      <4>3. QED
        BY <4>1, <4>2
    <3>3. QED
      BY <3>1, <3>2
  <2>6. QED
    BY <1>1, <1>2, <2>1, <2>2, <2>4, <2>5 DEF FlagsInv
<1>10. QED
  BY <1>6, <1>7, <1>8, <1>9 DEF ScanInv

\* A status that the reader has found nothing of is not at the level it leaves.
LEMMA KeptFound ==
  ASSUME Inv, ScanInv, rpc = "copy", rleft = {}, query.kind # "flags",
         NEW s \in kept, Low(s) = Here
  PROVE  Found
<1>1. s \in Asked(query) /\ Kept(s) /\ query \in Queries
  BY DEF ScanInv, PlaceInv, KeptInv
<1>2. \E u \in Words : s \in u
  BY DEF Inv, WatchTypes, Statuses
<1>3. s \in copied
  BY <1>1, <1>2 DEF Kept
<1>4. CASE query.kind = "test"
  BY <1>1, <1>3, <1>4 DEF Asked, Found
<1>5. CASE query.kind # "test"
  BY <1>3, <1>5 DEF Found
<1>6. QED
  BY <1>4, <1>5

LEMMA NextLevelScans ==
  ASSUME Inv, ScanInv, NextLevel
  PROVE  ScanInv'
<1>1. /\ rpc = "copy" /\ rleft = {} /\ query.kind # "flags" /\ ~Found
      /\ rpc' = "sample" /\ ahead' = ahead \ {Here} /\ copied' = {}
      /\ UNCHANGED <<buf, front, nested, query, scope, rleft>>
      /\ UNCHANGED <<candidates, commits, kept, seen>>
  BY DEF NextLevel, Answers, levelVars, watchVars, Here
<1>2. \A l : Published(l)' = Published(l)
  BY <1>1 DEF Published
<1>3. PlaceInv'
  <2>1. ahead \subseteq scope /\ scope \subseteq Int /\ Here \in ahead /\ \A n \in ahead : Here <= n
    BY <1>1, HereIs, RegistryAssumption DEF Levels
  <2>2. \A m \in scope \ ahead, n \in ahead : m < n
    BY <1>1 DEF ScanInv, PlaceInv
  <2>3. \A m \in scope \ ahead', n \in ahead' : m < n
    BY <1>1, <2>1, <2>2
  <2>4. QED
    BY <1>1, <2>3 DEF ScanInv, PlaceInv
<1>4. SeenInv'
  BY <1>1, <1>2 DEF ScanInv, SeenInv
<1>5. ASSUME NEW s \in kept PROVE Kept(s)'
  <2>1. Kept(s)
    BY <1>1 DEF ScanInv, KeptInv
  <2>2. Low(s)' = Low(s) /\ Low(s) # Here
    BY <1>1, <1>2, KeptFound DEF Low
  <2>3. QED
    BY <1>1, <1>2, <2>1, <2>2 DEF Kept
<1>6. KeptInv' /\ FlagsInv'
  BY <1>1, <1>5 DEF KeptInv, FlagsInv
<1>7. QED
  BY <1>3, <1>4, <1>6 DEF ScanInv

LEMMA AnswerScans == Answer => ScanInv'
BY DEF Answer, ScanInv, PlaceInv, SeenInv, KeptInv, FlagsInv

LEMMA ReaderScans == Inv /\ ScanInv /\ ReaderStep => ScanInv'
<1> SUFFICES ASSUME Inv, ScanInv, ReaderStep PROVE ScanInv'
  OBVIOUS
<1>1. ASSUME NEW s \in Statuses, NEW l \in Levels, Test(s, l) PROVE ScanInv'
  <2>1. [kind |-> "test", status |-> s] \in Queries /\ Span({l})
    BY Spans DEF Queries
  <2>2. QED
    BY <1>1, <2>1, AskScans DEF Test
<1>2. ASSUME NEW s \in Statuses, TestAll(s) PROVE ScanInv'
  <2>1. [kind |-> "test", status |-> s] \in Queries /\ Span(Range[s])
    BY Spans DEF Queries
  <2>2. QED
    BY <1>2, <2>1, AskScans DEF TestAll
<1>3. ASSUME NEW l \in Levels, AnyAt(l) \/ Flags(l) PROVE ScanInv'
  <2>1. [kind |-> "any"] \in Queries /\ [kind |-> "flags"] \in Queries /\ Span({l})
    BY Spans DEF Queries
  <2>2. QED
    BY <1>3, <2>1, AskScans DEF AnyAt, Flags
<1>4. ASSUME AnyAll PROVE ScanInv'
  <2>1. [kind |-> "any"] \in Queries /\ Span(Levels)
    BY Spans DEF Queries
  <2>2. QED
    BY <1>4, <2>1, AskScans DEF AnyAll
<1>5. QED
  BY <1>1, <1>2, <1>3, <1>4, SampleScans, CopyWordScans, NextLevelScans, AnswerScans
     DEF ReaderStep

LEMMA ScanInductive == Inv /\ ScanInv /\ [Next]_vars => ScanInv'
<1>1. ASSUME Inv, ScanInv, NEW w \in Writers, WriterStep(w) PROVE ScanInv'
  BY <1>1, EnterScans, ModifyScans, StoreWordScans, PublishScans
     DEF WriterStep, Set, Reset, ResetAll, Clear
<1>2. ASSUME Inv, ScanInv, UNCHANGED vars PROVE ScanInv'
  <2>1. /\ UNCHANGED <<scanVars, watchVars, buf, front, lock, todo>>
    BY <1>2 DEF vars, levelVars, writerVars
  <2>2. Source' = Source /\ Settled' = Settled /\ \A m : Published(m)' = Published(m)
    BY <2>1 DEF Source, Here, Settled, Published, scanVars
  <2>3. QED
    BY <1>2, <2>1, <2>2, ScanStays
<1>3. QED
  BY <1>1, <1>2, ReaderScans DEF Next

LEMMA Scanned == Spec => [](Inv /\ ScanInv)
BY Initially, Inductive, ScanInitially, ScanInductive, PTL DEF Spec

\* A scan that finds nothing has missed no status that was active all along, although
\* writers moved it between levels while the scan passed them (test and any without a
\* level).
THEOREM ScansFindSteady == Spec => SteadyStatusFound
<1> DEFINE Good == Gives(FALSE) => IF query.kind = "test" THEN query.status \notin kept
                                                        ELSE kept = {}
<1>1. Inv /\ ScanInv => Good
  <2> SUFFICES ASSUME Inv, ScanInv, Gives(FALSE), NEW s \in kept PROVE FALSE
    BY DEF Gives
  <2>1. rpc = "copy" /\ rleft = {} /\ query.kind # "flags" /\ ~Found /\ ahead = {Here}
    BY DEF Gives, Answers, Here
  <2>2. Low(s) = Here
    BY <2>1 DEF ScanInv, KeptInv, Kept
  <2>3. QED
    BY <2>1, <2>2, KeptFound
<1>2. Inv /\ ScanInv /\ [Next]_vars => [Good]_vars
  BY <1>1
<1>3. QED
  BY <1>2, Scanned, PTL DEF Spec, SteadyStatusFound

\* What a scan finds was active, at a level it asks about, at some moment of the scan.
THEOREM ScansFindActive == Spec => FoundStatusWasActive
<1> DEFINE Good == Gives(TRUE) => IF query.kind = "test" THEN query.status \in seen
                                                       ELSE seen # {}
<1>1. Inv /\ ScanInv => Good
  <2> SUFFICES ASSUME Inv, ScanInv, Gives(TRUE)
               PROVE  IF query.kind = "test" THEN query.status \in seen ELSE seen # {}
    OBVIOUS
  <2>1. rpc = "copy" /\ query.kind # "flags" /\ Found /\ query \in Queries
    BY DEF Gives, Answers, ScanInv, PlaceInv
  <2>2. copied \cap Asked(query) \subseteq seen /\ copied \subseteq Statuses
    BY <2>1 DEF ScanInv, SeenInv, Inv, ReaderInv, ReaderTypes
  <2>3. CASE query.kind = "test"
    BY <2>1, <2>2, <2>3 DEF Found, Asked
  <2>4. CASE query.kind # "test"
    <3>1. query.kind = "any" /\ copied # {}
      BY <2>1, <2>4 DEF Queries, Found
    <3>2. Asked(query) = Statuses
      BY <3>1 DEF Asked
    <3>3. QED
      BY <2>2, <2>4, <3>1, <3>2
  <2>5. QED
    BY <2>3, <2>4
<1>2. Inv /\ ScanInv /\ [Next]_vars => [Good]_vars
  BY <1>1
<1>3. QED
  BY <1>2, Scanned, PTL DEF Spec, FoundStatusWasActive

\* The words that a reader copies make the flags of one moment, though it takes no
\* lock, unless the level is published a second time before it is done (flags).
THEOREM LevelReadWhole == Spec => FlagsWhole
<1> DEFINE Good == Answers /\ rpc' = "idle" /\ query.kind = "flags" /\ commits <= 1
                     => copied \in candidates
<1>1. Inv /\ ScanInv /\ [Next]_vars => Good
  <2> SUFFICES ASSUME Inv, ScanInv, [Next]_vars, Answers, rpc' = "idle",
                      query.kind = "flags", commits <= 1
               PROVE  copied \in candidates
    OBVIOUS
  <2>1. rpc = "copy" /\ rleft = {}
    BY DEF Answers
  <2>2. ReaderRuns
    <3>1. ~UNCHANGED rpc
      BY <2>1
    <3>2. ASSUME NEW w \in Writers, WriterStep(w) PROVE UNCHANGED rpc
      BY <3>2 DEF WriterStep, Set, Reset, ResetAll, Clear, Enter, Modify, StoreWord, Publish,
                  scanVars
    <3>3. ReaderStep
      BY <3>1, <3>2 DEF Next, vars, scanVars
    <3>4. QED
      BY <2>1, <3>3 DEF ReaderStep, Test, TestAll, AnyAt, Flags, AnyAll, Ask, Sample, CopyWord,
                        NextLevel, Answer
  <2>3. sampled = front[Here] \/ Settled
    BY <2>1, <2>2, Quiet
  <2>4. Source \in candidates /\ \A u \in Words : copied \cap u = Source \cap u
    BY <2>1, <2>3 DEF ScanInv, FlagsInv
  <2>5. copied \in SUBSET Statuses /\ Source \in SUBSET Statuses
    BY <2>1, <2>4 DEF Inv, ReaderInv, ReaderTypes, WatchTypes
  <2>6. \A s \in Statuses : \E u \in Words : s \in u
    BY DEF Statuses
  <2>7. \A s \in Statuses : s \in copied <=> s \in Source
    BY <2>4, <2>6
  <2>8. copied = Source
    BY <2>5, <2>7
  <2>9. QED
    BY <2>4, <2>8
<1>2. Inv /\ ScanInv /\ [Next]_vars => [Good]_vars
  BY <1>1
<1>3. QED
  BY <1>2, Scanned, PTL DEF Spec, FlagsWhole
=============================================================================
