-------------------------- MODULE EepromStorageProofs --------------------------
(***************************************************************************)
(* The safety of emb::mem::eeprom::storage for every number of pages and   *)
(* every set of values: what a call knows of the two copies of its page,   *)
(* and that a page survives one call that is cut short.                    *)
(*                                                                         *)
(* The invariant is proved page by page: a step leaves the pages it is not *)
(* at alone (OtherPages), and each action is looked at for its own page.   *)
(***************************************************************************)
EXTENDS EepromStorage, TLAPS

\* Both copies of a page are on the device, and no two copies share a place.
LEMMA PagesApart ==
  /\ 0 \in Pages
  /\ \A p \in Pages : p \in 0 .. PageCount - 1 /\ Mirror(p) \in 0 .. PageCount - 1
  /\ \A p, q \in Pages : p # Mirror(q) /\ (p # q => Mirror(p) # Mirror(q))
<1>1. AvailablePageCount \in Nat \ {0} /\ 2 * AvailablePageCount <= PageCount - 2
  BY EepromAssumption DEF AvailablePageCount
<1> QED
  BY <1>1, EepromAssumption DEF Pages, Mirror

\* A driver call that writes, changes one cell.
LEMMA PutCell ==
  ASSUME TypeOK, NEW cell, NEW v \in Cells, Put(cell, v),
         cell.copy \in 0 .. PageCount - 1, cell.field \in {"data", "crc"}
  PROVE  /\ media' \in [0 .. PageCount - 1 -> [data : Cells, crc : Cells]]
         /\ \A q \in 0 .. PageCount - 1 : q # cell.copy => media'[q] = media[q]
         /\ cell.field = "data" => /\ media'[cell.copy].data = v
                                   /\ media'[cell.copy].crc = media[cell.copy].crc
         /\ cell.field = "crc" => /\ media'[cell.copy].crc = v
                                  /\ media'[cell.copy].data = media[cell.copy].data
  BY DEF TypeOK, Put

-----------------------------------------------------------------------------
(* The parts of the invariant that speak of every page, for one of them.   *)

KnownAt(p) == \A copy \in {p, Mirror(p)} :
  {media[copy].data, media[copy].crc} \subseteq candidates[p] \cup {Torn}
SettledAt(p) ==
  risk[p] = 0 /\ (pc \in {"idle", "read"} \/ p # page) =>
    \E v \in Values : Holds(p, v) /\ Holds(Mirror(p), v)
SurvivesAt(p) == risk[p] <= 1 /\ ~(pc = "write" /\ page = p) => SomeCopyValid(p)
PageInv(p) == KnownAt(p) /\ SettledAt(p) /\ SurvivesAt(p)

CallInv == WriteInv /\ ReadInv /\ RepairInv
Inv == IInv /\ SurvivesOneInterruption

LEMMA InvByPage == Inv <=> TypeOK /\ CallInv /\ \A p \in Pages : PageInv(p)
  BY DEF Inv, IInv, CellsKnown, EqualWhenSettled, SurvivesOneInterruption,
         CallInv, PageInv, KnownAt, SettledAt, SurvivesAt

LEMMA InvByPagePrimed ==
  Inv' <=> TypeOK' /\ CallInv' /\ \A p \in Pages : PageInv(p)'
  BY DEF Inv, IInv, CellsKnown, EqualWhenSettled, SurvivesOneInterruption,
         CallInv, PageInv, KnownAt, SettledAt, SurvivesAt

\* What a step does not touch of a page it is not at, stays as it was.
LEMMA OtherPage ==
  ASSUME NEW p \in Pages, PageInv(p), p # page \/ pc = "idle",
         media'[p] = media[p], media'[Mirror(p)] = media[Mirror(p)],
         candidates[p] \subseteq candidates'[p], risk'[p] = risk[p]
  PROVE  PageInv(p)'
  BY DEF PageInv, KnownAt, SettledAt, SurvivesAt, Holds, SomeCopyValid, Valid, Mirror

\* A call that ends leaves nothing behind for CallInv to speak of.
LEMMA LeaveCall ==
  ASSUME NEW result, Leave(result)
  PROVE  CallInv'
  BY DEF Leave, CallInv, WriteInv, ReadInv, RepairInv, Repairing

-----------------------------------------------------------------------------
(* Types.                                                                  *)

LEMMA TypeInit == Init => TypeOK
<1> SUFFICES ASSUME Init PROVE TypeOK
  OBVIOUS
<1>1. 0 \in Pages
  BY PagesApart
<1>2. \A v \in Values \cup {Torn} : Copy(v) \in [data : Cells, crc : Cells]
  BY DEF Copy, Cells
<1>3. media \in [0 .. PageCount - 1 -> [data : Cells, crc : Cells]]
  BY <1>2 DEF Init
<1>4. candidates \in [Pages -> SUBSET Values] /\ risk \in [Pages -> 0 .. 2]
  BY DEF Init
<1>5. errors \in [Counters -> Nat]
  BY DEF Init, NoErrors
<1>6. buf \in Cells /\ backupBuf \in Cells /\ page \in Pages
  BY <1>1 DEF Init, Cells
<1>7. step \in 0 .. 5
  BY DEF Init
<1> QED
  BY <1>3, <1>4, <1>5, <1>6, <1>7, Zenon DEF Init, TypeOK

LEMMA WriteCellType ==
  ASSUME TypeOK, CallInv, pc = "write"
  PROVE  /\ WriteCell.copy \in {page, Mirror(page)}
         /\ WriteCell.copy \in 0 .. PageCount - 1
         /\ WriteCell.field \in {"data", "crc"}
         /\ buf \in Values /\ buf \in Cells
  BY PagesApart, EepromAssumption DEF WriteCell, TypeOK, Cells, CallInv, WriteInv

LEMMA RepairCellType ==
  ASSUME TypeOK, CallInv, Repairing
  PROVE  /\ RepairCell.copy \in {page, Mirror(page)}
         /\ RepairCell.copy \in 0 .. PageCount - 1
         /\ RepairCell.field \in {"data", "crc"}
         /\ buf \in Cells
  BY PagesApart DEF RepairCell, TypeOK

LEMMA ContentType ==
  ASSUME TypeOK, NEW cell, cell.copy \in 0 .. PageCount - 1,
         cell.field \in {"data", "crc"}
  PROVE  Content(cell) \in Cells
  BY DEF TypeOK, Content

LEMMA KnownBuffer ==
  ASSUME TypeOK, CallInv, Repairing \/ (pc = "read" /\ primaryOk)
  PROVE  buf \in Values
  BY DEF TypeOK, CallInv, ReadInv, RepairInv, Repairing, Holds, Cells

LEMMA GhostTypes ==
  ASSUME TypeOK
  PROVE  /\ \A v \in Values : Settled(v) => /\ candidates' \in [Pages -> SUBSET Values]
                                           /\ risk' \in [Pages -> 0 .. 2]
         /\ Unsettled => /\ candidates' \in [Pages -> SUBSET Values]
                         /\ risk' \in [Pages -> 0 .. 2]
         /\ UNCHANGED ghostVars => /\ candidates' \in [Pages -> SUBSET Values]
                                   /\ risk' \in [Pages -> 0 .. 2]
<1>1. \A n \in 0 .. 2 : Worse(n) \in 0 .. 2
  BY DEF Worse
<1> QED
  <2>1. candidates \in [Pages -> SUBSET Values] /\ risk \in [Pages -> 0 .. 2]
    BY DEF TypeOK
  <2>2. ASSUME NEW v \in Values, Settled(v)
        PROVE  candidates' \in [Pages -> SUBSET Values] /\ risk' \in [Pages -> 0 .. 2]
    <3>1. \A S \in SUBSET Values :
            candidates' = [candidates EXCEPT ![page] = S] =>
              candidates' \in [Pages -> SUBSET Values]
      BY <2>1
    <3>2. {v} \in SUBSET Values /\ candidates' = [candidates EXCEPT ![page] = {v}]
      BY <2>2 DEF Settled
    <3>3. risk' \in [Pages -> 0 .. 2]
      <4>1. \A n \in 0 .. 2 : risk' = [risk EXCEPT ![page] = n] => risk' \in [Pages -> 0 .. 2]
        BY <2>1
      <4>2. risk' = [risk EXCEPT ![page] = 0]
        BY <2>2 DEF Settled
      <4> QED
        BY <4>1, <4>2
    <3> QED
      BY <3>1, <3>2, <3>3
  <2>3. ASSUME Unsettled
        PROVE  candidates' \in [Pages -> SUBSET Values] /\ risk' \in [Pages -> 0 .. 2]
    <3>1. risk[page] \in 0 .. 2
      BY <2>1 DEF TypeOK
    <3>2. Worse(risk[page]) \in 0 .. 2
      BY <1>1, <3>1
    <3> QED
      BY <2>1, <2>3, <3>2 DEF Unsettled
  <2> QED
    BY <2>1, <2>2, <2>3 DEF ghostVars

LEMMA PartialPut ==
  ASSUME TypeOK, NEW cell, cell.copy \in 0 .. PageCount - 1,
         cell.field \in {"data", "crc"}, NEW new \in Cells,
         NEW v \in Partial(Content(cell), new)
  PROVE  v \in Cells
<1>1. Content(cell) \in Cells
  BY ContentType
<1> QED
  BY <1>1 DEF Partial, Cells

LEMMA TypeStep == TypeOK /\ CallInv /\ [Next]_vars => TypeOK'
<1> SUFFICES ASSUME TypeOK, CallInv, [Next]_vars PROVE TypeOK'
  OBVIOUS
<1>z. 0 \in Pages /\ Torn \in Cells
  BY PagesApart DEF Cells
<1> DEFINE MediaType == media \in [0 .. PageCount - 1 -> [data : Cells, crc : Cells]]
           GhostType == /\ candidates \in [Pages -> SUBSET Values]
                        /\ risk \in [Pages -> 0 .. 2]
           ErrorsType == errors \in [Counters -> Nat]
           CallType == /\ pc \in {"idle", "write", "read", "renew_backup", "restore_primary"}
                       /\ page \in Pages /\ step \in 0 .. 5
                       /\ buf \in Cells /\ backupBuf \in Cells
                       /\ status \in {"none", "ok", "failed", "data_corrupted",
                                     "invalid_address", "invalid_data_size"}
           FlagType == /\ primaryOk \in BOOLEAN /\ secondaryOk \in BOOLEAN
                       /\ sts \in BOOLEAN /\ clean \in BOOLEAN
<1>t. MediaType /\ GhostType /\ ErrorsType /\ CallType /\ FlagType
  BY DEF TypeOK
<1>p. MediaType' /\ GhostType' /\ ErrorsType' /\ CallType' /\ FlagType' => TypeOK'
  BY Zenon DEF TypeOK
<1>e. ASSUME NEW c \in Counters, Count(c)
      PROVE  ErrorsType'
  BY <1>e, <1>t DEF Count
<1>n. errors' = NoErrors => ErrorsType'
  BY DEF NoErrors
<1>g. UNCHANGED ghostVars => GhostType'
  BY <1>t DEF ghostVars
<1>l. ASSUME NEW result \in {"none", "ok", "failed", "data_corrupted"}, Leave(result),
             MediaType', GhostType', ErrorsType', clean' \in BOOLEAN
      PROVE  TypeOK'
  <2>1. CallType'
    BY <1>l, <1>z, <1>t DEF Leave
  <2>2. FlagType'
    BY <1>l DEF Leave
  <2> QED
    BY <1>l, <1>p, <2>1, <2>2
<1>w. ASSUME pc = "write", NEW v \in Cells, Put(WriteCell, v)
      PROVE  MediaType'
  BY <1>w, WriteCellType, PutCell
<1>r. ASSUME Repairing, NEW v \in Cells, Put(RepairCell, v)
      PROVE  MediaType'
  BY <1>r, RepairCellType, PutCell
<1>v. ASSUME pc = "write", NEW v \in Partial(Content(WriteCell), buf)
      PROVE  v \in Cells
  BY <1>v, WriteCellType, PartialPut
<1>s. ASSUME Repairing, NEW v \in Partial(Content(RepairCell), buf)
      PROVE  v \in Cells
  BY <1>s, RepairCellType, PartialPut
<1>1. ASSUME NEW p \in 0 .. PageCount - 1, NEW fits \in BOOLEAN, Reject(p, fits)
      PROVE  TypeOK'
  BY <1>1, <1>n DEF Reject, TypeOK, callVars, ghostVars
<1>2. ASSUME NEW p \in Pages, NEW v \in Values, Write(p, v)
      PROVE  TypeOK'
  <2>1. CallType' /\ MediaType'
    BY <1>2, <1>z, <1>t DEF Write, Enter, CallType, MediaType, Cells
  <2>2. FlagType'
    BY <1>2 DEF Write, Enter
  <2>3. GhostType'
    BY <1>2, <1>t DEF Write
  <2> QED
    BY <1>2, <1>n, <1>p, <2>1, <2>2, <2>3 DEF Write, Enter
<1>3. ASSUME NEW p \in Pages, Read(p)
      PROVE  TypeOK'
  <2>1. CallType' /\ MediaType'
    BY <1>3, <1>z, <1>t DEF Read, Enter
  <2>2. FlagType'
    BY <1>3 DEF Read, Enter
  <2> QED
    BY <1>3, <1>n, <1>p, <1>g, <2>1, <2>2 DEF Read, Enter
<1>4. CASE WriteOk
  <2>1. MediaType' /\ ErrorsType' /\ clean' \in BOOLEAN
    BY <1>4, <1>w, WriteCellType DEF WriteOk, TypeOK
  <2>2. CASE step < 4
    BY <1>4, <2>1, <2>2 DEF WriteOk, TypeOK, ghostVars
  <2>3. CASE ~(step < 4)
    BY <1>4, <2>1, <2>3, <1>l, GhostTypes, WriteCellType DEF WriteOk
  <2> QED
    BY <2>2, <2>3
<1>5. CASE WriteFails
  <2>1. ErrorsType'
    BY <1>5, <1>e DEF WriteFails, Counters
  <2>2. MediaType'
    BY <1>5, <1>v, <1>w DEF WriteFails
  <2> QED
    BY <1>5, <2>1, <2>2, <1>l, GhostTypes DEF WriteFails
<1>6. CASE ReadPrimary
  <2>1. ErrorsType'
    BY <1>6, <1>e, <1>t DEF ReadPrimary, Counters
  <2>2. media[page].data \in Cells
    BY PagesApart DEF TypeOK
  <2>3. CASE step = 1
    BY <1>6, <2>1, <2>2, <2>3 DEF ReadPrimary, TypeOK, ghostVars
  <2>4. CASE step # 1
    BY <1>6, <2>1, <2>4 DEF ReadPrimary, TypeOK, ghostVars, Matches
  <2> QED
    BY <2>3, <2>4
<1>7. CASE ReadBackup
  <2>1. ErrorsType'
    BY <1>7, <1>e, <1>t DEF ReadBackup, Counters
  <2>2. media[Mirror(page)].data \in Cells
    BY PagesApart DEF TypeOK
  <2>3. CASE step = 3
    BY <1>7, <2>1, <2>2, <2>3 DEF ReadBackup, TypeOK, ghostVars
  <2>4. CASE step # 3
    BY <1>7, <2>1, <2>4 DEF ReadBackup, TypeOK, ghostVars, Matches
  <2> QED
    BY <2>3, <2>4
<1>8. CASE ReadFails
  <2>1. ErrorsType'
    BY <1>8, <1>e DEF ReadFails, Counters
  <2>2. CallType' /\ MediaType'
    BY <1>8, <1>t DEF ReadFails
  <2>3. FlagType'
    BY <1>8, <1>t DEF ReadFails
  <2> QED
    BY <1>8, <1>p, <1>g, <2>1, <2>2, <2>3 DEF ReadFails
<1>9. CASE BothGood
  BY <1>9, <1>l, <1>t, GhostTypes, KnownBuffer DEF BothGood, Decides, TypeOK
<1>10. CASE RenewBackup
  <2>1. ErrorsType'
    BY <1>10, <1>e DEF RenewBackup, Counters
  <2>2. CallType' /\ MediaType'
    BY <1>10, <1>t DEF RenewBackup
  <2>3. FlagType'
    BY <1>10, <1>t DEF RenewBackup
  <2> QED
    BY <1>10, <1>p, <1>g, <2>1, <2>2, <2>3 DEF RenewBackup
<1>11. CASE RestorePrimary
  <2>1. ErrorsType'
    BY <1>11, <1>e DEF RestorePrimary, Counters
  <2>2. CallType' /\ MediaType'
    BY <1>11, <1>t DEF RestorePrimary
  <2>3. FlagType'
    BY <1>11, <1>t DEF RestorePrimary
  <2> QED
    BY <1>11, <1>p, <1>g, <2>1, <2>2, <2>3 DEF RestorePrimary
<1>12. CASE GiveUp
  <2>1. ErrorsType'
    BY <1>12, <1>e, <1>t DEF GiveUp, Counters
  <2>2. MediaType' /\ GhostType' /\ clean' \in BOOLEAN
    BY <1>12, <1>t, GhostTypes DEF GiveUp, TypeOK
  <2> QED
    BY <1>12, <2>1, <2>2, <1>l DEF GiveUp
<1>13. ASSUME NEW ok \in BOOLEAN, RepairStep(ok)
       PROVE  TypeOK'
  <2>1. MediaType'
    BY <1>13, <1>r, <1>s, RepairCellType DEF RepairStep
  <2>2. ErrorsType' /\ clean' \in BOOLEAN
    BY <1>13 DEF RepairStep, TypeOK
  <2>3. CASE step = 1
    <3>1. CallType'
      BY <1>13, <1>t, <2>3 DEF RepairStep
    <3>2. FlagType'
      BY <1>13, <1>t, <2>2, <2>3 DEF RepairStep
    <3> QED
      BY <1>13, <1>p, <1>g, <2>1, <2>2, <2>3, <3>1, <3>2 DEF RepairStep
  <2>4. CASE step # 1
    <3>1. GhostType'
      BY <1>13, <2>4, GhostTypes, KnownBuffer DEF RepairStep
    <3> QED
      BY <1>13, <2>1, <2>2, <2>4, <3>1, <1>l DEF RepairStep
  <2> QED
    BY <2>3, <2>4
<1>14. CASE Crash
  <2>1. MediaType'
    BY <1>14, <1>t, <1>w, <1>v, <1>r, <1>s DEF Crash
  <2>2. GhostType'
    BY <1>14, GhostTypes DEF Crash
  <2> QED
    BY <1>14, <2>1, <2>2, <1>n, <1>l DEF Crash
<1>15. CASE UNCHANGED vars
  BY <1>15 DEF vars, callVars, ghostVars, TypeOK
<1> QED
  BY <1>1, <1>2, <1>3, <1>4, <1>5, <1>6, <1>7, <1>8, <1>9, <1>10, <1>11, <1>12,
     <1>13, <1>14, <1>15 DEF Next

-----------------------------------------------------------------------------
(* A driver call that writes, at the page of the call.                     *)

LEMMA PutOtherPages ==
  ASSUME TypeOK, NEW cell, NEW v \in Cells, Put(cell, v),
         cell.copy \in {page, Mirror(page)}, cell.field \in {"data", "crc"},
         NEW p \in Pages, p # page
  PROVE  media'[p] = media[p] /\ media'[Mirror(p)] = media[Mirror(p)]
<1>1. cell.copy \in 0 .. PageCount - 1
  BY PagesApart DEF TypeOK
<1>2. p # cell.copy /\ Mirror(p) # cell.copy
  BY PagesApart DEF TypeOK
<1> QED
  BY <1>1, <1>2, PutCell, PagesApart

\* What the write of a page changes of its two copies, driver call by driver call.
LEMMA WriteEffect ==
  ASSUME TypeOK, CallInv, pc = "write", NEW v \in Cells, Put(WriteCell, v),
         NEW p \in Pages, p = page
  PROVE  /\ media'[p] \in [data : Cells, crc : Cells]
         /\ media'[Mirror(p)] \in [data : Cells, crc : Cells]
         /\ step <= 2 => media'[Mirror(p)] = media[Mirror(p)]
         /\ step >= 3 => media'[p] = media[p]
         /\ step = 1 => media'[p].data = v /\ media'[p].crc = media[p].crc
         /\ step = 2 => media'[p].data = media[p].data /\ media'[p].crc = v
         /\ step = 3 => /\ media'[Mirror(p)].data = v
                        /\ media'[Mirror(p)].crc = media[Mirror(p)].crc
         /\ step = 4 => /\ media'[Mirror(p)].data = media[Mirror(p)].data
                        /\ media'[Mirror(p)].crc = v
<1>1. step \in 1 .. 4
  BY DEF CallInv, WriteInv
<1>2. p # Mirror(p) /\ p \in 0 .. PageCount - 1 /\ Mirror(p) \in 0 .. PageCount - 1
  BY PagesApart
<1>3. /\ step <= 2 => WriteCell.copy = p
      /\ step >= 3 => WriteCell.copy = Mirror(p)
      /\ step \in {1, 3} => WriteCell.field = "data"
      /\ step \in {2, 4} => WriteCell.field = "crc"
  BY <1>1 DEF WriteCell
<1>4. /\ media' \in [0 .. PageCount - 1 -> [data : Cells, crc : Cells]]
      /\ \A q \in 0 .. PageCount - 1 : q # WriteCell.copy => media'[q] = media[q]
      /\ WriteCell.field = "data" => /\ media'[WriteCell.copy].data = v
                                /\ media'[WriteCell.copy].crc = media[WriteCell.copy].crc
      /\ WriteCell.field = "crc" => /\ media'[WriteCell.copy].crc = v
                               /\ media'[WriteCell.copy].data = media[WriteCell.copy].data
  BY WriteCellType, PutCell
<1> QED
  BY <1>1, <1>2, <1>3, <1>4

\* What a repair changes of them.
LEMMA RepairEffect ==
  ASSUME TypeOK, CallInv, Repairing, NEW v \in Cells, Put(RepairCell, v),
         NEW p \in Pages, p = page
  PROVE  \E from \in {p, Mirror(p)}, to \in {p, Mirror(p)} :
           /\ from # to /\ to = RepairCell.copy
           /\ from = IF pc = "renew_backup" THEN p ELSE Mirror(p)
           /\ Holds(from, buf)
           /\ media'[from] = media[from]
           /\ media'[to] \in [data : Cells, crc : Cells]
           /\ step = 1 => media'[to].data = v /\ media'[to].crc = media[to].crc
           /\ step = 2 => media'[to].data = media[to].data /\ media'[to].crc = v
<1>1. step \in 1 .. 2
  BY DEF CallInv, RepairInv
<1>2. p # Mirror(p) /\ p \in 0 .. PageCount - 1 /\ Mirror(p) \in 0 .. PageCount - 1
  BY PagesApart
<1>3. /\ step = 1 => RepairCell.field = "data"
      /\ step = 2 => RepairCell.field = "crc"
  BY <1>1 DEF RepairCell
<1> DEFINE from == IF pc = "renew_backup" THEN p ELSE Mirror(p)
           to == IF pc = "renew_backup" THEN Mirror(p) ELSE p
<1>4. to = RepairCell.copy
  BY DEF RepairCell
<1>5. Holds(from, buf)
  BY DEF CallInv, RepairInv
<1>6. from # to /\ from \in 0 .. PageCount - 1 /\ to \in 0 .. PageCount - 1
  BY <1>2
<1>7. /\ media'[from] = media[from]
      /\ media'[to] \in [data : Cells, crc : Cells]
      /\ step = 1 => media'[to].data = v /\ media'[to].crc = media[to].crc
      /\ step = 2 => media'[to].data = media[to].data /\ media'[to].crc = v
  <2>1. /\ media' \in [0 .. PageCount - 1 -> [data : Cells, crc : Cells]]
        /\ \A q \in 0 .. PageCount - 1 : q # RepairCell.copy => media'[q] = media[q]
        /\ RepairCell.field = "data" => /\ media'[RepairCell.copy].data = v
                                  /\ media'[RepairCell.copy].crc = media[RepairCell.copy].crc
        /\ RepairCell.field = "crc" => /\ media'[RepairCell.copy].crc = v
                                 /\ media'[RepairCell.copy].data = media[RepairCell.copy].data
    BY RepairCellType, PutCell
  <2> QED
    BY <1>1, <1>3, <1>4, <1>6, <2>1
<1>8. from \in {p, Mirror(p)} /\ to \in {p, Mirror(p)}
  OBVIOUS
<1> QED
  BY <1>4, <1>5, <1>6, <1>7, <1>8

\* What a driver call may leave of the value it writes is known if the value is.
LEMMA PartialKnown ==
  ASSUME KnownAt(page), NEW cell, cell.copy \in {page, Mirror(page)},
         cell.field \in {"data", "crc"}, buf \in candidates[page],
         NEW v \in Partial(Content(cell), buf)
  PROVE  v \in candidates[page] \cup {Torn}
  BY DEF KnownAt, Partial, Content

LEMMA CopyOf ==
  ASSUME NEW r \in [data : Cells, crc : Cells], NEW v, r.data = v, r.crc = v
  PROVE  r = Copy(v)
  BY DEF Copy

LEMMA HoldsValid ==
  ASSUME NEW copy, NEW v, Holds(copy, v)
  PROVE  Valid(copy) /\ media[copy].data = v /\ media[copy].crc = v
  BY DEF Holds, Valid, Matches, Copy

-----------------------------------------------------------------------------
(* The page of the call, action by action.                                 *)

LEMMA WriteOkStep ==
  ASSUME TypeOK, CallInv, WriteOk, NEW p \in Pages, p = page, PageInv(p)
  PROVE  PageInv(p)' /\ CallInv'
<1>0. pc = "write" /\ Put(WriteCell, buf) /\ buf \in Cells /\ buf \in Values
  BY WriteCellType DEF WriteOk
<1>1. /\ step \in 1 .. 4 /\ buf \in candidates[p]
      /\ step = 2 => media[p].data = buf
      /\ step >= 3 => Holds(p, buf)
      /\ step = 4 => media[Mirror(p)].data = buf
      /\ risk[p] = 0 /\ step <= 2 => Valid(Mirror(p))
  BY <1>0 DEF CallInv, WriteInv
<1>2. buf # Torn
  BY <1>0, EepromAssumption
<1> DEFINE m == media'[p]
           n == media'[Mirror(p)]
<1>3. /\ m \in [data : Cells, crc : Cells] /\ n \in [data : Cells, crc : Cells]
      /\ step <= 2 => n = media[Mirror(p)]
      /\ step >= 3 => m = media[p]
      /\ step = 1 => m.data = buf /\ m.crc = media[p].crc
      /\ step = 2 => m.data = media[p].data /\ m.crc = buf
      /\ step = 3 => n.data = buf /\ n.crc = media[Mirror(p)].crc
      /\ step = 4 => n.data = media[Mirror(p)].data /\ n.crc = buf
  BY <1>0, WriteEffect
<1>4. step >= 2 => m = Copy(buf)
  <2>1. step = 2 => m = Copy(buf)
    BY <1>1, <1>3, CopyOf
  <2> QED
    BY <1>1, <1>3, <2>1 DEF Holds
<1>5. step = 4 => n = Copy(buf)
  BY <1>1, <1>3, CopyOf
<1>6. {m.data, m.crc, n.data, n.crc} \subseteq
        {buf, media[p].data, media[p].crc, media[Mirror(p)].data, media[Mirror(p)].crc}
  BY <1>1, <1>3
<1>7. CASE step < 4
  <2>1. /\ pc' = "write" /\ page' = p /\ step' = step + 1 /\ buf' = buf
        /\ candidates' = candidates /\ risk' = risk
    BY <1>0, <1>7 DEF WriteOk, ghostVars
  <2>2. KnownAt(p)'
    BY <1>1, <1>6, <2>1 DEF PageInv, KnownAt, Mirror
  <2>3. SettledAt(p)' /\ SurvivesAt(p)'
    BY <2>1 DEF SettledAt, SurvivesAt
  <2>4. WriteInv'
    <3>1. step' >= 3 => Holds(p, buf)'
      BY <1>1, <1>2, <1>4, <2>1 DEF Holds, Copy
    <3>2. step' = 2 => media'[p].data = buf
      BY <1>1, <1>3, <2>1
    <3>3. step' = 4 => media'[Mirror(p)].data = buf
      BY <1>1, <1>3, <2>1
    <3>4. risk'[p] = 0 /\ step' <= 2 => Valid(Mirror(p))'
      BY <1>1, <1>3, <2>1 DEF Valid, Mirror
    <3> QED
      BY <1>1, <1>7, <2>1, <3>1, <3>2, <3>3, <3>4 DEF WriteInv, Mirror
  <2> QED
    BY <2>1, <2>2, <2>3, <2>4 DEF PageInv, CallInv, ReadInv, RepairInv, Repairing
<1>8. CASE step = 4
  <2>1. Leave("ok") /\ Settled(buf) /\ pc' = "idle"
    BY <1>8 DEF WriteOk, Leave
  <2>2. candidates'[p] = {buf}
    BY <2>1 DEF Settled, TypeOK
  <2> PICK w \in Values : w = buf
    BY <1>0
  <2>3. Holds(p, w)' /\ Holds(Mirror(p), w)'
    <3>1. m = Copy(w) /\ n = Copy(w)
      BY <1>4, <1>5, <1>8
    <3> QED
      BY <1>2, <3>1 DEF Holds, Copy, Mirror
  <2>4. KnownAt(p)'
    BY <2>2, <2>3 DEF KnownAt, Holds, Copy, Mirror
  <2>5. SettledAt(p)'
    BY <2>3 DEF SettledAt, Mirror
  <2>6. SurvivesAt(p)'
    BY <2>3 DEF SurvivesAt, SomeCopyValid, Holds, Valid, Matches, Copy
  <2> QED
    BY <2>1, <2>4, <2>5, <2>6, LeaveCall DEF PageInv
<1> QED
  BY <1>1, <1>7, <1>8

LEMMA UnsettledRisk ==
  ASSUME TypeOK, Unsettled, NEW p \in Pages, p = page
  PROVE  /\ candidates'[p] = candidates[p]
         /\ risk'[p] # 0
         /\ risk'[p] <= 1 => risk[p] = 0
<1>1. risk[p] \in 0 .. 2 /\ risk'[p] = Worse(risk[p]) /\ candidates' = candidates
  BY DEF TypeOK, Unsettled
<1> QED
  BY <1>1 DEF Worse

\* Whatever an interrupted write leaves of its cell, the other copy is whole.
LEMMA WriteInterrupted ==
  ASSUME TypeOK, CallInv, pc = "write", pc' = "idle", Unsettled,
         NEW v \in Partial(Content(WriteCell), buf), Put(WriteCell, v),
         NEW p \in Pages, p = page, PageInv(p)
  PROVE  PageInv(p)'
<1>1. v \in Cells /\ step \in 1 .. 4 /\ buf \in candidates[p]
  BY WriteCellType, PartialPut DEF CallInv, WriteInv
<1>2. v \in candidates[p] \cup {Torn}
  BY <1>1, WriteCellType, PartialKnown DEF PageInv
<1> DEFINE m == media'[p]
           n == media'[Mirror(p)]
<1>3. /\ step <= 2 => n = media[Mirror(p)]
      /\ step >= 3 => m = media[p]
      /\ step = 1 => m.data = v /\ m.crc = media[p].crc
      /\ step = 2 => m.data = media[p].data /\ m.crc = v
      /\ step = 3 => n.data = v /\ n.crc = media[Mirror(p)].crc
      /\ step = 4 => n.data = media[Mirror(p)].data /\ n.crc = v
  BY <1>1, WriteEffect
<1>4. {m.data, m.crc, n.data, n.crc} \subseteq
        {v, media[p].data, media[p].crc, media[Mirror(p)].data, media[Mirror(p)].crc}
  BY <1>1, <1>3
<1>5. KnownAt(p)'
  BY <1>2, <1>4, UnsettledRisk DEF PageInv, KnownAt, Mirror
<1>6. SettledAt(p)'
  BY UnsettledRisk DEF SettledAt
<1>7. SurvivesAt(p)'
  <2>1. step <= 2 /\ risk'[p] <= 1 => Valid(Mirror(p))'
    BY <1>1, <1>3, UnsettledRisk DEF CallInv, WriteInv, Valid, Mirror
  <2>2. step >= 3 => Valid(p)'
    BY <1>1, <1>3, HoldsValid DEF CallInv, WriteInv, Valid
  <2> QED
    BY <1>1, <2>1, <2>2 DEF SurvivesAt, SomeCopyValid
<1> QED
  BY <1>5, <1>6, <1>7 DEF PageInv

\* A repair, whole or interrupted, leaves the copy it repairs from alone.
LEMMA RepairKeeps ==
  ASSUME TypeOK, CallInv, Repairing, NEW v \in Partial(Content(RepairCell), buf),
         Put(RepairCell, v), NEW p \in Pages, p = page, PageInv(p)
  PROVE  /\ SomeCopyValid(p)'
         /\ candidates'[p] = candidates[p] => KnownAt(p)'
<1>1. v \in Cells
  BY RepairCellType, PartialPut
<1>2. PICK from \in {p, Mirror(p)}, to \in {p, Mirror(p)} :
        /\ from # to
        /\ Holds(from, buf)
        /\ media'[from] = media[from]
        /\ step = 1 => media'[to].data = v /\ media'[to].crc = media[to].crc
        /\ step = 2 => media'[to].data = media[to].data /\ media'[to].crc = v
  BY <1>1, RepairEffect
<1>3. step \in 1 .. 2
  BY DEF CallInv, RepairInv
<1>4. buf \in candidates[p]
  BY <1>2, HoldsValid DEF PageInv, KnownAt, Holds
<1>5. v \in candidates[p] \cup {Torn}
  BY <1>4, RepairCellType, PartialKnown DEF PageInv
<1>6. Valid(from)'
  <2>1. Valid(from)
    BY <1>2, HoldsValid
  <2> QED
    BY <1>2, <2>1 DEF Valid
<1>7. SomeCopyValid(p)'
  BY <1>6 DEF SomeCopyValid, Mirror
<1>8. \A copy \in {p, Mirror(p)} :
        {media'[copy].data, media'[copy].crc} \subseteq
          {v, media[copy].data, media[copy].crc}
  BY <1>2, <1>3
<1> QED
  BY <1>5, <1>7, <1>8 DEF PageInv, KnownAt, Mirror

LEMMA RepairStepStep ==
  ASSUME TypeOK, CallInv, NEW ok \in BOOLEAN, RepairStep(ok),
         NEW p \in Pages, p = page, PageInv(p)
  PROVE  PageInv(p)' /\ CallInv'
<1>0. Repairing /\ step \in 1 .. 2 /\ buf \in Cells
  BY RepairCellType DEF RepairStep, CallInv, RepairInv
<1>1. PICK v \in Partial(Content(RepairCell), buf) :
        Put(RepairCell, v) /\ (ok => v = buf)
  BY DEF RepairStep, Partial
<1>2. v \in Cells
  BY <1>0, <1>1, RepairCellType, PartialPut
<1>3. SomeCopyValid(p)' /\ (candidates'[p] = candidates[p] => KnownAt(p)')
  BY <1>0, <1>1, RepairKeeps
<1>4. PICK from \in {p, Mirror(p)}, to \in {p, Mirror(p)} :
        /\ from # to /\ to = RepairCell.copy
        /\ from = IF pc = "renew_backup" THEN p ELSE Mirror(p)
        /\ Holds(from, buf)
        /\ media'[from] = media[from]
        /\ media'[to] \in [data : Cells, crc : Cells]
        /\ step = 1 => media'[to].data = v /\ media'[to].crc = media[to].crc
        /\ step = 2 => media'[to].data = media[to].data /\ media'[to].crc = v
  BY <1>0, <1>1, <1>2, RepairEffect
<1>5. clean' <=> clean /\ ok
  BY DEF RepairStep
<1>6. CASE step = 1
  <2>1. /\ pc' = pc /\ page' = p /\ step' = 2 /\ buf' = buf
        /\ candidates' = candidates /\ risk' = risk
    BY <1>6 DEF RepairStep, ghostVars
  <2>2. PageInv(p)'
    BY <1>0, <1>3, <2>1 DEF PageInv, SettledAt, SurvivesAt, Repairing
  <2>3. Holds(from, buf)'
    BY <1>4, <2>1 DEF Holds
  <2>4. RepairCell'.copy = to
    BY <1>4, <2>1 DEF RepairCell, Mirror
  <2>5. clean' => media'[to].data = buf'
    BY <1>1, <1>4, <1>5, <1>6, <2>1
  <2>6. RepairInv'
    BY <1>4, <2>1, <2>3, <2>4, <2>5 DEF RepairInv, Mirror
  <2> QED
    BY <1>0, <2>1, <2>2, <2>6 DEF CallInv, WriteInv, ReadInv, Repairing
<1>7. CASE step = 2
  <2>1. Leave("ok") /\ pc' = "idle"
    BY <1>7 DEF RepairStep, Leave
  <2>2. CASE clean'
    <3>1. Settled(buf)
      BY <1>7, <2>2 DEF RepairStep
    <3> PICK w \in Values : w = buf
      BY <1>0, KnownBuffer
    <3>2. candidates'[p] = {w}
      BY <3>1 DEF Settled, TypeOK
    <3>3. media[to].data = w
      <4>1. clean
        BY <1>5, <2>2
      <4>2. media[RepairCell.copy].data = buf
        BY <1>0, <1>7, <4>1 DEF CallInv, RepairInv
      <4> QED
        BY <1>4, <4>2
    <3>4. media'[to] = Copy(w)
      BY <1>1, <1>4, <1>5, <1>7, <2>2, <3>3, CopyOf
    <3>5. media'[from] = Copy(w)
      BY <1>4 DEF Holds
    <3>6. Holds(p, w)' /\ Holds(Mirror(p), w)'
      BY <1>4, <3>4, <3>5, EepromAssumption DEF Holds, Copy, Mirror
    <3>7. KnownAt(p)'
      BY <3>2, <3>6 DEF KnownAt, Holds, Copy, Mirror
    <3>8. SettledAt(p)' /\ SurvivesAt(p)'
      BY <1>3, <3>6 DEF SettledAt, SurvivesAt, Mirror
    <3> QED
      BY <2>1, <3>7, <3>8, LeaveCall DEF PageInv
  <2>3. CASE ~clean'
    <3>1. Unsettled
      BY <1>7, <2>3 DEF RepairStep
    <3>2. KnownAt(p)' /\ SettledAt(p)' /\ SurvivesAt(p)'
      BY <1>3, <3>1, UnsettledRisk DEF SettledAt, SurvivesAt
    <3> QED
      BY <2>1, <3>2, LeaveCall DEF PageInv
  <2> QED
    BY <2>2, <2>3
<1> QED
  BY <1>0, <1>6, <1>7

-----------------------------------------------------------------------------
(* A read writes nothing until it repairs.                                 *)

LEMMA QuietStep ==
  ASSUME pc = "read", media' = media, candidates' = candidates, risk' = risk,
         NEW p \in Pages, PageInv(p)
  PROVE  PageInv(p)'
  BY DEF PageInv, KnownAt, SettledAt, SurvivesAt, SomeCopyValid, Valid, Holds, Mirror

LEMMA ReadStep ==
  ASSUME TypeOK, CallInv, ReadPrimary \/ ReadBackup \/ ReadFails
  PROVE  CallInv'
<1>1. pc = "read" /\ pc' = "read" /\ page' = page /\ media' = media
  BY DEF ReadPrimary, ReadBackup, ReadFails
<1>2. page \in 0 .. PageCount - 1 /\ Mirror(page) \in 0 .. PageCount - 1
  BY PagesApart DEF TypeOK
<1>3. media[page] \in [data : Cells, crc : Cells]
      /\ media[Mirror(page)] \in [data : Cells, crc : Cells]
  BY <1>2 DEF TypeOK
<1>4. ReadInv
  BY DEF CallInv
<1>5. ASSUME NEW copy \in {page, Mirror(page)}, NEW d, media[copy].data = d
      PROVE  /\ Matches(d, media[copy].crc) <=> Holds(copy, d)
             /\ Matches(d, media[copy].crc) <=> Valid(copy)
  BY <1>3, <1>5, CopyOf DEF Matches, Holds, Valid, Copy
<1>6. /\ primaryOk => step > 2
      /\ secondaryOk => step = 5
  BY <1>1, <1>4 DEF ReadInv
<1>7. ASSUME ReadPrimary PROVE ReadInv'
  <2>1. /\ step \in {1, 2} /\ step' = step + 1 /\ backupBuf' = backupBuf
        /\ ~primaryOk /\ ~secondaryOk /\ ~secondaryOk'
    BY <1>6, <1>7 DEF ReadPrimary
  <2>2. CASE step = 1
    <3>1. buf' = media[page].data /\ ~primaryOk'
      BY <1>7, <2>1, <2>2 DEF ReadPrimary
    <3> QED
      BY <1>1, <2>1, <2>2, <3>1 DEF ReadInv
  <2>3. CASE step = 2
    <3>1. buf' = buf /\ buf = media[page].data
      BY <1>1, <1>4, <1>7, <2>3 DEF ReadPrimary, ReadInv
    <3>2. primaryOk' <=> Matches(buf, media[page].crc)
      BY <1>7, <2>3 DEF ReadPrimary
    <3>3. /\ primaryOk' => Holds(page, buf)'
          /\ Valid(page)' => primaryOk'
      BY <1>1, <1>5, <3>1, <3>2 DEF Holds, Valid
    <3> QED
      BY <1>1, <2>1, <2>3, <3>1, <3>3 DEF ReadInv
  <2> QED
    BY <2>1, <2>2, <2>3
<1>8. ASSUME ReadBackup PROVE ReadInv'
  <2>1. /\ step \in {3, 4} /\ step' = step + 1 /\ buf' = buf
        /\ ~secondaryOk /\ (primaryOk' <=> primaryOk) /\ (clean' <=> clean)
    BY <1>6, <1>8 DEF ReadBackup
  <2>2. /\ primaryOk' => Holds(page, buf)' /\ buf' = media'[page].data
        /\ clean' /\ Valid(page)' => primaryOk'
    BY <1>1, <1>4, <2>1 DEF ReadInv, Holds, Valid
  <2>3. CASE step = 3
    <3>1. backupBuf' = media[Mirror(page)].data /\ ~secondaryOk'
      BY <1>8, <2>1, <2>3 DEF ReadBackup
    <3> QED
      BY <1>1, <2>1, <2>2, <2>3, <3>1 DEF ReadInv, Mirror
  <2>4. CASE step = 4
    <3>1. backupBuf' = backupBuf /\ backupBuf = media[Mirror(page)].data
      BY <1>1, <1>4, <1>8, <2>4 DEF ReadBackup, ReadInv
    <3>2. secondaryOk' <=> Matches(backupBuf, media[Mirror(page)].crc)
      BY <1>8, <2>4 DEF ReadBackup
    <3>3. /\ secondaryOk' => Holds(Mirror(page), backupBuf)'
          /\ Valid(Mirror(page))' => secondaryOk'
      BY <1>1, <1>5, <3>1, <3>2 DEF Holds, Valid, Mirror
    <3> QED
      BY <1>1, <2>1, <2>2, <2>4, <3>1, <3>3 DEF ReadInv, Mirror
  <2> QED
    BY <2>1, <2>3, <2>4
<1>9. ASSUME ReadFails PROVE ReadInv'
  <2>1. /\ step <= 4 /\ step' = IF step <= 2 THEN 3 ELSE 5
        /\ buf' = buf /\ backupBuf' = backupBuf /\ ~clean'
        /\ (primaryOk' <=> primaryOk) /\ ~secondaryOk /\ ~secondaryOk'
    BY <1>4, <1>6, <1>9 DEF ReadFails
  <2>2. primaryOk' => Holds(page, buf)' /\ buf' = media'[page].data /\ step > 2
    BY <1>1, <1>4, <2>1 DEF ReadInv, Holds
  <2>3. step \in 1 .. 5
    BY <1>1, <1>4 DEF ReadInv
  <2> QED
    BY <1>1, <2>1, <2>2, <2>3 DEF ReadInv
<1>10. ReadInv'
  BY <1>7, <1>8, <1>9
<1> QED
  BY <1>1, <1>10 DEF CallInv, WriteInv, RepairInv, Repairing

LEMMA DecidesInv ==
  ASSUME CallInv, Decides
  PROVE  /\ pc = "read" /\ step = 5
         /\ primaryOk => Holds(page, buf)
         /\ secondaryOk => Holds(Mirror(page), backupBuf)
  BY DEF CallInv, ReadInv, Decides

LEMMA BothGoodStep ==
  ASSUME TypeOK, CallInv, BothGood, NEW p \in Pages, p = page
  PROVE  PageInv(p)' /\ CallInv'
<1>1. Leave("ok") /\ Settled(buf) /\ pc' = "idle" /\ media' = media
  BY DEF BothGood, Leave
<1> PICK w \in Values : w = buf
  BY KnownBuffer DEF BothGood, Decides
<1>2. Holds(p, w)' /\ Holds(Mirror(p), w)'
  BY <1>1, DecidesInv DEF BothGood, Holds, Mirror
<1>3. candidates'[p] = {w}
  BY <1>1 DEF Settled, TypeOK
<1>4. KnownAt(p)'
  BY <1>2, <1>3 DEF KnownAt, Holds, Copy, Mirror
<1>5. SettledAt(p)' /\ SurvivesAt(p)'
  BY <1>2 DEF SettledAt, SurvivesAt, SomeCopyValid, Holds, Valid, Matches, Copy, Mirror
<1> QED
  BY <1>1, <1>4, <1>5, LeaveCall DEF PageInv

LEMMA RenewBackupStep ==
  ASSUME TypeOK, CallInv, RenewBackup
  PROVE  CallInv'
<1>1. /\ pc' = "renew_backup" /\ step' = 1 /\ Holds(page, buf)
      /\ page' = page /\ buf' = buf /\ media' = media
  BY DecidesInv DEF RenewBackup
<1> QED
  BY <1>1 DEF CallInv, WriteInv, ReadInv, RepairInv, Repairing, Holds

LEMMA RestorePrimaryStep ==
  ASSUME TypeOK, CallInv, RestorePrimary
  PROVE  CallInv'
<1>1. /\ pc' = "restore_primary" /\ step' = 1 /\ Holds(Mirror(page), backupBuf)
      /\ page' = page /\ buf' = backupBuf /\ media' = media
  BY DecidesInv DEF RestorePrimary
<1> QED
  BY <1>1 DEF CallInv, WriteInv, ReadInv, RepairInv, Repairing, Holds, Mirror

LEMMA GiveUpStep ==
  ASSUME GiveUp
  PROVE  /\ pc = "read" /\ CallInv'
         /\ media' = media /\ candidates' = candidates /\ risk' = risk
<1>1. \E result \in {"data_corrupted", "failed"} : Leave(result)
  BY DEF GiveUp
<1> QED
  BY <1>1, LeaveCall DEF GiveUp, Decides, ghostVars

-----------------------------------------------------------------------------
(* Calls that begin.                                                       *)

LEMMA EnterPages ==
  ASSUME NEW operation, NEW q, Enter(operation, q), NEW p \in Pages, PageInv(p),
         candidates[p] \subseteq candidates'[p], risk' = risk
  PROVE  PageInv(p)'
<1>1. pc = "idle" /\ media' = media
  BY DEF Enter
<1> QED
  BY <1>1, OtherPage

LEMMA WriteBegins ==
  ASSUME TypeOK, NEW q \in Pages, NEW v \in Values, Write(q, v), PageInv(q)
  PROVE  /\ CallInv'
         /\ \A p \in Pages : candidates[p] \subseteq candidates'[p]
<1>1. /\ pc = "idle" /\ pc' = "write" /\ page' = q /\ step' = 1 /\ buf' = v
      /\ media' = media /\ risk' = risk
      /\ candidates' = [candidates EXCEPT ![q] = @ \cup {v}]
  BY DEF Write, Enter
<1>2. v \in candidates'[q] /\ \A p \in Pages : candidates[p] \subseteq candidates'[p]
  BY <1>1 DEF TypeOK
<1>3. risk[q] = 0 => Valid(Mirror(q))
  BY <1>1, HoldsValid DEF PageInv, SettledAt
<1>4. WriteInv'
  BY <1>1, <1>2, <1>3 DEF WriteInv, Valid, Mirror
<1> QED
  BY <1>1, <1>2, <1>4 DEF CallInv, ReadInv, RepairInv, Repairing

LEMMA ReadBegins ==
  ASSUME NEW q \in Pages, Read(q)
  PROVE  CallInv'
<1>1. /\ pc' = "read" /\ step' = 1 /\ ~primaryOk' /\ ~secondaryOk'
  BY DEF Read, Enter
<1> QED
  BY <1>1 DEF CallInv, WriteInv, ReadInv, RepairInv, Repairing

-----------------------------------------------------------------------------
(* The power goes.                                                         *)

LEMMA CrashStep ==
  ASSUME TypeOK, CallInv, Crash, NEW p \in Pages, p = page, PageInv(p)
  PROVE  PageInv(p)'
<1>1. pc' = "idle"
  BY DEF Crash, Leave
<1>2. CASE pc = "write"
  BY <1>1, <1>2, WriteInterrupted DEF Crash
<1>3. CASE Repairing
  <2>1. PICK v \in Partial(Content(RepairCell), buf) : Put(RepairCell, v)
    BY <1>3 DEF Crash, Repairing
  <2>2. Unsettled
    BY <1>3 DEF Crash, Repairing
  <2>3. SomeCopyValid(p)' /\ KnownAt(p)'
    BY <1>3, <2>1, <2>2, RepairKeeps, UnsettledRisk
  <2> QED
    BY <2>2, <2>3, UnsettledRisk DEF PageInv, SettledAt, SurvivesAt
<1>4. CASE pc = "read"
  BY <1>4, QuietStep DEF Crash, Repairing, ghostVars
<1> QED
  BY <1>2, <1>3, <1>4 DEF Crash, TypeOK, Repairing

-----------------------------------------------------------------------------
(* The invariant.                                                          *)

LEMMA InvInit == Init => Inv
<1> SUFFICES ASSUME Init PROVE Inv
  OBVIOUS
<1>1. TypeOK
  BY TypeInit
<1>2. CallInv
  BY DEF Init, CallInv, WriteInv, ReadInv, RepairInv, Repairing
<1>3. ASSUME NEW p \in Pages
      PROVE  PageInv(p)
  <2>1. p \in 0 .. PageCount - 1 /\ Mirror(p) \in 0 .. PageCount - 1
    BY PagesApart
  <2>2. CASE \E v \in Values :
               /\ media = [q \in 0 .. PageCount - 1 |-> Copy(v)]
               /\ candidates = [q \in Pages |-> {v}]
    <3>1. PICK v \in Values : /\ media[p] = Copy(v) /\ media[Mirror(p)] = Copy(v)
                              /\ candidates[p] = {v}
      BY <2>1, <2>2
    <3>2. Holds(p, v) /\ Holds(Mirror(p), v)
      BY <3>1, EepromAssumption DEF Holds
    <3> QED
      BY <3>1, <3>2, HoldsValid DEF PageInv, KnownAt, SettledAt, SurvivesAt,
                                    SomeCopyValid, Copy
  <2>3. CASE /\ media = [q \in 0 .. PageCount - 1 |-> Copy(Torn)]
             /\ risk = [q \in Pages |-> 2]
    <3>1. media[p] = Copy(Torn) /\ media[Mirror(p)] = Copy(Torn) /\ risk[p] = 2
      BY <2>1, <2>3
    <3> QED
      BY <3>1 DEF PageInv, KnownAt, SettledAt, SurvivesAt, Copy
  <2> QED
    BY <2>2, <2>3 DEF Init
<1> QED
  BY <1>1, <1>2, <1>3, InvByPage

LEMMA GhostsElsewhere ==
  ASSUME TypeOK, NEW p \in Pages, p # page,
         (\E v \in Values : Settled(v)) \/ Unsettled \/ UNCHANGED ghostVars
  PROVE  candidates[p] \subseteq candidates'[p] /\ risk'[p] = risk[p]
  BY DEF TypeOK, Settled, Unsettled, ghostVars

LEMMA InvStep == Inv /\ [Next]_vars => Inv'
<1> SUFFICES ASSUME Inv, [Next]_vars PROVE Inv'
  OBVIOUS
<1>0. TypeOK /\ CallInv /\ \A p \in Pages : PageInv(p)
  BY InvByPage
<1>t. TypeOK'
  BY <1>0, TypeStep
<1>p. page \in Pages /\ page \in 0 .. PageCount - 1 /\ Mirror(page) \in 0 .. PageCount - 1
  BY <1>0, PagesApart DEF TypeOK
\* The pages the call is not at.
<1>m. ASSUME media' = media, UNCHANGED ghostVars \/ \E v \in Values : Settled(v),
             NEW p \in Pages, p # page
      PROVE  PageInv(p)'
  BY <1>m, <1>0, GhostsElsewhere, OtherPage
<1>w. ASSUME NEW cell, NEW v \in Cells, Put(cell, v), cell.copy \in {page, Mirror(page)},
             cell.field \in {"data", "crc"},
             (\E w \in Values : Settled(w)) \/ Unsettled \/ UNCHANGED ghostVars,
             NEW p \in Pages, p # page
      PROVE  PageInv(p)'
  BY <1>w, <1>0, PutOtherPages, GhostsElsewhere, OtherPage
<1>1. ASSUME NEW q \in 0 .. PageCount - 1, NEW fits \in BOOLEAN, Reject(q, fits)
      PROVE  CallInv' /\ \A p \in Pages : PageInv(p)'
  <2>1. pc = "idle" /\ pc' = "idle" /\ media' = media /\ UNCHANGED ghostVars
    BY <1>1 DEF Reject, callVars
  <2> QED
    BY <1>0, <2>1, OtherPage DEF ghostVars, CallInv, WriteInv, ReadInv, RepairInv, Repairing
<1>2. ASSUME NEW q \in Pages, NEW v \in Values, Write(q, v)
      PROVE  CallInv' /\ \A p \in Pages : PageInv(p)'
  BY <1>0, <1>2, WriteBegins, EnterPages DEF Write
<1>3. ASSUME NEW q \in Pages, Read(q)
      PROVE  CallInv' /\ \A p \in Pages : PageInv(p)'
  BY <1>0, <1>3, ReadBegins, EnterPages DEF Read, ghostVars
<1>4. ASSUME WriteOk
      PROVE  CallInv' /\ \A p \in Pages : PageInv(p)'
  <2>1. (\E w \in Values : Settled(w)) \/ UNCHANGED ghostVars
    BY <1>0, <1>4, WriteCellType DEF WriteOk
  <2>2. ASSUME NEW p \in Pages, p # page
        PROVE  PageInv(p)'
    BY <1>0, <1>4, <1>w, <2>1, <2>2, WriteCellType DEF WriteOk
  <2>3. ASSUME NEW p \in Pages, p = page
        PROVE  PageInv(p)' /\ CallInv'
    BY <1>0, <1>4, <2>3, WriteOkStep
  <2> QED
    BY <1>p, <2>2, <2>3
<1>5. ASSUME WriteFails
      PROVE  CallInv' /\ \A p \in Pages : PageInv(p)'
  <2>1. pc = "write" /\ pc' = "idle" /\ Unsettled /\ Leave("failed")
    BY <1>5 DEF WriteFails, Leave
  <2>2. PICK v \in Partial(Content(WriteCell), buf) : Put(WriteCell, v)
    BY <1>5 DEF WriteFails
  <2>3. v \in Cells
    BY <1>0, <2>1, WriteCellType, PartialPut
  <2>4. ASSUME NEW p \in Pages, p # page
        PROVE  PageInv(p)'
    BY <1>0, <1>w, <2>1, <2>2, <2>3, <2>4, WriteCellType
  <2>5. ASSUME NEW p \in Pages, p = page
        PROVE  PageInv(p)'
    BY <1>0, <2>1, <2>2, <2>5, WriteInterrupted
  <2> QED
    BY <2>1, <2>4, <2>5, LeaveCall
<1>6. ASSUME ReadPrimary \/ ReadBackup \/ ReadFails
      PROVE  CallInv' /\ \A p \in Pages : PageInv(p)'
  <2>1. pc = "read" /\ media' = media /\ candidates' = candidates /\ risk' = risk
    BY <1>6 DEF ReadPrimary, ReadBackup, ReadFails, ghostVars
  <2> QED
    BY <1>0, <1>6, <2>1, ReadStep, QuietStep
<1>7. ASSUME BothGood
      PROVE  CallInv' /\ \A p \in Pages : PageInv(p)'
  <2>1. media' = media /\ \E v \in Values : Settled(v)
    BY <1>0, <1>7, KnownBuffer DEF BothGood, Decides
  <2>2. ASSUME NEW p \in Pages, p = page
        PROVE  PageInv(p)' /\ CallInv'
    BY <1>0, <1>7, <2>2, BothGoodStep
  <2> QED
    BY <1>m, <1>p, <2>1, <2>2
<1>8. ASSUME RenewBackup \/ RestorePrimary
      PROVE  CallInv' /\ \A p \in Pages : PageInv(p)'
  <2>1. pc = "read" /\ media' = media /\ candidates' = candidates /\ risk' = risk
    BY <1>8 DEF RenewBackup, RestorePrimary, Decides, ghostVars
  <2> QED
    BY <1>0, <1>8, <2>1, RenewBackupStep, RestorePrimaryStep, QuietStep
<1>9. ASSUME GiveUp
      PROVE  CallInv' /\ \A p \in Pages : PageInv(p)'
  BY <1>0, <1>9, GiveUpStep, QuietStep
<1>10. ASSUME NEW ok \in BOOLEAN, RepairStep(ok)
       PROVE  CallInv' /\ \A p \in Pages : PageInv(p)'
  <2>1. Repairing
    BY <1>10 DEF RepairStep
  <2>2. PICK v \in Partial(Content(RepairCell), buf) : Put(RepairCell, v)
    BY <1>10 DEF RepairStep, Partial
  <2>3. v \in Cells
    BY <1>0, <2>1, <2>2, RepairCellType, PartialPut
  <2>4. (\E w \in Values : Settled(w)) \/ Unsettled \/ UNCHANGED ghostVars
    BY <1>0, <1>10, KnownBuffer DEF RepairStep
  <2>5. ASSUME NEW p \in Pages, p # page
        PROVE  PageInv(p)'
    BY <1>0, <1>w, <2>1, <2>2, <2>3, <2>4, <2>5, RepairCellType
  <2>6. ASSUME NEW p \in Pages, p = page
        PROVE  PageInv(p)' /\ CallInv'
    BY <1>0, <1>10, <2>6, RepairStepStep
  <2> QED
    BY <1>p, <2>5, <2>6
<1>11. ASSUME Crash
       PROVE  CallInv' /\ \A p \in Pages : PageInv(p)'
  <2>1. CallInv'
    BY <1>11, LeaveCall DEF Crash
  <2>2. ASSUME NEW p \in Pages, p = page
        PROVE  PageInv(p)'
    BY <1>0, <1>11, <2>2, CrashStep
  <2>3. ASSUME NEW p \in Pages, p # page
        PROVE  PageInv(p)'
    <3>1. CASE pc = "write"
      <4>1. PICK v \in Partial(Content(WriteCell), buf) : Put(WriteCell, v)
        BY <1>11, <3>1 DEF Crash
      <4>2. v \in Cells /\ Unsettled
        BY <1>0, <1>11, <3>1, WriteCellType, PartialPut DEF Crash
      <4> QED
        BY <1>0, <1>w, <2>3, <3>1, <4>1, <4>2, WriteCellType
    <3>2. CASE Repairing
      <4>1. PICK v \in Partial(Content(RepairCell), buf) : Put(RepairCell, v)
        BY <1>11, <3>2 DEF Crash, Repairing
      <4>2. v \in Cells /\ Unsettled
        BY <1>0, <1>11, <3>2, RepairCellType, PartialPut DEF Crash, Repairing
      <4> QED
        BY <1>0, <1>w, <2>3, <3>2, <4>1, <4>2, RepairCellType
    <3>3. CASE pc = "read"
      BY <1>11, <1>m, <2>3, <3>3 DEF Crash, Repairing
    <3> QED
      BY <1>0, <1>11, <3>1, <3>2, <3>3 DEF Crash, TypeOK, Repairing
  <2> QED
    BY <2>1, <2>2, <2>3
<1>12. ASSUME UNCHANGED vars
       PROVE  CallInv' /\ \A p \in Pages : PageInv(p)'
  <2>1. \A p \in Pages : PageInv(p)'
    BY <1>0, <1>12 DEF vars, callVars, ghostVars, PageInv, KnownAt, SettledAt,
                       SurvivesAt, SomeCopyValid, Valid, Holds, Mirror
  <2>2. CallInv'
    BY <1>0, <1>12 DEF vars, callVars, ghostVars, CallInv, WriteInv, ReadInv, RepairInv,
                       Repairing, RepairCell, Valid, Holds, Mirror
  <2> QED
    BY <2>1, <2>2
<1>13. CallInv' /\ \A p \in Pages : PageInv(p)'
  BY <1>1, <1>2, <1>3, <1>4, <1>5, <1>6, <1>7, <1>8, <1>9, <1>10, <1>11, <1>12 DEF Next
<1> QED
  BY <1>t, <1>13, InvByPagePrimed

\* storage keeps, between every two driver calls, what a call knows of the two copies
\* of its page, and both copies equal where no call was cut short (write, read).
THEOREM Invariance == Spec => []IInv
<1>1. Init => Inv
  BY InvInit
<1>2. Inv /\ [Next]_vars => Inv'
  BY InvStep
<1>3. Inv => IInv
  BY DEF Inv
<1> QED
  BY <1>1, <1>2, <1>3, PTL DEF Spec

\* A page of any device survives one call that the power or the driver cut short since
\* both its copies were known to be equal: one of them is valid (write, read).
THEOREM OneInterruption == Spec => []SurvivesOneInterruption
<1>1. Init => Inv
  BY InvInit
<1>2. Inv /\ [Next]_vars => Inv'
  BY InvStep
<1>3. Inv => SurvivesOneInterruption
  BY DEF Inv
<1> QED
  BY <1>1, <1>2, <1>3, PTL DEF Spec

-----------------------------------------------------------------------------
(* What a step may never do.                                               *)

LEMMA WhoWrites ==
  ASSUME TypeOK, CallInv, [Next]_vars, media' # media
  PROVE  \/ pc = "write" /\ \E v \in Cells : Put(WriteCell, v)
         \/ Repairing /\ \E v \in Partial(Content(RepairCell), buf) : Put(RepairCell, v)
<1>1. ASSUME pc = "write", NEW v \in Partial(Content(WriteCell), buf)
      PROVE  v \in Cells
  BY <1>1, WriteCellType, PartialPut
<1>2. ASSUME NEW q \in 0 .. PageCount - 1, NEW fits \in BOOLEAN, Reject(q, fits)
      PROVE  media' = media
  BY <1>2 DEF Reject
<1>3. ASSUME NEW q \in Pages, Read(q) \/ \E v \in Values : Write(q, v)
      PROVE  media' = media
  BY <1>3 DEF Read, Write, Enter
<1>4. CASE WriteOk
  BY <1>4, WriteCellType DEF WriteOk
<1>5. CASE WriteFails
  BY <1>1, <1>5 DEF WriteFails
<1>6. ASSUME \/ ReadPrimary \/ ReadBackup \/ ReadFails
             \/ BothGood \/ RenewBackup \/ RestorePrimary \/ GiveUp
             \/ UNCHANGED vars
      PROVE  media' = media
  BY <1>6 DEF ReadPrimary, ReadBackup, ReadFails, BothGood, RenewBackup, RestorePrimary,
              GiveUp, vars
<1>7. ASSUME NEW ok \in BOOLEAN, RepairStep(ok)
      PROVE  Repairing /\ \E v \in Partial(Content(RepairCell), buf) : Put(RepairCell, v)
  BY <1>7 DEF RepairStep, Partial
<1>8. CASE Crash
  BY <1>1, <1>8 DEF Crash
<1> QED
  BY <1>2, <1>3, <1>4, <1>5, <1>6, <1>7, <1>8 DEF Next

LEMMA LastCopyStep ==
  ASSUME Inv, [Next]_vars, NEW p \in Pages, SomeCopyValid(p), ~SomeCopyValid(p)'
  PROVE  pc = "write" /\ page = p /\ step <= 2 /\ ~Valid(Mirror(p))
<1>0. TypeOK /\ CallInv /\ PageInv(p)
  BY InvByPage
<1>1. media' # media
  BY DEF SomeCopyValid, Valid, Mirror
<1>2. ~(media'[p] = media[p] /\ media'[Mirror(p)] = media[Mirror(p)])
  BY DEF SomeCopyValid, Valid, Mirror
<1>3. page = p
  <2>1. ASSUME p # page, pc = "write", NEW v \in Cells, Put(WriteCell, v)
        PROVE  FALSE
    BY <1>0, <1>2, <2>1, WriteCellType, PutOtherPages
  <2>2. ASSUME p # page, Repairing, NEW v \in Partial(Content(RepairCell), buf),
               Put(RepairCell, v)
        PROVE  FALSE
    <3>1. v \in Cells
      BY <1>0, <2>2, RepairCellType, PartialPut
    <3> QED
      BY <1>0, <1>2, <2>2, <3>1, RepairCellType, PutOtherPages
  <2> QED
    BY <1>0, <1>1, <2>1, <2>2, WhoWrites
<1>4. ~Repairing \/ ~\E v \in Partial(Content(RepairCell), buf) : Put(RepairCell, v)
  BY <1>0, <1>3, RepairKeeps
<1>5. PICK v \in Cells : pc = "write" /\ Put(WriteCell, v)
  BY <1>0, <1>1, <1>4, WhoWrites
<1>6. /\ step <= 2 => media'[Mirror(p)] = media[Mirror(p)]
      /\ step >= 3 => media'[p] = media[p]
  BY <1>0, <1>3, <1>5, WriteEffect
<1>7. step \in 1 .. 4 /\ (step >= 3 => Valid(p))
  BY <1>0, <1>3, <1>5, HoldsValid DEF CallInv, WriteInv
<1>8. step <= 2
  BY <1>6, <1>7 DEF SomeCopyValid, Valid
<1>9. ~Valid(Mirror(p))
  BY <1>6, <1>8 DEF SomeCopyValid, Valid, Mirror
<1> QED
  BY <1>3, <1>5, <1>8, <1>9

LEMMA HowCallsEnd ==
  ASSUME TypeOK, [Next]_vars, pc # "idle", pc' = "idle", status' \in {"ok", "data_corrupted"}
  PROVE  \/ status' = "ok" /\ (pc = "write" \/ BothGood \/ Repairing)
         \/ status' = "data_corrupted" /\ GiveUp
<1>1. ASSUME NEW q \in Pages, Read(q) \/ \E v \in Values : Write(q, v)
      PROVE  FALSE
  BY <1>1 DEF Read, Write, Enter
<1>2. ASSUME NEW q \in 0 .. PageCount - 1, NEW fits \in BOOLEAN, Reject(q, fits)
      PROVE  FALSE
  BY <1>2 DEF Reject
<1>3. ASSUME \/ ReadPrimary \/ ReadBackup \/ ReadFails \/ RenewBackup \/ RestorePrimary
             \/ Crash \/ UNCHANGED vars
      PROVE  FALSE
  BY <1>3 DEF ReadPrimary, ReadBackup, ReadFails, RenewBackup, RestorePrimary, Crash, Leave,
              vars, callVars
<1>4. ASSUME WriteOk \/ WriteFails
      PROVE  pc = "write" /\ status' = "ok"
  <2>1. CASE WriteOk
    BY <2>1 DEF WriteOk, Leave
  <2>2. CASE WriteFails
    BY <2>2 DEF WriteFails, Leave
  <2> QED
    BY <1>4, <2>1, <2>2
<1>5. CASE BothGood
  BY <1>5 DEF BothGood, Leave
<1>6. CASE GiveUp
  BY <1>6 DEF GiveUp, Leave
<1>7. ASSUME NEW ok \in BOOLEAN, RepairStep(ok)
      PROVE  Repairing /\ status' = "ok"
  <2>1. Repairing /\ pc' # pc
    BY <1>7 DEF RepairStep
  <2> QED
    BY <1>7, <2>1 DEF RepairStep, Leave
<1> QED
  BY <1>1, <1>2, <1>3, <1>4, <1>5, <1>6, <1>7 DEF Next

\* read and its repairs never lose the last valid copy of a page, and write only while
\* it is at the first copy, with the second invalid already.
THEOREM LastCopy == Spec => LastCopyKept
<1>1. Init => Inv
  BY InvInit
<1>2. Inv /\ [Next]_vars => Inv'
  BY InvStep
<1>3. ASSUME Inv, [Next]_vars
      PROVE  [\A p \in Pages :
                SomeCopyValid(p) /\ ~SomeCopyValid(p)' =>
                  pc = "write" /\ page = p /\ step <= 2 /\ ~Valid(Mirror(p))]_vars
  BY <1>3, LastCopyStep
<1> QED
  BY <1>1, <1>2, <1>3, PTL DEF Spec, LastCopyKept

\* A read that returns ok returns a value that a write put there, and never one that an
\* earlier read of the same page already ruled out (read and its repairs).
THEOREM ReturnsWritten == Spec => ReadReturnsWritten
<1>1. Init => Inv
  BY InvInit
<1>2. Inv /\ [Next]_vars => Inv'
  BY InvStep
<1>3. ASSUME Inv, [Next]_vars
      PROVE  Returns("ok") /\ pc # "write" => buf \in candidates[page]
  <2>0. TypeOK /\ CallInv /\ page \in Pages /\ PageInv(page)
    BY <1>3, InvByPage DEF TypeOK
  <2> SUFFICES ASSUME Returns("ok"), pc # "write" PROVE buf \in candidates[page]
    OBVIOUS
  <2>1. BothGood \/ Repairing
    BY <1>3, <2>0, HowCallsEnd DEF Returns
  <2>2. \E copy \in {page, Mirror(page)} : Holds(copy, buf)
    <3>1. CASE BothGood
      BY <2>0, <3>1, DecidesInv DEF BothGood
    <3>2. CASE Repairing
      BY <2>0, <3>2 DEF CallInv, RepairInv
    <3> QED
      BY <2>1, <3>1, <3>2
  <2> QED
    BY <2>0, <2>2, HoldsValid DEF PageInv, KnownAt, Holds
<1>4. ASSUME Inv, [Next]_vars
      PROVE  [Returns("ok") /\ pc # "write" => buf \in candidates[page]]_vars
  BY <1>3, <1>4
<1> QED
  BY <1>1, <1>2, <1>4, PTL DEF Spec, ReadReturnsWritten

\* A read that the driver did not fail reports data_corrupted only if both copies are
\* invalid, and so only after more than one call was cut short (read).
THEOREM CorruptIfLost == Spec => CorruptOnlyIfLost
<1>1. Init => Inv
  BY InvInit
<1>2. Inv /\ [Next]_vars => Inv'
  BY InvStep
<1>3. ASSUME Inv, [Next]_vars
      PROVE  Returns("data_corrupted") /\ clean => ~SomeCopyValid(page) /\ risk[page] = 2
  <2>0. TypeOK /\ CallInv /\ page \in Pages /\ PageInv(page)
    BY <1>3, InvByPage DEF TypeOK
  <2> SUFFICES ASSUME Returns("data_corrupted"), clean
               PROVE  ~SomeCopyValid(page) /\ risk[page] = 2
    OBVIOUS
  <2>1. GiveUp
    BY <1>3, <2>0, HowCallsEnd DEF Returns
  <2>2. ~Valid(page) /\ ~Valid(Mirror(page)) /\ pc = "read"
    BY <2>0, <2>1 DEF GiveUp, Decides, CallInv, ReadInv
  <2>3. risk[page] \in 0 .. 2
    BY <2>0 DEF TypeOK
  <2> QED
    BY <2>0, <2>2, <2>3 DEF PageInv, SurvivesAt, SomeCopyValid
<1>4. ASSUME Inv, [Next]_vars
      PROVE  [Returns("data_corrupted") /\ clean =>
                ~SomeCopyValid(page) /\ risk[page] = 2]_vars
  BY <1>3, <1>4
<1> QED
  BY <1>1, <1>2, <1>4, PTL DEF Spec, CorruptOnlyIfLost
=============================================================================
