---------------------------- MODULE EepromStorage ----------------------------
(***************************************************************************)
(* emb::mem::eeprom::storage: pages kept twice, each copy with its CRC, on *)
(* a device whose accesses may fail and whose power may go at any moment.  *)
(*                                                                         *)
(* One call runs at a time; a step is one call of the driver.  A cell is   *)
(* the data or the CRC of a copy: it holds a value, the CRC field standing *)
(* for "the CRC of that value", or Torn, after a write that was cut short. *)
(* The CRC function, given by the user, is assumed to tell these apart.    *)
(***************************************************************************)
EXTENDS Integers

CONSTANTS
  PageCount,   \* driver.page_count()
  Values,      \* what a page may hold
  Torn         \* what a write cut short may leave

ASSUME EepromAssumption ==
  /\ PageCount \in Nat /\ PageCount >= 4
  /\ Torn \notin Values

VARIABLES
  media,       \* the device
  pc,          \* where the call in progress is
  page,        \* its page
  step,        \* the driver call it makes next
  buf,         \* the caller's buffer: what to write, or what was read
  backupBuf,   \* _backup_buf
  primaryOk, secondaryOk,
  sts,         \* whether the last driver call succeeded
  errors,      \* what this call added to _errors
  status,      \* what the last call returned
  clean,       \* ghost: every driver call of this call succeeded
  candidates,  \* ghost, for each page: the values a read may return
  risk         \* ghost, for each page: calls cut short or failed since both
               \* copies were known to be equal; 2 stands for more

callVars == <<pc, page, step, buf, backupBuf, primaryOk, secondaryOk, sts>>
ghostVars == <<candidates, risk>>
vars == <<media, callVars, errors, status, clean, ghostVars>>

\* The first copies, the second copies, and two pages that stay unused.
AvailablePageCount == (PageCount - 2) \div 2
Pages == 0 .. AvailablePageCount - 1
Mirror(p) == p + AvailablePageCount

Cells == Values \cup {Torn}
Copy(v) == [data |-> v, crc |-> v]
Matches(data, crc) == data = crc /\ data # Torn
Valid(p) == Matches(media[p].data, media[p].crc)
SomeCopyValid(p) == Valid(p) \/ Valid(Mirror(p))

Counters == {"read", "write", "crc_mismatch", "primary_data_corrupted",
             "secondary_data_corrupted", "fatal"}
NoErrors == [c \in Counters |-> 0]
Count(c) == errors' = [errors EXCEPT ![c] = @ + 1]

Worse(r) == IF r < 2 THEN r + 1 ELSE 2

\* A device in use, or a blank one.
Init ==
  /\ \/ \E v \in Values :
          /\ media = [p \in 0 .. PageCount - 1 |-> Copy(v)]
          /\ candidates = [p \in Pages |-> {v}]
          /\ risk = [p \in Pages |-> 0]
     \/ /\ media = [p \in 0 .. PageCount - 1 |-> Copy(Torn)]
        /\ candidates = [p \in Pages |-> {}]
        /\ risk = [p \in Pages |-> 2]
  /\ pc = "idle" /\ page = 0 /\ step = 0
  /\ buf = Torn /\ backupBuf = Torn
  /\ primaryOk = FALSE /\ secondaryOk = FALSE /\ sts = TRUE
  /\ errors = NoErrors
  /\ status = "none"
  /\ clean = TRUE

-----------------------------------------------------------------------------
(* Calls and returns.                                                      *)

\* A page out of range, or data longer than a page.
Reject(p, fits) ==
  /\ pc = "idle"
  /\ p \notin Pages \/ ~fits
  /\ status' = IF p \notin Pages THEN "invalid_address" ELSE "invalid_data_size"
  /\ errors' = NoErrors
  /\ clean' = TRUE
  /\ UNCHANGED <<media, callVars, ghostVars>>

Enter(operation, p) ==
  /\ pc = "idle"
  /\ pc' = operation
  /\ page' = p
  /\ step' = 1
  /\ backupBuf' = Torn
  /\ primaryOk' = FALSE /\ secondaryOk' = FALSE /\ sts' = TRUE
  /\ errors' = NoErrors
  /\ clean' = TRUE
  /\ UNCHANGED <<media, status>>

Write(p, v) ==
  /\ Enter("write", p)
  /\ buf' = v
  /\ candidates' = [candidates EXCEPT ![p] = @ \cup {v}]
  /\ UNCHANGED risk

Read(p) ==
  /\ Enter("read", p)
  /\ buf' = Torn
  /\ UNCHANGED ghostVars

\* The call is over, and its locals are gone.
Leave(result) ==
  /\ pc' = "idle" /\ page' = 0 /\ step' = 0
  /\ buf' = Torn /\ backupBuf' = Torn
  /\ primaryOk' = FALSE /\ secondaryOk' = FALSE /\ sts' = TRUE
  /\ status' = result

\* What the end of a call says about the page: known to be v in both copies, or not.
Settled(v) ==
  /\ candidates' = [candidates EXCEPT ![page] = {v}]
  /\ risk' = [risk EXCEPT ![page] = 0]
Unsettled ==
  /\ risk' = [risk EXCEPT ![page] = Worse(@)]
  /\ UNCHANGED candidates

-----------------------------------------------------------------------------
(* write: the first copy and then the second, the data before its CRC.     *)

\* What a failed write, or one the power leaves, makes of a cell.
Partial(old, new) == {old, new, Torn}

\* Faulty WriteCell: the data of both copies, and then both CRCs.
WriteCellDataFirst == [copy  |-> IF step % 2 = 1 THEN page ELSE Mirror(page),
                       field |-> IF step <= 2 THEN "data" ELSE "crc"]

WriteCell == [copy  |-> IF step <= 2 THEN page ELSE Mirror(page),
              field |-> IF step % 2 = 1 THEN "data" ELSE "crc"]

Put(cell, v) == media' = [media EXCEPT ![cell.copy][cell.field] = v]
Content(cell) == media[cell.copy][cell.field]

WriteOk ==
  /\ pc = "write"
  /\ Put(WriteCell, buf)
  /\ IF step < 4
       THEN /\ step' = step + 1
            /\ UNCHANGED <<pc, page, buf, backupBuf, primaryOk, secondaryOk, sts,
                           status, ghostVars>>
       ELSE Leave("ok") /\ Settled(buf)
  /\ UNCHANGED <<errors, clean>>

\* The first failure ends the call.
WriteFails ==
  /\ pc = "write"
  /\ \E v \in Partial(Content(WriteCell), buf) : Put(WriteCell, v)
  /\ Count("write")
  /\ clean' = FALSE
  /\ Leave("failed")
  /\ Unsettled

-----------------------------------------------------------------------------
(* read: the first copy, then the second whatever the first was like.      *)

\* Faulty ReadPrimary: the buffer counts as good as soon as it is read.
ReadPrimaryUnchecked ==
  /\ pc = "read" /\ step \in {1, 2}
  /\ IF step = 1
       THEN /\ buf' = media[page].data
            /\ UNCHANGED <<primaryOk, errors>>
       ELSE /\ primaryOk' = TRUE
            /\ UNCHANGED <<buf, errors>>
  /\ step' = step + 1
  /\ sts' = TRUE
  /\ UNCHANGED <<media, pc, page, backupBuf, secondaryOk, status, clean, ghostVars>>

ReadPrimary ==
  /\ pc = "read" /\ step \in {1, 2}
  /\ IF step = 1
       THEN /\ buf' = media[page].data
            /\ UNCHANGED <<primaryOk, errors>>
       ELSE /\ primaryOk' = Matches(buf, media[page].crc)
            /\ IF primaryOk' THEN UNCHANGED errors ELSE Count("crc_mismatch")
            /\ UNCHANGED buf
  /\ step' = step + 1
  /\ sts' = TRUE
  /\ UNCHANGED <<media, pc, page, backupBuf, secondaryOk, status, clean, ghostVars>>

ReadBackup ==
  /\ pc = "read" /\ step \in {3, 4}
  /\ IF step = 3
       THEN /\ backupBuf' = media[Mirror(page)].data
            /\ UNCHANGED <<secondaryOk, errors>>
       ELSE /\ secondaryOk' = Matches(backupBuf, media[Mirror(page)].crc)
            /\ IF secondaryOk' THEN UNCHANGED errors ELSE Count("crc_mismatch")
            /\ UNCHANGED backupBuf
  /\ step' = step + 1
  /\ sts' = TRUE
  /\ UNCHANGED <<media, pc, page, buf, primaryOk, status, clean, ghostVars>>

\* A failure skips the rest of its copy.
ReadFails ==
  /\ pc = "read" /\ step <= 4
  /\ Count("read")
  /\ step' = IF step <= 2 THEN 3 ELSE 5
  /\ sts' = FALSE
  /\ clean' = FALSE
  /\ UNCHANGED <<media, pc, page, buf, backupBuf, primaryOk, secondaryOk, status, ghostVars>>

Decides == pc = "read" /\ step = 5

BothGood ==
  /\ Decides
  /\ primaryOk /\ secondaryOk /\ buf = backupBuf
  /\ Leave("ok")
  /\ Settled(buf)
  /\ UNCHANGED <<media, errors, clean>>

\* Faulty RenewBackup: the copies differ, and that is enough.
RenewBackupUnchecked ==
  /\ Decides
  /\ buf # backupBuf
  /\ Count("secondary_data_corrupted")
  /\ pc' = "renew_backup" /\ step' = 1
  /\ UNCHANGED <<media, page, buf, backupBuf, primaryOk, secondaryOk, sts, status, clean,
                 ghostVars>>

\* The backup is corrupted or outdated.
RenewBackup ==
  /\ Decides
  /\ primaryOk
  /\ secondaryOk => buf # backupBuf
  /\ Count("secondary_data_corrupted")
  /\ pc' = "renew_backup" /\ step' = 1
  /\ UNCHANGED <<media, page, buf, backupBuf, primaryOk, secondaryOk, sts, status, clean,
                 ghostVars>>

RestorePrimary ==
  /\ Decides
  /\ ~primaryOk /\ secondaryOk
  /\ Count("primary_data_corrupted")
  /\ buf' = backupBuf
  /\ pc' = "restore_primary" /\ step' = 1
  /\ UNCHANGED <<media, page, backupBuf, primaryOk, secondaryOk, sts, status, clean, ghostVars>>

\* Faulty GiveUp: a bad first copy is the end of it.
GiveUpEarly ==
  /\ Decides
  /\ ~primaryOk
  /\ IF sts THEN Count("fatal") /\ Leave("data_corrupted")
            ELSE UNCHANGED errors /\ Leave("failed")
  /\ UNCHANGED <<media, clean, ghostVars>>

\* sts is that of the last driver call: with it good, the fault is in the data.
GiveUp ==
  /\ Decides
  /\ ~primaryOk /\ ~secondaryOk
  /\ IF sts THEN Count("fatal") /\ Leave("data_corrupted")
            ELSE UNCHANGED errors /\ Leave("failed")
  /\ UNCHANGED <<media, clean, ghostVars>>

Repairing == pc \in {"renew_backup", "restore_primary"}
RepairCell == [copy  |-> IF pc = "renew_backup" THEN Mirror(page) ELSE page,
               field |-> IF step = 1 THEN "data" ELSE "crc"]

\* Faulty RepairStep: the data without its CRC.
RepairStepDataOnly(ok) ==
  /\ Repairing
  /\ IF ok THEN Put(RepairCell, buf)
           ELSE \E v \in Partial(Content(RepairCell), buf) : Put(RepairCell, v)
  /\ clean' = (clean /\ ok)
  /\ Leave("ok")
  /\ IF clean' THEN Settled(buf) ELSE Unsettled
  /\ UNCHANGED errors

\* The results of these writes are not looked at: the call returns ok.
RepairStep(ok) ==
  /\ Repairing
  /\ IF ok THEN Put(RepairCell, buf)
           ELSE \E v \in Partial(Content(RepairCell), buf) : Put(RepairCell, v)
  /\ clean' = (clean /\ ok)
  /\ IF step = 1
       THEN /\ step' = 2
            /\ UNCHANGED <<pc, page, buf, backupBuf, primaryOk, secondaryOk, sts,
                           status, ghostVars>>
       ELSE /\ Leave("ok")
            /\ IF clean' THEN Settled(buf) ELSE Unsettled
  /\ UNCHANGED errors

-----------------------------------------------------------------------------
\* The power goes: the cell being written is left anyhow, and the RAM is lost.
Crash ==
  /\ pc # "idle"
  /\ IF pc = "write"
       THEN \E v \in Partial(Content(WriteCell), buf) : Put(WriteCell, v)
     ELSE IF Repairing
       THEN \E v \in Partial(Content(RepairCell), buf) : Put(RepairCell, v)
     ELSE UNCHANGED media
  /\ IF pc = "read" THEN UNCHANGED ghostVars ELSE Unsettled
  /\ Leave("none")
  /\ errors' = NoErrors
  /\ clean' = TRUE

Next ==
  \/ \E p \in 0 .. PageCount - 1, fits \in BOOLEAN : Reject(p, fits)
  \/ \E p \in Pages, v \in Values : Write(p, v)
  \/ \E p \in Pages : Read(p)
  \/ WriteOk \/ WriteFails
  \/ ReadPrimary \/ ReadBackup \/ ReadFails
  \/ BothGood \/ RenewBackup \/ RestorePrimary \/ GiveUp
  \/ \E ok \in BOOLEAN : RepairStep(ok)
  \/ Crash

Spec == Init /\ [][Next]_vars

-----------------------------------------------------------------------------
TypeOK ==
  /\ media \in [0 .. PageCount - 1 -> [data : Cells, crc : Cells]]
  /\ pc \in {"idle", "write", "read", "renew_backup", "restore_primary"}
  /\ page \in Pages
  /\ step \in 0 .. 5
  /\ buf \in Cells /\ backupBuf \in Cells
  /\ primaryOk \in BOOLEAN /\ secondaryOk \in BOOLEAN
  /\ sts \in BOOLEAN /\ clean \in BOOLEAN
  /\ errors \in [Counters -> Nat]
  /\ status \in {"none", "ok", "failed", "data_corrupted", "invalid_address",
                 "invalid_data_size"}
  /\ candidates \in [Pages -> SUBSET Values]
  /\ risk \in [Pages -> 0 .. 2]

Holds(copy, v) == media[copy] = Copy(v) /\ v # Torn

\* What the call in progress knows of the two copies of its page.
WriteInv == pc = "write" =>
  /\ step \in 1 .. 4
  /\ buf \in candidates[page]
  /\ step = 2 => media[page].data = buf
  /\ step >= 3 => Holds(page, buf)
  /\ step = 4 => media[Mirror(page)].data = buf
  /\ risk[page] = 0 /\ step <= 2 => Valid(Mirror(page))

ReadInv == pc = "read" =>
  /\ step \in 1 .. 5
  /\ step \in {2} \/ (primaryOk /\ step > 2) => buf = media[page].data
  /\ primaryOk => step > 2 /\ Holds(page, buf)
  /\ step = 4 \/ secondaryOk => backupBuf = media[Mirror(page)].data
  /\ secondaryOk => step = 5 /\ Holds(Mirror(page), backupBuf)
  /\ clean /\ Valid(page) /\ step > 2 => primaryOk
  /\ clean /\ Valid(Mirror(page)) /\ step > 4 => secondaryOk

RepairInv == Repairing =>
  /\ step \in 1 .. 2
  /\ IF pc = "renew_backup" THEN Holds(page, buf) ELSE Holds(Mirror(page), buf)
  /\ step = 2 /\ clean => media[RepairCell.copy].data = buf

\* Every cell holds something a read may return, or nothing.
CellsKnown == \A p \in Pages : \A copy \in {p, Mirror(p)} :
  {media[copy].data, media[copy].crc} \subseteq candidates[p] \cup {Torn}

\* With no call cut short since both copies were equal, they are.
EqualWhenSettled == \A p \in Pages :
  risk[p] = 0 /\ (pc \in {"idle", "read"} \/ p # page) =>
    \E v \in Values : Holds(p, v) /\ Holds(Mirror(p), v)

IInv == TypeOK /\ CellsKnown /\ EqualWhenSettled /\ WriteInv /\ ReadInv /\ RepairInv

\* A page survives one call that the power or the driver cut short since both its
\* copies were known to be equal: one of them is valid (write's and read's order).
SurvivesOneInterruption == \A p \in Pages :
  risk[p] <= 1 /\ ~(pc = "write" /\ page = p) => SomeCopyValid(p)

\* The last valid copy is never lost to a read and its repairs, and to a write only
\* while it is at the primary, if the backup was invalid already.
LastCopyKept == [][\A p \in Pages :
  SomeCopyValid(p) /\ ~SomeCopyValid(p)' =>
    pc = "write" /\ page = p /\ step <= 2 /\ ~Valid(Mirror(p))]_vars

Returns(result) == pc # "idle" /\ pc' = "idle" /\ status' = result

\* A read that returns ok returns the value of the last write that returned ok, or
\* of a later one that did not; and the value that a read without driver errors
\* returned is returned by every read until the next write (read's repairs).
ReadReturnsWritten ==
  [][Returns("ok") /\ pc # "write" => buf \in candidates[page]]_vars

\* Unless the driver failed it, a read gives up only if both copies are corrupted,
\* so only after more than one call was cut short.
CorruptOnlyIfLost ==
  [][Returns("data_corrupted") /\ clean =>
       ~SomeCopyValid(page) /\ risk[page] = 2]_vars
=============================================================================
