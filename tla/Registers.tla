------------------------------ MODULE Registers ------------------------------
(***************************************************************************)
(* emb::mmio: the fields and flags of registers.  A register is the set of *)
(* the bits that are 1, and so is a value; shifts move bits.               *)
(*                                                                         *)
(* control is a register that only the program writes, made of fields; the *)
(* hardware raises the flags of status, and clears those written as 1, or, *)
(* in a register of the other kind, those written as 0.                    *)
(***************************************************************************)
EXTENDS Integers, FiniteSets

CONSTANTS
  Width,       \* of a register, in bits
  Fields       \* the masks of the fields of control, disjoint intervals of bits

VARIABLES
  control,
  status,
  writeOne,    \* whether the status flags are cleared by writing 1, or 0
  fields,      \* ghost: for each field, the value it was given
  raised       \* ghost: the flags raised and not cleared

registerVars == <<control, status, writeOne, fields, raised>>

Bits == 0 .. Width - 1

-----------------------------------------------------------------------------
(* Operations on values, of a mask that is not empty.                      *)

countr_zero(mask) == CHOOSE b \in mask : \A c \in mask : b <= c
ShiftLeft(value, n) == {b + n : b \in value}
ShiftRight(reg, n) == {b - n : b \in {c \in reg : c >= n}}

\* x & (x + 1) is 0 when the bits of x are the lowest ones.
is_contiguous_mask(mask) ==
  LET x == ShiftRight(mask, countr_zero(mask)) IN x = 0 .. Cardinality(x) - 1

read(reg, mask) == ShiftRight(reg \cap mask, countr_zero(mask))
test_any(reg, mask) == reg \cap mask # {}
test_all(reg, mask) == reg \cap mask = mask

\* Faulty Encoded: a value too large for its field runs into the next one.
EncodedUnmasked(mask, value) == ShiftLeft(value, countr_zero(mask))

\* The value in the place of the field: of write, and of struct bits.
Encoded(mask, value) == ShiftLeft(value, countr_zero(mask)) \cap mask

Toggled(reg, mask) == (reg \ mask) \cup (mask \ reg)

-----------------------------------------------------------------------------
Init ==
  /\ control = {} /\ status = {}
  /\ writeOne \in BOOLEAN
  /\ fields = [f \in Fields |-> {}]
  /\ raised = {}

\* What a field keeps of a value: as many bits as it has.
Kept(f, value) == {b \in value : b < Cardinality(f)}

write(f, value) ==
  /\ control' = (control \ f) \cup Encoded(f, value)
  /\ fields' = [fields EXCEPT ![f] = Kept(f, value)]
  /\ UNCHANGED <<status, writeOne, raised>>

\* Two fields at once; overlapping masks do not compile.
modify(f, value, g, other) ==
  /\ f \cap g = {}
  /\ control' = (control \ (f \cup g)) \cup (Encoded(f, value) \cup Encoded(g, other))
  /\ fields' = [fields EXCEPT ![f] = Kept(f, value), ![g] = Kept(g, other)]
  /\ UNCHANGED <<status, writeOne, raised>>

Low(f, mask) == {b - countr_zero(f) : b \in f \cap mask}

set(mask) ==
  /\ control' = control \cup mask
  /\ fields' = [f \in Fields |-> fields[f] \cup Low(f, mask)]
  /\ UNCHANGED <<status, writeOne, raised>>

clear(mask) ==
  /\ control' = control \ mask
  /\ fields' = [f \in Fields |-> fields[f] \ Low(f, mask)]
  /\ UNCHANGED <<status, writeOne, raised>>

set_or_clear(mask, cond) == IF cond THEN set(mask) ELSE clear(mask)

toggle(mask) ==
  /\ control' = Toggled(control, mask)
  /\ fields' = [f \in Fields |-> Toggled(fields[f], Low(f, mask))]
  /\ UNCHANGED <<status, writeOne, raised>>

\* The hardware: a write of the status register clears flags.
Written(value) == IF writeOne THEN status \ value ELSE status \cap value

clear_w1(mask) ==
  /\ writeOne
  /\ status' = Written(mask)
  /\ raised' = raised \ mask
  /\ UNCHANGED <<control, writeOne, fields>>

clear_w0(mask) ==
  /\ ~writeOne
  /\ status' = Written(Bits \ mask)
  /\ raised' = raised \ mask
  /\ UNCHANGED <<control, writeOne, fields>>

Raise(flag) ==
  /\ status' = status \cup {flag}
  /\ raised' = raised \cup {flag}
  /\ UNCHANGED <<control, writeOne, fields>>

Masks == (SUBSET Bits) \ {{}}

Next ==
  \/ \E f \in Fields, value \in SUBSET Bits : write(f, value)
  \/ \E f, g \in Fields, value, other \in SUBSET Bits : modify(f, value, g, other)
  \/ \E mask \in Masks :
       \/ \E cond \in BOOLEAN : set_or_clear(mask, cond)
       \/ toggle(mask)
       \/ clear_w1(mask) \/ clear_w0(mask)
  \/ \E flag \in Bits : Raise(flag)

Spec == Init /\ [][Next]_registerVars

-----------------------------------------------------------------------------
\* A field reads as the value it was given, cut to its width, whatever was written to
\* its neighbours; a flag the hardware raised stays until it is cleared itself,
\* and goes then (write, modify, set, clear, toggle, clear_w1, clear_w0).
FieldsAndFlagsKept ==
  /\ \A f \in Fields :
       /\ is_contiguous_mask(f)
       /\ read(control, f) = fields[f]
       /\ test_any(control, f) <=> fields[f] # {}
       /\ test_all(control, f) <=> Cardinality(fields[f]) = Cardinality(f)
  /\ status = raised
=============================================================================
