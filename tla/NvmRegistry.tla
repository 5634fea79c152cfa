----------------------------- MODULE NvmRegistry -----------------------------
(***************************************************************************)
(* emb::nvm: a layout of named parameters, each kept in the storage as a   *)
(* frame of its name's hash, its value and the CRC of both, and the        *)
(* registry that reads and writes the frames.                              *)
(*                                                                         *)
(* The storage is kept byte by byte.  A step is one write to it, which may *)
(* fail, or the power may go, when any of its bytes have been written.  A  *)
(* byte of a hash or of a CRC names what it is a byte of: hashes of two    *)
(* names (names_unique refuses a collision) and CRCs of two frames are     *)
(* taken to differ in every byte, and from any byte of a value.            *)
(***************************************************************************)
EXTENDS Integers, SequencesExt

CONSTANTS
  Layouts,      \* the layout, and that of the next firmware: sequences of names
  ValuesOf,     \* the values of a parameter, sequences of sizeof(value_type) bytes
  default_value,
  HashSize, CrcSize,  \* sizeof(hash_type), sizeof(crc_type)
  Blank,        \* bytes that an unused storage may hold
  Zero          \* the byte 0

VARIABLES
  layout,      \* the layout of the firmware that runs
  memory,      \* the storage
  call,        \* "set", for reset too, "reset_all" or "erase"; or "none"
  todo,        \* the parameters it has still to write
  value,       \* what it writes to the first of them
  field,       \* where in the frame its next write goes
  erased,      \* how many bytes erase has written
  candidates,  \* ghost, for each parameter: the values a get may return
  intact       \* ghost: the parameters set since anything else touched them

callVars == <<call, todo, value, field, erased>>
ghostVars == <<candidates, intact>>
nvmVars == <<layout, memory, callVars, ghostVars>>

-----------------------------------------------------------------------------
(* The layout.                                                             *)

Firmwares == ToSet(Layouts)
Names == UNION {ToSet(l) : l \in Firmwares}
Frames(l) == ToSet(l)

sizes(p) == Len(default_value[p])
overhead == HashSize + CrcSize
index_of(l, p) == CHOOSE i \in DOMAIN l : l[i] = p

\* Faulty offset_of: the frames in front are taken to end with their values.
offset_without_crc(l, p) ==
  LET off[i \in 0 .. Len(l)] == IF i = 0 THEN 0 ELSE off[i - 1] + sizes(l[i]) + HashSize
  IN  off[index_of(l, p) - 1]

\* Where the frames end, summed up from the first one on.  The base is 0.
Ends(l) ==
  LET off[i \in 0 .. Len(l)] == IF i = 0 THEN 0 ELSE off[i - 1] + sizes(l[i]) + overhead
  IN  off

offset_of(l, p) == Ends(l)[index_of(l, p) - 1]
size(l) == Ends(l)[Len(l)]

hash(p) == [i \in 1 .. HashSize |-> <<"hash", p, i>>]
crc(p, v) == [i \in 1 .. CrcSize |-> <<"crc", p, v, i>>]

hash_loc(p) == offset_of(layout, p)
val_loc(p) == hash_loc(p) + HashSize
crc_loc(p) == val_loc(p) + sizes(p)

-----------------------------------------------------------------------------
(* get.  It changes nothing; when a read fails it returns that error.      *)

read(loc, n) == [i \in 1 .. n |-> memory[loc + i - 1]]

get(p) ==
  LET val == read(val_loc(p), sizes(p)) IN
  IF read(hash_loc(p), HashSize) # hash(p) THEN [error |-> "hash_mismatch"]
  ELSE IF read(crc_loc(p), CrcSize) # crc(p, val) THEN [error |-> "crc_mismatch"]
  ELSE [value |-> val]

-----------------------------------------------------------------------------
(* set, reset, reset_all, erase.                                           *)

Init ==
  /\ layout = Layouts[1]
  /\ \E b \in Blank :
       memory = [a \in 0 .. size(Layouts[Len(Layouts)]) - 1 |-> b]
  /\ call = "none" /\ todo = <<>> /\ value = <<>> /\ field = "hash" /\ erased = 0
  /\ candidates = [p \in Names |-> {}]
  /\ intact = {}

set(p, val) ==
  /\ call = "none"
  /\ call' = "set" /\ todo' = <<p>> /\ value' = val
  /\ UNCHANGED <<layout, memory, field, erased, ghostVars>>

reset(p) == set(p, default_value[p])

reset_all ==
  /\ call = "none"
  /\ call' = "reset_all" /\ todo' = layout /\ value' = default_value[layout[1]]
  /\ UNCHANGED <<layout, memory, field, erased, ghostVars>>

erase ==
  /\ call = "none"
  /\ call' = "erase"
  /\ UNCHANGED <<layout, memory, todo, value, field, erased, ghostVars>>

\* The write of a set: where, and what.
loc == CASE field = "hash" -> hash_loc(todo[1])
         [] field = "value" -> val_loc(todo[1])
         [] field = "crc" -> crc_loc(todo[1])
bytes == CASE field = "hash" -> hash(todo[1])
           [] field = "value" -> value
           [] field = "crc" -> crc(todo[1], value)

\* The storage after those of the bytes were written to loc.
Written(done) ==
  [a \in DOMAIN memory |-> IF a - loc + 1 \in done THEN bytes[a - loc + 1] ELSE memory[a]]

\* Writing a hash again changes nothing; from the value on, the old one is gone.
Touched ==
  IF field = "hash" THEN UNCHANGED ghostVars
  ELSE /\ candidates' = [candidates EXCEPT ![todo[1]] = @ \cup {value}]
       /\ intact' = intact \ {todo[1]}

WriteField ==
  /\ todo # <<>> /\ field # "crc"
  /\ memory' = Written(DOMAIN bytes)
  /\ field' = IF field = "hash" THEN "value" ELSE "crc"
  /\ Touched
  /\ UNCHANGED <<layout, call, todo, value, erased>>

\* The last write of a frame; reset_all goes on with the next parameter.
WriteCrc ==
  /\ todo # <<>> /\ field = "crc"
  /\ memory' = Written(DOMAIN bytes)
  /\ field' = "hash"
  /\ todo' = Tail(todo)
  /\ value' = IF todo' = <<>> THEN <<>> ELSE default_value[todo'[1]]
  /\ call' = IF todo' = <<>> THEN "none" ELSE call
  /\ candidates' = [candidates EXCEPT ![todo[1]] = {value}]
  /\ intact' = intact \cup {todo[1]}
  /\ UNCHANGED <<layout, erased>>

\* One byte; after the last one nothing is left of any parameter.
EraseByte ==
  /\ call = "erase"
  /\ memory' = [memory EXCEPT ![erased] = Zero]
  /\ intact' = {p \in intact : erased \notin hash_loc(p) .. crc_loc(p) + CrcSize - 1}
  /\ erased' = IF erased + 1 < size(layout) THEN erased + 1 ELSE 0
  /\ call' = IF erased' = 0 THEN "none" ELSE call
  /\ candidates' = IF erased' = 0 THEN [p \in Names |-> {}] ELSE candidates
  /\ UNCHANGED <<layout, todo, value, field>>

\* A write that fails, whichever bytes it wrote, ends the call with its error,
\* reset_all too; so does the power, and the parameters are as they are.
Interrupted ==
  /\ call # "none"
  /\ \/ /\ todo # <<>>
        /\ \E done \in SUBSET DOMAIN bytes : memory' = Written(done)
        /\ Touched
     \/ /\ call = "erase"
        /\ UNCHANGED <<memory, ghostVars>>
  /\ call' = "none" /\ todo' = <<>> /\ value' = <<>> /\ field' = "hash" /\ erased' = 0
  /\ UNCHANGED layout

\* The device is given the next firmware: the parameters that keep their place
\* keep their value.
Update ==
  /\ call = "none"
  /\ \E next \in Firmwares \ {layout} :
       /\ layout = Layouts[1]
       /\ layout' = next
       /\ intact' = {p \in intact \cap Frames(next) : offset_of(next, p) = hash_loc(p)}
  /\ UNCHANGED <<memory, callVars, candidates>>

Call ==
  \/ \E p \in Frames(layout) : reset(p) \/ \E val \in ValuesOf[p] : set(p, val)
  \/ reset_all
  \/ erase

Next == Call \/ WriteField \/ WriteCrc \/ EraseByte \/ Interrupted \/ Update

Spec == Init /\ [][Next]_nvmVars

-----------------------------------------------------------------------------
\* What a byte of the storage may be: of an unused storage or of a value, of the
\* hash of a name, or of the CRC of a value.
Settable(p) == ValuesOf[p] \cup {default_value[p]}
Plain == Blank \cup (UNION {UNION {ToSet(v) : v \in Settable(p)} : p \in Names})
Bytes == Plain \cup (UNION {ToSet(hash(p)) : p \in Names})
               \cup (UNION {UNION {ToSet(crc(p, v)) : v \in Settable(p)} : p \in Names})

-----------------------------------------------------------------------------
\* A parameter that was set (or reset) reads back, whatever happened to the others,
\* the storage of other parameters and of other layouts included; and a get never
\* makes up a value: it returns the one that was set last, or one that a set cut
\* short since then was writing, and an error after an erase, in place of a
\* mixture of two, or of the frame of another parameter (get, set, offset_of).
GetReturnsWhatWasSet ==
  \A p \in Frames(layout) :
    /\ p \in intact => get(p) = [value |-> CHOOSE v \in candidates[p] : TRUE]
    /\ "value" \in DOMAIN get(p) => get(p).value \in candidates[p]
=============================================================================
