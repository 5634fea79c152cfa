------------------------------ MODULE SdoServer ------------------------------
(***************************************************************************)
(* emb::can::canopen::detail::sdo_server: expedited reads and writes of an *)
(* object dictionary.  Requests are handled when they are taken from the   *)
(* receive queue; responses wait in tsdo_queue_ until the bus takes them.  *)
(*                                                                         *)
(* The four bytes of SDO data are abstracted to a pair: the byte an 8-bit  *)
(* type uses, and the other three.                                         *)
(***************************************************************************)
EXTENDS Integers, Sequences, SequencesExt

CONSTANTS
  Dictionary,  \* the entries, in the order they are registered
  Variables,   \* Variables[v]: the type of variable v
  RestoreKey,  \* restore_default_parameter_key
  Bytes,       \* the values of either part of the data; 0 is one
  Capacity,    \* tsdo_queue_capacity
  Windows      \* how many requests a client leaves unanswered

Raw == Bytes \X Bytes
Types == {"boolean", "uint8", "uint32", "float32", "exec", "string"}
AccessRights == {"rw", "ro", "wo", "const"}

VARIABLES
  dictionary, \* dictionary_: sorted when the server is made
  store,      \* what the variables hold
  tsdo,       \* tsdo_queue_
  window,     \* how many requests this client leaves unanswered
  lost        \* how many responses that it awaits there was no room for

vars == <<dictionary, store, tsdo, window, lost>>

\* operator< and operator== of od_entry and od_key.
Before(k, m) == k[1] < m[1] \/ (k[1] = m[1] /\ k[2] < m[2])

None == [cs |-> "none"]

-----------------------------------------------------------------------------
(* The values of the dictionary: the alternative an od_value holds, and    *)
(* its bytes.                                                              *)

\* make_od_value
MakeValue(raw, type) ==
  CASE type = "boolean" -> [of |-> "boolean", bytes |-> <<IF raw[1] # 0 THEN 1 ELSE 0, 0>>]
    [] type = "uint8" -> [of |-> "uint8", bytes |-> <<raw[1], 0>>]
    [] type \in {"uint32", "exec"} -> [of |-> "uint32", bytes |-> raw]
    [] type = "float32" -> [of |-> "float32", bytes |-> raw]
    [] type = "string" -> [of |-> "uint32", bytes |-> <<0, 0>>]

OdValues == {MakeValue(raw, type) : raw \in Raw, type \in Types}

\* od_data_type_sizes
Size(type) == IF type \in {"boolean", "uint8"} THEN 1 ELSE 4

\* std::lower_bound: what is left, after one comparison, of the entries from r.lo to
\* before r.hi, and where that ends.
Halved(r, key, d) ==
  LET mid == r.lo + (r.hi - r.lo) \div 2
  IN  IF Before(d[mid].key, key) THEN [lo |-> mid + 1, hi |-> r.hi]
                                 ELSE [lo |-> r.lo, hi |-> mid]

LowerBound(key, d) ==
  LET Places == 1 .. Len(d) + 1
      bound[r \in [lo : Places, hi : Places]] ==
        IF r.lo >= r.hi THEN r.lo ELSE bound[Halved(r, key, d)]
  IN  bound[[lo |-> 1, hi |-> Len(d) + 1]]

\* find: no entries, or the one.
Find(key) ==
  LET i == LowerBound(key, dictionary)
  IN  IF i \in DOMAIN dictionary /\ dictionary[i].key = key THEN {dictionary[i]} ELSE {}

-----------------------------------------------------------------------------
(* What a request does to the variables, and what it is answered.          *)

Outcome(response, after) == [response |-> response, store |-> after]
Done(r, after) == Outcome([cs |-> "write", key |-> r.key], after)
Refused(r, code, held) == Outcome([cs |-> "abort", key |-> r.key, code |-> code], held)

\* has_write_permission, has_read_permission.  Faulty WritableUnlessRo: constant
\* entries are forgotten.
WritableUnlessRo(e) == e.access \notin {"ro"}
Writable(e) == e.access \in {"rw", "wo"}
Readable(e) == e.access # "wo"

\* Faulty WriteUnlessSame: a write of what is there already is an error.
WriteUnlessSame(r, e, value, held) ==
  IF e.var \notin DOMAIN held \/ held[e.var] = value.bytes
    THEN Refused(r, "unsupported_access", held)
  ELSE IF Variables[e.var] # value.of THEN Refused(r, "data_type_mismatch", held)
  ELSE Done(r, [held EXCEPT ![e.var] = value.bytes])

\* obj.write: od_write_var, or od_no_write; the alternative is looked at before
\* the bytes are copied.
Write(r, e, value, held) ==
  IF e.var \notin DOMAIN held THEN Refused(r, "unsupported_access", held)
  ELSE IF Variables[e.var] # value.of THEN Refused(r, "data_type_mismatch", held)
  ELSE Done(r, [held EXCEPT ![e.var] = value.bytes])

ReadExpedited(r, e, held) ==
  IF ~Readable(e) THEN Refused(r, "read_from_write_only", held)
  ELSE IF e.var \notin DOMAIN held THEN Refused(r, "unsupported_access", held)
  ELSE Outcome([cs |-> "read", key |-> r.key, data |-> held[e.var],
                empty |-> (4 - Size(e.type)) % 4], held)

WriteExpedited(r, e, held) ==
  IF ~Writable(e) THEN Refused(r, "write_to_read_only", held)
  ELSE Write(r, e, MakeValue(r.data, e.type), held)

\* Faulty RestoreAsValue: the data is taken for the value.
RestoreAsValue(r, held) ==
  LET found == Find(r.data)
      e == CHOOSE x \in found : TRUE
  IN  IF found = {} THEN Refused(r, "object_not_found", held)
      ELSE IF ~Writable(e) THEN Refused(r, "write_to_read_only", held)
      ELSE Write(r, e, MakeValue(r.data, e.type), held)

\* The data is the key of the parameter to restore.
WriteRestoreDefault(r, held) ==
  LET found == Find(r.data)
      e == CHOOSE x \in found : TRUE
  IN  IF found = {} THEN Refused(r, "object_not_found", held)
      ELSE IF ~Writable(e) THEN Refused(r, "write_to_read_only", held)
      ELSE IF e.default = None THEN Refused(r, "no_data_available", held)
      ELSE Write(r, e, e.default, held)

\* Request r, when the variables hold what they do in held.
Handled(r, held) ==
  LET found == Find(r.key)
      e == CHOOSE x \in found : TRUE
  IN  IF r.cs = "write" /\ r.key = RestoreKey THEN WriteRestoreDefault(r, held)
      ELSE IF found = {} THEN Refused(r, "object_not_found", held)
      ELSE IF r.cs = "read" THEN ReadExpedited(r, e, held)
      ELSE IF r.cs = "write" THEN WriteExpedited(r, e, held)
      ELSE Refused(r, "invalid_cs", held)

-----------------------------------------------------------------------------
Keys == {Dictionary[i].key : i \in DOMAIN Dictionary}
AllKeys == Keys \cup {RestoreKey, <<RestoreKey[1] + 1, 0>>}

Requests ==
  [cs : {"read"}, key : AllKeys]
    \cup [cs : {"block"}, key : Keys]
    \cup [cs : {"write"}, key : AllKeys \ {RestoreKey}, data : Raw]
    \cup [cs : {"write"}, key : {RestoreKey}, data : AllKeys]

\* std::sort, of entries no two of which have the same key.
Sorted(d) == \A i, j \in DOMAIN d : i < j => Before(d[i].key, d[j].key)

Init ==
  /\ dictionary \in [DOMAIN Dictionary -> Range(Dictionary)]
  /\ Sorted(dictionary) /\ Range(dictionary) = Range(Dictionary)
  /\ store = [v \in DOMAIN Variables |-> <<0, 0>>]
  /\ tsdo = <<>>
  /\ window \in Windows
  /\ lost = 0

\* Faulty HandleUnlessFull: one place in the queue is left empty.
HandleUnlessFull(r) ==
  /\ Len(tsdo) + lost < window
  /\ store' = Handled(r, store).store
  /\ IF Len(tsdo) + 1 < Capacity
       THEN tsdo' = Append(tsdo, Handled(r, store).response) /\ lost' = lost
       ELSE lost' = lost + 1 /\ tsdo' = tsdo
  /\ UNCHANGED <<dictionary, window>>

\* try_handle, of a request of the client that sends one when not too many of its
\* requests are unanswered.  An abort of the client is taken and not answered: it
\* changes nothing.
Handle(r) ==
  /\ Len(tsdo) + lost < window
  /\ store' = Handled(r, store).store
  /\ IF Len(tsdo) < Capacity
       THEN tsdo' = Append(tsdo, Handled(r, store).response) /\ lost' = lost
       ELSE lost' = lost + 1 /\ tsdo' = tsdo
  /\ UNCHANGED <<dictionary, window>>

\* drain: the bus takes any number of the responses, one at a time.
Drain == tsdo # <<>> /\ tsdo' = Tail(tsdo) /\ UNCHANGED <<dictionary, store, window, lost>>

\* The client no longer waits for the responses that were dropped.
GiveUp == lost > 0 /\ lost' = 0 /\ UNCHANGED <<dictionary, store, tsdo, window>>

Next == (\E r \in Requests : Handle(r)) \/ Drain \/ GiveUp

Spec == Init /\ [][Next]_vars

-----------------------------------------------------------------------------
\* The type invariant: the queue is within its capacity, and what a variable holds
\* is of its type, so that no write puts bytes where a read of the variable does
\* not expect them (make_od_value, od_write_var).
TypeOK ==
  /\ store \in [DOMAIN Variables -> Raw]
  /\ \A v \in DOMAIN Variables :
       /\ Variables[v] = "boolean" => store[v] \in {<<0, 0>>, <<1, 0>>}
       /\ Variables[v] = "uint8" => store[v][2] = 0
  /\ Len(tsdo) <= Capacity
  /\ window \in Windows /\ lost \in 0 .. window

\* Every entry is found by its key, and by no other (init_dictionary, find).
EveryEntryFound ==
  \A k \in AllKeys : Find(k) = {e \in Range(Dictionary) : e.key = k}

\* A client that leaves no more requests unanswered than the queue has room for
\* has every one of them answered (tsdo_queue_).
PatientClientAnswered == window <= Capacity => lost = 0

\* A write that is acknowledged is seen: reading the entry returns the data, cut
\* to the type the entry declares, and reading a restored entry its default, whether
\* or not there was room for the acknowledgement; whatever was written before, a
\* variable holds what is of its type (write_expedited, write_restore_default,
\* read_expedited).
AcknowledgedWriteReadsBack ==
  /\ TypeOK
  /\ \A r \in Requests : Handled(r, store).response.cs = "write" =>
    LET key == IF r.key = RestoreKey THEN r.data ELSE r.key
        e == CHOOSE x \in Range(Dictionary) : x.key = key
        value == IF r.key = RestoreKey THEN e.default ELSE MakeValue(r.data, e.type)
        answer == Handled([cs |-> "read", key |-> key], Handled(r, store).store).response
    IN  Readable(e) => answer.cs = "read" /\ answer.data = value.bytes

\* A request sent again, because its response was lost or late, changes nothing
\* more and is answered alike (try_handle).
RetryChangesNothing ==
  \A r \in Requests : Handled(r, Handled(r, store).store) = Handled(r, store)

\* A variable changes only by a request that is acknowledged as a write, and only
\* if an entry that may be written names it, for the entry that is found is the
\* one whose key the request has (has_write_permission, find).
OnlyPermittedWrites ==
  /\ EveryEntryFound
  /\ \A r \in Requests : LET o == Handled(r, store) IN
    \A v \in DOMAIN Variables : o.store[v] # store[v] =>
      /\ o.response.cs = "write"
      /\ \E e \in Range(Dictionary) :
           /\ e.var = v /\ e.access \in {"rw", "wo"}
           /\ e.key = IF r.key = RestoreKey THEN r.data ELSE r.key
=============================================================================
