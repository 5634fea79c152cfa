-------------------------- MODULE BoundedSequences --------------------------
(***************************************************************************)
(* What a container of emb promises: an object of it is a sequence of at   *)
(* most Capacity values, and an operation does to it, and reports, what    *)
(* its name says.  op is the last operation: the step that does it must    *)
(* have its effect.  No operation reads, destroys or overwrites a value    *)
(* that is not there, so that sound never changes.                         *)
(***************************************************************************)
EXTENDS Naturals, Sequences

CONSTANTS
  Objects,     \* the containers that may be assigned to each other
  Capacity,
  Nothing      \* the result of an operation that reports no value

VARIABLES
  seq,         \* what each object holds, front to back
  trivial,     \* T is trivially copyable: a move is a copy
  sound,       \* every object handled the lifetimes of its slots correctly
  op           \* the last operation, [name, on, arg, result]

vars == <<seq, trivial, sound, op>>

Full(s) == Len(s) = Capacity
ButLast(s) == SubSeq(s, 1, Len(s) - 1)

\* The operations that change the one object they are called on.
After(name, s, v) ==
  CASE name = "push_back"      -> Append(s, v)
    [] name = "push_front"     -> <<v>> \o s
    [] name = "overwrite_back" -> Append(IF Full(s) THEN Tail(s) ELSE s, v)
    [] name = "overwrite_front" -> <<v>> \o (IF Full(s) THEN ButLast(s) ELSE s)
    [] name = "pop_front"      -> Tail(s)
    [] name = "pop_back"       -> ButLast(s)
    [] name = "fill"           -> [i \in 1 .. Capacity |-> v]
    [] name = "clear"          -> <<>>
    [] name = "read"           -> s

\* What they report: a try_ operation a success or a value, a read its element.
Reported(name, s, v) ==
  CASE name \in {"pop_front"} -> Head(s)
    [] name \in {"pop_back"}  -> s[Len(s)]
    [] name = "read"          -> s[v]
    [] OTHER                  -> Nothing

Init ==
  /\ seq = [o \in Objects |-> <<>>]
  /\ trivial \in BOOLEAN
  /\ sound = [o \in Objects |-> TRUE]
  /\ op.name = "construct"

Change ==
  LET o == op'.on IN
  /\ op'.name \notin {"construct", "copy", "move", "refused"}
  /\ op'.name \in {"push_back", "push_front"} => ~Full(seq[o])
  /\ op'.name \in {"pop_front", "pop_back", "read"} => seq[o] # <<>>
  /\ seq' = [seq EXCEPT ![o] = After(op'.name, @, op'.arg)]
  /\ op'.result = Reported(op'.name, seq[o], op'.arg)

\* A try_push into a full container, a try_pop from an empty one.
Refuse ==
  /\ op'.name = "refused"
  /\ IF op'.arg = "push" THEN Full(seq[op'.on]) ELSE seq[op'.on] = <<>>
  /\ UNCHANGED seq

\* Assignment or construction from another object, op'.arg.
Copy ==
  /\ op'.name = "copy"
  /\ seq' = [seq EXCEPT ![op'.on] = seq[op'.arg]]

Move ==
  /\ op'.name = "move"
  /\ seq' = [seq EXCEPT ![op'.on] = seq[op'.arg],
                        ![op'.arg] = IF trivial \/ op'.on = op'.arg THEN @ ELSE <<>>]

Next ==
  /\ Change \/ Refuse \/ Copy \/ Move
  /\ UNCHANGED <<trivial, sound>>

Spec == Init /\ [][Next]_vars
=============================================================================
