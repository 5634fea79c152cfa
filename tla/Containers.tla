----------------------------- MODULE Containers -----------------------------
(***************************************************************************)
(* Objects of one of emb's containers, used from one context: any sequence *)
(* of calls that keeps the preconditions (ASSUME in the code), on objects  *)
(* that are copied and moved into each other and into themselves.          *)
(*                                                                         *)
(* For a T that is not trivially copyable the values are constructed and   *)
(* destroyed one by one; for one that is, the compiler copies an object as *)
(* it is, and a move leaves its source unchanged.                          *)
(***************************************************************************)
EXTENDS Naturals, Sequences

CONSTANTS Objects, Values, Capacity, NoValue, MovedFrom, Nothing

\* The union's other member is no T, and a slot moved out of can be told from both.
ASSUME ContainersAssumption ==
  /\ Capacity \in Nat \ {0}
  /\ NoValue \notin Values /\ MovedFrom \notin Values /\ MovedFrom # NoValue

VARIABLES
  kind,        \* the class of the objects
  trivial,     \* T is trivially copyable
  obj,         \* the objects: slots, front_, size_
  op           \* the last operation, as in BoundedSequences

vars == <<kind, trivial, obj, op>>

S  == INSTANCE ContainerSlots
CB == INSTANCE CircularBuffer
IQ == INSTANCE InplaceQueue
IS == INSTANCE InplaceStack
IV == INSTANCE InplaceVector

Init ==
  /\ kind \in {"circular_buffer", "inplace_queue", "inplace_stack", "inplace_vector"}
  /\ trivial \in BOOLEAN
  /\ obj = [o \in Objects |-> S!Fresh]
  /\ op = [name |-> "construct", on |-> Nothing, arg |-> Nothing, result |-> Nothing]

Report(name, o, arg, result) ==
  op' = [name |-> name, on |-> o, arg |-> arg, result |-> result]

\* The operation name leaves object o as c.
Do(name, o, arg, c) ==
  /\ obj' = [obj EXCEPT ![o] = c]
  /\ Report(name, o, arg, Nothing)

\* It takes a value out of the object.
Take(name, o, value, c) ==
  /\ ~S!empty(obj[o])
  /\ obj' = [obj EXCEPT ![o] = c]
  /\ Report(name, o, Nothing, value)

\* The element number i, counted from 1, reads as value.
Read(o, i, value) ==
  /\ i \in 1 .. obj[o].size
  /\ Report("read", o, i, value)
  /\ UNCHANGED obj

try_push_full(o) ==
  /\ S!full(obj[o])
  /\ Report("refused", o, "push", Nothing)
  /\ UNCHANGED obj

try_pop_empty(o) ==
  /\ S!empty(obj[o])
  /\ Report("refused", o, "pop", Nothing)
  /\ UNCHANGED obj

\* The push of a queue, a stack or a vector, and every try_push.
Push(name, o, v, c) == ~S!full(obj[o]) /\ Do(name, o, v, c)

-----------------------------------------------------------------------------
CircularBufferStep(o) ==
  LET c == obj[o] IN
  /\ kind = "circular_buffer"
  /\ \/ \E v \in Values :
          \/ Do("overwrite_back", o, v, CB!write_back_with(c, v))
          \/ Do("overwrite_front", o, v, CB!write_front_with(c, v))
          \/ Push("push_back", o, v, CB!write_back_with(c, v))
          \/ Push("push_front", o, v, CB!write_front_with(c, v))
          \/ Do("fill", o, v, CB!fill(c, v))
     \/ Take("pop_front", o, CB!front(c), CB!pop_front(c))
     \/ Take("pop_back", o, CB!back(c), CB!pop_back(c))
     \/ \E i \in 1 .. Capacity : Read(o, i, CB!at(c, i - 1))
     \/ Do("clear", o, Nothing, CB!clear(c))

InplaceQueueStep(o) ==
  LET c == obj[o] IN
  /\ kind = "inplace_queue"
  /\ \/ \E v \in Values : Push("push_back", o, v, IQ!emplace(c, v))
     \/ Take("pop_front", o, IQ!front(c), IQ!pop(c))
     \/ Read(o, c.size, IQ!back(c))
     \/ Do("clear", o, Nothing, IQ!clear(c))

InplaceStackStep(o) ==
  LET c == obj[o] IN
  /\ kind = "inplace_stack"
  /\ \/ \E v \in Values : Push("push_back", o, v, IS!emplace(c, v))
     \/ Take("pop_back", o, IS!top(c), IS!pop(c))
     \/ Do("clear", o, Nothing, IS!clear(c))

InplaceVectorStep(o) ==
  LET c == obj[o] IN
  /\ kind = "inplace_vector"
  /\ \/ \E v \in Values : Push("push_back", o, v, IV!emplace_back(c, v))
     \/ Take("pop_back", o, IV!back(c), IV!pop_back(c))
     \/ Read(o, 1, IV!front(c))
     \/ \E i \in 1 .. Capacity : Read(o, i, IV!at(c, i - 1))
     \/ Do("clear", o, Nothing, IV!clear(c))

-----------------------------------------------------------------------------
(* Copies and moves: clear the target, then construct it from the source.  *)

Assigned(c, other) ==
  CASE kind = "circular_buffer" -> CB!assigned(c, other)
    [] kind = "inplace_queue"   -> IQ!assigned(c, other)
    [] kind = "inplace_stack"   -> IS!assigned(c, other)
    [] kind = "inplace_vector"  -> IV!assigned(c, other)

LeftBehind(other) ==
  CASE kind = "circular_buffer" -> CB!moved_from(other)
    [] kind = "inplace_queue"   -> IQ!moved_from(other)
    [] kind = "inplace_stack"   -> IS!moved_from(other)
    [] kind = "inplace_vector"  -> IV!moved_from(other)

\* An object assigned to itself is left alone.
Copy(o, p) ==
  /\ obj' = IF o = p THEN obj
            ELSE [obj EXCEPT ![o] = IF trivial THEN obj[p] ELSE Assigned(@, obj[p])]
  /\ Report("copy", o, p, Nothing)

Move(o, p) ==
  /\ obj' = IF o = p THEN obj
            ELSE IF trivial THEN [obj EXCEPT ![o] = obj[p]]
            ELSE [obj EXCEPT ![o] = Assigned(@, obj[p]), ![p] = LeftBehind(@)]
  /\ Report("move", o, p, Nothing)

Next ==
  /\ \E o \in Objects :
       \/ CircularBufferStep(o)
       \/ InplaceQueueStep(o)
       \/ InplaceStackStep(o)
       \/ InplaceVectorStep(o)
       \/ try_push_full(o)
       \/ try_pop_empty(o)
       \/ \E p \in Objects : Copy(o, p) \/ Move(o, p)
  /\ UNCHANGED <<kind, trivial>>

Spec == Init /\ [][Next]_vars

-----------------------------------------------------------------------------
Content(c) ==
  CASE kind = "circular_buffer" -> CB!Content(c)
    [] kind = "inplace_queue"   -> IQ!Content(c)
    [] kind = "inplace_stack"   -> IS!Content(c)
    [] kind = "inplace_vector"  -> IV!Content(c)

\* Where the values are: the window that front_ and size_ name, and nowhere else.
Occupied(c) == {(c.front + i) % Capacity : i \in 0 .. c.size - 1}

TypeOK ==
  \A o \in Objects :
    /\ obj[o].front \in S!Slots /\ obj[o].size \in 0 .. Capacity
    /\ \A i \in S!Slots : IF i \in Occupied(obj[o]) THEN obj[o].data[i] \in Values
                                                   ELSE obj[o].data[i] = NoValue

Seqs == INSTANCE BoundedSequences WITH
                seq <- [o \in Objects |-> Content(obj[o])],
                sound <- [o \in Objects |-> obj[o].sound]

\* Every operation of every container has the effect and the result that the
\* same operation has on a sequence of at most Capacity values; and a value lives
\* exactly in the occupied slots: nothing leaks, nothing is destroyed twice and
\* no operation finds a slot empty that it reads, however front_ wraps around.
ContainersImplementSequences == []TypeOK /\ Seqs!Spec
=============================================================================
