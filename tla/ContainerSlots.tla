--------------------------- MODULE ContainerSlots ---------------------------
(***************************************************************************)
(* The storage of emb's containers: an array of unions, of which a value   *)
(* is constructed and destroyed by hand.  An object is a record of its     *)
(* slots, front_ and size_; sound turns FALSE for good when a slot is      *)
(* constructed that holds a value, or one destroyed or read that holds     *)
(* none.  stack and vector have no front_: theirs is 0.                    *)
(***************************************************************************)
EXTENDS Naturals

CONSTANTS
  Capacity,
  NoValue,     \* the union's other member
  MovedFrom    \* a value that was moved out of its slot, and not yet destroyed

Slots == 0 .. Capacity - 1

Fresh == [data |-> [i \in Slots |-> NoValue], front |-> 0, size |-> 0, sound |-> TRUE]

empty(c) == c.size = 0
full(c) == c.size = Capacity
slot_ptr(c, i) == c.data[i]

Live(c, i) == slot_ptr(c, i) # NoValue
Readable(c, i) == slot_ptr(c, i) \notin {NoValue, MovedFrom}

construct_at(c, i, v) ==
  [c EXCEPT !.data[i] = v, !.sound = @ /\ ~Live(c, i)]

destroy_slot(c, i) ==
  [c EXCEPT !.data[i] = NoValue, !.sound = @ /\ Live(c, i)]

\* A loop that destroys the slots in S, each once.
DestroyAll(c, S) ==
  [c EXCEPT !.data = [i \in Slots |-> IF i \in S THEN NoValue ELSE @[i]],
            !.sound = @ /\ \A i \in S : Live(c, i)]

\* Construct the first slots of c from the n values that At names in other.
ConstructFrom(c, other, n, At(_)) ==
  [c EXCEPT
     !.data = [i \in Slots |-> IF i < n THEN slot_ptr(other, At(i)) ELSE @[i]],
     !.size = @ + n,
     !.sound = /\ @
               /\ \A i \in 0 .. n - 1 : ~Live(c, i) /\ Readable(other, At(i))]

\* The same loop moves the values out.
MovedOut(other, n, At(_)) ==
  [other EXCEPT
     !.data = [i \in Slots |->
                 IF \E k \in 0 .. n - 1 : At(k) = i THEN MovedFrom ELSE @[i]]]
=============================================================================
