--------------------------- MODULE CircularBuffer ---------------------------
(***************************************************************************)
(* emb::circular_buffer: the operations of circular_buffer.hpp on one      *)
(* object.  front_ wraps around the storage, and a push into a full buffer *)
(* replaces the value at the other end.                                    *)
(***************************************************************************)
EXTENDS ContainerSlots

index_of(c, offset) == (c.front + offset) % Capacity

front(c) == slot_ptr(c, c.front)
back(c) == slot_ptr(c, index_of(c, c.size - 1))
at(c, i) == slot_ptr(c, index_of(c, i))

clear(c) ==
  [DestroyAll(c, {index_of(c, i) : i \in 0 .. c.size - 1})
     EXCEPT !.front = 0, !.size = 0]

\* Faulty write_back_with: the slot of the oldest value is not destroyed.
overwriteBackLeaking(c, v) ==
  LET i == index_of(c, c.size) IN
  IF full(c)
    THEN [construct_at(c, i, v) EXCEPT !.front = (@ + 1) % Capacity]
    ELSE [construct_at(c, i, v) EXCEPT !.size = @ + 1]

\* push_back, emplace_back.
write_back_with(c, v) ==
  LET i == index_of(c, c.size) IN
  IF full(c)
    THEN [construct_at(destroy_slot(c, i), i, v) EXCEPT !.front = (@ + 1) % Capacity]
    ELSE [construct_at(c, i, v) EXCEPT !.size = @ + 1]

\* push_front, emplace_front.
write_front_with(c, v) ==
  LET i == (c.front + Capacity - 1) % Capacity IN
  IF full(c)
    THEN [construct_at(destroy_slot(c, i), i, v) EXCEPT !.front = i]
    ELSE [construct_at(c, i, v) EXCEPT !.size = @ + 1, !.front = i]

pop_front(c) ==
  [destroy_slot(c, c.front) EXCEPT !.front = (@ + 1) % Capacity, !.size = @ - 1]

pop_back(c) ==
  [destroy_slot(c, index_of(c, c.size - 1)) EXCEPT !.size = @ - 1]

fill(c, v) ==
  LET e == clear(c) IN
  [e EXCEPT !.data = [i \in Slots |-> v], !.size = Capacity,
            !.sound = @ /\ \A i \in Slots : ~Live(e, i)]

copy_construct_from(c, other) ==
  ConstructFrom(c, other, other.size, LAMBDA i : index_of(other, i))

\* operator=, or the destructor and then a constructor.
assigned(c, other) == copy_construct_from(clear(c), other)

\* What move_construct_from leaves of its source.
moved_from(other) ==
  clear(MovedOut(other, other.size, LAMBDA i : index_of(other, i)))

\* The values, front to back.
Content(c) == [k \in 1 .. c.size |-> at(c, k - 1)]
=============================================================================
