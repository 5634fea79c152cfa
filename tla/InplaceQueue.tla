---------------------------- MODULE InplaceQueue ----------------------------
(***************************************************************************)
(* emb::inplace_queue: the operations of inplace_queue.hpp on one object.  *)
(* The caller must not push into a full queue; try_push does not.          *)
(***************************************************************************)
EXTENDS ContainerSlots

index_of(c, offset) == (c.front + offset) % Capacity

front(c) == slot_ptr(c, c.front)
back(c) == slot_ptr(c, index_of(c, c.size - 1))

clear(c) ==
  [DestroyAll(c, {index_of(c, i) : i \in 0 .. c.size - 1})
     EXCEPT !.front = 0, !.size = 0]

emplace(c, v) ==
  [construct_at(c, index_of(c, c.size), v) EXCEPT !.size = @ + 1]

pop(c) ==
  [destroy_slot(c, c.front) EXCEPT !.front = (@ + 1) % Capacity, !.size = @ - 1]

copy_construct_from(c, other) ==
  ConstructFrom(c, other, other.size, LAMBDA i : index_of(other, i))

\* operator=, or the destructor and then a constructor.
assigned(c, other) == copy_construct_from(clear(c), other)

\* What move_construct_from leaves of its source.
moved_from(other) ==
  clear(MovedOut(other, other.size, LAMBDA i : index_of(other, i)))

Content(c) == [k \in 1 .. c.size |-> slot_ptr(c, index_of(c, k - 1))]
=============================================================================
