---------------------------- MODULE InplaceStack ----------------------------
(***************************************************************************)
(* emb::inplace_stack: the operations of inplace_stack.hpp on one object.   *)
(***************************************************************************)
EXTENDS ContainerSlots

top(c) == slot_ptr(c, c.size - 1)

clear(c) == [DestroyAll(c, 0 .. c.size - 1) EXCEPT !.size = 0]

emplace(c, v) == [construct_at(c, c.size, v) EXCEPT !.size = @ + 1]

pop(c) == [destroy_slot(c, c.size - 1) EXCEPT !.size = @ - 1]

copy_construct_from(c, other) == ConstructFrom(c, other, other.size, LAMBDA i : i)

\* operator=, or the destructor and then a constructor.
assigned(c, other) == copy_construct_from(clear(c), other)

\* What move_construct_from leaves of its source.
moved_from(other) == clear(MovedOut(other, other.size, LAMBDA i : i))

\* Bottom to top.
Content(c) == [k \in 1 .. c.size |-> slot_ptr(c, k - 1)]
=============================================================================
