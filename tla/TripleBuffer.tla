----------------------------- MODULE TripleBuffer -----------------------------
(***************************************************************************)
(* emb::triple_buffer: one writer and one reader that never wait, each     *)
(* with a buffer of its own; the third one is exchanged.                   *)
(*                                                                         *)
(* A step is one access to a word of a buffer or the exchange of shared_,  *)
(* and the two contexts interleave freely.  A value stored has the same    *)
(* content in every word, so that a mixture shows.                         *)
(***************************************************************************)
EXTENDS Naturals

CONSTANTS
  Words,     \* the words of a T
  MaxValue   \* bound: stores are numbered 1 .. MaxValue, 0 is T{}

VARIABLES
  buf,         \* buf_
  shared,      \* shared_
  write,       \* write_
  read,        \* read_
  wpc,         \* where the writer is in store
  desired,     \* the value it stores
  wleft,       \* the words it has not written yet
  rpc,         \* where the reader is in load
  rleft,       \* the words it has not copied yet
  snapshot,    \* its copy
  result,      \* what the last load returned
  committed,   \* ghost: the latest committed value
  fresh,       \* ghost: a store committed since the reader's last exchange
  took,        \* ghost: and the load in progress took that one
  owed         \* ghost: the values that were the latest while this load ran

writerVars == <<wpc, desired, wleft>>
readerVars == <<rpc, rleft, snapshot, result>>
vars == <<buf, shared, write, read, wpc, desired, wleft, rpc, rleft, snapshot,
          result, committed, fresh, took, owed>>

Stores == 0 .. MaxValue
Whole(v) == [w \in Words |-> v]
Slots == 0 .. 2

Init ==
  /\ buf = [s \in Slots |-> Whole(0)]
  /\ shared = 0 /\ write = 1 /\ read = 2
  /\ wpc = "idle" /\ desired = 0 /\ wleft = {}
  /\ rpc = "idle" /\ rleft = {} /\ snapshot = Whole(0) /\ result = Whole(0)
  /\ committed = 0
  /\ fresh = FALSE /\ took = FALSE
  /\ owed = {}

-----------------------------------------------------------------------------
(* The writer: fill its own buffer, then exchange it.                      *)

Store ==
  /\ wpc = "idle"
  /\ desired < MaxValue
  /\ wpc' = "copy"
  /\ desired' = desired + 1
  /\ wleft' = Words
  /\ UNCHANGED <<buf, shared, write, read, readerVars, committed, fresh, took, owed>>

WriteWord(w) ==
  /\ wpc = "copy"
  /\ w \in wleft
  /\ buf' = [buf EXCEPT ![write][w] = desired]
  /\ wleft' = wleft \ {w}
  /\ UNCHANGED <<shared, write, read, wpc, desired, readerVars, committed, fresh, took, owed>>

Publish ==
  /\ wpc = "copy"
  /\ wleft = {}
  /\ shared' = write
  /\ write' = shared
  /\ wpc' = "idle"
  /\ committed' = desired
  /\ fresh' = TRUE
  /\ owed' = IF rpc = "idle" THEN {} ELSE owed \cup {desired}
  /\ UNCHANGED <<buf, read, desired, wleft, readerVars, took>>

-----------------------------------------------------------------------------
(* The reader: exchange its own buffer, then copy what it got.             *)

Load ==
  /\ rpc = "idle"
  /\ rpc' = "exchange"
  /\ owed' = {committed}
  /\ UNCHANGED <<buf, shared, write, read, writerVars, rleft, snapshot, result,
                 committed, fresh, took>>

\* Faulty Exchange: it takes the shared buffer and leaves none.
ExchangeKeep ==
  /\ rpc = "exchange"
  /\ read' = shared
  /\ rleft' = Words
  /\ rpc' = "copy"
  /\ took' = fresh
  /\ fresh' = FALSE
  /\ UNCHANGED <<buf, shared, write, writerVars, snapshot, result, committed, owed>>

\* The exchange is unconditional: with nothing new it takes back the buffer
\* that the load before left behind.
Exchange ==
  /\ rpc = "exchange"
  /\ read' = shared
  /\ shared' = read
  /\ rleft' = Words
  /\ rpc' = "copy"
  /\ took' = fresh
  /\ fresh' = FALSE
  /\ UNCHANGED <<buf, write, writerVars, snapshot, result, committed, owed>>

\* Faulty CopyWord: it copies the buffer that it has just given back.
CopyWordShared(w) ==
  /\ rpc = "copy"
  /\ w \in rleft
  /\ snapshot' = [snapshot EXCEPT ![w] = buf[shared][w]]
  /\ rleft' = rleft \ {w}
  /\ UNCHANGED <<buf, shared, write, read, writerVars, rpc, result, committed, fresh, took, owed>>

CopyWord(w) ==
  /\ rpc = "copy"
  /\ w \in rleft
  /\ snapshot' = [snapshot EXCEPT ![w] = buf[read][w]]
  /\ rleft' = rleft \ {w}
  /\ UNCHANGED <<buf, shared, write, read, writerVars, rpc, result, committed, fresh, took, owed>>

Return ==
  /\ rpc = "copy"
  /\ rleft = {}
  /\ rpc' = "idle"
  /\ result' = snapshot
  /\ snapshot' = Whole(0)
  /\ took' = FALSE
  /\ owed' = {}
  /\ UNCHANGED <<buf, shared, write, read, writerVars, rleft, committed, fresh>>

-----------------------------------------------------------------------------
WriterStep == (\E w \in Words : WriteWord(w)) \/ Publish
ReaderStep == Exchange \/ (\E w \in Words : CopyWord(w)) \/ Return

Next ==
  \/ Store
  \/ WriterStep
  \/ Load
  \/ ReaderStep

Spec == Init /\ [][Next]_vars

-----------------------------------------------------------------------------
TypeOK ==
  /\ buf \in [Slots -> [Words -> Stores]]
  /\ {shared, write, read} \subseteq Slots
  /\ wpc \in {"idle", "copy"} /\ desired \in Stores /\ wleft \in SUBSET Words
  /\ rpc \in {"idle", "exchange", "copy"} /\ rleft \in SUBSET Words
  /\ snapshot \in [Words -> Stores] /\ result \in [Words -> Stores]
  /\ committed \in Stores
  /\ fresh \in BOOLEAN /\ took \in BOOLEAN
  /\ owed \in SUBSET Stores

\* The values a buffer may hold whole.
Committed == {Whole(v) : v \in 0 .. committed}

\* The three indices name three buffers, whatever the exchanges did: the
\* writer's is the only one that may be torn, and a new value is in the shared
\* one or in the reader's.
ThreeBuffers ==
  /\ write # shared /\ write # read /\ shared # read
  /\ \A s \in Slots \ {write} : buf[s] \in Committed
  /\ committed = IF wpc = "copy" THEN desired - 1 ELSE desired
  /\ wpc = "copy" => \A w \in Words \ wleft : buf[write][w] = desired
  /\ wpc = "idle" => wleft = {}
  /\ fresh => buf[shared] = Whole(committed)
  /\ rpc # "idle" => committed \in owed
  /\ rpc = "copy" => \A w \in Words \ rleft : snapshot[w] = buf[read][w]
  /\ took => rpc = "copy" /\ \E v \in owed : buf[read] = Whole(v)

Returns == rpc = "copy" /\ rpc' = "idle"

\* A load returns one committed value, never a mixture of two, however many
\* stores overtake it; for no two of writer, reader and shared index ever name the
\* same buffer (load, store).
NoTornLoad ==
  /\ [](TypeOK /\ ThreeBuffers)
  /\ [][Returns => result' \in Committed]_vars

\* A load that finds a store since the load before returns the latest value:
\* nothing that was already replaced when it was called.
NewValueSeen == [][Returns /\ took => \E v \in owed : result' = Whole(v)]_vars

\* "the reader always gets the latest committed value" (triple_buffer.hpp:10):
\* of every load, the first after a store or not.
AlwaysLatest == [][Returns => \E v \in owed : result' = Whole(v)]_vars
=============================================================================
