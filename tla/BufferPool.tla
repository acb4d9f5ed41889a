----------------------------- MODULE BufferPool -----------------------------
(***************************************************************************)
(* What the buffer allocator of the binder driver promises its callers: a  *)
(* buffer is a range of addresses that nobody else has, from the moment it *)
(* is handed out until it is given back; it is never moved or resized.     *)
(***************************************************************************)
EXTENDS Integers

CONSTANT PoolSize        \* addresses 0 .. PoolSize - 1

VARIABLE held            \* the ranges <<first, length>> handed out

Apart(r, q) == r[1] + r[2] <= q[1] \/ q[1] + q[2] <= r[1]

Init == held = {}

Take(r) ==
  /\ r[1] >= 0 /\ r[2] > 0 /\ r[1] + r[2] <= PoolSize
  /\ \A q \in held : Apart(r, q)
  /\ held' = held \cup {r}

Give(r) ==
  /\ r \in held
  /\ held' = held \ {r}

\* The pool goes away with its process.
GiveAll == held' = {}

Next ==
  \/ \E r \in held' \ held : Take(r)
  \/ \E r \in held : Give(r)
  \/ GiveAll

Spec == Init /\ [][Next]_held

=============================================================================
