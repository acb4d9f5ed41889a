------------------------------ MODULE Registry ------------------------------
(***************************************************************************)
(* What servicemanager promises its clients: a map from names to binders.  *)
(* A name keeps the binder it was last registered with until that binder's *)
(* process is dead, or until servicemanager itself is gone; a lookup       *)
(* answers with the binder registered at that moment.                      *)
(***************************************************************************)
EXTENDS Naturals

CONSTANTS
  Names, Procs, Binders,
  Owner,        \* the process that serves each binder
  Isolated,     \* processes that run under an isolated uid
  NoBinder

VARIABLES
  reg,          \* the binder registered under each name
  alive,        \* the processes that are running
  answer        \* the last answer each process got

vars == <<reg, alive, answer>>

Found(n, b) == [kind |-> "binder", name |-> n, binder |-> b]
NotFound(n) == [kind |-> "binder", name |-> n, binder |-> NoBinder]

Init ==
  /\ reg = [n \in Names |-> NoBinder]
  /\ alive = Procs
  /\ answer = [p \in Procs |-> [kind |-> "none"]]

Register(n, b) ==
  /\ reg' = [reg EXCEPT ![n] = b]
  /\ UNCHANGED <<alive, answer>>

Forget(n) ==
  /\ reg[n] # NoBinder
  /\ Owner[reg[n]] \notin alive
  /\ reg' = [reg EXCEPT ![n] = NoBinder]
  /\ UNCHANGED <<alive, answer>>

Lookup(p, n) ==
  /\ answer' = [answer EXCEPT ![p] =
                  IF reg[n] # NoBinder THEN Found(n, reg[n]) ELSE NotFound(n)]
  /\ UNCHANGED <<reg, alive>>

Hide(p, n) ==
  /\ p \in Isolated
  /\ answer' = [answer EXCEPT ![p] = NotFound(n)]
  /\ UNCHANGED <<reg, alive>>

\* Any answer that carries no binder: to a registration, a listing, an error.
\* When servicemanager is gone every caller gets one at the same time.
Respond ==
  /\ \E some \in SUBSET Procs :
       /\ \A p \in Procs \ some : answer'[p] = answer[p]
       /\ \A p \in some : answer'[p].kind # "binder"
  /\ UNCHANGED <<reg, alive>>

Die(p) ==
  /\ alive' = alive \ {p}
  /\ UNCHANGED <<reg, answer>>

Gone ==
  /\ reg' = [n \in Names |-> NoBinder]
  /\ UNCHANGED <<alive, answer>>

Next ==
  \/ \E n \in Names, b \in Binders : Register(n, b)
  \/ \E n \in Names : Forget(n)
  \/ \E p \in Procs, n \in Names : Lookup(p, n) \/ Hide(p, n)
  \/ Respond
  \/ \E p \in Procs : Die(p)
  \/ Gone

Spec == Init /\ [][Next]_vars
=============================================================================
