--------------------------- MODULE BinderObjects ---------------------------
(***************************************************************************)
(* Nodes, references and work lists of the binder driver                   *)
(* (patches/kernel/binder.c), as operators from a driver state to a driver *)
(* state.  Every call of the driver runs under binder_main_lock, so each   *)
(* one is a composition of these operators; module Binder turns the calls  *)
(* into actions.                                                           *)
(*                                                                         *)
(* A driver state s is a record:                                           *)
(*   node       binder_node by identity <<process, ptr>>; a freed node is  *)
(*              not in the domain, a dead one has proc = NoProc            *)
(*   ref        binder_ref by <<process, desc>>                            *)
(*   death      binder_ref_death by number                                 *)
(*   txn, buf   binder_transaction and binder_buffer by number             *)
(*   thr        binder_thread, the threads that exist                      *)
(*   proc       binder_proc, every process                                 *)
(*   todo       the todo list of every process and of every thread         *)
(*   delivered  the delivered_death list of every process                  *)
(*   pwait      the threads asleep on proc->wait, in wake-up order         *)
(*   ctx        binder_context_mgr_node, ctx_uid its uid once set          *)
(*   bug        the BUG() and BUG_ON() statements that have fired          *)
(*   overwritten  the threads whose first command BR_SPAWN_LOOPER replaced *)
(* The hlist node->refs is the set of references naming the node.  A list  *)
(* holds work items <<kind, number or node>>.                              *)
(***************************************************************************)
EXTENDS Integers, Sequences, FiniteSets, FiniteSetsExt, SequencesExt, TLC

CONSTANTS
  Procs,        \* processes that may open /dev/binder
  Threads,      \* threads that may call into it
  NoProc,       \* a null binder_proc
  NoThread      \* a null binder_thread, also a null target_list

NoNode == <<NoProc, 0>>
NoTxn == 0
NoBuf == 0
NoDeath == 0

TxnWork(t) == <<"transaction", t>>
CompleteWork == <<"transaction_complete", 0>>
NodeWork(n) == <<"node", n>>
DeathWork(d) == <<"death", d>>

\* kzalloc: the smallest number that names no object of the table.
Alloc(table) == Min((1 .. Cardinality(DOMAIN table) + 1) \ DOMAIN table)

\* kfree: the table without x.
Free(table, x) == [y \in DOMAIN table \ {x} |-> table[y]]

Put(table, x, v) == (x :> v) @@ table

BUG_ON(s, cond, name) == IF cond THEN [s EXCEPT !.bug = @ \cup {name}] ELSE s

------------------------------------------------------------------------------
(* Work lists and wait queues.                                              *)

list_add_tail(s, w, list) == [s EXCEPT !.todo[list] = Append(@, w)]

list_empty(s, w) ==
  /\ \A l \in DOMAIN s.todo : ~Contains(s.todo[l], w)
  /\ \A p \in Procs : ~Contains(s.delivered[p], w)

list_del(s, w) ==
  [s EXCEPT !.todo = [l \in DOMAIN @ |-> RemoveFirst(@[l], w)],
            !.delivered = [p \in Procs |-> RemoveFirst(@[p], w)]]

\* wake_up_interruptible(&proc->wait): waiters are exclusive, one wakes.
wake_proc(s, p) ==
  IF s.pwait[p] = << >> THEN s
  ELSE [s EXCEPT !.pwait[p] = Tail(@), !.thr[Head(s.pwait[p])].pc = "check"]

\* wake_up_interruptible(&thread->wait).
wake_thread(s, th) ==
  IF s.thr[th].pc = "asleep" /\ ~s.thr[th].wait_for_proc_work
  THEN [s EXCEPT !.thr[th].pc = "check"]
  ELSE s

------------------------------------------------------------------------------
(* Nodes.                                                                   *)

refs(s, n) == {r \in DOMAIN s.ref : s.ref[r].node = n}

new_node(p) ==
  [proc |-> p, internal_strong_refs |-> 0,
   local_strong_refs |-> 0, local_weak_refs |-> 0,
   has_strong_ref |-> FALSE, pending_strong_ref |-> FALSE,
   has_weak_ref |-> FALSE, pending_weak_ref |-> FALSE,
   has_async_transaction |-> FALSE, async_todo |-> << >>]

\* binder_get_node finds nothing: binder_new_node.
binder_new_node(s, n) == [s EXCEPT !.node = Put(@, n, new_node(n[1]))]

\* The -EINVAL returns of binder_inc_node.
inc_node_invalid(s, n, strong, internal, list) ==
  LET nd == s.node[n] IN
  /\ list = NoThread
  /\ IF strong
     THEN internal /\ nd.internal_strong_refs = 0 /\ ~(n = s.ctx /\ nd.has_strong_ref)
     ELSE ~nd.has_weak_ref /\ list_empty(s, NodeWork(n))

\* The counter that binder_inc_node and binder_dec_node move: the internal
\* weak references are the list of references itself.
count_node(s, n, strong, internal, k) ==
  CASE strong /\ internal -> [s EXCEPT !.node[n].internal_strong_refs = @ + k]
    [] strong /\ ~internal -> [s EXCEPT !.node[n].local_strong_refs = @ + k]
    [] ~strong /\ internal -> s
    [] OTHER -> [s EXCEPT !.node[n].local_weak_refs = @ + k]

\* list is the thread whose todo is the target_list, or NoThread.  A weak
\* local reference is counted even when the call then fails.
binder_inc_node(s, n, strong, internal, list) ==
  LET invalid == inc_node_invalid(s, n, strong, internal, list)
      counted == count_node(s, n, strong, internal, 1)
  IN  CASE strong /\ invalid -> s
        [] strong /\ ~s.node[n].has_strong_ref /\ list # NoThread ->
             list_add_tail(list_del(counted, NodeWork(n)), NodeWork(n), list)
        [] ~strong /\ ~invalid /\ ~s.node[n].has_weak_ref /\ list_empty(s, NodeWork(n)) ->
             list_add_tail(counted, NodeWork(n), list)
        [] OTHER -> counted

\* Variant: the owner is not told that the last count is gone.
node_dropped_untold(s, n, strong) ==
  LET nd == s.node[n] IN
  IF /\ nd.proc = NoProc \/ ~(nd.has_strong_ref \/ nd.has_weak_ref)
     /\ refs(s, n) = {} /\ nd.local_strong_refs = 0 /\ nd.local_weak_refs = 0
  THEN [list_del(s, NodeWork(n)) EXCEPT !.node = Free(@, n)] ELSE s

\* binder_dec_node once the count is down: tell the owner, or free the node.
node_dropped(s, n, strong) ==
  LET nd == s.node[n]
      used == IF strong THEN nd.local_strong_refs # 0 \/ nd.internal_strong_refs # 0
                        ELSE nd.local_weak_refs # 0 \/ refs(s, n) # {}
      known == nd.proc # NoProc /\ (nd.has_strong_ref \/ nd.has_weak_ref)
  IN  CASE used -> s
        [] ~used /\ known /\ list_empty(s, NodeWork(n)) ->
             wake_proc(list_add_tail(s, NodeWork(n), nd.proc), nd.proc)
        [] ~used /\ ~known /\ refs(s, n) = {}
             /\ nd.local_strong_refs = 0 /\ nd.local_weak_refs = 0 ->
             [list_del(s, NodeWork(n)) EXCEPT !.node = Free(@, n)]
        [] OTHER -> s

binder_dec_node(s, n, strong, internal) ==
  node_dropped(count_node(s, n, strong, internal, -1), n, strong)

------------------------------------------------------------------------------
(* References.                                                              *)

descs(s, p) == {r[2] : r \in {r \in DOMAIN s.ref : r[1] = p}}

\* The descriptor binder_get_ref_for_node gives p for node n: the one it has,
\* or the first gap, from 0 only for the context manager.
desc_for_node(s, p, n) ==
  LET mine == {r \in refs(s, n) : r[1] = p}
      low == IF n = s.ctx THEN 0 ELSE 1
  IN  IF mine # {} THEN (CHOOSE r \in mine : TRUE)[2]
      ELSE Min((low .. low + Cardinality(descs(s, p))) \ descs(s, p))

binder_get_ref_for_node(s, p, n) ==
  IF \E r \in refs(s, n) : r[1] = p THEN s
  ELSE [s EXCEPT !.ref = Put(@, <<p, desc_for_node(s, p, n)>>,
                             [node |-> n, strong |-> 0, weak |-> 0, death |-> NoDeath])]

\* Variant: the notification of a deleted reference stays on its list.
binder_delete_ref_queued(s, r) ==
  LET rf == s.ref[r]
      weakened == IF rf.strong > 0 THEN binder_dec_node(s, rf.node, TRUE, TRUE) ELSE s
      gone == binder_dec_node([weakened EXCEPT !.ref = Free(@, r)], rf.node, FALSE, TRUE)
  IN  IF rf.death = NoDeath THEN gone ELSE [gone EXCEPT !.death = Free(@, rf.death)]

\* The reference leaves node->refs between the strong and the weak decrement.
binder_delete_ref(s, r) ==
  LET rf == s.ref[r]
      weakened == IF rf.strong > 0 THEN binder_dec_node(s, rf.node, TRUE, TRUE) ELSE s
      gone == binder_dec_node([weakened EXCEPT !.ref = Free(@, r)], rf.node, FALSE, TRUE)
  IN  IF rf.death = NoDeath THEN gone
      ELSE [list_del(gone, DeathWork(rf.death)) EXCEPT !.death = Free(@, rf.death)]

binder_inc_ref(s, r, strong, list) ==
  LET rf == s.ref[r]
      first == IF strong THEN rf.strong = 0 ELSE rf.weak = 0
      s1 == IF first THEN binder_inc_node(s, rf.node, strong, TRUE, list) ELSE s
  IN  CASE first /\ inc_node_invalid(s, rf.node, strong, TRUE, list) -> s
        [] strong -> [s1 EXCEPT !.ref[r].strong = @ + 1]
        [] OTHER -> [s1 EXCEPT !.ref[r].weak = @ + 1]

\* binder_dec_ref once the count is down.
ref_dropped(s, r, strong) ==
  LET unheld == IF strong /\ s.ref[r].strong = 0
                THEN binder_dec_node(s, s.ref[r].node, TRUE, TRUE) ELSE s
  IN  IF s.ref[r].strong = 0 /\ s.ref[r].weak = 0 THEN binder_delete_ref(unheld, r) ELSE unheld

binder_dec_ref(s, r, strong) ==
  IF strong
  THEN IF s.ref[r].strong = 0 THEN s
       ELSE ref_dropped([s EXCEPT !.ref[r].strong = @ - 1], r, TRUE)
  ELSE IF s.ref[r].weak = 0 THEN s
       ELSE ref_dropped([s EXCEPT !.ref[r].weak = @ - 1], r, FALSE)

=============================================================================
