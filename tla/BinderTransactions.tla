------------------------- MODULE BinderTransactions -------------------------
(***************************************************************************)
(* Transactions, replies and the release of threads, nodes and processes   *)
(* in the binder driver (patches/kernel/binder.c), as operators on the     *)
(* driver state of module BinderObjects.                                   *)
(*                                                                         *)
(* A transaction request tr is [handle, oneway, objs].  objs are the flat  *)
(* binder objects of its data, <<type, ptr or handle>>; an object of type  *)
(* BAD stands for any offset, type or copy the driver rejects.  The sizes  *)
(* and addresses of the buffers are the subject of module BinderAlloc;     *)
(* here an allocation fails when the receiver has MaxBufs buffers, or      *)
(* MaxAsync of them are asynchronous, or its vma is gone.                  *)
(***************************************************************************)
EXTENDS BinderObjects

CONSTANTS
  ProcOf,       \* the process of a thread
  MaxBufs,      \* buffers that fit in the mapping of one process
  MaxAsync      \* of these, buffers of one-way transactions

Objects == {"BINDER", "WEAK_BINDER", "HANDLE", "WEAK_HANDLE", "BAD"}

ThreadsOf(s, p) == {th \in DOMAIN s.thr : ProcOf[th] = p}
bufs(s, p) == {b \in DOMAIN s.buf : s.buf[b].proc = p}

\* binder_alloc_buf finds room.
binder_alloc_buf(s, p, async) ==
  /\ s.proc[p].state = "open"
  /\ Cardinality(bufs(s, p)) < MaxBufs
  /\ async => Cardinality({b \in bufs(s, p) : s.buf[b].async_transaction}) < MaxAsync

------------------------------------------------------------------------------
(* Ending a transaction.                                                    *)

\* target is NoThread when the sender of t is gone.
binder_pop_transaction(s, target, t) ==
  LET tx == s.txn[t]
      s1 == IF target = NoThread THEN s
            ELSE [BUG_ON(s, s.thr[target].stack # t \/ tx.from # target, "pop_transaction")
                    EXCEPT !.thr[target].stack = tx.from_parent]
      s2 == IF tx.buffer = NoBuf THEN s1
            ELSE [s1 EXCEPT !.buf[tx.buffer].transaction = NoTxn]
  IN  [s2 EXCEPT !.txn = Free(@, t)]

\* With the sender gone the failure goes to whoever the sender was serving.
\* A sender whose two error slots are taken is told nothing.
shift_error(s, th) ==
  IF th # NoThread /\ s.thr[th].return_error # "OK" /\ s.thr[th].return_error2 = "OK"
  THEN [s EXCEPT !.thr[th].return_error2 = s.thr[th].return_error,
                 !.thr[th].return_error = "OK"]
  ELSE s

RECURSIVE binder_send_failed_reply(_, _, _)
binder_send_failed_reply(s, t, error) ==
  LET th == s.txn[t].from
      parent == s.txn[t].from_parent
      checked == BUG_ON(shift_error(s, th), s.txn[t].oneway, "send_failed_reply")
      popped == binder_pop_transaction(checked, th, t)
  IN  CASE th # NoThread /\ checked.thr[th].return_error # "OK" -> checked
        [] th # NoThread /\ checked.thr[th].return_error = "OK" ->
             wake_thread([popped EXCEPT !.thr[th].return_error = error], th)
        [] th = NoThread /\ parent = NoTxn -> popped
        [] OTHER -> binder_send_failed_reply(popped, parent, error)

\* One object of a released buffer of p: drop the count it holds.
release_object(s, p, o) ==
  LET n == <<p, o[2]>> IN
  CASE o[1] \in {"BINDER", "WEAK_BINDER"} /\ n \in DOMAIN s.node ->
         binder_dec_node(s, n, o[1] = "BINDER", FALSE)
    [] o[1] \in {"HANDLE", "WEAK_HANDLE"} /\ n \in DOMAIN s.ref ->
         binder_dec_ref(s, n, o[1] = "HANDLE")
    [] OTHER -> s

\* objs are the objects translated so far, all of them after a success.
binder_transaction_buffer_release(s, p, target_node, objs) ==
  LET s1 == IF target_node = NoNode THEN s ELSE binder_dec_node(s, target_node, TRUE, FALSE)
  IN  FoldLeft(LAMBDA a, o : release_object(a, p, o), s1, objs)

binder_free_buf(s, b) == [s EXCEPT !.buf = Free(@, b)]

------------------------------------------------------------------------------
(* Sending.                                                                 *)

\* The err_ labels at the end of binder_transaction; irt is in_reply_to.
transaction_failed(s, th, error, irt) ==
  LET s1 == BUG_ON(s, s.thr[th].return_error # "OK", "transaction: return_error") IN
  IF irt = NoTxn THEN [s1 EXCEPT !.thr[th].return_error = error]
  ELSE binder_send_failed_reply(
         [s1 EXCEPT !.thr[th].return_error = "TRANSACTION_COMPLETE"], irt, error)

\* Translate object o, sent by thread th, for process q.  a is the state, the
\* objects as q will see them, and whether every object was accepted.
translate(a, o, th, q) ==
  LET s == a.s
      x == <<ProcOf[th], o[2]>>
      strong == o[1] \in {"BINDER", "HANDLE"}
      s1 == IF x \in DOMAIN s.node THEN s ELSE binder_new_node(s, x)
      give(t, n, list) ==
        LET d == desc_for_node(t, q, n) IN
        [ok |-> TRUE,
         s |-> binder_inc_ref(binder_get_ref_for_node(t, q, n), <<q, d>>, strong, list),
         objs |-> Append(a.objs, <<IF strong THEN "HANDLE" ELSE "WEAK_HANDLE", d>>)]
      take(n) ==
        [ok |-> TRUE,
         s |-> binder_inc_node(s, n, strong, FALSE, NoThread),
         objs |-> Append(a.objs, <<IF strong THEN "BINDER" ELSE "WEAK_BINDER", n[2]>>)]
  IN  CASE ~a.ok -> a
        [] a.ok /\ o[1] \in {"BINDER", "WEAK_BINDER"} -> give(s1, x, th)
        [] a.ok /\ o[1] \in {"HANDLE", "WEAK_HANDLE"} /\ x \in DOMAIN s.ref ->
             IF s.node[s.ref[x].node].proc = q THEN take(s.ref[x].node)
             ELSE give(s, s.ref[x].node, NoThread)
        [] OTHER -> [a EXCEPT !.ok = FALSE]

\* A new transaction t of thread th with its buffer b in process q.
new_transaction(s, th, q, target, node, tr, call, t, b) ==
  LET s1 == [s EXCEPT
               !.txn = Put(@, t, [from |-> IF call THEN th ELSE NoThread,
                                  from_parent |-> NoTxn, to_thread |-> target,
                                  to_parent |-> NoTxn, buffer |-> b, oneway |-> tr.oneway]),
               !.buf = Put(@, b, [proc |-> q, transaction |-> t, target_node |-> node,
                                  async_transaction |-> node # NoNode /\ tr.oneway,
                                  allow_user_free |-> FALSE, objs |-> << >>])]
  IN  IF node = NoNode THEN s1 ELSE binder_inc_node(s1, node, TRUE, FALSE, NoThread)

\* Variant: the objects translated before the failure keep their counts.
transaction_undone_kept(a, th, q, node, t, b, irt) ==
  transaction_failed(
    [binder_free_buf(binder_transaction_buffer_release(a.s, q, node, << >>), b)
       EXCEPT !.txn = Free(@, t)],
    th, "FAILED_REPLY", irt)

\* The err_ labels that undo a transaction whose objects, up to a.objs, were
\* translated.
transaction_undone(a, th, q, node, t, b, irt) ==
  transaction_failed(
    [binder_free_buf(binder_transaction_buffer_release(a.s, q, node, a.objs), b)
       EXCEPT !.txn = Free(@, t)],
    th, "FAILED_REPLY", irt)

\* Variant: a call is not pushed on the stack of its sender.
transaction_linked_unpushed(s, th, target, node, t, irt) ==
  IF irt # NoTxn THEN binder_pop_transaction(s, target, irt)
  ELSE IF s.txn[t].oneway THEN [s EXCEPT !.node[node].has_async_transaction = TRUE]
  ELSE s

\* Put a reply, a call or a one-way transaction in its place.
transaction_linked(s, th, target, node, t, irt) ==
  CASE irt # NoTxn -> binder_pop_transaction(s, target, irt)
    [] irt = NoTxn /\ ~s.txn[t].oneway ->
         [s EXCEPT !.txn[t].from_parent = s.thr[th].stack, !.thr[th].stack = t]
    [] OTHER -> [s EXCEPT !.node[node].has_async_transaction = TRUE]

\* A one-way transaction to a busy node waits on the node, unannounced.
transaction_queued(s, th, q, target, node, t, busy) ==
  IF busy
  THEN list_add_tail([s EXCEPT !.node[node].async_todo = Append(@, TxnWork(t))],
                     CompleteWork, th)
  ELSE IF target = NoThread
  THEN wake_proc(list_add_tail(list_add_tail(s, TxnWork(t), q), CompleteWork, th), q)
  ELSE wake_thread(list_add_tail(list_add_tail(s, TxnWork(t), target), CompleteWork, th),
                   target)

\* binder_transaction from the choice of the target on.  target is the
\* target_thread or NoThread, irt the transaction replied to or NoTxn; a
\* reply has no target_node and is never asynchronous.
transaction_send(s, th, q, target, node, tr, irt) ==
  LET t == Alloc(s.txn)
      b == Alloc(s.buf)
      oneway == node # NoNode /\ tr.oneway
      a == FoldLeft(LAMBDA x, o : translate(x, o, th, q),
                    [s |-> new_transaction(s, th, q, target, node, tr,
                                           node # NoNode /\ ~tr.oneway, t, b),
                     objs |-> << >>, ok |-> TRUE], tr.objs)
      busy == oneway /\ s.node[node].has_async_transaction
  IN  IF ~binder_alloc_buf(s, q, oneway) THEN transaction_failed(s, th, "FAILED_REPLY", irt)
      ELSE IF ~a.ok THEN transaction_undone(a, th, q, node, t, b, irt)
      ELSE transaction_queued(
             transaction_linked([a.s EXCEPT !.buf[b].objs = a.objs], th, target, node, t, irt),
             th, q, target, node, t, busy)

\* The transactions from t along from_parent.
RECURSIVE from_parents(_, _)
from_parents(s, t) ==
  IF t = NoTxn THEN << >> ELSE <<t>> \o from_parents(s, s.txn[t].from_parent)

\* A call goes to the thread of q that waits, furthest out, on this call chain.
caller_in(s, th, q) ==
  LET chain == from_parents(s, s.thr[th].stack)
      in_q == {i \in DOMAIN chain : /\ s.txn[chain[i]].from # NoThread
                                    /\ ProcOf[s.txn[chain[i]].from] = q}
  IN  IF in_q = {} THEN NoThread ELSE s.txn[chain[Max(in_q)]].from

\* BC_REPLY.
binder_reply(s, th, tr) ==
  LET irt == s.thr[th].stack
      s1 == [s EXCEPT !.thr[th].stack = s.txn[irt].to_parent]
      target == s.txn[irt].from
  IN  IF irt = NoTxn THEN transaction_failed(s, th, "FAILED_REPLY", NoTxn)
      ELSE IF s.txn[irt].to_thread # th THEN transaction_failed(s, th, "FAILED_REPLY", NoTxn)
      ELSE IF target = NoThread THEN transaction_failed(s1, th, "DEAD_REPLY", irt)
      ELSE IF s1.thr[target].stack # irt THEN transaction_failed(s1, th, "FAILED_REPLY", NoTxn)
      ELSE transaction_send(s1, th, ProcOf[target], target, NoNode, tr, irt)

\* BC_TRANSACTION.
binder_call(s, th, tr) ==
  LET r == <<ProcOf[th], tr.handle>>
      node == IF tr.handle = 0 THEN s.ctx ELSE s.ref[r].node
      q == s.node[node].proc
      top == s.thr[th].stack
      nested == ~tr.oneway /\ top # NoTxn
      fail(error) == transaction_failed(s, th, error, NoTxn)
  IN  IF tr.handle # 0 /\ r \notin DOMAIN s.ref THEN fail("FAILED_REPLY")
      ELSE IF node = NoNode THEN fail("DEAD_REPLY")
      ELSE IF q = NoProc THEN fail("DEAD_REPLY")
      ELSE IF nested /\ s.txn[top].to_thread # th THEN fail("FAILED_REPLY")
      ELSE transaction_send(s, th, q, IF nested THEN caller_in(s, th, q) ELSE NoThread,
                            node, tr, NoTxn)

------------------------------------------------------------------------------
(* Releasing lists, threads, nodes and processes.                           *)

\* One item of binder_release_work; node and DEAD_BINDER items are only
\* unlinked.
release_item(s, w) ==
  LET t == w[2]
      b == s.txn[t].buffer
      call == s.buf[b].target_node # NoNode /\ ~s.txn[t].oneway
  IN
  CASE w[1] = "transaction" /\ call -> binder_send_failed_reply(s, t, "DEAD_REPLY")
    [] w[1] = "transaction" /\ ~call ->
         [s EXCEPT !.buf[b].transaction = NoTxn, !.txn = Free(@, t)]
    [] w[1] = "death" /\ s.death[t].type # "DEAD_BINDER" -> [s EXCEPT !.death = Free(@, t)]
    [] OTHER -> s

binder_release_work(s, list) == FoldLeft(release_item, s, list)

\* Variant: a transaction still names the exiting thread that serves it.
unhook_served_kept(s, t) == s

\* Unhook every transaction on the stack of the exiting thread th.
unhook_served(s, t) ==
  LET b == s.txn[t].buffer
      s1 == [s EXCEPT !.txn[t].to_thread = NoThread, !.txn[t].buffer = NoBuf]
  IN  IF b = NoBuf THEN s1 ELSE [s1 EXCEPT !.buf[b].transaction = NoTxn]

RECURSIVE unhook(_, _, _)
unhook(s, th, t) ==
  IF t = NoTxn THEN s
  ELSE IF s.txn[t].to_thread = th THEN unhook(unhook_served(s, t), th, s.txn[t].to_parent)
  ELSE IF s.txn[t].from = th
  THEN unhook([s EXCEPT !.txn[t].from = NoThread], th, s.txn[t].from_parent)
  ELSE BUG_ON(s, TRUE, "free_thread")

\* binder_release_work on the todo list l of a thread or of a process.
release_todo(s, l) == binder_release_work([s EXCEPT !.todo[l] = << >>], s.todo[l])

\* Variant: the caller of an exiting thread is not told.
binder_free_thread_silent(s, th) ==
  [release_todo(unhook(s, th, s.thr[th].stack), th) EXCEPT !.thr = Free(@, th)]

binder_free_thread(s, th) ==
  LET top == s.thr[th].stack
      unhooked == unhook(s, th, top)
      failed == IF top # NoTxn /\ s.txn[top].to_thread = th
                THEN binder_send_failed_reply(unhooked, top, "DEAD_REPLY") ELSE unhooked
  IN  [release_todo(failed, th) EXCEPT !.thr = Free(@, th)]

\* The death notification of reference r, whose node has just died.
notify_death(s, r) ==
  LET d == s.ref[r].death IN
  IF d = NoDeath THEN s
  ELSE wake_proc(list_add_tail([BUG_ON(s, ~list_empty(s, DeathWork(d)), "node_release")
                                  EXCEPT !.death[d].type = "DEAD_BINDER"],
                               DeathWork(d), r[1]), r[1])

\* The one-way transactions waiting on the node are released first.
node_emptied(s, n) ==
  binder_release_work([list_del(s, NodeWork(n)) EXCEPT !.node[n].async_todo = << >>],
                      s.node[n].async_todo)

node_orphaned(s, n) ==
  IF refs(s, n) = {} THEN [s EXCEPT !.node = Free(@, n)]
  ELSE FoldSet(LAMBDA r, a : notify_death(a, r),
               [s EXCEPT !.node[n].proc = NoProc, !.node[n].local_strong_refs = 0,
                         !.node[n].local_weak_refs = 0],
               refs(s, n))

binder_node_release(s, n) == node_orphaned(node_emptied(s, n), n)

\* Buffers of a dying process are freed without releasing their objects.
drop_buffer(s, b) ==
  LET t == s.buf[b].transaction IN
  binder_free_buf(IF t = NoTxn THEN s ELSE [s EXCEPT !.txn[t].buffer = NoBuf], b)

\* The stages of binder_deferred_release.
drop_context_mgr(s, p) ==
  IF s.ctx # NoNode /\ s.node[s.ctx].proc = p THEN [s EXCEPT !.ctx = NoNode] ELSE s
free_threads(s, p) ==
  FoldSet(LAMBDA th, a : binder_free_thread(a, th), s, ThreadsOf(s, p))
release_nodes(s, p) ==
  FoldSet(LAMBDA n, a : binder_node_release(a, n), s, {n \in DOMAIN s.node : s.node[n].proc = p})
delete_refs(s, p) ==
  FoldSet(LAMBDA d, a : binder_delete_ref(a, <<p, d>>), s, descs(s, p))
release_delivered(s, p) ==
  binder_release_work([s EXCEPT !.delivered[p] = << >>], s.delivered[p])
drop_buffers(s, p) == FoldSet(LAMBDA b, a : drop_buffer(a, b), s, bufs(s, p))

binder_deferred_release(s, p) ==
  LET freed == free_threads(drop_context_mgr(s, p), p)
      unlinked == delete_refs(release_nodes(freed, p), p)
      emptied == release_delivered(release_todo(unlinked, p), p)
  IN  [drop_buffers(emptied, p) EXCEPT !.proc[p].state = "gone"]

=============================================================================
