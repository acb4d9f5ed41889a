------------------------------- MODULE Binder -------------------------------
(***************************************************************************)
(* The binder driver (patches/kernel/binder.c): the calls of /dev/binder   *)
(* as actions on the driver state of BinderObjects and BinderTransactions. *)
(*                                                                         *)
(* A write ioctl carries one BC_ command; a batch is a run of them with    *)
(* nothing in between.  A read ioctl is split where the code drops the     *)
(* lock: ReadBegin up to the wait, ReadCheck for one evaluation of the     *)
(* wait condition, ReadLocked from the re-taken lock to the return.  The   *)
(* pc of a thread is "user" outside a read, "check" about to evaluate the  *)
(* condition, "asleep" on a wait queue, "lock" once the condition held.    *)
(*                                                                         *)
(* Programs use the protocol as libbinder does: they give back only the    *)
(* reference counts they hold, name a handle only while they hold it, and  *)
(* end with no thread inside the driver.  A command that names nothing the *)
(* driver knows is refused without effect and is not an action; calls and  *)
(* replies out of turn are, as often as "misuse" in left allows.           *)
(***************************************************************************)
EXTENDS BinderTransactions

CONSTANTS
  Euid,         \* the uid of a process
  Managers,     \* processes that ask to be the context manager
  Ptrs,         \* object addresses a process may send, none of them 0
  Cookies,      \* cookies of death notifications
  Programs,     \* what the processes may do, one choice per behaviour: for each
                \* process its threads, the handles it may call, the object
                \* lists it may send, and left, a bound on the calls of a kind
  MaxTodo,      \* a thread with this many items to read reads before it writes
  MaxPool,      \* the thread limit a process sets
  ReadWords     \* 32-bit words in a read buffer

\* sizeof(struct binder_transaction_data) + 4, in words: less room than this
\* ends a read.
TxnWords == 11

ASSUME ReadWordsAssumption == ReadWords >= TxnWords

NoUid == 0

VARIABLES
  s,            \* the driver state
  program       \* the member of Programs, left being what is left

vars == <<s, program>>

Kinds == {"call", "oneway", "misuse", "refs", "death", "clear", "register", "enter", "max",
          "exit", "die", "flush", "signal"}

\* Process p makes a call of a bounded kind.
Spend(p, kind) ==
  /\ program[p].left[kind] > 0
  /\ program' = [program EXCEPT ![p].left[kind] = @ - 1]

------------------------------------------------------------------------------
(* binder_ioctl.                                                            *)

new_thread ==
  [stack |-> NoTxn, return_error |-> "OK", return_error2 |-> "OK",
   registered |-> FALSE, entered |-> FALSE, need_return |-> TRUE, pc |-> "user",
   wait_for_proc_work |-> FALSE]

binder_get_thread(th) ==
  IF th \in DOMAIN s.thr THEN s ELSE [s EXCEPT !.thr = Put(@, th, new_thread)]

\* Thread th may call into the driver.
CanCall(th) ==
  /\ s.proc[ProcOf[th]].state = "open"
  /\ th \in DOMAIN s.thr => s.thr[th].pc = "user"

ioctl_return(t, th) == [t EXCEPT !.thr[th].need_return = FALSE]

\* A write of one command; nothing is consumed while an error is pending.
CanWrite(th) ==
  /\ CanCall(th)
  /\ th \in DOMAIN s.thr => s.thr[th].return_error = "OK"
  /\ Len(s.todo[th]) < MaxTodo

------------------------------------------------------------------------------
(* Reading.                                                                 *)

\* The tail of binder_thread_read, used words of the buffer being filled: ask
\* for another thread.  The request goes to word 0 of the buffer, whatever is
\* there, and is seen only if the read returned something.
spawn_looper(t, th, used) ==
  LET p == ProcOf[th]
      pr == t.proc[p]
  IN  IF /\ pr.requested_threads + pr.ready_threads = 0
         /\ pr.requested_threads_started < pr.max_threads
         /\ t.thr[th].registered \/ t.thr[th].entered
      THEN [t EXCEPT !.proc[p].requested_threads = @ + 1,
                     !.overwritten = IF used > 0 THEN @ \cup {th} ELSE @]
      ELSE t

\* Variant: what is left on the process list wakes nobody.
read_return_quiet(t, th) ==
  ioctl_return([t EXCEPT !.thr[th].pc = "user", !.thr[th].wait_for_proc_work = FALSE], th)

\* binder_ioctl_write_read and binder_ioctl after a read.
read_return(t, th) ==
  LET p == ProcOf[th]
      t1 == [t EXCEPT !.thr[th].pc = "user", !.thr[th].wait_for_proc_work = FALSE]
  IN  ioctl_return(IF t.todo[p] # << >> THEN wake_proc(t1, p) ELSE t1, th)

\* binder_thread_read from retry: to the wait, or to done: with an error.
read_begin(t, th) ==
  LET p == ProcOf[th]
      wait == t.thr[th].stack = NoTxn /\ t.todo[th] = << >>
      told == [t EXCEPT !.thr[th].return_error = "OK", !.thr[th].return_error2 = "OK"]
  IN  IF t.thr[th].return_error # "OK"
      THEN read_return(spawn_looper(told, th, 1), th)
      ELSE [t EXCEPT !.thr[th].pc = "check", !.thr[th].wait_for_proc_work = wait,
                     !.proc[p].ready_threads = IF wait THEN @ + 1 ELSE @]

\* BINDER_WORK_NODE: one command for the owner, or the item is done with.
read_node(t, n) ==
  LET nd == t.node[n]
      strong == nd.internal_strong_refs # 0 \/ nd.local_strong_refs # 0
      weak == refs(t, n) # {} \/ nd.local_weak_refs # 0 \/ strong
      unlinked == list_del(t, NodeWork(n))
      tell(u) == [s |-> u, words |-> 3]
  IN  IF weak /\ ~nd.has_weak_ref
      THEN tell([t EXCEPT !.node[n].has_weak_ref = TRUE, !.node[n].pending_weak_ref = TRUE,
                          !.node[n].local_weak_refs = @ + 1])
      ELSE IF strong /\ ~nd.has_strong_ref
      THEN tell([t EXCEPT !.node[n].has_strong_ref = TRUE, !.node[n].pending_strong_ref = TRUE,
                          !.node[n].local_strong_refs = @ + 1])
      ELSE IF ~strong /\ nd.has_strong_ref
      THEN tell([t EXCEPT !.node[n].has_strong_ref = FALSE])
      ELSE IF ~weak /\ nd.has_weak_ref
      THEN tell([t EXCEPT !.node[n].has_weak_ref = FALSE])
      ELSE [s |-> IF weak THEN unlinked ELSE [unlinked EXCEPT !.node = Free(@, n)],
            words |-> 0]

\* Variant: the receiver of a call is not recorded in it.
read_transaction_anon(t, th, x) ==
  LET b == t.txn[x].buffer
      t1 == [list_del(t, TxnWork(x)) EXCEPT !.buf[b].allow_user_free = TRUE]
  IN  IF t.buf[b].target_node # NoNode /\ ~t.txn[x].oneway
      THEN [t1 EXCEPT !.txn[x].to_parent = t.thr[th].stack, !.thr[th].stack = x]
      ELSE [t1 EXCEPT !.buf[b].transaction = NoTxn, !.txn = Free(@, x)]

\* BINDER_WORK_TRANSACTION: BR_TRANSACTION or BR_REPLY.
read_transaction(t, th, x) ==
  LET tx == t.txn[x]
      b == tx.buffer
      t1 == [list_del(BUG_ON(t, b = NoBuf, "thread_read"), TxnWork(x))
               EXCEPT !.buf[b].allow_user_free = TRUE]
  IN  IF t.buf[b].target_node # NoNode /\ ~tx.oneway
      THEN [t1 EXCEPT !.txn[x].to_parent = t.thr[th].stack, !.txn[x].to_thread = th,
                      !.thr[th].stack = x]
      ELSE [t1 EXCEPT !.buf[b].transaction = NoTxn, !.txn = Free(@, x)]

\* A death item: BR_CLEAR_DEATH_NOTIFICATION_DONE or BR_DEAD_BINDER.
read_death(t, p, d) ==
  LET t1 == list_del(t, DeathWork(d)) IN
  IF t.death[d].type = "CLEAR_DEATH_NOTIFICATION"
  THEN [t1 EXCEPT !.death = Free(@, d)]
  ELSE [t1 EXCEPT !.delivered[p] = <<DeathWork(d)>> \o @, !.death[d].told = TRUE]

\* The loop of binder_thread_read, used words being filled already.
RECURSIVE read_loop(_, _, _)
read_loop(t, th, used) ==
  LET p == ProcOf[th]
      list == IF t.todo[th] # << >> THEN t.todo[th]
              ELSE IF t.thr[th].wait_for_proc_work THEN t.todo[p] ELSE << >>
      w == Head(list)
      node == read_node(t, w[2])
      dead == t.death[w[2]].type # "CLEAR_DEATH_NOTIFICATION"
      done(u, words) == read_return(spawn_looper(u, th, words), th)
  IN  IF list = << >>
      THEN IF used = 0 /\ ~t.thr[th].need_return THEN read_begin(t, th) ELSE done(t, used)
      ELSE IF ReadWords - used < TxnWords THEN done(t, used)
      ELSE CASE w[1] = "transaction" -> done(read_transaction(t, th, w[2]), used + TxnWords)
             [] w[1] = "transaction_complete" -> read_loop(list_del(t, w), th, used + 1)
             [] w[1] = "node" -> read_loop(node.s, th, used + node.words)
             [] w[1] = "death" ->
                  IF dead THEN done(read_death(t, p, w[2]), used + 2)
                  ELSE read_loop(read_death(t, p, w[2]), th, used + 2)

\* binder_has_proc_work and binder_has_thread_work.
has_work(th) ==
  \/ s.thr[th].need_return
  \/ IF s.thr[th].wait_for_proc_work THEN s.todo[ProcOf[th]] # << >>
     ELSE s.todo[th] # << >> \/ s.thr[th].return_error # "OK"

ReadBegin(th) ==
  /\ UNCHANGED program
  /\ CanCall(th)
  /\ s' = read_begin(binder_get_thread(th), th)

ReadCheck(th) ==
  /\ UNCHANGED program
  /\ th \in DOMAIN s.thr /\ s.thr[th].pc = "check"
  /\ s' = IF has_work(th) THEN [s EXCEPT !.thr[th].pc = "lock"]
          ELSE [s EXCEPT !.thr[th].pc = "asleep",
                         !.pwait[ProcOf[th]] =
                            IF s.thr[th].wait_for_proc_work THEN Append(@, th) ELSE @]

\* The thread is no longer ready, whatever it goes on to do.
after_wait(th) ==
  [s EXCEPT !.pwait[ProcOf[th]] = RemoveFirst(@, th),
            !.proc[ProcOf[th]].ready_threads =
               IF s.thr[th].wait_for_proc_work THEN @ - 1 ELSE @]

\* A signal ends the wait when the condition does not hold; so does O_NONBLOCK.
ReadInterrupted(th) ==
  /\ Spend(ProcOf[th], "signal")
  /\ th \in DOMAIN s.thr /\ s.thr[th].pc \in {"check", "asleep"}
  /\ ~has_work(th)
  /\ s' = read_return(after_wait(th), th)

ReadLocked(th) ==
  /\ UNCHANGED program
  /\ th \in DOMAIN s.thr /\ s.thr[th].pc = "lock"
  /\ s' = read_loop(after_wait(th), th, 0)

------------------------------------------------------------------------------
(* Commands on references and nodes.                                        *)

\* How often handle d occurs in the buffers B.
Occurs(B, type, d) ==
  FoldSet(LAMBDA b, a : a + Cardinality({i \in DOMAIN s.buf[b].objs :
                                           s.buf[b].objs[i] = <<type, d>>}), 0, B)

\* The counts on desc d beyond those held by the buffers B.
Beyond(p, d, strong, B) ==
  IF strong THEN s.ref[<<p, d>>].strong - Occurs(B, "HANDLE", d)
            ELSE s.ref[<<p, d>>].weak - Occurs(B, "WEAK_HANDLE", d)

\* The programs of p know handle d: they hold it, or read a buffer with it.
Knows(p, d, strong) ==
  /\ <<p, d>> \in DOMAIN s.ref
  /\ Beyond(p, d, strong, {b \in bufs(s, p) : ~s.buf[b].allow_user_free}) > 0

\* BC_ACQUIRE and BC_INCREFS; desc 0 is the context manager.
IncRefs(th, d, strong) ==
  LET p == ProcOf[th]
      manager == d = 0 /\ s.ctx # NoNode
      t == binder_get_thread(th)
      t1 == IF manager THEN binder_get_ref_for_node(t, p, s.ctx) ELSE t
      r == <<p, IF manager THEN desc_for_node(t, p, s.ctx) ELSE d>>
  IN  /\ Spend(ProcOf[th], "refs") /\ CanWrite(th)
      /\ manager \/ Knows(p, d, TRUE) \/ (~strong /\ Knows(p, d, FALSE))
      /\ s' = ioctl_return(binder_inc_ref(t1, r, strong, NoThread), th)

\* BC_RELEASE and BC_DECREFS.
DecRefs(th, d, strong) ==
  /\ UNCHANGED program /\ CanWrite(th)
  /\ <<ProcOf[th], d>> \in DOMAIN s.ref
  /\ Beyond(ProcOf[th], d, strong, bufs(s, ProcOf[th])) > 0
  /\ s' = ioctl_return(binder_dec_ref(binder_get_thread(th), <<ProcOf[th], d>>, strong), th)

\* BC_ACQUIRE_DONE and BC_INCREFS_DONE.
RefsDone(th, ptr, strong) ==
  LET n == <<ProcOf[th], ptr>>
      t == binder_get_thread(th)
      t1 == IF strong THEN [t EXCEPT !.node[n].pending_strong_ref = FALSE]
                      ELSE [t EXCEPT !.node[n].pending_weak_ref = FALSE]
  IN  /\ UNCHANGED program /\ CanWrite(th)
      /\ n \in DOMAIN s.node
      /\ IF strong THEN s.node[n].pending_strong_ref ELSE s.node[n].pending_weak_ref
      /\ s' = ioctl_return(binder_dec_node(t1, n, strong, FALSE), th)

\* Variant: freeing the buffer leaves the waiting transactions where they are.
FreeBuffer_stuck(th, b) ==
  LET p == ProcOf[th]
      bf == s.buf[b]
      n == bf.target_node
      t == IF bf.async_transaction
           THEN [binder_get_thread(th) EXCEPT !.node[n].has_async_transaction = FALSE]
           ELSE binder_get_thread(th)
  IN  /\ UNCHANGED program /\ CanWrite(th)
      /\ b \in bufs(s, p) /\ bf.allow_user_free
      /\ s' = ioctl_return(
                binder_free_buf(binder_transaction_buffer_release(t, p, n, bf.objs), b), th)

\* BC_FREE_BUFFER.  The next one-way transaction of the node is released to
\* the freeing thread.
FreeBuffer(th, b) ==
  LET p == ProcOf[th]
      bf == s.buf[b]
      n == bf.target_node
      t == binder_get_thread(th)
      t1 == IF bf.transaction = NoTxn THEN t
            ELSE [t EXCEPT !.txn[bf.transaction].buffer = NoBuf]
      next == s.node[n].async_todo
      t2 == BUG_ON(t1, ~s.node[n].has_async_transaction, "free_buffer")
      t3 == IF ~bf.async_transaction THEN t1
            ELSE IF next = << >> THEN [t2 EXCEPT !.node[n].has_async_transaction = FALSE]
            ELSE list_add_tail([t2 EXCEPT !.node[n].async_todo = Tail(@)], Head(next), th)
  IN  /\ UNCHANGED program /\ CanWrite(th)
      /\ b \in bufs(s, p) /\ bf.allow_user_free
      /\ s' = ioctl_return(
                binder_free_buf(binder_transaction_buffer_release(t3, p, n, bf.objs), b), th)

------------------------------------------------------------------------------
(* Transactions.                                                            *)

\* The object lists process p may send: it knows every handle among them.
Sendable(p) ==
  {l \in program[p].payload : \A i \in DOMAIN l :
     l[i][1] \in {"HANDLE", "WEAK_HANDLE"} => Knows(p, l[i][2], l[i][1] = "HANDLE")}

\* The thread is between calls, or serves one.
Serving(th) ==
  th \in DOMAIN s.thr /\ s.thr[th].stack # NoTxn /\ s.txn[s.thr[th].stack].to_thread = th
Idle(th) == th \in DOMAIN s.thr => s.thr[th].stack = NoTxn

\* A call to a handle the process knows, not while it waits for a reply.
Proper(th, tr) ==
  /\ tr.handle = 0 \/ Knows(ProcOf[th], tr.handle, TRUE)
  /\ tr.oneway \/ Idle(th) \/ Serving(th)

\* BC_TRANSACTION.
Transaction(th, tr) ==
  /\ CanWrite(th) /\ tr.objs \in Sendable(ProcOf[th])
  /\ Spend(ProcOf[th], IF ~Proper(th, tr) THEN "misuse" ELSE IF tr.oneway THEN "oneway" ELSE "call")
  /\ s' = ioctl_return(binder_call(binder_get_thread(th), th, tr), th)

\* BC_REPLY; the handle of a reply is not looked at.
Reply(th, objs) ==
  /\ CanWrite(th) /\ objs \in Sendable(ProcOf[th])
  /\ IF Serving(th) THEN UNCHANGED program ELSE Spend(ProcOf[th], "misuse")
  /\ s' = ioctl_return(binder_reply(binder_get_thread(th), th,
                                    [handle |-> 0, oneway |-> FALSE, objs |-> objs]), th)

------------------------------------------------------------------------------
(* Death notifications.                                                     *)

\* A death item goes to the calling thread if it is a looper, else to its
\* process.
add_death(t, th, d) ==
  IF t.thr[th].registered \/ t.thr[th].entered
  THEN list_add_tail(t, DeathWork(d), th)
  ELSE wake_proc(list_add_tail(t, DeathWork(d), ProcOf[th]), ProcOf[th])

\* Variant: a request for a node that is already dead is only recorded.
RequestDeath_late(th, desc, cookie) ==
  LET r == <<ProcOf[th], desc>>
      d == Alloc(s.death)
  IN  /\ Spend(ProcOf[th], "death") /\ CanWrite(th)
      /\ r \in DOMAIN s.ref /\ s.ref[r].death = NoDeath
      /\ s' = ioctl_return(
                [binder_get_thread(th) EXCEPT
                   !.death = Put(@, d, [cookie |-> cookie, type |-> "DEAD_BINDER",
                                        told |-> FALSE]),
                   !.ref[r].death = d], th)

\* BC_REQUEST_DEATH_NOTIFICATION.
RequestDeath(th, desc, cookie) ==
  LET r == <<ProcOf[th], desc>>
      t == binder_get_thread(th)
      d == Alloc(s.death)
      t1 == [t EXCEPT !.death = Put(@, d, [cookie |-> cookie, type |-> "DEAD_BINDER",
                                          told |-> FALSE]),
                      !.ref[r].death = d]
  IN  /\ Spend(ProcOf[th], "death") /\ CanWrite(th)
      /\ r \in DOMAIN s.ref /\ s.ref[r].death = NoDeath
      /\ s' = ioctl_return(IF s.node[s.ref[r].node].proc = NoProc THEN add_death(t1, th, d)
                           ELSE t1, th)

\* BC_CLEAR_DEATH_NOTIFICATION.
ClearDeath(th, desc, cookie) ==
  LET r == <<ProcOf[th], desc>>
      d == s.ref[r].death
      t == [binder_get_thread(th) EXCEPT !.ref[r].death = NoDeath]
      idle == list_empty(s, DeathWork(d))
      clear == [t EXCEPT !.death[d].type = "CLEAR_DEATH_NOTIFICATION"]
      both == [BUG_ON(t, s.death[d].type # "DEAD_BINDER", "clear_death")
                 EXCEPT !.death[d].type = "DEAD_BINDER_AND_CLEAR"]
  IN  /\ Spend(ProcOf[th], "clear") /\ CanWrite(th)
      /\ r \in DOMAIN s.ref /\ d # NoDeath /\ s.death[d].cookie = cookie
      /\ s' = ioctl_return(IF idle THEN add_death(clear, th, d) ELSE both, th)

\* BC_DEAD_BINDER_DONE: the first delivered notification with the cookie.
DeadBinderDone(th, cookie) ==
  LET p == ProcOf[th]
      match == {i \in DOMAIN s.delivered[p] : s.death[s.delivered[p][i][2]].cookie = cookie}
      d == s.delivered[p][Min(match)][2]
      t == list_del(binder_get_thread(th), DeathWork(d))
      clear == [t EXCEPT !.death[d].type = "CLEAR_DEATH_NOTIFICATION"]
  IN  /\ UNCHANGED program /\ CanWrite(th)
      /\ match # {}
      /\ s' = ioctl_return(IF s.death[d].type = "DEAD_BINDER_AND_CLEAR"
                           THEN add_death(clear, th, d) ELSE t, th)

------------------------------------------------------------------------------
(* Loopers.                                                                 *)

\* BC_REGISTER_LOOPER: counted only if the driver asked for it.
RegisterLooper(th) ==
  LET p == ProcOf[th]
      t == binder_get_thread(th)
      counted == ~t.thr[th].entered /\ s.proc[p].requested_threads > 0
      t1 == IF counted THEN [t EXCEPT !.proc[p].requested_threads = @ - 1,
                                      !.proc[p].requested_threads_started = @ + 1]
            ELSE t
  IN  /\ Spend(ProcOf[th], "register") /\ CanWrite(th)
      /\ s' = ioctl_return([t1 EXCEPT !.thr[th].registered = TRUE], th)

\* BC_ENTER_LOOPER.
EnterLooper(th) ==
  /\ Spend(ProcOf[th], "enter") /\ CanWrite(th)
  /\ s' = ioctl_return([binder_get_thread(th) EXCEPT !.thr[th].entered = TRUE], th)

\* BINDER_SET_MAX_THREADS.
SetMaxThreads(th, n) ==
  /\ Spend(ProcOf[th], "max") /\ CanCall(th)
  /\ s' = ioctl_return([binder_get_thread(th) EXCEPT !.proc[ProcOf[th]].max_threads = n], th)

------------------------------------------------------------------------------
(* Opening, exiting, closing.                                               *)

\* binder_open and binder_mmap.
Open(p) ==
  /\ UNCHANGED program
  /\ s.proc[p].state = "closed" /\ program[p].threads # {}
  /\ s' = [s EXCEPT !.proc[p].state = "open"]

\* BINDER_SET_CONTEXT_MGR.
SetContextMgr(th) ==
  LET p == ProcOf[th]
      t == binder_new_node(binder_get_thread(th), <<p, 0>>)
  IN  /\ UNCHANGED program
      /\ p \in Managers /\ CanCall(th)
      /\ s.ctx = NoNode
      /\ s.ctx_uid \in {NoUid, Euid[p]}
      /\ s' = ioctl_return(
                [t EXCEPT !.ctx = <<p, 0>>, !.ctx_uid = Euid[p],
                          !.node[<<p, 0>>].local_weak_refs = 1,
                          !.node[<<p, 0>>].local_strong_refs = 1,
                          !.node[<<p, 0>>].has_strong_ref = TRUE,
                          !.node[<<p, 0>>].has_weak_ref = TRUE], th)

\* BINDER_THREAD_EXIT.
ThreadExit(th) ==
  /\ Spend(ProcOf[th], "exit") /\ CanCall(th)
  /\ th \in DOMAIN s.thr
  /\ s' = binder_free_thread(s, th)

\* binder_flush: some descriptor of the file is closed.
Flush(p) ==
  /\ Spend(p, "flush") /\ s.proc[p].state = "open"
  /\ s' = [s EXCEPT !.proc[p].deferred = @ \cup {"FLUSH"}]

\* The process ends: binder_vma_close, binder_flush and binder_release.
Exit(p) ==
  /\ Spend(p, "die") /\ s.proc[p].state = "open"
  /\ \A th \in ThreadsOf(s, p) : s.thr[th].pc = "user"
  /\ s' = [s EXCEPT !.proc[p].state = "closing", !.proc[p].deferred = {"FLUSH", "RELEASE"}]

\* binder_deferred_flush: every thread returns to its program.
binder_deferred_flush(t, p) ==
  LET all == ThreadsOf(t, p)
      woken(th) == IF t.thr[th].pc = "asleep" THEN "check" ELSE t.thr[th].pc
  IN  [t EXCEPT !.pwait[p] = << >>,
                !.thr = [th \in DOMAIN @ |->
                           IF th \in all
                           THEN [@[th] EXCEPT !.need_return = TRUE, !.pc = woken(th)]
                           ELSE @[th]]]

\* binder_deferred_func, for one process.
DeferredFunc(p) ==
  LET work == s.proc[p].deferred
      t == [s EXCEPT !.proc[p].deferred = {}]
      flushed == IF "FLUSH" \in work THEN binder_deferred_flush(t, p) ELSE t
  IN  /\ UNCHANGED program
      /\ work # {}
      /\ s' = IF "RELEASE" \in work THEN binder_deferred_release(flushed, p) ELSE flushed

------------------------------------------------------------------------------

Init ==
  /\ program \in Programs
  /\ s = [node |-> << >>, ref |-> << >>, death |-> << >>, txn |-> << >>, buf |-> << >>,
          thr |-> << >>,
          proc |-> [p \in Procs |->
                      [state |-> "closed", deferred |-> {}, max_threads |-> 0,
                       requested_threads |-> 0, requested_threads_started |-> 0,
                       ready_threads |-> 0]],
          todo |-> [l \in Procs \cup Threads |-> << >>],
          delivered |-> [p \in Procs |-> << >>], pwait |-> [p \in Procs |-> << >>],
          ctx |-> NoNode, ctx_uid |-> NoUid, overwritten |-> {}, bug |-> {}]

ThreadStep(th) ==
  LET p == ProcOf[th]
      ds == {0} \cup descs(s, p)
  IN
  \/ ReadBegin(th) \/ ReadCheck(th) \/ ReadInterrupted(th) \/ ReadLocked(th)
  \/ \E d \in ds, strong \in BOOLEAN : IncRefs(th, d, strong) \/ DecRefs(th, d, strong)
  \/ \E ptr \in Ptrs, strong \in BOOLEAN : RefsDone(th, ptr, strong)
  \/ \E b \in DOMAIN s.buf : FreeBuffer(th, b)
  \/ \E tr \in [handle : program[p].targets, oneway : BOOLEAN, objs : program[p].payload] : Transaction(th, tr)
  \/ \E objs \in program[p].payload : Reply(th, objs)
  \/ \E d \in ds, c \in Cookies : RequestDeath(th, d, c) \/ ClearDeath(th, d, c)
  \/ \E c \in Cookies : DeadBinderDone(th, c)
  \/ RegisterLooper(th) \/ EnterLooper(th)
  \/ SetMaxThreads(th, MaxPool)
  \/ SetContextMgr(th) \/ ThreadExit(th)

Next ==
  \/ \E p \in Procs : \E th \in program[p].threads : ThreadStep(th)
  \/ \E p \in Procs : Open(p) \/ Flush(p) \/ Exit(p) \/ DeferredFunc(p)

Spec == Init /\ [][Next]_vars

------------------------------------------------------------------------------
(* Properties.                                                              *)

Count(b) == IF b THEN 1 ELSE 0

\* The lists a work item may be on.
InTodo(w) == \E l \in DOMAIN s.todo : Contains(s.todo[l], w)

\* The state has its type: every list holds items of its kinds, counts are
\* counts, and an exited process has nothing left.
TypeOK ==
  /\ \A n \in DOMAIN s.node :
       /\ n[1] \in Procs /\ s.node[n].proc \in {n[1], NoProc}
       /\ {s.node[n].internal_strong_refs, s.node[n].local_strong_refs,
           s.node[n].local_weak_refs} \subseteq Nat
  /\ \A r \in DOMAIN s.ref : r[1] \in Procs /\ {s.ref[r].strong, s.ref[r].weak} \subseteq Nat
  /\ \A l \in DOMAIN s.todo : \A i \in DOMAIN s.todo[l] :
       s.todo[l][i][1] \in {"transaction", "transaction_complete", "node", "death"}
  /\ \A p \in Procs :
       s.proc[p].state \in {"closed", "gone"} =>
         /\ ThreadsOf(s, p) = {} /\ bufs(s, p) = {} /\ descs(s, p) = {}
         /\ s.todo[p] = << >> /\ s.delivered[p] = << >>

\* No BUG() or BUG_ON() of the driver is ever reached: transaction stacks are
\* popped in order (binder_pop_transaction), an exiting thread finds itself on
\* every transaction of its stack (binder_free_thread), a delivered
\* transaction has its buffer (binder_thread_read), a dying node's
\* notifications are idle (binder_node_release).
NoBUG == s.bug = {}

\* The state has its type, and whatever points to an object points to one that
\* has not been freed.
NoDangling ==
  /\ TypeOK
  /\ LET thr == DOMAIN s.thr \cup {NoThread}
         txn == DOMAIN s.txn \cup {NoTxn}
         live(w) == CASE w[1] = "transaction" -> w[2] \in DOMAIN s.txn
                      [] w[1] = "node" -> w[2] \in DOMAIN s.node
                      [] w[1] = "death" -> w[2] \in DOMAIN s.death
                      [] OTHER -> TRUE
     IN  /\ s.ctx \in DOMAIN s.node \cup {NoNode}
         /\ \A r \in DOMAIN s.ref : /\ s.ref[r].node \in DOMAIN s.node
                                    /\ s.ref[r].death \in DOMAIN s.death \cup {NoDeath}
         /\ \A b \in DOMAIN s.buf : /\ s.buf[b].target_node \in DOMAIN s.node \cup {NoNode}
                                    /\ s.buf[b].transaction \in txn
         /\ \A t \in DOMAIN s.txn : /\ {s.txn[t].from, s.txn[t].to_thread} \subseteq thr
                                    /\ s.txn[t].from_parent \in txn
                                    /\ s.txn[t].to_thread # NoThread => s.txn[t].to_parent \in txn
                                    /\ s.txn[t].buffer \in DOMAIN s.buf \cup {NoBuf}
         /\ \A th \in DOMAIN s.thr : s.thr[th].stack \in txn
         /\ \A l \in DOMAIN s.todo : \A i \in DOMAIN s.todo[l] : live(s.todo[l][i])
         /\ \A p \in Procs : \A i \in DOMAIN s.delivered[p] : live(s.delivered[p][i])

\* A handle in a buffer of a process stays valid until the buffer is freed:
\* each occurrence holds a strong count of its own.
HandlesPinned ==
  \A b \in DOMAIN s.buf : \A i \in DOMAIN s.buf[b].objs :
    LET o == s.buf[b].objs[i]
        r == <<s.buf[b].proc, o[2]>>
    IN  o[1] = "HANDLE" => r \in DOMAIN s.ref /\ Beyond(r[1], o[2], TRUE, bufs(s, r[1])) >= 0

\* The counts of a node are exactly the references, buffers and announcements
\* that hold it, and a handle in a buffer holds a strong count of its own:
\* nothing keeps a node or a reference alive that nobody can release, and
\* nothing frees one somebody holds.
NodeCounts ==
  /\ HandlesPinned
  /\ \A n \in DOMAIN s.node :
       LET nd == s.node[n] IN
       /\ nd.internal_strong_refs = Cardinality({r \in refs(s, n) : s.ref[r].strong > 0})
       /\ nd.proc # NoProc =>
            /\ nd.local_strong_refs =
                 Cardinality({b \in DOMAIN s.buf : s.buf[b].target_node = n})
                   + Occurs(bufs(s, nd.proc), "BINDER", n[2])
                   + Count(nd.pending_strong_ref) + Count(n = s.ctx)
            /\ nd.local_weak_refs =
                 Occurs(bufs(s, nd.proc), "WEAK_BINDER", n[2])
                   + Count(nd.pending_weak_ref) + Count(n = s.ctx)

\* ready_threads counts the threads waiting for process work, and at most one
\* new thread is on order at a time.
PoolCounts ==
  \A p \in Procs : s.proc[p].state = "open" =>
    /\ s.proc[p].ready_threads =
         Cardinality({th \in ThreadsOf(s, p) :
                        s.thr[th].wait_for_proc_work /\ s.thr[th].pc # "user"})
    /\ s.proc[p].requested_threads <= 1

\* A thread that sleeps has nothing to do: no wake-up is lost, and work queued
\* on a process has woken one of its sleeping threads.  ready_threads, which
\* decides whether another thread is started, counts the waiting ones exactly.
NoSleepOverWork ==
  /\ PoolCounts
  /\ \A th \in DOMAIN s.thr :
       s.thr[th].pc = "asleep" =>
         /\ s.todo[th] = << >> /\ s.thr[th].return_error = "OK" /\ ~s.thr[th].need_return
         /\ s.thr[th].wait_for_proc_work /\ s.todo[ProcOf[th]] # << >> =>
              \E u \in ThreadsOf(s, ProcOf[th]) :
                s.thr[u].wait_for_proc_work /\ s.thr[u].pc \in {"check", "lock"}

\* The thread that serves a call on top of its stack finds the caller waiting
\* for that very call, so its reply is accepted.
StacksMeet ==
  \A th \in DOMAIN s.thr :
    LET t == s.thr[th].stack IN
    t # NoTxn /\ s.txn[t].to_thread = th /\ s.txn[t].from # NoThread =>
      s.thr[s.txn[t].from].stack = t

\* The transactions on the stack of th, t being its top.
RECURSIVE stack_of(_, _, _)
stack_of(th, t, seen) ==
  IF t = NoTxn \/ t \in seen THEN seen
  ELSE stack_of(th, IF s.txn[t].to_thread = th /\ s.txn[t].to_parent # t
                    THEN s.txn[t].to_parent ELSE s.txn[t].from_parent, seen \cup {t})

\* The calls somebody will answer: queued, on the stack of the thread that
\* serves them, or next to be failed when the answer to such a call finds its
\* sender gone.
RECURSIVE answerable(_)
answerable(known) ==
  LET more == {t \in DOMAIN s.txn : \E u \in known : s.txn[u].from = NoThread
                                                    /\ s.txn[u].from_parent = t}
  IN  IF more \subseteq known THEN known ELSE answerable(known \cup more)

\* A thread waiting for a reply is not forgotten, whichever threads and
\* processes of its call chain exit: some live thread or list still holds the
\* call, or its result is already queued.
CallerAnswered ==
  LET served == {t \in DOMAIN s.txn :
                   \/ InTodo(TxnWork(t))
                   \/ \E th \in DOMAIN s.thr :
                        s.txn[t].to_thread = th /\ t \in stack_of(th, s.thr[th].stack, {})}
      heard == answerable(served)
  IN  \A t \in DOMAIN s.txn : s.txn[t].from # NoThread => t \in heard

\* The owner of a node will be told of every change it has not been told of:
\* the node is on a list of its process.  It is a promise to processes whose
\* threads do not leave: binder_release_work drops the node work of a thread
\* that exits, and no program this is checked on has one.
OwnerWillKnow ==
  \A n \in DOMAIN s.node :
    LET nd == s.node[n]
        strong == nd.internal_strong_refs # 0 \/ nd.local_strong_refs # 0
        weak == refs(s, n) # {} \/ nd.local_weak_refs # 0 \/ strong
    IN  nd.proc # NoProc /\ (strong # nd.has_strong_ref \/ weak # nd.has_weak_ref) =>
          InTodo(NodeWork(n))

\* One-way transactions of a node run one at a time: while the node is busy
\* exactly one is queued or in the hands of its program, and while it is not,
\* none waits.
OnewaySerial ==
  \A n \in DOMAIN s.node :
    LET out == {b \in DOMAIN s.buf :
                  /\ s.buf[b].async_transaction /\ s.buf[b].target_node = n
                  /\ s.buf[b].allow_user_free \/ InTodo(TxnWork(s.buf[b].transaction))}
    IN  s.node[n].proc # NoProc =>
          /\ Cardinality(out) = Count(s.node[n].has_async_transaction)
          /\ s.node[n].async_todo # << >> => s.node[n].has_async_transaction

\* A process that asked to be told of a node's death has been told, or the
\* notification is on one of its lists.
DeathKept ==
  \A r \in DOMAIN s.ref :
    LET d == s.ref[r].death IN
    d # NoDeath /\ s.node[s.ref[r].node].proc = NoProc /\ ~s.death[d].told =>
      InTodo(DeathWork(d))

\* binder_thread_read's comment: without the leading BR_NOOP "the real first
\* command" is "directly at word 0 for every client".
FirstCommandKept == s.overwritten = {}

=============================================================================
