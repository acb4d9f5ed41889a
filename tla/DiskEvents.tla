----------------------------- MODULE DiskEvents -----------------------------
(***************************************************************************)
(* The disk events of the block layer (patches/kernel/genhd.c): one disk   *)
(* whose driver is polled for media changes and eject requests by a        *)
(* delayed work, and the callers that block, flush, clear and configure    *)
(* that polling while the disk is added, removed and released.             *)
(*                                                                         *)
(* A step is what runs between two points where others can get in: a       *)
(* section under ev->lock, a call of the driver, a wait.  The callers, the *)
(* driver and the workqueue (timer, queue, cancellation) are external and  *)
(* do what genhd.c uses them for.  The uevent that follows a check ends    *)
(* the section that found the events: nothing here reads it.               *)
(***************************************************************************)
EXTENDS Integers, FiniteSets

CONSTANTS
  Events,         \* the events of the disk (disk->events)
  AsyncEvents,    \* those the driver reports by itself (disk->async_events)
  Callers,        \* threads that call into the disk events code
  NoCaller,       \* nobody holds ev->block_mutex
  Ops,            \* Ops[c]: the operations caller c may start
  MaxOps,         \* bound on the operations of one caller
  MaxChanges,     \* bound on the events the hardware produces
  Masks,          \* the sets of events callers clear and flush
  Intervals       \* the intervals written to sysfs: -1 default, 0 off, 1 on

ASSUME EventsAssumption ==
  /\ AsyncEvents \subseteq Events
  /\ Masks \subseteq SUBSET Events
  /\ Intervals \subseteq {-1, 0, 1}
  /\ NoCaller \notin Callers /\ IsFiniteSet(Callers)
  /\ MaxOps \in Nat

\* The driver calls del_gendisk once, from one place.
ASSUME OneRemover == \A c, d \in Callers : "del" \in Ops[c] /\ "del" \in Ops[d] => c = d

VARIABLES
  stage,          \* "new", "attrs", "listed", "added", "unlisted", "deleted" or "released"
  ev,             \* struct disk_events
  dfl,            \* disk_events_dfl_poll_msecs, 0 off and 1 on
  fn,             \* the execution of disk_events_workfn
  call,           \* call[c]: what caller c is doing
  ops,            \* ops[c]: operations c has started
  latched,        \* the events the driver holds
  changes,        \* events the hardware has produced
  undelivered     \* events no disk_clear_events has returned yet

vars == <<stage, ev, dfl, fn, call, ops, latched, changes, undelivered>>

\* events: what the driver reported and is not in ev->pending yet; due: what
\* a disk_clear_events has to return.
Idle == [op |-> "none", pc |-> "idle", mask |-> {}, clearing |-> {}, events |-> {},
         arg |-> 0, due |-> {}]
IdleFn == [pc |-> "idle", clearing |-> {}, events |-> {}]

------------------------------------------------------------------------------
(* Polling interval and delayed work, on a struct disk_events e.  The work  *)
(* is "idle", on its "timer", "queued", or "canceling".                     *)

disk_events_poll_jiffies(e, default) ==
  IF e.poll_msecs >= 0 THEN e.poll_msecs
  ELSE IF Events \ AsyncEvents # {} THEN default ELSE 0

\* A delayed work that is pending, or being cancelled, is not queued again.
queue_delayed_work(e, delay) ==
  IF e.work # "idle" THEN e ELSE [e EXCEPT !.work = IF delay = 0 THEN "queued" ELSE "timer"]

\* mod_delayed_work with no delay: whatever was pending runs now.
mod_delayed_work(e) == IF e.work = "canceling" THEN e ELSE [e EXCEPT !.work = "queued"]

Timer ==
  /\ ev.work = "timer"
  /\ ev' = [ev EXCEPT !.work = "queued"]
  /\ UNCHANGED <<stage, dfl, fn, call, ops, latched, changes, undelivered>>

------------------------------------------------------------------------------
(* The driver.                                                              *)

\* The hardware produces an event that is not waiting to be fetched already.
Change(e) ==
  /\ changes < MaxChanges /\ stage # "released" /\ e \notin undelivered
  /\ latched' = latched \cup {e}
  /\ undelivered' = undelivered \cup {e}
  /\ changes' = changes + 1
  /\ UNCHANGED <<stage, ev, dfl, fn, call, ops>>

\* check_events(disk, clr) returns what the driver holds and forgets what it is
\* told to clear; drivers may forget the rest too.
check_events(clr) == \E kept \in SUBSET (latched \ clr) : latched' = kept

------------------------------------------------------------------------------
(* disk_check_events, run by the work and by disk_clear_events.             *)

\* Variant: what a check found replaces what is pending.
check_pending_replaced(e, found) == [e EXCEPT !.pending = found]

check_pending(e, found) == [e EXCEPT !.pending = @ \cup found]

\* Variant: the next poll is scheduled only when something is pending.
check_requeue_found(e) ==
  LET intv == disk_events_poll_jiffies(e, dfl) IN
  IF e.block = 0 /\ intv # 0 /\ e.pending # {} THEN queue_delayed_work(e, intv) ELSE e

\* The next poll, when nobody blocks.
check_requeue(e) ==
  LET intv == disk_events_poll_jiffies(e, dfl) IN
  IF e.block = 0 /\ intv # 0 THEN queue_delayed_work(e, intv) ELSE e

\* The workqueue runs the work, which is then no longer pending.
WorkStart ==
  /\ ev.work = "queued" /\ fn.pc = "idle"
  /\ ev' = [ev EXCEPT !.work = "idle"]
  /\ fn' = [fn EXCEPT !.pc = "read"]
  /\ UNCHANGED <<stage, dfl, call, ops, latched, changes, undelivered>>

\* clearing = *clearing_ptr, without the lock.
WorkRead ==
  /\ fn.pc = "read"
  /\ fn' = [fn EXCEPT !.pc = "check", !.clearing = ev.clearing]
  /\ UNCHANGED <<stage, ev, dfl, call, ops, latched, changes, undelivered>>

WorkCheck ==
  /\ fn.pc = "check"
  /\ check_events(fn.clearing)
  /\ fn' = [fn EXCEPT !.pc = "locked", !.events = latched]
  /\ UNCHANGED <<stage, ev, dfl, call, ops, changes, undelivered>>

WorkLocked ==
  /\ fn.pc = "locked"
  /\ ev' = check_requeue([check_pending(ev, fn.events) EXCEPT !.clearing = @ \ fn.clearing])
  /\ fn' = IdleFn
  /\ UNCHANGED <<stage, dfl, call, ops, latched, changes, undelivered>>

Work == WorkStart \/ WorkRead \/ WorkCheck \/ WorkLocked

------------------------------------------------------------------------------
(* Blocking.                                                                *)

goes(c, pc) == call' = [call EXCEPT ![c].pc = pc]

\* ev->block_mutex is released by the first blocker once the work is gone, by
\* the others at once.
BlockLock(c) ==
  /\ call[c].pc = "lock" /\ ev.block_mutex = NoCaller
  /\ ev' = [ev EXCEPT !.block = @ + 1, !.block_mutex = IF ev.block = 0 THEN c ELSE NoCaller]
  /\ goes(c, IF ev.block = 0 THEN "cancel" ELSE "blocked")
  /\ UNCHANGED <<stage, dfl, fn, ops, latched, changes, undelivered>>

\* cancel_delayed_work_sync takes the work off its timer or queue ...
BlockCancel(c) ==
  /\ call[c].pc = "cancel"
  /\ ev' = [ev EXCEPT !.work = "canceling"]
  /\ goes(c, "wait")
  /\ UNCHANGED <<stage, dfl, fn, ops, latched, changes, undelivered>>

\* Variant: a running work is not waited for.
cancelled_early(c) == call[c].pc = "wait"

cancelled(c) == call[c].pc = "wait" /\ fn.pc = "idle"

\* ... and waits for an execution in progress.
BlockWait(c) ==
  /\ cancelled(c)
  /\ ev' = [ev EXCEPT !.work = "idle", !.block_mutex = NoCaller]
  /\ goes(c, "blocked")
  /\ UNCHANGED <<stage, dfl, fn, ops, latched, changes, undelivered>>

\* __disk_unblock_events.
unblocked(e, check_now) ==
  LET open == [e EXCEPT !.block = @ - 1]
      intv == disk_events_poll_jiffies(e, dfl)
  IN  CASE e.block <= 0 -> e
        [] e.block > 1 -> open
        [] e.block = 1 /\ check_now -> queue_delayed_work(open, 0)
        [] e.block = 1 /\ ~check_now /\ intv # 0 -> queue_delayed_work(open, intv)
        [] OTHER -> open

disk_unblock_events(c) ==
  /\ call[c].op = "block" /\ call[c].pc = "blocked"
  /\ ev' = unblocked(ev, FALSE)
  /\ call' = [call EXCEPT ![c] = Idle]
  /\ UNCHANGED <<stage, dfl, fn, ops, latched, changes, undelivered>>

------------------------------------------------------------------------------
(* The operations of the callers.                                           *)

\* The events sysfs file exists; sysfs_remove_files waits for its writers.
HasAttrs == stage \in {"attrs", "listed", "added", "unlisted"}

\* An operation that begins with disk_block_events.
Begin(c, op, mask, arg) ==
  /\ call[c].pc = "idle" /\ op \in Ops[c] /\ ops[c] < MaxOps /\ stage # "released"
  /\ op = "store" => HasAttrs
  /\ op = "del" => stage = "added"
  /\ call' = [call EXCEPT ![c] = [Idle EXCEPT !.op = op, !.pc = "lock", !.mask = mask,
                                              !.arg = arg, !.due = undelivered \cap mask]]
  /\ ops' = [ops EXCEPT ![c] = @ + 1]
  /\ UNCHANGED <<stage, ev, dfl, fn, latched, changes, undelivered>>

flushed(e, mask) ==
  LET told == [e EXCEPT !.clearing = @ \cup mask] IN
  IF e.block = 0 THEN mod_delayed_work(told) ELSE told

disk_flush_events(c, mask) ==
  /\ call[c].pc = "idle" /\ "flush" \in Ops[c] /\ ops[c] < MaxOps /\ stage # "released"
  /\ ev' = flushed(ev, mask)
  /\ ops' = [ops EXCEPT ![c] = @ + 1]
  /\ UNCHANGED <<stage, dfl, fn, call, latched, changes, undelivered>>

\* disk_clear_events, blocked: ev->clearing moves to the stack.
ClearTake(c) ==
  /\ call[c].op = "clear" /\ call[c].pc = "blocked"
  /\ call' = [call EXCEPT ![c].pc = "check", ![c].clearing = @ \cup call[c].mask \cup ev.clearing]
  /\ ev' = [ev EXCEPT !.clearing = {}]
  /\ UNCHANGED <<stage, dfl, fn, ops, latched, changes, undelivered>>

ClearCheck(c) ==
  /\ call[c].pc = "check"
  /\ check_events(call[c].clearing)
  /\ call' = [call EXCEPT ![c].pc = "locked", ![c].events = latched]
  /\ UNCHANGED <<stage, ev, dfl, fn, ops, changes, undelivered>>

ClearLocked(c) ==
  /\ call[c].pc = "locked"
  /\ ev' = check_requeue(check_pending(ev, call[c].events))
  /\ call' = [call EXCEPT ![c].pc = "kick", ![c].events = {}, ![c].clearing = {}]
  /\ UNCHANGED <<stage, dfl, fn, ops, latched, changes, undelivered>>

\* ev->clearing is read before the lock is taken.
ClearKick(c) ==
  /\ call[c].pc = "kick"
  /\ call' = [call EXCEPT ![c].pc = "unblock", ![c].arg = IF ev.clearing # {} THEN 1 ELSE 0]
  /\ UNCHANGED <<stage, ev, dfl, fn, ops, latched, changes, undelivered>>

ClearUnblock(c) ==
  /\ call[c].op = "clear" /\ call[c].pc = "unblock"
  /\ ev' = unblocked(ev, call[c].arg = 1)
  /\ goes(c, "fetch")
  /\ UNCHANGED <<stage, dfl, fn, ops, latched, changes, undelivered>>

\* Returns pending & mask; what it returns nobody else has to.
ClearFetch(c) ==
  LET result == ev.pending \cap call[c].mask IN
  /\ call[c].pc = "fetch"
  /\ ev' = [ev EXCEPT !.pending = @ \ call[c].mask]
  /\ undelivered' = undelivered \ result
  /\ call' = [[d \in Callers |-> [call[d] EXCEPT !.due = @ \ result]] EXCEPT ![c] = Idle]
  /\ UNCHANGED <<stage, dfl, fn, ops, latched, changes>>

\* disk_events_poll_msecs_store, blocked.
StoreSet(c) ==
  /\ call[c].op = "store" /\ call[c].pc = "blocked"
  /\ ev' = [ev EXCEPT !.poll_msecs = call[c].arg]
  /\ goes(c, "unblock")
  /\ UNCHANGED <<stage, dfl, fn, ops, latched, changes, undelivered>>

StoreUnblock(c) ==
  /\ call[c].op = "store" /\ call[c].pc = "unblock"
  /\ ev' = unblocked(ev, TRUE)
  /\ call' = [call EXCEPT ![c] = Idle]
  /\ UNCHANGED <<stage, dfl, fn, ops, latched, changes, undelivered>>

\* disk_events_set_dfl_poll_msecs: the parameter changes first ...
SetDefault(c, value) ==
  /\ call[c].pc = "idle" /\ "default" \in Ops[c] /\ ops[c] < MaxOps
  /\ dfl' = value
  /\ call' = [call EXCEPT ![c] = [Idle EXCEPT !.op = "default", !.pc = "list"]]
  /\ ops' = [ops EXCEPT ![c] = @ + 1]
  /\ UNCHANGED <<stage, ev, fn, latched, changes, undelivered>>

\* ... then every disk on the list is flushed, under disk_events_mutex.
SetDefaultList(c) ==
  /\ call[c].pc = "list"
  /\ ev' = IF stage \in {"listed", "added"} THEN flushed(ev, {}) ELSE ev
  /\ call' = [call EXCEPT ![c] = Idle]
  /\ UNCHANGED <<stage, dfl, fn, ops, latched, changes, undelivered>>

------------------------------------------------------------------------------
(* Adding and removing the disk.                                            *)

AddAttrs ==
  /\ stage = "new"
  /\ stage' = "attrs"
  /\ UNCHANGED <<ev, dfl, fn, call, ops, latched, changes, undelivered>>

AddList ==
  /\ stage = "attrs"
  /\ stage' = "listed"
  /\ UNCHANGED <<ev, dfl, fn, call, ops, latched, changes, undelivered>>

AddUnblock ==
  /\ stage = "listed"
  /\ stage' = "added"
  /\ ev' = unblocked(ev, TRUE)
  /\ UNCHANGED <<dfl, fn, call, ops, latched, changes, undelivered>>

\* disk_del_events keeps what disk_block_events took.
DelList(c) ==
  /\ call[c].op = "del" /\ call[c].pc = "blocked"
  /\ stage' = "unlisted"
  /\ goes(c, "sysfs")
  /\ UNCHANGED <<ev, dfl, fn, ops, latched, changes, undelivered>>

DelAttrs(c) ==
  /\ call[c].pc = "sysfs" /\ \A d \in Callers : call[d].op # "store"
  /\ stage' = "deleted"
  /\ call' = [call EXCEPT ![c] = Idle]
  /\ UNCHANGED <<ev, dfl, fn, ops, latched, changes, undelivered>>

\* disk_release_events, when the last caller has dropped the disk.
disk_release_events ==
  /\ stage = "deleted" /\ \A c \in Callers : call[c].op \in {"none", "default"}
  /\ stage' = "released"
  /\ UNCHANGED <<ev, dfl, fn, call, ops, latched, changes, undelivered>>

------------------------------------------------------------------------------
\* disk_alloc_events.
Init ==
  /\ stage = "new"
  /\ ev = [block |-> 1, block_mutex |-> NoCaller, pending |-> {}, clearing |-> {},
           poll_msecs |-> -1, work |-> "idle"]
  /\ dfl \in {0, 1}
  /\ fn = IdleFn /\ call = [c \in Callers |-> Idle] /\ ops = [c \in Callers |-> 0]
  /\ latched = {} /\ changes = 0 /\ undelivered = {}

\* The steps of an operation once it has begun.
Step(c) ==
  \/ BlockLock(c) \/ BlockCancel(c) \/ BlockWait(c)
  \/ ClearTake(c) \/ ClearCheck(c) \/ ClearLocked(c)
  \/ ClearKick(c) \/ ClearUnblock(c) \/ ClearFetch(c)
  \/ StoreSet(c) \/ StoreUnblock(c) \/ SetDefaultList(c)
  \/ DelList(c) \/ DelAttrs(c) \/ disk_unblock_events(c)

Start(c) ==
  \/ \E mask \in Masks : Begin(c, "clear", mask, 0) \/ disk_flush_events(c, mask)
  \/ \E msecs \in Intervals : Begin(c, "store", {}, msecs)
  \/ Begin(c, "block", {}, 0) \/ Begin(c, "del", {}, 0)
  \/ \E value \in {0, 1} : SetDefault(c, value)

Next ==
  \/ \E c \in Callers : Step(c) \/ Start(c)
  \/ \E e \in Events : Change(e)
  \/ Timer \/ Work \/ AddAttrs \/ AddList \/ AddUnblock \/ disk_release_events

Spec == Init /\ [][Next]_vars

\* Timers expire, the workqueue runs its work, and a thread that has begun an
\* operation goes on with it: a blocker unblocks in the end.  Nobody has to
\* begin anything.
FairSpec ==
  /\ Spec /\ WF_vars(Timer) /\ WF_vars(Work)
  /\ \A c \in Callers : WF_vars(Step(c))

------------------------------------------------------------------------------
(* Properties.                                                              *)

\* Who has raised ev->block, and who has returned from disk_block_events.
Holding == {c \in Callers : call[c].pc \notin {"idle", "lock", "fetch", "list"}}
Blocking == {c \in Holding : call[c].pc \notin {"cancel", "wait"}}
Closed == stage \notin {"added", "unlisted"}

TypeOK ==
  /\ stage \in {"new", "attrs", "listed", "added", "unlisted", "deleted", "released"}
  /\ ev \in [block : Nat, block_mutex : Callers \cup {NoCaller}, pending : SUBSET Events,
             clearing : SUBSET Events, poll_msecs : {-1, 0, 1},
             work : {"idle", "timer", "queued", "canceling"}]
  /\ fn \in [pc : {"idle", "read", "check", "locked"}, clearing : SUBSET Events,
             events : SUBSET Events]
  /\ \A c \in Callers : /\ call[c].events \subseteq Events /\ call[c].due \subseteq Events
                         /\ ops[c] \in 0 .. MaxOps

\* After disk_block_events returns, event checking by the work is not in
\* progress and does not begin until the matching unblock, whoever else blocks,
\* unblocks, flushes or changes the interval meanwhile; the block count is the
\* number of those who hold it, so that disk_release_events finds 1 and no
\* work is left to touch the freed events.
BlockedQuiet ==
  /\ TypeOK
  /\ ev.block = Cardinality(Holding) + (IF Closed THEN 1 ELSE 0)
  /\ Blocking # {} \/ Closed => ev.work = "idle" /\ fn.pc = "idle"

\* disk_clear_events returns every event that happened before it was called,
\* unless another caller got it meanwhile or holds it in its own check: no
\* check in progress, blocked interval or flush hides one.
ClearSees ==
  \A c \in Callers : call[c].pc = "fetch" =>
    call[c].due \subseteq ev.pending \cup UNION {call[d].events : d \in Callers}

\* While events are polled for and nobody blocks, an event of the driver
\* becomes pending: no way of unblocking, flushing or changing the interval
\* lets the polling die.
Polling == stage = "added" /\ ev.block = 0 /\ disk_events_poll_jiffies(ev, dfl) # 0
EventNoticed ==
  \A e \in Events :
    (e \in latched /\ Polling) ~> (e \notin latched \/ e \in ev.pending \/ ~Polling)

=============================================================================
