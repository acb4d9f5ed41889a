-------------------------- MODULE DiskEventsProofs --------------------------
(***************************************************************************)
(* BlockedQuiet and ClearSees for any number of callers, operations and    *)
(* events: while somebody is blocking, the work neither runs nor is        *)
(* pending, and the block count is exact; and disk_clear_events returns    *)
(* what happened before it was called.                                     *)
(*                                                                         *)
(* BlockedQuiet is not inductive.  It says nothing of the blocker that is  *)
(* still cancelling the work: Mutexed adds that this one holds             *)
(* ev->block_mutex and is the only one to have raised the count, and       *)
(* Removing that the disk is removed in order.  ClearSees follows from     *)
(* where an event can be on its way to a caller: see Sees.                 *)
(***************************************************************************)
EXTENDS DiskEvents, FiniteSetTheorems, TLAPS

Pcs == {"idle", "lock", "cancel", "wait", "blocked", "check", "locked", "kick", "unblock",
        "fetch", "sysfs", "list"}
Calls == [op : {"none", "block", "clear", "store", "default", "del"}, pc : Pcs,
          mask : SUBSET Events, clearing : SUBSET Events, events : SUBSET Events, arg : {-1, 0, 1}, due : SUBSET Events]

Evs == [block : Nat, block_mutex : Callers \cup {NoCaller}, pending : SUBSET Events,
        clearing : SUBSET Events, poll_msecs : {-1, 0, 1},
        work : {"idle", "timer", "queued", "canceling"}]

Types ==
  /\ TypeOK
  /\ call \in [Callers -> Calls]
  /\ ops \in [Callers -> 0 .. MaxOps]
  /\ dfl \in {0, 1}
  /\ latched \in SUBSET Events /\ undelivered \in SUBSET Events

Count == ev.block = Cardinality(Holding) + (IF Closed THEN 1 ELSE 0)

Canceling == {c \in Callers : call[c].pc \in {"cancel", "wait"}}

Mutexed ==
  /\ \A c \in Canceling : ev.block_mutex = c /\ Holding = {c} /\ ~Closed
  /\ ev.block_mutex # NoCaller => ev.block_mutex \in Canceling

Quiet == Blocking # {} \/ Closed => ev.work = "idle" /\ fn.pc = "idle"

RemovingBy(c) ==
  /\ call[c].pc = "sysfs" => call[c].op = "del"
  /\ call[c].op = "del" =>
       /\ "del" \in Ops[c]
       /\ call[c].pc \in {"lock", "cancel", "wait", "blocked", "sysfs"}
       /\ stage = IF call[c].pc = "sysfs" THEN "unlisted" ELSE "added"

Removing == \A c \in Callers : RemovingBy(c)

IInv == Types /\ Count /\ Mutexed /\ Quiet /\ Removing

------------------------------------------------------------------------------
(* What the operators on a struct disk_events change.                       *)

\* queue_delayed_work touches the work only.
LEMMA QueueWork ==
  ASSUME NEW e \in Evs, NEW delay
  PROVE  LET q == queue_delayed_work(e, delay) IN
         /\ q \in Evs /\ q.block = e.block /\ q.block_mutex = e.block_mutex
         /\ q.pending = e.pending
  BY DEF queue_delayed_work, Evs

\* The end of disk_check_events leaves a blocked work alone.
LEMMA Requeue ==
  ASSUME NEW e \in Evs
  PROVE  LET q == check_requeue(e) IN
         /\ q \in Evs /\ q.block = e.block /\ q.block_mutex = e.block_mutex
         /\ q.pending = e.pending /\ (e.block # 0 => q.work = e.work)
  BY QueueWork DEF check_requeue

\* So does disk_flush_events.
LEMMA Flushed ==
  ASSUME NEW e \in Evs, NEW mask \in SUBSET Events
  PROVE  LET q == flushed(e, mask) IN
         /\ q \in Evs /\ q.block = e.block /\ q.block_mutex = e.block_mutex
         /\ q.pending = e.pending /\ (e.block # 0 => q.work = e.work)
<1> DEFINE told == [e EXCEPT !.clearing = @ \cup mask]
<1>1. /\ told \in Evs /\ told.block = e.block /\ told.block_mutex = e.block_mutex
      /\ told.work = e.work /\ told.pending = e.pending
  BY DEF Evs
<1>2. flushed(e, mask) = IF e.block = 0 THEN mod_delayed_work(told) ELSE told
  BY DEF flushed
<1> HIDE DEF told
<1>3. LET q == mod_delayed_work(told) IN
      /\ q \in Evs /\ q.block = told.block /\ q.block_mutex = told.block_mutex
      /\ q.pending = told.pending
  BY <1>1 DEF mod_delayed_work, Evs
<1> QED
  BY <1>1, <1>2, <1>3

\* __disk_unblock_events lowers the count and starts the work at zero only.
LEMMA Unblocked ==
  ASSUME NEW e \in Evs, NEW now \in BOOLEAN, e.block >= 1
  PROVE  LET q == unblocked(e, now) IN
         /\ q \in Evs /\ q.block = e.block - 1 /\ q.block_mutex = e.block_mutex
         /\ q.pending = e.pending /\ (e.block # 1 => q.work = e.work)
<1> DEFINE open == [e EXCEPT !.block = @ - 1]
           intv == disk_events_poll_jiffies(e, dfl)
<1>1. /\ open \in Evs /\ open.block = e.block - 1 /\ open.block_mutex = e.block_mutex
      /\ open.work = e.work /\ open.pending = e.pending
  BY DEF Evs
<1>2. \/ unblocked(e, now) = open
      \/ e.block = 1 /\ \E delay \in {0, intv} : unblocked(e, now) = queue_delayed_work(open, delay)
  BY DEF unblocked, Evs
<1> HIDE DEF open, intv
<1>3. CASE unblocked(e, now) = open
  BY <1>1, <1>3
<1>4. ASSUME e.block = 1, NEW delay, unblocked(e, now) = queue_delayed_work(open, delay)
      PROVE  LET q == unblocked(e, now) IN
             /\ q \in Evs /\ q.block = e.block - 1 /\ q.block_mutex = e.block_mutex
             /\ q.pending = e.pending
  BY <1>1, <1>4, QueueWork
<1>5. QED
  BY <1>2, <1>3, <1>4

\* disk_check_events adds what it found to what is pending.
LEMMA Pending ==
  ASSUME NEW e \in Evs, NEW found \in SUBSET Events
  PROVE  LET q == check_pending(e, found) IN
         /\ q \in Evs /\ q.block = e.block /\ q.block_mutex = e.block_mutex
         /\ q.work = e.work /\ q.clearing = e.clearing /\ q.pending = e.pending \cup found
  BY DEF check_pending, Evs

------------------------------------------------------------------------------
(* The block count.                                                         *)

\* The count is zero exactly when nobody holds it and the disk is open.
LEMMA Zero ==
  ASSUME Types, Count
  PROVE  /\ IsFiniteSet(Holding) /\ Cardinality(Holding) \in Nat
         /\ ev.block = 0 <=> Holding = {} /\ ~Closed
<1>1. Holding \in SUBSET Callers
  BY DEF Holding
<1>2. IsFiniteSet(Holding) /\ Cardinality(Holding) \in Nat
  BY <1>1, EventsAssumption, FS_Subset, FS_CardinalityType
<1>3. Cardinality(Holding) = 0 <=> Holding = {}
  BY <1>2, FS_EmptySet
<1>4. QED
  BY <1>2, <1>3 DEF Count

\* A step by which nobody starts or stops to block, and that starts no work
\* while somebody does, keeps the three facts about blocking.
LEMMA Frame ==
  ASSUME Count, Mutexed, Quiet,
         Holding' = Holding, Blocking' = Blocking, Canceling' = Canceling, Closed' = Closed,
         ev'.block = ev.block, ev'.block_mutex = ev.block_mutex,
         Blocking # {} \/ Closed => ev'.work = ev.work /\ fn'.pc = fn.pc
  PROVE  Count' /\ Mutexed' /\ Quiet'
  BY DEF Count, Mutexed, Quiet
------------------------------------------------------------------------------
(* Steps of the work and of the hardware.                                   *)

\* No call moves: the phases of the callers are what they were.
LEMMA CallsStay ==
  ASSUME UNCHANGED <<call, stage>>
  PROVE  /\ Holding' = Holding /\ Blocking' = Blocking /\ Canceling' = Canceling
         /\ Closed' = Closed /\ (Removing => Removing')
  BY DEF Holding, Blocking, Canceling, Closed, Removing, RemovingBy

\* The timer, the work and the hardware.
LEMMA WorkStep ==
  ASSUME IInv, Timer \/ Work \/ (\E e \in Events : Change(e))
  PROVE  IInv'
<1>1. /\ Types /\ Count /\ Mutexed /\ Quiet /\ Removing /\ ev \in Evs
      /\ UNCHANGED <<call, stage, ops, dfl>>
  BY DEF IInv, Types, TypeOK, Evs, Timer, Work, WorkStart, WorkRead, WorkCheck, WorkLocked, Change
<1>2. /\ Holding' = Holding /\ Blocking' = Blocking /\ Canceling' = Canceling
      /\ Closed' = Closed /\ Removing'
  BY <1>1, CallsStay
<1>3. CASE Timer
  <2>1. /\ ev'.block = ev.block /\ ev'.block_mutex = ev.block_mutex /\ ev.work # "idle"
        /\ ev' \in Evs /\ UNCHANGED <<fn, latched, undelivered>>
    BY <1>1, <1>3 DEF Timer, Evs
  <2>2. Types'
    BY <1>1, <2>1 DEF Types, TypeOK, Evs
  <2>3. QED
    BY <1>1, <1>2, <2>1, <2>2, Frame DEF IInv, Quiet
<1>4. CASE WorkStart
  <2>1. /\ ev'.block = ev.block /\ ev'.block_mutex = ev.block_mutex /\ ev.work # "idle"
        /\ ev' \in Evs /\ fn' = [fn EXCEPT !.pc = "read"] /\ UNCHANGED <<latched, undelivered>>
    BY <1>1, <1>4 DEF WorkStart, Evs
  <2>2. Types'
    BY <1>1, <2>1 DEF Types, TypeOK, Evs
  <2>3. QED
    BY <1>1, <1>2, <2>1, <2>2, Frame DEF IInv, Quiet
<1>5. CASE WorkRead \/ WorkCheck
  <2>1. ev' = ev /\ fn.pc # "idle" /\ undelivered' = undelivered
    BY <1>5 DEF WorkRead, WorkCheck
  <2>2. latched' \in SUBSET Events
    BY <1>1, <1>5 DEF WorkRead, WorkCheck, check_events, Types
  <2>3. fn' \in [pc : {"idle", "read", "check", "locked"}, clearing : SUBSET Events,
                 events : SUBSET Events]
    BY Zenon, <1>1, <1>5 DEF WorkRead, WorkCheck, Types, TypeOK, Evs
  <2>4. Types'
    BY <1>1, <2>1, <2>2, <2>3 DEF Types, TypeOK
  <2>5. QED
    BY <1>1, <1>2, <2>1, <2>4, Frame DEF IInv, Quiet
<1>6. CASE WorkLocked
  <2> DEFINE e == [check_pending(ev, fn.events) EXCEPT !.clearing = @ \ fn.clearing]
  <2>1. /\ ev' = check_requeue(e) /\ fn' = IdleFn /\ fn.pc # "idle"
        /\ UNCHANGED <<latched, undelivered>>
    BY <1>6 DEF WorkLocked
  <2>2. fn.events \in SUBSET Events
    BY <1>1 DEF Types, TypeOK
  <2>3. e \in Evs /\ e.block = ev.block /\ e.block_mutex = ev.block_mutex
    BY <1>1, <2>2, Pending DEF Evs
  <2> HIDE DEF e
  <2>4. ev' \in Evs /\ ev'.block = ev.block /\ ev'.block_mutex = ev.block_mutex
    BY <2>1, <2>3, Requeue
  <2>5. Types'
    BY <1>1, <2>1, <2>4 DEF Types, TypeOK, Evs, IdleFn
  <2>6. QED
    BY <1>1, <1>2, <2>1, <2>4, <2>5, Frame DEF IInv, Quiet
<1>7. CASE \E e \in Events : Change(e)
  <2>1. /\ UNCHANGED <<ev, fn>> /\ latched' \in SUBSET Events /\ undelivered' \in SUBSET Events
    BY <1>1, <1>7 DEF Change, Types
  <2>2. Types'
    BY <1>1, <2>1 DEF Types, TypeOK
  <2>3. QED
    BY <1>1, <1>2, <2>1, <2>2, Frame DEF IInv
<1>8. QED
  BY <1>3, <1>4, <1>5, <1>6, <1>7 DEF Work
------------------------------------------------------------------------------
(* Steps of a caller.                                                       *)

Outside == {"idle", "lock", "fetch", "list"}
Inside == Pcs \ (Outside \cup {"cancel", "wait"})

\* Nobody but c moves.
Alone(c) ==
  \A d \in Callers \ {c} : call'[d].pc = call[d].pc /\ call'[d].op = call[d].op

\* Where c goes decides which of the three sets it is in.
LEMMA Phases ==
  ASSUME Types, Types', NEW c \in Callers, Alone(c)
  PROVE  /\ call[c].pc \in Pcs /\ call'[c].pc \in Pcs
         /\ c \in Holding <=> call[c].pc \notin Outside
         /\ c \in Blocking <=> call[c].pc \in Inside
         /\ Holding' = IF call'[c].pc \in Outside THEN Holding \ {c} ELSE Holding \cup {c}
         /\ Blocking' = IF call'[c].pc \in Inside THEN Blocking \cup {c} ELSE Blocking \ {c}
         /\ Canceling' = IF call'[c].pc \in {"cancel", "wait"}
                         THEN Canceling \cup {c} ELSE Canceling \ {c}
<1>1. /\ call[c].pc \in Pcs /\ call'[c].pc \in Pcs
  BY DEF Types, Calls
<1>2. /\ c \in Holding <=> call[c].pc \notin Outside
      /\ c \in Blocking <=> call[c].pc \in Inside
  BY <1>1 DEF Holding, Blocking, Outside, Inside, Pcs
<1>3. Holding' = IF call'[c].pc \in Outside THEN Holding \ {c} ELSE Holding \cup {c}
  BY DEF Holding, Alone, Outside
<1>4. Blocking' = IF call'[c].pc \in Inside THEN Blocking \cup {c} ELSE Blocking \ {c}
  BY <1>1 DEF Blocking, Holding, Alone, Inside, Outside, Pcs
<1>5. Canceling' = IF call'[c].pc \in {"cancel", "wait"}
                   THEN Canceling \cup {c} ELSE Canceling \ {c}
  BY DEF Canceling, Alone
<1>6. QED
  BY <1>1, <1>2, <1>3, <1>4, <1>5

\* The others are removed from the disk, or not, as before.
LEMMA OthersRemoving ==
  ASSUME Removing, NEW c \in Callers, Alone(c), stage' = stage, RemovingBy(c)'
  PROVE  Removing'
  BY DEF Removing, RemovingBy, Alone

\* A caller that stays outside, or stays inside, of what it blocks.
LEMMA StayStep ==
  ASSUME IInv, Types', NEW c \in Callers, Alone(c), stage' = stage, fn' = fn,
         \/ call[c].pc \in Outside /\ call'[c].pc \in Outside
         \/ call[c].pc \in Inside /\ call'[c].pc \in Inside,
         ev'.block = ev.block, ev'.block_mutex = ev.block_mutex,
         ev.block # 0 => ev'.work = ev.work,
         RemovingBy(c)'
  PROVE  IInv'
<1>1. Types /\ Count /\ Mutexed /\ Quiet /\ Removing
  BY DEF IInv
<1>2. Removing'
  BY <1>1, OthersRemoving
<1>3. Closed' = Closed
  BY DEF Closed
<1>4. c \notin Canceling
  BY DEF Canceling, Outside, Inside
<1>5. Holding' = Holding /\ Blocking' = Blocking /\ Canceling' = Canceling
  <2>1. Outside \cap Inside = {} /\ {"cancel", "wait"} \cap (Outside \cup Inside) = {}
    BY DEF Outside, Inside
  <2>2. CASE call[c].pc \in Outside /\ call'[c].pc \in Outside
    <3>1. c \notin Holding /\ c \notin Blocking
      BY <1>1, <2>1, <2>2, Phases
    <3>2. /\ Holding' = Holding \ {c} /\ Blocking' = Blocking \ {c}
          /\ Canceling' = Canceling \ {c}
      BY <1>1, <2>1, <2>2, Phases
    <3>3. QED
      BY <1>4, <3>1, <3>2
  <2>3. CASE call[c].pc \in Inside /\ call'[c].pc \in Inside
    <3>1. c \in Holding /\ c \in Blocking
      BY <1>1, <2>1, <2>3, Phases
    <3>2. /\ Holding' = Holding \cup {c} /\ Blocking' = Blocking \cup {c}
          /\ Canceling' = Canceling \ {c}
      BY <1>1, <2>1, <2>3, Phases
    <3>3. QED
      BY <1>4, <3>1, <3>2
  <2>4. QED
    BY <2>2, <2>3
<1>6. Blocking # {} \/ Closed => ev.block # 0
  BY <1>1, Zero DEF Blocking
<1>7. QED
  BY <1>1, <1>2, <1>3, <1>5, <1>6, Frame DEF IInv

\* disk_unblock_events and its like: c, who was blocking, is outside again.
LEMMA LeaveStep ==
  ASSUME IInv, Types', NEW c \in Callers, Alone(c), stage' = stage, fn' = fn,
         call[c].pc \in Inside, call'[c].pc \in Outside,
         NEW now \in BOOLEAN, ev' = unblocked(ev, now),
         RemovingBy(c)'
  PROVE  IInv'
<1>1. Types /\ Count /\ Mutexed /\ Quiet /\ Removing /\ ev \in Evs
  BY DEF IInv, Types, TypeOK, Evs
<1>2. Removing'
  BY <1>1, OthersRemoving
<1>3. Closed' = Closed
  BY DEF Closed
<1>4. /\ c \in Holding /\ c \in Blocking
      /\ Holding' = Holding \ {c} /\ Blocking' = Blocking \ {c} /\ Canceling' = Canceling \ {c}
  BY <1>1, Phases DEF Outside, Inside
<1>5. Canceling = {}
  BY <1>1, <1>4 DEF Mutexed, Canceling, Blocking
<1>6. /\ IsFiniteSet(Holding) /\ Cardinality(Holding) \in Nat /\ ev.block # 0 /\ ev.block \in Nat
  BY <1>1, <1>4, Zero DEF Evs
<1>7. Cardinality(Holding') = Cardinality(Holding) - 1
  BY Zenon, <1>4, <1>6, FS_RemoveElement
<1>8. /\ ev'.block = ev.block - 1 /\ ev'.block_mutex = ev.block_mutex
      /\ ev.block # 1 => ev'.work = ev.work
  BY <1>1, <1>6, Unblocked
<1>9. Count'
  BY <1>1, <1>3, <1>6, <1>7, <1>8 DEF Count
<1>10. Mutexed'
  BY <1>1, <1>4, <1>5, <1>8 DEF Mutexed
<1>11. Quiet'
  <2>1. SUFFICES ASSUME Blocking' # {} \/ Closed'
                 PROVE  ev.block # 1
    BY <1>1, <1>4, <1>8 DEF Quiet
  <2>2. ev'.block # 0
    <3>1. Holding' # {} \/ Closed'
      BY <2>1 DEF Blocking
    <3>2. Cardinality(Holding') = 0 <=> Holding' = {}
      BY <1>4, <1>6, FS_RemoveElement, FS_EmptySet
    <3>3. Cardinality(Holding') \in Nat
      BY <1>4, <1>6, FS_RemoveElement, FS_CardinalityType
    <3>4. QED
      BY <3>1, <3>2, <3>3, <1>9 DEF Count
  <2>3. QED
    BY <1>6, <1>8, <2>2
<1>12. QED
  BY <1>2, <1>9, <1>10, <1>11 DEF IInv
------------------------------------------------------------------------------
(* The operations that do not change who blocks.                            *)

\* A caller between two operations.
LEMMA IdleCall == Idle \in Calls /\ Idle.op = "none" /\ Idle.pc = "idle"
  BY DEF Idle, Calls, Pcs

\* A caller begins an operation.
LEMMA StartStep ==
  ASSUME IInv, NEW c \in Callers, Start(c)
  PROVE  IInv'
<1>1. Types /\ Count /\ Mutexed /\ Quiet /\ Removing /\ ev \in Evs
  BY DEF IInv, Types, TypeOK, Evs
<1>2. ASSUME NEW op \in {"clear", "store", "block", "del"}, NEW mask \in SUBSET Events,
             NEW arg \in {-1, 0, 1}, Begin(c, op, mask, arg)
      PROVE  IInv'
  <2> DEFINE new == [Idle EXCEPT !.op = op, !.pc = "lock", !.mask = mask, !.arg = arg,
                                 !.due = undelivered \cap mask]
  <2>1. /\ call[c].pc = "idle" /\ op \in Ops[c] /\ ops[c] < MaxOps
        /\ op = "del" => stage = "added"
        /\ call' = [call EXCEPT ![c] = new] /\ ops' = [ops EXCEPT ![c] = @ + 1]
        /\ UNCHANGED <<stage, ev, dfl, fn, latched, undelivered>>
    BY <1>2 DEF Begin
  <2>2. new \in Calls /\ new.op = op /\ new.pc = "lock"
    BY Zenon, <1>1, IdleCall DEF Calls, Pcs, Types
  <2> HIDE DEF new
  <2>3. call' \in [Callers -> Calls] /\ call'[c] = new /\ Alone(c)
    BY <1>1, <2>1, <2>2 DEF Types, Alone
  <2>4. ops' \in [Callers -> 0 .. MaxOps]
    BY <1>1, <2>1, EventsAssumption DEF Types
  <2>5. Types'
    BY <1>1, <2>1, <2>3, <2>4 DEF Types, TypeOK, Calls
  <2>6. RemovingBy(c)'
    BY <2>1, <2>2, <2>3 DEF RemovingBy
  <2>7. QED
    BY <2>1, <2>2, <2>3, <2>5, <2>6, StayStep DEF Outside
<1>3. ASSUME NEW mask \in SUBSET Events, disk_flush_events(c, mask)
      PROVE  IInv'
  <2>1. /\ ev' = flushed(ev, mask) /\ ops[c] < MaxOps /\ ops' = [ops EXCEPT ![c] = @ + 1]
        /\ UNCHANGED <<stage, dfl, fn, call, latched, undelivered>>
    BY <1>3 DEF disk_flush_events
  <2>2. /\ ev' \in Evs /\ ev'.block = ev.block /\ ev'.block_mutex = ev.block_mutex
        /\ ev.block # 0 => ev'.work = ev.work
    BY <1>1, <2>1, Flushed
  <2>3. ops' \in [Callers -> 0 .. MaxOps]
    BY <1>1, <2>1, EventsAssumption DEF Types
  <2>4. Types'
    BY <1>1, <2>1, <2>2, <2>3 DEF Types, TypeOK, Evs
  <2>5. Blocking # {} \/ Closed => ev.block # 0
    BY <1>1, Zero DEF Blocking
  <2>6. QED
    BY <1>1, <2>1, <2>2, <2>4, <2>5, CallsStay, Frame DEF IInv
<1>4. ASSUME NEW value \in {0, 1}, SetDefault(c, value)
      PROVE  IInv'
  <2> DEFINE new == [Idle EXCEPT !.op = "default", !.pc = "list"]
  <2>1. /\ call[c].pc = "idle" /\ dfl' = value /\ ops[c] < MaxOps
        /\ call' = [call EXCEPT ![c] = new] /\ ops' = [ops EXCEPT ![c] = @ + 1]
        /\ UNCHANGED <<stage, ev, fn, latched, undelivered>>
    BY <1>4 DEF SetDefault
  <2>2. new \in Calls /\ new.op = "default" /\ new.pc = "list"
    BY Zenon, IdleCall DEF Calls, Pcs
  <2> HIDE DEF new
  <2>3. call' \in [Callers -> Calls] /\ call'[c] = new /\ Alone(c)
    BY <1>1, <2>1, <2>2 DEF Types, Alone
  <2>4. ops' \in [Callers -> 0 .. MaxOps]
    BY <1>1, <2>1, EventsAssumption DEF Types
  <2>5. Types'
    BY <1>1, <2>1, <2>3, <2>4 DEF Types, TypeOK, Calls
  <2>6. RemovingBy(c)'
    BY <2>2, <2>3 DEF RemovingBy
  <2>7. QED
    BY <2>1, <2>2, <2>3, <2>5, <2>6, StayStep DEF Outside
<1>5. QED
  BY <1>2, <1>3, <1>4, EventsAssumption DEF Start

\* A step that changes a field or two of one call leaves the others alone.
LEMMA OneCall ==
  ASSUME Types, NEW c \in Callers, NEW new \in Calls, call' = [call EXCEPT ![c] = new]
  PROVE  call' \in [Callers -> Calls] /\ call'[c] = new /\ Alone(c)
  BY DEF Types, Alone

\* The steps of disk_clear_events up to its unblocking.
LEMMA ClearStep ==
  ASSUME IInv, NEW c \in Callers,
         ClearTake(c) \/ ClearCheck(c) \/ ClearLocked(c) \/ ClearKick(c)
  PROVE  IInv'
<1>1. /\ Types /\ Count /\ Removing /\ ev \in Evs /\ call[c] \in Calls /\ RemovingBy(c)
  BY DEF IInv, Types, TypeOK, Evs, Removing
<1>2. /\ UNCHANGED <<stage, dfl, fn, ops, undelivered>>
      /\ call[c].pc \in {"blocked", "check", "locked", "kick"} /\ call[c].op # "del"
  BY <1>1 DEF ClearTake, ClearCheck, ClearLocked, ClearKick, RemovingBy
<1>3. call[c].pc \in Inside /\ ev.block # 0
  <2>1. call[c].pc \in Inside /\ c \in Holding
    BY <1>2 DEF Inside, Outside, Pcs, Holding
  <2>2. QED
    BY <1>1, <2>1, Zero
<1>4. \E new \in Calls : /\ call' = [call EXCEPT ![c] = new] /\ new.op = call[c].op
                         /\ new.pc \in {"check", "locked", "kick", "unblock"}
  <2>1. CASE ClearTake(c)
    <3>1. [call[c] EXCEPT !.pc = "check", !.clearing = @ \cup call[c].mask \cup ev.clearing] \in Calls
      BY Zenon, <1>1 DEF Calls, Pcs, Evs
    <3>2. QED
      BY Zenon, <1>1, <2>1, <3>1 DEF ClearTake, Calls
  <2>2. CASE ClearCheck(c)
    <3>1. [call[c] EXCEPT !.pc = "locked", !.events = latched] \in Calls
      BY Zenon, <1>1 DEF Calls, Pcs, Types
    <3>2. QED
      BY Zenon, <1>1, <2>2, <3>1 DEF ClearCheck, Calls
  <2>3. CASE ClearLocked(c)
    <3>1. [call[c] EXCEPT !.pc = "kick", !.events = {}, !.clearing = {}] \in Calls
      BY Zenon, <1>1 DEF Calls, Pcs
    <3>2. QED
      BY Zenon, <1>1, <2>3, <3>1 DEF ClearLocked, Calls
  <2>4. CASE ClearKick(c)
    <3> DEFINE now == IF ev.clearing # {} THEN 1 ELSE 0
    <3>1. now \in {0, 1} /\ call' = [call EXCEPT ![c].pc = "unblock", ![c].arg = now]
      BY <2>4 DEF ClearKick
    <3> HIDE DEF now
    <3>2. [call[c] EXCEPT !.pc = "unblock", !.arg = now] \in Calls
      BY Zenon, <1>1, <3>1 DEF Calls, Pcs
    <3>3. QED
      BY Zenon, <1>1, <3>1, <3>2 DEF Calls
  <2>5. QED
    BY <2>1, <2>2, <2>3, <2>4
<1>5. PICK new \in Calls : /\ call' = [call EXCEPT ![c] = new] /\ new.op = call[c].op
                           /\ new.pc \in {"check", "locked", "kick", "unblock"}
  BY Zenon, <1>4
<1>6. call' \in [Callers -> Calls] /\ call'[c] = new /\ Alone(c)
  BY Zenon, <1>1, <1>5, OneCall
<1>7. /\ ev' \in Evs /\ ev'.block = ev.block /\ ev'.block_mutex = ev.block_mutex
      /\ ev'.work = ev.work
  <2>1. CASE ClearTake(c) \/ ClearCheck(c) \/ ClearKick(c)
    BY <1>1, <2>1 DEF ClearTake, ClearCheck, ClearKick, Evs
  <2>2. CASE ClearLocked(c)
    <3>1. ev' = check_requeue(check_pending(ev, call[c].events)) /\ call[c].events \in SUBSET Events
      BY <1>1, <2>2 DEF ClearLocked, Calls
    <3>2. QED
      BY <1>1, <1>3, <3>1, Pending, Requeue
  <2>3. QED
    BY <2>1, <2>2
<1>8. latched' \in SUBSET Events
  BY <1>1 DEF ClearTake, ClearCheck, ClearLocked, ClearKick, check_events, Types
<1>9. Types'
  BY <1>1, <1>2, <1>6, <1>7, <1>8 DEF Types, TypeOK, Calls, Evs
<1>10. RemovingBy(c)'
  BY <1>2, <1>5, <1>6 DEF RemovingBy
<1>11. call'[c].pc \in Inside
  BY <1>5, <1>6 DEF Inside, Outside, Pcs
<1>12. QED
  BY <1>2, <1>3, <1>6, <1>7, <1>9, <1>10, <1>11, StayStep
\* The fetch of disk_clear_events, the new interval of a store, and the flush
\* that ends a change of the default.
LEMMA OtherStep ==
  ASSUME IInv, NEW c \in Callers, ClearFetch(c) \/ StoreSet(c) \/ SetDefaultList(c)
  PROVE  IInv'
<1>1. /\ Types /\ Count /\ Removing /\ ev \in Evs /\ call[c] \in Calls /\ RemovingBy(c)
  BY DEF IInv, Types, TypeOK, Evs, Removing
<1>2. CASE ClearFetch(c)
  <2> DEFINE result == ev.pending \cap call[c].mask
  <2>1. /\ call[c].pc = "fetch" /\ ev' = [ev EXCEPT !.pending = @ \ call[c].mask]
        /\ undelivered' = undelivered \ result
        /\ call' = [[d \in Callers |-> [call[d] EXCEPT !.due = @ \ result]] EXCEPT ![c] = Idle]
        /\ UNCHANGED <<stage, dfl, fn, ops, latched>>
    BY <1>2 DEF ClearFetch
  <2> HIDE DEF result
  <2>2. \A d \in Callers : LET n == [call[d] EXCEPT !.due = @ \ result] IN
          n \in Calls /\ n.pc = call[d].pc /\ n.op = call[d].op
    BY <1>1 DEF Types, Calls
  <2>3. call' \in [Callers -> Calls] /\ call'[c] = Idle /\ Alone(c)
    BY Zenon, <2>1, <2>2, IdleCall DEF Alone
  <2>4. /\ ev' \in Evs /\ ev'.block = ev.block /\ ev'.block_mutex = ev.block_mutex
        /\ ev'.work = ev.work
    BY <1>1, <2>1 DEF Evs
  <2>5. Types'
    BY Zenon, <1>1, <2>1, <2>3, <2>4 DEF Types, TypeOK, Calls, Evs
  <2>6. RemovingBy(c)'
    BY <2>3, IdleCall DEF RemovingBy
  <2>7. QED
    BY Zenon, <2>1, <2>3, <2>4, <2>5, <2>6, IdleCall, StayStep DEF Outside
<1>3. CASE StoreSet(c)
  <2> DEFINE new == [call[c] EXCEPT !.pc = "unblock"]
  <2>1. /\ call[c].op = "store" /\ call[c].pc = "blocked"
        /\ ev' = [ev EXCEPT !.poll_msecs = call[c].arg] /\ call' = [call EXCEPT ![c] = new]
        /\ UNCHANGED <<stage, dfl, fn, ops, latched, undelivered>>
    BY <1>1, <1>3 DEF StoreSet, goes, Types
  <2>2. new \in Calls /\ new.op = "store" /\ new.pc = "unblock"
    BY <1>1, <2>1 DEF Calls, Pcs
  <2> HIDE DEF new
  <2>3. call' \in [Callers -> Calls] /\ call'[c] = new /\ Alone(c)
    BY Zenon, <1>1, <2>1, <2>2, OneCall
  <2>4. /\ ev' \in Evs /\ ev'.block = ev.block /\ ev'.block_mutex = ev.block_mutex
        /\ ev'.work = ev.work
    BY <1>1, <2>1 DEF Evs, Calls
  <2>5. Types'
    BY <1>1, <2>1, <2>3, <2>4 DEF Types, TypeOK, Calls, Evs
  <2>6. RemovingBy(c)'
    BY <2>2, <2>3 DEF RemovingBy
  <2>7. QED
    BY <2>1, <2>2, <2>3, <2>4, <2>5, <2>6, StayStep DEF Inside, Outside, Pcs
<1>4. CASE SetDefaultList(c)
  <2>1. /\ call[c].pc = "list" /\ call' = [call EXCEPT ![c] = Idle]
        /\ ev' = flushed(ev, {}) \/ ev' = ev
        /\ UNCHANGED <<stage, dfl, fn, ops, latched, undelivered>>
    BY <1>4 DEF SetDefaultList
  <2>2. call' \in [Callers -> Calls] /\ call'[c] = Idle /\ Alone(c)
    BY Zenon, <1>1, <2>1, IdleCall, OneCall
  <2>3. /\ ev' \in Evs /\ ev'.block = ev.block /\ ev'.block_mutex = ev.block_mutex
        /\ ev.block # 0 => ev'.work = ev.work
    BY <1>1, <2>1, Flushed
  <2>4. Types'
    BY <1>1, <2>1, <2>2, <2>3 DEF Types, TypeOK, Calls, Evs
  <2>5. RemovingBy(c)'
    BY <2>2, IdleCall DEF RemovingBy
  <2>6. QED
    BY <2>1, <2>2, <2>3, <2>4, <2>5, IdleCall, StayStep DEF Outside
<1>5. QED
  BY <1>2, <1>3, <1>4

------------------------------------------------------------------------------
(* The operations that do.                                                  *)

\* The three that unblock.
LEMMA UnblockStep ==
  ASSUME IInv, NEW c \in Callers, disk_unblock_events(c) \/ ClearUnblock(c) \/ StoreUnblock(c)
  PROVE  IInv'
<1>1. /\ Types /\ Count /\ ev \in Evs /\ call[c] \in Calls
  BY DEF IInv, Types, TypeOK, Evs
<1>2. /\ UNCHANGED <<stage, dfl, fn, ops, latched, undelivered>>
      /\ call[c].pc \in {"blocked", "unblock"} /\ call[c].op \in {"block", "clear", "store"}
  BY Zenon DEF disk_unblock_events, ClearUnblock, StoreUnblock
<1>3. \E now \in BOOLEAN : ev' = unblocked(ev, now)
  BY Zenon DEF disk_unblock_events, ClearUnblock, StoreUnblock
<1>4. PICK now \in BOOLEAN : ev' = unblocked(ev, now)
  BY <1>3
<1>5. \E new \in Calls : /\ call' = [call EXCEPT ![c] = new]
                         /\ new.op # "del" /\ new.pc \in {"idle", "fetch"}
  <2>1. [call[c] EXCEPT !.pc = "fetch"] \in Calls
    BY <1>1 DEF Calls, Pcs
  <2>2. QED
    BY Zenon, <1>1, <1>2, <2>1, IdleCall
       DEF disk_unblock_events, ClearUnblock, StoreUnblock, goes, Calls, Types
<1>6. PICK new \in Calls : /\ call' = [call EXCEPT ![c] = new]
                           /\ new.op # "del" /\ new.pc \in {"idle", "fetch"}
  BY Zenon, <1>5
<1>7. call' \in [Callers -> Calls] /\ call'[c] = new /\ Alone(c)
  BY Zenon, <1>1, <1>6, OneCall
<1>8. call[c].pc \in Inside /\ call'[c].pc \in Outside /\ c \in Holding
  BY <1>2, <1>6, <1>7 DEF Inside, Outside, Pcs, Holding
<1>9. ev' \in Evs
  <2>1. ev.block >= 1
    BY <1>1, <1>8, Zero DEF Evs
  <2>2. QED
    BY <1>1, <1>4, <2>1, Unblocked
<1>10. Types'
  BY <1>1, <1>2, <1>7, <1>9 DEF Types, TypeOK, Calls, Evs
<1>11. RemovingBy(c)'
  BY <1>6, <1>7 DEF RemovingBy
<1>12. QED
  BY <1>2, <1>4, <1>7, <1>8, <1>10, <1>11, LeaveStep

\* The count and the mutex are set together.
LEMMA BlockSet ==
  ASSUME NEW e \in Evs, NEW n \in Nat, NEW m \in Callers \cup {NoCaller}
  PROVE  [e EXCEPT !.block = n, !.block_mutex = m] \in Evs
  BY Zenon DEF Evs

\* disk_block_events: only the first blocker waits, and it waits alone.
LEMMA BlockStep ==
  ASSUME IInv, NEW c \in Callers, BlockLock(c) \/ BlockCancel(c) \/ BlockWait(c)
  PROVE  IInv'
<1>1. /\ Types /\ Count /\ Mutexed /\ Quiet /\ Removing /\ ev \in Evs /\ call[c] \in Calls
      /\ RemovingBy(c)
  BY DEF IInv, Types, TypeOK, Evs, Removing
<1>2. /\ UNCHANGED <<stage, dfl, fn, ops, latched, undelivered>>
      /\ call[c].pc \in {"lock", "cancel", "wait"}
  BY DEF BlockLock, BlockCancel, BlockWait, cancelled
<1>3. Closed' = Closed
  BY <1>2 DEF Closed
<1> DEFINE pc == IF call[c].pc = "cancel" THEN "wait"
                 ELSE IF call[c].pc = "lock" /\ ev.block = 0 THEN "cancel" ELSE "blocked"
<1>4. /\ pc \in {"cancel", "wait", "blocked"} /\ call' = [call EXCEPT ![c].pc = pc]
      /\ BlockLock(c) => pc = IF ev.block = 0 THEN "cancel" ELSE "blocked"
      /\ BlockCancel(c) => pc = "wait"
      /\ BlockWait(c) => pc = "blocked"
  <2>1. pc \in {"cancel", "wait", "blocked"}
    OBVIOUS
  <2>2. CASE BlockLock(c)
    BY <2>1, <2>2 DEF BlockLock, BlockCancel, BlockWait, cancelled, goes
  <2>3. CASE BlockCancel(c)
    BY <2>1, <2>3 DEF BlockLock, BlockCancel, BlockWait, cancelled, goes
  <2>4. CASE BlockWait(c)
    BY <2>1, <2>4 DEF BlockLock, BlockCancel, BlockWait, cancelled, goes
  <2>5. QED
    BY <2>2, <2>3, <2>4
<1> HIDE DEF pc
<1> DEFINE new == [call[c] EXCEPT !.pc = pc]
<1>5. new \in Calls /\ new.pc = pc /\ new.op = call[c].op /\ call' = [call EXCEPT ![c] = new]
  BY <1>1, <1>4 DEF Calls, Pcs, Types
<1> HIDE DEF new
<1>6. call' \in [Callers -> Calls] /\ call'[c] = new /\ Alone(c)
  BY Zenon, <1>1, <1>5, OneCall
<1>7. ev' \in Evs
  <2>1. CASE BlockLock(c)
    <3> DEFINE m == IF ev.block = 0 THEN c ELSE NoCaller
    <3>1. m \in Callers \cup {NoCaller} /\ ev' = [ev EXCEPT !.block = @ + 1, !.block_mutex = m]
      BY <2>1 DEF BlockLock
    <3> HIDE DEF m
    <3>2. ev.block + 1 \in Nat
      BY <1>1 DEF Evs
    <3>3. QED
      BY Zenon, <1>1, <3>1, <3>2, BlockSet
  <2>2. CASE BlockCancel(c) \/ BlockWait(c)
    BY Zenon, <1>1, <2>2 DEF BlockCancel, BlockWait, Evs
  <2>3. QED
    BY <2>1, <2>2
<1>8. Types'
  BY <1>1, <1>2, <1>6, <1>7 DEF Types, TypeOK, Calls, Evs
<1>9. RemovingBy(c)'
  BY <1>1, <1>2, <1>4, <1>5, <1>6 DEF RemovingBy
<1>10. Removing'
  BY <1>1, <1>2, <1>6, <1>9, OthersRemoving
<1>11. /\ IsFiniteSet(Holding) /\ Cardinality(Holding) \in Nat
       /\ ev.block = 0 <=> Holding = {} /\ ~Closed
  BY <1>1, Zero
<1>12. /\ c \in Holding <=> call[c].pc # "lock"
       /\ c \notin Blocking
       /\ Holding' = Holding \cup {c}
       /\ Blocking' = IF pc = "blocked" THEN Blocking \cup {c} ELSE Blocking \ {c}
       /\ Canceling' = IF pc = "blocked" THEN Canceling \ {c} ELSE Canceling \cup {c}
  <2>1. call'[c].pc = pc
    BY <1>5, <1>6
  <2>2. /\ pc \notin Outside /\ (pc \in Inside <=> pc = "blocked")
        /\ (call[c].pc \in Outside <=> call[c].pc = "lock") /\ call[c].pc \notin Inside
    BY <1>2, <1>4 DEF Outside, Inside, Pcs
  <2>3. QED
    BY <1>1, <1>4, <1>6, <1>8, <2>1, <2>2, Phases
<1>13. CASE BlockLock(c)
  <2>1. /\ call[c].pc = "lock" /\ ev.block_mutex = NoCaller /\ fn' = fn /\ ev'.work = ev.work
        /\ ev'.block = ev.block + 1
        /\ ev'.block_mutex = IF ev.block = 0 THEN c ELSE NoCaller
        /\ pc = IF ev.block = 0 THEN "cancel" ELSE "blocked"
    BY <1>1, <1>4, <1>13 DEF BlockLock, Evs
  <2>2. Canceling = {}
    BY <1>1, <2>1, EventsAssumption DEF Mutexed, Canceling
  <2>3. Cardinality(Holding') = Cardinality(Holding) + 1
    BY Zenon, <1>11, <1>12, <2>1, FS_AddElement
  <2>4. Count'
    <3>1. ev.block = Cardinality(Holding) + (IF Closed THEN 1 ELSE 0)
      BY Zenon, <1>1 DEF Count
    <3>2. ev'.block = Cardinality(Holding') + (IF Closed THEN 1 ELSE 0)
      BY SMTT(30), <1>11, <2>1, <2>3, <3>1
    <3>3. QED
      BY Zenon, <1>3, <3>2 DEF Count
  <2>5. CASE ev.block = 0
    <3>1. Holding' = {c} /\ Canceling' = {c} /\ Blocking' = {} /\ ~Closed'
      BY <1>3, <1>11, <1>12, <2>1, <2>2, <2>5 DEF Blocking
    <3>2. QED
      BY <1>8, <1>10, <2>1, <2>4, <2>5, <3>1 DEF IInv, Mutexed, Quiet
  <2>6. CASE ev.block # 0
    <3>1. Blocking # {} \/ Closed
      BY <1>11, <2>2, <2>6 DEF Blocking, Canceling, Holding
    <3>2. Canceling' = {}
      BY <1>12, <2>1, <2>2, <2>6
    <3>3. QED
      BY <1>1, <1>8, <1>10, <2>1, <2>4, <2>6, <3>1, <3>2 DEF IInv, Mutexed, Quiet
  <2>7. QED
    BY <2>5, <2>6
<1>14. CASE BlockCancel(c) \/ BlockWait(c)
  <2>1. /\ call[c].pc \in {"cancel", "wait"} /\ ev'.block = ev.block
    BY Zenon, <1>1, <1>14 DEF BlockCancel, BlockWait, cancelled, Evs
  <2>2. c \in Canceling /\ ev.block_mutex = c /\ Holding = {c} /\ ~Closed /\ Canceling = {c}
    <3>1. c \in Canceling
      BY <2>1 DEF Canceling
    <3>2. QED
      BY <1>1, <3>1 DEF Mutexed
  <2>3. Holding' = Holding
    BY <1>12, <2>2
  <2>4. Count'
    BY <1>1, <1>3, <2>1, <2>3 DEF Count
  <2>5. CASE BlockCancel(c)
    <3>1. ev'.block_mutex = c /\ pc = "wait"
      BY <1>1, <1>4, <2>2, <2>5 DEF BlockCancel, Evs
    <3>2. Canceling' = {c} /\ Blocking' = {}
      BY <1>12, <2>2, <3>1 DEF Blocking
    <3>3. QED
      BY <1>3, <1>8, <1>10, <2>2, <2>3, <2>4, <3>1, <3>2 DEF IInv, Mutexed, Quiet
  <2>6. CASE BlockWait(c)
    <3>1. /\ ev'.block_mutex = NoCaller /\ pc = "blocked" /\ ev'.work = "idle"
          /\ fn'.pc = "idle"
      BY <1>1, <1>2, <1>4, <2>6 DEF BlockWait, cancelled, Evs
    <3>2. Canceling' = {}
      BY <1>12, <2>2, <3>1
    <3>3. QED
      BY <1>8, <1>10, <2>4, <3>1, <3>2 DEF IInv, Mutexed, Quiet
  <2>7. QED
    BY <1>14, <2>5, <2>6
<1>15. QED
  BY <1>13, <1>14
\* disk_del_events keeps its block when it is done: the disk is closed instead.
LEMMA RemoveStep ==
  ASSUME IInv, NEW c \in Callers, DelList(c) \/ DelAttrs(c)
  PROVE  IInv'
<1>1. /\ Types /\ Count /\ Mutexed /\ Quiet /\ Removing /\ ev \in Evs /\ call[c] \in Calls
      /\ RemovingBy(c)
  BY DEF IInv, Types, TypeOK, Evs, Removing
<1>2. /\ UNCHANGED <<ev, dfl, fn, ops, latched, undelivered>>
      /\ call[c].op = "del" /\ call[c].pc \in {"blocked", "sysfs"}
  BY <1>1 DEF DelList, DelAttrs, RemovingBy
<1>3. call[c].pc \in Inside
  BY <1>2 DEF Inside, Outside, Pcs
<1>4. \A d \in Callers \ {c} : call[d].op # "del" /\ call[d].pc # "sysfs"
  BY <1>1, <1>2, OneRemover DEF Removing, RemovingBy
<1>5. CASE DelList(c)
  <2> DEFINE new == [call[c] EXCEPT !.pc = "sysfs"]
  <2>1. /\ call[c].pc = "blocked" /\ stage = "added" /\ stage' = "unlisted"
        /\ call' = [call EXCEPT ![c] = new]
    BY <1>1, <1>2, <1>5 DEF DelList, goes, RemovingBy, Types
  <2>2. new \in Calls /\ new.pc = "sysfs" /\ new.op = "del"
    BY <1>1, <1>2 DEF Calls, Pcs
  <2> HIDE DEF new
  <2>3. call' \in [Callers -> Calls] /\ call'[c] = new /\ Alone(c)
    BY Zenon, <1>1, <2>1, <2>2, OneCall
  <2>4. Types'
    BY <1>1, <1>2, <2>1, <2>3 DEF Types, TypeOK, Calls
  <2>5. Removing'
    BY <1>1, <1>2, <1>4, <2>1, <2>2, <2>3 DEF Removing, RemovingBy, Alone
  <2>6. Closed' = Closed
    BY <2>1 DEF Closed
  <2>7. /\ c \in Holding /\ c \in Blocking /\ c \notin Canceling
        /\ Holding' = Holding \cup {c} /\ Blocking' = Blocking \cup {c}
        /\ Canceling' = Canceling \ {c}
    <3>1. call'[c].pc = "sysfs" /\ "sysfs" \in Inside /\ "sysfs" \notin Outside
      BY <2>2, <2>3 DEF Inside, Outside, Pcs
    <3>2. call[c].pc \notin Outside /\ c \notin Canceling
      BY <1>2 DEF Outside, Canceling
    <3>3. QED
      BY <1>1, <1>3, <2>3, <2>4, <3>1, <3>2, Phases
  <2>8. Holding' = Holding /\ Blocking' = Blocking /\ Canceling' = Canceling
    BY <2>7
  <2>9. QED
    BY <1>1, <1>2, <2>4, <2>5, <2>6, <2>8, Frame DEF IInv
<1>6. CASE DelAttrs(c)
  <2>1. /\ call[c].pc = "sysfs" /\ stage = "unlisted" /\ stage' = "deleted"
        /\ call' = [call EXCEPT ![c] = Idle]
    BY <1>1, <1>2, <1>6 DEF DelAttrs, RemovingBy
  <2>2. call' \in [Callers -> Calls] /\ call'[c] = Idle /\ Alone(c)
    BY Zenon, <1>1, <2>1, IdleCall, OneCall
  <2>3. Types'
    BY <1>1, <1>2, <2>1, <2>2 DEF Types, TypeOK, Calls
  <2>4. Removing'
    BY <1>4, <2>2, IdleCall DEF Removing, RemovingBy, Alone
  <2>5. ~Closed /\ Closed'
    BY <2>1 DEF Closed
  <2>6. /\ c \in Holding /\ c \in Blocking
        /\ Holding' = Holding \ {c} /\ Canceling' = Canceling \ {c}
    <3>1. call'[c].pc \in Outside /\ call'[c].pc \notin {"cancel", "wait"}
      BY <2>2, IdleCall DEF Outside
    <3>2. call[c].pc \notin Outside
      BY <1>2 DEF Outside
    <3>3. QED
      BY <1>1, <1>3, <2>2, <2>3, <3>1, <3>2, Phases
  <2>7. Canceling = {}
    BY <1>1, <2>6 DEF Mutexed, Canceling, Blocking
  <2>8. Cardinality(Holding') = Cardinality(Holding) - 1 /\ Cardinality(Holding) \in Nat
    BY Zenon, <1>1, <2>6, Zero, FS_RemoveElement
  <2>9. Count'
    BY <1>1, <1>2, <2>5, <2>8 DEF Count
  <2>10. Mutexed'
    BY <1>1, <1>2, <2>6, <2>7 DEF Mutexed
  <2>11. Quiet'
    BY <1>1, <1>2, <2>6 DEF Quiet
  <2>12. QED
    BY <2>3, <2>4, <2>9, <2>10, <2>11 DEF IInv
<1>7. QED
  BY <1>5, <1>6

\* disk_add_events gives up the block the events were created with, and
\* disk_release_events frees them.
LEMMA StageStep ==
  ASSUME IInv, AddAttrs \/ AddList \/ AddUnblock \/ disk_release_events
  PROVE  IInv'
<1>1. /\ Types /\ Count /\ Mutexed /\ Quiet /\ Removing /\ ev \in Evs
      /\ UNCHANGED <<dfl, fn, call, ops, latched, undelivered>>
  BY Zenon DEF IInv, Types, TypeOK, Evs, AddAttrs, AddList, AddUnblock, disk_release_events
<1>2. /\ stage \in {"new", "attrs", "listed", "deleted"}
      /\ stage' \in {"attrs", "listed", "added", "released"}
      /\ stage' = "added" <=> AddUnblock
  BY Zenon DEF AddAttrs, AddList, AddUnblock, disk_release_events
<1>3. Removing'
  BY <1>1, <1>2 DEF Removing, RemovingBy
<1>4. Holding' = Holding /\ Blocking' = Blocking /\ Canceling' = Canceling /\ Closed
  BY <1>1, <1>2 DEF Holding, Blocking, Canceling, Closed
<1>5. CASE AddAttrs \/ AddList \/ disk_release_events
  <2>1. ev' = ev /\ Closed'
    BY <1>5 DEF AddAttrs, AddList, disk_release_events, Closed
  <2>2. Types'
    BY <1>1, <1>2, <2>1 DEF Types, TypeOK
  <2>3. QED
    BY <1>1, <1>3, <1>4, <2>1, <2>2, Frame DEF IInv
<1>6. CASE AddUnblock
  <2>1. ~Closed'
    BY <1>6 DEF AddUnblock, Closed
  <2>2. Cardinality(Holding) \in Nat /\ ev.block = Cardinality(Holding) + 1
    BY <1>1, <1>4, Zero DEF Count
  <2>3. /\ ev' \in Evs /\ ev'.block = ev.block - 1 /\ ev'.block_mutex = ev.block_mutex
        /\ ev.block # 1 => ev'.work = ev.work
    <3>1. PICK now \in BOOLEAN : ev' = unblocked(ev, now)
      BY Zenon, <1>6 DEF AddUnblock
    <3>2. ev.block >= 1
      BY <2>2
    <3>3. QED
      BY <1>1, <3>1, <3>2, Unblocked
  <2>4. Types'
    BY <1>1, <1>2, <2>3 DEF Types, TypeOK, Evs
  <2>5. Count'
    BY <1>4, <2>1, <2>2, <2>3 DEF Count
  <2>6. Canceling = {}
    BY <1>1, <1>4 DEF Mutexed
  <2>7. Mutexed'
    BY <1>1, <1>4, <2>3, <2>6 DEF Mutexed
  <2>8. Blocking # {} => ev.block # 1
    <3>1. Blocking # {} => Holding # {}
      BY DEF Blocking
    <3>2. Holding # {} => Cardinality(Holding) # 0
      BY <1>1, Zero, FS_EmptySet
    <3>3. QED
      BY <2>2, <3>1, <3>2
  <2>9. Quiet'
    BY <1>1, <1>4, <2>1, <2>3, <2>8 DEF Quiet
  <2>10. QED
    BY <1>3, <2>4, <2>5, <2>7, <2>9 DEF IInv
<1>7. QED
  BY <1>5, <1>6

------------------------------------------------------------------------------
\* IInv is an invariant of the disk events, for every finite set of callers.
THEOREM Invariance == Spec => []IInv
<1>1. Init => IInv
  <2> SUFFICES ASSUME Init PROVE IInv
    OBVIOUS
  <2>1. /\ \A c \in Callers : call[c] = Idle
        /\ Holding = {} /\ Blocking = {} /\ Canceling = {} /\ Closed
    BY IdleCall DEF Init, Holding, Blocking, Canceling, Closed
  <2>2. ev \in Evs /\ ev.block = 1 /\ ev.block_mutex = NoCaller /\ ev.work = "idle"
    BY DEF Init, Evs
  <2>3. fn \in [pc : {"idle", "read", "check", "locked"}, clearing : SUBSET Events,
                events : SUBSET Events] /\ fn.pc = "idle"
    BY DEF Init, IdleFn
  <2>4. Types
    <3>1. call \in [Callers -> Calls] /\ ops \in [Callers -> 0 .. MaxOps]
      BY IdleCall, EventsAssumption DEF Init
    <3>2. \A c \in Callers : Idle.events \subseteq Events /\ Idle.due \subseteq Events
      BY IdleCall DEF Calls
    <3>3. TypeOK
      BY <2>1, <2>2, <2>3, <3>1, <3>2 DEF Init, TypeOK, Evs
    <3>4. QED
      BY <3>1, <3>3 DEF Init, Types
  <2>5. Removing
    BY <2>1, IdleCall DEF Removing, RemovingBy
  <2>6. Count /\ Mutexed /\ Quiet
    BY <2>1, <2>2, <2>3, FS_EmptySet DEF Count, Mutexed, Quiet
  <2>7. QED
    BY <2>4, <2>5, <2>6 DEF IInv
<1>2. IInv /\ [Next]_vars => IInv'
  <2> SUFFICES ASSUME IInv, [Next]_vars PROVE IInv'
    OBVIOUS
  <2>1. ASSUME NEW c \in Callers, Step(c) PROVE IInv'
    BY <2>1, BlockStep, ClearStep, OtherStep, UnblockStep, RemoveStep DEF Step
  <2>2. ASSUME NEW c \in Callers, Start(c) PROVE IInv'
    BY <2>2, StartStep
  <2>3. CASE Timer \/ Work \/ (\E e \in Events : Change(e))
    BY <2>3, WorkStep
  <2>4. CASE AddAttrs \/ AddList \/ AddUnblock \/ disk_release_events
    BY <2>4, StageStep
  <2>5. CASE UNCHANGED vars
    <3>1. /\ stage' = stage /\ ev' = ev /\ fn' = fn /\ call' = call /\ ops' = ops /\ dfl' = dfl
          /\ latched' = latched /\ undelivered' = undelivered
      BY <2>5 DEF vars
    <3>2. Types /\ Count /\ Mutexed /\ Quiet /\ Removing
      BY DEF IInv
    <3>3. Types'
      BY <3>1, <3>2 DEF Types, TypeOK
    <3>4. Count' /\ Mutexed' /\ Quiet'
      BY <3>1, <3>2, CallsStay, Frame
    <3>5. Removing'
      BY <3>1, <3>2 DEF Removing, RemovingBy
    <3>6. QED
      BY <3>3, <3>4, <3>5 DEF IInv
  <2>6. QED
    BY <2>1, <2>2, <2>3, <2>4, <2>5 DEF Next
<1>3. QED
  BY <1>1, <1>2, PTL DEF Spec

\* disk_block_events promises that event checking "isn't in progress and won't
\* happen until unblocked", and disk_release_events relies on a count of one:
\* both hold whoever blocks, unblocks, flushes and configures at the same time.
THEOREM BlockedIsQuiet == Spec => []BlockedQuiet
<1>1. IInv => BlockedQuiet
  BY DEF IInv, Types, Count, Quiet, BlockedQuiet
<1>2. QED
  BY <1>1, Invariance, PTL

------------------------------------------------------------------------------
(* ClearSees.  An event that no disk_clear_events has returned is with the  *)
(* driver, in the hands of a check (the work's or a caller's), or pending   *)
(* (Kept); a check holds events only between its call of the driver and     *)
(* ev->lock (InHand); and what a disk_clear_events has to return has left   *)
(* the driver once its own check is done (Due), because the work, which     *)
(* could hold it back, is quiet while the caller blocks.                    *)

Checked == {"locked", "kick", "unblock", "fetch"}

Reported(x) == x \in ev.pending \/ \E d \in Callers : x \in call[d].events

Kept == \A x \in undelivered : x \in latched \/ x \in fn.events \/ Reported(x)

InHand ==
  /\ fn.pc # "locked" => fn.events = {}
  /\ \A c \in Callers : call[c].pc # "locked" => call[c].events = {}

DueOf(c) ==
  \A x \in call[c].due :
    /\ x \in undelivered /\ call[c].op = "clear"
    /\ call[c].pc \in Checked => Reported(x)

Due == \A c \in Callers : DueOf(c)

Sees == Kept /\ InHand /\ Due

\* A step that moves no event, and takes no caller past its check.
LEMMA Unmoved ==
  ASSUME Sees, ev'.pending = ev.pending, latched' = latched, undelivered' = undelivered,
         fn'.events = fn.events, fn'.pc = "locked" <=> fn.pc = "locked",
         \A d \in Callers :
           /\ call'[d].events = call[d].events /\ (call'[d].pc = "locked" <=> call[d].pc = "locked")
           /\ \A x \in call'[d].due :
                /\ x \in call[d].due /\ call'[d].op = call[d].op
                /\ call'[d].pc \in Checked => call[d].pc \in Checked
  PROVE  Sees'
<1>1. \A x : Reported(x)' <=> Reported(x)
  BY DEF Reported
<1>2. Kept'
  BY <1>1 DEF Sees, Kept
<1>3. InHand'
  BY DEF Sees, InHand
<1>4. ASSUME NEW d \in Callers PROVE DueOf(d)'
  BY <1>1 DEF Sees, Due, DueOf
<1>5. QED
  BY <1>2, <1>3, <1>4 DEF Sees, Due

\* A step of one caller, from one phase to another or to its end, that keeps
\* the events in its hands and goes past no check of its own.
LEMMA CallMoves ==
  ASSUME Types, Sees, NEW c \in Callers, NEW new \in Calls, call' = [call EXCEPT ![c] = new],
         ev'.pending = ev.pending, UNCHANGED <<fn, latched, undelivered>>,
         call[c].pc # "locked", new.pc # "locked", new.events = {},
         \A x \in new.due : /\ x \in call[c].due /\ new.op = call[c].op
                            /\ new.pc \in Checked => call[c].pc \in Checked
  PROVE  Sees'
<1>1. call[c].events = {}
  BY DEF Sees, InHand
<1>2. \A d \in Callers : call'[d] = IF d = c THEN new ELSE call[d]
  BY DEF Types
<1>3. ASSUME NEW d \in Callers
      PROVE  /\ call'[d].events = call[d].events
             /\ call'[d].pc = "locked" <=> call[d].pc = "locked"
             /\ \A x \in call'[d].due :
                  /\ x \in call[d].due /\ call'[d].op = call[d].op
                  /\ call'[d].pc \in Checked => call[d].pc \in Checked
  BY <1>1, <1>2
<1>4. QED
  BY <1>3, Unmoved

\* A caller that goes from one phase to the next.
LEMMA CallGoes ==
  ASSUME Types, Sees, NEW c \in Callers, NEW pc \in Pcs, goes(c, pc),
         ev'.pending = ev.pending, UNCHANGED <<fn, latched, undelivered>>,
         call[c].pc # "locked", pc # "locked",
         pc \in Checked => call[c].pc \in Checked \/ call[c].op # "clear"
  PROVE  Sees'
<1> DEFINE new == [call[c] EXCEPT !.pc = pc]
<1>1. call[c] \in Calls /\ call[c].events = {} /\ \A x \in call[c].due : call[c].op = "clear"
  BY DEF Types, Sees, InHand, Due, DueOf
<1>2. /\ new \in Calls /\ new.pc = pc /\ new.events = {} /\ new.due = call[c].due
      /\ new.op = call[c].op
  BY <1>1 DEF Calls
<1>3. call' = [call EXCEPT ![c] = new]
  BY DEF goes, Types
<1> HIDE DEF new
<1>4. QED
  BY Zenon, <1>1, <1>2, <1>3, CallMoves

\* A caller that is done.
LEMMA CallEnds ==
  ASSUME Types, Sees, NEW c \in Callers, call' = [call EXCEPT ![c] = Idle],
         ev'.pending = ev.pending, UNCHANGED <<fn, latched, undelivered>>, call[c].pc # "locked"
  PROVE  Sees'
<1>1. Idle \in Calls /\ Idle.pc # "locked" /\ Idle.events = {} /\ Idle.due = {}
  BY IdleCall DEF Idle
<1>2. QED
  BY Zenon, <1>1, CallMoves

\* Blocking and unblocking move no event.
LEMMA BlockSees ==
  ASSUME IInv, Sees, NEW c \in Callers,
         \/ BlockLock(c) \/ BlockCancel(c) \/ BlockWait(c)
         \/ disk_unblock_events(c) \/ ClearUnblock(c) \/ StoreUnblock(c)
  PROVE  Sees'
<1>1. Types /\ Count /\ ev \in Evs /\ UNCHANGED <<fn, latched, undelivered>>
  BY Zenon DEF IInv, Types, TypeOK, Evs, BlockLock, BlockCancel, BlockWait, disk_unblock_events,
         ClearUnblock, StoreUnblock
<1>2. CASE BlockLock(c) \/ BlockCancel(c) \/ BlockWait(c)
  <2>1. /\ call[c].pc \in {"lock", "cancel", "wait"} /\ ev'.pending = ev.pending
        /\ \E pc \in {"cancel", "wait", "blocked"} : goes(c, pc)
    BY Zenon, <1>1, <1>2 DEF BlockLock, BlockCancel, BlockWait, cancelled, Evs
  <2>2. QED
    BY <1>1, <2>1, CallGoes DEF Pcs, Checked
<1>3. CASE disk_unblock_events(c) \/ ClearUnblock(c) \/ StoreUnblock(c)
  <2>1. call[c].pc \in {"blocked", "unblock"} /\ \E now \in BOOLEAN : ev' = unblocked(ev, now)
    BY Zenon, <1>3 DEF disk_unblock_events, ClearUnblock, StoreUnblock
  <2>2. c \in Holding
    BY <2>1 DEF Holding
  <2>3. ev.block >= 1
    BY <1>1, <2>2, Zero DEF Evs
  <2>4. ev'.pending = ev.pending
    BY <1>1, <2>1, <2>3, Unblocked
  <2>5. CASE ClearUnblock(c)
    BY <1>1, <2>1, <2>4, <2>5, CallGoes DEF ClearUnblock, Pcs, Checked
  <2>6. CASE disk_unblock_events(c) \/ StoreUnblock(c)
    BY Zenon, <1>1, <2>1, <2>4, <2>6, CallEnds DEF disk_unblock_events, StoreUnblock
  <2>7. QED
    BY <1>3, <2>5, <2>6
<1>4. QED
  BY <1>2, <1>3

\* Neither do the steps of a store, of a removal and of a new default, nor the
\* parts of disk_clear_events that only handle ev->clearing.
LEMMA OtherSees ==
  ASSUME IInv, Sees, NEW c \in Callers,
         \/ StoreSet(c) \/ SetDefaultList(c) \/ DelList(c) \/ DelAttrs(c)
         \/ ClearTake(c) \/ ClearKick(c)
  PROVE  Sees'
<1>1. /\ Types /\ ev \in Evs /\ call[c] \in Calls /\ UNCHANGED <<fn, latched, undelivered>>
  BY DEF IInv, Types, TypeOK, Evs, StoreSet, SetDefaultList, DelList, DelAttrs, ClearTake, ClearKick
<1>2. CASE StoreSet(c) \/ DelList(c)
  <2>1. /\ call[c].pc = "blocked" /\ call[c].op # "clear" /\ ev'.pending = ev.pending
        /\ \E pc \in {"unblock", "sysfs"} : goes(c, pc)
    BY <1>1, <1>2 DEF StoreSet, DelList, Evs
  <2>2. QED
    BY <1>1, <2>1, CallGoes DEF Pcs
<1>3. CASE SetDefaultList(c) \/ DelAttrs(c)
  <2>1. call[c].pc # "locked" /\ call' = [call EXCEPT ![c] = Idle]
    BY <1>3 DEF SetDefaultList, DelAttrs
  <2>2. ev'.pending = ev.pending
    <3>1. ev' \in {ev, flushed(ev, {})}
      BY <1>3 DEF SetDefaultList, DelAttrs
    <3>2. QED
      BY <1>1, <3>1, Flushed
  <2>3. QED
    BY Zenon, <1>1, <2>1, <2>2, CallEnds
<1>4. CASE ClearTake(c) \/ ClearKick(c)
  <2>1. call[c].pc \in {"blocked", "kick"} /\ ev'.pending = ev.pending
    BY <1>1, <1>4 DEF ClearTake, ClearKick, Evs
  <2>2. \E clearing \in SUBSET Events, arg \in {-1, 0, 1} :
          \/ call' = [call EXCEPT ![c] = [call[c] EXCEPT !.pc = "check", !.clearing = clearing]]
          \/ /\ call[c].pc = "kick"
             /\ call' = [call EXCEPT ![c] = [call[c] EXCEPT !.pc = "unblock", !.arg = arg]]
    <3>1. CASE ClearTake(c)
      <4>1. call[c].clearing \cup call[c].mask \cup ev.clearing \in SUBSET Events
        BY <1>1 DEF Calls, Evs
      <4>2. QED
        BY Zenon, <1>1, <3>1, <4>1 DEF ClearTake, Types
    <3>2. CASE ClearKick(c)
      BY Zenon, <1>1, <3>2 DEF ClearKick, Types
    <3>3. QED
      BY Zenon, <1>4, <3>1, <3>2
  <2>3. call[c].events = {}
    BY <2>1 DEF Sees, InHand
  <2>4. PICK new \in Calls : /\ call' = [call EXCEPT ![c] = new] /\ new.pc \in {"check", "unblock"}
                             /\ new.events = {} /\ new.due = call[c].due /\ new.op = call[c].op
                             /\ new.pc = "unblock" => call[c].pc = "kick"
    <3>1. ASSUME NEW clearing \in SUBSET Events
          PROVE  LET new == [call[c] EXCEPT !.pc = "check", !.clearing = clearing] IN
                 /\ new \in Calls /\ new.pc = "check" /\ new.events = {}
                 /\ new.due = call[c].due /\ new.op = call[c].op
      BY Zenon, <1>1, <2>3 DEF Calls, Pcs
    <3>2. ASSUME NEW arg \in {-1, 0, 1}
          PROVE  LET new == [call[c] EXCEPT !.pc = "unblock", !.arg = arg] IN
                 /\ new \in Calls /\ new.pc = "unblock" /\ new.events = {}
                 /\ new.due = call[c].due /\ new.op = call[c].op
      BY Zenon, <1>1, <2>3 DEF Calls, Pcs
    <3>3. QED
      BY Zenon, <2>2, <3>1, <3>2
  <2>5. QED
    BY Zenon, <1>1, <2>1, <2>4, CallMoves DEF Checked
<1>5. QED
  BY <1>2, <1>3, <1>4

\* An operation begins: what a disk_clear_events will have to return is what
\* nobody has returned so far.
LEMMA StartSees ==
  ASSUME IInv, Sees, NEW c \in Callers, Start(c)
  PROVE  Sees'
<1>1. Types /\ ev \in Evs
  BY DEF IInv, Types, TypeOK, Evs
<1>2. ASSUME NEW op \in {"clear", "store", "block", "del"}, NEW mask \in SUBSET Events,
             NEW arg \in {-1, 0, 1}, Begin(c, op, mask, arg), op # "clear" => mask = {}
      PROVE  Sees'
  <2> DEFINE new == [Idle EXCEPT !.op = op, !.pc = "lock", !.mask = mask, !.arg = arg,
                                 !.due = undelivered \cap mask]
  <2>1. /\ call[c].pc = "idle" /\ call' = [call EXCEPT ![c] = new]
        /\ UNCHANGED <<ev, fn, latched, undelivered>>
    BY <1>2 DEF Begin
  <2>2. /\ new \in Calls /\ new.op = op /\ new.pc = "lock" /\ new.events = {}
        /\ new.due = undelivered \cap mask
    BY Zenon, <1>1, IdleCall DEF Calls, Pcs, Types, Idle
  <2> HIDE DEF new
  <2>3. call[c].events = {} /\ \A d \in Callers : call'[d] = IF d = c THEN new ELSE call[d]
    BY <1>1, <2>1 DEF Types, Sees, InHand
  <2>4. \A d \in Callers : call'[d].events = call[d].events
    BY <2>2, <2>3
  <2>5. \A x : Reported(x)' <=> Reported(x)
    BY <2>1, <2>4 DEF Reported
  <2>6. Kept' /\ InHand'
    BY <2>1, <2>2, <2>3, <2>5 DEF Sees, Kept, InHand
  <2>7. ASSUME NEW d \in Callers PROVE DueOf(d)'
    <3>1. CASE d = c
      BY <1>2, <2>1, <2>2, <2>3, <3>1 DEF DueOf, Checked
    <3>2. CASE d # c
      BY <2>1, <2>3, <2>5, <3>2 DEF Sees, Due, DueOf
    <3>3. QED
      BY <3>1, <3>2
  <2>8. QED
    BY <2>6, <2>7 DEF Sees, Due
<1>3. ASSUME NEW mask \in SUBSET Events, disk_flush_events(c, mask)
      PROVE  Sees'
  <2>1. ev' = flushed(ev, mask) /\ UNCHANGED <<fn, call, latched, undelivered>>
    BY <1>3 DEF disk_flush_events
  <2>2. ev'.pending = ev.pending
    BY <1>1, <2>1, Flushed
  <2>3. QED
    BY <2>1, <2>2, Unmoved
<1>4. ASSUME NEW value \in {0, 1}, SetDefault(c, value)
      PROVE  Sees'
  <2> DEFINE new == [Idle EXCEPT !.op = "default", !.pc = "list"]
  <2>1. /\ call[c].pc = "idle" /\ call' = [call EXCEPT ![c] = new]
        /\ UNCHANGED <<ev, fn, latched, undelivered>>
    BY <1>4 DEF SetDefault
  <2>2. new \in Calls /\ new.pc = "list" /\ new.events = {} /\ new.due = {}
    BY Zenon, IdleCall DEF Calls, Pcs, Idle
  <2> HIDE DEF new
  <2>3. QED
    BY Zenon, <1>1, <2>1, <2>2, CallMoves
<1>5. QED
  BY <1>2, <1>3, <1>4, EventsAssumption DEF Start

\* The hardware's events are with the driver first; the work takes them from
\* there and makes them pending.
LEMMA WorkSees ==
  ASSUME IInv, Sees, Timer \/ Work \/ (\E e \in Events : Change(e))
  PROVE  Sees'
<1>1. Types /\ ev \in Evs /\ UNCHANGED call
  BY DEF IInv, Types, TypeOK, Evs, Timer, Work, WorkStart, WorkRead, WorkCheck, WorkLocked, Change
<1>2. CASE Timer \/ WorkStart \/ WorkRead
  <2>1. /\ ev'.pending = ev.pending /\ UNCHANGED <<latched, undelivered>>
        /\ fn'.events = fn.events /\ (fn'.pc = "locked" <=> fn.pc = "locked")
    BY Zenon, <1>1, <1>2 DEF Timer, WorkStart, WorkRead, Evs, Types, TypeOK
  <2>2. QED
    BY <1>1, <2>1, Unmoved
<1>3. CASE WorkCheck
  <2>1. /\ fn.pc = "check" /\ fn'.pc = "locked" /\ fn'.events = latched /\ fn.events = {}
        /\ UNCHANGED <<ev, undelivered>>
    BY <1>3 DEF WorkCheck, Sees, InHand, IInv, Types, TypeOK
  <2>2. \A x : Reported(x)' <=> Reported(x)
    BY <1>1, <2>1 DEF Reported
  <2>3. Kept'
    BY <2>1, <2>2 DEF Sees, Kept
  <2>4. InHand' /\ Due'
    BY <1>1, <2>1, <2>2 DEF Sees, InHand, Due, DueOf
  <2>5. QED
    BY <2>3, <2>4 DEF Sees
<1>4. CASE WorkLocked
  <2> DEFINE e == [check_pending(ev, fn.events) EXCEPT !.clearing = @ \ fn.clearing]
  <2>1. /\ ev' = check_requeue(e) /\ fn' = IdleFn /\ UNCHANGED <<latched, undelivered>>
    BY <1>4 DEF WorkLocked
  <2>2. fn.events \in SUBSET Events
    BY <1>1 DEF Types, TypeOK
  <2>3. e \in Evs /\ e.pending = ev.pending \cup fn.events
    BY <1>1, <2>2, Pending DEF Evs
  <2> HIDE DEF e
  <2>4. ev'.pending = ev.pending \cup fn.events
    BY <2>1, <2>3, Requeue
  <2>5. \A x : (Reported(x) \/ x \in fn.events) <=> Reported(x)'
    BY <1>1, <2>4 DEF Reported
  <2>6. Kept'
    BY <2>1, <2>5 DEF Sees, Kept
  <2>7. InHand' /\ Due'
    BY <1>1, <2>1, <2>5 DEF Sees, InHand, Due, DueOf, IdleFn
  <2>8. QED
    BY <2>6, <2>7 DEF Sees
<1>5. ASSUME NEW e \in Events, Change(e)
      PROVE  Sees'
  <2>1. /\ UNCHANGED <<ev, fn>> /\ latched' = latched \cup {e}
        /\ undelivered' = undelivered \cup {e}
    BY <1>5 DEF Change
  <2>2. \A x : Reported(x)' <=> Reported(x)
    BY <1>1, <2>1 DEF Reported
  <2>3. QED
    BY <1>1, <2>1, <2>2 DEF Sees, Kept, InHand, Due, DueOf
<1>6. QED
  BY <1>2, <1>3, <1>4, <1>5 DEF Work

\* The check of disk_clear_events, while the work holds nothing back.
LEMMA CheckSees ==
  ASSUME IInv, Sees, NEW c \in Callers, ClearCheck(c)
  PROVE  Sees'
<1>1. Types /\ Quiet /\ call[c] \in Calls
  BY DEF IInv, Types
<1>2. /\ call[c].pc = "check" /\ UNCHANGED <<ev, fn, undelivered>>
      /\ call' = [call EXCEPT ![c] = [call[c] EXCEPT !.pc = "locked", !.events = latched]]
  BY Zenon, <1>1 DEF ClearCheck, Types
<1>3. fn.events = {}
  <2>1. c \in Blocking
    BY <1>2 DEF Blocking, Holding
  <2>2. QED
    BY <1>1, <2>1 DEF Quiet, Sees, InHand
<1>4. /\ call'[c].events = latched /\ call'[c].pc = "locked" /\ call'[c].due = call[c].due
      /\ call'[c].op = call[c].op /\ call[c].events = {}
      /\ \A d \in Callers \ {c} : call'[d] = call[d]
  BY <1>1, <1>2 DEF Types, Calls, Sees, InHand
<1>5. \A x : Reported(x)' <=> (Reported(x) \/ x \in latched)
  BY <1>2, <1>4 DEF Reported
<1>6. Kept'
  BY <1>2, <1>3, <1>5 DEF Sees, Kept
<1>7. InHand'
  BY <1>2, <1>4 DEF Sees, InHand
<1>8. ASSUME NEW d \in Callers PROVE DueOf(d)'
  <2>1. CASE d = c
    BY <1>2, <1>3, <1>4, <1>5, <2>1 DEF Sees, Kept, Due, DueOf
  <2>2. CASE d # c
    BY <1>2, <1>4, <1>5, <2>2 DEF Sees, Due, DueOf
  <2>3. QED
    BY <2>1, <2>2
<1>9. QED
  BY <1>6, <1>7, <1>8 DEF Sees, Due

\* What the check found becomes pending.
LEMMA LockedSees ==
  ASSUME IInv, Sees, NEW c \in Callers, ClearLocked(c)
  PROVE  Sees'
<1>1. Types /\ ev \in Evs /\ call[c] \in Calls
  BY DEF IInv, Types, TypeOK, Evs
<1>2. /\ call[c].pc = "locked" /\ UNCHANGED <<fn, latched, undelivered>>
      /\ ev' = check_requeue(check_pending(ev, call[c].events)) /\ call[c].events \in SUBSET Events
      /\ call' = [call EXCEPT ![c] = [call[c] EXCEPT !.pc = "kick", !.events = {}, !.clearing = {}]]
  BY Zenon, <1>1 DEF ClearLocked, Types, Calls
<1>3. ev'.pending = ev.pending \cup call[c].events
  BY <1>1, <1>2, Pending, Requeue
<1>4. /\ call'[c].events = {} /\ call'[c].pc = "kick" /\ call'[c].due = call[c].due
      /\ call'[c].op = call[c].op
      /\ \A d \in Callers \ {c} : call'[d] = call[d]
  BY <1>1, <1>2 DEF Types, Calls
<1>5. \A x : Reported(x)' <=> Reported(x)
  BY <1>3, <1>4 DEF Reported
<1>6. Kept'
  BY <1>2, <1>5 DEF Sees, Kept
<1>7. InHand'
  BY <1>2, <1>4 DEF Sees, InHand
<1>8. ASSUME NEW d \in Callers PROVE DueOf(d)'
  BY <1>2, <1>4, <1>5 DEF Sees, Due, DueOf, Checked
<1>9. QED
  BY <1>6, <1>7, <1>8 DEF Sees, Due

\* What disk_clear_events returns nobody has to return any more.
LEMMA FetchSees ==
  ASSUME IInv, Sees, NEW c \in Callers, ClearFetch(c)
  PROVE  Sees'
<1> DEFINE result == ev.pending \cap call[c].mask
<1>1. Types /\ ev \in Evs /\ call[c] \in Calls
  BY DEF IInv, Types, TypeOK, Evs
<1>2. /\ call[c].pc = "fetch" /\ UNCHANGED <<fn, latched>>
      /\ ev'.pending = ev.pending \ call[c].mask /\ undelivered' = undelivered \ result
  BY <1>1 DEF ClearFetch, Evs
<1>3. /\ call'[c] = Idle /\ call[c].events = {}
      /\ \A d \in Callers \ {c} :
           /\ call'[d].events = call[d].events /\ call'[d].due = call[d].due \ result
           /\ call'[d].pc = call[d].pc /\ call'[d].op = call[d].op
  BY <1>1, <1>2 DEF ClearFetch, Types, Calls, Sees, InHand
<1>4. Idle.events = {} /\ Idle.due = {} /\ Idle.pc = "idle"
  BY DEF Idle
<1>5. \A x : Reported(x) => Reported(x)' \/ x \in result
  BY <1>2, <1>3 DEF Reported
<1> HIDE DEF result
<1>6. Kept'
  BY <1>2, <1>5 DEF Sees, Kept
<1>7. InHand'
  BY <1>2, <1>3, <1>4 DEF Sees, InHand
<1>8. ASSUME NEW d \in Callers PROVE DueOf(d)'
  <2>1. CASE d = c
    BY <1>3, <1>4, <2>1 DEF DueOf
  <2>2. CASE d # c
    BY <1>2, <1>3, <1>5, <2>2 DEF Sees, Due, DueOf
  <2>3. QED
    BY <2>1, <2>2
<1>9. QED
  BY <1>6, <1>7, <1>8 DEF Sees, Due

\* Every event is somewhere on its way to a caller, at every moment.
THEOREM SeesAlways == Spec => []Sees
<1>1. Init => Sees
  <2> SUFFICES ASSUME Init PROVE Sees
    OBVIOUS
  <2>1. /\ \A c \in Callers : call[c] = Idle
        /\ undelivered = {} /\ fn.events = {} /\ Idle.events = {} /\ Idle.due = {}
    BY Zenon DEF Init, Idle, IdleFn
  <2>2. QED
    BY <2>1 DEF Sees, Kept, InHand, Due, DueOf
<1>2. IInv /\ Sees /\ [Next]_vars => Sees'
  <2> SUFFICES ASSUME IInv, Sees, [Next]_vars PROVE Sees'
    OBVIOUS
  <2>1. ASSUME NEW c \in Callers, Step(c) PROVE Sees'
    BY <2>1, BlockSees, OtherSees, CheckSees, LockedSees, FetchSees DEF Step
  <2>2. CASE AddAttrs \/ AddList \/ AddUnblock \/ disk_release_events
    <3>1. /\ Types /\ Count /\ ev \in Evs /\ UNCHANGED <<fn, call, latched, undelivered>>
      BY Zenon, <2>2 DEF IInv, Types, TypeOK, Evs, AddAttrs, AddList, AddUnblock,
                         disk_release_events
    <3>2. ev'.pending = ev.pending
      <4>1. CASE AddUnblock
        <5>1. Closed /\ ev' = unblocked(ev, TRUE)
          BY <4>1 DEF AddUnblock, Closed
        <5>2. ev.block >= 1
          BY <3>1, <5>1, Zero DEF Evs
        <5>3. QED
          BY Zenon, <3>1, <5>1, <5>2, Unblocked
      <4>2. CASE AddAttrs \/ AddList \/ disk_release_events
        BY <4>2 DEF AddAttrs, AddList, disk_release_events
      <4>3. QED
        BY <2>2, <4>1, <4>2
    <3>3. QED
      BY <3>1, <3>2, Unmoved
  <2>3. CASE UNCHANGED vars
    <3>1. UNCHANGED <<ev, fn, call, latched, undelivered>>
      BY <2>3 DEF vars
    <3>2. QED
      BY <3>1, Unmoved
  <2>4. QED
    BY <2>1, <2>2, <2>3, StartSees, WorkSees DEF Next
<1>3. QED
  BY <1>1, <1>2, Invariance, PTL DEF Spec

\* disk_clear_events returns every event that happened before it was called and
\* that no other caller got or has in its hands, whatever checks, blocks,
\* flushes and removals go on beside it.
THEOREM ClearReturnsAll == Spec => []ClearSees
<1>1. Sees => ClearSees
  BY DEF Sees, Due, DueOf, Reported, Checked, ClearSees
<1>2. QED
  BY <1>1, SeesAlways, PTL
=============================================================================
