# Kobo Clara HD Android port: TLA+ models, checks and proofs

The repository ports Android 4.4.2 to the Kobo Clara HD. This directory holds
TLA+ models of the parts of it that keep state and run concurrently, TLC
configurations that check them on small instances, and TLAPS proofs about the
log driver, binder's buffers, the composer, the gralloc wrapper, the disk
events, the partition table and /proc. `PROJECT.json` ties every definition to
its source lines, every run to its properties, and lists the hazards of the
code with the properties that would catch them.

Paths below are relative to the repository's root.

## 1. The system

| Part | Code | State | Operations | Talks to | Module |
|---|---|---|---|---|---|
| Log driver | `patches/kernel/logger.c` | one ring of bytes, `w_off`, `head`, the readers with their offsets, a mutex, a wait queue | write, read, poll, open, release, the ioctls | every process | `Logger` |
| Binder driver | `patches/kernel/binder.c` | nodes, references, transactions, threads, work lists, wait queues, death notifications | all `BC_`/`BR_` commands, ioctls, open, flush, release and deferred work | every process | `BinderObjects`, `BinderTransactions`, `Binder` |
| Binder's buffers | same file | buffers of one mapping, pages, one-way quota | alloc, free, mmap, vma close, release | the transactions | `BinderAlloc`, `BufferPool` |
| servicemanager | `servicemanager/*.c` | the list of names, its references and death links | add, get, check, list, death notices, its loop | the binder driver, every process | `ServiceManager`, `ServiceListing`, `Registry` |
| E-ink composer | `gralloc_eink/src/hwcomposer_eink.c` | shadow, framebuffer, cached panel, painted region, update counter | prepare, set, blank | SurfaceFlinger, the EPDC driver, the gralloc wrapper | `EinkCompositor` |
| Its vsync thread | same file | unlocked clocks and flags shared with SurfaceFlinger's thread | the thread's loop, eventControl, registerProcs, close | SurfaceFlinger | `EinkVsync` |
| Gralloc wrapper | `gralloc_eink/src/eink_wrapper.c` | a table of 64 buffer geometries | alloc, free, query | the vendor's gralloc, the composer | `GrallocTable` |
| Disk events | `patches/kernel/genhd.c` | block count and mutex, pending and clearing events, the polling interval, a delayed work | block, unblock, flush, clear, the work, the sysfs file and module parameter, add, remove, release | openers of the disk, the driver, the workqueue | `DiskEvents` |
| Partition table | `patches/kernel/genhd.c`, `partition-generic.c` | tables replaced under RCU, partitions with reference counts, capacity, suppressed uevents | scan, invalidate, add, delete, look-ups, registration, removal | openers, the driver, the partition parser | `Partitions` |
| /proc | `patches/kernel/proc-base.c` | the position of a directory read; OOM score and its bound per process | listing, writes of `oom_adj` and `oom_score_adj` | every process | `Proc` |

What is not modelled is in section 6.

The hard behaviours are these.

* Logger: the writer laps readers and `head`; entries and headers wrap; a copy
  from user space fails after readers were pulled forward; a read restricted
  to a uid skips entries and drops the mutex between its test and its copy.
* Binder: nested calls with deaths and thread exits at any point; failure half
  way through a list of objects; death notices asked for, cleared and asked
  for again around a death; one-way queues; reads that fill up; wake-ups.
* Allocator: sizes that wrap, buffers sharing a page, page allocation failing.
* servicemanager: clients die between two of its driver calls; names are taken
  over with death notices in flight; a one-way call ends its loop.
* Composer: layers that vanish, the rounding to the EPDC's grid, skipped
  identical frames, failed updates, blanking between prepare and set; a
  32-bit microsecond clock; reads of another thread's variables.
* Wrapper: the vendor hands out an address again before the first thread has
  left `free`.
* Disk events: blockers, flushes and clears around a work that runs; values
  read without the lock; a work that must queue itself again.
* Partitions: readers without a lock in a table that was replaced, of a
  partition that is deleted; scans that fail or start again half way;
  announcements left by one thread to another.
* /proc: a walk over pids whose two looks at a pid are not one step, while an
  exec moves the leader's pid to another task and pids are reused; two files
  with different bounds on one value.

## 2. How the modules correspond to the code

**Logger.** A handler is one action where it holds `log->mutex`, and is cut
where it drops it. The loops `get_next_entry` and `get_next_entry_by_uid` take
one step per entry. A byte of the ring is `<<n, k>>`, byte k of the n-th
committed entry, or `Scrap`. `entries`, `wabs`, `idx` and `got` are history
variables that record what was written where without wrapping. In the code an
unprivileged reader's uid is `current_euid()` at each call; in the model each
open reader keeps one `r_uid`. The header version only decides whether the
user's buffer is large enough, which is a free choice.

**Binder.** Every driver call runs under `binder_main_lock`. `BinderObjects`
and `BinderTransactions` define the driver's functions as operators from one
driver state to the next. `Binder` makes the calls actions. A read is split
where the code unlocks: up to the wait, each test of the wait condition, and
from the re-taken lock to the return. `BUG_ON` sets a flag that `NoBUG` reads.
Programs follow libbinder's protocol; the program `Misuses` also makes calls
and replies out of turn. Buffer sizes are left to `BinderAlloc`: here
an allocation fails when `MaxBufs` buffers are held.

**BinderAlloc.** Addresses are relative to the mapping, and `size_t` wraps at
`SizeMax`. `BufferPool` is what callers are promised: ranges that nobody else
has until they are given back. The refinement mapping turns each allocated
buffer into its range; `IsPool` checks it.

**ServiceManager.** A handler's effect on `svclist` is immediate, because no
other thread sees it. Its driver calls are queued in `cmds`, one step each, so
that clients call and die in between. Of the driver only servicemanager's
references, death links and work lists are kept. Requests are well-formed
parcels. `error` is the driver's answer to a reply, which servicemanager finds
at the beginning of its next read: `BR_TRANSACTION_COMPLETE`,
`BR_FAILED_REPLY` when there was nobody to reply to (a one-way call), or
`BR_DEAD_REPLY` when the caller died meanwhile. After one of the last two
`binder_loop` ends and init starts it again. `Registry` is the abstract registry
it implements (`IsRegistry`).
`ServiceListing` adds a client that lists names by growing index.

**EinkCompositor.** A picture is a function from pixels to colours. `place`
and `landing` are the transform and clipping arithmetic of `compose_layer`,
the region arithmetic is that of `hwc_compose` and `eink_send_update`. Pixel
formats and blending are the table `Paint`. Layers ask for no scaling
(`Unscaled`), which the composer does not implement, and a layer that is not
transformed has a part on the panel (`Visible`): for others the row copy of
`compose_layer` (line 532) has no test of its own. The panel is external: it
takes over the aligned region of the framebuffer and collects a ghost for each
partial update. At open, the panel is taken to show what fb0 holds, as
`hwc_device_open` does. SurfaceFlinger makes its calls from one thread, so
each is one action.

**EinkVsync.** The vsync thread and SurfaceFlinger's thread interleave. The
thread samples the clock and makes its two comparisons in separate steps.
`hwc_eventControl` turns events on and off; the thread itself never looks at
whether they are on. The clock wraps at `Wrap`; ages are the true times the
code cannot see.

**GrallocTable.** The vendor's gralloc is external and may return any address
that is not in use. `alloc` and `free` are cut between the vendor's call and
the table's, each under the table's lock.

**DiskEvents.** A step is a section under `ev->lock`, a call of the driver, or
a wait. The delayed work is idle, on its timer, queued, or being cancelled;
its execution (`fn`) is separate, as it may be queued again while it runs.
`check_events` returns what the driver has latched, forgets what it is told to
clear, and may forget the rest. `undelivered` and `due` are history variables:
what no clear has returned, and what a clear has still to return.

**Partitions.** Every table the disk has had stays in `tables` until its grace
period is over; a partition is an object with a count of device references.
A grace period ends when every reader that was inside has left. Scans hold
`bd_mutex` and run step by step beside readers and `register_disk`. What the
parser finds, the driver's capacity and every failure are free choices.
`native` is true once the native capacity is unlocked and, from the start,
for a driver that cannot unlock it. `del_gendisk` takes no `bd_mutex`: that no
scan runs beside it is an assumption about its callers. The sum of a start and
a size wraps at `SectorMax`, as a `sector_t` does; that no parser returns an
extent whose end wraps (`Extents`) is an assumption about the parsers, which
are not in the repository. The capacity changes only where a scan asks the
driver for it.

**Proc.** A process is a main task and at most one more thread. Fork, clone,
exec and exit are external and change the task a pid leads to. `next_tgid`
takes three steps: it finds a pid, takes the task the pid leads to
(`pid_task`), and asks whether that task has its leader's pid
(`has_group_leader_pid`). The task may exit, or be replaced by an exec, between
any two of them; `overtaken` is a history variable that records the latter.
A process begins as root and may give that up (`Setuid`, external); a writer
may write the values of processes with its own uid, or of all with
`CAP_SYS_RESOURCE`. `floor` is a history
variable: the value no unprivileged writer may go below.

## 3. Runs

`CHECK_DEADLOCK FALSE` stands where the system may stop: programs make a
bounded number of calls (binder, servicemanager, disk events, partitions,
/proc), or the device is closed (vsync). Logger, the allocator, the composer
and the gralloc table are checked for deadlock.

### Passing runs

A run may hold several programs, one of which is chosen in `Init`: the run
explores the sum of these instances, each small. Most modules' `TypeOK` is a
conjunct of one of the properties below; `Logger`'s is proved.

| Run | Instance | What it shows |
|---|---|---|
| `logger_ring` | ring of 8 bytes, entries of 2 and 4, one writer, one reader, two uids, 4 commits | `OnEntries`, `UnreadIntact`: no overrun, wrap or failed write leaves a cursor off an entry or damages an unread one. `ReadsInOrder`: a reader gets its own entries, in order, once each. `ReadReturns`: no lost wake-up |
| `binder_calls` | programs: calls three deep, deaths, thread exits, calls out of turn | `NoBUG`, `NoDangling`, `StacksMeet`, `CallerAnswered` |
| `binder_shared` | programs: objects strong, weak and bad; a handle handed on to a third process; four one-way calls; death notices; two pool threads; two threads on one queue with a flush or a signal | `NoDangling`, `NodeCounts`, `OwnerWillKnow`, `OnewaySerial`, `DeathKept`, `NoSleepOverWork` |
| `binder_alloc` | three pages of 20 bytes, 7-bit sizes | `Tiled`, `PagesExact`, `AsyncExact`, `IsPool` |
| `service_manager` | programs: names taken over, names registered again, a one-way call, a listing client | `RefsExact`, `Survives`, `ListsAll`, `IsRegistry`, `DeadForgotten`, `Answered` |
| `eink_shows` | panel of 5 x 2 on a grid of 2, full update every 3 | `ShowsFrame` (the frame is on the panel, the cached copy is exact, ghosts are cleared in time) |
| `eink_pump` | clock of 8 values | `EventPerEnable`, `AnimationPumped`, `CloseEnds` |
| `gralloc_table` | 3 threads, 3 addresses, 2 slots | `QueryTrue`, `KnownUntilFreed` |
| `disk_events` | an opener, a flusher and an administrator, one operation each, two events, one of them asynchronous | `BlockedQuiet`: blocked means that no check runs or is pending, and the count is exact. `ClearSees`: a clear returns what happened before it. `EventNoticed`: polling does not die |
| `partitions` | programs: a scan beside `register_disk`'s; two readers beside registration, restarts and removal. Two partitions, a disk of 2 sectors that may become 3 | `ReadersSafe`: nothing found in a table or referenced is freed, and counts are exact. `WithinDisk`. `AnnouncedAll` |
| `proc_files` | programs: three processes, one of them hidden, three pids and a listing; two writers, one with the capability | `ListedOnce`: every process that stays is listed once, under its pid, unless its exec falls between the lister's two looks at one of its tasks. `OomFloor` |

### A run that shows a disagreement

`binder_word0`: a comment says that the real first command of a read is at
word 0. When a read has no `BR_NOOP` to replace, `BR_SPAWN_LOOPER` replaces
that command. The finding in `PROJECT.json` quotes the line.

### Bounds

* Logger: `Size` 8 with entries of 2 and 4 makes two long entries fill the
  ring, so that laps, wrapped entries and torn writes happen within
  `MaxWrites` commits. Beyond the bound the proofs take over.
* Binder: a program gives each process its threads, targets, payloads and the
  number of calls of each kind it has left. `MaxTodo` sends a thread with
  unread work back to reading. `ReadWords` 12 lets one transaction fill a
  read. The programs of `binder_shared` make no thread exit:
  `binder_release_work` drops what a leaving thread had not read, so
  `OwnerWillKnow`, `OnewaySerial` and `DeathKept` are about threads that stay.
* Allocator: no bound on steps; sizes 0, odd, a page, and two that wrap.
* servicemanager: each program bounds the calls of a process; the names
  include one too long to list and one too long to register.
* Composer: 5 is no multiple of the grid of 2, so the right edge is cut; the
  layers include rotated, mirrored, overhanging, transparent, failed and
  background ones. `FullEvery` 3 instead of 60. No bound on steps. Updates may
  fail; from a failed one to the next full one (`lost`) the panel may differ
  from the cached copy, and `ShowsFrame` is about the other times.
* Vsync: `MaxAge` ends the distinction of ages beyond both windows. Time stands
  still while the thread is between its sample of the clock and its
  comparisons, which is short against the clock's unit; a thread that is
  preempted there for longer is not in the model.
* Wrapper: two slots for three buffers, so the table fills.
* Disk events: `MaxOps` 1 operation per caller and `MaxChanges` 1 event; the
  work and the life of the disk are not bounded. `BlockedQuiet` and `ClearSees`
  are proved without these bounds.
* Partitions: `MaxPartno` 2, three objects for partitions, so that one is
  reused while another waits for its grace period; `Programs` bounds the scans.
* /proc: `MaxPid` 3 for three processes and their threads, so that pids run
  out and are reused; each writer writes once.

### Fairness

* `ReadReturns`: weak fairness of a writer's and of a poll's steps, which are
  bounded work under a mutex; strong fairness of a read's, because the kernel
  serves the waiters of a mutex in order.
* `DeadForgotten`, `Answered`: weak fairness of servicemanager's steps, of its
  restart by init, and of the driver's release of a dead process. Clients may
  do nothing.
* `EventPerEnable`, `AnimationPumped`, `CloseEnds`: weak fairness of the vsync
  thread and of calls SurfaceFlinger has begun. Strong fairness of `Tick`:
  time passes however many calls are made, and `Tick` is held back only while
  a thread is in the middle of a step.
* `EventNoticed`: weak fairness of the timer, of the work, and of an operation
  once begun. Nobody has to begin one.

Binder has no liveness property; `CallerAnswered`, `OwnerWillKnow`, `DeathKept`
and `NoSleepOverWork` state instead that whoever waits is owed something and
is awake to receive it. Partitions and /proc have none either: what they
promise depends on callers that come back.

## 4. Proofs

The prover establishes these for every value of the constants that the named
assumptions allow; TLC evaluates the assumptions on each run.

### The log driver

`LoggerProofs` proves `Invariance`, `TypeCorrect`, `CursorsOnEntries`
(`OnEntries`), `NothingTorn` (`UnreadIntact`), `LogLenExact` and `ReadsAdvance`
(`ReadsInOrder`), for every size, number of readers and writers, set of lengths
and uids.

Assumptions: `SizeAssumption` and `SetsAssumption` of `Logger`, and
`RoomForTwo` of `LoggerInv`: the ring holds two of the longest entries. The
four logs of 256 KiB do.

`OnEntries` is not inductive: offsets alone cannot tell an empty ring from one
that was lapped. `IInv` adds distances that do not wrap.

* `Chain`: entries follow one another without holes up to `w_off`.
* `Placed`: a cursor stands on the entry `idx` says, less than a ring behind.
* `Intact`: the bytes between a cursor and `w_off` are those of the entries.
* `Holding`: who holds the mutex is where it is needed, and nobody else.
* `Clearing`: during `fix_up_readers`, a cursor done with is farther from the
  writer than the new entry is long; the one being pulled is within that
  length plus what the walk has skipped.

`ReadsInOrder` is an action property. Its proof adds `GotBehind`: what a reader
was handed last lies before its cursor. The invariant is in `LoggerInv`, so that
TLC can check it as well.

### The disk events

`DiskEventsProofs` proves `BlockedIsQuiet` (`BlockedQuiet`) and
`ClearReturnsAll` (`ClearSees`), for any finite set of callers, number of
operations and set of events.

Assumptions: `EventsAssumption`, and `OneRemover`: one caller only removes the
disk, as a driver calls `del_gendisk` once.

`BlockedQuiet` is not inductive: it says nothing of a blocker that has raised
the count and is still cancelling the work, nor of why nobody else can queue
the work meanwhile. `IInv` adds these.

* `Count`: the block count is the number of callers that have blocked, plus
  one while the disk is not yet added or is removed.
* `Mutexed`: a caller that is cancelling holds `block_mutex`, alone has raised
  the count, and the disk is open; otherwise the mutex is free.
* `Quiet`: once somebody has finished blocking, or the disk is closed, the
  work neither waits nor runs.
* `Removing`: the steps of removing the disk come in order.

`Count` rests on the cardinality theorems of the library.

`ClearSees` speaks of the moment a clear returns. `Sees` follows an event until
then.

* `Kept`: an event nobody was given is with the driver, in the hands of a
  check, or pending.
* `InHand`: a check has events in hand only between its call of the driver and
  the lock.
* `Due`: once the clear's own check is over, what it owes its caller has left
  the driver and is not with the work, which `Quiet` keeps still.

### Binder's buffers

`BinderAllocProofs` proves `ImplementsPool` (`IsPool`): the allocator refines
`BufferPool`; and `BuffersTile` (`Tiled`). Both hold for every size of the
mapping, of pages and headers, and of requests. Assumptions: the `ASSUME`s of
`BinderAlloc`, on the signs of these sizes, and `MappingAssumption`: `size_t` is
a whole number of words and larger than the mapping, which `binder_mmap` cuts
to 4 MB.

The refinement's invariant is `Disjoint`: a buffer that is handed out ends
before any other begins, allocated or free, and inside the mapping. Free
buffers count, because a later request may be placed there. Pages, the one-way
quota and the choice of the best fit do not matter. A free maps to `Give`, an
allocation to `Take`, the release of the process to `GiveAll`, everything else
to a stutter.

`Tiled` is not inductive: whether two free buffers are left side by side
depends on what was on both sides of the one that is freed. `Laid` adds that
headers do not overlap, that a free buffer has lost its data sizes, and that
between any two free buffers there is an allocated one.

### The composer

`EinkCompositorProofs` proves `FramesShown` (`ShowsFrame`), for every panel,
granularity of the EPDC, period of full updates and list of layers.

Assumptions: `PanelAssumption`, and `ScenesAssumption` on what SurfaceFlinger
hands over: layers have corners, their pixels are in the tables, none asks for
scaling, and those that are not transformed reach the panel. The last two are
needed: see section 5.

`ShowsFrame` is not inductive: it does not say why a partial update is enough.
`IInv` (`PanelInvariance`) adds these.

* The framebuffer is the cached copy of the panel, and without a lost update
  the panel shows it.
* `Outside`: the cached copy is white outside of the painted region.
* `Ghosting`: the update counter is ahead of the partial updates since the last
  full one.

With them, the old and the new picture can differ only within the hull of the
painted region and the layers' frames, and rounding to the grid makes it
larger. That a composed picture is white where no layer lies (`ComposeAll`) is
an induction over the layers, carried out on the set of counterexamples, which
would have a least element.

### The gralloc wrapper

`GrallocProofs` proves `QueryIsTrue` (`QueryTrue`) and `KnownStaysKnown`
(`KnownUntilFreed`), for any number of threads, addresses and slots.
Assumption: `TableAssumption` (there is a slot, addresses are finitely many,
null is none of them).

`QueryTrue` is not inductive: nothing in it keeps the vendor from handing out
an address that the table still has. `IInv` adds these.

* `Listed`: the table has no buffer that `alloc` has yet to record or `free`
  has already forgotten.
* `Owned`, `Existing`: a buffer between the two calls is in the hands of one
  thread and exists; so do the buffers callers have.
* `Single`: a buffer has one slot.

That no slot leaks is a count: a full table maps its slots one to one into the
buffers that exist, and the buffer left out is one more.

### The partition table

`PartitionsProofs` proves `ReadersAreSafe` (`ReadersSafe`), `TableInsideDisk`
(`WithinDisk`) and `EveryPartitionAnnounced` (`AnnouncedAll`), for every number
of partitions, objects, readers and scans, and any extents the parser returns.
`ReadersAreSafe` covers what a reader found in a slot of a table or holds a
reference to, not what `disk_map_sector_rcu` takes from `last_lookup`, which
can be freed under it. Assumption: `PartitionsAssumption` (finitely many
readers; the types of the constants; capacities are at most the native one;
extents end below `SectorMax`).

None of the three is inductive. `IInv` (`TableInvariant`) has these.

* `Counts`: a partition's references are its own while it exists, one for each
  reader that holds it, and those of the scan and of `register_disk`.
* `Sections`: a reader inside its RCU section can reach only a table that is
  current or waits for it, and only partitions that are linked or wait for it.
  A table that was replaced may list partitions that have been deleted since.
* `Listed`: the current table has live partitions, at their numbers and inside
  the disk.
* `ScanAt`, `RegAt`: how far the scan and `register_disk` or `del_gendisk` are,
  and what they have dropped by then.
* `Told`: a partition that was not announced is still ahead of somebody who
  will announce it.

`PartitionsTableProofs` has the invariant and the steps that change the table.
Its lemmas have a hypothesis `Basics`: sets of natural numbers have a least
element, and the cardinalities of sets of readers. `PartitionsProofs` proves
`Basics` from the library, and has the steps of readers and the theorems.

### /proc

`ProcProofs` proves `FloorHolds` (`OomFloor`) and `ProcessesListedOnce`
(`ListedOnce`), for any number of processes, pids, writers and values, from
`ProcAssumption`, which besides types says that a pid that leads to nobody
differs from one that leads to a task.

`OomFloor` is not inductive, since `oom_score_adj_write` compares with
`oom_score_adj_min` and not with the score; `Bounded` adds that this bound is
never below the floor either.

`ListedOnce` speaks of the end of a listing. `LInv` has what leads there.

* `Listed`: what was emitted lies below the cursor; a visible process that has
  run since the beginning was emitted or has its pid at or above the cursor; a
  pid that was given up after `next_tgid` found it belongs to no such process.
* `Numbered`: the pid of a running process leads to a task that passes
  `next_tgid`'s test, also while an exec moves it, and a thread's pid does not;
  what a pid leads to has that pid (`Owned`).
* `Held`, `Chosen`: the task in the lister's hand, before and after the test. One
  that passes has the pid that was found, unless an exec has overtaken it, and
  for the pid of a process that has to be shown it is a task of that process.

### Only model-checked

* All liveness properties: the prover handles neither fairness nor ENABLED.
* The binder transactions: `BinderTransactions` defines the driver's loops over
  objects and work lists with RECURSIVE, with which the prover cannot be used.
* servicemanager: `RefsExact`, `Survives`, `ListsAll` and `IsRegistry` count and
  select elements of sequences (`svclist`, the queued commands). What those
  operators compute needs an induction over sequences of any length.
* `PagesExact` and `AsyncExact` of the allocator: the release of a process folds
  over its buffers and the quota is a sum over them, both with operators of the
  community modules, about which induction is not available either. Where an
  induction was possible (`ComposeAll`), the definition is a recursive function.
* The vsync thread, whose properties are liveness properties.

## 5. Observations

Noticed while modelling; no run states them unless it is named.

* Logger: a comment (logger.c:701) asks for a ring larger than one longest
  entry; in a ring that does not hold two of them, the walk that pulls a
  reader forward can run past the write offset.
  `fix_up_readers` also drops entries that the write would not have touched.
* Binder: the finding of `binder_word0`. Work left to an exiting thread is
  dropped (a hazard in `PROJECT.json`).
* servicemanager: a word 0 that `binder_parse` does not know is taken for a
  `BR_NOOP` the driver "says it writes there" (servicemanager/binder.c:279-283).
  The driver no longer writes one (patches/kernel/binder.c:2154-2161), so that
  word 0 is the first command; were it corrupted, a command would be skipped and
  its argument parsed as one. With one binder under two names, its death clears
  a name that a living service has taken over. A name registered again keeps its
  first `allow_isolated`.
* Composer: layers are copied 1:1 (hwcomposer_eink.c:11). One whose crop is
  larger than its frame is drawn beyond the frame, but only the frame is
  reported as touched, so that part of the picture need not reach the panel.
  TLC finds this as soon as a scene has such a layer; it is why the proof of
  `ShowsFrame` needs `Unscaled`. After a failed update the cached copy is
  ahead of the panel until the next full update. A frame identical to the
  cached one uses up the full update that waking asks for, although line 111
  says "Repaint the whole panel on the first frame after waking". The painted
  region only grows. A layer that is not transformed and lies beside the panel
  gives the row copy of `compose_layer` (line 532) a negative length; `Visible`
  leaves such layers out. When `hwc_device_open` has no memory for its copies it
  frees `hw->panel` twice (lines 1098-1099).
* Vsync: the clock wraps every 71.6 minutes, which may nudge an idle device.
* Disk events: a flush of an event that the work is just clearing is dropped
  (genhd.c:1647). One that comes after the unlocked read at genhd.c:1618 is
  not run without delay.
* Partitions: `disk_map_sector_rcu` may set `last_lookup` again after
  `delete_partition` cleared it; `ReadersSafe` leaves out what comes from
  `last_lookup`. In a rescan the CHANGE event is sent before partitions are
  added. When `device_add` fails the device number is given back twice.
* /proc: `next_tgid` says that it tests "if the pid we have found is the pid of a
  thread group leader" (proc-base.c:2879). It tests the task that the pid led to
  at line 2871; when an exec comes before line 2884, a process can be missed or
  listed under the pid its thread had. A write of `oom_adj` moves no bound,
  unlike one of `oom_score_adj`.

## 6. Not modelled

* Logger: the reader's header version and the registration of the devices.
* Binder: file descriptor objects, poll, priorities, failure of small
  allocations, debugfs.
* servicemanager: malformed parcels, and client helpers it never calls.
* Composer: pixel arithmetic (`blend_px`, `to_rgb565`), which keeps no state
  and is the table `Paint` here; layers that ask for scaling or, untransformed,
  lie beside the panel; retire fences; the error paths of opening the device.
* Gralloc wrapper: the framebuffer device, trampolines to the vendor's module.
* Block layer: device numbers, `part0`, I/O counts, sysfs attributes,
  `/proc/partitions` and `/proc/diskstats`: allocation and printing beside the
  table.
* /proc: the dentry cache, the task directories, and files that print what
  the kernel holds.
* The adb watchdog, `oom_protect.sh` and the front light application: loops or
  single threads without state of their own, whose partners (init, adbd, the
  USB gadget, the light's driver) are outside the repository.
* Framework patches: method bodies whose callers are outside the repository.
* Other scripts, probes, build steps, kernel configuration: commands in a line
  or data.
