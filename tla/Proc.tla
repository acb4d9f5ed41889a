-------------------------------- MODULE Proc --------------------------------
(***************************************************************************)
(* Two parts of the proc filesystem (patches/kernel/proc-base.c) over the  *)
(* processes they show: the listing of /proc, which walks the pids without *)
(* a lock while processes fork, exec and exit, and the two files that set  *)
(* the OOM score of a process, written by the system and by applications.  *)
(*                                                                         *)
(* A process is a thread group with a main task "m" and at most one thread *)
(* "t".  Fork, exec and exit are external and change what the code here    *)
(* reads: the task a pid leads to, the leader's pid, the memory.  The      *)
(* dentries that the listing creates are left out.                         *)
(***************************************************************************)
EXTENDS Integers, Sequences, FiniteSetsExt

CONSTANTS
  Groups,         \* the processes there can be
  First,          \* the one that runs at first
  MaxPid,         \* bound on the pids
  Nobody,         \* no such pid
  Orphan,         \* a pid without a task, still the id of a session
  Hidden,         \* the processes the lister may not see (hidepid)
  Writers,        \* who writes the files
  Capable,        \* the writers with CAP_SYS_RESOURCE
  Uids,           \* the user ids
  Root,           \* the one that processes begin with
  Euid,           \* Euid[w]: the writer's effective one
  OomAdj,         \* what is written to oom_adj
  OomScoreAdj,    \* what is written to oom_score_adj
  Programs        \* what goes on beside forks and exits: see program

Pids == 1 .. MaxPid

ASSUME ProcAssumption ==
  /\ MaxPid \in Nat \ {0}
  /\ First \in Groups /\ Hidden \subseteq Groups
  /\ Capable \subseteq Writers /\ Root \in Uids /\ Euid \in [Writers -> Uids]
  /\ Nobody # Orphan /\ {Nobody, Orphan} \cap (Groups \X {"m", "t"}) = {}
  /\ OomAdj \cup OomScoreAdj \subseteq Int
  /\ Programs \subseteq SUBSET {"threads", "list", "oom"}

VARIABLES
  group,          \* group[g]: the process, its signal_struct included
  pid_task,       \* pid_task[n]: the task that pid n leads to
  list,           \* the reader of /proc
  writer,         \* writer[w]: a write of oom_score_adj past its permission test
  wrote,          \* wrote[w]: the writer has made its write
  program         \* which of the three activities take place

vars == <<group, pid_task, list, writer, wrote, program>>

OOM_ADJUST_MIN == -16
OOM_ADJUST_MAX == 15
OOM_DISABLE == -17
OOM_SCORE_ADJ_MAX == 1000

------------------------------------------------------------------------------
(* Processes.                                                               *)

\* floor is the value that no unprivileged writer can go below: what a capable
\* one last set through oom_score_adj, or lower through oom_adj.
NotYet == [state |-> "none", mm |-> FALSE, leader_pid |-> 0, tid |-> 0, exec |-> "no",
           uid |-> Root, oom_score_adj |-> 0, oom_score_adj_min |-> 0, floor |-> 0]

Alive(g) == group[g].state = "alive"

\* The lister has found the struct pid of number n: when the number is given
\* up, that one leads to no task any more, whoever gets the number next.
Found(n) == list.pc = "task" /\ list.tgid = n

\* The lister has task t in hand: when t is released, it has no pid any more.
Holds(t) == list.pc = "test" /\ list.task = t

Fork(parent, g, n) ==
  /\ Alive(parent) /\ group[parent].mm /\ group[g].state = "none" /\ pid_task[n] = Nobody
  /\ group' = [group EXCEPT ![g] = [group[parent] EXCEPT !.leader_pid = n, !.tid = 0, !.exec = "no"]]
  /\ pid_task' = [pid_task EXCEPT ![n] = <<g, "m">>]
  /\ UNCHANGED <<list, writer, wrote, program>>

Clone(g, n) ==
  /\ "threads" \in program
  /\ Alive(g) /\ group[g].mm /\ group[g].tid = 0 /\ group[g].exec = "no" /\ pid_task[n] = Nobody
  /\ group' = [group EXCEPT ![g].tid = n]
  /\ pid_task' = [pid_task EXCEPT ![n] = <<g, "t">>]
  /\ UNCHANGED <<list, writer, wrote, program>>

ThreadExit(g) ==
  /\ group[g].tid # 0 /\ group[g].exec = "no"
  /\ group' = [group EXCEPT ![g].tid = 0]
  /\ pid_task' = [pid_task EXCEPT ![group[g].tid] = Nobody]
  /\ list' = [list EXCEPT !.stale = @ \/ Found(group[g].tid),
                          !.task = IF Holds(<<g, "t">>) THEN Nobody ELSE @]
  /\ UNCHANGED <<writer, wrote, program>>

\* exec by the thread: de_thread first moves the leader's pid to it, which the
\* old leader keeps as well ...
ExecMove(g) ==
  /\ group[g].tid # 0 /\ group[g].exec = "no" /\ group[g].mm
  /\ group' = [group EXCEPT ![g].tid = 0, ![g].exec = "moved"]
  /\ pid_task' = [pid_task EXCEPT ![group[g].tid] = Nobody,
                                  ![group[g].leader_pid] = <<g, "t">>]
  /\ list' = [list EXCEPT !.stale = @ \/ Found(group[g].tid),
                          !.overtaken = IF Holds(<<g, "t">>) THEN @ \cup {g} ELSE @]
  /\ UNCHANGED <<writer, wrote, program>>

\* ... and a moment later makes it the leader and releases the old one.
ExecDone(g) ==
  /\ group[g].exec = "moved"
  /\ group' = [group EXCEPT ![g].exec = "done"]
  /\ list' = [list EXCEPT !.task = IF Holds(<<g, "m">>) THEN Nobody ELSE @,
                          !.overtaken = IF Holds(<<g, "m">>) THEN @ \cup {g} ELSE @]
  /\ UNCHANGED <<pid_task, writer, wrote, program>>

ExitMm(g) ==
  /\ Alive(g) /\ group[g].mm /\ group[g].tid = 0 /\ group[g].exec # "moved"
  /\ group' = [group EXCEPT ![g].mm = FALSE]
  /\ UNCHANGED <<pid_task, list, writer, wrote, program>>

Exit(g) ==
  LET n == group[g].leader_pid IN
  /\ Alive(g) /\ ~group[g].mm
  /\ group' = [group EXCEPT ![g].state = "dead", ![g].leader_pid = 0]
  /\ \E left \in {Nobody, Orphan} :
       /\ pid_task' = [pid_task EXCEPT ![n] = left]
       /\ list' = [list EXCEPT !.stale = @ \/ (left = Nobody /\ Found(n)),
                               !.task = IF Holds(pid_task[n]) THEN Nobody ELSE @,
                               !.steady = @ \ {g}]
  /\ UNCHANGED <<writer, wrote, program>>

PutPid(n) ==
  /\ pid_task[n] = Orphan
  /\ pid_task' = [pid_task EXCEPT ![n] = Nobody]
  /\ list' = [list EXCEPT !.stale = @ \/ Found(n)]
  /\ UNCHANGED <<group, writer, wrote, program>>

\* A child of zygote takes the uid of its application, for good.
Setuid(g, u) ==
  /\ "oom" \in program /\ Alive(g) /\ group[g].mm /\ group[g].uid = Root /\ u # Root
  /\ group' = [group EXCEPT ![g].uid = u]
  /\ UNCHANGED <<pid_task, list, writer, wrote, program>>

------------------------------------------------------------------------------
(* proc_pid_readdir and next_tgid.  steady: the processes that have run     *)
(* since the listing began.  overtaken: those with an exec that gave the    *)
(* task in the lister's hand another pid, or took it its own.               *)

Listing(pc) == list.pc = pc

ListBegin ==
  /\ "list" \in program /\ Listing("idle")
  /\ list' = [list EXCEPT !.pc = "call", !.steady = {g \in Groups : Alive(g)}]
  /\ UNCHANGED <<group, pid_task, writer, wrote, program>>

\* Every call of getdents goes on where the position says.
proc_pid_readdir ==
  /\ Listing("call")
  /\ list' = [list EXCEPT !.pc = "find", !.tgid = list.pos]
  /\ UNCHANGED <<group, pid_task, writer, wrote, program>>

find_ge_pid(tgid) == {n \in Pids : n >= tgid /\ pid_task[n] # Nobody}

TgidFind ==
  LET found == find_ge_pid(list.tgid) IN
  /\ Listing("find")
  /\ list' = IF found = {} THEN [list EXCEPT !.pc = "end"]
             ELSE [list EXCEPT !.pc = "task", !.tgid = Min(found)]
  /\ UNCHANGED <<group, pid_task, writer, wrote, program>>

TgidTask ==
  /\ Listing("task")
  /\ list' = [list EXCEPT !.pc = "test", !.stale = FALSE,
                          !.task = IF list.stale THEN Nobody ELSE pid_task[list.tgid]]
  /\ UNCHANGED <<group, pid_task, writer, wrote, program>>

\* The task's pid, now, is the pid of the leader; a task that is the leader has
\* its flag set too, except inside an exec.
has_group_leader_pid(t) == t[2] = "m" \/ group[t[1]].exec # "no"
thread_group_leader(t) == t[2] = "m" \/ group[t[1]].exec = "done"

\* Variant: the task is asked whether it is the leader.
IsTgid_flag(t) == t \notin {Nobody, Orphan} /\ thread_group_leader(t)

IsTgid(t) == t \notin {Nobody, Orphan} /\ has_group_leader_pid(t)

TgidTest ==
  /\ Listing("test")
  /\ list' = IF IsTgid(list.task) THEN [list EXCEPT !.pc = "emit"]
             ELSE [list EXCEPT !.pc = "find", !.tgid = @ + 1, !.task = Nobody]
  /\ UNCHANGED <<group, pid_task, writer, wrote, program>>

\* No permission: the next one.
Hide ==
  /\ Listing("emit") /\ list.task[1] \in Hidden
  /\ list' = [list EXCEPT !.pc = "find", !.tgid = @ + 1, !.task = Nobody]
  /\ UNCHANGED <<group, pid_task, writer, wrote, program>>

\* The entry does not fit: the next call starts with it.
BufferFull ==
  /\ Listing("emit") /\ list.task[1] \notin Hidden /\ ~list.fresh
  /\ list' = [list EXCEPT !.pc = "call", !.pos = list.tgid, !.fresh = TRUE, !.task = Nobody]
  /\ UNCHANGED <<group, pid_task, writer, wrote, program>>

dir_emit ==
  /\ Listing("emit") /\ list.task[1] \notin Hidden
  /\ list' = [list EXCEPT !.pc = "find", !.pos = list.tgid, !.tgid = @ + 1, !.fresh = FALSE,
                          !.task = Nobody,
                          !.emitted = Append(@, [pid |-> list.tgid, group |-> list.task[1]])]
  /\ UNCHANGED <<group, pid_task, writer, wrote, program>>

------------------------------------------------------------------------------
(* oom_adj_write and oom_score_adj_write.                                   *)

oom_adj_write_permitted(w, g) == w \in Capable \/ Euid[w] = group[g].uid

\* C division truncates toward zero.
scaled(v) ==
  IF v = OOM_ADJUST_MAX THEN OOM_SCORE_ADJ_MAX
  ELSE IF v >= 0 THEN (v * OOM_SCORE_ADJ_MAX) \div (-OOM_DISABLE)
  ELSE -((-v * OOM_SCORE_ADJ_MAX) \div (-OOM_DISABLE))

Idle == [pc |-> "idle", task |-> First, value |-> 0]

Begins(w) == "oom" \in program /\ writer[w].pc = "idle" /\ ~wrote[w]

\* A write with no effect: out of range, the process gone or without memory,
\* no permission, or a lower value without the capability.
oom_adj_write(w, g, v) ==
  /\ Begins(w)
  /\ v \in OOM_ADJUST_MIN .. OOM_ADJUST_MAX \/ v = OOM_DISABLE
  /\ Alive(g) /\ group[g].mm /\ oom_adj_write_permitted(w, g)
  /\ w \in Capable \/ scaled(v) >= group[g].oom_score_adj
  /\ group' = [group EXCEPT ![g].oom_score_adj = scaled(v),
                            ![g].floor = IF w \in Capable THEN Min({@, scaled(v)}) ELSE @]
  /\ wrote' = [wrote EXCEPT ![w] = TRUE]
  /\ UNCHANGED <<pid_task, list, writer, program>>

\* oom_score_adj_write tests the permission before it takes the locks.
ScorePermit(w, g, v) ==
  /\ Begins(w)
  /\ v \in -OOM_SCORE_ADJ_MAX .. OOM_SCORE_ADJ_MAX
  /\ Alive(g) /\ oom_adj_write_permitted(w, g)
  /\ writer' = [writer EXCEPT ![w] = [pc |-> "permitted", task |-> g, value |-> v]]
  /\ UNCHANGED <<group, pid_task, list, wrote, program>>

\* Variant: the lowest value allowed stays as it is.
min_after_kept(w, g, v) == group[g].oom_score_adj_min

min_after(w, g, v) == IF w \in Capable THEN v ELSE group[g].oom_score_adj_min

oom_score_adj_write(w) ==
  LET g == writer[w].task
      v == writer[w].value
  IN  /\ writer[w].pc = "permitted"
      /\ group' =
           IF ~Alive(g) \/ ~group[g].mm \/ (v < group[g].oom_score_adj_min /\ w \notin Capable)
           THEN group
           ELSE [group EXCEPT ![g].oom_score_adj = v,
                              ![g].oom_score_adj_min = min_after(w, g, v),
                              ![g].floor = IF w \in Capable THEN v ELSE @]
      /\ writer' = [writer EXCEPT ![w] = Idle]
      /\ wrote' = [wrote EXCEPT ![w] = TRUE]
      /\ UNCHANGED <<pid_task, list, program>>

------------------------------------------------------------------------------
Init ==
  /\ group = [g \in Groups |-> IF g = First
                THEN [NotYet EXCEPT !.state = "alive", !.mm = TRUE, !.leader_pid = 1] ELSE NotYet]
  /\ pid_task = [n \in Pids |-> IF n = 1 THEN <<First, "m">> ELSE Nobody]
  /\ list = [pc |-> "idle", pos |-> 1, tgid |-> 1, task |-> Nobody, fresh |-> TRUE, stale |-> FALSE,
             emitted |-> <<>>, steady |-> {}, overtaken |-> {}]
  /\ writer = [w \in Writers |-> Idle] /\ wrote = [w \in Writers |-> FALSE]
  /\ program \in Programs

Processes ==
  \/ \E parent, g \in Groups, n \in Pids : Fork(parent, g, n)
  \/ \E g \in Groups, n \in Pids : Clone(g, n)
  \/ \E g \in Groups : ThreadExit(g) \/ ExecMove(g) \/ ExecDone(g) \/ ExitMm(g) \/ Exit(g)
  \/ \E n \in Pids : PutPid(n)
  \/ \E g \in Groups, u \in Uids : Setuid(g, u)

ReadProc ==
  ListBegin \/ proc_pid_readdir \/ TgidFind \/ TgidTask \/ TgidTest \/ Hide \/ BufferFull \/ dir_emit

Next ==
  \/ Processes \/ ReadProc
  \/ \E w \in Writers, g \in Groups, v \in OomAdj : oom_adj_write(w, g, v)
  \/ \E w \in Writers, g \in Groups, v \in OomScoreAdj : ScorePermit(w, g, v)
  \/ \E w \in Writers : oom_score_adj_write(w)

Spec == Init /\ [][Next]_vars

------------------------------------------------------------------------------
(* Properties.                                                              *)

TypeOK ==
  /\ \A g \in Groups : /\ group[g].oom_score_adj \in -OOM_SCORE_ADJ_MAX .. OOM_SCORE_ADJ_MAX
                        /\ group[g].leader_pid \in 0 .. MaxPid
  /\ \A n \in Pids : pid_task[n] \in {Nobody, Orphan} \cup (Groups \X {"m", "t"})

\* A listing of /proc shows every process that runs from its beginning to its
\* end in exactly one entry, under its own pid, and no process that is hidden;
\* the pids increase, in however many calls the reader gets them, and whatever
\* forks, execs (also from another thread than the leader) and exits meanwhile,
\* reusing pids already passed or still to come.  The exception is a process
\* whose exec falls between pid_task and has_group_leader_pid of next_tgid's
\* look at one of its tasks: it can be missed, or shown under the pid its
\* thread had.
ListedOnce ==
  LET entries == DOMAIN list.emitted
      entry(i) == list.emitted[i]
  IN  /\ TypeOK
      /\ \A i, j \in entries : i < j => entry(i).pid < entry(j).pid
      /\ \A i \in entries : LET g == entry(i).group IN
           /\ g \notin Hidden
           /\ Alive(g) => g \in list.overtaken \/ entry(i).pid = group[g].leader_pid
      /\ Listing("end") => \A g \in list.steady \ (Hidden \cup list.overtaken) :
           \E i \in entries : \A j \in entries : entry(j).group = g <=> j = i

\* Without CAP_SYS_RESOURCE nobody takes a process, or a child that inherited
\* its values, below what a capable writer last set through oom_score_adj, or,
\* where that was lower, through oom_adj (which moves no bound): "the handlers below still
\* refuse to *lower* a value past oom_score_adj_min without CAP_SYS_RESOURCE",
\* with two files that keep different bounds and writes that overlap.
OomFloor ==
  \A g \in Groups : Alive(g) => group[g].oom_score_adj >= group[g].floor

=============================================================================
