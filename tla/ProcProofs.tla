----------------------------- MODULE ProcProofs -----------------------------
(***************************************************************************)
(* OomFloor and ListedOnce for any number of processes, pids, writers and  *)
(* values.                                                                 *)
(*                                                                         *)
(* OomFloor is not inductive: a write of oom_score_adj without the         *)
(* capability is compared with oom_score_adj_min, not with the score.      *)
(* Bounded adds that this bound is never below the floor either, also in   *)
(* processes that are not alive and are never compared.                    *)
(*                                                                         *)
(* ListedOnce speaks of the end of a listing.  Listed says what is true on *)
(* the way: what was emitted lies below the cursor, and a process that has *)
(* run since the beginning was emitted or has its pid at or above it; a    *)
(* struct pid that was given up after it was found is the pid of no such   *)
(* process.  Held and Chosen say what the lister has in hand between       *)
(* pid_task and has_group_leader_pid, and after the test: a task of the    *)
(* process whose pid was found, unless an exec has overtaken it.  Numbered *)
(* is what the listing needs of the processes: the pid of a running one    *)
(* always leads to a task that passes next_tgid's test, also while an exec *)
(* moves the pid, and no pid leads to a task of another process.           *)
(***************************************************************************)
EXTENDS Proc, WellFoundedInduction, TLAPS

Scores == -OOM_SCORE_ADJ_MAX .. OOM_SCORE_ADJ_MAX

Signals == [state : {"none", "alive", "dead"}, mm : BOOLEAN, leader_pid : Pids \cup {0},
            tid : Pids \cup {0}, exec : {"no", "moved", "done"}, uid : Uids,
            oom_score_adj : Scores, oom_score_adj_min : Int, floor : Int]

Bounded(r) == r.floor <= r.oom_score_adj /\ r.floor <= r.oom_score_adj_min

Processed == {r \in Signals : Bounded(r)}

Pending == [pc : {"idle", "permitted"}, task : Groups, value : Scores]

IInv == group \in [Groups -> Processed] /\ writer \in [Writers -> Pending]

------------------------------------------------------------------------------
(* What the writes compute.                                                 *)

\* The scores are numbers.
LEMMA ScoreInt == \A s \in Scores : s \in Int
  BY DEF Scores, OOM_SCORE_ADJ_MAX

\* The scaled value is a score.
LEMMA ScaledScore ==
  ASSUME NEW v \in Int, v \in OOM_ADJUST_MIN .. OOM_ADJUST_MAX \/ v = OOM_DISABLE
  PROVE  scaled(v) \in Scores
<1>1. ASSUME NEW x \in 0 .. 17
      PROVE  (x * 1000) \div 17 \in 0 .. 1000
  OBVIOUS
<1>2. CASE v = 15
  BY <1>2 DEF scaled, Scores, OOM_ADJUST_MAX, OOM_SCORE_ADJ_MAX
<1>3. CASE v \in 0 .. 14
  <2>1. scaled(v) = (v * 1000) \div 17
    BY <1>3 DEF scaled, OOM_ADJUST_MAX, OOM_SCORE_ADJ_MAX, OOM_DISABLE
  <2> QED
    BY <1>1, <1>3, <2>1 DEF Scores, OOM_SCORE_ADJ_MAX
<1>4. CASE -v \in 1 .. 17
  <2>1. scaled(v) = -((-v * 1000) \div 17)
    BY <1>4 DEF scaled, OOM_ADJUST_MAX, OOM_SCORE_ADJ_MAX, OOM_DISABLE
  <2>2. (-v * 1000) \div 17 \in 0 .. 1000
    BY <1>1, <1>4
  <2> QED
    BY <2>1, <2>2 DEF Scores, OOM_SCORE_ADJ_MAX
<1> QED
  BY <1>2, <1>3, <1>4 DEF OOM_ADJUST_MIN, OOM_ADJUST_MAX, OOM_DISABLE

\* The lower one of two numbers.
LEMMA MinOfTwo ==
  ASSUME NEW a \in Int, NEW b \in Int
  PROVE  Min({a, b}) \in Int /\ Min({a, b}) <= a /\ Min({a, b}) <= b
<1>1. \E x \in {a, b} : \A y \in {a, b} : x <= y
  OBVIOUS
<1>2. Min({a, b}) \in {a, b} /\ \A y \in {a, b} : Min({a, b}) <= y
  BY <1>1 DEF Min
<1> QED
  BY <1>2

\* A process with another score, bound and floor.
LEMMA Rescored ==
  ASSUME NEW r \in Signals, NEW s \in Scores, NEW m \in Int, NEW f \in Int, f <= s, f <= m
  PROVE  [r EXCEPT !.oom_score_adj = s, !.oom_score_adj_min = m, !.floor = f] \in Processed
  BY Zenon DEF Signals, Processed, Bounded

\* A process whose pid, thread and exec change.
LEMMA Renumbered ==
  ASSUME NEW r \in Processed, NEW p \in Pids \cup {0}, NEW n \in Pids \cup {0},
         NEW e \in {"no", "moved", "done"}
  PROVE  /\ [r EXCEPT !.leader_pid = p, !.tid = n, !.exec = e] \in Processed
         /\ [r EXCEPT !.tid = n, !.exec = e] \in Processed
         /\ [r EXCEPT !.tid = n] \in Processed
         /\ [r EXCEPT !.exec = e] \in Processed
         /\ [r EXCEPT !.state = "dead", !.leader_pid = p] \in Processed
         /\ [r EXCEPT !.mm = FALSE] \in Processed
         /\ \A u \in Uids : [r EXCEPT !.uid = u] \in Processed
<1>1. r \in Signals /\ Bounded(r)
  BY DEF Processed
<1>2. /\ [r EXCEPT !.leader_pid = p, !.tid = n, !.exec = e] \in Processed
      /\ [r EXCEPT !.tid = n, !.exec = e] \in Processed
  BY Zenon, <1>1 DEF Processed, Signals, Bounded
<1>3. [r EXCEPT !.tid = n] \in Processed /\ [r EXCEPT !.exec = e] \in Processed
  BY <1>1 DEF Processed, Signals, Bounded
<1>4. [r EXCEPT !.state = "dead", !.leader_pid = p] \in Processed
  BY Zenon, <1>1 DEF Processed, Signals, Bounded
<1>5. [r EXCEPT !.mm = FALSE] \in Processed
  BY Zenon, <1>1 DEF Processed, Signals, Bounded
<1>6. \A u \in Uids : [r EXCEPT !.uid = u] \in Processed
  BY <1>1 DEF Processed, Signals, Bounded
<1> QED
  BY <1>2, <1>3, <1>4, <1>5, <1>6

------------------------------------------------------------------------------
(* Every step preserves IInv.                                               *)

\* Forks copy the three values; nothing else a process does touches them.
LEMMA ProcessesKeep ==
  ASSUME IInv, Processes
  PROVE  IInv'
<1>1. writer' = writer
  BY Zenon DEF Processes, Fork, Clone, ThreadExit, ExecMove, ExecDone, ExitMm, Exit, PutPid,
                  Setuid
<1>2. ASSUME NEW parent \in Groups, NEW g \in Groups, NEW n \in Pids, Fork(parent, g, n)
      PROVE  group' \in [Groups -> Processed]
  <2>1. [group[parent] EXCEPT !.leader_pid = n, !.tid = 0, !.exec = "no"] \in Processed
    BY Zenon, Renumbered DEF IInv
  <2> QED
    BY <1>2, <2>1 DEF IInv, Fork
<1>3. ASSUME NEW g \in Groups, NEW n \in Pids \cup {0}, group' = [group EXCEPT ![g].tid = n]
      PROVE  group' \in [Groups -> Processed]
  <2>1. [group[g] EXCEPT !.tid = n] \in Processed
    BY Zenon, Renumbered DEF IInv
  <2>2. group' = [group EXCEPT ![g] = [group[g] EXCEPT !.tid = n]]
    BY <1>3 DEF IInv
  <2> QED
    BY <2>1, <2>2 DEF IInv
<1>4. ASSUME NEW g \in Groups, ExecMove(g) \/ ExecDone(g)
      PROVE  group' \in [Groups -> Processed]
  <2>1. /\ [group[g] EXCEPT !.tid = 0, !.exec = "moved"] \in Processed
        /\ [group[g] EXCEPT !.exec = "done"] \in Processed
    BY Zenon, Renumbered DEF IInv
  <2>2. \/ group' = [group EXCEPT ![g] = [group[g] EXCEPT !.tid = 0, !.exec = "moved"]]
        \/ group' = [group EXCEPT ![g] = [group[g] EXCEPT !.exec = "done"]]
    BY Zenon, <1>4 DEF IInv, ExecMove, ExecDone
  <2> QED
    BY <2>1, <2>2 DEF IInv
<1>5. ASSUME NEW g \in Groups, ExitMm(g) \/ Exit(g)
      PROVE  group' \in [Groups -> Processed]
  <2>1. /\ [group[g] EXCEPT !.mm = FALSE] \in Processed
        /\ [group[g] EXCEPT !.state = "dead", !.leader_pid = 0] \in Processed
    BY Zenon, Renumbered DEF IInv
  <2>2. \/ group' = [group EXCEPT ![g] = [group[g] EXCEPT !.mm = FALSE]]
        \/ group' = [group EXCEPT ![g] = [group[g] EXCEPT !.state = "dead", !.leader_pid = 0]]
    BY Zenon, <1>5 DEF IInv, ExitMm, Exit
  <2> QED
    BY Zenon, <2>1, <2>2 DEF IInv
<1>6. ASSUME NEW n \in Pids, PutPid(n)
      PROVE  group' \in [Groups -> Processed]
  BY <1>6 DEF IInv, PutPid
<1>7. ASSUME NEW g \in Groups, NEW n \in Pids, Clone(g, n)
      PROVE  group' \in [Groups -> Processed]
  BY Zenon, <1>3, <1>7 DEF Clone
<1>8. ASSUME NEW g \in Groups, ThreadExit(g)
      PROVE  group' \in [Groups -> Processed]
  BY Zenon, <1>3, <1>8 DEF ThreadExit
<1>9. ASSUME NEW g \in Groups, NEW u \in Uids, Setuid(g, u)
      PROVE  group' \in [Groups -> Processed]
  <2>1. [group[g] EXCEPT !.uid = u] \in Processed
    BY Zenon, Renumbered DEF IInv
  <2>2. group' = [group EXCEPT ![g] = [group[g] EXCEPT !.uid = u]]
    BY Zenon, <1>9 DEF IInv, Setuid
  <2> QED
    BY <2>1, <2>2 DEF IInv
<1> QED
  BY <1>1, <1>2, <1>4, <1>5, <1>6, <1>7, <1>8, <1>9 DEF IInv, Processes

\* A write of oom_adj lowers the score with the capability only, and then the
\* floor with it.
LEMMA AdjKeeps ==
  ASSUME IInv, NEW w \in Writers, NEW g \in Groups, NEW v \in OomAdj, oom_adj_write(w, g, v)
  PROVE  IInv'
<1> DEFINE s == scaled(v)
           f == IF w \in Capable THEN Min({group[g].floor, s}) ELSE group[g].floor
           m == group[g].oom_score_adj_min
<1>1. s \in Scores /\ s \in Int
  BY ScaledScore, ScoreInt, ProcAssumption DEF oom_adj_write
<1>2. /\ group[g] \in Signals /\ m \in Int /\ group[g].floor \in Int
      /\ group[g].oom_score_adj \in Int
      /\ group[g].floor <= m /\ group[g].floor <= group[g].oom_score_adj
  BY ScoreInt DEF IInv, Processed, Bounded, Signals
<1>3. f \in Int /\ f <= s /\ f <= m
  <2>1. CASE w \in Capable
    <3>1. f = Min({group[g].floor, s})
      BY <2>1, Zenon
    <3> HIDE DEF s, f, m
    <3>2. f \in Int /\ f <= group[g].floor /\ f <= s
      BY <1>1, <1>2, <3>1, MinOfTwo
    <3> QED
      BY <1>2, <3>2
  <2>2. CASE w \notin Capable
    <3>1. s >= group[g].oom_score_adj
      BY <2>2, Zenon DEF oom_adj_write
    <3>2. f = group[g].floor
      BY <2>2, Zenon
    <3> HIDE DEF s, f, m
    <3> QED
      BY <1>1, <1>2, <3>1, <3>2
  <2> QED
    BY <2>1, <2>2
<1>4. group' = [group EXCEPT ![g].oom_score_adj = s, ![g].floor = f] /\ writer' = writer
  BY DEF oom_adj_write
<1> HIDE DEF s, f
<1>5. [group[g] EXCEPT !.oom_score_adj = s, !.oom_score_adj_min = m, !.floor = f] \in Processed
  BY Zenon, <1>1, <1>2, <1>3, Rescored
<1>6. [group[g] EXCEPT !.oom_score_adj = s, !.floor = f] \in Processed
  BY Zenon, <1>2, <1>5 DEF Signals
<1>7. group' = [group EXCEPT ![g] = [group[g] EXCEPT !.oom_score_adj = s, !.floor = f]]
  BY Zenon, <1>4 DEF IInv
<1> QED
  BY <1>4, <1>6, <1>7 DEF IInv

\* A write of oom_score_adj without the capability stays above the bound, so
\* above the floor; one with it moves all three.
LEMMA ScoreKeeps ==
  ASSUME IInv, NEW w \in Writers, oom_score_adj_write(w)
  PROVE  IInv'
<1> DEFINE g == writer[w].task
           v == writer[w].value
           m == min_after(w, g, v)
           f == IF w \in Capable THEN v ELSE group[g].floor
<1>1. g \in Groups /\ v \in Scores /\ v \in Int
  BY ScoreInt DEF IInv, Pending
<1>2. writer' \in [Writers -> Pending]
  <2>1. Idle \in Pending
    BY ProcAssumption DEF Idle, Pending, Scores, OOM_SCORE_ADJ_MAX
  <2> QED
    BY <2>1 DEF oom_score_adj_write, IInv
<1>3. CASE group' = group
  BY <1>2, <1>3 DEF IInv
<1>4. CASE group' # group
  <2>1. /\ v >= group[g].oom_score_adj_min \/ w \in Capable
        /\ group' = [group EXCEPT ![g].oom_score_adj = v, ![g].oom_score_adj_min = m, ![g].floor = f]
    <3>1. group[g].oom_score_adj_min \in Int
      BY <1>1 DEF IInv, Processed, Signals
    <3>2. group' =
            IF ~Alive(g) \/ ~group[g].mm \/ (v < group[g].oom_score_adj_min /\ w \notin Capable)
            THEN group
            ELSE [group EXCEPT ![g].oom_score_adj = v, ![g].oom_score_adj_min = m, ![g].floor = f]
      BY DEF oom_score_adj_write
    <3> HIDE DEF g, v, m, f
    <3> QED
      BY <1>1, <1>4, <3>1, <3>2
  <2>2. /\ group[g] \in Signals /\ group[g].floor \in Int /\ group[g].oom_score_adj_min \in Int
        /\ group[g].floor <= group[g].oom_score_adj_min
    BY <1>1 DEF IInv, Processed, Bounded, Signals
  <2>3. m \in Int /\ f \in Int /\ f <= v /\ f <= m
    <3>1. CASE w \in Capable
      <4>1. m = v /\ f = v
        BY <3>1 DEF min_after
      <4> QED
        BY <1>1, <4>1
    <3>2. CASE w \notin Capable
      <4>1. m = group[g].oom_score_adj_min /\ f = group[g].floor
        BY <3>2 DEF min_after
      <4> HIDE DEF g, v, m, f
      <4> QED
        BY <1>1, <2>1, <2>2, <3>2, <4>1
    <3> QED
      BY <3>1, <3>2
  <2> HIDE DEF g, v, m, f
  <2>4. [group[g] EXCEPT !.oom_score_adj = v, !.oom_score_adj_min = m, !.floor = f] \in Processed
    BY Zenon, <1>1, <2>2, <2>3, Rescored
  <2>5. group' = [group EXCEPT ![g] =
          [group[g] EXCEPT !.oom_score_adj = v, !.oom_score_adj_min = m, !.floor = f]]
    BY Zenon, <1>1, <2>1 DEF IInv
  <2> QED
    BY <1>1, <1>2, <2>4, <2>5 DEF IInv
<1> QED
  BY <1>3, <1>4

\* No process has a score or a bound below its floor, whatever is written to
\* oom_adj and oom_score_adj and whatever processes do meanwhile.
THEOREM Invariance == Spec => []IInv
<1>1. Init => IInv
  <2> SUFFICES ASSUME Init PROVE IInv
    OBVIOUS
  <2>1. NotYet \in Processed
    BY ProcAssumption DEF NotYet, Processed, Signals, Bounded, Scores, OOM_SCORE_ADJ_MAX
  <2>2. \A b \in BOOLEAN, n \in Pids :
          [NotYet EXCEPT !.state = "alive", !.mm = b, !.leader_pid = n] \in Processed
    BY Zenon, <2>1 DEF Processed, Signals, Bounded
  <2>3. 1 \in Pids
    BY ProcAssumption DEF Pids
  <2>4. Idle \in Pending
    BY ProcAssumption DEF Idle, Pending, Scores, OOM_SCORE_ADJ_MAX
  <2> DEFINE running == [NotYet EXCEPT !.state = "alive", !.mm = TRUE, !.leader_pid = 1]
  <2>5. running \in Processed
    BY <2>2, <2>3, Zenon
  <2>6. group = [g \in Groups |-> IF g = First THEN running ELSE NotYet]
    BY Zenon DEF Init
  <2> HIDE DEF running
  <2>7. group \in [Groups -> Processed]
    BY <2>1, <2>5, <2>6
  <2> QED
    BY <2>4, <2>7 DEF Init, IInv
<1>2. IInv /\ [Next]_vars => IInv'
  <2> SUFFICES ASSUME IInv, [Next]_vars PROVE IInv'
    OBVIOUS
  <2>1. CASE UNCHANGED vars
    BY <2>1 DEF vars, IInv
  <2>2. CASE ReadProc
    BY <2>2 DEF ReadProc, ListBegin, proc_pid_readdir, TgidFind, TgidTask, TgidTest, Hide,
                BufferFull, dir_emit, IInv
  <2>3. ASSUME NEW w \in Writers, NEW g \in Groups, NEW v \in OomScoreAdj, ScorePermit(w, g, v)
        PROVE  IInv'
    BY <2>3, ProcAssumption DEF ScorePermit, IInv, Pending, Scores
  <2> QED
    BY <2>1, <2>2, <2>3, ProcessesKeep, AdjKeeps, ScoreKeeps DEF Next
<1> QED
  BY <1>1, <1>2, PTL DEF Spec

\* Nobody without CAP_SYS_RESOURCE takes the score of a process below what
\* oom_adj_write and oom_score_adj_write let a capable writer set.
THEOREM FloorHolds == Spec => []OomFloor
<1>1. IInv => OomFloor
  BY DEF IInv, OomFloor, Processed, Bounded, Signals
<1> QED
  BY <1>1, Invariance, PTL
------------------------------------------------------------------------------
(* The pids and the listing of /proc.                                       *)

Tasks == Groups \X {"m", "t"}

\* The pid of a process leads to its leader, or, once an exec has moved the
\* pid, to the thread that becomes the leader.
Leads(gr, at, g) ==
  /\ gr[g].leader_pid \in Pids
  /\ \/ at[gr[g].leader_pid] = <<g, "m">>
     \/ at[gr[g].leader_pid] = <<g, "t">> /\ gr[g].exec # "no"

Threaded(gr, at, g) ==
  gr[g].tid # 0 => /\ gr[g].state = "alive" /\ gr[g].mm /\ gr[g].exec = "no"
                   /\ at[gr[g].tid] = <<g, "t">>

\* What a pid leads to has that pid.
Owned(gr, at, g, n) ==
  /\ at[n] = <<g, "m">> => gr[g].state = "alive" /\ n = gr[g].leader_pid
  /\ at[n] = <<g, "t">> => /\ gr[g].state = "alive"
                           /\ \/ gr[g].exec = "no" /\ n = gr[g].tid
                              \/ gr[g].exec # "no" /\ n = gr[g].leader_pid

Numbered(gr, at) ==
  /\ at \in [Pids -> {Nobody, Orphan} \cup Tasks]
  /\ \A g \in Groups : gr[g].state = "alive" => Leads(gr, at, g)
  /\ \A g \in Groups : Threaded(gr, at, g)
  /\ \A g \in Groups : \A n \in Pids : Owned(gr, at, g, n)

Entries == [pid : Nat, group : Groups]

Lists == [pc : {"idle", "call", "find", "task", "test", "emit", "end"}, pos : Nat, tgid : Nat,
          task : {Nobody, Orphan} \cup Tasks, fresh : BOOLEAN, stale : BOOLEAN,
          emitted : Seq(Entries), steady : SUBSET Groups, overtaken : SUBSET Groups]

\* The first pid that the listing has not passed.
Cursor(l) == IF l.pc = "call" THEN l.pos ELSE l.tgid

Increasing(s) == \A i, j \in DOMAIN s : i < j => s[i].pid < s[j].pid

Below(s, n) == \A i \in DOMAIN s : s[i].pid < n

Occurs(s, n, g) == \E i \in DOMAIN s : s[i].pid = n /\ s[i].group = g

\* The processes that the listing has to show.
Owed(l) == l.steady \ (Hidden \cup l.overtaken)

\* Process g with pid n has been listed, or will be.
Due(l, n, g) == (l.pc # "end" /\ n >= Cursor(l)) \/ Occurs(l.emitted, n, g)

\* An entry that shows g under n is right.
Own(gr, l, g, n) ==
  /\ gr[g].state # "none"
  /\ gr[g].state = "alive" => g \in l.overtaken \/ n = gr[g].leader_pid

\* What the lister has in hand before the test: a task that passes it has the
\* pid that was found, unless an exec has overtaken it; the pid of a process
\* that has run since the beginning has led to a task that passes.
Held(gr, l) ==
  /\ \A g \in Groups : l.task = <<g, "m">> => Own(gr, l, g, l.tgid)
  /\ \A g \in Groups : l.task = <<g, "t">> =>
       Own(gr, l, g, l.tgid) \/ (gr[g].state # "none" /\ gr[g].exec = "no")
  /\ \A g \in l.steady \ l.overtaken : gr[g].leader_pid = l.tgid =>
       l.task = <<g, "m">> \/ (l.task = <<g, "t">> /\ gr[g].exec # "no")

\* What it has in hand after the test.
Chosen(gr, l) ==
  /\ l.task \in Tasks /\ Own(gr, l, l.task[1], l.tgid)
  /\ \A g \in l.steady \ l.overtaken : gr[g].leader_pid = l.tgid => l.task[1] = g

Right(gr, l) ==
  \A i \in DOMAIN l.emitted : /\ l.emitted[i].group \notin Hidden
                              /\ Own(gr, l, l.emitted[i].group, l.emitted[i].pid)

Listed(gr, l) ==
  /\ l \in Lists
  /\ l.pc = "idle" => l.steady = {} /\ l.emitted = <<>> /\ l.pos = 1
  /\ Increasing(l.emitted)
  /\ l.pc # "end" => Below(l.emitted, Cursor(l))
  /\ \A g \in l.steady : gr[g].state = "alive"
  /\ \A g \in Owed(l) : Due(l, gr[g].leader_pid, g)
  /\ l.stale => l.pc = "task" /\ \A g \in l.steady : gr[g].leader_pid # l.tgid
  /\ l.pc \in {"task", "test", "emit"} => l.tgid \in Pids
  /\ Right(gr, l)
  /\ l.pc = "test" => Held(gr, l)
  /\ l.pc = "emit" => Chosen(gr, l)

LInv == IInv /\ Numbered(group, pid_task) /\ Listed(group, list)

\* What a step of the processes does to the task in the lister's hand: it takes
\* away its pid, but not the leader's from a process that has to be shown, or
\* gives it another one.
Handled(gr, l, gr2, l2) ==
  /\ l2.task \in {l.task, Nobody}
  /\ \A g \in Groups : gr[g].state # "none" =>
       \/ gr2[g].exec = gr[g].exec
       \/ gr2[g].exec # "no" /\ (l.task = <<g, "t">> => gr[g].exec # "no" \/ g \in l2.overtaken)
  /\ \/ l2.task = l.task
     \/ \A g \in l2.steady \ l2.overtaken :
          l.task # <<g, "m">> /\ (l.task = <<g, "t">> => gr[g].exec = "no")

\* What a step of the processes leaves of a listing.
Undisturbed(gr, l, gr2, l2) ==
  /\ l2 \in Lists
  /\ l2.pc = l.pc /\ l2.pos = l.pos /\ l2.tgid = l.tgid /\ l2.emitted = l.emitted
  /\ l2.steady \subseteq l.steady /\ l.overtaken \subseteq l2.overtaken
  /\ \A g \in l2.steady : gr2[g].state = "alive"
  /\ \A g \in Groups : gr[g].state # "none" =>
       /\ gr2[g].state # "none"
       /\ gr2[g].state = "alive" => /\ gr[g].state = "alive"
                                    /\ gr2[g].leader_pid = gr[g].leader_pid
  /\ l2.stale => l.stale \/ (l.pc = "task" /\ \A g \in l2.steady : gr[g].leader_pid # l.tgid)
  /\ l.pc = "test" => Handled(gr, l, gr2, l2)
  /\ l.pc # "test" => l2.task = l.task

\* An entry that is right stays right.
LEMMA OwnStays ==
  ASSUME NEW gr, NEW l, NEW gr2, NEW l2, Undisturbed(gr, l, gr2, l2), NEW g \in Groups, NEW n,
         Own(gr, l, g, n)
  PROVE  Own(gr2, l2, g, n)
<1>1. /\ gr[g].state # "none" /\ gr2[g].state # "none"
      /\ gr2[g].state = "alive" => gr[g].state = "alive" /\ gr2[g].leader_pid = gr[g].leader_pid
  BY Zenon DEF Undisturbed, Own
<1>2. g \in l.overtaken => g \in l2.overtaken
  BY Zenon DEF Undisturbed
<1> QED
  BY <1>1, <1>2, Zenon DEF Own

\* So is what the lister has in hand.
LEMMA HeldStays ==
  ASSUME NEW gr, NEW l, NEW gr2, NEW l2, Listed(gr, l), Undisturbed(gr, l, gr2, l2), l.pc = "test"
  PROVE  Held(gr2, l2)
<1>1. Held(gr, l) /\ Handled(gr, l, gr2, l2) /\ l2.tgid = l.tgid
  BY Zenon DEF Listed, Undisturbed
<1>2. ASSUME NEW g \in Groups
      PROVE  <<g, "m">> # Nobody /\ <<g, "t">> # Nobody
  BY ProcAssumption
<1>3. ASSUME NEW g \in Groups, l2.task = <<g, "m">>
      PROVE  Own(gr2, l2, g, l2.tgid)
  <2>1. l.task = <<g, "m">>
    BY <1>1, <1>2, <1>3, Zenon DEF Handled
  <2>2. Own(gr, l, g, l.tgid)
    BY <1>1, <2>1, Zenon DEF Held
  <2> QED
    BY <1>1, <2>2, OwnStays, Zenon
<1>4. ASSUME NEW g \in Groups, l2.task = <<g, "t">>
      PROVE  Own(gr2, l2, g, l2.tgid) \/ (gr2[g].state # "none" /\ gr2[g].exec = "no")
  <2>1. l.task = <<g, "t">>
    BY <1>1, <1>2, <1>4, Zenon DEF Handled
  <2>2. CASE Own(gr, l, g, l.tgid)
    BY <1>1, <2>2, OwnStays, Zenon
  <2>3. CASE gr[g].state # "none" /\ gr[g].exec = "no"
    <3>1. gr2[g].state # "none"
      BY <2>3, Zenon DEF Undisturbed
    <3>2. gr2[g].exec = "no" \/ g \in l2.overtaken
      BY <1>1, <2>1, <2>3, Zenon DEF Handled
    <3> QED
      BY <3>1, <3>2, Zenon DEF Own
  <2> QED
    BY <1>1, <2>1, <2>2, <2>3, Zenon DEF Held
<1>5. ASSUME NEW g \in l2.steady \ l2.overtaken, gr2[g].leader_pid = l2.tgid
      PROVE  l2.task = <<g, "m">> \/ (l2.task = <<g, "t">> /\ gr2[g].exec # "no")
  <2>1. /\ g \in l.steady /\ g \notin l.overtaken /\ g \in Groups
        /\ gr2[g].state = "alive"
    BY DEF Undisturbed, Lists
  <2>2. gr[g].state = "alive" /\ "alive" # "none"
    BY <2>1 DEF Listed
  <2>3. gr[g].leader_pid = l.tgid
    BY <1>1, <1>5, <2>1, <2>2, Zenon DEF Undisturbed
  <2>4. l.task = <<g, "m">> \/ (l.task = <<g, "t">> /\ gr[g].exec # "no")
    BY <1>1, <2>1, <2>3, Zenon DEF Held
  <2>5. l2.task = l.task
    BY <1>1, <2>4, Zenon DEF Handled
  <2>6. gr[g].exec # "no" => gr2[g].exec # "no"
    BY <1>1, <2>1, <2>2, Zenon DEF Handled
  <2> QED
    BY <2>4, <2>5, <2>6, Zenon
<1> QED
  BY <1>3, <1>4, <1>5, Zenon DEF Held

\* The processes that go on keep their pids and their place in the listing.
LEMMA UndisturbedListed ==
  ASSUME NEW gr, NEW l, NEW gr2, NEW l2, Listed(gr, l), Undisturbed(gr, l, gr2, l2)
  PROVE  Listed(gr2, l2)
<1>1. Cursor(l2) = Cursor(l)
  BY Zenon DEF Undisturbed, Cursor
<1>2. ASSUME NEW g \in l2.steady
      PROVE  /\ g \in l.steady /\ g \in Groups /\ gr2[g].state = "alive"
             /\ gr2[g].leader_pid = gr[g].leader_pid
  <2>1. g \in l.steady /\ g \in Groups /\ gr2[g].state = "alive"
    BY DEF Undisturbed, Lists
  <2>2. gr[g].state = "alive" /\ "alive" # "none"
    BY <2>1 DEF Listed
  <2> QED
    BY <2>1, <2>2, Zenon DEF Undisturbed
<1>3. ASSUME NEW g \in Owed(l2)
      PROVE  Due(l2, gr2[g].leader_pid, g)
  <2>1. g \in Owed(l) /\ gr2[g].leader_pid = gr[g].leader_pid
    BY <1>2, Zenon DEF Owed, Undisturbed
  <2>2. Due(l, gr[g].leader_pid, g)
    BY <2>1, Zenon DEF Listed
  <2> QED
    BY <1>1, <2>1, <2>2, Zenon DEF Due, Undisturbed
<1>4. /\ l2.pc = "idle" => l2.steady = {} /\ l2.emitted = <<>> /\ l2.pos = 1
      /\ Increasing(l2.emitted)
      /\ l2.pc # "end" => Below(l2.emitted, Cursor(l2))
  BY <1>1 DEF Listed, Undisturbed
<1>5. l2.stale => l2.pc = "task" /\ \A g \in l2.steady : gr2[g].leader_pid # l2.tgid
  BY <1>2, Zenon DEF Listed, Undisturbed
<1>6. l2.pc \in {"task", "test", "emit"} => l2.tgid \in Pids
  BY DEF Listed, Undisturbed
<1>7. Right(gr2, l2)
  <2>1. ASSUME NEW i \in DOMAIN l2.emitted
        PROVE  /\ l2.emitted[i].group \notin Hidden
               /\ Own(gr2, l2, l2.emitted[i].group, l2.emitted[i].pid)
    <3>1. l2.emitted = l.emitted /\ l.emitted \in Seq(Entries)
      BY DEF Undisturbed, Listed, Lists
    <3>2. l2.emitted[i].group \in Groups
      <4>1. l2.emitted[i] \in Entries
        BY <3>1
      <4> QED
        BY <4>1 DEF Entries
    <3>3. /\ l2.emitted[i].group \notin Hidden
          /\ Own(gr, l, l2.emitted[i].group, l2.emitted[i].pid)
      BY <3>1, Zenon DEF Listed, Right
    <3> QED
      BY <3>2, <3>3, OwnStays, Zenon
  <2> QED
    BY <2>1, Zenon DEF Right
<1>8. ASSUME l2.pc = "test" PROVE Held(gr2, l2)
  <2>1. l.pc = "test"
    BY <1>8, Zenon DEF Undisturbed
  <2> QED
    BY <2>1, HeldStays, Zenon
<1>9. ASSUME l2.pc = "emit" PROVE Chosen(gr2, l2)
  <2>1. l.pc = "emit" /\ l2.task = l.task /\ l2.tgid = l.tgid
    <3>1. "emit" # "test"
      OBVIOUS
    <3> QED
      BY <1>9, <3>1, Zenon DEF Undisturbed
  <2>2. Chosen(gr, l)
    BY <2>1, Zenon DEF Listed
  <2>3. PICK h \in Groups : h = l.task[1]
    BY <2>2 DEF Chosen, Tasks
  <2>4. Own(gr2, l2, l2.task[1], l2.tgid)
    <3>1. Own(gr, l, h, l.tgid)
      BY <2>2, <2>3, Zenon DEF Chosen
    <3>2. h \in Groups
      BY <2>3
    <3>3. Own(gr2, l2, h, l.tgid)
      BY <3>1, <3>2, OwnStays, Zenon
    <3> QED
      BY <2>1, <2>3, <3>3, Zenon
  <2>5. \A g \in l2.steady \ l2.overtaken : gr2[g].leader_pid = l2.tgid => l2.task[1] = g
    BY <1>2, <2>1, <2>2, Zenon DEF Chosen, Undisturbed
  <2> QED
    BY <2>1, <2>2, <2>4, <2>5, Zenon DEF Chosen
<1> QED
  BY <1>2, <1>3, <1>4, <1>5, <1>6, <1>7, <1>8, <1>9, Zenon DEF Listed, Undisturbed

\* What a list with other values in some of its fields has in the others.
Fields(l, b, t, st, ov) ==
  /\ l \in Lists
  /\ l.pc = list.pc /\ l.pos = list.pos /\ l.tgid = list.tgid /\ l.emitted = list.emitted
  /\ l.stale = b /\ l.task = t /\ l.steady = st /\ l.overtaken = ov

LEMMA Updated ==
  ASSUME list \in Lists,
         NEW b \in BOOLEAN, NEW t \in {Nobody, Orphan} \cup Tasks,
         NEW st \in SUBSET Groups, NEW ov \in SUBSET Groups
  PROVE  /\ Fields(list, list.stale, list.task, list.steady, list.overtaken)
         /\ Fields([list EXCEPT !.stale = b], b, list.task, list.steady, list.overtaken)
         /\ Fields([list EXCEPT !.stale = b, !.task = t], b, t, list.steady, list.overtaken)
         /\ Fields([list EXCEPT !.stale = b, !.overtaken = ov], b, list.task, list.steady, ov)
         /\ Fields([list EXCEPT !.task = t, !.overtaken = ov], list.stale, t, list.steady, ov)
         /\ Fields([list EXCEPT !.stale = b, !.task = t, !.steady = st], b, t, st, list.overtaken)
<1>1. Fields(list, list.stale, list.task, list.steady, list.overtaken)
  BY Zenon DEF Fields
<1>2. Fields([list EXCEPT !.stale = b], b, list.task, list.steady, list.overtaken)
  BY DEF Fields, Lists
<1>3. Fields([list EXCEPT !.stale = b, !.task = t], b, t, list.steady, list.overtaken)
  BY Zenon DEF Fields, Lists
<1>4. Fields([list EXCEPT !.stale = b, !.overtaken = ov], b, list.task, list.steady, ov)
  BY Zenon DEF Fields, Lists
<1>5. Fields([list EXCEPT !.task = t, !.overtaken = ov], list.stale, t, list.steady, ov)
  BY Zenon DEF Fields, Lists
<1>6. Fields([list EXCEPT !.stale = b, !.task = t, !.steady = st], b, t, st, list.overtaken)
  BY Zenon DEF Fields, Lists
<1> QED
  BY <1>1, <1>2, <1>3, <1>4, <1>5, <1>6

\* A pid leads to one process only.
LEMMA OnePid ==
  ASSUME NEW gr, NEW at, Numbered(gr, at), NEW g \in Groups, NEW h \in Groups
  PROVE  /\ gr[g].state = "alive" /\ gr[h].state = "alive"
              /\ gr[g].leader_pid = gr[h].leader_pid => g = h
         /\ gr[g].state = "alive" /\ gr[h].tid # 0 => gr[g].leader_pid # gr[h].tid
         /\ gr[g].tid # 0 /\ gr[g].tid = gr[h].tid => g = h
<1>1. \A x, y : <<g, x>> = <<h, y>> => g = h /\ x = y
  OBVIOUS
<1>2. "m" # "t"
  OBVIOUS
<1>3. ASSUME gr[g].state = "alive", gr[h].state = "alive", gr[g].leader_pid = gr[h].leader_pid
      PROVE  g = h
  BY <1>1, <1>3, Zenon DEF Numbered, Leads
<1>4. ASSUME gr[g].state = "alive", gr[h].tid # 0, gr[g].leader_pid = gr[h].tid
      PROVE  FALSE
  <2>1. at[gr[h].tid] = <<h, "t">> /\ gr[h].exec = "no"
    BY <1>4, Zenon DEF Numbered, Threaded
  <2>2. at[gr[h].tid] = <<g, "m">> \/ (at[gr[h].tid] = <<g, "t">> /\ gr[g].exec # "no")
    BY <1>4, Zenon DEF Numbered, Leads
  <2> QED
    BY <1>1, <1>2, <2>1, <2>2, Zenon
<1>5. ASSUME gr[g].tid # 0, gr[g].tid = gr[h].tid
      PROVE  g = h
  BY <1>1, <1>5, Zenon DEF Numbered, Threaded
<1> QED
  BY <1>3, <1>4, <1>5, Zenon

\* Tasks, no task and a pid without task are different things.
LEMMA TasksApart ==
  ASSUME NEW g \in Groups, NEW x \in {"m", "t"}
  PROVE  /\ <<g, x>> \in Tasks /\ <<g, x>> # Nobody /\ <<g, x>> # Orphan
         /\ \A h, y : <<g, x>> = <<h, y>> => g = h /\ x = y
<1>1. <<g, x>> \in Tasks /\ <<g, x>> # Nobody /\ <<g, x>> # Orphan
  BY ProcAssumption DEF Tasks
<1> QED
  BY <1>1

\* What LInv says of the types.
LEMMA Types ==
  ASSUME LInv
  PROVE  /\ group \in [Groups -> Signals] /\ list \in Lists
         /\ pid_task \in [Pids -> {Nobody, Orphan} \cup Tasks]
         /\ \A g \in Groups : /\ group[g].tid # 0 => group[g].tid \in Pids
                              /\ Alive(g) => group[g].leader_pid \in Pids
         /\ \A g \in list.steady : g \in Groups /\ Alive(g)
         /\ 0 \notin Pids
<1>1. group \in [Groups -> Signals]
  BY DEF LInv, IInv, Processed
<1>2. \A g \in Groups : group[g].tid # 0 => group[g].tid \in Pids
  BY <1>1 DEF Signals
<1>3. list \in Lists /\ pid_task \in [Pids -> {Nobody, Orphan} \cup Tasks]
  BY Zenon DEF LInv, Listed, Numbered
<1>4. \A g \in list.steady : g \in Groups
  BY <1>3 DEF Lists
<1>5. 0 \notin Pids
  BY ProcAssumption DEF Pids
<1> QED
  BY <1>1, <1>2, <1>3, <1>4, <1>5, Zenon DEF LInv, Listed, Numbered, Leads, Alive

\* What the listing has in its steady set and what its fields are.
LEMMA ListTypes ==
  ASSUME LInv
  PROVE  /\ list.stale \in BOOLEAN /\ list.task \in {Nobody, Orphan} \cup Tasks
         /\ list.steady \in SUBSET Groups /\ list.overtaken \in SUBSET Groups
         /\ \A h \in list.steady : h \in Groups /\ group[h].state = "alive"
<1>1. list \in Lists /\ \A h \in list.steady : h \in Groups /\ group[h].state = "alive"
  BY Types, Zenon DEF Alive
<1> QED
  BY <1>1 DEF Lists

\* A new process has a pid that led nowhere, and is not one of those the
\* listing has to show.
LEMMA ForkKeeps ==
  ASSUME LInv, NEW parent \in Groups, NEW g \in Groups, NEW n \in Pids, Fork(parent, g, n)
  PROVE  Numbered(group', pid_task') /\ Undisturbed(group, list, group', list')
<1>1. /\ \A h \in Groups : h # g => group'[h] = group[h]
      /\ group'[g].state = "alive" /\ group'[g].leader_pid = n /\ group'[g].tid = 0
  <2>1. group[parent] \in Signals /\ group[parent].state = "alive"
    BY Types DEF Fork, Alive
  <2>2. group' = [group EXCEPT ![g] =
                    [group[parent] EXCEPT !.leader_pid = n, !.tid = 0, !.exec = "no"]]
    BY Zenon DEF Fork
  <2>3. /\ \A h \in Groups : h # g => group'[h] = group[h]
        /\ group'[g] = [group[parent] EXCEPT !.leader_pid = n, !.tid = 0, !.exec = "no"]
    BY <2>2, Types
  <2> QED
    BY <2>1, <2>3 DEF Signals
<1>2. /\ pid_task[n] = Nobody /\ group[g].state = "none" /\ list' = list
      /\ pid_task' = [pid_task EXCEPT ![n] = <<g, "m">>]
  BY Zenon DEF Fork
<1>3. /\ pid_task' \in [Pids -> {Nobody, Orphan} \cup Tasks] /\ pid_task'[n] = <<g, "m">>
      /\ \A m \in Pids : m # n => pid_task'[m] = pid_task[m]
      /\ \A m \in Pids : pid_task[m] # Nobody => pid_task'[m] = pid_task[m]
  BY Zenon, <1>2, Types, TasksApart
<1>4. ASSUME NEW h \in Groups
      PROVE  /\ group'[h].state = "alive" => Leads(group', pid_task', h)
             /\ Threaded(group', pid_task', h)
  <2>1. CASE h = g
    BY <1>1, <1>3, <2>1, Zenon DEF Leads, Threaded
  <2>2. CASE h # g
    <3>1. /\ group'[h] = group[h] /\ (group[h].state = "alive" => Leads(group, pid_task, h))
          /\ Threaded(group, pid_task, h)
      BY <1>1, <2>2, Zenon DEF LInv, Numbered
    <3>2. <<h, "m">> # Nobody /\ <<h, "t">> # Nobody
      BY Zenon, TasksApart
    <3>3. group[h].tid # 0 => group[h].tid \in Pids
      BY Types
    <3> QED
      BY <1>3, <3>1, <3>2, <3>3, Zenon DEF Leads, Threaded
  <2> QED
    BY <2>1, <2>2
<1>5. ASSUME NEW h \in Groups, NEW m \in Pids
      PROVE  Owned(group', pid_task', h, m)
  <2>1. "m" # "t" /\ "none" # "alive"
    OBVIOUS
  <2>2. Owned(group, pid_task, h, m)
    BY Zenon DEF LInv, Numbered
  <2>3. CASE m = n
    <3>1. \A x : pid_task'[m] = <<h, x>> => h = g /\ x = "m"
      BY <1>3, <2>3, TasksApart, Zenon
    <3> QED
      BY <1>1, <2>1, <2>3, <3>1, Zenon DEF Owned
  <2>4. CASE m # n /\ h = g
    BY <1>2, <1>3, <2>1, <2>2, <2>4, Zenon DEF Owned
  <2>5. CASE m # n /\ h # g
    BY <1>1, <1>3, <2>2, <2>5, Zenon DEF Owned
  <2> QED
    BY <2>3, <2>4, <2>5
<1>6. Numbered(group', pid_task')
  BY <1>3, <1>4, <1>5, Zenon DEF Numbered
<1>7. \A h \in list.steady : h # g /\ h \in Groups /\ group'[h].state = "alive"
  <2>1. "none" # "alive"
    OBVIOUS
  <2> QED
    BY <1>1, <1>2, <2>1, ListTypes, Zenon
<1>8. \A h \in Groups : group[h].state # "none" => group'[h] = group[h]
  BY <1>1, <1>2, Zenon
<1>9. Handled(group, list, group', list')
  BY <1>2, <1>8, Zenon DEF Handled
<1>10. list \in Lists
  BY Types
<1> QED
  BY <1>2, <1>6, <1>7, <1>8, <1>9, <1>10, Zenon DEF Undisturbed

\* So has a new thread.
LEMMA CloneKeeps ==
  ASSUME LInv, NEW g \in Groups, NEW n \in Pids, Clone(g, n)
  PROVE  Numbered(group', pid_task') /\ Undisturbed(group, list, group', list')
<1>1. /\ \A h \in Groups : h # g => group'[h] = group[h]
      /\ group'[g].state = group[g].state /\ group'[g].leader_pid = group[g].leader_pid
      /\ group'[g].exec = group[g].exec /\ group'[g].mm = group[g].mm /\ group'[g].tid = n
  BY Zenon, Types DEF Clone, Signals
<1>2. /\ pid_task[n] = Nobody /\ list' = list /\ pid_task' = [pid_task EXCEPT ![n] = <<g, "t">>]
      /\ group[g].state = "alive" /\ group[g].mm /\ group[g].exec = "no" /\ group[g].tid = 0
  BY Zenon DEF Clone, Alive
<1>3. /\ pid_task' \in [Pids -> {Nobody, Orphan} \cup Tasks] /\ pid_task'[n] = <<g, "t">>
      /\ \A m \in Pids : m # n => pid_task'[m] = pid_task[m]
      /\ \A m \in Pids : pid_task[m] # Nobody => pid_task'[m] = pid_task[m]
  BY Zenon, <1>2, Types, TasksApart
<1>4. ASSUME NEW h \in Groups
      PROVE  /\ group'[h].state = "alive" => Leads(group', pid_task', h)
             /\ Threaded(group', pid_task', h)
  <2>1. /\ group[h].state = "alive" => Leads(group, pid_task, h)
        /\ Threaded(group, pid_task, h)
    BY Zenon DEF LInv, Numbered
  <2>2. <<h, "m">> # Nobody /\ <<h, "t">> # Nobody
    BY Zenon, TasksApart
  <2>3. group[h].tid # 0 => group[h].tid \in Pids
    BY Types
  <2>4. CASE h = g
    BY <1>1, <1>2, <1>3, <2>1, <2>2, <2>4, ZenonT(30) DEF Leads, Threaded
  <2>5. CASE h # g
    BY <1>1, <1>3, <2>1, <2>2, <2>3, <2>5, ZenonT(30) DEF Leads, Threaded
  <2> QED
    BY <2>4, <2>5
<1>5. ASSUME NEW h \in Groups, NEW m \in Pids
      PROVE  Owned(group', pid_task', h, m)
  <2>1. "m" # "t" /\ m # 0
    BY Types
  <2>2. Owned(group, pid_task, h, m)
    BY Zenon DEF LInv, Numbered
  <2>3. CASE m = n
    <3>1. \A x : <<g, "t">> = <<h, x>> => h = g /\ x = "t"
      OBVIOUS
    <3>2. \A x : pid_task'[m] = <<h, x>> => h = g /\ x = "t"
      BY <1>3, <2>3, <3>1, Zenon
    <3> QED
      BY <1>1, <1>2, <2>1, <2>3, <3>2, Zenon DEF Owned
  <2>4. CASE m # n /\ h = g
    BY <1>1, <1>2, <1>3, <2>1, <2>2, <2>4, Zenon DEF Owned
  <2>5. CASE m # n /\ h # g
    BY <1>1, <1>3, <2>2, <2>5, Zenon DEF Owned
  <2> QED
    BY <2>3, <2>4, <2>5
<1>6. Numbered(group', pid_task')
  BY <1>3, <1>4, <1>5, Zenon DEF Numbered
<1>7. \A h \in Groups : /\ group'[h].state = group[h].state /\ group'[h].exec = group[h].exec
                        /\ group'[h].leader_pid = group[h].leader_pid
  BY <1>1, Zenon
<1>8. Handled(group, list, group', list')
  BY <1>2, <1>7, Zenon DEF Handled
<1> QED
  BY <1>2, <1>6, <1>7, <1>8, ListTypes, Types, Zenon DEF Undisturbed

\* A thread's pid that is given up is the pid of no process.
LEMMA ThreadPid ==
  ASSUME LInv, NEW g \in Groups, group[g].tid # 0
  PROVE  /\ \A h \in list.steady : group[h].leader_pid # group[g].tid
         /\ (list.stale \/ Found(group[g].tid)) \in BOOLEAN
         /\ Found(group[g].tid) => list.pc = "task" /\ list.tgid = group[g].tid
<1>1. \A h \in list.steady : group[h].leader_pid # group[g].tid
  BY ListTypes, OnePid, Zenon DEF LInv
<1> QED
  BY <1>1, Zenon DEF Found

LEMMA ThreadExitKeeps ==
  ASSUME LInv, NEW g \in Groups, ThreadExit(g)
  PROVE  Numbered(group', pid_task') /\ Undisturbed(group, list, group', list')
<1> DEFINE b == list.stale \/ Found(group[g].tid)
           t == IF Holds(<<g, "t">>) THEN Nobody ELSE list.task
<1>1. /\ \A h \in Groups : h # g => group'[h] = group[h]
      /\ group'[g].state = group[g].state /\ group'[g].leader_pid = group[g].leader_pid
      /\ group'[g].exec = group[g].exec /\ group'[g].tid = 0
  BY Types DEF ThreadExit, Signals
<1>2. /\ group[g].tid # 0 /\ group[g].exec = "no"
      /\ pid_task' = [pid_task EXCEPT ![group[g].tid] = Nobody]
      /\ list' = [list EXCEPT !.stale = b, !.task = t]
  BY Zenon DEF ThreadExit
<1>3. /\ pid_task' \in [Pids -> {Nobody, Orphan} \cup Tasks]
      /\ pid_task'[group[g].tid] = Nobody
      /\ \A m \in Pids : m # group[g].tid => pid_task'[m] = pid_task[m]
  <2>1. group[g].tid \in Pids /\ pid_task \in [Pids -> {Nobody, Orphan} \cup Tasks]
    BY <1>2, Types
  <2> QED
    BY <1>2, <2>1
<1>4. ASSUME NEW h \in Groups
      PROVE  /\ group'[h].state = "alive" => Leads(group', pid_task', h)
             /\ Threaded(group', pid_task', h)
  <2>1. /\ group[h].state = "alive" => Leads(group, pid_task, h)
        /\ Threaded(group, pid_task, h)
    BY Zenon DEF LInv, Numbered
  <2>2. /\ group[h].state = "alive" => group[h].leader_pid # group[g].tid
        /\ h # g /\ group[h].tid # 0 => group[h].tid # group[g].tid
    BY <1>2, OnePid, Zenon DEF LInv
  <2>3. group[h].tid # 0 => group[h].tid \in Pids
    BY Types
  <2>4. CASE h = g
    BY <1>1, <1>3, <2>1, <2>2, <2>4, Zenon DEF Leads, Threaded
  <2>5. CASE h # g
    BY <1>1, <1>3, <2>1, <2>2, <2>3, <2>5, Zenon DEF Leads, Threaded
  <2> QED
    BY <2>4, <2>5
<1>5. ASSUME NEW h \in Groups, NEW m \in Pids
      PROVE  Owned(group', pid_task', h, m)
  <2>1. <<h, "m">> # Nobody /\ <<h, "t">> # Nobody
    BY Zenon, TasksApart
  <2>2. Owned(group, pid_task, h, m)
    BY Zenon DEF LInv, Numbered
  <2>3. CASE m = group[g].tid
    BY <1>3, <2>1, <2>3, Zenon DEF Owned
  <2>4. CASE m # group[g].tid /\ h = g
    BY <1>1, <1>2, <1>3, <2>2, <2>4, Zenon DEF Owned
  <2>5. CASE m # group[g].tid /\ h # g
    BY <1>1, <1>3, <2>2, <2>5, Zenon DEF Owned
  <2> QED
    BY <2>3, <2>4, <2>5
<1>6. Numbered(group', pid_task')
  BY <1>3, <1>4, <1>5, Zenon DEF Numbered
<1>7. b \in BOOLEAN /\ t \in {Nobody, Orphan} \cup Tasks
  BY <1>2, ThreadPid, ListTypes, Zenon
<1>8. b => list.stale \/ (list.pc = "task" /\ list.tgid = group[g].tid)
  BY <1>2, ThreadPid, Zenon
<1>9. t = list.task \/ (t = Nobody /\ list.pc = "test" /\ list.task = <<g, "t">>)
  BY Zenon DEF Holds
<1> HIDE DEF b, t
<1>10. Fields(list', b, t, list.steady, list.overtaken)
  <2>1. list \in Lists
    BY Types
  <2> QED
    BY <1>2, <1>7, <2>1, Updated, ListTypes, Zenon
<1>11. \A h \in Groups : /\ group'[h].state = group[h].state /\ group'[h].exec = group[h].exec
                         /\ group'[h].leader_pid = group[h].leader_pid
  BY <1>1, Zenon
<1>12. Handled(group, list, group', list')
  <2>1. ASSUME NEW h \in list.steady, t # list.task
        PROVE  list.task # <<h, "m">> /\ (list.task = <<h, "t">> => group[h].exec = "no")
    <3>1. list.task = <<g, "t">>
      BY <1>9, <2>1, Zenon
    <3>2. <<g, "t">> # <<h, "m">> /\ (<<g, "t">> = <<h, "t">> => g = h)
      OBVIOUS
    <3> QED
      BY <1>2, <3>1, <3>2, Zenon
  <2> QED
    BY <1>9, <1>10, <1>11, <2>1, Zenon DEF Handled, Fields
<1>13. /\ \A h \in list.steady : group[h].leader_pid # group[g].tid
       /\ list.pc # "test" => t = list.task
  BY <1>2, <1>9, ThreadPid, Zenon
<1>14. list'.stale => list.stale \/
         (list.pc = "task" /\ \A h \in list'.steady : group[h].leader_pid # list.tgid)
  BY <1>8, <1>10, <1>13, Zenon DEF Fields
<1>15. Undisturbed(group, list, group', list')
  BY <1>10, <1>11, <1>12, <1>13, <1>14, ListTypes, Zenon DEF Undisturbed, Fields
<1> QED
  BY <1>6, <1>15

\* The pid of the process leads to the thread now, which passes the test of
\* next_tgid before it is made the leader; a lister that has the thread in hand
\* already is overtaken.
LEMMA ExecMoveKeeps ==
  ASSUME LInv, NEW g \in Groups, ExecMove(g)
  PROVE  Numbered(group', pid_task') /\ Undisturbed(group, list, group', list')
<1> DEFINE p == group[g].leader_pid
           b == list.stale \/ Found(group[g].tid)
           ov == IF Holds(<<g, "t">>) THEN list.overtaken \cup {g} ELSE list.overtaken
<1>1. /\ \A h \in Groups : h # g => group'[h] = group[h]
      /\ group'[g].state = group[g].state /\ group'[g].leader_pid = p
      /\ group'[g].exec = "moved" /\ group'[g].tid = 0
  BY Types DEF ExecMove, Signals
<1>2. /\ group[g].tid # 0 /\ group[g].exec = "no"
      /\ pid_task' = [pid_task EXCEPT ![group[g].tid] = Nobody, ![p] = <<g, "t">>]
      /\ list' = [list EXCEPT !.stale = b, !.overtaken = ov]
  BY Zenon DEF ExecMove
<1>3. group[g].state = "alive" /\ "moved" # "no"
  <2>1. group[g].state = "alive"
    BY <1>2, Zenon DEF LInv, Numbered, Threaded
  <2> QED
    BY <2>1
<1>4. p \in Pids /\ group[g].tid \in Pids /\ p # group[g].tid
  BY <1>2, <1>3, Types, OnePid DEF LInv, Alive
<1>5. /\ pid_task' \in [Pids -> {Nobody, Orphan} \cup Tasks] /\ pid_task'[p] = <<g, "t">>
      /\ pid_task'[group[g].tid] = Nobody
      /\ \A m \in Pids : m # group[g].tid /\ m # p => pid_task'[m] = pid_task[m]
  BY Zenon, <1>2, <1>4, Types, TasksApart
<1>6. ASSUME NEW h \in Groups
      PROVE  /\ group'[h].state = "alive" => Leads(group', pid_task', h)
             /\ Threaded(group', pid_task', h)
  <2>1. /\ group[h].state = "alive" => Leads(group, pid_task, h)
        /\ Threaded(group, pid_task, h)
    BY Zenon DEF LInv, Numbered
  <2>2. CASE h = g
    BY <1>1, <1>3, <1>4, <1>5, <2>2, Zenon DEF Leads, Threaded
  <2>3. CASE h # g
    <3>1. /\ group[h].state = "alive" => group[h].leader_pid # group[g].tid /\ group[h].leader_pid # p
          /\ group[h].tid # 0 => group[h].tid # group[g].tid /\ group[h].tid # p
      BY <1>2, <1>3, <2>3, OnePid, Zenon DEF LInv
    <3>2. group[h].tid # 0 => group[h].tid \in Pids
      BY Types
    <3> QED
      BY <1>1, <1>5, <2>1, <2>3, <3>1, <3>2, Zenon DEF Leads, Threaded
  <2> QED
    BY <2>2, <2>3
<1>7. ASSUME NEW h \in Groups, NEW m \in Pids
      PROVE  Owned(group', pid_task', h, m)
  <2>1. <<h, "m">> # Nobody /\ <<h, "t">> # Nobody
    BY Zenon, TasksApart
  <2>2. Owned(group, pid_task, h, m)
    BY Zenon DEF LInv, Numbered
  <2>3. CASE m = group[g].tid
    BY <1>5, <2>1, <2>3, Zenon DEF Owned
  <2>4. CASE m = p
    <3>1. <<g, "t">> # <<h, "m">> /\ (<<g, "t">> = <<h, "t">> => g = h)
      OBVIOUS
    <3> QED
      BY <1>1, <1>3, <1>5, <2>4, <3>1, Zenon DEF Owned
  <2>5. CASE m # group[g].tid /\ m # p /\ h = g
    BY <1>2, <1>5, <2>2, <2>5, Zenon DEF Owned
  <2>6. CASE m # group[g].tid /\ m # p /\ h # g
    BY <1>1, <1>5, <2>2, <2>6, Zenon DEF Owned
  <2> QED
    BY <2>3, <2>4, <2>5, <2>6, Zenon
<1>8. Numbered(group', pid_task')
  BY <1>5, <1>6, <1>7, Zenon DEF Numbered
<1>9. b \in BOOLEAN /\ ov \in SUBSET Groups
  BY <1>2, ThreadPid, ListTypes
<1>10. b => list.stale \/ (list.pc = "task" /\ list.tgid = group[g].tid)
  BY <1>2, ThreadPid, Zenon
<1>11. /\ list.overtaken \subseteq ov
       /\ list.pc = "test" /\ list.task = <<g, "t">> => g \in ov
  BY DEF Holds
<1> HIDE DEF b, ov
<1>12. Fields(list', b, list.task, list.steady, ov)
  <2>1. list \in Lists
    BY Types
  <2> QED
    BY <1>2, <1>9, <2>1, Updated, ListTypes, Zenon
<1>13. \A h \in Groups : /\ group'[h].state = group[h].state
                         /\ group'[h].leader_pid = group[h].leader_pid
                         /\ h # g => group'[h].exec = group[h].exec
  BY <1>1, Zenon
<1>14. list.pc = "test" => Handled(group, list, group', list')
  BY <1>1, <1>3, <1>11, <1>12, <1>13, Zenon DEF Handled, Fields
<1>15. list'.stale => list.stale \/
         (list.pc = "task" /\ \A h \in list'.steady : group[h].leader_pid # list.tgid)
  <2>1. \A h \in list.steady : group[h].leader_pid # group[g].tid
    BY <1>2, ThreadPid, Zenon
  <2> QED
    BY <1>10, <1>12, <2>1, Zenon DEF Fields
<1>16. Undisturbed(group, list, group', list')
  BY <1>11, <1>12, <1>13, <1>14, <1>15, ListTypes, Zenon DEF Undisturbed, Fields
<1> QED
  BY <1>8, <1>16

\* The old leader is released: a lister that has it in hand is overtaken.
LEMMA ExecDoneKeeps ==
  ASSUME LInv, NEW g \in Groups, ExecDone(g)
  PROVE  Numbered(group', pid_task') /\ Undisturbed(group, list, group', list')
<1> DEFINE t == IF Holds(<<g, "m">>) THEN Nobody ELSE list.task
           ov == IF Holds(<<g, "m">>) THEN list.overtaken \cup {g} ELSE list.overtaken
<1>1. /\ \A h \in Groups : h # g => group'[h] = group[h]
      /\ group'[g].state = group[g].state /\ group'[g].leader_pid = group[g].leader_pid
      /\ group'[g].tid = group[g].tid /\ group'[g].exec = "done"
  BY Types DEF ExecDone, Signals
<1>2. /\ pid_task' = pid_task /\ group[g].exec = "moved"
      /\ list' = [list EXCEPT !.task = t, !.overtaken = ov]
  BY Zenon DEF ExecDone
<1>3. "moved" # "no" /\ "done" # "no"
  OBVIOUS
<1>4. ASSUME NEW h \in Groups
      PROVE  /\ group'[h].state = "alive" => Leads(group', pid_task', h)
             /\ Threaded(group', pid_task', h)
             /\ \A m \in Pids : Owned(group', pid_task', h, m)
  <2>1. /\ group[h].state = "alive" => Leads(group, pid_task, h)
        /\ Threaded(group, pid_task, h)
    BY Zenon DEF LInv, Numbered
  <2>2. \A m \in Pids : Owned(group, pid_task, h, m)
    BY Zenon DEF LInv, Numbered
  <2>3. CASE h = g
    <3>1. group[g].tid = 0
      BY <1>2, <1>3, <2>1, <2>3, Zenon DEF Threaded
    <3>2. /\ group'[h].state = "alive" => Leads(group', pid_task', h)
          /\ Threaded(group', pid_task', h)
      BY <1>1, <1>2, <1>3, <2>1, <2>3, <3>1, Zenon DEF Leads, Threaded
    <3>3. ASSUME NEW m \in Pids PROVE Owned(group', pid_task', h, m)
      BY <1>1, <1>2, <1>3, <2>2, <2>3, Zenon DEF Owned
    <3> QED
      BY <3>2, <3>3
  <2>4. CASE h # g
    BY <1>1, <1>2, <2>1, <2>2, <2>4, Zenon DEF Leads, Threaded, Owned
  <2> QED
    BY <2>3, <2>4
<1>5. Numbered(group', pid_task')
  BY <1>2, <1>4, Types, Zenon DEF Numbered
<1>6. t \in {Nobody, Orphan} \cup Tasks /\ ov \in SUBSET Groups
  BY ListTypes
<1>7. /\ list.overtaken \subseteq ov
      /\ t = list.task \/ (t = Nobody /\ list.pc = "test" /\ list.task = <<g, "m">> /\ g \in ov)
  BY DEF Holds
<1> HIDE DEF t, ov
<1>8. Fields(list', list.stale, t, list.steady, ov)
  <2>1. list \in Lists
    BY Types
  <2> QED
    BY <1>2, <1>6, <2>1, Updated, ListTypes, Zenon
<1>9. \A h \in Groups : /\ group'[h].state = group[h].state
                        /\ group'[h].leader_pid = group[h].leader_pid
                        /\ h # g => group'[h].exec = group[h].exec
  BY <1>1, Zenon
<1>10. Handled(group, list, group', list')
  <2>1. ASSUME NEW h \in list.steady \ ov, t # list.task
        PROVE  list.task # <<h, "m">> /\ (list.task = <<h, "t">> => group[h].exec = "no")
    <3>1. list.task = <<g, "m">> /\ g \in ov
      BY <1>7, <2>1, Zenon
    <3>2. <<g, "m">> # <<h, "t">> /\ (<<g, "m">> = <<h, "m">> => g = h)
      OBVIOUS
    <3> QED
      BY <3>1, <3>2, Zenon
  <2>2. ASSUME NEW h \in Groups
        PROVE  \/ group'[h].exec = group[h].exec
               \/ group'[h].exec # "no" /\ group[h].exec # "no"
    BY <1>1, <1>2, <1>3, <1>9, Zenon
  <2> QED
    BY <1>7, <1>8, <2>1, <2>2, Zenon DEF Handled, Fields
<1>11. list.pc # "test" => t = list.task
  BY <1>7, Zenon
<1>12. list'.stale => list.stale
  BY <1>8, Zenon DEF Fields
<1>13. Undisturbed(group, list, group', list')
  BY <1>7, <1>8, <1>9, <1>10, <1>11, <1>12, ListTypes, Zenon DEF Undisturbed, Fields
<1> QED
  BY <1>5, <1>13

\* No pid changes.
LEMMA QuietKeeps ==
  ASSUME LInv, NEW g \in Groups, ExitMm(g) \/ \E u \in Uids : Setuid(g, u)
  PROVE  Numbered(group', pid_task') /\ Undisturbed(group, list, group', list')
<1>1. /\ \A h \in Groups : h # g => group'[h] = group[h]
      /\ group'[g].state = group[g].state /\ group'[g].leader_pid = group[g].leader_pid
      /\ group'[g].tid = group[g].tid /\ group'[g].exec = group[g].exec
      /\ group[g].tid = 0 \/ group'[g].mm = group[g].mm
  <2>1. CASE ExitMm(g)
    BY <2>1, Types DEF ExitMm, Signals
  <2>2. CASE \E u \in Uids : Setuid(g, u)
    <3>1. PICK u \in Uids : group' = [group EXCEPT ![g].uid = u]
      BY <2>2, Zenon DEF Setuid
    <3> QED
      BY <3>1, Types DEF Signals
  <2> QED
    BY <2>1, <2>2
<1>2. pid_task' = pid_task /\ list' = list
  BY Zenon DEF ExitMm, Setuid
<1>3. ASSUME NEW h \in Groups
      PROVE  /\ group'[h].state = "alive" => Leads(group', pid_task', h)
             /\ Threaded(group', pid_task', h)
             /\ \A m \in Pids : Owned(group', pid_task', h, m)
  <2>1. /\ group[h].state = "alive" => Leads(group, pid_task, h)
        /\ Threaded(group, pid_task, h)
        /\ \A m \in Pids : Owned(group, pid_task, h, m)
    BY Zenon DEF LInv, Numbered
  <2>2. CASE h = g
    <3>1. group'[h].state = "alive" => Leads(group', pid_task', h)
      BY <1>1, <1>2, <2>1, <2>2, Zenon DEF Leads
    <3>2. Threaded(group', pid_task', h)
      BY <1>1, <1>2, <2>1, <2>2, Zenon DEF Threaded
    <3>3. ASSUME NEW m \in Pids PROVE Owned(group', pid_task', h, m)
      BY <1>1, <1>2, <2>1, <2>2, Zenon DEF Owned
    <3> QED
      BY <3>1, <3>2, <3>3
  <2>3. CASE h # g
    BY <1>1, <1>2, <2>1, <2>3, Zenon DEF Leads, Threaded, Owned
  <2> QED
    BY <2>2, <2>3
<1>4. Numbered(group', pid_task')
  BY <1>2, <1>3, Types, Zenon DEF Numbered
<1>5. \A h \in Groups : /\ group'[h].state = group[h].state /\ group'[h].exec = group[h].exec
                        /\ group'[h].leader_pid = group[h].leader_pid
  BY <1>1, Zenon
<1>6. Handled(group, list, group', list')
  BY <1>2, <1>5, Zenon DEF Handled
<1> QED
  BY <1>2, <1>4, <1>5, <1>6, ListTypes, Types, Zenon DEF Undisturbed

\* A process that exits is not one of those any more that the listing has to
\* show; the struct pid that becomes stale was its own, and so was the task.
LEMMA ExitKeeps ==
  ASSUME LInv, NEW g \in Groups, Exit(g)
  PROVE  Numbered(group', pid_task') /\ Undisturbed(group, list, group', list')
<1> DEFINE p == group[g].leader_pid
<1>1. /\ \A h \in Groups : h # g => group'[h] = group[h]
      /\ group'[g].state = "dead" /\ group'[g].tid = group[g].tid /\ group'[g].exec = group[g].exec
  BY Types DEF Exit, Signals
<1>2. group[g].state = "alive" /\ group[g].tid = 0 /\ p \in Pids
  BY Types, Zenon DEF LInv, Numbered, Threaded, Exit, Alive
<1>3. PICK left \in {Nobody, Orphan} :
        /\ pid_task' = [pid_task EXCEPT ![p] = left]
        /\ list' = [list EXCEPT !.stale = list.stale \/ (left = Nobody /\ Found(p)),
                                !.task = IF Holds(pid_task[p]) THEN Nobody ELSE list.task,
                                !.steady = list.steady \ {g}]
  BY Zenon DEF Exit
<1>4. /\ pid_task' \in [Pids -> {Nobody, Orphan} \cup Tasks] /\ pid_task'[p] = left
      /\ \A m \in Pids : m # p => pid_task'[m] = pid_task[m]
  BY <1>2, <1>3, Types
<1>5. pid_task[p] = <<g, "m">> \/ pid_task[p] = <<g, "t">>
  BY <1>2, Zenon DEF LInv, Numbered, Leads
<1>6. "dead" # "alive" /\ "dead" # "none"
  OBVIOUS
<1>7. ASSUME NEW h \in Groups
      PROVE  /\ group'[h].state = "alive" => Leads(group', pid_task', h)
             /\ Threaded(group', pid_task', h)
  <2>1. CASE h = g
    BY <1>1, <1>2, <1>6, <2>1, Zenon DEF Threaded
  <2>2. CASE h # g
    <3>1. /\ group[h].state = "alive" => Leads(group, pid_task, h)
          /\ Threaded(group, pid_task, h)
      BY Zenon DEF LInv, Numbered
    <3>2. /\ group[h].state = "alive" => group[h].leader_pid # p
          /\ group[h].tid # 0 => group[h].tid # p
      BY <1>2, <2>2, OnePid, Zenon DEF LInv
    <3>3. group[h].tid # 0 => group[h].tid \in Pids
      BY Types
    <3> QED
      BY <1>1, <1>4, <2>2, <3>1, <3>2, <3>3, Zenon DEF Leads, Threaded
  <2> QED
    BY <2>1, <2>2
<1>8. ASSUME NEW h \in Groups, NEW m \in Pids
      PROVE  Owned(group', pid_task', h, m)
  <2>1. <<h, "m">> \notin {Nobody, Orphan} /\ <<h, "t">> \notin {Nobody, Orphan} /\ m # 0
    BY ProcAssumption, Types
  <2>2. Owned(group, pid_task, h, m)
    BY Zenon DEF LInv, Numbered
  <2>3. CASE m = p
    BY <1>4, <2>1, <2>3, Zenon DEF Owned
  <2>4. CASE m # p /\ h = g
    BY <1>2, <1>4, <2>1, <2>2, <2>4, Zenon DEF Owned
  <2>5. CASE m # p /\ h # g
    BY <1>1, <1>4, <2>2, <2>5, Zenon DEF Owned
  <2> QED
    BY <2>3, <2>4, <2>5
<1>9. Numbered(group', pid_task')
  BY <1>4, <1>7, <1>8, Zenon DEF Numbered
<1>10. Undisturbed(group, list, group', list')
  <2> DEFINE b == list.stale \/ (left = Nobody /\ Found(p))
             t == IF Holds(pid_task[p]) THEN Nobody ELSE list.task
             st == list.steady \ {g}
  <2>1. b \in BOOLEAN /\ t \in {Nobody, Orphan} \cup Tasks /\ st \in SUBSET Groups
    <3>1. t \in {Nobody, Orphan} \cup Tasks /\ st \in SUBSET Groups
      BY ListTypes
    <3> QED
      BY <3>1, Zenon
  <2>2. b => list.stale \/ (list.pc = "task" /\ list.tgid = p)
    BY Zenon DEF Found
  <2>3. t = list.task \/ (t = Nobody /\ list.pc = "test" /\ list.task = pid_task[p])
    BY Zenon DEF Holds
  <2>4. list' = [list EXCEPT !.stale = b, !.task = t, !.steady = st]
    BY <1>3, Zenon
  <2>5. \A h \in st : h \in list.steady /\ h \in Groups /\ h # g /\ group[h].leader_pid # p
    BY <1>2, ListTypes, OnePid, Zenon DEF LInv
  <2>6. st \subseteq list.steady
    BY Zenon
  <2> HIDE DEF b, t, st
  <2>7. Fields(list', b, t, st, list.overtaken)
    <3>1. list \in Lists
      BY Types
    <3> QED
      BY <2>1, <2>4, <3>1, Updated, ListTypes, Zenon
  <2>8. Handled(group, list, group', list')
    <3>1. ASSUME NEW h \in st, t # list.task
          PROVE  list.task # <<h, "m">> /\ list.task # <<h, "t">>
      <4>1. h # g /\ (list.task = <<g, "m">> \/ list.task = <<g, "t">>)
        BY <1>5, <2>3, <2>5, <3>1, Zenon
      <4>2. \A x, y : h # g => <<g, x>> # <<h, y>>
        OBVIOUS
      <4> QED
        BY <4>1, <4>2, Zenon
    <3>2. \A h \in Groups : group'[h].exec = group[h].exec
      BY <1>1, Zenon
    <3> QED
      BY <2>3, <2>7, <3>1, <3>2, Zenon DEF Handled, Fields
  <2>9. \A h \in Groups : group[h].state # "none" =>
          /\ group'[h].state # "none"
          /\ group'[h].state = "alive" => /\ group[h].state = "alive"
                                          /\ group'[h].leader_pid = group[h].leader_pid
    BY <1>1, <1>6, Zenon
  <2>10. list'.stale => list.stale \/
          (list.pc = "task" /\ \A h \in list'.steady : group[h].leader_pid # list.tgid)
    BY <2>2, <2>5, <2>7, Zenon DEF Fields
  <2>11. \A h \in st : group'[h].state = "alive"
    BY <1>1, <2>5, ListTypes, Zenon
  <2>12. list.pc # "test" => t = list.task
    BY <2>3, Zenon
  <2> QED
    BY <2>6, <2>7, <2>8, <2>9, <2>10, <2>11, <2>12, Zenon DEF Undisturbed, Fields
<1> QED
  BY <1>9, <1>10

\* The last one to hold a pid without a task gives it up.
LEMMA PutPidKeeps ==
  ASSUME LInv, NEW n \in Pids, PutPid(n)
  PROVE  Numbered(group', pid_task') /\ Undisturbed(group, list, group', list')
<1> DEFINE b == list.stale \/ Found(n)
<1>1. /\ pid_task[n] = Orphan /\ pid_task' = [pid_task EXCEPT ![n] = Nobody]
      /\ list' = [list EXCEPT !.stale = b] /\ group' = group
  BY Zenon DEF PutPid
<1>2. /\ pid_task' \in [Pids -> {Nobody, Orphan} \cup Tasks] /\ pid_task'[n] = Nobody
      /\ \A m \in Pids : m # n => pid_task'[m] = pid_task[m]
      /\ \A m \in Pids : pid_task[m] # Orphan => pid_task'[m] = pid_task[m]
  BY <1>1, Types
<1>3. ASSUME NEW h \in Groups
      PROVE  /\ group[h].state = "alive" => Leads(group, pid_task', h) /\ group[h].leader_pid # n
             /\ Threaded(group, pid_task', h)
  <2>1. /\ group[h].state = "alive" => Leads(group, pid_task, h)
        /\ Threaded(group, pid_task, h)
    BY Zenon DEF LInv, Numbered
  <2>2. <<h, "m">> # Orphan /\ <<h, "t">> # Orphan
    BY Zenon, TasksApart
  <2>3. group[h].tid # 0 => group[h].tid \in Pids
    BY Types
  <2> QED
    BY <1>1, <1>2, <2>1, <2>2, <2>3, Zenon DEF Leads, Threaded
<1>4. ASSUME NEW h \in Groups, NEW m \in Pids
      PROVE  Owned(group, pid_task', h, m)
  <2>1. <<h, "m">> # Nobody /\ <<h, "t">> # Nobody
    BY Zenon, TasksApart
  <2>2. Owned(group, pid_task, h, m)
    BY Zenon DEF LInv, Numbered
  <2>3. CASE m = n
    BY <1>2, <2>1, <2>3, Zenon DEF Owned
  <2>4. CASE m # n
    BY <1>2, <2>2, <2>4, Zenon DEF Owned
  <2> QED
    BY <2>3, <2>4
<1>5. Numbered(group', pid_task')
  BY <1>1, <1>2, <1>3, <1>4, Zenon DEF Numbered
<1>6. b \in BOOLEAN /\ (b => list.stale \/ (list.pc = "task" /\ list.tgid = n))
  BY Zenon DEF Found
<1> HIDE DEF b
<1>7. Fields(list', b, list.task, list.steady, list.overtaken)
  <2>1. list \in Lists
    BY Types
  <2> QED
    BY <1>1, <1>6, <2>1, Updated, ListTypes, Zenon
<1>8. Handled(group, list, group', list')
  BY <1>1, <1>7, Zenon DEF Handled, Fields
<1>9. list'.stale => list.stale \/
         (list.pc = "task" /\ \A h \in list'.steady : group[h].leader_pid # list.tgid)
  BY <1>3, <1>6, <1>7, ListTypes, Zenon DEF Fields
<1>10. Undisturbed(group, list, group', list')
  BY <1>1, <1>7, <1>8, <1>9, ListTypes, Zenon DEF Undisturbed, Fields
<1> QED
  BY <1>5, <1>10

Less == {p \in Nat \X Nat : p[1] < p[2]}

\* A set of pids has a lowest one.
LEMMA MinIn ==
  ASSUME NEW S \in SUBSET Nat, S # {}
  PROVE  Min(S) \in S /\ \A j \in S : Min(S) <= j
<1>1. IsWellFoundedOn(Less, Nat)
  BY NatLessThanWellFounded DEF OpToRel, Less
<1>2. PICK i \in S : \A j \in S : ~ (<<j, i>> \in Less)
  BY <1>1, WFMin, Zenon
<1>3. ASSUME NEW j \in S PROVE i <= j
  <2>1. i \in Nat /\ j \in Nat /\ <<j, i>> \in Nat \X Nat
    OBVIOUS
  <2>2. <<j, i>>[1] = j /\ <<j, i>>[2] = i
    OBVIOUS
  <2>3. ~ (<<j, i>>[1] < <<j, i>>[2])
    BY <1>2, <2>1, Zenon DEF Less
  <2> QED
    BY <2>1, <2>2, <2>3
<1> QED
  BY Zenon, <1>3 DEF Min

\* An entry with a pid above all the others is emitted.
LEMMA Emitted ==
  ASSUME NEW s \in Seq(Entries), NEW n \in Nat, NEW g \in Groups, NEW e,
         e = [pid |-> n, group |-> g], Increasing(s), Below(s, n)
  PROVE  /\ Append(s, e) \in Seq(Entries) /\ Increasing(Append(s, e))
         /\ Below(Append(s, e), n + 1)
         /\ \A m, h : Occurs(s, m, h) \/ (m = n /\ h = g) => Occurs(Append(s, e), m, h)
         /\ \A i \in DOMAIN Append(s, e) :
              \/ i \in DOMAIN s /\ Append(s, e)[i] = s[i]
              \/ Append(s, e)[i].pid = n /\ Append(s, e)[i].group = g
<1> DEFINE t == Append(s, e)
<1>1. e \in Entries /\ e.pid = n /\ e.group = g
  BY DEF Entries
<1>2. /\ t \in Seq(Entries) /\ Len(s) \in Nat /\ Len(t) = Len(s) + 1
      /\ \A i \in 1 .. Len(s) : t[i] = s[i] /\ s[i] \in Entries
      /\ t[Len(s) + 1] = e /\ DOMAIN s = 1 .. Len(s) /\ DOMAIN t = 1 .. (Len(s) + 1)
  BY <1>1
<1> HIDE DEF t
<1>3. \A i \in 1 .. Len(s) : s[i].pid < n /\ s[i].pid \in Nat
  <2>1. \A i \in 1 .. Len(s) : s[i].pid < n
    BY Zenon, <1>2 DEF Below
  <2>2. \A i \in 1 .. Len(s) : s[i].pid \in Nat
    BY <1>2 DEF Entries
  <2> QED
    BY <2>1, <2>2
<1>4. Increasing(t)
  <2>1. ASSUME NEW i \in 1 .. (Len(s) + 1), NEW j \in 1 .. (Len(s) + 1), i < j
        PROVE  t[i].pid < t[j].pid
    <3>1. i \in 1 .. Len(s) /\ (j = Len(s) + 1 \/ j \in 1 .. Len(s))
      <4>1. Len(s) \in Nat /\ i < j
        BY <1>2, <2>1
      <4> QED
        BY <4>1
    <3>2. \A k, l \in 1 .. Len(s) : k < l => s[k].pid < s[l].pid
      BY <1>2, Zenon DEF Increasing
    <3>3. CASE j = Len(s) + 1
      BY <1>1, <1>2, <1>3, <3>1, <3>3, Zenon
    <3>4. CASE j \in 1 .. Len(s)
      BY <1>2, <2>1, <3>1, <3>2, <3>4, Zenon
    <3> QED
      BY <3>1, <3>3, <3>4
  <2> QED
    BY <1>2, <2>1, Zenon DEF Increasing
<1>5. Below(t, n + 1)
  <2>1. ASSUME NEW i \in 1 .. (Len(s) + 1) PROVE t[i].pid < n + 1
    <3>1. i = Len(s) + 1 \/ i \in 1 .. Len(s)
      BY <1>2
    <3>2. t[i].pid = n \/ (t[i].pid < n /\ t[i].pid \in Nat)
      BY <1>1, <1>2, <1>3, <3>1, Zenon
    <3> QED
      BY <3>2
  <2> QED
    BY <1>2, <2>1, Zenon DEF Below
<1>6. Len(s) + 1 \in 1 .. (Len(s) + 1) /\ \A i \in 1 .. Len(s) : i \in 1 .. (Len(s) + 1)
  BY <1>2
<1>7. \A m, h : Occurs(s, m, h) \/ (m = n /\ h = g) => Occurs(t, m, h)
  BY <1>1, <1>2, <1>6, Zenon DEF Occurs
<1>8. ASSUME NEW i \in DOMAIN t
      PROVE  \/ i \in DOMAIN s /\ t[i] = s[i]
             \/ t[i].pid = n /\ t[i].group = g
  <2>1. i = Len(s) + 1 \/ i \in 1 .. Len(s)
    BY <1>2
  <2> QED
    BY <1>1, <1>2, <2>1, Zenon
<1> QED
  BY <1>2, <1>4, <1>5, <1>7, <1>8, Zenon DEF t

\* The cursor is a pid, or the one after the last.
LEMMA CursorNat ==
  ASSUME LInv
  PROVE  /\ list.pos \in Nat /\ list.tgid \in Nat /\ list.emitted \in Seq(Entries)
         /\ \A g \in list.steady : group[g].leader_pid \in Pids /\ group[g].leader_pid \in Nat
         /\ Pids \in SUBSET Nat
<1>1. Pids \in SUBSET Nat
  BY ProcAssumption DEF Pids
<1>2. \A g \in list.steady : group[g].leader_pid \in Pids
  BY Types, Zenon
<1>3. list.pos \in Nat /\ list.tgid \in Nat /\ list.emitted \in Seq(Entries)
  BY Types DEF Lists
<1> QED
  BY Zenon, <1>1, <1>2, <1>3

\* What lies below a pid lies below a higher one.
LEMMA BelowMore ==
  ASSUME NEW s \in Seq(Entries), NEW m \in Nat, NEW n \in Nat, m <= n, Below(s, m)
  PROVE  Below(s, n)
<1>1. ASSUME NEW i \in DOMAIN s PROVE s[i].pid < n
  <2>1. s[i] \in Entries
    OBVIOUS
  <2>2. s[i].pid \in Nat
    BY <2>1 DEF Entries
  <2>3. s[i].pid < m
    BY Zenon DEF Below
  <2> QED
    BY <2>2, <2>3
<1> QED
  BY <1>1, Zenon DEF Below

\* The entries stay right while the list goes on.
LEMMA StillRight ==
  ASSUME NEW gr, NEW l, NEW l2, Right(gr, l),
         l2.emitted = l.emitted, l2.overtaken = l.overtaken
  PROVE  Right(gr, l2)
  BY Zenon DEF Right, Own

\* A listing begins at pid 1, so below every process.
LEMMA BeginKeeps ==
  ASSUME LInv, ListBegin
  PROVE  Listed(group, list')
<1> DEFINE all == {g \in Groups : Alive(g)}
<1>1. list.pc = "idle" /\ list' = [list EXCEPT !.pc = "call", !.steady = all]
  BY Zenon DEF ListBegin, Listing
<1>2. /\ list' \in Lists /\ list'.pc = "call" /\ list'.steady = all /\ list'.pos = list.pos
      /\ list'.stale = list.stale /\ list'.emitted = list.emitted
      /\ list'.overtaken = list.overtaken
  <2>1. all \in SUBSET Groups
    OBVIOUS
  <2> HIDE DEF all
  <2> QED
    BY Zenon, <1>1, <2>1, Types DEF Lists
<1>3. list.emitted = <<>> /\ list.pos = 1 /\ ~list.stale /\ Increasing(list.emitted)
  BY <1>1 DEF LInv, Listed
<1>4. Below(list.emitted, 1)
  BY <1>3 DEF Below
<1>5. Cursor(list') = 1
  BY <1>2, <1>3 DEF Cursor
<1>6. ASSUME NEW g \in all PROVE group[g].state = "alive" /\ Due(list', group[g].leader_pid, g)
  <2>1. group[g].state = "alive" /\ group[g].leader_pid \in Pids
    BY Types DEF Alive
  <2>2. group[g].leader_pid >= 1
    BY <2>1, ProcAssumption DEF Pids
  <2> QED
    BY <1>2, <1>5, <2>1, <2>2 DEF Due
<1>7. /\ "call" # "idle" /\ "call" \notin {"task", "test", "emit"} /\ "call" # "emit"
      /\ "call" # "test"
  OBVIOUS
<1>8. Right(group, list')
  BY <1>2, StillRight, Zenon DEF LInv, Listed
<1>9. \A g \in Owed(list') : Due(list', group[g].leader_pid, g)
  BY <1>2, <1>6, Zenon DEF Owed
<1> HIDE DEF all
<1> QED
  BY <1>2, <1>3, <1>4, <1>5, <1>6, <1>7, <1>8, <1>9, Zenon DEF Listed

\* A call of getdents goes on at the cursor.
LEMMA CallKeeps ==
  ASSUME LInv, proc_pid_readdir
  PROVE  Listed(group, list')
<1>1. list.pc = "call" /\ list' = [list EXCEPT !.pc = "find", !.tgid = list.pos]
  BY Zenon DEF proc_pid_readdir, Listing
<1>2. /\ list' \in Lists /\ list'.pc = "find" /\ list'.tgid = list.pos
      /\ list'.stale = list.stale /\ list'.emitted = list.emitted /\ list'.steady = list.steady
      /\ list'.overtaken = list.overtaken
  BY Zenon, <1>1, Types DEF Lists
<1>3. Cursor(list') = Cursor(list)
  BY <1>1, <1>2 DEF Cursor
<1>4. ~list.stale
  BY <1>1 DEF LInv, Listed
<1>5. \A n, g : Due(list, n, g) => Due(list', n, g)
  BY <1>1, <1>2, <1>3 DEF Due
<1>6. /\ "call" # "end" /\ "find" # "idle" /\ "find" \notin {"task", "test", "emit"}
      /\ "find" # "emit" /\ "find" # "test"
  OBVIOUS
<1>7. Right(group, list')
  BY <1>2, StillRight, Zenon DEF LInv, Listed
<1>8. Owed(list') = Owed(list)
  BY <1>2, Zenon DEF Owed
<1> QED
  BY <1>1, <1>2, <1>3, <1>4, <1>5, <1>6, <1>7, <1>8, Zenon DEF LInv, Listed

\* What is known of a listing that has neither ended nor to be called again.
LEMMA Underway ==
  ASSUME LInv, list.pc \in {"find", "task", "test", "emit"}
  PROVE  /\ Cursor(list) = list.tgid /\ (list.pc # "task" => ~list.stale)
         /\ Increasing(list.emitted) /\ Below(list.emitted, list.tgid) /\ Right(group, list)
         /\ \A g \in list.steady : group[g].state = "alive"
         /\ \A g \in Owed(list) :
              group[g].leader_pid >= list.tgid \/ Occurs(list.emitted, group[g].leader_pid, g)
         /\ list.pc # "find" => list.tgid \in Pids
<1>1. list.pc # "call" /\ list.pc # "end"
  OBVIOUS
<1>2. Cursor(list) = list.tgid
  BY <1>1 DEF Cursor
<1>3. list.pc # "find" => list.tgid \in Pids
  BY DEF LInv, Listed
<1> QED
  BY <1>1, <1>2, <1>3, Zenon DEF LInv, Listed, Due

\* What next_tgid looks at next has the lowest pid not passed; when nothing is
\* left, every process with a pid has been passed.
LEMMA FindKeeps ==
  ASSUME LInv, TgidFind
  PROVE  Listed(group, list')
<1> DEFINE found == find_ge_pid(list.tgid)
<1>1. /\ list.pc = "find"
      /\ list' = IF found = {} THEN [list EXCEPT !.pc = "end"]
                 ELSE [list EXCEPT !.pc = "task", !.tgid = Min(found)]
  BY Zenon DEF TgidFind, Listing
<1>2. found \in SUBSET Nat /\ \A m \in found : m \in Pids /\ m >= list.tgid
  BY ProcAssumption DEF find_ge_pid, Pids
<1>3. ASSUME NEW g \in list.steady, group[g].leader_pid >= list.tgid
      PROVE  group[g].leader_pid \in found
  <2>1. g \in Groups /\ Leads(group, pid_task, g)
    BY Types, Zenon DEF LInv, Numbered, Alive
  <2>2. <<g, "m">> # Nobody /\ <<g, "t">> # Nobody
    BY Zenon, <2>1, TasksApart
  <2>3. group[g].leader_pid \in Pids /\ pid_task[group[g].leader_pid] # Nobody
    BY <2>1, <2>2, Zenon DEF Leads
  <2> QED
    BY <1>3, <2>3 DEF find_ge_pid
<1> HIDE DEF found
<1>4. /\ list.pc \in {"find", "task", "test", "emit"} /\ list.pc # "task"
      /\ \A g \in Owed(list) : g \in list.steady
  BY <1>1 DEF Owed
<1>5. CASE found = {}
  <2>1. /\ list' \in Lists /\ list'.pc = "end" /\ list'.overtaken = list.overtaken
        /\ list'.stale = list.stale /\ list'.emitted = list.emitted /\ list'.steady = list.steady
    BY <1>1, <1>5, Types DEF Lists
  <2>2. ASSUME NEW g \in Owed(list') PROVE Due(list', group[g].leader_pid, g)
    <3>1. g \in Owed(list) /\ g \in list.steady
      BY <1>4, <2>1, Zenon DEF Owed
    <3>2. Occurs(list.emitted, group[g].leader_pid, g)
      BY <1>3, <1>4, <1>5, <3>1, Underway, Zenon
    <3> QED
      BY <2>1, <3>2, Zenon DEF Due
  <2>3. /\ "end" # "idle" /\ "end" \notin {"task", "test", "emit"}
        /\ "end" # "emit" /\ "end" # "test"
    OBVIOUS
  <2>4. Right(group, list')
    BY <2>1, StillRight, Zenon DEF LInv, Listed
  <2> QED
    BY <1>4, <2>1, <2>2, <2>3, <2>4, Underway, Zenon DEF Listed
<1>6. CASE found # {}
  <2> DEFINE m == Min(found)
  <2>1. m \in found /\ \A j \in found : m <= j
    BY <1>2, <1>6, MinIn
  <2>2. m \in Nat /\ m \in Pids /\ m >= list.tgid
    BY Zenon, <1>2, <2>1
  <2>3. list' = [list EXCEPT !.pc = "task", !.tgid = m]
    BY <1>1, <1>6
  <2> HIDE DEF m
  <2>4. /\ list' \in Lists /\ list'.pc = "task" /\ list'.tgid = m
        /\ list'.stale = list.stale /\ list'.emitted = list.emitted /\ list'.steady = list.steady
        /\ list'.overtaken = list.overtaken
    BY Zenon, <2>2, <2>3, Types DEF Lists
  <2>5. Cursor(list') = m
    BY <2>4 DEF Cursor
  <2>6. Below(list.emitted, m)
    <3>1. list.tgid <= m /\ list.tgid \in Nat /\ list.emitted \in Seq(Entries)
      BY <2>2, CursorNat
    <3> QED
      BY <1>4, <2>2, <3>1, Underway, BelowMore, Zenon
  <2>7. ASSUME NEW g \in Owed(list') PROVE Due(list', group[g].leader_pid, g)
    <3>1. g \in Owed(list) /\ g \in list.steady
      BY <1>4, <2>4, Zenon DEF Owed
    <3>2. group[g].leader_pid \in found \/ Occurs(list.emitted, group[g].leader_pid, g)
      BY <1>3, <1>4, <3>1, Underway, Zenon
    <3>3. group[g].leader_pid \in Nat
      BY <3>1, CursorNat
    <3> QED
      BY <2>1, <2>2, <2>4, <2>5, <3>2, <3>3 DEF Due
  <2>8. "task" # "idle" /\ "task" # "emit" /\ "task" # "test"
    OBVIOUS
  <2>9. Right(group, list')
    BY <2>4, StillRight, Zenon DEF LInv, Listed
  <2>10. ~list.stale
    BY <1>4, Underway, Zenon
  <2> QED
    BY <1>4, <2>2, <2>4, <2>5, <2>6, <2>7, <2>8, <2>9, <2>10, Underway, Zenon DEF Listed
<1> QED
  BY <1>5, <1>6

\* The pid of a process that has run since the beginning leads to a task that
\* passes the test, and any task it leads to has it.
LEMMA TaskKeeps ==
  ASSUME LInv, TgidTask
  PROVE  Listed(group, list')
<1> DEFINE t == IF list.stale THEN Nobody ELSE pid_task[list.tgid]
<1>1. list.pc = "task" /\ list' = [list EXCEPT !.pc = "test", !.stale = FALSE, !.task = t]
  BY Zenon DEF TgidTask, Listing
<1>2. /\ list.pc \in {"find", "task", "test", "emit"} /\ list.pc # "find"
      /\ list.pc # "call" /\ list.pc # "end"
  BY <1>1
<1>3. list.tgid \in Pids /\ list.tgid \in Nat
  BY <1>2, Underway, CursorNat, Zenon
<1>4. t \in {Nobody, Orphan} \cup Tasks
  BY <1>3, Types
<1>5. \A g \in Groups : <<g, "m">> # Nobody /\ <<g, "t">> # Nobody
  BY Zenon, TasksApart
<1>6. ASSUME NEW g \in Groups
      PROVE  /\ t = <<g, "m">> => group[g].state = "alive" /\ list.tgid = group[g].leader_pid
             /\ t = <<g, "t">> => /\ group[g].state = "alive"
                                  /\ group[g].exec = "no" \/ list.tgid = group[g].leader_pid
  <2>1. Owned(group, pid_task, g, list.tgid)
    BY <1>3, Zenon DEF LInv, Numbered
  <2>2. t = Nobody \/ t = pid_task[list.tgid]
    BY Zenon
  <2> HIDE DEF t
  <2> QED
    BY <1>5, <2>1, <2>2, Zenon DEF Owned
<1>7. ASSUME NEW g \in list.steady, group[g].leader_pid = list.tgid
      PROVE  t = <<g, "m">> \/ (t = <<g, "t">> /\ group[g].exec # "no")
  <2>1. g \in Groups /\ Leads(group, pid_task, g)
    BY Types, Zenon DEF LInv, Numbered, Alive
  <2>2. ~list.stale
    BY <1>7, Zenon DEF LInv, Listed
  <2>3. t = pid_task[list.tgid]
    BY <2>2, Zenon
  <2> HIDE DEF t
  <2> QED
    BY <1>7, <2>1, <2>3, Zenon DEF Leads
<1> HIDE DEF t
<1>8. /\ list' \in Lists /\ list'.pc = "test" /\ list'.tgid = list.tgid /\ list'.task = t
      /\ ~list'.stale /\ list'.emitted = list.emitted /\ list'.steady = list.steady
      /\ list'.overtaken = list.overtaken
  <2>1. \A b \in BOOLEAN :
          LET l2 == [list EXCEPT !.pc = "test", !.stale = b, !.task = t] IN
          /\ l2 \in Lists /\ l2.pc = "test" /\ l2.tgid = list.tgid /\ l2.task = t
          /\ l2.stale = b /\ l2.emitted = list.emitted /\ l2.steady = list.steady
          /\ l2.overtaken = list.overtaken
    BY Zenon, <1>4, Types DEF Lists
  <2> QED
    BY <1>1, <2>1, Zenon
<1>9. Cursor(list') = list.tgid
  BY <1>8 DEF Cursor
<1>10. "alive" # "none" /\ "test" # "idle" /\ "test" # "emit" /\ "test" # "end"
  OBVIOUS
<1>11. Held(group, list')
  BY <1>6, <1>7, <1>8, <1>10, Zenon DEF Held, Own
<1>12. \A g \in Owed(list') : Due(list', group[g].leader_pid, g)
  <2>1. Owed(list') = Owed(list)
    BY <1>8, Zenon DEF Owed
  <2> QED
    BY <1>2, <1>8, <1>9, <1>10, <2>1, Underway, Zenon DEF Due
<1>13. Right(group, list')
  BY <1>8, StillRight, Zenon DEF LInv, Listed
<1> QED
  BY <1>2, <1>3, <1>8, <1>9, <1>10, <1>11, <1>12, <1>13, Underway, Zenon DEF Listed

\* A pid whose task fails the test can be passed.
LEMMA PassKeeps ==
  ASSUME LInv, list.pc \in {"test", "emit"},
         list' = [list EXCEPT !.pc = "find", !.tgid = list.tgid + 1, !.task = Nobody],
         \A g \in Owed(list) : group[g].leader_pid # list.tgid
  PROVE  Listed(group, list')
<1>1. /\ list.pc \in {"find", "task", "test", "emit"} /\ list.pc # "find" /\ list.pc # "task"
      /\ list.tgid \in Nat /\ list.tgid + 1 \in Nat /\ list.tgid <= list.tgid + 1
      /\ list.emitted \in Seq(Entries)
  BY CursorNat
<1>2. /\ list' \in Lists /\ list'.pc = "find" /\ list'.tgid = list.tgid + 1
      /\ list'.stale = list.stale /\ list'.emitted = list.emitted /\ list'.steady = list.steady
      /\ list'.overtaken = list.overtaken
  <2>1. \A n \in Nat :
          LET l2 == [list EXCEPT !.pc = "find", !.tgid = n, !.task = Nobody] IN
          /\ l2 \in Lists /\ l2.pc = "find" /\ l2.tgid = n
          /\ l2.stale = list.stale /\ l2.emitted = list.emitted /\ l2.steady = list.steady
          /\ l2.overtaken = list.overtaken
    BY Zenon, Types DEF Lists
  <2> QED
    BY <1>1, <2>1, Zenon
<1>3. Cursor(list') = list.tgid + 1
  BY <1>2 DEF Cursor
<1>4. Below(list.emitted, list.tgid + 1)
  BY <1>1, Underway, BelowMore, Zenon
<1>5. ASSUME NEW g \in Owed(list') PROVE Due(list', group[g].leader_pid, g)
  <2>1. g \in Owed(list) /\ g \in list.steady
    BY <1>2, Zenon DEF Owed
  <2>2. group[g].leader_pid # list.tgid /\ group[g].leader_pid \in Nat /\ list.tgid \in Nat
    BY <2>1, CursorNat, Zenon
  <2>3. group[g].leader_pid >= list.tgid \/ Occurs(list.emitted, group[g].leader_pid, g)
    BY <1>1, <2>1, Underway, Zenon
  <2> QED
    BY <1>2, <1>3, <2>2, <2>3 DEF Due
<1>6. /\ "find" # "idle" /\ "find" \notin {"task", "test", "emit"}
      /\ "find" # "emit" /\ "find" # "test"
  OBVIOUS
<1>7. Right(group, list')
  BY <1>2, StillRight, Zenon DEF LInv, Listed
<1>8. ~list.stale
  BY <1>1, Underway, Zenon
<1> QED
  BY <1>1, <1>2, <1>3, <1>4, <1>5, <1>6, <1>7, <1>8, Underway, Zenon DEF Listed

\* The task of a process that has run since the beginning passes the test.
LEMMA TestKeeps ==
  ASSUME LInv, TgidTest
  PROVE  Listed(group, list')
<1>1. /\ list.pc = "test"
      /\ list' = IF IsTgid(list.task) THEN [list EXCEPT !.pc = "emit"]
                 ELSE [list EXCEPT !.pc = "find", !.tgid = list.tgid + 1, !.task = Nobody]
  BY Zenon DEF TgidTest, Listing
<1>2. /\ list.pc \in {"find", "task", "test", "emit"} /\ list.pc # "find" /\ list.pc # "task"
      /\ list.pc \in {"test", "emit"}
  BY <1>1
<1>3. Held(group, list)
  BY <1>1, Zenon DEF LInv, Listed
<1>4. ASSUME NEW g \in Groups, NEW x \in {"m", "t"}
      PROVE  /\ <<g, x>> # Nobody /\ <<g, x>> # Orphan /\ <<g, x>>[1] = g /\ <<g, x>>[2] = x
             /\ \A h, y : <<g, x>> = <<h, y>> => g = h /\ x = y
  BY ProcAssumption
<1>5. ASSUME NEW g \in list.steady \ list.overtaken, group[g].leader_pid = list.tgid
      PROVE  IsTgid(list.task) /\ list.task[1] = g
  <2>1. g \in Groups
    BY ListTypes
  <2>2. list.task = <<g, "m">> \/ (list.task = <<g, "t">> /\ group[g].exec # "no")
    BY <1>3, <1>5, Zenon DEF Held
  <2>3. <<g, "m">>[1] = g /\ <<g, "m">>[2] = "m" /\ <<g, "t">>[1] = g /\ <<g, "t">>[2] = "t"
    OBVIOUS
  <2>4. /\ <<g, "m">> # Nobody /\ <<g, "m">> # Orphan
        /\ <<g, "t">> # Nobody /\ <<g, "t">> # Orphan
    BY <2>1, TasksApart, Zenon
  <2> QED
    BY <2>2, <2>3, <2>4 DEF IsTgid, has_group_leader_pid
<1>6. CASE ~IsTgid(list.task)
  <2>1. \A g \in Owed(list) : group[g].leader_pid # list.tgid
    BY <1>5, <1>6, Zenon DEF Owed
  <2> QED
    BY <1>1, <1>2, <1>6, <2>1, PassKeeps, Zenon
<1>7. CASE IsTgid(list.task)
  <2>1. list' = [list EXCEPT !.pc = "emit"]
    BY <1>1, <1>7, Zenon
  <2>2. /\ list' \in Lists /\ list'.pc = "emit" /\ list'.tgid = list.tgid /\ list'.task = list.task
        /\ list'.stale = list.stale /\ list'.emitted = list.emitted /\ list'.steady = list.steady
        /\ list'.overtaken = list.overtaken
    BY <2>1, Types DEF Lists
  <2>3. Cursor(list') = list.tgid
    BY <2>2 DEF Cursor
  <2>4. "emit" # "idle" /\ "emit" # "end" /\ "emit" # "test" /\ "m" # "t"
    OBVIOUS
  <2>5. \A g \in Owed(list') : Due(list', group[g].leader_pid, g)
    <3>1. Owed(list') = Owed(list)
      BY <2>2, Zenon DEF Owed
    <3> QED
      BY <1>2, <2>2, <2>3, <2>4, <3>1, Underway, Zenon DEF Due
  <2>6. PICK g \in Groups, x \in {"m", "t"} : list.task = <<g, x>>
    <3>1. list.task \in Tasks
      BY <1>7, ListTypes DEF IsTgid
    <3> QED
      BY <3>1 DEF Tasks
  <2>7. x = "m" \/ (x = "t" /\ group[g].exec # "no")
    <3>1. <<g, x>>[1] = g /\ <<g, x>>[2] = x
      OBVIOUS
    <3> QED
      BY <1>7, <2>6, <3>1 DEF IsTgid, has_group_leader_pid
  <2>8. Own(group, list, g, list.tgid)
    BY <1>3, <2>6, <2>7, Zenon DEF Held
  <2>9. Chosen(group, list')
    <3>1. list.task \in Tasks /\ list.task[1] = g
      BY <2>6 DEF Tasks
    <3>2. Own(group, list', g, list.tgid)
      BY <2>2, <2>8, Zenon DEF Own
    <3> QED
      BY <1>5, <2>2, <3>1, <3>2, Zenon DEF Chosen
  <2>10. Right(group, list')
    BY <2>2, StillRight, Zenon DEF LInv, Listed
  <2>11. ~list.stale
    BY <1>2, Underway, Zenon
  <2> QED
    BY <1>2, <2>2, <2>3, <2>4, <2>5, <2>9, <2>10, <2>11, Underway, Zenon DEF Listed
<1> QED
  BY <1>6, <1>7

\* What is known of the entry that is ready to be emitted.
LEMMA Ready ==
  ASSUME LInv, list.pc = "emit"
  PROVE  /\ list.pc \in {"find", "task", "test", "emit"} /\ list.pc # "find" /\ list.pc # "task"
         /\ list.tgid \in Nat /\ list.task[1] \in Groups /\ Chosen(group, list)
<1>1. Chosen(group, list)
  BY Zenon DEF LInv, Listed
<1>2. list.task[1] \in Groups
  BY <1>1 DEF Chosen, Tasks
<1>3. list.tgid \in Nat
  BY CursorNat
<1> QED
  BY <1>1, <1>2, <1>3

\* The entry that is passed over is one the reader may not see.
LEMMA HideKeeps ==
  ASSUME LInv, Hide
  PROVE  Listed(group, list')
<1>1. /\ list.pc = "emit" /\ list.task[1] \in Hidden
      /\ list' = [list EXCEPT !.pc = "find", !.tgid = list.tgid + 1, !.task = Nobody]
  BY Zenon DEF Hide, Listing
<1>2. \A g \in Owed(list) : group[g].leader_pid # list.tgid
  BY <1>1, Ready, Zenon DEF Owed, Chosen
<1>3. list.pc \in {"test", "emit"}
  BY <1>1
<1> QED
  BY <1>1, <1>2, <1>3, PassKeeps, Zenon

\* The position is that of the entry that did not fit.
LEMMA FullKeeps ==
  ASSUME LInv, BufferFull
  PROVE  Listed(group, list')
<1>1. /\ list.pc = "emit"
      /\ list' = [list EXCEPT !.pc = "call", !.pos = list.tgid, !.fresh = TRUE, !.task = Nobody]
  BY Zenon DEF BufferFull, Listing
<1>2. /\ list' \in Lists /\ list'.pc = "call" /\ list'.pos = list.tgid
      /\ list'.stale = list.stale /\ list'.emitted = list.emitted /\ list'.steady = list.steady
      /\ list'.overtaken = list.overtaken
  <2>1. \A b \in BOOLEAN :
          LET l2 == [list EXCEPT !.pc = "call", !.pos = list.tgid, !.fresh = b, !.task = Nobody] IN
          /\ l2 \in Lists /\ l2.pc = "call" /\ l2.pos = list.tgid
          /\ l2.stale = list.stale /\ l2.emitted = list.emitted /\ l2.steady = list.steady
          /\ l2.overtaken = list.overtaken
    BY Zenon, Types, CursorNat DEF Lists
  <2> QED
    BY <1>1, <2>1, Zenon
<1>3. Cursor(list') = list.tgid
  BY <1>2 DEF Cursor
<1>4. /\ "call" # "idle" /\ "call" \notin {"task", "test", "emit"} /\ "call" # "emit"
      /\ "call" # "end" /\ "call" # "test"
  OBVIOUS
<1>5. \A g \in Owed(list') : Due(list', group[g].leader_pid, g)
  <2>1. Owed(list') = Owed(list)
    BY <1>2, Zenon DEF Owed
  <2> QED
    BY <1>1, <1>2, <1>3, <1>4, <2>1, Ready, Underway, Zenon DEF Due
<1>6. Right(group, list')
  BY <1>2, StillRight, Zenon DEF LInv, Listed
<1>7. ~list.stale
  BY <1>1, Ready, Underway, Zenon
<1> QED
  BY <1>1, <1>2, <1>3, <1>4, <1>5, <1>6, <1>7, Ready, Underway, Zenon DEF Listed

\* The entry is above those before it, and right.
LEMMA EmitKeeps ==
  ASSUME LInv, dir_emit
  PROVE  Listed(group, list')
<1> DEFINE e == [pid |-> list.tgid, group |-> list.task[1]]
           s == Append(list.emitted, e)
<1>1. /\ list.pc = "emit" /\ list.task[1] \notin Hidden
      /\ list' = [list EXCEPT !.pc = "find", !.pos = list.tgid, !.tgid = list.tgid + 1,
                              !.fresh = FALSE, !.task = Nobody, !.emitted = s]
  BY Zenon DEF dir_emit, Listing
<1>2. /\ list.tgid \in Nat /\ list.emitted \in Seq(Entries)
      /\ list.task[1] \in Groups /\ Chosen(group, list)
  BY <1>1, Ready, CursorNat
<1>3. Increasing(list.emitted) /\ Below(list.emitted, list.tgid) /\ ~list.stale
  BY <1>1, Ready, Underway, Zenon
<1>4. /\ s \in Seq(Entries) /\ Increasing(s) /\ Below(s, list.tgid + 1)
      /\ \A m, h : Occurs(list.emitted, m, h) \/ (m = list.tgid /\ h = list.task[1])
                     => Occurs(s, m, h)
      /\ \A i \in DOMAIN s :
           \/ i \in DOMAIN list.emitted /\ s[i] = list.emitted[i]
           \/ s[i].pid = list.tgid /\ s[i].group = list.task[1]
  <2>1. e = [pid |-> list.tgid, group |-> list.task[1]]
    OBVIOUS
  <2> HIDE DEF e
  <2>2. \A n \in Nat, g \in Groups : \A f :
          f = [pid |-> n, group |-> g] /\ Below(list.emitted, n) =>
            LET t == Append(list.emitted, f) IN
            /\ t \in Seq(Entries) /\ Increasing(t) /\ Below(t, n + 1)
            /\ \A m, h : Occurs(list.emitted, m, h) \/ (m = n /\ h = g) => Occurs(t, m, h)
            /\ \A i \in DOMAIN t : \/ i \in DOMAIN list.emitted /\ t[i] = list.emitted[i]
                                   \/ t[i].pid = n /\ t[i].group = g
    BY <1>2, <1>3, Emitted
  <2> QED
    BY <1>2, <1>3, <2>1, <2>2
<1> HIDE DEF s, e
<1>5. /\ list' \in Lists /\ list'.pc = "find" /\ list'.tgid = list.tgid + 1
      /\ list'.stale = list.stale /\ list'.emitted = s /\ list'.steady = list.steady
      /\ list'.overtaken = list.overtaken
  <2>1. \A b \in BOOLEAN, n \in Nat :
          LET l2 == [list EXCEPT !.pc = "find", !.pos = list.tgid, !.tgid = n,
                                 !.fresh = b, !.task = Nobody, !.emitted = s] IN
          /\ l2 \in Lists /\ l2.pc = "find" /\ l2.tgid = n
          /\ l2.stale = list.stale /\ l2.emitted = s /\ l2.steady = list.steady
          /\ l2.overtaken = list.overtaken
    BY Zenon, <1>2, <1>4, Types DEF Lists
  <2>2. list.tgid + 1 \in Nat
    BY <1>2
  <2> QED
    BY <1>1, <2>1, <2>2, Zenon
<1>6. Cursor(list') = list.tgid + 1
  BY <1>5 DEF Cursor
<1>7. ASSUME NEW g \in Owed(list') PROVE Due(list', group[g].leader_pid, g)
  <2>1. g \in Owed(list) /\ g \in list.steady /\ g \in list.steady \ list.overtaken
    BY <1>5, Zenon DEF Owed
  <2>2. group[g].leader_pid \in Nat
    BY <2>1, CursorNat, Zenon
  <2>3. \/ group[g].leader_pid >= list.tgid /\ group[g].leader_pid # list.tgid
        \/ Occurs(s, group[g].leader_pid, g)
    <3>1. group[g].leader_pid = list.tgid => list.task[1] = g
      BY <1>2, <2>1, Zenon DEF Chosen
    <3>2. group[g].leader_pid >= list.tgid \/ Occurs(list.emitted, group[g].leader_pid, g)
      BY <1>1, <2>1, Ready, Underway, Zenon
    <3> QED
      BY <1>4, <3>1, <3>2, Zenon
  <2> QED
    BY <1>2, <1>5, <1>6, <2>2, <2>3 DEF Due
<1>8. Right(group, list')
  <2>1. ASSUME NEW i \in DOMAIN s
        PROVE  s[i].group \notin Hidden /\ Own(group, list', s[i].group, s[i].pid)
    <3>1. CASE i \in DOMAIN list.emitted /\ s[i] = list.emitted[i]
      <4>1. s[i].group \notin Hidden /\ Own(group, list, s[i].group, s[i].pid)
        BY <3>1, Zenon DEF LInv, Listed, Right
      <4> QED
        BY <1>5, <4>1, Zenon DEF Own
    <3>2. CASE s[i].pid = list.tgid /\ s[i].group = list.task[1]
      BY <1>1, <1>2, <1>5, <3>2, Zenon DEF Chosen, Own
    <3> QED
      BY <1>4, <3>1, <3>2, Zenon
  <2> QED
    BY <1>5, <2>1, Zenon DEF Right
<1>9. /\ "find" # "idle" /\ "find" \notin {"task", "test", "emit"}
      /\ "find" # "emit" /\ "find" # "test"
  OBVIOUS
<1>10. \A g \in list.steady : group[g].state = "alive"
  BY ListTypes, Zenon
<1> QED
  BY <1>3, <1>4, <1>5, <1>6, <1>7, <1>8, <1>9, <1>10, Zenon DEF Listed

\* The writes to oom_adj and oom_score_adj change no pid and no list.
LEMMA WritesKeep ==
  ASSUME LInv, NEW w \in Writers,
         \/ \E g \in Groups, v \in OomAdj : oom_adj_write(w, g, v)
         \/ \E g \in Groups, v \in OomScoreAdj : ScorePermit(w, g, v)
         \/ oom_score_adj_write(w)
  PROVE  Numbered(group', pid_task') /\ Listed(group', list')
<1>1. pid_task' = pid_task /\ list' = list
  BY Zenon DEF oom_adj_write, ScorePermit, oom_score_adj_write
<1>2. \A h \in Groups : /\ group'[h].state = group[h].state /\ group'[h].tid = group[h].tid
                        /\ group'[h].leader_pid = group[h].leader_pid
                        /\ group'[h].exec = group[h].exec /\ group'[h].mm = group[h].mm
  <2>1. ASSUME NEW g \in Groups, NEW a, NEW b, NEW c,
               \/ group' = [group EXCEPT ![g].oom_score_adj = a, ![g].floor = c]
               \/ group' = [group EXCEPT ![g].oom_score_adj = a, ![g].oom_score_adj_min = b,
                                         ![g].floor = c]
        PROVE  \A h \in Groups :
                 /\ group'[h].state = group[h].state /\ group'[h].tid = group[h].tid
                 /\ group'[h].leader_pid = group[h].leader_pid
                 /\ group'[h].exec = group[h].exec /\ group'[h].mm = group[h].mm
    BY <2>1, Types DEF Signals
  <2>2. ASSUME NEW g \in Groups, NEW v \in OomAdj, oom_adj_write(w, g, v)
        PROVE  \E a, c : group' = [group EXCEPT ![g].oom_score_adj = a, ![g].floor = c]
    <3> DEFINE f == IF w \in Capable THEN Min({group[g].floor, scaled(v)}) ELSE group[g].floor
    <3>1. group' = [group EXCEPT ![g].oom_score_adj = scaled(v), ![g].floor = f]
      BY <2>2 DEF oom_adj_write
    <3> QED
      BY <3>1, Zenon
  <2>3. ASSUME oom_score_adj_write(w)
        PROVE  \/ group' = group
               \/ \E g \in Groups : \E a, b, c :
                    group' = [group EXCEPT ![g].oom_score_adj = a, ![g].oom_score_adj_min = b,
                                           ![g].floor = c]
    <3> DEFINE g == writer[w].task
               v == writer[w].value
               f == IF w \in Capable THEN v ELSE group[g].floor
    <3>1. g \in Groups
      BY DEF LInv, IInv, Pending
    <3>2. \/ group' = group
          \/ group' = [group EXCEPT ![g].oom_score_adj = v,
                                    ![g].oom_score_adj_min = min_after(w, g, v), ![g].floor = f]
      BY <2>3 DEF oom_score_adj_write
    <3> HIDE DEF g, v, f
    <3> QED
      BY <3>1, <3>2, Zenon
  <2>4. ASSUME NEW g \in Groups, NEW v \in OomScoreAdj, ScorePermit(w, g, v)
        PROVE  group' = group
    BY <2>4, Zenon DEF ScorePermit
  <2>5. CASE \E g \in Groups, v \in OomAdj : oom_adj_write(w, g, v)
    <3>1. PICK g \in Groups : \E a, c :
            group' = [group EXCEPT ![g].oom_score_adj = a, ![g].floor = c]
      BY <2>2, <2>5, Zenon
    <3> QED
      BY <2>1, <3>1, Zenon
  <2>6. CASE oom_score_adj_write(w)
    <3>1. CASE group' = group
      BY <3>1, Zenon
    <3>2. CASE group' # group
      <4>1. PICK g \in Groups : \E a, b, c :
              group' = [group EXCEPT ![g].oom_score_adj = a, ![g].oom_score_adj_min = b,
                                     ![g].floor = c]
        BY <2>3, <2>6, <3>2, Zenon
      <4>2. PICK a, b, c :
              group' = [group EXCEPT ![g].oom_score_adj = a, ![g].oom_score_adj_min = b,
                                     ![g].floor = c]
        BY <4>1, Zenon
      <4> QED
        BY Zenon, <2>1, <4>2
    <3> QED
      BY <3>1, <3>2
  <2>7. CASE \E g \in Groups, v \in OomScoreAdj : ScorePermit(w, g, v)
    BY <2>4, <2>7, Zenon
  <2> QED
    BY <2>5, <2>6, <2>7, Zenon
<1>3. Handled(group, list, group', list')
  BY <1>1, <1>2, Zenon DEF Handled
<1>4. Undisturbed(group, list, group', list')
  BY <1>1, <1>2, <1>3, ListTypes, Types, Zenon DEF Undisturbed
<1>5. Numbered(group', pid_task')
  <2>1. Numbered(group, pid_task)
    BY Zenon DEF LInv
  <2>2. ASSUME NEW g \in Groups, group[g].state = "alive" => Leads(group, pid_task, g)
        PROVE  group'[g].state = "alive" => Leads(group', pid_task', g)
    BY <1>1, <1>2, <2>2, Zenon DEF Leads
  <2>3. ASSUME NEW g \in Groups, Threaded(group, pid_task, g)
        PROVE  Threaded(group', pid_task', g)
    BY <1>1, <1>2, <2>3, Zenon DEF Threaded
  <2>4. ASSUME NEW g \in Groups, NEW n \in Pids, Owned(group, pid_task, g, n)
        PROVE  Owned(group', pid_task', g, n)
    BY <1>1, <1>2, <2>4, Zenon DEF Owned
  <2> QED
    BY <1>1, <2>1, <2>2, <2>3, <2>4, Zenon DEF Numbered
<1> QED
  BY <1>4, <1>5, UndisturbedListed, Zenon DEF LInv

\* What leads to a process and what a listing has shown stays right in every
\* step.
THEOREM ListInvariance == Spec => []LInv
<1>1. Init => Numbered(group, pid_task) /\ Listed(group, list)
  <2> SUFFICES ASSUME Init PROVE Numbered(group, pid_task) /\ Listed(group, list)
    OBVIOUS
  <2>1. 1 \in Pids /\ First \in Groups
    BY ProcAssumption DEF Pids
  <2>2. /\ group[First].state = "alive" /\ group[First].leader_pid = 1 /\ group[First].tid = 0
        /\ \A g \in Groups : g # First => group[g].state = "none" /\ group[g].tid = 0
    <3> DEFINE running == [NotYet EXCEPT !.state = "alive", !.mm = TRUE, !.leader_pid = 1]
    <3>1. running.state = "alive" /\ running.leader_pid = 1 /\ running.tid = 0
      BY DEF NotYet
    <3>2. group = [g \in Groups |-> IF g = First THEN running ELSE NotYet]
      BY Zenon DEF Init
    <3>3. NotYet.state = "none" /\ NotYet.tid = 0
      BY DEF NotYet
    <3> HIDE DEF running
    <3> QED
      BY <2>1, <3>1, <3>2, <3>3
  <2>3. /\ pid_task[1] = <<First, "m">> /\ pid_task \in [Pids -> {Nobody, Orphan} \cup Tasks]
        /\ \A n \in Pids : n # 1 => pid_task[n] = Nobody
    BY Zenon, <2>1, TasksApart DEF Init
  <2>4. Numbered(group, pid_task)
    <3>1. "none" # "alive"
      OBVIOUS
    <3>2. ASSUME NEW g \in Groups, NEW n \in Pids PROVE Owned(group, pid_task, g, n)
      <4>1. <<g, "m">> # Nobody /\ <<g, "t">> # Nobody
        BY Zenon, TasksApart
      <4>2. (<<First, "m">> = <<g, "m">> => g = First) /\ <<First, "m">> # <<g, "t">>
        OBVIOUS
      <4>4. CASE n = 1
        <5>1. pid_task[n] = <<First, "m">>
          BY <2>3, <4>4, Zenon
        <5>2. pid_task[n] = <<g, "m">> => g = First
          BY <4>2, <5>1
        <5>3. pid_task[n] # <<g, "t">>
          BY <4>2, <5>1
        <5> QED
          BY <2>2, <4>4, <5>2, <5>3, Zenon DEF Owned
      <4>5. CASE n # 1
        BY <2>3, <4>1, <4>5, Zenon DEF Owned
      <4> QED
        BY <4>4, <4>5, Zenon
    <3> QED
      BY <2>1, <2>2, <2>3, <3>1, <3>2, Zenon DEF Numbered, Leads, Threaded
  <2>5. /\ list.pc = "idle" /\ list.pos = 1 /\ list.tgid = 1 /\ list.task = Nobody
        /\ list.fresh = TRUE /\ list.stale = FALSE /\ list.emitted = <<>> /\ list.steady = {}
        /\ list.overtaken = {} /\ list \in Lists
    <3>1. \A b, c \in BOOLEAN :
            LET l == [pc |-> "idle", pos |-> 1, tgid |-> 1, task |-> Nobody, fresh |-> b,
                      stale |-> c, emitted |-> <<>>, steady |-> {}, overtaken |-> {}] IN
            /\ l.pc = "idle" /\ l.pos = 1 /\ l.tgid = 1 /\ l.task = Nobody
            /\ l.fresh = b /\ l.stale = c /\ l.emitted = <<>> /\ l.steady = {}
            /\ l.overtaken = {} /\ l \in Lists
      BY DEF Lists
    <3> QED
      BY <3>1, Zenon DEF Init
  <2>6. Increasing(<<>>) /\ Below(<<>>, Cursor(list)) /\ DOMAIN <<>> = {}
    BY DEF Increasing, Below
  <2>7. Right(group, list) /\ Owed(list) = {}
    BY <2>5, <2>6 DEF Right, Owed
  <2> QED
    BY <2>4, <2>5, <2>6, <2>7 DEF Listed
<1>2. LInv /\ [Next]_vars => Numbered(group', pid_task') /\ Listed(group', list')
  <2> SUFFICES ASSUME LInv, [Next]_vars PROVE Numbered(group', pid_task') /\ Listed(group', list')
    OBVIOUS
  <2>1. CASE UNCHANGED vars
    BY <2>1, Zenon DEF vars, LInv
  <2>2. CASE Processes
    <3>1. Numbered(group', pid_task') /\ Undisturbed(group, list, group', list')
      BY <2>2, ForkKeeps, CloneKeeps, ThreadExitKeeps, ExecMoveKeeps, ExecDoneKeeps, QuietKeeps,
         ExitKeeps, PutPidKeeps, Zenon DEF Processes
    <3> QED
      BY <3>1, UndisturbedListed, Zenon DEF LInv
  <2>3. CASE ReadProc
    <3>1. group' = group /\ pid_task' = pid_task
      BY <2>3, Zenon DEF ReadProc, ListBegin, proc_pid_readdir, TgidFind, TgidTask, TgidTest,
                         Hide, BufferFull, dir_emit
    <3>2. Listed(group, list')
      BY <2>3, BeginKeeps, CallKeeps, FindKeeps, TaskKeeps, TestKeeps, HideKeeps, FullKeeps,
         EmitKeeps, Zenon DEF ReadProc
    <3> QED
      BY <3>1, <3>2, Zenon DEF LInv
  <2> QED
    BY <2>1, <2>2, <2>3, WritesKeep, Zenon DEF Next
<1>3. IInv /\ Numbered(group, pid_task) /\ Listed(group, list) => LInv
  BY DEF LInv
<1> DEFINE J == Numbered(group, pid_task) /\ Listed(group, list)
<1>4. Init => J
  BY <1>1
<1>5. IInv /\ J /\ [Next]_vars => J'
  BY <1>2, <1>3
<1>6. IInv /\ J => LInv
  BY <1>3
<1> HIDE DEF J
<1> QED
  BY <1>4, <1>5, <1>6, Invariance, PTL DEF Spec

\* A listing of /proc shows every process that runs throughout in exactly one
\* entry and under its own pid, and the pids in their order, for any number of
\* processes, pids and calls of proc_pid_readdir, whatever forks, execs and
\* exits between its steps; except a process whose exec falls between pid_task
\* and has_group_leader_pid of next_tgid's look at one of its tasks.
THEOREM ProcessesListedOnce == Spec => []ListedOnce
<1>1. LInv => ListedOnce
  <2> SUFFICES ASSUME LInv PROVE ListedOnce
    OBVIOUS
  <2>1. TypeOK
    <3>1. \A g \in Groups : /\ group[g].oom_score_adj \in Scores
                            /\ group[g].leader_pid \in Pids \cup {0}
      BY Types DEF Signals
    <3>2. Pids \cup {0} \subseteq 0 .. MaxPid
      BY ProcAssumption DEF Pids
    <3>3. \A n \in Pids : pid_task[n] \in {Nobody, Orphan} \cup Tasks
      BY Types
    <3> QED
      BY <3>1, <3>2, <3>3, Zenon DEF TypeOK, Scores, Tasks
  <2> DEFINE s == list.emitted
  <2>2. \A i, j \in DOMAIN s : i < j => s[i].pid < s[j].pid
    BY Zenon DEF LInv, Listed, Increasing
  <2>3. \A i \in DOMAIN s : /\ s[i].group \notin Hidden
                            /\ Alive(s[i].group) => \/ s[i].group \in list.overtaken
                                                   \/ s[i].pid = group[s[i].group].leader_pid
    BY Zenon DEF LInv, Listed, Right, Own, Alive
  <2>4. \A i, j \in DOMAIN s : s[i].pid = s[j].pid => i = j
    <3>1. s \in Seq(Entries)
      BY CursorNat
    <3>2. \A i \in DOMAIN s : s[i].pid \in Nat /\ i \in Nat
      <4>1. \A i \in DOMAIN s : s[i] \in Entries /\ i \in Nat
        BY <3>1
      <4> QED
        BY <4>1 DEF Entries
    <3> HIDE DEF s
    <3>3. ASSUME NEW i \in DOMAIN s, NEW j \in DOMAIN s, s[i].pid = s[j].pid PROVE i = j
      <4>1. /\ i \in Nat /\ j \in Nat /\ s[i].pid \in Nat /\ s[j].pid \in Nat
            /\ i < j => s[i].pid < s[j].pid
            /\ j < i => s[j].pid < s[i].pid
        BY <2>2, <3>2, Zenon
      <4> QED
        BY <3>3, <4>1
    <3> QED
      BY <3>3
  <2>5. ASSUME Listing("end"), NEW g \in list.steady \ (Hidden \cup list.overtaken)
        PROVE  \E i \in DOMAIN s : \A j \in DOMAIN s : s[j].group = g <=> j = i
    <3>1. PICK i \in DOMAIN s : s[i].pid = group[g].leader_pid /\ s[i].group = g
      BY <2>5, Zenon DEF LInv, Listed, Due, Owed, Occurs, Listing
    <3>2. Alive(g) /\ g \notin list.overtaken
      BY Types, Zenon
    <3>3. ASSUME NEW j \in DOMAIN s, s[j].group = g PROVE j = i
      <4>1. s[j].pid = group[g].leader_pid
        BY <2>3, <3>2, <3>3, Zenon
      <4> QED
        BY <2>4, <3>1, <4>1, Zenon
    <3> QED
      BY <3>1, <3>3, Zenon
  <2> QED
    BY <2>1, <2>2, <2>3, <2>5, Zenon DEF ListedOnce
<1> QED
  BY <1>1, ListInvariance, PTL
=============================================================================
