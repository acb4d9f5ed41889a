----------------------------- MODULE EinkVsync -----------------------------
(***************************************************************************)
(* The vsync thread of the e-ink composer                                  *)
(* (gralloc_eink/src/hwcomposer_eink.c) beside the SurfaceFlinger thread   *)
(* that composes.  They share, without a lock, procs, blanked,             *)
(* vsync_enabled, vsync_requested, stop_vsync, g_last_change_us and        *)
(* g_last_set_us.  The vsync thread samples the clock and makes its two    *)
(* comparisons in steps of their own, the other thread notes its two times *)
(* in steps of its own.                                                    *)
(*                                                                         *)
(* The clock is now_us(): microseconds in an unsigned long of 32 bits,     *)
(* here units of a clock of Wrap values.  Ages are true times, up to the   *)
(* bound MaxAge; the code cannot see them.                                 *)
(***************************************************************************)
EXTENDS Integers

CONSTANTS
  Wrap,         \* the values of the clock, 2^32 in the code
  Period,       \* EINK_VSYNC_PERIOD_NS
  NudgeIdle,    \* EINK_NUDGE_IDLE_US
  NudgeQuiet,   \* EINK_NUDGE_QUIET_US
  MaxAge        \* bound: ages are not told apart beyond it

ASSUME ClockAssumption == /\ {Wrap, Period, NudgeIdle, NudgeQuiet, MaxAge} \subseteq Nat \ {0}
                          /\ NudgeIdle < MaxAge /\ NudgeQuiet < MaxAge

VARIABLES
  now,              \* the clock
  last_change,      \* g_last_change_us, 0 before the first change
  last_set,         \* g_last_set_us
  change_age, set_age,    \* true times since those were written
  procs,            \* the callbacks are registered
  enabled,          \* vsync_enabled
  requested,        \* vsync_requested: an enable since the last event
  blanked,
  updating,         \* SurfaceFlinger's thread is about to note a change
  pc,               \* where the vsync thread is
  slept,            \* how long it has slept
  nowu, nowu_age,   \* its sample of the clock, and change_age then
  nudge,            \* the last step was a call of invalidate()
  stop, freed       \* stop_vsync, and hw has been freed

clock == <<now, change_age, set_age, slept>>
shared == <<last_change, last_set, procs, enabled, requested, blanked, updating>>
thread == <<pc, nowu, nowu_age>>
vars == <<clock, shared, thread, nudge, stop, freed>>

Younger(age) == IF age < MaxAge THEN age + 1 ELSE MaxAge

\* Subtraction of unsigned longs.
elapsed(a, b) == (a - b + Wrap) % Wrap

------------------------------------------------------------------------------
next_now == (now + 1) % Wrap

\* The threads' steps are short against the clock's unit.
Tick ==
  /\ ~updating /\ pc \in {"usleep", "done"} /\ (pc = "usleep" => slept < Period)
  /\ now' = next_now
  /\ change_age' = Younger(change_age) /\ set_age' = Younger(set_age)
  /\ slept' = IF pc = "usleep" /\ slept < Period THEN slept + 1 ELSE slept
  /\ nudge' = FALSE
  /\ UNCHANGED <<shared, thread, stop, freed>>

------------------------------------------------------------------------------
(* SurfaceFlinger's thread.                                                 *)

hwc_registerProcs ==
  /\ ~procs /\ ~stop
  /\ procs' = TRUE /\ nudge' = FALSE
  /\ UNCHANGED <<clock, last_change, last_set, enabled, requested, blanked, updating, thread, stop,
                 freed>>

hwc_eventControl(on) ==
  /\ ~stop /\ ~updating
  /\ enabled' = on
  /\ requested' = (requested \/ on) /\ nudge' = FALSE
  /\ UNCHANGED <<clock, last_change, last_set, procs, blanked, updating, thread, stop, freed>>

hwc_blank(b) ==
  /\ ~stop /\ ~updating
  /\ blanked' = b /\ nudge' = FALSE
  /\ UNCHANGED <<clock, last_change, last_set, procs, enabled, requested, updating, thread, stop,
                 freed>>

\* A dirty frame: it notes the time, and goes on to update a changed panel.
hwc_compose(changed) ==
  /\ ~stop /\ ~updating /\ ~blanked
  /\ last_set' = now /\ set_age' = 0
  /\ updating' = changed
  /\ nudge' = FALSE
  /\ UNCHANGED <<now, change_age, slept, last_change, procs, enabled, requested, blanked, thread,
                 stop, freed>>

note_change ==
  /\ updating
  /\ last_change' = now /\ change_age' = 0
  /\ updating' = FALSE /\ nudge' = FALSE
  /\ UNCHANGED <<now, set_age, slept, last_set, procs, enabled, requested, blanked, thread,
                 stop, freed>>

\* hwc_close sets stop_vsync and waits in pthread_join.
hwc_close ==
  /\ ~stop /\ ~updating
  /\ stop' = TRUE /\ nudge' = FALSE
  /\ UNCHANGED <<clock, shared, thread, freed>>

joined == stop /\ pc = "done"

close_frees ==
  /\ joined /\ ~freed
  /\ freed' = TRUE /\ nudge' = FALSE
  /\ UNCHANGED <<clock, shared, thread, stop>>

------------------------------------------------------------------------------
(* vsync_thread_main.                                                       *)

\* Variant: the loop begins only when the callbacks are there.
while_not_stopped_waits ==
  /\ pc = "while" /\ procs
  /\ pc' = IF stop THEN "done" ELSE "usleep"
  /\ slept' = 0 /\ nudge' = FALSE
  /\ UNCHANGED <<now, change_age, set_age, shared, nowu, nowu_age, stop, freed>>

while_not_stopped ==
  /\ pc = "while"
  /\ pc' = IF stop THEN "done" ELSE "usleep"
  /\ slept' = 0 /\ nudge' = FALSE
  /\ UNCHANGED <<now, change_age, set_age, shared, nowu, nowu_age, stop, freed>>

\* Variant: only while vsync is enabled.
delivers_enabled == procs /\ enabled

delivers == procs

deliver_vsync ==
  /\ pc = "usleep" /\ slept = Period
  /\ requested' = IF delivers THEN FALSE ELSE requested
  /\ pc' = "nudge" /\ nudge' = FALSE
  /\ UNCHANGED <<clock, last_change, last_set, procs, enabled, blanked, updating, nowu, nowu_age,
                 stop, freed>>

sample_clock ==
  /\ pc = "nudge"
  /\ pc' = IF ~blanked /\ procs /\ last_change # 0 THEN "idle" ELSE "while"
  /\ nowu' = now /\ nowu_age' = change_age
  /\ nudge' = FALSE
  /\ UNCHANGED <<clock, shared, stop, freed>>

\* Variant: the window is compared the wrong way round.
changing_not == elapsed(nowu, last_change) >= NudgeIdle

changing == elapsed(nowu, last_change) < NudgeIdle

compare_change ==
  /\ pc = "idle"
  /\ pc' = IF changing THEN "quiet" ELSE "while"
  /\ nudge' = FALSE
  /\ UNCHANGED <<clock, shared, nowu, nowu_age, stop, freed>>

compare_set ==
  /\ pc = "quiet"
  /\ pc' = "while"
  /\ nudge' = (elapsed(nowu, last_set) > NudgeQuiet)
  /\ UNCHANGED <<clock, shared, nowu, nowu_age, stop, freed>>

Thread ==
  while_not_stopped \/ deliver_vsync \/ sample_clock \/ compare_change \/ compare_set

------------------------------------------------------------------------------
Init ==
  /\ now = 1 /\ last_change = 0 /\ last_set = 0
  /\ change_age = MaxAge /\ set_age = MaxAge /\ slept = 0
  /\ procs = FALSE /\ enabled = FALSE /\ requested = FALSE
  /\ blanked = FALSE /\ updating = FALSE
  /\ pc = "while" /\ nowu = 0 /\ nowu_age = MaxAge
  /\ nudge = FALSE /\ stop = FALSE /\ freed = FALSE

Next ==
  \/ Tick
  \/ hwc_registerProcs
  \/ \E on \in BOOLEAN : hwc_eventControl(on)
  \/ \E b \in BOOLEAN : hwc_blank(b)
  \/ \E changed \in BOOLEAN : hwc_compose(changed)
  \/ note_change
  \/ hwc_close
  \/ close_frees
  \/ Thread

Spec == Init /\ [][Next]_vars

\* Time passes whatever the threads do, the scheduler runs both of them; SurfaceFlinger finishes the
\* calls it has begun, and need not begin any.
FairSpec == Spec /\ SF_vars(Tick) /\ WF_vars(Thread) /\ WF_vars(note_change) /\ WF_vars(close_frees)

------------------------------------------------------------------------------
(* Properties.                                                              *)

(* Every variable keeps its type; clock values stay below Wrap.             *)
TypeOK ==
  /\ {now, last_change, last_set, nowu} \subseteq 0 .. Wrap - 1
  /\ {change_age, set_age, nowu_age} \subseteq 0 .. MaxAge /\ slept \in 0 .. Period
  /\ {procs, enabled, requested, blanked, updating, nudge, stop, freed} \subseteq BOOLEAN
  /\ pc \in {"while", "usleep", "nudge", "idle", "quiet", "done"}

(* Closing the device ends: the thread sees stop_vsync whatever it waits    *)
(* for, and hw is freed only after it has left its loop for good.           *)
CloseEnds == (stop ~> freed) /\ [](TypeOK /\ (freed => pc = "done"))

(* Every enable of vsync gets an event, also one that is taken back before  *)
(* the thread's next tick, once the callbacks are registered and unless the *)
(* device is closed.                                                        *)
EventPerEnable == (requested /\ procs) ~> (~requested \/ stop)

(* After a change of the panel SurfaceFlinger is asked to recomposite       *)
(* within EINK_NUDGE_IDLE_US, unless it does so by itself, blanks the       *)
(* display or closes the device, or the clock read 0 at the change.         *)
AnimationPumped ==
  (change_age = 0 /\ set_age = 0 /\ ~updating /\ procs /\ ~blanked /\ last_change # 0)
    ~> ((nudge /\ nowu_age < NudgeIdle) \/ (set_age = 0 /\ change_age > 0) \/ updating \/ blanked \/ stop)
=============================================================================
