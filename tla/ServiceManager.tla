--------------------------- MODULE ServiceManager ---------------------------
(***************************************************************************)
(* servicemanager (servicemanager/service_manager.c and binder.c): one     *)
(* thread that reads a command from /dev/binder, handles it and replies.   *)
(* Its handlers make several calls into the driver, and clients call and   *)
(* die between any two of them.                                            *)
(*                                                                         *)
(* Of the driver only servicemanager's face is modelled: its references    *)
(* with their strong counts and death links, its two work lists, and the   *)
(* code its thread is owed for a reply that failed.  A handler's effect on *)
(* svclist is immediate (no other thread sees it), and the driver calls it *)
(* makes are left in cmds, each one a step of its own.  Every read carries *)
(* one command, at word 0; BR_TRANSACTION_COMPLETE of a reply that went    *)
(* through and the BR_INCREFS family, which binder_parse skips, are left   *)
(* out.  Requests are well-formed parcels.                                 *)
(***************************************************************************)
EXTENDS Integers, Sequences, FiniteSets, FiniteSetsExt, SequencesExt, TLC

CONSTANTS
  Names,
  Len16,        \* Len16[n]: the length of a name, in UTF-16 units
  Procs,
  Binders,
  Owner,        \* Owner[b]: the process that serves binder b
  Isolated,     \* processes whose uid lies in the isolated range
  Allowed,      \* <<p, n>>: p's uid may register n, see allowed[]
  NoBinder,
  Programs      \* what the clients may do, see program

VARIABLES
  program,      \* program[p]: the requests p may send and, as bounds, how many
                \* calls it makes, whether it may die, whether it lists services
  state,        \* "loop" in binder_loop, "exited" after main has returned
  svclist,      \* the list of struct svcinfo, head first
  cmds,         \* driver calls the running handler has still to make
  txn,          \* the transaction being handled
  ctx,          \* the driver has a context manager
  ref,          \* the references of servicemanager, by handle
  todo, own,    \* work lists of its process and of its thread
  error,        \* thread->return_error
  alive,        \* the client processes that are running
  waiting,      \* the processes asleep in a call
  answer,       \* the last answer each process got
  calls         \* requests sent so far

manager == <<state, svclist, cmds, txn>>
driver == <<ctx, ref, todo, own, error>>
clients == <<program, alive, waiting, answer, calls>>
vars == <<manager, driver, clients>>

NoTxn == [from |-> "nobody"]

------------------------------------------------------------------------------
(* The driver's side.                                                       *)

Dead(h) == [kind |-> "dead", handle |-> h]

handle_of(b) ==
  IF \E h \in DOMAIN ref : ref[h].binder = b
  THEN CHOOSE h \in DOMAIN ref : ref[h].binder = b
  ELSE Min((1 .. Cardinality(DOMAIN ref) + 1) \ DOMAIN ref)

inc_ref(r, h) == [r EXCEPT ![h].strong = @ + 1]

last(h) == h \in DOMAIN ref /\ ref[h].strong = 1

\* The last strong reference takes the death link along, queued or not.
dec_ref(h) ==
  IF h \notin DOMAIN ref THEN ref
  ELSE IF last(h) THEN [x \in DOMAIN ref \ {h} |-> ref[x]]
  ELSE [ref EXCEPT ![h].strong = @ - 1]

without(list, h) == IF last(h) THEN SelectSeq(list, LAMBDA w : w # Dead(h)) ELSE list

\* The work list after binder_node_release of every node of a dead process.
notices(p) == {h \in DOMAIN ref : Owner[ref[h].binder] = p /\ ref[h].death # "none"}

------------------------------------------------------------------------------
(* Clients: libbinder's IServiceManager, and processes that die.            *)

Send(p, req) ==
  /\ ctx /\ p \in alive /\ p \notin waiting /\ calls[p] < program[p].calls
  /\ calls' = [calls EXCEPT ![p] = @ + 1]
  /\ waiting' = IF req.oneway THEN waiting ELSE waiting \cup {p}
  /\ LET b == IF req.code = "add" THEN req.binder ELSE NoBinder
         h == IF b = NoBinder THEN 0 ELSE handle_of(b)
     IN /\ ref' = IF h = 0 THEN ref
                  ELSE IF h \in DOMAIN ref THEN inc_ref(ref, h)
                  ELSE ref @@ (h :> [binder |-> b, strong |-> 1, death |-> "none"])
        /\ todo' = Append(todo, [kind |-> "txn", from |-> p, req |-> req, handle |-> h])
  /\ UNCHANGED <<manager, ctx, own, error, program, alive, answer>>

Die(p) ==
  /\ p \in alive /\ program[p].dies
  /\ alive' = alive \ {p}
  /\ waiting' = waiting \ {p}
  /\ \E order \in SetToSeqs(notices(p)) :
       todo' = todo \o [i \in DOMAIN order |-> Dead(order[i])]
  /\ UNCHANGED <<manager, ctx, ref, own, error, program, answer, calls>>

------------------------------------------------------------------------------
(* service_manager.c.                                                       *)

svc_can_register(p, n) == <<p, n>> \in Allowed

find_svc(n) == SelectInSeq(svclist, LAMBDA si : si.name = n)

\* Variant: the reference is not released.
svcinfo_death_kept(i) == << >>

\* The driver call svcinfo_death makes for entry i; it also clears the ptr.
svcinfo_death(i) ==
  IF svclist[i].ptr # 0 THEN << <<"release", svclist[i].ptr>> >> ELSE << >>

do_find_service(n, p) ==
  LET i == find_svc(n)
  IN IF i # 0 /\ (svclist[i].allow_isolated \/ p \notin Isolated)
     THEN svclist[i].ptr ELSE 0

Reply(result) == << <<"reply", result>> >>
Status == [kind |-> "status"]
Zero == [kind |-> "zero"]

add_refused(t) ==
  \/ t.handle = 0
  \/ Len16[t.req.name] = 0
  \/ Len16[t.req.name] > 127
  \/ ~svc_can_register(t.from, t.req.name)

\* Variant: the handle is not acquired, only its death link is made.
adopt_unowned(h, n) == << <<"link", h, n>> >>

\* Variant: the death link is left out.
adopt_unlinked(h, n) == << <<"acquire", h>> >>

adopt(h, n) == << <<"acquire", h>>, <<"link", h, n>> >>

do_add_service(t) ==
  LET n == t.req.name
      i == find_svc(n)
      si == [name |-> n, ptr |-> t.handle, allow_isolated |-> t.req.allow]
  IN \/ /\ add_refused(t)
        /\ cmds' = Reply(Status)
        /\ UNCHANGED svclist
     \/ /\ ~add_refused(t) /\ i = 0
        /\ svclist' = <<si>> \o svclist
        /\ cmds' = adopt(t.handle, n) \o Reply(Zero)
     \/ /\ ~add_refused(t) /\ i # 0
        /\ svclist' = [svclist EXCEPT ![i].ptr = t.handle]
        /\ cmds' = svcinfo_death(i) \o adopt(t.handle, n) \o Reply(Zero)

\* bio_put_string16 into a reply of 256 bytes: 16 hold offsets, 4 the length.
fits(n) == 4 * (((Len16[n] + 1) * 2 + 3) \div 4) <= 256 - 16 - 4

\* Variant: entries whose service is dead are not counted.
list_services_live(k) ==
  LET live == SelectSeq(svclist, LAMBDA si : si.ptr # 0)
  IN IF k >= Len(live) THEN Status ELSE [kind |-> "name", name |-> live[k + 1].name]

list_services(k) ==
  IF k >= Len(svclist) THEN Status
  ELSE LET n == svclist[k + 1].name
       IN [kind |-> IF fits(n) THEN "name" ELSE "cut", name |-> n]

check_service(t) ==
  LET h == do_find_service(t.req.name, t.from)
  IN IF h = 0 THEN [kind |-> "unknown", name |-> t.req.name]
     ELSE [kind |-> "handle", name |-> t.req.name, handle |-> h]

svcmgr_handler(t) ==
  \/ /\ t.req.code = "add"
     /\ do_add_service(t)
  \/ /\ t.req.code = "get"
     /\ cmds' = Reply(check_service(t)) /\ UNCHANGED svclist
  \/ /\ t.req.code = "list"
     /\ cmds' = Reply(list_services(t.req.n)) /\ UNCHANGED svclist
  \/ /\ t.req.code = "other"
     /\ cmds' = Reply(Status) /\ UNCHANGED svclist

------------------------------------------------------------------------------
(* binder.c of servicemanager: the loop around BINDER_WRITE_READ.           *)

reading == state = "loop" /\ cmds = << >> /\ txn = NoTxn

exit == state' = "exited" /\ svclist' = << >> /\ UNCHANGED <<cmds, txn>>

\* The driver hands over return_error alone; BR_FAILED_REPLY and BR_DEAD_REPLY
\* make binder_parse return -1, and binder_loop ends.
ReadError ==
  /\ reading /\ error # "BR_OK"
  /\ error' = "BR_OK"
  /\ IF error = "BR_TRANSACTION_COMPLETE" THEN UNCHANGED manager ELSE exit
  /\ UNCHANGED <<ctx, ref, todo, own, clients>>

\* The thread's own list first.  A death notice moves to delivered_death, where
\* it stays: servicemanager sends no BC_DEAD_BINDER_DONE.
ReadDeath ==
  /\ reading /\ error = "BR_OK"
  /\ LET list == IF own # << >> THEN own ELSE todo
     IN /\ list # << >> /\ Head(list).kind = "dead"
        /\ LET i == find_svc(ref[Head(list).handle].death)
           IN /\ cmds' = svcinfo_death(i)
              /\ svclist' = [svclist EXCEPT ![i].ptr = 0]
  /\ own' = IF own # << >> THEN Tail(own) ELSE own
  /\ todo' = IF own # << >> THEN todo ELSE Tail(todo)
  /\ UNCHANGED <<state, txn, ctx, ref, error, clients>>

ReadTransaction ==
  /\ reading /\ error = "BR_OK" /\ own = << >>
  /\ todo # << >> /\ Head(todo).kind = "txn"
  /\ todo' = Tail(todo)
  /\ txn' = Head(todo)
  /\ svcmgr_handler(Head(todo))
  /\ UNCHANGED <<state, ctx, ref, own, error, clients>>

binder_acquire ==
  /\ cmds # << >> /\ Head(cmds)[1] = "acquire"
  /\ LET h == Head(cmds)[2]
     IN ref' = IF h \in DOMAIN ref THEN inc_ref(ref, h) ELSE ref
  /\ cmds' = Tail(cmds)
  /\ UNCHANGED <<state, svclist, txn, ctx, todo, own, error, clients>>

binder_release ==
  /\ cmds # << >> /\ Head(cmds)[1] = "release"
  /\ LET h == Head(cmds)[2]
     IN /\ ref' = dec_ref(h)
        /\ todo' = without(todo, h)
        /\ own' = without(own, h)
  /\ cmds' = Tail(cmds)
  /\ UNCHANGED <<state, svclist, txn, ctx, error, clients>>

\* The driver keeps the first link of a reference and refuses the next ones.
binder_link_to_death ==
  /\ cmds # << >> /\ Head(cmds)[1] = "link"
  /\ LET h == Head(cmds)[2]
         taken == h \notin DOMAIN ref \/ ref[h].death # "none"
     IN /\ ref' = IF taken THEN ref ELSE [ref EXCEPT ![h].death = Head(cmds)[3]]
        /\ own' = IF ~taken /\ Owner[ref[h].binder] \notin alive
                  THEN Append(own, Dead(h)) ELSE own
  /\ cmds' = Tail(cmds)
  /\ UNCHANGED <<state, svclist, txn, ctx, todo, error, clients>>

\* What the caller reads: the driver turns the handle into the caller's own
\* reference, or fails the reply if servicemanager does not hold the handle.
delivered(r, refs) ==
  CASE r.kind = "handle" /\ r.handle \in DOMAIN refs ->
         [kind |-> "binder", name |-> r.name, binder |-> refs[r.handle].binder]
    [] r.kind = "handle" /\ r.handle \notin DOMAIN refs -> [kind |-> "failed"]
    [] r.kind = "unknown" -> [kind |-> "binder", name |-> r.name, binder |-> NoBinder]
    [] OTHER -> r

\* The error of BC_REPLY: nothing to reply to (a one-way call), a caller that
\* is gone, or an object that cannot be translated.
reply_fails(t, got) ==
  IF t.req.oneway THEN "BR_FAILED_REPLY"
  ELSE IF t.from \notin alive THEN "BR_DEAD_REPLY"
  ELSE IF got.kind = "failed" THEN "BR_FAILED_REPLY"
  ELSE "BR_OK"

\* Variant: the error always goes to the thread that replies.
return_error_direct(t, got) == reply_fails(t, got)

\* The error goes to the caller when there is one to be told, and the thread
\* that replies is told that its reply is done with.
return_error(t, got) ==
  IF reply_fails(t, got) # "BR_OK" /\ ~t.req.oneway THEN "BR_TRANSACTION_COMPLETE"
  ELSE reply_fails(t, got)

\* BC_FREE_BUFFER and BC_REPLY in one write.
binder_send_reply ==
  /\ cmds # << >> /\ Head(cmds)[1] = "reply"
  /\ ref' = dec_ref(txn.handle)
  /\ todo' = without(todo, txn.handle)
  /\ own' = without(own, txn.handle)
  /\ LET got == delivered(Head(cmds)[2], ref')
     IN /\ error' = return_error(txn, got)
        /\ IF txn.req.oneway \/ txn.from \notin alive THEN UNCHANGED <<waiting, answer>>
           ELSE /\ waiting' = waiting \ {txn.from}
                /\ answer' = [answer EXCEPT ![txn.from] = got]
  /\ cmds' = Tail(cmds)
  /\ txn' = NoTxn
  /\ UNCHANGED <<state, svclist, ctx, program, alive, calls>>

------------------------------------------------------------------------------
(* The end of servicemanager, and its next start by init.                   *)

\* Variant: queued requests are dropped without an answer.
Release_quiet ==
  /\ state = "exited" /\ ctx
  /\ ctx' = FALSE
  /\ ref' = << >> /\ todo' = << >> /\ own' = << >>
  /\ UNCHANGED <<manager, error, clients>>

\* The driver's deferred release of the process: every caller is told.
Release ==
  /\ state = "exited" /\ ctx
  /\ ctx' = FALSE
  /\ ref' = << >> /\ todo' = << >> /\ own' = << >>
  /\ waiting' = {}
  /\ answer' = [p \in Procs |-> IF p \in waiting THEN [kind |-> "dead"] ELSE answer[p]]
  /\ UNCHANGED <<manager, error, program, alive, calls>>

\* binder_open and binder_become_context_manager, which fails while the driver
\* still has the old node.
main ==
  /\ state = "exited" /\ ~ctx
  /\ state' = "loop"
  /\ ctx' = TRUE
  /\ UNCHANGED <<svclist, cmds, txn, ref, todo, own, error, clients>>

------------------------------------------------------------------------------
Init ==
  /\ program \in Programs
  /\ state = "loop" /\ svclist = << >> /\ cmds = << >> /\ txn = NoTxn
  /\ ctx = TRUE /\ ref = << >> /\ todo = << >> /\ own = << >> /\ error = "BR_OK"
  /\ alive = Procs /\ waiting = {}
  /\ answer = [p \in Procs |-> [kind |-> "none"]]
  /\ calls = [p \in Procs |-> 0]

Manager ==
  \/ ReadError \/ ReadDeath \/ ReadTransaction
  \/ binder_acquire \/ binder_release \/ binder_link_to_death \/ binder_send_reply

Next ==
  \/ \E p \in Procs : \E req \in program[p].requests : Send(p, req)
  \/ \E p \in Procs : Die(p)
  \/ Manager
  \/ Release
  \/ main

\* servicemanager, the driver's workqueue and init are scheduled like any other
\* runnable thread; clients need not call, and need not die.
Fairness == WF_vars(Manager) /\ WF_vars(Release) /\ WF_vars(main)

Spec == Init /\ [][Next]_vars /\ Fairness

------------------------------------------------------------------------------
(* Properties.                                                              *)

Codes == {"add", "get", "list", "other"}
Commands == {"acquire", "release", "link", "reply"}

(* Every variable keeps its shape: list entries, commands, references and   *)
(* work items of servicemanager are what binder.h and service_manager.c     *)
(* declare, and no name has two entries.                                    *)
TypeOK ==
  /\ state \in {"loop", "exited"} /\ ctx \in BOOLEAN
  /\ error \in {"BR_OK", "BR_TRANSACTION_COMPLETE", "BR_FAILED_REPLY", "BR_DEAD_REPLY"}
  /\ \A i \in DOMAIN svclist :
       /\ svclist[i].name \in Names /\ svclist[i].ptr \in 0 .. Cardinality(Binders)
       /\ svclist[i].allow_isolated \in BOOLEAN
       /\ find_svc(svclist[i].name) = i
  /\ \A i \in DOMAIN cmds : cmds[i][1] \in Commands
  /\ txn # NoTxn => txn.from \in Procs /\ txn.req.code \in Codes
  /\ DOMAIN ref \subseteq 1 .. Cardinality(Binders)
  /\ \A h \in DOMAIN ref : /\ ref[h].binder \in Binders /\ ref[h].strong \in Nat \ {0}
                           /\ ref[h].death \in Names \cup {"none"}
  /\ \A w \in ToSet(todo) : w.kind \in {"txn", "dead"}
  /\ \A w \in ToSet(own) : w.kind = "dead"
  /\ alive \subseteq Procs /\ waiting \subseteq alive
  /\ DOMAIN answer = Procs
  /\ \A p \in Procs : calls[p] \in 0 .. program[p].calls

count(list, Test(_)) == Cardinality({i \in DOMAIN list : Test(list[i])})

(* References are neither leaked nor dropped early: the driver counts one   *)
(* strong reference for every entry of svclist that holds the handle and    *)
(* one for every request that carries it, up to the acquire and release     *)
(* calls the running handler has still to make.                             *)
RefsExact ==
  /\ TypeOK
  /\ state = "loop" =>
    \A h \in 1 .. Cardinality(Binders) :
      (IF h \in DOMAIN ref THEN ref[h].strong ELSE 0) =
        count(svclist, LAMBDA si : si.ptr = h)
        + count(todo, LAMBDA w : w.kind = "txn" /\ w.handle = h)
        + (IF txn # NoTxn /\ txn.handle = h THEN 1 ELSE 0)
        - count(cmds, LAMBDA c : c = <<"acquire", h>>)
        + count(cmds, LAMBDA c : c = <<"release", h>>)

registered(n) ==
  LET i == find_svc(n)
  IN IF i = 0 \/ svclist[i].ptr \notin DOMAIN ref THEN NoBinder
     ELSE ref[svclist[i].ptr].binder

Abstract == INSTANCE Registry WITH reg <- [n \in Names |-> registered(n)]

(* servicemanager implements the registry: whatever clients do between two  *)
(* of its driver calls, a name keeps its binder until the binder's process  *)
(* is dead, handles are never mistaken for one another, and a lookup is     *)
(* answered with the binder registered when the answer is given.            *)
IsRegistry == Abstract!Spec

(* servicemanager leaves its loop only for a one-way call, whose reply the   *)
(* driver refuses: a reply to a caller that died after it had called fails   *)
(* too, but that failure is not handed to the thread that replies, and       *)
(* registrations, lookups and death notices leave it running.                *)
Survives ==
  state = "loop" \/ \E p \in Procs : \E req \in program[p].requests : req.oneway /\ calls[p] > 0

(* No name keeps the binder of a process that has died: the death link is    *)
(* made before the request is answered, and the driver queues a notice even  *)
(* if the process was dead by then.                                          *)
DeadForgotten ==
  \A b \in Binders :
    LET held == \E n \in Names : registered(n) = b
    IN held /\ Owner[b] \notin alive ~> ~held

(* A process that waits for an answer gets one or dies, even when           *)
(* servicemanager exits while the request is queued.                        *)
Answered == \A p \in Procs : p \in waiting ~> p \notin waiting

=============================================================================
