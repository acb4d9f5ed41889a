--------------------------- MODULE ServiceListing ---------------------------
(***************************************************************************)
(* A client that lists the services, as libbinder's listServices does: it  *)
(* asks for entry 0, 1, 2, ... until servicemanager answers with an error. *)
(* Other processes register services and die between two of its questions. *)
(***************************************************************************)
EXTENDS ServiceManager

VARIABLES
  index,   \* the index of the next question
  asked,   \* a question is out
  must,    \* the names that were listed, and fit a reply, when it began
  seen,    \* the names it was given
  done

listing == <<index, asked, must, seen, done>>

Ask(p) ==
  /\ ~asked /\ ~done
  /\ Send(p, [code |-> "list", n |-> index, oneway |-> FALSE])
  /\ asked' = TRUE
  /\ must' = IF index = 0 THEN {si.name : si \in {x \in ToSet(svclist) : fits(x.name)}} ELSE must
  /\ UNCHANGED <<index, seen, done>>

Take(p) ==
  /\ asked /\ p \in alive \ waiting
  /\ asked' = FALSE
  /\ IF answer[p].kind \notin {"name", "cut"} THEN done' = TRUE /\ UNCHANGED <<index, seen>>
     ELSE /\ index' = index + 1
          /\ seen' = IF answer[p].kind = "name" THEN seen \cup {answer[p].name} ELSE seen
          /\ done' = done
  /\ UNCHANGED <<vars, must>>

ListingInit ==
  Init /\ index = 0 /\ asked = FALSE /\ must = {} /\ seen = {} /\ done = FALSE

ListingNext ==
  \/ \E p \in Procs : program[p].lists /\ (Ask(p) \/ Take(p))
  \/ Next /\ UNCHANGED listing

ListingSpec == ListingInit /\ [][ListingNext]_<<vars, listing>> /\ Fairness

(* A complete listing holds every name that was registered when it began    *)
(* and whose name fits a reply: entries are only ever added at the head of  *)
(* svclist and none is removed, so an index shift repeats a name and never  *)
(* skips one.                                                               *)
ListsAll == done => must \subseteq seen
=============================================================================
