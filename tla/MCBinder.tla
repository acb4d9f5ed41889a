------------------------------ MODULE MCBinder ------------------------------
(***************************************************************************)
(* Instances of Binder for model checking: a context manager mgr, a client *)
(* cli and a server srv.  A behaviour runs one of a few programs, each     *)
(* with the threads, targets and objects that make the calls it is about   *)
(* happen and unrelated ones not.                                          *)
(***************************************************************************)
EXTENDS Binder

CONSTANTS mgr, cli, srv, m1, m2, c1, c2, d1

MCProcOf == (m1 :> mgr) @@ (m2 :> mgr) @@ (c1 :> cli) @@ (c2 :> cli) @@ (d1 :> srv)
MCEuid == (mgr :> 1) @@ (cli :> 2) @@ (srv :> 2)

BinderOne == <<<<"BINDER", 1>>>>
HandleOne == <<<<"HANDLE", 1>>>>

\* The calls of r, and no others.
Does(threads, targets, payload, r) ==
  [threads |-> threads, targets |-> targets, payload |-> payload,
   left |-> r @@ [k \in Kinds |-> 0]]

Absent == Does({}, {}, {}, << >>)

Together(m, c) == (mgr :> m) @@ (cli :> c) @@ (srv :> Absent)

\* cli calls mgr and passes an object, mgr calls it back.
Manager(r) == Does({m1}, {1}, {<< >>}, r)
Client(r) == Does({c1}, {0}, {BinderOne}, r)

\* Three calls deep; either process dies; a thread exits; calls out of turn.
Nested == Together(Manager([call |-> 1]), Client([call |-> 2, die |-> 1]))
Deaths == Together(Manager([call |-> 1, die |-> 1]), Client([call |-> 1, die |-> 1]))
Exits == Together(Manager([call |-> 1, exit |-> 1]), Client([call |-> 1, exit |-> 1]))
Misuses == Together(Manager([misuse |-> 1]), Client([call |-> 1, misuse |-> 1]))

\* cli passes an object, strong or weak; mgr passes it back, possibly with a
\* bad companion.
Refs ==
  Together(Does({m1}, {1}, {<< >>, HandleOne, HandleOne \o <<<<"BAD", 0>>>>},
                [refs |-> 2, die |-> 1]),
           Does({c1}, {0}, {BinderOne, <<<<"WEAK_BINDER", 1>>>>}, [call |-> 1]))

\* cli passes an object to mgr, which hands it on to srv in a reply.
Lookup ==
  (mgr :> Does({m1}, {}, {HandleOne}, << >>))
  @@ (cli :> Does({c1}, {0}, {BinderOne}, [call |-> 1, die |-> 1]))
  @@ (srv :> Does({d1}, {0}, {<< >>}, [call |-> 1]))

\* Two threads send to mgr without waiting.
Oneway == Together(Does({m1}, {}, {<< >>}, << >>),
                   Does({c1, c2}, {0}, {<< >>}, [oneway |-> 4]))

\* mgr watches an object of cli.
Death == Together(Manager([death |-> 2, clear |-> 1, enter |-> 1]),
                  Client([call |-> 1, die |-> 1]))

\* Two threads of mgr serve one queue.
Pool == Together(Does({m1, m2}, {}, {<< >>}, [register |-> 1, enter |-> 1, max |-> 1]),
                 Does({c1}, {0}, {<< >>}, [oneway |-> 2]))

\* Two threads of cli share a queue; a flush or a signal ends waits.
Wake(r) == Together(Manager(<< >>), Does({c1, c2}, {0}, {BinderOne}, [call |-> 1] @@ r))

Calling == {Nested, Deaths, Exits, Misuses}
Sharing == {Refs, Lookup, Oneway, Death, Pool, Wake([flush |-> 1]), Wake([signal |-> 1])}
Pooling == {Pool}
=============================================================================
