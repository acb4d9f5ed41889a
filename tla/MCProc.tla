------------------------------- MODULE MCProc -------------------------------
(* Listings of up to three processes, one of which execs from a thread, and  *)
(* writes by the system and an application.                                  *)
EXTENDS Proc

CONSTANTS app, u_app

MCEuid == [w \in Writers |-> IF w = app THEN u_app ELSE Root]
MCOomAdj == {-17, -1, 15}
MCOomScoreAdj == {-500, 0, 200}
MCPrograms == {{"threads", "list"}, {"oom"}}
=============================================================================
