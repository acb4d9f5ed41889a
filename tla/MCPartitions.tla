---------------------------- MODULE MCPartitions ----------------------------
(* A disk of three sectors of which two are visible at first, and scans that *)
(* find partitions inside, across and beyond its end.                        *)
EXTENDS Partitions

CONSTANTS r, s

Entry(from, size) == [from |-> from, size |-> size]
Found(err, eod, first, second) == [err |-> err, eod |-> eod, parts |-> <<first, second>>]
Unused == Entry(0, 0)

MCScans == {Found("ok", FALSE, Entry(0, 1), Entry(1, 2)),
            Found("ok", FALSE, Unused, Entry(2, 2)),
            Found("ok", TRUE, Entry(1, 1), Unused),
            Found("none", FALSE, Unused, Unused),
            Found("ENOSPC", FALSE, Unused, Unused)}
MCPrograms == {[readers |-> {}, scans |-> 1], [readers |-> {r, s}, scans |-> 0]}
=============================================================================
