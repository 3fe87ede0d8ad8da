------------------------------ MODULE MCMrdpLink ------------------------------
(* Small instances of MrdpLink for TLC: two viewers, of which only the first *)
(* asks for a connection while it has one or an attempt is under way.        *)
EXTENDS MrdpLink

CONSTANTS v1, v2

Viewers == {v1, v2}
Attempts == [v \in Viewers |-> IF v = v1 THEN 3 ELSE 1]

===============================================================================
