----------------------------- MODULE MCWaveforms -----------------------------
(* A small instance of Waveforms for TLC: a window of three cells with a      *)
(* video view, a dialog over its right part with a waveview, and a menu that *)
(* covers the last cell.                                                     *)
EXTENDS Waveforms

CONSTANTS video, waves, film, curve, root, dialog, menu

Places == [p \in Popup |-> CASE p = root   -> 0..2
                             [] p = dialog -> 1..2
                             [] OTHER      -> {2}]
HomeOf == [f \in Form |-> IF f = film THEN video ELSE waves]
Boxes  == [x \in View |->
             IF x = video THEN [left |-> 0, width |-> 3, chain |-> <<root>>]
                      ELSE [left |-> 1, width |-> 2, chain |-> <<dialog, root>>]]
Rects  == {[x |-> 0, w |-> 2], [x |-> 1, w |-> 2], [x |-> 1, w |-> 1]}

===============================================================================
