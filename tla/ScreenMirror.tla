----------------------------- MODULE ScreenMirror -----------------------------
(***************************************************************************)
(* What the remote display promises: each viewer that has a session holds  *)
(* an image of the screen that never runs ahead of the screen and, tile by *)
(* tile, never goes back in time.  It may lag behind, and it may mix tiles *)
(* of different frames.                                                    *)
(*                                                                         *)
(* A tile's content is the number of times it has been drawn; 0 stands for *)
(* what the image holds before it has received anything.                   *)
(***************************************************************************)
EXTENDS Naturals

CONSTANTS
  Tile,     \* the tiles of the screen
  Client,   \* the viewers
  Detached  \* the image of a viewer without a session

VARIABLES
  screen,   \* the content of each tile of the screen
  image     \* the image each viewer holds

\* The compositor changes some tiles of the screen.
Draw == /\ \E S \in (SUBSET Tile) \ {{}} :
             screen' = [t \in Tile |-> IF t \in S THEN screen[t] + 1 ELSE screen[t]]
        /\ UNCHANGED image

Only(c) == \A d \in Client \ {c} : image'[d] = image[d]

\* A session opens: the viewer gets an image nothing has been drawn in.
Attach(c) == /\ image[c] = Detached
             /\ image' = [image EXCEPT ![c] = [t \in Tile |-> 0]]
             /\ UNCHANGED screen

\* An update: tiles catch up with the screen, wholly or in part.
Refresh(c) == /\ image[c] # Detached
              /\ image' \in [Client -> [Tile -> Nat] \cup {Detached}]
              /\ image'[c] # Detached
              /\ \A t \in Tile : image[c][t] <= image'[c][t] /\ image'[c][t] <= screen[t]
              /\ Only(c)
              /\ UNCHANGED screen

\* The session ends.
Detach(c) == /\ image' = [image EXCEPT ![c] = Detached]
             /\ UNCHANGED screen

Init == /\ screen = [t \in Tile |-> 1]
        /\ image = [c \in Client |-> Detached]

Next == Draw \/ \E c \in Client : Attach(c) \/ Refresh(c) \/ Detach(c)

Spec == Init /\ [][Next]_<<screen, image>>

=============================================================================
