----------------------------- MODULE AtomicScreen -----------------------------
(***************************************************************************)
(* What the compositor promises to those who do not look inside: a         *)
(* composition is one step.  The screen changes only by it; it shows each  *)
(* tile of its region as backing store and waveform are at that moment,    *)
(* leaves nothing dirty, and never happens while the remote display reads. *)
(*                                                                         *)
(* The feeders change their own images and dirty regions at any other      *)
(* time.  The waveform and the video form only add to what is dirty; a     *)
(* flush of the backing store replaces it.                                 *)
(***************************************************************************)
CONSTANTS
  Tile,      \* the tiles of the screen
  WaveTile,  \* those the waveform is visible in
  IvTile,    \* those the video form is visible in
  Pixel,     \* the values a tile of an image can have
  Blank      \* the value of a tile of a new image

VARIABLES
  bs,     \* the image of the backing store
  wf,     \* the image of the waveform
  dirty,  \* the dirty region of each layer
  scrBs,  \* the backing store pixel each tile of the screen shows
  scrWv,  \* the waveform pixel blended over it
  seen    \* the frame the remote display reads: none, or its two halves

Layer == {"bs", "wv", "iv"}

Flush == /\ \E S \in SUBSET Tile :
              /\ bs' \in [Tile -> Pixel]
              /\ \A t \in Tile : bs'[t] # bs[t] => t \in S
              /\ dirty' = [dirty EXCEPT !["bs"] = S]
         /\ UNCHANGED <<wf, scrBs, scrWv, seen>>

Resize == /\ bs' = [t \in Tile |-> Blank]
          /\ UNCHANGED <<wf, dirty, scrBs, scrWv, seen>>

Wave == /\ \E S \in SUBSET WaveTile : dirty' = [dirty EXCEPT !["wv"] = @ \cup S]
        /\ wf' \in [WaveTile -> Pixel]
        /\ \A t \in WaveTile : wf'[t] # wf[t] => t \in dirty'["wv"]
        /\ UNCHANGED <<bs, scrBs, scrWv, seen>>

Video == /\ \E S \in SUBSET IvTile : dirty' = [dirty EXCEPT !["iv"] = @ \cup S]
         /\ UNCHANGED <<bs, wf, scrBs, scrWv, seen>>

Compose == /\ seen = <<>>
           /\ \E R \in SUBSET Tile :
                /\ \A l \in Layer : dirty[l] \subseteq R
                /\ scrBs' = [t \in Tile |-> IF t \in R THEN bs[t] ELSE scrBs[t]]
                /\ scrWv' = [t \in WaveTile |-> IF t \in R THEN wf[t] ELSE scrWv[t]]
           /\ dirty' = [l \in Layer |-> {}]
           /\ UNCHANGED <<bs, wf, seen>>

Look == /\ seen = <<>> /\ seen' = <<scrBs, scrWv>>
        /\ UNCHANGED <<bs, wf, dirty, scrBs, scrWv>>

LookAway == seen' = <<>> /\ UNCHANGED <<bs, wf, dirty, scrBs, scrWv>>

Init == /\ bs = [t \in Tile |-> Blank] /\ wf = [t \in WaveTile |-> Blank]
        /\ dirty = [l \in Layer |-> {}]
        /\ scrBs = [t \in Tile |-> Blank] /\ scrWv = [t \in WaveTile |-> Blank]
        /\ seen = <<>>

Next == Flush \/ Resize \/ Wave \/ Video \/ Compose \/ Look \/ LookAway

vars == <<bs, wf, dirty, scrBs, scrWv, seen>>
Spec == Init /\ [][Next]_vars

===============================================================================
