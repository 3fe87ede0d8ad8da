------------------------------- MODULE WaveClip -------------------------------
(***************************************************************************)
(* The clip of a waveform: which part of it a composition draws            *)
(* (QMrOfsWaveform::updateEffectiveClip), and what part of it can be seen, *)
(* which says what the clip is for.                                        *)
(*                                                                         *)
(* A region is a set of cells.  A cell is an integer: one coordinate is    *)
(* enough, since x and y are translated and clipped alike.                 *)
(*                                                                         *)
(* A place is what the code finds out about a waveform before it clips it: *)
(* its origin in the top-level window, its width, the viewport it is seen  *)
(* through and the popups above the one it sits in, both as regions of the *)
(* top-level window.                                                       *)
(***************************************************************************)
EXTENDS Integers

Region == SUBSET Int
Place  == [origin : Int, width : Nat, view : Region, above : Region]

Translated(R, d) == {p + d : p \in R}
Image(width) == 0..(width - 1)

\* A variant with a bug: what is redrawn under the waveform is forgotten.
ClipOwn(pl, dirty, under) ==
  LET clip == (Translated(dirty, pl.origin) \cap pl.view) \ pl.above
  IN Translated(clip, -pl.origin) \cap Image(pl.width)

\* effective_dirty, in the waveform's coordinates: where the waveform is dirty
\* or the backing store is drawn under it, in the viewport, without the popups
\* above, and in the waveform's image.
EffectiveDirty(pl, dirty, under) ==
  LET clip == ((Translated(dirty, pl.origin) \cup under) \cap pl.view) \ pl.above
  IN Translated(clip, -pl.origin) \cap Image(pl.width)

\* effective_clip: the same region in coordinates of the top-level window.
EffectiveClip(pl, dirty, under) ==
  Translated(EffectiveDirty(pl, dirty, under), pl.origin)

\* The cells of the top-level window where the waveform can be seen.
Visible(pl) ==
  {p \in pl.view \ pl.above : p - pl.origin \in Image(pl.width)}

===============================================================================
