---------------------------- MODULE MCCompositor ----------------------------
(* Small instances of Compositor for TLC.                                   *)
EXTENDS Compositor

\* The switches as the constructor leaves them, with the composition and the
\* flushing of every layer turned on as applications do.
AllOn == [f \in Flag |-> TRUE]

\* ... and as the constructor leaves them.
CtorFlags == [f \in Flag |-> f \in {"bs", "wv"}]

=============================================================================
