---------------------------- MODULE MCMrdpParser ----------------------------
(* Small instances of MrdpParser for TLC.                                   *)
EXTENDS MrdpParser

\* Sizes small enough that a payload may be shorter or longer than a header,
\* and that two messages do not fit in the buffer together.
Sizes == {1, 3, 4}

=============================================================================
