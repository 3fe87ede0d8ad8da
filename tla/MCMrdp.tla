-------------------------------- MODULE MCMrdp --------------------------------
(* Small instances of Mrdp for TLC.                                         *)
EXTENDS Mrdp

===============================================================================
