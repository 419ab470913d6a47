----------------------------- MODULE MCSdDriver -----------------------------
(***************************************************************************)
(* Instance of SdDriver for TLC.  What a block holds is only compared, but  *)
(* Values are no symmetry set: the run checks liveness.                     *)
(***************************************************************************)
EXTENDS SdDriver
=============================================================================
