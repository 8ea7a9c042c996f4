--------------------------- MODULE MCDraftTraining ---------------------------
(***************************************************************************)
(* The instance of DraftTraining for TLC: a job and the one that goes on   *)
(* from its autosave, two requests that promote, and one fault.  Liveness  *)
(* is checked, so no symmetry is declared.                                 *)
(***************************************************************************)
EXTENDS DraftTraining
=============================================================================
