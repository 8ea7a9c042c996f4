----------------------------- MODULE MCDraftRoom -----------------------------
(***************************************************************************)
(* The instance of DraftRoom for TLC: two teams and one round, so that     *)
(* drafts complete.  Liveness is checked, so no symmetry is declared.      *)
(***************************************************************************)
EXTENDS DraftRoom
=============================================================================
