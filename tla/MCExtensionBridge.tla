------------------------- MODULE MCExtensionBridge -------------------------
(***************************************************************************)
(* The instance of ExtensionBridge for TLC.  The calls, polls, secrets and *)
(* values are model values of the configuration; one of the two calls is   *)
(* cancellable.  Liveness is checked, so no symmetry is declared.          *)
(***************************************************************************)
EXTENDS ExtensionBridge
=============================================================================
