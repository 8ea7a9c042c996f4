------------------------- MODULE MCBrowserLifecycle -------------------------
(***************************************************************************)
(* The instance of BrowserLifecycle for TLC.  A unit of time is half a     *)
(* minute; liveness is checked, so no symmetry is declared.                *)
(***************************************************************************)
EXTENDS BrowserLifecycle
=============================================================================
