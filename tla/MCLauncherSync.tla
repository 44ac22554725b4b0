--------------------------- MODULE MCLauncherSync ---------------------------
(* One card, from the first run of the launcher on. *)
EXTENDS LauncherSync
=============================================================================
