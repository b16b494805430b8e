------------------------------- MODULE MCStartup -------------------------------
(* One process that serves and two that export. *)
EXTENDS Startup

=============================================================================
