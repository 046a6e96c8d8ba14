------------------------------- MODULE MCStats -------------------------------
(* Stats for TLC; the configuration gives the constants their values. *)
EXTENDS Stats

=============================================================================
