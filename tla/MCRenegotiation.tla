-------------------------- MODULE MCRenegotiation --------------------------
(* Renegotiation with the constants of MCRenegotiation*.cfg. *)
EXTENDS Renegotiation
=============================================================================
