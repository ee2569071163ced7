----------------------------- MODULE MCAcceptor -----------------------------
(* An instance of Acceptor for TLC: module values come from MCAcceptor.cfg. *)
EXTENDS Acceptor
=============================================================================
