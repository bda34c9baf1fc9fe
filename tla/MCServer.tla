------------------------------- MODULE MCServer -------------------------------
(* A small instance of Server for TLC. *)
EXTENDS Server

CONSTANTS c1, i1
=============================================================================
