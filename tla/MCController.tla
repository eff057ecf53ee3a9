---------------------------- MODULE MCController ----------------------------
(* Controller on small instances. *)
EXTENDS Controller

CONSTANTS s1, s2
=============================================================================
