---------------------------- MODULE MCNamespaces ----------------------------
(* Namespaces with two apps and a stack. *)
EXTENDS Namespaces, TLC
=============================================================================
