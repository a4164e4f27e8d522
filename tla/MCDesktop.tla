----------------------------- MODULE MCDesktop ------------------------------
(* Model-checking instance of Desktop.                                       *)
EXTENDS Desktop
=============================================================================
