------------------------------ MODULE MCProject ------------------------------
(***************************************************************************)
(* Project on a small instance.  Two projects, so that one may be open     *)
(* while another is opened or deleted; three settings, so that an update   *)
(* may be lost, one of which does not compile.  The ids are model values   *)
(* and every project is born once, which bounds the behaviours.            *)
(***************************************************************************)
EXTENDS OneCall

CONSTANTS s1, s2, broken

MCSettings == {s1, s2, broken}

MCCompiling == {s1, s2}
=============================================================================
