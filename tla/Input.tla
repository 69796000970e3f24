------------------------------- MODULE Input -------------------------------
(***************************************************************************)
(* What an algorithm is asked: a record of the function (fn) and its       *)
(* arguments.                                                              *)
(***************************************************************************)
VARIABLE input

=============================================================================
