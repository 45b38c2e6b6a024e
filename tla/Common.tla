------------------------------- MODULE Common -------------------------------
(***************************************************************************)
(* What the parts of the server share: None stands for null, undefined and *)
(* whatever else a part takes for nothing.                                 *)
(***************************************************************************)
CONSTANT None
=============================================================================
