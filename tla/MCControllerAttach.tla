-------------------------- MODULE MCControllerAttach --------------------------
(***************************************************************************)
(* ControllerAttach on a small instance.                                   *)
(***************************************************************************)
EXTENDS ControllerAttach
===============================================================================
