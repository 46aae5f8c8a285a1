----------------------------- MODULE MCAttachClient ---------------------------
(* AttachClient with one key and two sizes. *)
EXTENDS AttachClient
===============================================================================
