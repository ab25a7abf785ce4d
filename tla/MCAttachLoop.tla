---------------------------- MODULE MCAttachLoop ----------------------------
(***************************************************************************)
(* A short run of an agent: an event, then the terminal frame.              *)
(***************************************************************************)
EXTENDS AttachLoop

RunTwo == <<"event", "finished">>

============================================================================
