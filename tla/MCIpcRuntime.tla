---------------------------- MODULE MCIpcRuntime ----------------------------
(***************************************************************************)
(* Four tokens between two processes: a chain of three delegations, or two *)
(* families whose tokens the walk cannot tell apart.  Two callers, a       *)
(* threshold of one, two restarts and two resets.                          *)
(***************************************************************************)
EXTENDS IpcRuntime

==============================================================================
