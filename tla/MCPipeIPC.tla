----------------------------- MODULE MCPipeIPC ------------------------------
(* PipeIPC for TLC: two clients, the request of one of them too long.        *)
EXTENDS PipeIPC

CONSTANTS c1, c2
=============================================================================
