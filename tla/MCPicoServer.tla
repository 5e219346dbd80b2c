------------------------------ MODULE MCPicoServer ------------------------------
(* Instances of PicoServer for TLC: each machine connects once. *)
EXTENDS PicoServer
=================================================================================
