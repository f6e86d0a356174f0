-------------------------- MODULE MCControlSocket --------------------------
(* Two processes on one path, queues of one connection, and a delay that
   doubles once before its cap. *)
EXTENDS ControlSocket
=============================================================================
