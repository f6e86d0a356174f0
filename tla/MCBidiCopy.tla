------------------------------ MODULE MCBidiCopy ------------------------------
(* An exchange whose answer is longer than the buffer, so that the buffer is
   refilled while the request is still on its way. *)
EXTENDS BidiCopy

MCTotal == [ab |-> 1, ba |-> 3]
===============================================================================
