----------------------------- MODULE MCOpenMct -----------------------------
(***************************************************************************)
(* Instances of OpenMct: two sockets are enough for one to come, go or     *)
(* fail while the other is sent to; two fields make a client unsubscribe   *)
(* from one it does not have; a queue of one packet is full at once.       *)
(***************************************************************************)
EXTENDS OpenMct
=============================================================================
