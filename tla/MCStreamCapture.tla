-------------------------- MODULE MCStreamCapture --------------------------
(***************************************************************************)
(* Instances of StreamCapture: a pool with less room than there are        *)
(* addresses, and enough handlers for two of one name at one address.      *)
(***************************************************************************)
EXTENDS StreamCapture
=============================================================================
