---------------------------- MODULE MCSocketWait ----------------------------
(* Instance of SocketWait for TLC.  Two stop sources, so that a wake byte of *)
(* one call can be met by a call with the other token.                       *)
EXTENDS SocketWait

MCSizes == {0, 1, 2}
=============================================================================
