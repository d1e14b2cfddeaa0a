---------------------------- MODULE MCManyUpServer ----------------------------
(* Instance of ManyUpServer: two descriptors for three clients, so that       *)
(* accept() fails and every descriptor is used again.                         *)
EXTENDS ManyUpServer
=============================================================================
