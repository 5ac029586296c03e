--------------------------- MODULE MCEndpointAccess ---------------------------
(***************************************************************************)
(* EndpointAccess for TLC.                                                 *)
(***************************************************************************)
EXTENDS EndpointAccess
==============================================================================
