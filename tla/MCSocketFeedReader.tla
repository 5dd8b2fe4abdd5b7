-------------------------- MODULE MCSocketFeedReader --------------------------
(***************************************************************************)
(* SocketFeedReader with a peer that has a record that decodes, a length   *)
(* of zero, a record of an unknown type, a length above the limit and      *)
(* another record that decodes to send, and may stop anywhere in between.  *)
(***************************************************************************)
EXTENDS SocketFeedReader

SomeSizes == [type \in {1, 2} |-> type - 1]
Session == <<0, 1, 1, 0, 0, 0, 1, 0, 1, 1, 0, 2, 2, 1>>
=============================================================================
