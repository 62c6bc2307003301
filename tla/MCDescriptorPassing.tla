-------------------------- MODULE MCDescriptorPassing --------------------------
(***************************************************************************)
(* A server that answers with errors whose text may just fill the client's *)
(* buffer.                                                                 *)
(***************************************************************************)
EXTENDS DescriptorPassing

MCCodes == {-1}
=============================================================================
