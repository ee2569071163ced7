------------------------------- MODULE MCCodec -------------------------------
(* Every struct and every output chain, with arrays and chains of up to two. *)
EXTENDS Codec

AllKinds == DOMAIN Codecs
=============================================================================
