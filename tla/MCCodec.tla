------------------------------- MODULE MCCodec -------------------------------
(* Bodies of every shape over two kinds, two groups and two fields.        *)
EXTENDS Codec
=============================================================================
