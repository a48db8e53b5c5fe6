--------------------------- MODULE MCDecoderList ---------------------------
(***************************************************************************)
(* Instances of DecoderList.                                               *)
(***************************************************************************)
EXTENDS DecoderList, TLC

Alike == Permutations(Decoders)
=============================================================================
