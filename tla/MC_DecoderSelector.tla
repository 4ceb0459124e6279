------------------------- MODULE MC_DecoderSelector -------------------------
(* Two plain decoders, the decrypting decoder, and up to two Abort() calls. *)
EXTENDS DecoderSelector

CONSTANTS D1, D2

MCDecoderList == <<D1, D2>>
====
