-------------------------- MODULE MCCodecFallback --------------------------
(* A small instance of CodecFallback.  Calls are interchangeable, and so are *)
(* streams, and only safety is checked: permuting them is sound.             *)
EXTENDS CodecFallback

Symmetry == Permutations(Calls) \union Permutations(Streams)
=============================================================================
