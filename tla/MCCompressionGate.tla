-------------------------- MODULE MCCompressionGate --------------------------
(* Model checking of CompressionGate: nothing tells one compressor from  *)
(* another in a run without liveness.                                    *)
EXTENDS CompressionGate, TLC

CompressorSymmetry == Permutations(Compressors)
=============================================================================
