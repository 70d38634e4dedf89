-------------------------- MODULE MCRelayPipeline --------------------------
(* One agent in one queue, two keys, one restart of the relay, two changes.  *)
EXTENDS RelayPipeline, TLC

CONSTANTS f1, k1, k2

KeySymmetry == Permutations(Key)
=============================================================================
