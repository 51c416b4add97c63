---------------------------- MODULE MCChunkUpload ----------------------------
(* Instances of ChunkUpload for TLC.                                        *)
EXTENDS ChunkUpload, TLC

(* Every file has an identifier of its own / all files share one.           *)
CONSTANT k1, k2, f1
DistinctIds == [f \in Files |-> IF f = f1 THEN k1 ELSE k2]
SharedIds == [f \in Files |-> k1]

(* The slots of requests are interchangeable.                               *)
Slots == Permutations(Requests)
=============================================================================
