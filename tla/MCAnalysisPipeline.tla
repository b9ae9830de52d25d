------------------------- MODULE MCAnalysisPipeline -------------------------
(* Small instances of AnalysisPipeline.                                     *)
EXTENDS AnalysisPipelineInv, TLC

CONSTANTS w1, w2, u1, a1, a2

(* Three rows in shards of two: an uneven last shard.                       *)
ThreeRows == u1 :> 3
TwoRows == u1 :> 2
FiveRows == u1 :> 5

OneUpload == [a \in Analysis |-> u1]

MappingAndMerging == MapPoints \cup ReducePoints

Everywhere == InTry

WorkerSymmetry == Permutations(Worker)
============================================================================
