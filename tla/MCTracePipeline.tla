-------------------------- MODULE MCTracePipeline --------------------------
(***************************************************************************)
(* Small pipelines for TLC.                                                *)
(***************************************************************************)
EXTENDS TracePipelineProps

OneLayer  == <<"conv">>
TwoLayers == <<"conv", "fc">>

(* _chunks, on more samples than the runs can afford: whatever is to be    *)
(* done is cut into pieces that are not empty, do not overlap and leave no *)
(* sample out, also when a remainder needs a piece of its own.             *)
ASSUME ChunksAssumption ==
  \A todo \in SUBSET (1 .. 7) \ {{}} :
    LET pieces == Chunks(todo)
    IN  /\ \A i \in DOMAIN pieces : pieces[i] # {}
        /\ UNION {pieces[i] : i \in DOMAIN pieces} = todo
        /\ \A i, j \in DOMAIN pieces : i # j => pieces[i] \cap pieces[j] = {}
=============================================================================
