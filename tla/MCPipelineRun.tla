---------------------------- MODULE MCPipelineRun ----------------------------
(* Small pipelines for TLC: a Filter and a Generate stage, with elements on *)
(* which a stage or the sink fails.                                         *)
EXTENDS PipelineRun

CONSTANTS w1, w2

OneWorker == {w1}
TwoWorkers == {w1, w2}

NoPoison == [s \in Stage |-> {}]
Pass == [s \in Stage |-> [e \in Elem |-> {e}]]

\* Stage 1 filters element 2 out; the last stage generates 4 from 1.
FilterGenerate ==
    [s \in Stage |-> [e \in Elem |->
        IF s = 1 /\ e = 2 THEN {} 
        ELSE IF s = NStages /\ e = 1 THEN {1, MaxElem}
        ELSE IF e = MaxElem THEN {} ELSE {e}]]

\* Stage 1 fails on element 3.
FirstFails == [s \in Stage |-> IF s = 1 THEN {3} ELSE {}]
\* The last stage fails on elements 1 and 2: both of its workers may leave.
LastFails == [s \in Stage |-> IF s = NStages THEN {1, 2} ELSE {}]
=============================================================================
