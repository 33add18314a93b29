------------------------------ MODULE StreamRun ------------------------------
(***************************************************************************)
(* What a caller of Collect or Reduce is promised about ONE pipeline run,  *)
(* without channels, goroutines, batches or stages.  Promised is the set   *)
(* of final elements that the stages' functions and the sink's shedding    *)
(* policy let through.  Each of them is settled at most once: delivered to *)
(* the sink, or discarded together with a batch whose stage or sink failed.*)
(* A run that nobody halted returns only when all of them are settled, and *)
(* an error is reported exactly when the error policy says so.             *)
(***************************************************************************)
CONSTANTS
    Promised,      \* final elements a run without failures delivers
    FailFast,      \* TRUE: the run stops at the first error; FALSE: SkipAndCount
    RecordFails    \* TRUE: Config.MetricsSink.Record returns an error

VARIABLES
    phase,         \* "running" or "returned"
    delivered,     \* final elements handed to the sink
    discarded,     \* final elements lost with a failed batch
    failed,        \* a stage or the sink reported an error
    halted,        \* the run's context is cancelled
    result         \* "none" until the return, then "nil" or "error"

vars == <<phase, delivered, discarded, failed, halted, result>>

Init ==
    /\ phase = "running"
    /\ delivered = {}
    /\ discarded = {}
    /\ failed = FALSE
    /\ halted \in BOOLEAN
    /\ result = "none"

Unsettled == Promised \ (delivered \union discarded)

(* One batch reaches an end: the elements in D arrive, those in X are lost. *)
(* Elements are lost only with an error, and under FailFast an error halts. *)
Settle(D, X, error) ==
    /\ phase = "running"
    /\ D \subseteq Unsettled
    /\ X \subseteq Unsettled \ D
    /\ X # {} => error
    /\ delivered' = delivered \union D
    /\ discarded' = discarded \union X
    /\ failed' = (failed \/ error)
    /\ halted' = (halted \/ (FailFast /\ error))
    /\ UNCHANGED <<phase, result>>

Cancel ==
    /\ halted' = TRUE
    /\ UNCHANGED <<phase, delivered, discarded, failed, result>>

Return ==
    /\ phase = "running"
    /\ halted \/ Unsettled = {}
    /\ phase' = "returned"
    /\ halted' = TRUE
    /\ result' = IF (FailFast /\ failed) \/ RecordFails THEN "error" ELSE "nil"
    /\ UNCHANGED <<delivered, discarded, failed>>

Next ==
    \/ \E D, X \in SUBSET Unsettled, error \in BOOLEAN : Settle(D, X, error)
    \/ Cancel
    \/ Return

Spec == Init /\ [][Next]_vars
=============================================================================
