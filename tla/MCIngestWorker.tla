--------------------------- MODULE MCIngestWorker ----------------------------
(* Small ingest processes for TLC: bodies of no, one or two events, one event *)
(* that the filters reject, two that share a dedup key.                     *)
EXTENDS IngestWorker, TLC

CONSTANTS h1, h2, h3, e1, e2, e3, e4

\* e2 repeats e1 (same session, type and minute); e4 has no consent.
KeyOf == (e1 :> 1) @@ (e2 :> 1) @@ (e3 :> 3) @@ (e4 :> 4)
SomeBodies == (h1 :> {e1, e3}) @@ (h2 :> {e2}) @@ (h3 :> {})
TwoBodies == (h1 :> {e1, e4}) @@ (h2 :> {e2, e3})
=============================================================================
