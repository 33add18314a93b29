------------------------------ MODULE MCTracker ------------------------------
(* One or two pages, three or four events.                                  *)
EXTENDS Tracker, TLC

CONSTANTS p1, p2, e1, e2, e3, e4

OnePage == {p1}
TwoPages == {p1, p2}
Three == {e1, e2, e3}
Four == {e1, e2, e3, e4}
=============================================================================
