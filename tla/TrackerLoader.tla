---------------------------- MODULE TrackerLoader ----------------------------
(***************************************************************************)
(* The queue of tracker.ts between the application and /tracker.js:        *)
(* commands called before the script has run are replayed, in order, once  *)
(* it has.  Commands are numbered in the order of their calls.             *)
(***************************************************************************)
EXTENDS Naturals, Sequences

CONSTANTS
    NCalls,        \* bound: commands the application calls
    MaxTimers      \* bound: timeouts armed at the same time

ASSUME BoundsAssumption == NCalls \in Nat /\ MaxTimers \in Nat

VARIABLES
    calls,         \* commands called so far
    loaded,        \* window.mable is set: /tracker.js has run
    ready,         \* the wrapper has noticed
    pending,       \* commands queued
    flushScheduled,
    timers,        \* armed timeouts that will run a tick
    applied        \* commands the tracker has executed, in order

vars == <<calls, loaded, ready, pending, flushScheduled, timers, applied>>

Init ==
    /\ calls = 0
    /\ loaded = FALSE
    /\ ready = FALSE
    /\ pending = <<>>
    /\ flushScheduled = FALSE
    /\ timers = 0
    /\ applied = <<>>

(* /tracker.js executes, if it ever arrives.                                *)
ScriptRuns ==
    /\ ~loaded
    /\ loaded' = TRUE
    /\ UNCHANGED <<calls, ready, pending, flushScheduled, timers, applied>>

(* Fault: the command overtakes those that wait.                            *)
CallReadyFirst ==
    /\ calls < NCalls
    /\ ready \/ loaded
    /\ calls' = calls + 1
    /\ ready' = TRUE
    /\ applied' = applied \o <<calls'>> \o pending
    /\ pending' = <<>>
    /\ UNCHANGED <<loaded, flushScheduled, timers>>

(* call, once window.mable is there: ensureReady flushes what is pending,   *)
(* and the command goes straight to the tracker.                            *)
CallReady ==
    /\ calls < NCalls
    /\ ready \/ loaded
    /\ calls' = calls + 1
    /\ ready' = TRUE
    /\ applied' = applied \o pending \o <<calls'>>
    /\ pending' = <<>>
    /\ UNCHANGED <<loaded, flushScheduled, timers>>

(* call, before that: the command waits, and a tick is scheduled unless one *)
(* is already.                                                              *)
CallQueued ==
    /\ calls < NCalls
    /\ ~ready /\ ~loaded
    /\ calls' = calls + 1
    /\ pending' = Append(pending, calls')
    /\ timers' = IF flushScheduled THEN timers ELSE timers + 1
    /\ flushScheduled' = TRUE
    /\ UNCHANGED <<loaded, ready, applied>>

(* tick, once the script has run.                                           *)
TickReady ==
    /\ timers > 0
    /\ ready \/ loaded
    /\ timers' = timers - 1
    /\ flushScheduled' = FALSE
    /\ ready' = TRUE
    /\ applied' = applied \o pending
    /\ pending' = <<>>
    /\ UNCHANGED <<calls, loaded>>

(* Fault: a tick that comes too early does not come again.                  *)
TickEarlyOnce ==
    /\ timers > 0
    /\ ~ready /\ ~loaded
    /\ timers' = timers - 1
    /\ flushScheduled' = FALSE
    /\ UNCHANGED <<calls, loaded, ready, pending, applied>>

(* tick, before that.  It clears flushScheduled and calls ensureReady,      *)
(* which therefore schedules a tick; and then it schedules one itself: the  *)
(* timeouts double until the script runs, here up to MaxTimers.             *)
TickEarly ==
    /\ timers \in 1..(MaxTimers - 1)
    /\ ~ready /\ ~loaded
    /\ timers' = timers - 1 + 1 + (IF pending # <<>> THEN 1 ELSE 0)
    /\ flushScheduled' = TRUE
    /\ UNCHANGED <<calls, loaded, ready, pending, applied>>

Finished == calls = NCalls /\ timers = 0 /\ loaded /\ UNCHANGED vars

Tick == TickReady \/ TickEarly
Next == ScriptRuns \/ CallReady \/ CallQueued \/ Tick \/ Finished

Spec == Init /\ [][Next]_vars

(* Timeouts fire.  The script may never arrive (a blocked request).         *)
FairSpec == Spec /\ WF_vars(Tick)

-----------------------------------------------------------------------------
(* Properties.                                                              *)

(* Commands reach the tracker in the order of their calls, none of them     *)
(* twice and none left out (tracker.ts: "flushed in order").                *)
AppliedInOrder == applied \o pending = [i \in 1..calls |-> i]

(* A command that waits has a timeout that will look after it.              *)
NeverStranded == pending # <<>> => timers > 0

(* Once the script has run, everything called before gets through to it.    *)
QueueDrains == loaded ~> (pending = <<>>)
=============================================================================
