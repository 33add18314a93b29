------------------------ MODULE TrackerLoader_proofs -------------------------
(* The command queue for any number of calls and of armed timeouts.         *)
EXTENDS TrackerLoader, TLAPS

(* The commands of the first n calls, in order.                             *)
FirstCalls(n) == [i \in 1..n |-> i]

(* The queue is in order, and a command in it has a timeout: flushScheduled *)
(* says so only while one is armed.                                         *)
QueueInv ==
    /\ calls \in Nat
    /\ timers \in Nat
    /\ pending \in Seq(Nat)
    /\ applied \in Seq(Nat)
    /\ flushScheduled \in BOOLEAN
    /\ AppliedInOrder
    /\ flushScheduled => timers > 0
    /\ pending # <<>> => flushScheduled

LEMMA EmptyQueue == <<>> \in Seq(Nat)
  OBVIOUS

LEMMA Extend ==
    ASSUME NEW n \in Nat, NEW s \in Seq(Nat), s = FirstCalls(n)
    PROVE  s \o <<n + 1>> = FirstCalls(n + 1)
<1> DEFINE t == s \o <<n + 1>>
<1>1. Len(s) = n /\ \A i \in 1..n : s[i] = i
  BY DEF FirstCalls
<1>2. t \in Seq(Nat) /\ Len(t) = n + 1
  BY <1>1
<1>3. \A i \in 1..(n + 1) : t[i] = i
  BY <1>1
<1>4. DOMAIN t = 1..(n + 1) /\ t = [i \in DOMAIN t |-> t[i]]
  BY <1>2
<1> QED
  BY <1>3, <1>4 DEF FirstCalls

LEMMA QueueInit == Init => QueueInv
<1> SUFFICES ASSUME Init PROVE QueueInv
  OBVIOUS
<1>1. AppliedInOrder
  <2>1. <<>> \o <<>> = <<>> /\ [i \in 1..0 |-> i] = <<>>
    OBVIOUS
  <2> QED
    BY <2>1 DEF Init, AppliedInOrder
<1> QED
  BY <1>1, EmptyQueue DEF Init, QueueInv

LEMMA QueueStep == QueueInv /\ [Next]_vars => QueueInv'
<1> SUFFICES ASSUME QueueInv, [Next]_vars PROVE QueueInv'
  OBVIOUS
<1> USE DEF QueueInv
<1>1. CASE ScriptRuns \/ Finished \/ UNCHANGED vars
  BY <1>1 DEF ScriptRuns, Finished, vars, AppliedInOrder
<1>2. CASE CallReady
  <2>1. applied' = (applied \o pending) \o <<calls + 1>> /\ pending' = <<>>
    BY <1>2 DEF CallReady
  <2>2. applied' = FirstCalls(calls + 1) /\ applied' \in Seq(Nat)
    BY <2>1, Extend DEF AppliedInOrder, FirstCalls
  <2>3. applied' \o pending' = applied'
    BY <2>1, <2>2
  <2>4. AppliedInOrder'
    BY <1>2, <2>2, <2>3 DEF AppliedInOrder, FirstCalls, CallReady
  <2> QED
    BY <1>2, <2>2, <2>4 DEF CallReady
<1>3. CASE CallQueued
  <2>1. /\ pending' = Append(pending, calls + 1)
        /\ applied' = applied /\ calls' = calls + 1
    BY <1>3 DEF CallQueued
  <2>2. /\ pending' \in Seq(Nat)
        /\ applied' \o pending' = (applied \o pending) \o <<calls + 1>>
    BY <2>1
  <2>3. applied' \o pending' = FirstCalls(calls + 1)
    BY <2>2, Extend DEF AppliedInOrder, FirstCalls
  <2>4. AppliedInOrder'
    BY <2>1, <2>3 DEF AppliedInOrder, FirstCalls
  <2> QED
    BY <1>3, <2>1, <2>2, <2>4 DEF CallQueued
<1>4. CASE TickReady
  <2>1. applied' \in Seq(Nat) /\ pending' = <<>> /\ applied' \o pending' = applied \o pending
    BY <1>4 DEF TickReady
  <2>2. AppliedInOrder'
    BY <1>4, <2>1 DEF TickReady, AppliedInOrder
  <2>3. timers' \in Nat /\ flushScheduled' = FALSE /\ UNCHANGED calls
    BY <1>4 DEF TickReady
  <2> QED
    BY <2>1, <2>2, <2>3, EmptyQueue
<1>5. CASE TickEarly
  BY <1>5 DEF TickEarly, AppliedInOrder
<1> QED
  BY <1>1, <1>2, <1>3, <1>4, <1>5 DEF Next, Tick

(* The tracker executes the commands in the order of their calls, none      *)
(* twice and none left out, however calls, ticks and the script interleave  *)
(* (tracker.ts: "flushed in order").                                        *)
THEOREM CommandsInOrder == Spec => []AppliedInOrder
<1>1. QueueInv => AppliedInOrder
  BY DEF QueueInv
<1> QED
  BY <1>1, QueueInit, QueueStep, PTL DEF Spec

(* A command that waits always has an armed timeout that will look after    *)
(* it: the flag and the timeouts never get out of step.                     *)
THEOREM CommandsNotStranded == Spec => []NeverStranded
<1>1. QueueInv => NeverStranded
  BY DEF QueueInv, NeverStranded
<1> QED
  BY <1>1, QueueInit, QueueStep, PTL DEF Spec
=============================================================================
