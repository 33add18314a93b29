---------------------------- MODULE Stages_proofs ----------------------------
(* What holds of the stages for any batches, any predicates and functions,  *)
(* any number of workers and any capacities.                                *)
(*                                                                         *)
(*   LoopRuns, KeptFacts, AfterFacts, ...   what the loops return          *)
(*   SinkInv       the sink's elements, in order   => SinkKeepsAccount     *)
(*   LRU           a key's depth and its place     => LikeLRU              *)
(*   Apart, OneInv the place of each key known     => OnePerKey            *)
(*   BooksInv      counters and failed batches     => IfKeepsAccount       *)
EXTENDS Stages, FiniteSetTheorems, WellFoundedInduction, SequenceTheorems, TLAPS

-----------------------------------------------------------------------------
(* Loops.  Induction up to n, as a fact about the set of the numbers that   *)
(* a claim holds for.                                                       *)

LEMMA UpTo ==
    ASSUME NEW n \in Nat, NEW T, 0 \in T, \A i \in 1..n : i - 1 \in T => i \in T
    PROVE  0..n \subseteq T
<1> DEFINE R == OpToRel(<, Nat)
           Bad == (0..n) \ T
<1>1. IsWellFoundedOn(R, Nat)
  BY NatLessThanWellFounded
<1>2. SUFFICES ASSUME Bad # {} PROVE FALSE
  OBVIOUS
<1>3. Bad \subseteq Nat
  OBVIOUS
<1> HIDE DEF R, Bad
<1>4. PICK m \in Bad : \A k \in Bad : ~(<<k, m>> \in R)
  BY <1>1, <1>2, <1>3, WFMin
<1>5. m \in 0..n /\ m \notin T
  BY <1>4 DEF Bad
<1>6. m \in 1..n
  BY <1>5
<1>7. m - 1 \notin T
  BY <1>5, <1>6
<1>8. m - 1 \in Bad
  BY <1>6, <1>7 DEF Bad
<1>9. <<m - 1, m>> \in R
  BY <1>5, <1>6 DEF R, OpToRel
<1> QED
  BY <1>4, <1>8, <1>9

LEMMA Greatest ==
    ASSUME NEW n \in Nat, NEW T, T \subseteq 0..n, T # {}
    PROVE  \E r \in T : \A i \in T : i <= r
<1> DEFINE U == {m \in 0..n : \/ \A i \in T : ~(i <= m)
                             \/ \E r \in T : r <= m /\ \A i \in T : i <= m => i <= r}
<1>1. 0 \in U
  <2>1. CASE 0 \in T
    BY <2>1
  <2>2. CASE 0 \notin T
    <3>1. \A i \in T : ~(i <= 0)
      BY <2>2
    <3> QED BY <3>1
  <2> QED BY <2>1, <2>2
<1>2. ASSUME NEW m \in 1..n, m - 1 \in U PROVE m \in U
  <2>1. m \in 0..n /\ \A i \in T : i <= m <=> i <= m - 1 \/ i = m
    OBVIOUS
  <2>2. CASE m \in T
    <3>1. m <= m /\ \A i \in T : i <= m => i <= m
      OBVIOUS
    <3> QED BY <2>1, <2>2, <3>1
  <2>3. CASE m \notin T
    <3>1. CASE \A i \in T : ~(i <= m - 1)
      BY <2>1, <2>3, <3>1
    <3>2. CASE \E r \in T : r <= m - 1 /\ \A i \in T : i <= m - 1 => i <= r
      <4>1. PICK r \in T : r <= m - 1 /\ \A i \in T : i <= m - 1 => i <= r
        BY <3>2
      <4>2. r <= m /\ \A i \in T : i <= m => i <= r
        BY <2>1, <2>3, <4>1
      <4> QED BY <2>1, <4>2
    <3> QED BY <1>2, <3>1, <3>2
  <2> QED BY <2>2, <2>3
<1> HIDE DEF U
<1>3. n \in U
  <2>1. 0..n \subseteq U
    BY <1>1, <1>2, UpTo
  <2> QED BY <2>1
<1>4. \A i \in T : i <= n
  OBVIOUS
<1> QED
  BY <1>3, <1>4 DEF U

(* A loop of n steps has values: from a, step i makes F[<<x, i>>] of x.     *)
Loops(n, S) == [S \X (1..n) -> S]
Runs(n, S, a, F) ==
    \E g \in [0..n -> S] : g[0] = a /\ \A i \in 1..n : g[i] = F[<<g[i - 1], i>>]

LEMMA LoopRuns ==
    ASSUME NEW n \in Nat, NEW S, NEW a \in S, NEW F \in Loops(n, S)
    PROVE  Runs(n, S, a, F)
<1> USE DEF Loops, Runs
<1> DEFINE Run(g, m) == /\ g \in [0..n -> S]
                        /\ g[0] = a
                        /\ \A i \in 1..m : g[i] = F[<<g[i - 1], i>>]
           T == {m \in 0..n : \E g : Run(g, m)}
<1>1. 0 \in T
  <2>1. Run([i \in 0..n |-> a], 0)
    OBVIOUS
  <2> HIDE DEF Run
  <2>2. 0 \in 0..n
    OBVIOUS
  <2> QED BY <2>1, <2>2
<1>2. ASSUME NEW i \in 1..n, i - 1 \in T PROVE i \in T
  <2>1. PICK g : Run(g, i - 1)
    BY <1>2
  <2> DEFINE h == [g EXCEPT ![i] = F[<<g[i - 1], i>>]]
  <2>2. i - 1 \in 0..n /\ i \in 0..n /\ i # 0
    OBVIOUS
  <2>3. g[i - 1] \in S
    BY <2>1, <2>2
  <2>4. F[<<g[i - 1], i>>] \in S
    BY <2>3
  <2>5. h \in [0..n -> S] /\ h[0] = a
    BY <2>1, <2>2, <2>4
  <2>6. ASSUME NEW j \in 1..i PROVE h[j] = F[<<h[j - 1], j>>]
    <3>1. h[j - 1] = g[j - 1]
      BY <2>1
    <3>2. CASE j = i
      BY <2>1, <2>2, <3>1, <3>2
    <3>3. CASE j # i
      <4>1. h[j] = g[j] /\ j \in 1..(i - 1)
        BY <2>1, <3>3
      <4> QED BY <2>1, <3>1, <4>1
    <3> QED BY <3>2, <3>3
  <2>7. Run(h, i)
    BY <2>5, <2>6
  <2> HIDE DEF Run, h
  <2> QED BY <2>2, <2>7
<1> HIDE DEF T
<1>3. 0..n \subseteq T
  BY <1>1, <1>2, UpTo
<1>4. n \in T
  BY <1>3
<1> QED
  BY <1>4 DEF T

LEMMA SameLoop ==
    ASSUME NEW n \in Nat, NEW f, NEW g, f[0] = g[0],
           \A i \in 1..n : f[i - 1] = g[i - 1] => f[i] = g[i]
    PROVE  \A i \in 0..n : f[i] = g[i]
<1> DEFINE T == {i \in 0..n : f[i] = g[i]}
<1>1. 0 \in T
  OBVIOUS
<1>2. \A i \in 1..n : i - 1 \in T => i \in T
  OBVIOUS
<1> HIDE DEF T
<1>3. 0..n \subseteq T
  BY <1>1, <1>2, UpTo
<1> QED
  BY <1>3 DEF T

(* What the loops of Filter, If, Generate and Deduplicate compute, one      *)
(* element at a time.                                                       *)
KeptRun(g, S, in, chosen) ==
    /\ g \in [0..Len(in) -> Seq(S)]
    /\ g[0] = <<>>
    /\ \A i \in 1..Len(in) :
          g[i] = IF in[i] \in chosen THEN Append(g[i - 1], in[i]) ELSE g[i - 1]
    /\ Kept(in, chosen) = g[Len(in)]

LEMMA KeptLoop ==
    ASSUME NEW S, NEW in \in Seq(S), NEW chosen
    PROVE  \E g : KeptRun(g, S, in, chosen)
<1>0. PICK n \in Nat : n = Len(in)
  OBVIOUS
<1> DEFINE F == [q \in Seq(S) \X (1..n) |->
                   IF in[q[2]] \in chosen THEN Append(q[1], in[q[2]]) ELSE q[1]]
           Body(x) == [i \in 0..n |->
                         IF i = 0 THEN <<>>
                         ELSE IF in[i] \in chosen THEN Append(x[i - 1], in[i])
                              ELSE x[i - 1]]
<1>1. F \in Loops(n, Seq(S)) /\ <<>> \in Seq(S)
  <2> SUFFICES ASSUME NEW x \in Seq(S), NEW i \in 1..n PROVE in[i] \in S
    BY DEF Loops
  <2> QED BY <1>0
<1>2. PICK g : /\ g \in [0..n -> Seq(S)]
               /\ g[0] = <<>>
               /\ \A i \in 1..n : g[i] = F[<<g[i - 1], i>>]
  <2> HIDE DEF F
  <2>1. Runs(n, Seq(S), <<>>, F)
    BY <1>1, LoopRuns
  <2> QED BY <2>1 DEF Runs
<1>3. \A i \in 1..n : g[i] = IF in[i] \in chosen THEN Append(g[i - 1], in[i]) ELSE g[i - 1]
  <2> TAKE i \in 1..n
  <2>1. i - 1 \in 0..n
    OBVIOUS
  <2>2. g[i - 1] \in Seq(S)
    BY <1>2, <2>1
  <2>3. F[<<g[i - 1], i>>] = IF in[i] \in chosen THEN Append(g[i - 1], in[i]) ELSE g[i - 1]
    BY <2>2
  <2> QED BY <1>2, <2>3
<1> HIDE DEF F
<1>4. g = Body(g)
  <2>1. ASSUME NEW i \in 0..n PROVE g[i] = Body(g)[i]
    <3>1. CASE i = 0
      BY <1>2, <3>1
    <3>2. CASE i # 0
      BY <1>3, <3>2
    <3> QED BY <3>1, <3>2
  <2>2. g = [i \in 0..n |-> g[i]] /\ Body(g) = [i \in 0..n |-> Body(g)[i]]
    BY <1>2
  <2> HIDE DEF Body
  <2> QED BY <2>1, <2>2
<1>5. PICK f : f = Body(f) /\ Kept(in, chosen) = f[n]
  <2> DEFINE h == CHOOSE x : x = Body(x)
  <2>1. Kept(in, chosen) = h[n]
    BY <1>0, Zenon DEF Kept
  <2> HIDE DEF Body
  <2>2. h = Body(h)
    BY <1>4
  <2> QED BY <2>1, <2>2
<1>7. f[0] = g[0]
  BY <1>2, <1>5
<1>8. \A i \in 1..n : f[i - 1] = g[i - 1] => f[i] = g[i]
  <2> SUFFICES ASSUME NEW i \in 1..n, f[i - 1] = g[i - 1] PROVE f[i] = g[i]
    OBVIOUS
  <2>1. i \in 0..n /\ i # 0
    OBVIOUS
  <2>2. Body(f)[i] = Body(g)[i]
    BY <2>1
  <2> HIDE DEF Body
  <2> QED BY <1>4, <1>5, <2>2
<1>9. f[n] = g[n]
  <2> HIDE DEF Body
  <2>1. \A i \in 0..n : f[i] = g[i]
    BY <1>7, <1>8, SameLoop
  <2> QED BY <2>1
<1> QED
  BY <1>0, <1>2, <1>3, <1>5, <1>9 DEF KeptRun

(* Two sequences of n elements together                                     *)
Both(s, t, n) == Len(s) + Len(t) = n

LEMMA BothGrow ==
    ASSUME NEW S, NEW s \in Seq(S), NEW t \in Seq(S), NEW e \in S, NEW n \in Nat,
           Both(s, t, n - 1)
    PROVE  Both(Append(s, e), t, n) /\ Both(s, Append(t, e), n)
  BY DEF Both

LEMMA KeptFacts ==
    ASSUME NEW S, NEW in \in Seq(S), NEW chosen
    PROVE  /\ Kept(in, chosen) \in Seq(S)
           /\ Len(Kept(in, chosen)) <= Len(in)
           /\ Len(Kept(in, chosen)) + Len(Kept(in, S \ chosen)) = Len(in)
           /\ \A e : e \in ToSet(Kept(in, chosen)) <=> e \in ToSet(in) /\ e \in chosen
<1>0. PICK n \in Nat : n = Len(in) /\ \A i \in 1..n : in[i] \in S
  OBVIOUS
<1>1. PICK g : KeptRun(g, S, in, chosen)
  BY KeptLoop
<1>2. PICK h : KeptRun(h, S, in, S \ chosen)
  BY KeptLoop
<1> DEFINE T == {i \in 0..n : Both(g[i], h[i], i)}
           U == {i \in 0..n : \A e : (\E j \in 1..Len(g[i]) : g[i][j] = e) <=>
                                     (\E j \in 1..i : in[j] = e) /\ e \in chosen}
<1>3. ASSUME NEW i \in 1..n
      PROVE  /\ i \in 0..n /\ i - 1 \in 0..n
             /\ g[i] \in Seq(S) /\ g[i - 1] \in Seq(S)
             /\ h[i] \in Seq(S) /\ h[i - 1] \in Seq(S)
             /\ in[i] \in S
             /\ in[i] \in chosen => g[i] = Append(g[i - 1], in[i]) /\ h[i] = h[i - 1]
             /\ in[i] \notin chosen => h[i] = Append(h[i - 1], in[i]) /\ g[i] = g[i - 1]
  <2>1. i \in 0..n /\ i - 1 \in 0..n /\ in[i] \in S
    BY <1>0
  <2> QED BY <1>0, <1>1, <1>2, <2>1 DEF KeptRun
<1>4. n \in T
  <2>1. 0 \in T
    BY <1>1, <1>2 DEF KeptRun, Both
  <2>2. ASSUME NEW i \in 1..n, i - 1 \in T PROVE i \in T
    <3>1. Both(g[i - 1], h[i - 1], i - 1)
      BY <2>2
    <3>2. /\ i \in Nat
          /\ g[i - 1] \in Seq(S) /\ h[i - 1] \in Seq(S) /\ in[i] \in S
      BY <1>3
    <3>3. /\ Both(Append(g[i - 1], in[i]), h[i - 1], i)
          /\ Both(g[i - 1], Append(h[i - 1], in[i]), i)
      BY <3>1, <3>2, BothGrow
    <3>4. i \in 0..n /\ Both(g[i], h[i], i)
      BY <1>3, <3>3
    <3> QED BY <3>4
  <2> HIDE DEF T
  <2>3. 0..n \subseteq T
    BY <2>1, <2>2, UpTo
  <2> QED BY <2>3
<1>5. n \in U
  <2>1. 0 \in U
    BY <1>1 DEF KeptRun
  <2>2. ASSUME NEW i \in 1..n, i - 1 \in U PROVE i \in U
    <3>1. \A e : (\E j \in 1..Len(g[i - 1]) : g[i - 1][j] = e) <=>
                 (\E j \in 1..(i - 1) : in[j] = e) /\ e \in chosen
      BY <2>2
    <3>2. \A j : j \in 1..i <=> j \in 1..(i - 1) \/ j = i
      OBVIOUS
    <3>3. CASE in[i] \in chosen
      <4>1. /\ g[i] = Append(g[i - 1], in[i])
            /\ Len(g[i]) = Len(g[i - 1]) + 1
            /\ Len(g[i - 1]) \in Nat
        BY <1>3, <3>3
      <4>2. /\ g[i][Len(g[i])] = in[i]
            /\ \A j \in 1..Len(g[i - 1]) : g[i][j] = g[i - 1][j]
        BY <1>3, <4>1
      <4>3. \A j : j \in 1..Len(g[i]) <=> j \in 1..Len(g[i - 1]) \/ j = Len(g[i])
        BY <4>1
      <4>4. \A e : (\E j \in 1..Len(g[i]) : g[i][j] = e) <=>
                   (\E j \in 1..i : in[j] = e) /\ e \in chosen
        BY <3>1, <3>2, <3>3, <4>2, <4>3
      <4> QED BY <1>3, <4>4
    <3>4. CASE in[i] \notin chosen
      <4>1. \A e : (\E j \in 1..Len(g[i]) : g[i][j] = e) <=>
                   (\E j \in 1..i : in[j] = e) /\ e \in chosen
        BY <1>3, <3>1, <3>2, <3>4
      <4> QED BY <1>3, <4>1
    <3> QED BY <3>3, <3>4
  <2> HIDE DEF U
  <2>3. 0..n \subseteq U
    BY <2>1, <2>2, UpTo
  <2> QED BY <2>3
<1>6. /\ g[n] \in Seq(S) /\ h[n] \in Seq(S)
      /\ Kept(in, chosen) = g[n] /\ Kept(in, S \ chosen) = h[n]
  BY <1>0, <1>1, <1>2 DEF KeptRun
<1>7. Both(g[n], h[n], n)
  BY <1>4
<1>8. \A e : e \in ToSet(g[n]) <=> e \in ToSet(in) /\ e \in chosen
  <2>1. DOMAIN g[n] = 1..Len(g[n]) /\ DOMAIN in = 1..n
    BY <1>0, <1>6
  <2> QED BY <1>5, <2>1 DEF ToSet
<1>9. Len(Kept(in, chosen)) <= Len(in)
      /\ Len(Kept(in, chosen)) + Len(Kept(in, S \ chosen)) = Len(in)
  <2>1. /\ Both(Kept(in, chosen), Kept(in, S \ chosen), Len(in))
        /\ Kept(in, chosen) \in Seq(S) /\ Kept(in, S \ chosen) \in Seq(S)
    BY <1>0, <1>6, <1>7
  <2>2. Len(Kept(in, chosen)) \in Nat /\ Len(Kept(in, S \ chosen)) \in Nat
    BY <2>1
  <2> QED BY <2>1, <2>2 DEF Both
<1> HIDE DEF T, U
<1> QED
  BY <1>0, <1>6, <1>7, <1>8, <1>9

LEMMA GenerateFacts ==
    ASSUME NEW in \in Seq(Elems)
    PROVE  Generate(in).out \in Seq(Elems) /\ Generate(in) = Returned(Generate(in).out, 0)
<1>0. PICK n \in Nat : n = Len(in)
  OBVIOUS
<1> DEFINE F == [q \in Seq(Elems) \X (1..n) |-> q[1] \o Generated[in[q[2]]]]
           Body(x) == [i \in 0..n |-> IF i = 0 THEN <<>> ELSE x[i - 1] \o Generated[in[i]]]
<1>1. F \in Loops(n, Seq(Elems)) /\ <<>> \in Seq(Elems)
  <2> SUFFICES ASSUME NEW x \in Seq(Elems), NEW i \in 1..n
               PROVE  x \o Generated[in[i]] \in Seq(Elems)
    BY DEF Loops
  <2>1. in[i] \in Elems
    BY <1>0
  <2>2. Generated[in[i]] \in Seq(Elems)
    BY <2>1, ElemsAssumption
  <2> QED BY <2>2
<1>2. PICK g : /\ g \in [0..n -> Seq(Elems)]
               /\ g[0] = <<>>
               /\ \A i \in 1..n : g[i] = F[<<g[i - 1], i>>]
  <2> HIDE DEF F
  <2>1. Runs(n, Seq(Elems), <<>>, F)
    BY <1>1, LoopRuns
  <2> QED BY <2>1 DEF Runs
<1>3. \A i \in 1..n : g[i] = g[i - 1] \o Generated[in[i]]
  <2> TAKE i \in 1..n
  <2>1. i - 1 \in 0..n
    OBVIOUS
  <2>2. g[i - 1] \in Seq(Elems)
    BY <1>2, <2>1
  <2>3. F[<<g[i - 1], i>>] = g[i - 1] \o Generated[in[i]]
    BY <2>2
  <2> QED BY <1>2, <2>3
<1> HIDE DEF F
<1>4. g = Body(g)
  <2>1. ASSUME NEW i \in 0..n PROVE g[i] = Body(g)[i]
    <3>1. CASE i = 0
      BY <1>2, <3>1
    <3>2. CASE i # 0
      <4>1. i \in 1..n
        BY <3>2
      <4>2. Body(g)[i] = g[i - 1] \o Generated[in[i]]
        BY <3>2
      <4> QED BY <1>3, <4>1, <4>2
    <3> QED BY <3>1, <3>2
  <2>2. g = [i \in 0..n |-> g[i]] /\ Body(g) = [i \in 0..n |-> Body(g)[i]]
    BY <1>2
  <2> HIDE DEF Body
  <2> QED BY <2>1, <2>2
<1>5. PICK f : f = Body(f) /\ Generate(in) = Returned(f[n], 0)
  <2> DEFINE h == CHOOSE x : x = Body(x)
  <2>1. Generate(in) = Returned(h[n], 0)
    BY <1>0, Zenon DEF Generate
  <2> HIDE DEF Body
  <2>2. h = Body(h)
    BY <1>4
  <2> QED BY <2>1, <2>2
<1>6. f[0] = g[0]
  BY <1>2, <1>5
<1>7. \A i \in 1..n : f[i - 1] = g[i - 1] => f[i] = g[i]
  <2> SUFFICES ASSUME NEW i \in 1..n, f[i - 1] = g[i - 1] PROVE f[i] = g[i]
    OBVIOUS
  <2>1. i \in 0..n /\ i # 0
    OBVIOUS
  <2>2. Body(f)[i] = Body(g)[i]
    BY <2>1
  <2> HIDE DEF Body
  <2> QED BY <1>4, <1>5, <2>2
<1>8. f[n] = g[n]
  <2> HIDE DEF Body
  <2>1. \A i \in 0..n : f[i] = g[i]
    BY <1>6, <1>7, SameLoop
  <2> QED BY <2>1
<1>9. f[n] \in Seq(Elems)
  BY <1>2, <1>8
<1> QED
  BY <1>5, <1>9 DEF Returned

Keys == {Key[e] : e \in Elems}
Steps == [order : Seq(Keys), kept : Seq(Elems)]
Look(x, e) ==
    [order |-> Looked(x.order, Key[e]),
     kept |-> IF Key[e] \in ToSet(x.order) THEN x.kept ELSE Append(x.kept, e)]

(* Deduplicate reaches the elements up to the first without a key.          *)
LEMMA ReachedFacts ==
    ASSUME NEW in \in Seq(Elems)
    PROVE  /\ Cardinality(Reached(in)) \in 0..Len(in)
           /\ Reached(in) = 1..Cardinality(Reached(in))
<1>0. PICK n \in Nat : n = Len(in) /\ DOMAIN in = 1..n
  OBVIOUS
<1> DEFINE T == {i \in 0..n : \A j \in 1..i : in[j] \notin Unkeyed}
<1>1. 0 \in T /\ T \subseteq 0..n
  OBVIOUS
<1>2. PICK r \in T : \A i \in T : i <= r
  <2> HIDE DEF T
  <2> QED BY <1>1, Greatest
<1>3. r \in 0..n
  OBVIOUS
<1>5. Reached(in) = 1..r
  <2>1. ASSUME NEW i \in 1..r PROVE i \in Reached(in)
    BY <1>0, <1>3 DEF Reached
  <2>2. ASSUME NEW i \in Reached(in) PROVE i \in 1..r
    <3>1. i \in 1..n /\ i \in T
      BY <1>0 DEF Reached
    <3> QED BY <1>2, <3>1
  <2> QED BY <2>1, <2>2
<1>6. Cardinality(1..r) = r
  BY <1>3, FS_Interval
<1> QED
  BY <1>0, <1>3, <1>5, <1>6

LEMMA AppendType ==
    ASSUME NEW S, NEW s \in Seq(S), NEW e \in S
    PROVE  Append(s, e) \in Seq(S)
  OBVIOUS

LEMMA Joined ==
    ASSUME NEW S, NEW s \in Seq(S), NEW t \in Seq(S)
    PROVE  /\ s \o t \in Seq(S)
           /\ Len(s \o t) = Len(s) + Len(t)
           /\ \A i \in 1..Len(s) : (s \o t)[i] = s[i]
           /\ \A i \in 1..Len(t) : (s \o t)[Len(s) + i] = t[i]
  OBVIOUS

(* MoveToFront and RemoveAt                                                 *)
LEMMA Moved ==
    ASSUME NEW S, NEW ord \in Seq(S), NEW k \in ToSet(ord)
    PROVE  \E p \in 1..Len(ord) :
              /\ ord[p] = k
              /\ MovedToFront(ord, k) \in Seq(S)
              /\ Len(MovedToFront(ord, k)) = Len(ord)
              /\ MovedToFront(ord, k)[1] = k
              /\ \A i \in 1..(p - 1) : MovedToFront(ord, k)[i + 1] = ord[i]
              /\ \A i \in (p + 1)..Len(ord) : MovedToFront(ord, k)[i] = ord[i]
<1> DEFINE p == CHOOSE i \in DOMAIN ord : ord[i] = k
<1>1. p \in 1..Len(ord) /\ ord[p] = k
  BY DEF ToSet
<1>2. k \in S
  BY <1>1
<1>3. MovedToFront(ord, k) = <<k>> \o (SubSeq(ord, 1, p - 1) \o SubSeq(ord, p + 1, Len(ord)))
  BY DEF MovedToFront, RemoveAt
<1> HIDE DEF p
<1> DEFINE a == SubSeq(ord, 1, p - 1)
           b == SubSeq(ord, p + 1, Len(ord))
<1>4. /\ a \in Seq(S) /\ Len(a) = p - 1 /\ \A i \in 1..(p - 1) : a[i] = ord[i]
      /\ b \in Seq(S) /\ Len(b) = Len(ord) - p
      /\ \A i \in 1..(Len(ord) - p) : b[i] = ord[p + i]
  BY <1>1
<1>5. MovedToFront(ord, k) = <<k>> \o (a \o b)
  BY <1>3
<1> HIDE DEF a, b
<1> DEFINE c == a \o b
<1>6. /\ c \in Seq(S) /\ Len(c) = Len(ord) - 1
      /\ \A i \in 1..(p - 1) : c[i] = ord[i]
      /\ \A i \in p..(Len(ord) - 1) : c[i] = ord[i + 1]
  <2>1. /\ c \in Seq(S) /\ Len(c) = Len(a) + Len(b)
        /\ \A i \in 1..Len(a) : c[i] = a[i]
        /\ \A i \in 1..Len(b) : c[Len(a) + i] = b[i]
    <3>1. a \in Seq(S) /\ b \in Seq(S)
      BY <1>4
    <3> QED BY <3>1, Joined
  <2> HIDE DEF c
  <2>2. Len(c) = Len(ord) - 1 /\ \A i \in 1..(p - 1) : c[i] = a[i]
    BY <1>1, <1>4, <2>1
  <2>3. ASSUME NEW i \in p..(Len(ord) - 1) PROVE c[i] = ord[i + 1]
    <3>1. i - (p - 1) \in 1..(Len(ord) - p)
      BY <1>1
    <3>2. c[i] = b[i - (p - 1)]
      <4>1. Len(a) + (i - (p - 1)) = i
        BY <1>1, <1>4
      <4> QED BY <1>4, <2>1, <3>1, <4>1
    <3>3. b[i - (p - 1)] = ord[p + (i - (p - 1))]
      BY <1>4, <3>1
    <3>4. p + (i - (p - 1)) = i + 1
      BY <1>1
    <3> QED BY <3>2, <3>3, <3>4
  <2> QED BY <1>4, <2>1, <2>2, <2>3
<1>7. MovedToFront(ord, k) = <<k>> \o c
  BY <1>5
<1> HIDE DEF c
<1> DEFINE d == <<k>> \o c
<1>8. /\ d \in Seq(S) /\ Len(d) = Len(ord) /\ d[1] = k
      /\ \A i \in 1..(Len(ord) - 1) : d[i + 1] = c[i]
  BY <1>1, <1>2, <1>6
<1>9. /\ \A i \in 1..(p - 1) : d[i + 1] = ord[i]
      /\ \A i \in (p + 1)..Len(ord) : d[i] = ord[i]
  <2>1. ASSUME NEW i \in 1..(p - 1) PROVE d[i + 1] = ord[i]
    <3>1. i \in 1..(Len(ord) - 1)
      BY <1>1
    <3> QED BY <1>6, <1>8, <3>1
  <2>2. ASSUME NEW i \in (p + 1)..Len(ord) PROVE d[i] = ord[i]
    <3>1. i - 1 \in 1..(Len(ord) - 1) /\ i - 1 \in p..(Len(ord) - 1) /\ (i - 1) + 1 = i
      BY <1>1
    <3> QED BY <1>6, <1>8, <3>1
  <2> QED BY <2>1, <2>2
<1>10. MovedToFront(ord, k) = d
  BY <1>7
<1> HIDE DEF d
<1> QED
  BY <1>1, <1>8, <1>9, <1>10

(* PushFront, and the eviction                                              *)
Longer(d, S, ord, k) ==
    /\ d \in Seq(S) /\ Len(d) = Len(ord) + 1 /\ d[1] = k
    /\ \A i \in 1..Len(ord) : d[i + 1] = ord[i]
    /\ Front(d) \in Seq(S) /\ Len(Front(d)) = Len(ord)
    /\ \A i \in 1..Len(ord) : Front(d)[i] = d[i]

LEMMA Pushed ==
    ASSUME NEW S, NEW ord \in Seq(S), NEW k \in S
    PROVE  Longer(<<k>> \o ord, S, ord, k)
<1> DEFINE d == <<k>> \o ord
<1>1. /\ d \in Seq(S) /\ Len(d) = Len(ord) + 1 /\ d[1] = k
      /\ \A i \in 1..Len(ord) : d[i + 1] = ord[i]
  OBVIOUS
<1> HIDE DEF d
<1>2. Front(d) = SubSeq(d, 1, Len(ord))
  BY <1>1 DEF Front
<1>3. /\ Front(d) \in Seq(S) /\ Len(Front(d)) = Len(ord)
      /\ \A i \in 1..Len(ord) : Front(d)[i] = d[i]
  BY <1>1, <1>2
<1>4. Longer(d, S, ord, k)
  BY <1>1, <1>3 DEF Longer
<1> QED
  BY <1>4 DEF d

LEMMA LookedType ==
    ASSUME NEW S, NEW ord \in Seq(S), NEW k \in S
    PROVE  Looked(ord, k) \in Seq(S)
<1>1. CASE k \in ToSet(ord)
  <2>1. MovedToFront(ord, k) \in Seq(S)
    BY <1>1, Moved
  <2> QED BY <1>1, <2>1 DEF Looked
<1>2. CASE k \notin ToSet(ord)
  <2>1. <<k>> \o ord \in Seq(S) /\ Front(<<k>> \o ord) \in Seq(S)
    BY Pushed DEF Longer
  <2> QED BY <1>2, <2>1 DEF Looked
<1> QED
  BY <1>1, <1>2

(* What Deduplicate goes through, one element at a time.                    *)
AfterRun(g, in) ==
    /\ g \in [0..Cardinality(Reached(in)) -> Steps]
    /\ g[0] = [order |-> order, kept |-> <<>>]
    /\ \A i \in 1..Cardinality(Reached(in)) : g[i] = Look(g[i - 1], in[i])
    /\ After(in) = g[Cardinality(Reached(in))]

LEMMA LookType ==
    ASSUME NEW x \in Steps, NEW e \in Elems
    PROVE  Look(x, e) \in Steps
<1>1. x.order \in Seq(Keys) /\ x.kept \in Seq(Elems)
  BY DEF Steps
<1>2. Key[e] \in Keys
  BY DEF Keys
<1>3. Looked(x.order, Key[e]) \in Seq(Keys)
  BY <1>1, <1>2, LookedType
<1>4. Append(x.kept, e) \in Seq(Elems)
  BY <1>1
<1> QED
  BY <1>1, <1>3, <1>4 DEF Look, Steps

LEMMA AfterLoop ==
    ASSUME NEW in \in Seq(Elems), order \in Seq(Keys)
    PROVE  \E g : AfterRun(g, in)
<1>0. PICK n \in Nat : n = Cardinality(Reached(in)) /\ \A i \in 1..n : in[i] \in Elems
  <2>1. Cardinality(Reached(in)) \in 0..Len(in)
    BY ReachedFacts
  <2>2. \A i \in 1..Len(in) : in[i] \in Elems
    OBVIOUS
  <2> QED BY <2>1, <2>2
<1> DEFINE first == [order |-> order, kept |-> <<>>]
           F == [q \in Steps \X (1..n) |-> Look(q[1], in[q[2]])]
           Body(x) ==
             [i \in 0..n |->
                IF i = 0 THEN [order |-> order, kept |-> <<>>]
                ELSE LET k == Key[in[i]]
                     IN [order |-> Looked(x[i - 1].order, k),
                         kept |-> IF k \in ToSet(x[i - 1].order) THEN x[i - 1].kept
                                  ELSE Append(x[i - 1].kept, in[i])]]
<1>1. F \in Loops(n, Steps) /\ first \in Steps
  <2>1. first \in Steps
    BY DEF Steps
  <2> SUFFICES ASSUME NEW x \in Steps, NEW i \in 1..n PROVE Look(x, in[i]) \in Steps
    BY <2>1 DEF Loops
  <2> QED BY <1>0, LookType
<1>2. PICK g : /\ g \in [0..n -> Steps]
               /\ g[0] = first
               /\ \A i \in 1..n : g[i] = F[<<g[i - 1], i>>]
  <2> HIDE DEF F, first
  <2>1. Runs(n, Steps, first, F)
    BY <1>1, LoopRuns
  <2> QED BY <2>1 DEF Runs
<1>3. \A i \in 1..n : g[i] = Look(g[i - 1], in[i])
  <2> TAKE i \in 1..n
  <2>1. i - 1 \in 0..n
    OBVIOUS
  <2>2. g[i - 1] \in Steps
    BY <1>2, <2>1
  <2>3. F[<<g[i - 1], i>>] = Look(g[i - 1], in[i])
    BY <2>2
  <2> QED BY <1>2, <2>3
<1> HIDE DEF F
<1>4. g = Body(g)
  <2>1. ASSUME NEW i \in 0..n PROVE g[i] = Body(g)[i]
    <3>1. CASE i = 0
      BY <1>2, <3>1
    <3>2. CASE i # 0
      <4>1. i \in 1..n
        BY <3>2
      <4>2. Body(g)[i] = Look(g[i - 1], in[i])
        BY <3>2 DEF Look
      <4> QED BY <1>3, <4>1, <4>2
    <3> QED BY <3>1, <3>2
  <2>2. g = [i \in 0..n |-> g[i]] /\ Body(g) = [i \in 0..n |-> Body(g)[i]]
    BY <1>2
  <2> HIDE DEF Body
  <2> QED BY <2>1, <2>2
<1>5. PICK f : f = Body(f) /\ After(in) = f[n]
  <2> DEFINE h == CHOOSE x : x = Body(x)
  <2>1. After(in) = h[n]
    BY <1>0, Zenon DEF After
  <2> HIDE DEF Body
  <2>2. h = Body(h)
    BY <1>4
  <2> QED BY <2>1, <2>2
<1>6. f[0] = g[0]
  BY <1>2, <1>5
<1>7. \A i \in 1..n : f[i - 1] = g[i - 1] => f[i] = g[i]
  <2> SUFFICES ASSUME NEW i \in 1..n, f[i - 1] = g[i - 1] PROVE f[i] = g[i]
    OBVIOUS
  <2>1. i \in 0..n /\ i # 0
    OBVIOUS
  <2>2. Body(f)[i] = Body(g)[i]
    BY <2>1
  <2> HIDE DEF Body
  <2> QED BY <1>4, <1>5, <2>2
<1>8. f[n] = g[n]
  <2> HIDE DEF Body
  <2>1. \A i \in 0..n : f[i] = g[i]
    BY <1>6, <1>7, SameLoop
  <2> QED BY <2>1
<1> QED
  BY <1>0, <1>2, <1>3, <1>5, <1>8 DEF AfterRun

-----------------------------------------------------------------------------
(* What the stages make of the batches.                                     *)

LEMMA BatchFacts ==
    ASSUME NEW b \in DOMAIN Batches
    PROVE  /\ Batches[b] \in Seq(Elems)
           /\ Kept(Batches[b], ThenElems) \in Seq(Elems)
           /\ Given(b) \in Seq(Elems)
           /\ Len(Batches[b]) \in Nat
           /\ Len(Kept(Batches[b], ThenElems)) \in Nat
           /\ Len(Given(b)) \in Nat
           /\ Len(Kept(Batches[b], ThenElems)) + Len(Given(b)) = Len(Batches[b])
<1>1. Batches[b] \in Seq(Elems)
  BY ElemsAssumption
<1>2. /\ Kept(Batches[b], ThenElems) \in Seq(Elems)
      /\ Len(Kept(Batches[b], ThenElems)) + Len(Given(b)) = Len(Batches[b])
  BY <1>1, KeptFacts DEF Given
<1>3. Given(b) \in Seq(Elems)
  BY <1>1, KeptFacts DEF Given
<1> QED
  BY <1>1, <1>2, <1>3

LEMMA FilterFacts ==
    ASSUME NEW in \in Seq(Elems)
    PROVE  /\ Filter(in) = Returned(Filter(in).out, Filter(in).dropped)
           /\ Filter(in).out \in Seq(Elems)
           /\ Filter(in).out = Kept(in, Elems \ Rejected)
           /\ Filter(in).dropped \in Nat
           /\ Len(Filter(in).out) + Filter(in).dropped = Len(in)
<1> DEFINE kept == Kept(in, Elems \ Rejected)
<1>1. kept \in Seq(Elems) /\ Len(kept) <= Len(in)
  BY KeptFacts
<1>2. Filter(in) = Returned(kept, Len(in) - Len(kept))
  BY DEF Filter
<1> HIDE DEF kept
<1>3. Len(kept) \in Nat /\ Len(in) \in Nat
  BY <1>1
<1> QED
  BY <1>1, <1>2, <1>3 DEF Returned, kept

LEMMA AfterFacts ==
    ASSUME NEW in \in Seq(Elems), order \in Seq(Keys)
    PROVE  /\ After(in).order \in Seq(Keys)
           /\ After(in).kept \in Seq(Elems)
           /\ Len(After(in).kept) \in 0..Len(in)
<1>1. PICK g : AfterRun(g, in)
  BY AfterLoop
<1>2. PICK n \in Nat : n = Cardinality(Reached(in)) /\ n <= Len(in) /\ \A i \in 1..n : in[i] \in Elems
  <2>1. Cardinality(Reached(in)) \in 0..Len(in)
    BY ReachedFacts
  <2>2. \A i \in 1..Len(in) : in[i] \in Elems
    OBVIOUS
  <2> QED BY <2>1, <2>2
<1> DEFINE T == {i \in 0..n : Len(g[i].kept) <= i}
<1>3. 0 \in T
  BY <1>1 DEF AfterRun
<1>4. ASSUME NEW i \in 1..n, i - 1 \in T PROVE i \in T
  <2>1. PICK x \in Steps : x = g[i - 1] /\ g[i] = Look(x, in[i])
    BY <1>1, <1>2 DEF AfterRun
  <2>2. PICK m \in Nat : m = i - 1
    OBVIOUS
  <2>3. x.kept \in Seq(Elems) /\ Len(x.kept) <= m /\ in[i] \in Elems
    BY <1>2, <1>4, <2>1, <2>2 DEF Steps
  <2>4. Len(Append(x.kept, in[i])) <= m + 1 /\ Len(x.kept) <= m + 1
    BY <2>3
  <2>5. Look(x, in[i]).kept = x.kept \/ Look(x, in[i]).kept = Append(x.kept, in[i])
    BY DEF Look
  <2>6. i = m + 1
    BY <2>2
  <2> QED BY <2>1, <2>4, <2>5, <2>6
<1> HIDE DEF T
<1>5. 0..n \subseteq T
  BY <1>3, <1>4, UpTo
<1>6. n \in T
  BY <1>5
<1>7. g[n] \in Steps /\ After(in) = g[n]
  BY <1>1, <1>2 DEF AfterRun
<1>8. Len(After(in).kept) <= n
  BY <1>6, <1>7 DEF T
<1>9. After(in).order \in Seq(Keys) /\ After(in).kept \in Seq(Elems)
  BY <1>7 DEF Steps
<1>10. Len(After(in).kept) \in Nat /\ Len(in) \in Nat
  BY <1>9
<1> QED
  BY <1>2, <1>8, <1>9, <1>10

LEMMA DeduplicateFacts ==
    ASSUME NEW in \in Seq(Elems), order \in Seq(Keys)
    PROVE  \/ /\ Deduplicate(in) = Panic(in)
              /\ Cardinality(Reached(in)) < Len(in)
           \/ /\ Deduplicate(in) = Returned(After(in).kept, Len(in) - Len(After(in).kept))
              /\ Cardinality(Reached(in)) = Len(in)
<1>1. Cardinality(Reached(in)) \in 0..Len(in) /\ Len(in) \in Nat
  BY ReachedFacts
<1> QED
  BY <1>1 DEF Deduplicate

-----------------------------------------------------------------------------
(* The types.                                                               *)

Counts == [in : Nat, out : Nat, dropped : Nat, errs : Nat]
Results == [out : Seq(Elems), dropped : Nat, err : {FALSE}]

(* A batch in hand: the then-branch has filtered, or is through.            *)
Item(at, b, then) == [at |-> at, batch |-> b, then |-> then, els |-> Given(b)]
Filtered(b) == Filter(Kept(Batches[b], ThenElems))
InThen(x) ==
    \E b \in DOMAIN Batches : x = Item("lock", b, Filtered(b)) \/ x = Item("then", b, Filtered(b))
InElse(x) ==
    \E b \in DOMAIN Batches : \E then \in Results :
        /\ x = Item("else", b, then)
        /\ Len(then.out) + then.dropped = Len(Kept(Batches[b], ThenElems))
WorkOK(x) == x \in {Idle, Gone} \/ InThen(x) \/ InElse(x)

PoolTypes ==
    /\ cap \in Nat
    /\ waiting \subseteq DOMAIN Batches
    /\ work = [w \in Workers |-> work[w]]
    /\ \A w \in Workers : WorkOK(work[w])
    /\ order \in Seq(Keys)
    /\ log \in Seq(Keys)
    /\ stat \in Counts
    /\ DOMAIN passed \subseteq DOMAIN Batches
    /\ \A b \in DOMAIN passed : passed[b] \in Seq(Elems)
SinkTypes ==
    /\ pending \in Seq(Seq(Elems))
    /\ push \in Seq(Elems)
    /\ out \in Seq(Elems)
    /\ read \in Seq(Elems)
    /\ acc \in Seq(Elems)
    /\ sinkStat \in Counts
    /\ shed \in Nat
    /\ took \in Seq(Elems)
    /\ shedAt \subseteq Nat
    /\ gaveUp \subseteq Nat
Types == PoolTypes /\ SinkTypes

LEMMA FilteredOK ==
    ASSUME NEW b \in DOMAIN Batches
    PROVE  /\ Filtered(b) \in Results
           /\ Len(Filtered(b).out) + Filtered(b).dropped = Len(Kept(Batches[b], ThenElems))
<1>1. Kept(Batches[b], ThenElems) \in Seq(Elems)
  BY BatchFacts
<1>2. /\ Filtered(b) = Returned(Filtered(b).out, Filtered(b).dropped)
      /\ Filtered(b).out \in Seq(Elems)
      /\ Filtered(b).dropped \in Nat
      /\ Len(Filtered(b).out) + Filtered(b).dropped = Len(Kept(Batches[b], ThenElems))
  BY <1>1, FilterFacts DEF Filtered
<1>3. Filtered(b) \in Results
  <2> DEFINE o == Filtered(b).out
             d == Filtered(b).dropped
  <2>1. o \in Seq(Elems) /\ d \in Nat /\ Filtered(b) = Returned(o, d)
    BY <1>2
  <2> HIDE DEF o, d
  <2> QED BY <2>1 DEF Results, Returned
<1> QED
  BY <1>2, <1>3

(* What a worker holds when it takes the next step.                         *)
LEMMA Holds ==
    ASSUME PoolTypes, NEW w \in Workers
    PROVE  /\ work[w].at \in {"lock", "then"} =>
                \E b \in DOMAIN Batches : work[w] = Item(work[w].at, b, Filtered(b))
           /\ work[w].at = "else" => InElse(work[w])
           /\ work[w].at \in {"idle", "gone", "lock", "then", "else"}
<1>1. WorkOK(work[w])
  BY DEF PoolTypes
<1>2. CASE work[w] \in {Idle, Gone}
  BY <1>2 DEF Idle, Gone
<1>3. CASE InThen(work[w])
  <2>1. PICK b \in DOMAIN Batches :
           work[w] = Item("lock", b, Filtered(b)) \/ work[w] = Item("then", b, Filtered(b))
    BY <1>3 DEF InThen
  <2>2. CASE work[w] = Item("lock", b, Filtered(b))
    <3>1. work[w].at = "lock"
      BY <2>2 DEF Item
    <3> QED BY <2>2, <3>1
  <2>3. CASE work[w] = Item("then", b, Filtered(b))
    <3>1. work[w].at = "then"
      BY <2>3 DEF Item
    <3> QED BY <2>3, <3>1
  <2> QED BY <2>1, <2>2, <2>3
<1>4. CASE InElse(work[w])
  <2>1. work[w].at = "else"
    BY <1>4 DEF InElse, Item
  <2> QED BY <1>4, <2>1
<1> QED
  BY <1>1, <1>2, <1>3, <1>4 DEF WorkOK

LEMMA InitTypes == Init => Types
<1> SUFFICES ASSUME Init PROVE Types
  OBVIOUS
<1> USE DEF Init
<1>1. cap \in Nat
  BY CapsAssumption
<1>2. \A w \in Workers : work[w] = Idle
  OBVIOUS
<1>3. work = [w \in Workers |-> work[w]]
  OBVIOUS
<1>4. stat \in Counts /\ sinkStat \in Counts
  BY DEF NoCounts, Counts
<1>5. DOMAIN passed = {}
  OBVIOUS
<1>6. PoolTypes
  BY <1>1, <1>2, <1>3, <1>4, <1>5 DEF PoolTypes, WorkOK
<1>7. SinkTypes
  BY <1>4 DEF SinkTypes
<1> QED
  BY <1>6, <1>7 DEF Types

(* What a step of a worker does to the work of all of them.                 *)
LEMMA WorkStep ==
    ASSUME PoolTypes, NEW w \in Workers, NEW x, work' = [work EXCEPT ![w] = x]
    PROVE  /\ work' = [v \in Workers |-> work'[v]]
           /\ work'[w] = x
           /\ \A v \in Workers : v # w => work'[v] = work[v]
  BY DEF PoolTypes

LEMMA ReceiveTypes ==
    ASSUME PoolTypes, NEW w \in Workers, Receive(w)
    PROVE  PoolTypes'
<1>1. PICK b \in waiting :
         /\ waiting' = waiting \ {b}
         /\ work' = [work EXCEPT ![w] = Item("lock", b, Filtered(b))]
  BY DEF Receive, Item, Filtered, Given
<1>2. b \in DOMAIN Batches
  BY DEF PoolTypes
<1>3. WorkOK(Item("lock", b, Filtered(b)))
  BY <1>2 DEF WorkOK, InThen
<1>4. /\ work' = [v \in Workers |-> work'[v]]
      /\ \A v \in Workers : WorkOK(work'[v])
  <2>1. /\ work' = [v \in Workers |-> work'[v]]
        /\ work'[w] = Item("lock", b, Filtered(b))
        /\ \A v \in Workers : v # w => work'[v] = work[v]
    BY <1>1, WorkStep
  <2>2. \A v \in Workers : WorkOK(work[v])
    BY DEF PoolTypes
  <2> QED BY <1>3, <2>1, <2>2
<1> QED
  BY <1>1, <1>4 DEF PoolTypes, Receive

(* Lock changes nothing of an item but where it is.                         *)
LEMMA LockStep ==
    ASSUME PoolTypes, NEW w \in Workers, Lock(w)
    PROVE  \E b \in DOMAIN Batches :
              /\ work[w] = Item("lock", b, Filtered(b))
              /\ work' = [work EXCEPT ![w] = Item("then", b, Filtered(b))]
<1>1. PICK b \in DOMAIN Batches : work[w] = Item("lock", b, Filtered(b))
  BY Holds DEF Lock
<1>2. work' = [work EXCEPT ![w] = [work[w] EXCEPT !.at = "then"]]
  BY DEF Lock
<1>3. [Item("lock", b, Filtered(b)) EXCEPT !.at = "then"] = Item("then", b, Filtered(b))
  BY DEF Item
<1> QED
  BY <1>1, <1>2, <1>3

LEMMA LockTypes ==
    ASSUME PoolTypes, NEW w \in Workers, Lock(w)
    PROVE  PoolTypes'
<1>1. PICK b \in DOMAIN Batches : work' = [work EXCEPT ![w] = Item("then", b, Filtered(b))]
  BY LockStep
<1>2. WorkOK(Item("then", b, Filtered(b)))
  BY <1>1 DEF WorkOK, InThen
<1>3. /\ work' = [v \in Workers |-> work'[v]]
      /\ \A v \in Workers : WorkOK(work'[v])
  <2>1. /\ work' = [v \in Workers |-> work'[v]]
        /\ work'[w] = Item("then", b, Filtered(b))
        /\ \A v \in Workers : v # w => work'[v] = work[v]
    BY <1>1, WorkStep
  <2>2. \A v \in Workers : WorkOK(work[v])
    BY DEF PoolTypes
  <2> QED BY <1>2, <2>1, <2>2
<1> QED
  BY <1>3 DEF PoolTypes, Lock

(* EXCEPT, on what a stage returns and on an item.                          *)
LEMMA ReturnedMore ==
    ASSUME NEW o, NEW m, NEW n
    PROVE  [Returned(o, m) EXCEPT !.dropped = @ + n] = Returned(o, m + n)
<1> DEFINE S == {"out", "dropped", "err"}
           p == [Returned(o, m) EXCEPT !.dropped = @ + n]
           q == Returned(o, m + n)
<1>1. p["out"] = q["out"] /\ p["dropped"] = q["dropped"] /\ p["err"] = q["err"]
  BY DEF Returned
<1>2. p = [x \in S |-> p[x]] /\ q = [x \in S |-> q[x]]
  BY DEF Returned
<1> HIDE DEF p, q
<1>3. p = q
  BY <1>1, <1>2
<1> QED
  BY <1>3 DEF p, q

LEMMA ItemGoesOn ==
    ASSUME NEW b, NEW f, NEW r
    PROVE  [Item("then", b, f) EXCEPT !.at = "else", !.then = r] = Item("else", b, r)
<1> DEFINE S == {"at", "batch", "then", "els"}
           p == [Item("then", b, f) EXCEPT !.at = "else", !.then = r]
           q == Item("else", b, r)
<1>1. /\ p["at"] = q["at"] /\ p["batch"] = q["batch"]
      /\ p["then"] = q["then"] /\ p["els"] = q["els"]
  BY DEF Item
<1>2. p = [x \in S |-> p[x]] /\ q = [x \in S |-> q[x]]
  BY DEF Item
<1> HIDE DEF p, q
<1>3. p = q
  BY <1>1, <1>2
<1> QED
  BY <1>3 DEF p, q

(* Then: the batch fails, all that was left of it dropped; or it goes on    *)
(* with what the stage has kept.                                            *)
Fails(w, b) ==
    /\ work' = [work EXCEPT ![w] = Idle]
    /\ stat' = [in |-> stat.in + Len(Batches[b]), out |-> stat.out,
                dropped |-> stat.dropped + Len(Kept(Batches[b], ThenElems)),
                errs |-> stat.errs + 1]
    /\ Cardinality(Reached(Filtered(b).out)) < Len(Filtered(b).out)
GoesOn(w, b, then) ==
    /\ then \in Results
    /\ then.out = After(Filtered(b).out).kept
    /\ Len(then.out) + then.dropped = Len(Kept(Batches[b], ThenElems))
    /\ work' = [work EXCEPT ![w] = Item("else", b, then)]
    /\ stat' = stat
    /\ Cardinality(Reached(Filtered(b).out)) = Len(Filtered(b).out)

LEMMA ThenStep ==
    ASSUME PoolTypes, NEW w \in Workers, Then(w)
    PROVE  \E b \in DOMAIN Batches :
              /\ work[w] = Item("then", b, Filtered(b))
              /\ order' = After(Filtered(b).out).order
              /\ log' = log \o [i \in Reached(Filtered(b).out) |-> Key[Filtered(b).out[i]]]
              /\ Fails(w, b) \/ \E then : GoesOn(w, b, then)
<1>1. PICK b \in DOMAIN Batches : work[w] = Item("then", b, Filtered(b))
  BY Holds DEF Then
<1> DEFINE f == Filtered(b)
           d == Deduplicate(f.out)
           r == Threaded(f, d)
<1>2. work[w].then = f /\ work[w].batch = b
  BY <1>1 DEF Item
<1>3. /\ order' = After(f.out).order
      /\ log' = log \o [i \in Reached(f.out) |-> Key[f.out[i]]]
      /\ r.err => work' = [work EXCEPT ![w] = Idle] /\ Count(b, <<>>, r.dropped, 1)
      /\ ~r.err => /\ work' = [work EXCEPT ![w].at = "else", ![w].then = r]
                   /\ stat' = stat
  BY <1>2 DEF Then
<1>4. /\ f \in Results
      /\ Len(f.out) + f.dropped = Len(Kept(Batches[b], ThenElems))
  BY FilteredOK
<1>5. f.out \in Seq(Elems) /\ f.dropped \in Nat /\ f.err = FALSE
  BY <1>4 DEF Results
<1>6. order \in Seq(Keys)
  BY DEF PoolTypes
<1>7. /\ After(f.out).kept \in Seq(Elems)
      /\ Len(After(f.out).kept) \in 0..Len(f.out)
  BY <1>5, <1>6, AfterFacts
<1>8. r = [d EXCEPT !.dropped = @ + f.dropped]
  BY <1>5 DEF Threaded
<1> HIDE DEF f, r
<1>9. Len(f.out) \in Nat /\ Len(<<>>) = 0 /\ stat \in Counts
  BY <1>5 DEF PoolTypes
<1>10. CASE /\ d = Panic(f.out)
            /\ Cardinality(Reached(f.out)) < Len(f.out)
  <2>1. r.err = TRUE /\ r.dropped = Len(f.out) + f.dropped
    BY <1>8, <1>10 DEF Panic
  <2>2. stat.out + 0 = stat.out
    BY <1>9 DEF Counts
  <2>3. Fails(w, b)
    BY <1>3, <1>4, <1>5, <1>9, <1>10, <2>1, <2>2 DEF Fails, Count, f
  <2> QED BY <1>1, <1>3, <2>3 DEF f
<1>11. CASE /\ d = Returned(After(f.out).kept, Len(f.out) - Len(After(f.out).kept))
            /\ Cardinality(Reached(f.out)) = Len(f.out)
  <2> DEFINE k == After(f.out).kept
  <2>1. r = Returned(k, (Len(f.out) - Len(k)) + f.dropped)
    <3>1. \A m, n : [Returned(k, m) EXCEPT !.dropped = @ + n] = Returned(k, m + n)
      BY ReturnedMore
    <3> QED BY <1>8, <1>11, <3>1
  <2> HIDE DEF k
  <2>2. k \in Seq(Elems) /\ Len(k) \in Nat /\ Len(k) <= Len(f.out)
    BY <1>7 DEF k
  <2>3. (Len(f.out) - Len(k)) + f.dropped \in Nat
    BY <1>5, <1>9, <2>2
  <2>4. /\ r \in Results /\ r.out = k /\ r.err = FALSE
        /\ r.dropped = (Len(f.out) - Len(k)) + f.dropped
    BY <2>1, <2>2, <2>3 DEF Results, Returned
  <2>5. Len(r.out) + r.dropped = Len(Kept(Batches[b], ThenElems))
    BY <1>4, <1>5, <1>9, <2>2, <2>4
  <2>6. work' = [work EXCEPT ![w] = [work[w] EXCEPT !.at = "else", !.then = r]]
    BY <1>3, <2>4 DEF PoolTypes
  <2>7. [Item("then", b, f) EXCEPT !.at = "else", !.then = r] = Item("else", b, r)
    BY ItemGoesOn
  <2>8. GoesOn(w, b, r)
    BY <1>1, <1>3, <1>11, <2>4, <2>5, <2>6, <2>7 DEF GoesOn, k, f
  <2> QED BY <1>1, <1>3, <2>8 DEF f
<1>12. \/ /\ d = Panic(f.out)
          /\ Cardinality(Reached(f.out)) < Len(f.out)
       \/ /\ d = Returned(After(f.out).kept, Len(f.out) - Len(After(f.out).kept))
          /\ Cardinality(Reached(f.out)) = Len(f.out)
  BY <1>5, <1>6, DeduplicateFacts
<1> QED
  BY <1>10, <1>11, <1>12

LEMMA ThenTypes ==
    ASSUME PoolTypes, NEW w \in Workers, Then(w)
    PROVE  PoolTypes'
<1>1. PICK b \in DOMAIN Batches :
         /\ order' = After(Filtered(b).out).order
         /\ log' = log \o [i \in Reached(Filtered(b).out) |-> Key[Filtered(b).out[i]]]
         /\ Fails(w, b) \/ \E then : GoesOn(w, b, then)
  BY ThenStep
<1> DEFINE in == Filtered(b).out
<1>2. in \in Seq(Elems) /\ order \in Seq(Keys) /\ log \in Seq(Keys)
  BY FilteredOK DEF Results, PoolTypes
<1>3. order' \in Seq(Keys)
  BY <1>1, <1>2, AfterFacts
<1>4. log' \in Seq(Keys)
  <2>1. PICK r \in 0..Len(in) : Reached(in) = 1..r
    BY <1>2, ReachedFacts
  <2> HIDE DEF in
  <2>2. \A i \in 1..r : Key[in[i]] \in Keys
    BY <1>2 DEF Keys
  <2>3. [i \in 1..r |-> Key[in[i]]] \in Seq(Keys)
    BY <1>2, <2>2
  <2> QED BY <1>1, <1>2, <2>1, <2>3 DEF in
<1>5. Len(Batches[b]) \in Nat /\ Len(Kept(Batches[b], ThenElems)) \in Nat
  BY BatchFacts
<1>6. /\ stat' \in Counts
      /\ work' = [v \in Workers |-> work'[v]]
      /\ \A v \in Workers : WorkOK(work'[v])
  <2>1. CASE Fails(w, b)
    <3>1. stat' \in Counts
      BY <1>5, <2>1 DEF Fails, Counts, PoolTypes
    <3>2. /\ work' = [v \in Workers |-> work'[v]]
          /\ work'[w] = Idle
          /\ \A v \in Workers : v # w => work'[v] = work[v]
      BY <2>1, WorkStep DEF Fails
    <3>3. \A v \in Workers : WorkOK(work[v])
      BY DEF PoolTypes
    <3>4. WorkOK(Idle)
      BY DEF WorkOK
    <3> QED BY <3>1, <3>2, <3>3, <3>4
  <2>2. CASE \E then : GoesOn(w, b, then)
    <3>1. PICK then : GoesOn(w, b, then)
      BY <2>2
    <3>2. /\ work' = [v \in Workers |-> work'[v]]
          /\ work'[w] = Item("else", b, then)
          /\ \A v \in Workers : v # w => work'[v] = work[v]
      BY <3>1, WorkStep DEF GoesOn
    <3>3. \A v \in Workers : WorkOK(work[v])
      BY DEF PoolTypes
    <3>4. WorkOK(Item("else", b, then))
      BY <3>1 DEF WorkOK, InElse, GoesOn
    <3>5. stat' \in Counts
      BY <3>1 DEF GoesOn, PoolTypes
    <3> QED BY <3>2, <3>3, <3>4, <3>5
  <2> QED BY <1>1, <2>1, <2>2
<1> QED
  BY <1>3, <1>4, <1>6 DEF PoolTypes, Then

(* Else: the else-branch fails and the then-branch's output is lost; or the *)
(* batch comes through.                                                     *)
LosesBoth(w, b, then) ==
    /\ stat' = [in |-> stat.in + Len(Batches[b]), out |-> stat.out,
                dropped |-> stat.dropped + (then.dropped + Len(Given(b))),
                errs |-> stat.errs + 1]
    /\ pending' = pending
    /\ passed' = passed
ComesThrough(w, b, then) ==
    /\ stat' = [in |-> stat.in + Len(Batches[b]),
                out |-> stat.out + (Len(then.out) + Len(Made(b))),
                dropped |-> stat.dropped + then.dropped, errs |-> stat.errs]
    /\ pending' = pending \/ pending' = Append(pending, then.out \o Made(b))
    /\ passed' = [c \in DOMAIN passed \union {b} |-> IF c = b THEN then.out ELSE passed[c]]

LEMMA ElseStep ==
    ASSUME PoolTypes, NEW w \in Workers, Else(w)
    PROVE  \E b \in DOMAIN Batches : \E then \in Results :
              /\ work[w] = Item("else", b, then)
              /\ Len(then.out) + then.dropped = Len(Kept(Batches[b], ThenElems))
              /\ \E x \in {Idle, Gone} : work' = [work EXCEPT ![w] = x]
              /\ LosesBoth(w, b, then) \/ ComesThrough(w, b, then)
<1>1. PICK b \in DOMAIN Batches : \E then \in Results :
         /\ work[w] = Item("else", b, then)
         /\ Len(then.out) + then.dropped = Len(Kept(Batches[b], ThenElems))
  BY Holds DEF Else, InElse
<1>2. PICK then \in Results :
         /\ work[w] = Item("else", b, then)
         /\ Len(then.out) + then.dropped = Len(Kept(Batches[b], ThenElems))
  BY <1>1
<1> DEFINE m == Map(Given(b))
           els == Threaded(m, Generate(m.out))
           o == IF els.err THEN <<>> ELSE then.out \o els.out
<1>3. work[w].then = then /\ work[w].batch = b /\ work[w].els = Given(b)
  BY <1>2 DEF Item
<1>4. /\ Count(b, o, then.dropped + els.dropped, IF els.err THEN 1 ELSE 0)
      /\ \/ pending' = IF o = <<>> THEN pending ELSE Append(pending, o)
         \/ pending' = pending
      /\ passed' = IF els.err THEN passed
                   ELSE [c \in DOMAIN passed \union {b} |-> IF c = b THEN then.out ELSE passed[c]]
      /\ \E x \in {Idle, Gone} : work' = [work EXCEPT ![w] = x]
  BY <1>3 DEF Else, Dropped
<1>5. Given(b) \in Seq(Elems) /\ Len(Given(b)) \in Nat
  BY BatchFacts
<1>6. then.out \in Seq(Elems) /\ then.dropped \in Nat
  BY DEF Results
<1>7. stat \in Counts
  BY DEF PoolTypes
<1>8. m = Panic(Given(b)) \/ m = Returned(Given(b), 0)
  BY DEF Map
<1>9. CASE m = Panic(Given(b))
  <2>1. els = Panic(Given(b))
    BY <1>9 DEF Threaded, Panic
  <2> HIDE DEF els
  <2>2. els.err = TRUE /\ els.dropped = Len(Given(b))
    BY <2>1 DEF Panic
  <2>3. o = <<>> /\ Len(<<>>) = 0
    BY <2>2
  <2>4. stat.out + Len(<<>>) = stat.out
    BY <1>7 DEF Counts
  <2> HIDE DEF o
  <2>5. stat' = [in |-> stat.in + Len(Batches[b]), out |-> stat.out,
                 dropped |-> stat.dropped + (then.dropped + Len(Given(b))),
                 errs |-> stat.errs + 1]
    BY <1>4, <2>2, <2>3, <2>4 DEF Count
  <2>6. LosesBoth(w, b, then)
    BY <1>4, <2>2, <2>3, <2>5 DEF LosesBoth
  <2> QED BY <1>2, <1>4, <2>6
<1>10. CASE m = Returned(Given(b), 0)
  <2>1. m.out = Given(b) /\ m.err = FALSE /\ m.dropped = 0
    BY <1>10 DEF Returned
  <2>2. /\ Generate(Given(b)) = Returned(Made(b), 0)
        /\ Made(b) \in Seq(Elems)
    BY <1>5, GenerateFacts DEF Made
  <2>3. els = [Returned(Made(b), 0) EXCEPT !.dropped = @ + 0]
    BY <2>1, <2>2 DEF Threaded
  <2>4. els = Returned(Made(b), 0 + 0)
    BY <2>3, ReturnedMore
  <2> HIDE DEF els, m
  <2>5. els.err = FALSE /\ els.dropped = 0 /\ els.out = Made(b)
    BY <2>4 DEF Returned
  <2>6. o = then.out \o Made(b)
    BY <2>5
  <2>7. Len(o) = Len(then.out) + Len(Made(b))
    BY <1>6, <2>2, <2>6, Joined
  <2> HIDE DEF o
  <2>8. /\ stat.errs + 0 = stat.errs
        /\ then.dropped + 0 = then.dropped
    BY <1>6, <1>7 DEF Counts
  <2>9. stat' = [in |-> stat.in + Len(Batches[b]),
                 out |-> stat.out + (Len(then.out) + Len(Made(b))),
                 dropped |-> stat.dropped + then.dropped, errs |-> stat.errs]
    BY <1>4, <2>5, <2>7, <2>8 DEF Count
  <2>10. ComesThrough(w, b, then)
    BY <1>4, <2>5, <2>6, <2>9 DEF ComesThrough
  <2> QED BY <1>2, <1>4, <2>10
<1> QED
  BY <1>8, <1>9, <1>10

LEMMA ElseTypes ==
    ASSUME Types, NEW w \in Workers, Else(w)
    PROVE  PoolTypes' /\ pending' \in Seq(Seq(Elems))
<1>0. PoolTypes
  BY DEF Types
<1>1. PICK b \in DOMAIN Batches : \E then \in Results :
         /\ \E x \in {Idle, Gone} : work' = [work EXCEPT ![w] = x]
         /\ LosesBoth(w, b, then) \/ ComesThrough(w, b, then)
  BY <1>0, ElseStep
<1>2. PICK then \in Results :
         /\ \E x \in {Idle, Gone} : work' = [work EXCEPT ![w] = x]
         /\ LosesBoth(w, b, then) \/ ComesThrough(w, b, then)
  BY <1>1
<1>3. /\ work' = [v \in Workers |-> work'[v]]
      /\ \A v \in Workers : WorkOK(work'[v])
  <2>0. PICK x \in {Idle, Gone} : work' = [work EXCEPT ![w] = x]
    BY <1>2
  <2>1. /\ work' = [v \in Workers |-> work'[v]]
        /\ work'[w] = x
        /\ \A v \in Workers : v # w => work'[v] = work[v]
    BY <1>0, <2>0, WorkStep
  <2>2. \A v \in Workers : WorkOK(work[v])
    BY DEF PoolTypes, Types
  <2> QED BY <2>1, <2>2 DEF WorkOK
<1>4. /\ Len(Batches[b]) \in Nat /\ Len(Given(b)) \in Nat /\ Given(b) \in Seq(Elems)
      /\ then.out \in Seq(Elems) /\ then.dropped \in Nat /\ Len(then.out) \in Nat
  BY BatchFacts DEF Results
<1>5. Made(b) \in Seq(Elems) /\ Len(Made(b)) \in Nat
  <2>1. Made(b) \in Seq(Elems)
    BY <1>4, GenerateFacts DEF Made
  <2> QED BY <2>1
<1>6. then.out \o Made(b) \in Seq(Elems)
  BY <1>4, <1>5
<1>7. stat.in \in Nat /\ stat.out \in Nat /\ stat.dropped \in Nat /\ stat.errs \in Nat
  BY <1>0 DEF PoolTypes, Counts
<1>8. CASE LosesBoth(w, b, then)
  <2>1. stat' \in Counts
    <3>1. stat' = [in |-> stat.in + Len(Batches[b]), out |-> stat.out,
                   dropped |-> stat.dropped + (then.dropped + Len(Given(b))),
                   errs |-> stat.errs + 1]
      BY <1>8 DEF LosesBoth
    <3> QED BY <1>4, <1>7, <3>1 DEF Counts
  <2> QED
    BY <1>0, <1>3, <1>8, <2>1 DEF LosesBoth, PoolTypes, Else, Types, SinkTypes
<1>9. CASE ComesThrough(w, b, then)
  <2>1. stat' \in Counts
    <3>1. stat' = [in |-> stat.in + Len(Batches[b]),
                   out |-> stat.out + (Len(then.out) + Len(Made(b))),
                   dropped |-> stat.dropped + then.dropped, errs |-> stat.errs]
      BY <1>9 DEF ComesThrough
    <3>2. /\ stat.in + Len(Batches[b]) \in Nat
          /\ stat.out + (Len(then.out) + Len(Made(b))) \in Nat
          /\ stat.dropped + then.dropped \in Nat
      <4>1. ASSUME NEW i \in Nat, NEW j \in Nat PROVE i + j \in Nat
        OBVIOUS
      <4>2. Len(then.out) + Len(Made(b)) \in Nat
        BY <1>4, <1>5, <4>1
      <4>3. stat.out + (Len(then.out) + Len(Made(b))) \in Nat
        BY <1>7, <4>1, <4>2
      <4> QED BY <1>4, <1>7, <4>1, <4>3
    <3> QED BY <1>7, <3>1, <3>2 DEF Counts
  <2>2. pending' \in Seq(Seq(Elems))
    <3>1. pending' = pending \/ pending' = Append(pending, then.out \o Made(b))
      BY <1>9 DEF ComesThrough
    <3>2. pending \in Seq(Seq(Elems))
      BY DEF Types, SinkTypes
    <3>3. Append(pending, then.out \o Made(b)) \in Seq(Seq(Elems))
      BY <1>6, <3>2, AppendType
    <3> QED BY <3>1, <3>2, <3>3
  <2>3. /\ DOMAIN passed' \subseteq DOMAIN Batches
        /\ \A c \in DOMAIN passed' : passed'[c] \in Seq(Elems)
    BY <1>0, <1>4, <1>9 DEF ComesThrough, PoolTypes
  <2> QED
    BY <1>0, <1>3, <2>1, <2>2, <2>3 DEF PoolTypes, Else
<1> QED
  BY <1>2, <1>8, <1>9

LEMMA PoolSame ==
    ASSUME PoolTypes, UNCHANGED <<cap, poolVars>>
    PROVE  PoolTypes'
<1>1. /\ cap' = cap /\ waiting' = waiting /\ work' = work /\ order' = order
      /\ stat' = stat /\ log' = log /\ passed' = passed
  BY DEF poolVars
<1> QED
  BY <1>1 DEF PoolTypes

LEMMA HeadTail ==
    ASSUME NEW S, NEW s \in Seq(S), s # <<>>
    PROVE  /\ Head(s) \in S
           /\ Tail(s) \in Seq(S)
           /\ Len(s) \in Nat \ {0}
           /\ Len(Tail(s)) = Len(s) - 1
           /\ s = <<Head(s)>> \o Tail(s)
  OBVIOUS

(* What the sink has put out, and that a sequence is another one, t, taken  *)
(* in order at the positions S.                                             *)
There == acc \o read \o out
RankIn(S, i) == Cardinality({k \in S : k <= i})
InOrder(d, S, t) ==
    /\ Len(d) = Cardinality(S)
    /\ \A i \in S : d[RankIn(S, i)] = t[i]

Order == InOrder(There, Forwarded, took)
Positions ==
    /\ Handled \in Nat
    /\ \A j \in 1..Len(push) : push[j] = took[Handled + j]
    /\ shedAt \subseteq 1..Handled
    /\ gaveUp \subseteq 1..Handled
    /\ shedAt \intersect gaveUp = {}
SinkCounts ==
    /\ sinkStat.in = Len(took)
    /\ sinkStat.out = Len(took) - Cardinality(shedAt)
    /\ sinkStat.dropped = Cardinality(shedAt)
    /\ shed = Cardinality(shedAt)
    /\ shedAt # {} => sink = "drop"
    /\ gaveUp # {} => cancelled /\ sinkStat.errs > 0
Kinds ==
    /\ sink = "reduce" => /\ acc = took
                          /\ read = <<>> /\ out = <<>> /\ push = <<>>
                          /\ shedAt = {} /\ gaveUp = {}
    /\ sink # "reduce" => acc = <<>>
SinkBooks == Order /\ Positions /\ SinkCounts /\ Kinds
SinkInv == SinkTypes /\ SinkBooks

LEMMA UpToFinite ==
    ASSUME NEW n \in Nat, NEW S \in SUBSET (1..n)
    PROVE  /\ IsFiniteSet(S)
           /\ Cardinality(S) \in Nat
           /\ Cardinality(S) <= n
<1>1. IsFiniteSet(1..n) /\ Cardinality(1..n) = n
  <2>1. /\ IsFiniteSet(1..n)
        /\ Cardinality(1..n) = IF 1 > n THEN 0 ELSE n - 1 + 1
    BY FS_Interval
  <2> QED BY <2>1
<1>2. IsFiniteSet(S) /\ Cardinality(S) <= Cardinality(1..n)
  BY <1>1, FS_Subset
<1> QED
  BY <1>1, <1>2, FS_CardinalityType

LEMMA UpToCard ==
    ASSUME NEW n \in Nat
    PROVE  Cardinality(1..n) = n
<1>1. Cardinality(1..n) = IF 1 > n THEN 0 ELSE n - 1 + 1
  BY FS_Interval
<1> QED
  BY <1>1

(* The whole of a sequence, in order.                                       *)
LEMMA AllInOrder ==
    ASSUME NEW t \in Seq(Elems)
    PROVE  InOrder(t, 1..Len(t), t)
<1>1. PICK n \in Nat : n = Len(t)
  OBVIOUS
<1>2. ASSUME NEW i \in 1..n PROVE RankIn(1..n, i) = i
  <2>1. {k \in 1..n : k <= i} = 1..i
    OBVIOUS
  <2>2. i \in Nat
    OBVIOUS
  <2>3. Cardinality(1..i) = i
    BY <2>2, UpToCard
  <2> QED BY <2>1, <2>3, Zenon DEF RankIn
<1>3. Cardinality(1..n) = n
  BY UpToCard
<1> QED
  BY <1>1, <1>2, <1>3 DEF InOrder

(* One more element, from a later position.                                 *)
LEMMA AppendInOrder ==
    ASSUME NEW t \in Seq(Elems), NEW d \in Seq(Elems), NEW h \in Nat, NEW S \in SUBSET (1..h),
           InOrder(d, S, t), t[h + 1] \in Elems
    PROVE  InOrder(Append(d, t[h + 1]), S \union {h + 1}, t)
<1> DEFINE p == h + 1
           T == S \union {p}
           e == t[p]
<1>1. IsFiniteSet(S) /\ Cardinality(S) \in Nat
  BY UpToFinite
<1>2. p \notin S /\ \A i \in S : i \in Nat /\ i < p
  OBVIOUS
<1>3. Cardinality(T) = Cardinality(S) + 1
  BY <1>1, <1>2, FS_AddElement
<1>4. PICK m \in Nat : m = Cardinality(S) /\ m = Len(d)
  BY <1>1 DEF InOrder
<1>5. /\ Len(Append(d, e)) = m + 1
      /\ Append(d, e)[m + 1] = e
      /\ \A j \in 1..m : Append(d, e)[j] = d[j]
  BY <1>4
<1>6. RankIn(T, p) = m + 1
  <2>0. \A k \in T : k <= p
    BY <1>2
  <2>1. {k \in T : k <= p} = T
    <3> HIDE DEF T, p
    <3> QED BY <2>0, Zenon
  <2>2. Cardinality(T) = m + 1
    BY <1>3, <1>4
  <2> HIDE DEF T, p
  <2> QED BY <2>1, <2>2, Zenon DEF RankIn
<1>7. ASSUME NEW i \in S PROVE RankIn(T, i) = RankIn(S, i) /\ RankIn(S, i) \in 1..m
  <2> DEFINE K == {k \in S : k <= i}
  <2>1. {k \in T : k <= i} = K
    BY <1>2
  <2>2. IsFiniteSet(K) /\ Cardinality(K) <= m /\ Cardinality(K) \in Nat
    <3>1. IsFiniteSet(K) /\ Cardinality(K) <= Cardinality(S)
      BY <1>1, FS_Subset
    <3> QED BY <1>4, <3>1, FS_CardinalityType
  <2>3. Cardinality(K) # 0
    <3>1. i \in K
      OBVIOUS
    <3> HIDE DEF K
    <3> QED BY <2>2, <3>1, FS_EmptySet
  <2>4. RankIn(T, i) = Cardinality(K) /\ RankIn(S, i) = Cardinality(K)
    <3> HIDE DEF T
    <3> QED BY <2>1, Zenon DEF RankIn
  <2>5. \A c \in Nat : c <= m /\ c # 0 => c \in 1..m
    OBVIOUS
  <2> HIDE DEF K
  <2> QED BY <2>2, <2>3, <2>4, <2>5
<1>8. \A i \in S : Append(d, e)[RankIn(T, i)] = t[i]
  BY <1>5, <1>7 DEF InOrder
<1> QED
  BY <1>3, <1>4, <1>5, <1>6, <1>8 DEF InOrder

(* More to take from, at the end.                                           *)
LEMMA LongerInOrder ==
    ASSUME NEW t \in Seq(Elems), NEW b \in Seq(Elems), NEW d, NEW S \in SUBSET (1..Len(t)),
           InOrder(d, S, t)
    PROVE  InOrder(d, S, t \o b)
<1>1. \A i \in 1..Len(t) : (t \o b)[i] = t[i]
  OBVIOUS
<1> QED
  BY <1>1 DEF InOrder

LEMMA SinkFacts ==
    ASSUME SinkInv
    PROVE  /\ Len(took) \in Nat /\ Len(push) \in Nat /\ Handled \in Nat
           /\ Handled + Len(push) = Len(took)
           /\ There \in Seq(Elems)
           /\ Forwarded \in SUBSET (1..Handled)
           /\ IsFiniteSet(shedAt) /\ Cardinality(shedAt) \in Nat /\ Cardinality(shedAt) <= Handled
           /\ sinkStat.in \in Nat /\ sinkStat.out \in Nat
           /\ sinkStat.dropped \in Nat /\ sinkStat.errs \in Nat
<1>1. Len(took) \in Nat /\ Len(push) \in Nat
  BY DEF SinkInv, SinkTypes
<1>2. Handled \in Nat /\ shedAt \in SUBSET (1..Handled)
  BY DEF SinkInv, SinkBooks, Positions
<1>3. Handled + Len(push) = Len(took)
  BY <1>1 DEF Handled
<1>4. There \in Seq(Elems)
  BY DEF SinkInv, SinkTypes, There
<1>5. Forwarded \in SUBSET (1..Handled)
  BY DEF Forwarded
<1>6. IsFiniteSet(shedAt) /\ Cardinality(shedAt) \in Nat /\ Cardinality(shedAt) <= Handled
  BY <1>2, UpToFinite
<1>7. /\ sinkStat.in \in Nat /\ sinkStat.out \in Nat
      /\ sinkStat.dropped \in Nat /\ sinkStat.errs \in Nat
  BY DEF SinkInv, SinkTypes, Counts
<1> QED
  BY <1>1, <1>2, <1>3, <1>4, <1>5, <1>6, <1>7

(* Consume of a batch: it is taken, and counted as if nothing were dropped. *)
LEMMA TakesBatch ==
    ASSUME SinkInv, NEW b \in Seq(Elems), took' = took \o b, Tally(Len(b), Len(b), 0, 0),
           UNCHANGED <<sink, shed, shedAt, gaveUp, cancelled>>
    PROVE  /\ took' \in Seq(Elems) /\ Len(took') = Len(took) + Len(b)
           /\ sinkStat' \in Counts
           /\ SinkCounts'
<1>1. took \in Seq(Elems)
  BY DEF SinkInv, SinkTypes
<1>2. PICK n \in Nat : n = Len(b)
  OBVIOUS
<1>3. took' \in Seq(Elems) /\ Len(took') = Len(took) + n
  BY <1>1, <1>2, Joined
<1>4. sinkStat' = [in |-> sinkStat.in + n, out |-> sinkStat.out + n,
                   dropped |-> sinkStat.dropped + 0, errs |-> sinkStat.errs + 0]
  BY <1>2 DEF Tally
<1>5. /\ sinkStat' \in Counts
      /\ sinkStat'.in = sinkStat.in + n /\ sinkStat'.out = sinkStat.out + n
      /\ sinkStat'.dropped = sinkStat.dropped /\ sinkStat'.errs = sinkStat.errs
  <2>1. /\ sinkStat.in \in Nat /\ sinkStat.out \in Nat
        /\ sinkStat.dropped \in Nat /\ sinkStat.errs \in Nat
    BY SinkFacts
  <2>2. PICK i \in Nat, o \in Nat, d \in Nat, r \in Nat :
           sinkStat.in = i /\ sinkStat.out = o /\ sinkStat.dropped = d /\ sinkStat.errs = r
    BY <2>1
  <2>3. sinkStat' = [in |-> i + n, out |-> o + n, dropped |-> d, errs |-> r]
    BY <1>4, <2>2
  <2> QED BY <2>2, <2>3 DEF Counts
<1>6. PICK c \in Nat : c = Cardinality(shedAt) /\ c <= Len(took)
  <2>1. \A i, j, k \in Nat : i <= j /\ j + k = Len(took) => i <= Len(took)
    BY SinkFacts
  <2> QED BY <2>1, SinkFacts
<1>7. /\ sinkStat.in = Len(took) /\ sinkStat.out = Len(took) - c /\ sinkStat.dropped = c
      /\ shed = c
      /\ shedAt # {} => sink = "drop"
      /\ gaveUp # {} => cancelled /\ sinkStat.errs > 0
  BY <1>6 DEF SinkInv, SinkBooks, SinkCounts
<1>8. /\ sinkStat'.in = Len(took') /\ sinkStat'.out = Len(took') - c /\ sinkStat'.dropped = c
  BY <1>3, <1>5, <1>7, SinkFacts
<1>9. SinkCounts'
  BY <1>5, <1>6, <1>7, <1>8 DEF SinkCounts
<1> QED
  BY <1>2, <1>3, <1>5, <1>9

LEMMA FoldInv ==
    ASSUME SinkInv, Fold
    PROVE  SinkInv'
<1>1. PICK b \in Seq(Elems) : b = Head(pending)
  BY HeadTail DEF Fold, SinkInv, SinkTypes
<1>2. /\ sink = "reduce" /\ acc' = acc \o b /\ took' = took \o b /\ Tally(Len(b), Len(b), 0, 0)
      /\ push' = push /\ out' = out /\ read' = read /\ shed' = shed /\ sink' = sink
      /\ shedAt' = shedAt /\ gaveUp' = gaveUp /\ cancelled' = cancelled
      /\ pending' \in Seq(Seq(Elems))
  BY <1>1, HeadTail DEF Fold, SinkInv, SinkTypes
<1>3. took' \in Seq(Elems) /\ sinkStat' \in Counts /\ SinkCounts'
  BY <1>2, TakesBatch
<1>4. /\ acc = took /\ read = <<>> /\ out = <<>> /\ push = <<>> /\ shedAt = {} /\ gaveUp = {}
  BY <1>2 DEF SinkInv, SinkBooks, Kinds
<1>5. /\ acc' = took' /\ read' = <<>> /\ out' = <<>> /\ push' = <<>>
      /\ shedAt' = {} /\ gaveUp' = {}
  BY <1>2, <1>4
<1>6. Kinds'
  BY <1>2, <1>5 DEF Kinds
<1>7. PICK n \in Nat : n = Len(took') /\ Handled' = n
  <2>1. Len(took') \in Nat /\ Len(push') = 0
    BY <1>3, <1>5
  <2> QED BY <2>1 DEF Handled
<1>8. Positions'
  BY <1>5, <1>7 DEF Positions
<1>9. Forwarded' = 1..Len(took') /\ There' = took'
  <2>1. Forwarded' = 1..n
    BY <1>5, <1>7 DEF Forwarded
  <2>2. took' \o <<>> \o <<>> = took'
    BY <1>3
  <2> QED BY <1>5, <1>7, <2>1, <2>2 DEF There
<1>10. Order'
  BY <1>3, <1>9, AllInOrder DEF Order
<1>11. SinkTypes'
  BY <1>2, <1>3, <1>5 DEF SinkInv, SinkTypes
<1> QED
  BY <1>3, <1>6, <1>8, <1>10, <1>11 DEF SinkInv, SinkBooks

LEMMA CollectInv ==
    ASSUME SinkInv, Collect
    PROVE  SinkInv'
<1>1. PICK b \in Seq(Elems) : b = Head(pending)
  BY HeadTail DEF Collect, SinkInv, SinkTypes
<1>2. /\ sink # "reduce" /\ push = <<>> /\ push' = b /\ took' = took \o b
      /\ Tally(Len(b), Len(b), 0, 0)
      /\ acc' = acc /\ out' = out /\ read' = read /\ shed' = shed /\ sink' = sink
      /\ shedAt' = shedAt /\ gaveUp' = gaveUp /\ cancelled' = cancelled
      /\ pending' \in Seq(Seq(Elems))
  BY <1>1, HeadTail DEF Collect, SinkInv, SinkTypes
<1>3. /\ took' \in Seq(Elems) /\ Len(took') = Len(took) + Len(b) /\ sinkStat' \in Counts
      /\ SinkCounts'
  BY <1>2, TakesBatch
<1>4. Handled = Len(took) /\ Handled' = Len(took) /\ Len(took) \in Nat /\ Len(b) \in Nat
  <2>1. Len(push) = 0 /\ Len(took) \in Nat /\ Len(b) \in Nat
    BY <1>2, SinkFacts
  <2> QED BY <1>2, <1>3, <2>1 DEF Handled
<1>5. \A j \in 1..Len(b) : b[j] = took'[Len(took) + j]
  BY <1>2 DEF SinkInv, SinkTypes
<1>6. Positions'
  <2>1. /\ shedAt \subseteq 1..Handled /\ gaveUp \subseteq 1..Handled
        /\ shedAt \intersect gaveUp = {}
    BY DEF SinkInv, SinkBooks, Positions
  <2> QED BY <1>2, <1>4, <1>5, <2>1 DEF Positions
<1>7. Forwarded' = Forwarded /\ There' = There
  BY <1>2, <1>4 DEF Forwarded, There
<1>8. Order'
  <2>1. Forwarded \in SUBSET (1..Len(took)) /\ took \in Seq(Elems) /\ InOrder(There, Forwarded, took)
    BY <1>4, SinkFacts DEF SinkInv, SinkTypes, SinkBooks, Order
  <2>2. InOrder(There, Forwarded, took \o b)
    BY <2>1, LongerInOrder
  <2> QED BY <1>2, <1>7, <2>2 DEF Order
<1>9. Kinds'
  BY <1>2 DEF SinkInv, SinkBooks, Kinds
<1>10. SinkTypes'
  BY <1>2, <1>3 DEF SinkInv, SinkTypes
<1> QED
  BY <1>3, <1>6, <1>8, <1>9, <1>10 DEF SinkInv, SinkBooks

(* One element of the batch less to push.                                   *)
LEMMA PushesOne ==
    ASSUME SinkInv, push # <<>>, push' = Tail(push), took' = took
    PROVE  /\ Head(push) \in Elems /\ push' \in Seq(Elems)
           /\ Handled' = Handled + 1 /\ Handled' <= Len(took)
           /\ took[Handled + 1] = Head(push)
           /\ \A j \in 1..Len(push') : push'[j] = took'[Handled' + j]
<1>1. push \in Seq(Elems) /\ Len(push) \in Nat \ {0} /\ Handled \in Nat /\ Len(took) \in Nat
      /\ Handled + Len(push) = Len(took)
  BY SinkFacts, HeadTail DEF SinkInv, SinkTypes
<1>2. /\ Head(push) \in Elems /\ push' \in Seq(Elems) /\ Len(push') = Len(push) - 1
      /\ Head(push) = push[1]
      /\ \A j \in 1..(Len(push) - 1) : push'[j] = push[j + 1]
  BY <1>1, HeadTail
<1>3. Handled' = Handled + 1
  BY <1>1, <1>2 DEF Handled
<1>4. \A j \in 1..Len(push) : push[j] = took[Handled + j]
  BY DEF SinkInv, SinkBooks, Positions
<1>5. took[Handled + 1] = Head(push)
  BY <1>1, <1>2, <1>4
<1>6. ASSUME NEW j \in 1..Len(push') PROVE push'[j] = took'[Handled' + j]
  <2>1. j \in 1..(Len(push) - 1) /\ j + 1 \in 1..Len(push)
    BY <1>1, <1>2
  <2>2. push'[j] = took[Handled + (j + 1)]
    BY <1>2, <1>4, <2>1
  <2>3. Handled + (j + 1) = Handled' + j
    BY <1>1, <1>3, <2>1
  <2> QED BY <2>2, <2>3
<1> QED
  BY <1>1, <1>2, <1>3, <1>5, <1>6

LEMMA PushSendsInv ==
    ASSUME SinkInv, PushSends
    PROVE  SinkInv'
<1>1. /\ push # <<>> /\ push' = Tail(push) /\ took' = took
      /\ out' = Append(out, Head(push))
      /\ sinkStat' = sinkStat /\ acc' = acc /\ read' = read /\ shed' = shed /\ sink' = sink
      /\ shedAt' = shedAt /\ gaveUp' = gaveUp /\ cancelled' = cancelled /\ pending' = pending
  BY DEF PushSends, sinkHistory
<1>2. /\ Head(push) \in Elems /\ push' \in Seq(Elems) /\ Handled' = Handled + 1
      /\ took[Handled + 1] = Head(push)
      /\ \A j \in 1..Len(push') : push'[j] = took'[Handled' + j]
  BY <1>1, PushesOne
<1>3. PICK h \in Nat : h = Handled /\ shedAt \subseteq 1..h /\ gaveUp \subseteq 1..h
                       /\ shedAt \intersect gaveUp = {}
  BY DEF SinkInv, SinkBooks, Positions
<1>4. sink # "reduce" /\ acc = <<>>
  BY <1>1 DEF SinkInv, SinkBooks, Kinds
<1>5. Positions'
  BY <1>1, <1>2, <1>3 DEF Positions
<1>6. Forwarded' = Forwarded \union {h + 1}
  BY <1>1, <1>2, <1>3 DEF Forwarded
<1>7. There' = Append(There, took[h + 1])
  <2>1. acc \in Seq(Elems) /\ read \in Seq(Elems) /\ out \in Seq(Elems)
    BY DEF SinkInv, SinkTypes
  <2>2. acc \o read \o Append(out, Head(push)) = Append(acc \o read \o out, Head(push))
    BY <1>2, <2>1
  <2> QED BY <1>1, <1>2, <1>3, <2>2 DEF There
<1>8. Order'
  <2>1. /\ took \in Seq(Elems) /\ There \in Seq(Elems) /\ Forwarded \in SUBSET (1..h)
        /\ InOrder(There, Forwarded, took) /\ took[h + 1] \in Elems
    BY <1>2, <1>3, SinkFacts DEF SinkInv, SinkTypes, SinkBooks, Order
  <2>2. InOrder(Append(There, took[h + 1]), Forwarded \union {h + 1}, took)
    BY <2>1, AppendInOrder
  <2> QED BY <1>1, <1>6, <1>7, <2>2 DEF Order
<1>9. SinkCounts' /\ Kinds'
  BY <1>1, <1>4 DEF SinkInv, SinkBooks, SinkCounts, Kinds
<1>10. SinkTypes'
  BY <1>1, <1>2 DEF SinkInv, SinkTypes
<1> QED
  BY <1>5, <1>8, <1>9, <1>10 DEF SinkInv, SinkBooks

LEMMA PushShedsInv ==
    ASSUME SinkInv, PushSheds
    PROVE  SinkInv'
<1>1. /\ push # <<>> /\ push' = Tail(push) /\ took' = took /\ out' = out
      /\ acc' = acc /\ read' = read /\ sink = "drop" /\ sink' = sink
      /\ shedAt' = shedAt \union {Handled + 1} /\ gaveUp' = gaveUp
      /\ ~cancelled /\ cancelled' = cancelled /\ pending' = pending /\ shed' = shed + 1
      /\ sinkStat' = [sinkStat EXCEPT !.out = @ - 1, !.dropped = @ + 1]
  BY DEF PushSheds, PushLeft
<1>2. /\ push' \in Seq(Elems) /\ Handled' = Handled + 1 /\ Handled' <= Len(took)
      /\ \A j \in 1..Len(push') : push'[j] = took'[Handled' + j]
  BY <1>1, PushesOne
<1>3. PICK h \in Nat : h = Handled /\ shedAt \subseteq 1..h /\ gaveUp \subseteq 1..h
                       /\ shedAt \intersect gaveUp = {}
  BY DEF SinkInv, SinkBooks, Positions
<1>4. Positions'
  BY <1>1, <1>2, <1>3 DEF Positions
<1>5. Forwarded' = Forwarded /\ There' = There
  BY <1>1, <1>2, <1>3 DEF Forwarded, There
<1>6. Order'
  BY <1>1, <1>5 DEF SinkInv, SinkBooks, Order
<1>7. PICK c \in Nat : c = Cardinality(shedAt) /\ c <= h
  BY <1>3, SinkFacts
<1>8. Cardinality(shedAt') = c + 1
  <2>1. h + 1 \notin shedAt /\ IsFiniteSet(shedAt)
    BY <1>3, SinkFacts
  <2> QED BY <1>1, <1>3, <1>7, <2>1, FS_AddElement
<1>9. /\ sinkStat.in = Len(took) /\ sinkStat.out = Len(took) - c /\ sinkStat.dropped = c
      /\ shed = c /\ (gaveUp # {} => cancelled /\ sinkStat.errs > 0)
  BY <1>7 DEF SinkInv, SinkBooks, SinkCounts
<1>10. PICK n \in Nat : n = Len(took) /\ c + 1 <= n
  <2>1. Len(took) \in Nat /\ h + 1 <= Len(took)
    BY <1>2, <1>3, SinkFacts
  <2> QED BY <1>7, <2>1
<1>11. sinkStat' = [sinkStat EXCEPT !.out = (n - c) - 1, !.dropped = c + 1]
  BY <1>1, <1>9, <1>10
<1>12. (n - c) - 1 \in Nat /\ (n - c) - 1 = n - (c + 1)
  BY <1>10
<1>13. sinkStat \in Counts
  BY DEF SinkInv, SinkTypes
<1>14. /\ sinkStat' \in Counts
       /\ sinkStat'.in = n /\ sinkStat'.out = n - (c + 1) /\ sinkStat'.dropped = c + 1
       /\ sinkStat'.errs = sinkStat.errs
  <2>1. PICK q \in Nat : q = (n - c) - 1 /\ q = n - (c + 1)
    BY <1>12
  <2>2. sinkStat' = [sinkStat EXCEPT !.out = q, !.dropped = c + 1]
    BY <1>11, <2>1
  <2>3. sinkStat' = [in |-> sinkStat.in, out |-> q, dropped |-> c + 1, errs |-> sinkStat.errs]
    BY <1>13, <2>2 DEF Counts
  <2>4. sinkStat.in = n /\ sinkStat.in \in Nat /\ sinkStat.errs \in Nat /\ c + 1 \in Nat
    BY <1>9, <1>10, <1>13 DEF Counts
  <2> QED BY <2>1, <2>3, <2>4 DEF Counts
<1>15. SinkCounts'
  BY <1>1, <1>8, <1>9, <1>10, <1>14 DEF SinkCounts
<1>16. Kinds'
  BY <1>1 DEF SinkInv, SinkBooks, Kinds
<1>17. SinkTypes'
  BY <1>1, <1>2, <1>3, <1>7, <1>9, <1>14 DEF SinkInv, SinkTypes
<1> QED
  BY <1>4, <1>6, <1>15, <1>16, <1>17 DEF SinkInv, SinkBooks

LEMMA PushCancelledInv ==
    ASSUME SinkInv, PushCancelled
    PROVE  SinkInv'
<1>1. /\ push # <<>> /\ push' = <<>> /\ took' = took /\ out' = out
      /\ acc' = acc /\ read' = read /\ sink' = sink /\ shed' = shed
      /\ shedAt' = shedAt /\ gaveUp' = gaveUp \union (Handled + 1 .. Len(took))
      /\ cancelled /\ cancelled' = cancelled /\ pending' = pending
      /\ sinkStat' = [in |-> sinkStat.in + 0, out |-> sinkStat.out + 0,
                      dropped |-> sinkStat.dropped + 0, errs |-> sinkStat.errs + 1]
  BY DEF PushCancelled, Tally
<1>2. PICK h \in Nat, n \in Nat :
         /\ h = Handled /\ n = Len(took) /\ h <= n
         /\ shedAt \subseteq 1..h /\ gaveUp \subseteq 1..h /\ shedAt \intersect gaveUp = {}
  <2>1. /\ Handled \in Nat /\ Len(took) \in Nat /\ Len(push) \in Nat
        /\ Handled + Len(push) = Len(took)
    BY SinkFacts
  <2>2. Handled <= Len(took)
    BY <2>1
  <2>3. /\ shedAt \subseteq 1..Handled /\ gaveUp \subseteq 1..Handled
        /\ shedAt \intersect gaveUp = {}
    BY DEF SinkInv, SinkBooks, Positions
  <2> HIDE DEF Handled
  <2> QED BY <2>1, <2>2, <2>3, Zenon
<1>3. Handled' = n
  <2>1. Len(push') = 0
    BY <1>1
  <2> QED BY <1>1, <1>2, <2>1 DEF Handled
<1>4. Positions'
  <2>1. \A j \in 1..Len(push') : FALSE
    BY <1>1
  <2>2. gaveUp' = gaveUp \union (h + 1 .. n) /\ shedAt' = shedAt
    BY <1>1, <1>2
  <2>3. /\ \A i \in h + 1 .. n : i \in 1..n /\ i \notin 1..h
        /\ \A i \in 1..h : i \in 1..n
    BY <1>2
  <2>4. shedAt' \subseteq 1..n /\ gaveUp' \subseteq 1..n /\ shedAt' \intersect gaveUp' = {}
    BY <1>2, <2>2, <2>3, Zenon
  <2> QED BY <1>3, <2>1, <2>4 DEF Positions
<1>5. Forwarded' = Forwarded /\ There' = There
  BY <1>1, <1>2, <1>3 DEF Forwarded, There
<1>6. Order'
  BY <1>1, <1>5 DEF SinkInv, SinkBooks, Order
<1>7. /\ sinkStat' \in Counts
      /\ sinkStat'.in = sinkStat.in /\ sinkStat'.out = sinkStat.out
      /\ sinkStat'.dropped = sinkStat.dropped /\ sinkStat'.errs = sinkStat.errs + 1
      /\ sinkStat.errs \in Nat
  BY <1>1, SinkFacts DEF Counts
<1>8. SinkCounts'
  BY <1>1, <1>7 DEF SinkInv, SinkBooks, SinkCounts
<1>9. Kinds'
  BY <1>1 DEF SinkInv, SinkBooks, Kinds
<1>10. gaveUp' \subseteq Nat
  <2>1. \A i \in 1..n : i \in Nat
    OBVIOUS
  <2>2. gaveUp' \subseteq 1..n
    BY <1>3, <1>4 DEF Positions
  <2> QED BY <2>1, <2>2, Zenon
<1>11. SinkTypes'
  BY <1>1, <1>7, <1>10 DEF SinkInv, SinkTypes
<1> QED
  BY <1>4, <1>6, <1>8, <1>9, <1>11 DEF SinkInv, SinkBooks

LEMMA ReadInv ==
    ASSUME SinkInv, Read
    PROVE  SinkInv'
<1>1. /\ out # <<>> /\ out' = Tail(out) /\ read' = Append(read, Head(out))
      /\ sinkStat' = sinkStat /\ acc' = acc /\ push' = push /\ shed' = shed /\ sink' = sink
      /\ took' = took /\ shedAt' = shedAt /\ gaveUp' = gaveUp
      /\ cancelled' = cancelled /\ pending' = pending
  BY DEF Read, sinkHistory
<1>2. acc \in Seq(Elems) /\ read \in Seq(Elems) /\ out \in Seq(Elems)
  BY DEF SinkInv, SinkTypes
<1>3. /\ Head(out) \in Elems /\ Tail(out) \in Seq(Elems) /\ out = <<Head(out)>> \o Tail(out)
  BY <1>1, <1>2, HeadTail
<1>4. There' = There
  <2> DEFINE one == <<Head(out)>>
             rest == Tail(out)
  <2>1. one \in Seq(Elems) /\ rest \in Seq(Elems) /\ Append(read, Head(out)) = read \o one
    BY <1>2, <1>3
  <2>2. read \o one \in Seq(Elems) /\ acc \o read \in Seq(Elems)
    BY <1>2, <2>1, Joined
  <2> HIDE DEF one, rest
  <2>3. (acc \o (read \o one)) \o rest = ((acc \o read) \o one) \o rest
    BY <1>2, <2>1, ConcatAssociative
  <2>4. ((acc \o read) \o one) \o rest = (acc \o read) \o (one \o rest)
    BY <2>1, <2>2, ConcatAssociative
  <2>5. out = one \o rest
    BY <1>3 DEF one, rest
  <2> QED BY <1>1, <2>1, <2>3, <2>4, <2>5, Zenon DEF There, one, rest
<1>5. Handled' = Handled /\ Forwarded' = Forwarded
  BY <1>1 DEF Handled, Forwarded
<1>6. Order' /\ Positions' /\ SinkCounts'
  BY <1>1, <1>4, <1>5 DEF SinkInv, SinkBooks, Order, Positions, SinkCounts
<1>7. Kinds'
  BY <1>1 DEF SinkInv, SinkBooks, Kinds
<1>8. SinkTypes'
  BY <1>1, <1>2, <1>3 DEF SinkInv, SinkTypes
<1> QED
  BY <1>6, <1>7, <1>8 DEF SinkInv, SinkBooks

(* A step that leaves the sink alone.                                       *)
LEMMA SinkSame ==
    ASSUME SinkInv, pending' \in Seq(Seq(Elems)), UNCHANGED <<sink, sinkVars>>,
           cancelled => cancelled'
    PROVE  SinkInv'
<1>1. /\ push' = push /\ out' = out /\ read' = read /\ acc' = acc /\ sinkStat' = sinkStat
      /\ shed' = shed /\ took' = took /\ shedAt' = shedAt /\ gaveUp' = gaveUp /\ sink' = sink
  BY DEF sinkVars, sinkHistory
<1>2. Handled' = Handled /\ Forwarded' = Forwarded /\ There' = There
  BY <1>1 DEF Handled, Forwarded, There
<1>3. Order' /\ Positions' /\ SinkCounts' /\ Kinds'
  BY <1>1, <1>2 DEF SinkInv, SinkBooks, Order, Positions, SinkCounts, Kinds
<1>4. SinkTypes'
  BY <1>1 DEF SinkInv, SinkTypes
<1> QED
  BY <1>3, <1>4 DEF SinkInv, SinkBooks

-----------------------------------------------------------------------------
(* The sink: what it took is somewhere, in order and in the numbers its     *)
(* counters say.                                                            *)

BaseInv == PoolTypes /\ SinkInv

LEMMA BaseInit == Init => BaseInv
<1> SUFFICES ASSUME Init PROVE BaseInv
  OBVIOUS
<1>1. Types
  BY InitTypes
<1>2. /\ took = <<>> /\ push = <<>> /\ out = <<>> /\ read = <<>> /\ acc = <<>>
      /\ shedAt = {} /\ gaveUp = {} /\ shed = 0
      /\ sinkStat.in = 0 /\ sinkStat.out = 0 /\ sinkStat.dropped = 0
  BY DEF Init, NoCounts
<1>3. Handled = 0
  BY <1>2 DEF Handled
<1>4. Forwarded = {} /\ There = <<>> /\ Cardinality({}) = 0
  BY <1>2, <1>3, FS_EmptySet DEF Forwarded, There
<1>5. Order /\ Positions /\ SinkCounts /\ Kinds
  BY <1>2, <1>3, <1>4 DEF Order, InOrder, Positions, SinkCounts, Kinds
<1> QED
  BY <1>1, <1>5 DEF Types, BaseInv, SinkInv, SinkBooks

LEMMA BaseStep == BaseInv /\ [Next]_vars => BaseInv'
<1> SUFFICES ASSUME BaseInv, [Next]_vars PROVE BaseInv'
  OBVIOUS
<1>1. PoolTypes /\ SinkInv /\ Types
  BY DEF BaseInv, Types, SinkInv
<1>2. CASE \E w \in Workers : WorkerStep(w)
  <2>1. PICK w \in Workers : WorkerStep(w)
    BY <1>2
  <2>2. PoolTypes' /\ pending' \in Seq(Seq(Elems)) /\ UNCHANGED <<sink, sinkVars, cancelled>>
    <3>1. CASE Receive(w)
      BY <1>1, <3>1, ReceiveTypes DEF Receive, Types, SinkTypes
    <3>2. CASE Lock(w)
      BY <1>1, <3>2, LockTypes DEF Lock, Types, SinkTypes
    <3>3. CASE Then(w)
      BY <1>1, <3>3, ThenTypes DEF Then, Types, SinkTypes
    <3>4. CASE Else(w)
      BY <1>1, <3>4, ElseTypes DEF Else
    <3> QED BY <2>1, <3>1, <3>2, <3>3, <3>4 DEF WorkerStep
  <2>3. SinkInv'
    BY <1>1, <2>2, SinkSame
  <2> QED BY <2>2, <2>3 DEF BaseInv
<1>3. CASE SinkStep \/ Read
  <2>1. UNCHANGED <<cap, poolVars>>
    BY <1>3 DEF SinkStep, Fold, Collect, PushSends, PushSheds, PushCancelled, Read
  <2>2. PoolTypes'
    BY <1>1, <2>1, PoolSame
  <2>3. SinkInv'
    BY <1>1, <1>3, FoldInv, CollectInv, PushSendsInv, PushShedsInv, PushCancelledInv, ReadInv
       DEF SinkStep
  <2> QED BY <2>2, <2>3 DEF BaseInv
<1>4. CASE Cancel \/ UNCHANGED vars
  <2>1. UNCHANGED <<cap, poolVars>> /\ UNCHANGED <<sink, pending, sinkVars>>
        /\ (cancelled => cancelled')
    BY <1>4 DEF Cancel, vars
  <2>2. PoolTypes'
    BY <1>1, <2>1, PoolSame
  <2>3. pending' \in Seq(Seq(Elems))
    BY <1>1, <2>1 DEF SinkInv, SinkTypes
  <2>4. SinkInv'
    BY <1>1, <2>1, <2>3, SinkSame
  <2> QED BY <2>2, <2>4 DEF BaseInv
<1> QED
  BY <1>2, <1>3, <1>4 DEF Next, Finished

LEMMA Based == Spec => []BaseInv
  BY BaseInit, BaseStep, PTL DEF Spec

(* SinkAccounts (Collect, Consume, Push of ChannelSink, Reduce): whatever   *)
(* the batches, the sink and the moment of the cancel, what was folded, was *)
(* read or can be read is what the sink took, in that order, without the    *)
(* elements that were shed and counted, were given up to a cancelled        *)
(* context, or wait to be pushed; and no element has two of these fates.    *)
THEOREM SinkKeepsAccount == Spec => []SinkAccounts
<1>1. BaseInv => SinkAccounts
  <2> SUFFICES ASSUME BaseInv PROVE SinkAccounts
    OBVIOUS
  <2>1. SinkInv /\ Order /\ Positions /\ SinkCounts
    BY DEF BaseInv, SinkInv, SinkBooks
  <2>2. /\ Len(There) = Cardinality(Forwarded)
        /\ \A i \in Forwarded : There[Rank(i)] = took[i]
    BY <2>1 DEF Order, InOrder, RankIn, Rank
  <2>3. DOMAIN push = 1..Len(push)
    BY <2>1 DEF SinkInv, SinkTypes
  <2>4. /\ Handled >= 0
        /\ \A j \in DOMAIN push : push[j] = took[Handled + j]
        /\ shedAt \union gaveUp \subseteq 1..Handled
        /\ shedAt \intersect gaveUp = {}
    BY <2>1, <2>3 DEF Positions
  <2> QED BY <2>1, <2>2, <2>4 DEF SinkAccounts, SinkCounts, There
<1> QED
  BY <1>1, Based, PTL

-----------------------------------------------------------------------------
(* Deduplicate.  The keys looked at since the last look at k are k's depth  *)
(* in a history h.                                                          *)

LastIn(h, k) ==
    CHOOSE i \in DOMAIN h : h[i] = k /\ \A j \in DOMAIN h : h[j] = k => j <= i
SinceIn(h, k) == {h[j] : j \in LastIn(h, k)..Len(h)}
Depth(h, k) == Cardinality(SinceIn(h, k))

LEMMA LastFacts ==
    ASSUME NEW h \in Seq(Keys), NEW k \in ToSet(h)
    PROVE  /\ LastIn(h, k) \in 1..Len(h)
           /\ h[LastIn(h, k)] = k
           /\ \A j \in 1..Len(h) : h[j] = k => j <= LastIn(h, k)
<1>0. PICK n \in Nat : n = Len(h) /\ DOMAIN h = 1..n
  OBVIOUS
<1> DEFINE T == {i \in 1..n : h[i] = k}
<1>1. T \subseteq 0..n /\ T # {}
  BY <1>0 DEF ToSet
<1>2. PICK r \in T : \A i \in T : i <= r
  <2> HIDE DEF T
  <2> QED BY <1>1, Greatest
<1>3. r \in DOMAIN h /\ h[r] = k /\ \A j \in DOMAIN h : h[j] = k => j <= r
  BY <1>0, <1>2
<1>4. /\ LastIn(h, k) \in DOMAIN h
      /\ h[LastIn(h, k)] = k
      /\ \A j \in DOMAIN h : h[j] = k => j <= LastIn(h, k)
  BY <1>3 DEF LastIn
<1> QED
  BY <1>0, <1>4

LEMMA SinceFacts ==
    ASSUME NEW h \in Seq(Keys), NEW k \in ToSet(h)
    PROVE  /\ IsFiniteSet(SinceIn(h, k))
           /\ Depth(h, k) \in Nat
           /\ k \in SinceIn(h, k)
<1>0. PICK n \in Nat : n = Len(h)
  OBVIOUS
<1>1. PICK l \in 1..n : l = LastIn(h, k) /\ h[l] = k
  BY <1>0, LastFacts
<1> DEFINE S == l..n
           f == [j \in S |-> h[j]]
<1>2. SinceIn(h, k) = {h[j] : j \in S}
  BY <1>0, <1>1 DEF SinceIn
<1>3. f \in Surjection(S, SinceIn(h, k))
  BY <1>2 DEF Surjection
<1>4. IsFiniteSet(S)
  BY FS_Interval
<1>5. IsFiniteSet(SinceIn(h, k))
  <2> HIDE DEF S, f
  <2> QED BY <1>3, <1>4, FS_Surjection
<1>6. k \in SinceIn(h, k)
  BY <1>1, <1>2
<1> QED
  BY <1>5, <1>6, FS_CardinalityType DEF Depth

(* Of two keys the one looked at last is the less deep.                     *)
LEMMA DepthOrder ==
    ASSUME NEW h \in Seq(Keys), NEW c \in ToSet(h), NEW k \in ToSet(h), c # k
    PROVE  /\ k \in SinceIn(h, c) => Depth(h, k) < Depth(h, c)
           /\ k \notin SinceIn(h, c) => Depth(h, c) < Depth(h, k)
<1>0. PICK n \in Nat : n = Len(h)
  OBVIOUS
<1>1. ASSUME NEW a \in ToSet(h), NEW b \in ToSet(h), a # b,
             LastIn(h, a) < LastIn(h, b)
      PROVE  b \in SinceIn(h, a) /\ Depth(h, b) < Depth(h, a)
  <2>1. PICK i \in 1..n : /\ i = LastIn(h, a) /\ h[i] = a
                          /\ \A j \in 1..n : h[j] = a => j <= i
    BY <1>0, LastFacts
  <2>2. PICK l \in 1..n : l = LastIn(h, b) /\ h[l] = b
    BY <1>0, LastFacts
  <2>3. SinceIn(h, a) = {h[j] : j \in i..n} /\ SinceIn(h, b) = {h[j] : j \in l..n}
    BY <1>0, <2>1, <2>2 DEF SinceIn
  <2>4. i < l
    BY <1>1, <2>1, <2>2
  <2>5. SinceIn(h, b) \subseteq SinceIn(h, a)
    BY <2>3, <2>4
  <2>6. a \notin SinceIn(h, b)
    BY <2>1, <2>3, <2>4
  <2>7. a \in SinceIn(h, a) /\ b \in SinceIn(h, b) /\ IsFiniteSet(SinceIn(h, a))
    BY SinceFacts
  <2>8. /\ Depth(h, b) <= Depth(h, a)
        /\ Depth(h, b) = Depth(h, a) => SinceIn(h, b) = SinceIn(h, a)
    BY <2>5, <2>7, FS_Subset DEF Depth
  <2>9. Depth(h, a) \in Nat /\ Depth(h, b) \in Nat
    BY SinceFacts
  <2> QED BY <2>5, <2>6, <2>7, <2>8, <2>9
<1>2. /\ LastIn(h, c) \in 1..n /\ LastIn(h, k) \in 1..n
      /\ LastIn(h, c) # LastIn(h, k)
  BY <1>0, LastFacts
<1>3. LastIn(h, c) < LastIn(h, k) \/ LastIn(h, k) < LastIn(h, c)
  BY <1>2
<1>4. CASE LastIn(h, c) < LastIn(h, k)
  BY <1>1, <1>4
<1>5. CASE LastIn(h, k) < LastIn(h, c)
  <2>1. Depth(h, c) < Depth(h, k)
    BY <1>1, <1>5
  <2>2. k \notin SinceIn(h, c)
    <3>1. PICK i \in 1..n : i = LastIn(h, c)
      BY <1>2
    <3>2. \A j \in 1..n : h[j] = k => j <= LastIn(h, k)
      BY <1>0, LastFacts
    <3>3. SinceIn(h, c) = {h[j] : j \in i..n}
      BY <1>0, <3>1 DEF SinceIn
    <3>4. \A j \in i..n : h[j] # k
      BY <1>2, <1>5, <3>1, <3>2
    <3> QED BY <3>3, <3>4
  <2> QED BY <2>1, <2>2
<1> QED
  BY <1>3, <1>4, <1>5

(* One more look.                                                           *)
LEMMA DepthAfter ==
    ASSUME NEW h \in Seq(Keys), NEW k \in Keys
    PROVE  /\ Append(h, k) \in Seq(Keys)
           /\ \A c : c \in ToSet(Append(h, k)) <=> c \in ToSet(h) \/ c = k
           /\ Depth(Append(h, k), k) = 1
           /\ \A c \in ToSet(h) : c # k =>
                Depth(Append(h, k), c) =
                  IF k \in SinceIn(h, c) THEN Depth(h, c) ELSE Depth(h, c) + 1
<1>0. PICK n \in Nat : n = Len(h) /\ DOMAIN h = 1..n
  OBVIOUS
<1> DEFINE g == Append(h, k)
<1>1. /\ g \in Seq(Keys) /\ Len(g) = n + 1 /\ DOMAIN g = 1..(n + 1) /\ g[n + 1] = k
      /\ \A i \in 1..n : g[i] = h[i]
  BY <1>0
<1> HIDE DEF g
<1>2. \A c : c \in ToSet(g) <=> c \in ToSet(h) \/ c = k
  <2>1. \A i : i \in 1..(n + 1) <=> i \in 1..n \/ i = n + 1
    OBVIOUS
  <2> QED BY <1>0, <1>1, <2>1 DEF ToSet
<1>3. Depth(g, k) = 1
  <2>1. k \in ToSet(g)
    BY <1>2
  <2>2. /\ LastIn(g, k) \in 1..(n + 1)
        /\ \A j \in 1..(n + 1) : g[j] = k => j <= LastIn(g, k)
    BY <1>1, <2>1, LastFacts
  <2>3. LastIn(g, k) = n + 1
    BY <1>1, <2>2
  <2>4. SinceIn(g, k) = {k}
    BY <1>1, <2>3 DEF SinceIn
  <2> QED BY <2>4, FS_Singleton DEF Depth
<1>4. ASSUME NEW c \in ToSet(h), c # k
      PROVE  Depth(g, c) = IF k \in SinceIn(h, c) THEN Depth(h, c) ELSE Depth(h, c) + 1
  <2>1. c \in ToSet(g)
    BY <1>2
  <2>2. PICK l \in 1..n : /\ l = LastIn(h, c) /\ h[l] = c
                          /\ \A j \in 1..n : h[j] = c => j <= l
    BY <1>0, LastFacts
  <2>3. PICK m \in 1..(n + 1) : /\ m = LastIn(g, c) /\ g[m] = c
                                /\ \A j \in 1..(n + 1) : g[j] = c => j <= m
    BY <1>1, <2>1, LastFacts
  <2>4. m = l
    <3>1. l <= m
      BY <1>1, <2>2, <2>3
    <3>2. m \in 1..n
      BY <1>1, <1>4, <2>3
    <3>3. m <= l
      BY <1>1, <2>2, <2>3, <3>2
    <3> QED BY <3>1, <3>3
  <2>5. SinceIn(h, c) = {h[j] : j \in l..n} /\ SinceIn(g, c) = {g[j] : j \in l..(n + 1)}
    BY <1>0, <1>1, <2>2, <2>3, <2>4 DEF SinceIn
  <2>6. SinceIn(g, c) = SinceIn(h, c) \union {k}
    <3>1. \A j : j \in l..(n + 1) <=> j \in l..n \/ j = n + 1
      OBVIOUS
    <3>2. \A j \in l..n : g[j] = h[j]
      BY <1>1
    <3> QED BY <1>1, <2>5, <3>1, <3>2
  <2>7. IsFiniteSet(SinceIn(h, c))
    BY SinceFacts
  <2> QED BY <2>6, <2>7, FS_AddElement DEF Depth
<1> QED
  BY <1>1, <1>2, <1>3, <1>4 DEF g

(* What an LRU remembers of a history: the keys less deep than its          *)
(* capacity, each at the place of its depth.                                *)
Within(n) == cap = 0 \/ n <= cap
LRU(h, ord) ==
    /\ h \in Seq(Keys)
    /\ ord \in Seq(Keys)
    /\ \A i \in 1..Len(ord) : ord[i] \in ToSet(h)
    /\ \A i, j \in 1..Len(ord) : ord[i] = ord[j] => i = j
    /\ Within(Len(ord))
    /\ \A c \in ToSet(h) :
         IF Within(Depth(h, c)) THEN Depth(h, c) \in 1..Len(ord) /\ ord[Depth(h, c)] = c
         ELSE c \notin ToSet(ord)

(* A key that the LRU holds is at the place of its depth.                   *)
LEMMA Placed ==
    ASSUME NEW h, NEW ord, LRU(h, ord), NEW i \in 1..Len(ord)
    PROVE  /\ ord[i] \in ToSet(h)
           /\ Depth(h, ord[i]) = i
<1>1. ord[i] \in ToSet(h)
  BY DEF LRU
<1>2. ord[i] \in ToSet(ord)
  BY DEF ToSet, LRU
<1>3. Depth(h, ord[i]) \in 1..Len(ord) /\ ord[Depth(h, ord[i])] = ord[i]
  BY <1>1, <1>2 DEF LRU
<1> QED
  BY <1>1, <1>3 DEF LRU

LEMMA LookHit ==
    ASSUME NEW h, NEW ord, LRU(h, ord), NEW k \in Keys, k \in ToSet(ord), cap \in Nat
    PROVE  LRU(Append(h, k), Looked(ord, k))
<1> DEFINE g == Append(h, k)
           new == Looked(ord, k)
<1>1. h \in Seq(Keys) /\ ord \in Seq(Keys)
  BY DEF LRU
<1>2. PICK n \in Nat : n = Len(ord) /\ DOMAIN ord = 1..n
  BY <1>1
<1>3. new = MovedToFront(ord, k)
  BY DEF Looked
<1>4. PICK p \in 1..n :
         /\ ord[p] = k
         /\ new \in Seq(Keys)
         /\ Len(new) = n
         /\ new[1] = k
         /\ \A i \in 1..(p - 1) : new[i + 1] = ord[i]
         /\ \A i \in (p + 1)..n : new[i] = ord[i]
  BY <1>1, <1>2, <1>3, Moved
<1>5. /\ g \in Seq(Keys)
      /\ \A c : c \in ToSet(g) <=> c \in ToSet(h) \/ c = k
      /\ Depth(g, k) = 1
      /\ \A c \in ToSet(h) : c # k =>
           Depth(g, c) = IF k \in SinceIn(h, c) THEN Depth(h, c) ELSE Depth(h, c) + 1
  BY <1>1, DepthAfter
<1> HIDE DEF g, new
<1>6. k \in ToSet(h) /\ Depth(h, k) = p
  BY <1>2, <1>4, Placed
<1>7. \A i \in 1..n : \/ i = 1 /\ new[i] = ord[p]
                      \/ i \in 2..p /\ i - 1 \in 1..(p - 1) /\ new[i] = ord[i - 1]
                      \/ i \in (p + 1)..n /\ new[i] = ord[i]
  <2> TAKE i \in 1..n
  <2>1. CASE i \in 2..p
    <3>1. i - 1 \in 1..(p - 1) /\ (i - 1) + 1 = i
      BY <2>1
    <3>2. new[(i - 1) + 1] = ord[i - 1]
      BY <1>4, <3>1
    <3> QED BY <2>1, <3>1, <3>2
  <2>2. CASE i = 1
    BY <1>4, <2>2
  <2>3. CASE i \in (p + 1)..n
    BY <1>4, <2>3
  <2>4. i = 1 \/ i \in 2..p \/ i \in (p + 1)..n
    OBVIOUS
  <2> QED BY <2>1, <2>2, <2>3, <2>4
<1>8. \A i \in 1..n : new[i] \in ToSet(g)
  <2>1. \A i \in 1..n : ord[i] \in ToSet(h)
    BY <1>2 DEF LRU
  <2> QED BY <1>4, <1>5, <1>7, <2>1
<1>9. \A i, j \in 1..n : new[i] = new[j] => i = j
  <2>1. \A i, j \in 1..n : ord[i] = ord[j] => i = j
    BY <1>2 DEF LRU
  <2> QED BY <1>7, <2>1
<1>10. ASSUME NEW c \in ToSet(g)
       PROVE  IF Within(Depth(g, c)) THEN Depth(g, c) \in 1..n /\ new[Depth(g, c)] = c
              ELSE c \notin ToSet(new)
  <2>0. ToSet(new) = {new[i] : i \in 1..n}
    BY <1>4 DEF ToSet
  <2>1. CASE c = k
    <3>1. Depth(g, c) = 1 /\ 1 \in 1..n /\ new[1] = c
      BY <1>4, <1>5, <2>1
    <3>2. Within(1)
      BY DEF Within
    <3> QED BY <3>1, <3>2
  <2>2. CASE c # k /\ Within(Depth(h, c))
    <3>1. c \in ToSet(h)
      BY <1>5, <2>2
    <3>2. PICK q \in 1..n : q = Depth(h, c) /\ ord[q] = c
      BY <1>2, <2>2, <3>1 DEF LRU
    <3>3. q # p
      BY <1>4, <2>2, <3>2
    <3>4. Within(n)
      BY <1>2 DEF LRU
    <3>5. CASE q < p
      <4>1. k \notin SinceIn(h, c)
        <5>1. k \in SinceIn(h, c) => p < q
          BY <1>1, <1>6, <2>2, <3>1, <3>2, DepthOrder
        <5> QED BY <3>5, <5>1
      <4>2. Depth(g, c) = q + 1
        BY <1>5, <2>2, <3>1, <3>2, <4>1
      <4>3. q \in 1..(p - 1) /\ q + 1 \in 1..n
        BY <3>5
      <4>4. new[q + 1] = c
        BY <1>4, <3>2, <4>3
      <4>5. Within(q + 1)
        BY <3>4, <4>3 DEF Within
      <4> QED BY <4>2, <4>3, <4>4, <4>5
    <3>6. CASE p < q
      <4>1. k \in SinceIn(h, c)
        <5>1. k \notin SinceIn(h, c) => q < p
          BY <1>1, <1>6, <2>2, <3>1, <3>2, DepthOrder
        <5> QED BY <3>6, <5>1
      <4>2. Depth(g, c) = q
        BY <1>5, <2>2, <3>1, <3>2, <4>1
      <4>3. q \in (p + 1)..n
        BY <3>6
      <4>4. new[q] = c
        BY <1>4, <3>2, <4>3
      <4>5. Within(q)
        BY <3>4 DEF Within
      <4> QED BY <4>2, <4>3, <4>4, <4>5
    <3> QED BY <3>3, <3>5, <3>6
  <2>3. CASE c # k /\ ~Within(Depth(h, c))
    <3>1. c \in ToSet(h)
      BY <1>5, <2>3
    <3>2. c \notin ToSet(ord)
      BY <2>3, <3>1 DEF LRU
    <3>3. Depth(h, c) \in Nat
      BY <1>1, <3>1, SinceFacts
    <3>4. ~Within(Depth(g, c))
      BY <1>5, <2>3, <3>1, <3>3 DEF Within
    <3>5. \A i \in 1..n : ord[i] # c
      BY <1>2, <3>2 DEF ToSet
    <3>6. \A i \in 1..n : new[i] # c
      BY <1>7, <3>5
    <3> QED BY <2>0, <3>4, <3>6
  <2> QED BY <2>1, <2>2, <2>3
<1>11. LRU(g, new)
  BY <1>2, <1>4, <1>5, <1>8, <1>9, <1>10 DEF LRU
<1> QED
  BY <1>11 DEF g, new

LEMMA LookMiss ==
    ASSUME NEW h, NEW ord, LRU(h, ord), NEW k \in Keys, k \notin ToSet(ord), cap \in Nat
    PROVE  LRU(Append(h, k), Looked(ord, k))
<1> DEFINE g == Append(h, k)
           grown == <<k>> \o ord
           new == Looked(ord, k)
<1>1. h \in Seq(Keys) /\ ord \in Seq(Keys)
  BY DEF LRU
<1>2. PICK n \in Nat : n = Len(ord) /\ DOMAIN ord = 1..n
  BY <1>1
<1>3. /\ grown \in Seq(Keys) /\ Len(grown) = n + 1 /\ grown[1] = k
      /\ \A i \in 1..n : grown[i + 1] = ord[i]
      /\ Front(grown) \in Seq(Keys) /\ Len(Front(grown)) = n
      /\ \A i \in 1..n : Front(grown)[i] = grown[i]
  <2>1. Longer(grown, Keys, ord, k)
    BY <1>1, Pushed
  <2> HIDE DEF grown
  <2> QED BY <1>2, <2>1 DEF Longer
<1>4. new = IF cap > 0 /\ Len(grown) > cap THEN Front(grown) ELSE grown
  BY DEF Looked
<1> HIDE DEF grown, new
<1>5. PICK m \in {n, n + 1} :
         /\ new \in Seq(Keys) /\ Len(new) = m
         /\ \A i \in 1..m : new[i] = grown[i]
         /\ m = n => cap # 0 /\ n = cap
         /\ m = n + 1 => Within(n + 1)
  <2>1. CASE cap > 0 /\ n + 1 > cap
    <3>1. new = Front(grown)
      BY <1>3, <1>4, <2>1
    <3>2. Within(n)
      BY <1>2 DEF LRU
    <3>3. n = cap /\ cap # 0
      BY <2>1, <3>2 DEF Within
    <3> QED BY <1>3, <3>1, <3>3
  <2>2. CASE ~(cap > 0 /\ n + 1 > cap)
    <3>1. new = grown
      BY <1>3, <1>4, <2>2
    <3>2. Within(n + 1)
      BY <2>2 DEF Within
    <3> QED BY <1>3, <3>1, <3>2
  <2> QED BY <2>1, <2>2
<1>6. /\ g \in Seq(Keys)
      /\ \A c : c \in ToSet(g) <=> c \in ToSet(h) \/ c = k
      /\ Depth(g, k) = 1
      /\ \A c \in ToSet(h) : c # k =>
           Depth(g, c) = IF k \in SinceIn(h, c) THEN Depth(h, c) ELSE Depth(h, c) + 1
  BY <1>1, DepthAfter
<1> HIDE DEF g
<1>7. \A i \in 1..m : \/ i = 1 /\ new[i] = k
                      \/ i - 1 \in 1..n /\ new[i] = ord[i - 1]
  <2> TAKE i \in 1..m
  <2>1. CASE i = 1
    BY <1>3, <1>5, <2>1
  <2>2. CASE i # 1
    <3>1. i - 1 \in 1..n /\ (i - 1) + 1 = i
      BY <2>2
    <3>2. grown[(i - 1) + 1] = ord[i - 1]
      BY <1>3, <3>1
    <3> QED BY <1>5, <3>1, <3>2
  <2> QED BY <2>1, <2>2
<1>8. \A i \in 1..m : new[i] \in ToSet(g)
  <2>1. \A i \in 1..n : ord[i] \in ToSet(h)
    BY <1>2 DEF LRU
  <2> QED BY <1>6, <1>7, <2>1
<1>9. \A i, j \in 1..m : new[i] = new[j] => i = j
  <2>1. \A i, j \in 1..n : ord[i] = ord[j] => i = j
    BY <1>2 DEF LRU
  <2>2. \A i \in 1..n : ord[i] # k
    BY <1>2 DEF ToSet
  <2> QED BY <1>7, <2>1, <2>2
<1>10. Within(m)
  BY <1>5 DEF Within
<1>11. ASSUME NEW c \in ToSet(g)
       PROVE  IF Within(Depth(g, c)) THEN Depth(g, c) \in 1..m /\ new[Depth(g, c)] = c
              ELSE c \notin ToSet(new)
  <2>0. ToSet(new) = {new[i] : i \in 1..m}
    BY <1>5 DEF ToSet
  <2>1. CASE c = k
    <3>1. Within(1)
      BY DEF Within
    <3>2. 1 \in 1..m
      BY <1>5
    <3>3. Depth(g, c) = 1 /\ new[1] = c
      BY <1>3, <1>5, <1>6, <2>1, <3>2
    <3> QED BY <3>1, <3>2, <3>3
  <2>2. CASE c # k /\ Within(Depth(h, c))
    <3>1. c \in ToSet(h)
      BY <1>6, <2>2
    <3>2. PICK q \in 1..n : q = Depth(h, c) /\ ord[q] = c
      BY <1>2, <2>2, <3>1 DEF LRU
    <3>3. k \notin SinceIn(h, c)
      <4>1. CASE k \in ToSet(h)
        <5>1. ~Within(Depth(h, k)) /\ Depth(h, k) \in Nat
          BY <1>1, <1>2, <4>1, SinceFacts DEF LRU, ToSet
        <5>2. k \in SinceIn(h, c) => Depth(h, k) < q
          BY <1>1, <2>2, <3>1, <3>2, <4>1, DepthOrder
        <5>3. Within(q)
          BY <2>2, <3>2
        <5> QED BY <5>1, <5>2, <5>3 DEF Within
      <4>2. CASE k \notin ToSet(h)
        <5>1. SinceIn(h, c) \subseteq ToSet(h)
          <6>1. LastIn(h, c) \in 1..Len(h) /\ DOMAIN h = 1..Len(h)
            BY <1>1, <3>1, LastFacts
          <6>2. \A j \in LastIn(h, c)..Len(h) : j \in DOMAIN h
            BY <6>1
          <6> QED BY <6>2 DEF SinceIn, ToSet
        <5> QED BY <4>2, <5>1
      <4> QED BY <4>1, <4>2
    <3>4. Depth(g, c) = q + 1
      BY <1>6, <2>2, <3>1, <3>2, <3>3
    <3>5. CASE q + 1 \in 1..m
      <4>1. new[q + 1] = c
        BY <1>3, <1>5, <3>2, <3>5
      <4>2. Within(q + 1)
        BY <1>10, <3>5 DEF Within
      <4> QED BY <3>4, <3>5, <4>1, <4>2
    <3>6. CASE q + 1 \notin 1..m
      <4>1. m = n /\ q = n
        BY <1>5, <3>6
      <4>2. ~Within(q + 1)
        BY <1>5, <4>1 DEF Within
      <4>3. \A i \in 1..m : new[i] # c
        <5>1. \A i \in 1..n : ord[i] = ord[q] => i = q
          BY <1>2 DEF LRU
        <5> QED BY <1>7, <2>2, <3>2, <4>1, <5>1
      <4> QED BY <2>0, <3>4, <4>2, <4>3
    <3> QED BY <3>5, <3>6
  <2>3. CASE c # k /\ ~Within(Depth(h, c))
    <3>1. c \in ToSet(h)
      BY <1>6, <2>3
    <3>2. c \notin ToSet(ord)
      BY <2>3, <3>1 DEF LRU
    <3>3. Depth(h, c) \in Nat
      BY <1>1, <3>1, SinceFacts
    <3>4. ~Within(Depth(g, c))
      BY <1>6, <2>3, <3>1, <3>3 DEF Within
    <3>5. \A i \in 1..n : ord[i] # c
      BY <1>2, <3>2 DEF ToSet
    <3>6. \A i \in 1..m : new[i] # c
      BY <1>7, <2>3, <3>5
    <3> QED BY <2>0, <3>4, <3>6
  <2> QED BY <2>1, <2>2, <2>3
<1>12. LRU(g, new)
  BY <1>5, <1>6, <1>8, <1>9, <1>10, <1>11 DEF LRU
<1> QED
  BY <1>12 DEF g, new

LEMMA LookLRU ==
    ASSUME NEW h, NEW ord, LRU(h, ord), NEW k \in Keys, cap \in Nat
    PROVE  LRU(Append(h, k), Looked(ord, k))
  BY LookHit, LookMiss

(* A batch of looks.                                                        *)
KeysOf(in, i) == [j \in 1..i |-> Key[in[j]]]

LEMMA HistoryGrows ==
    ASSUME NEW in \in Seq(Elems), NEW i \in 1..Len(in), NEW h \in Seq(Keys)
    PROVE  h \o KeysOf(in, i) = Append(h \o KeysOf(in, i - 1), Key[in[i]])
<1>1. \A j \in 1..Len(in) : in[j] \in Elems
  OBVIOUS
<1>2. PICK m \in Nat : m = i - 1 /\ m + 1 = i
  OBVIOUS
<1>3. \A j \in 1..i : Key[in[j]] \in Keys
  BY <1>1 DEF Keys
<1>4. KeysOf(in, i) \in Seq(Keys) /\ KeysOf(in, m) \in Seq(Keys)
  BY <1>2, <1>3 DEF KeysOf
<1>5. KeysOf(in, i) = Append(KeysOf(in, m), Key[in[i]])
  BY <1>2, <1>3 DEF KeysOf
<1>6. Key[in[i]] \in Keys
  BY <1>3
<1> DEFINE s == KeysOf(in, m)
           e == Key[in[i]]
<1>7. h \o Append(s, e) = Append(h \o s, e)
  <2>1. s \in Seq(Keys) /\ e \in Keys
    BY <1>4, <1>6
  <2> HIDE DEF s, e
  <2> QED BY <2>1
<1> QED
  BY <1>2, <1>5, <1>7

LEMMA BatchLRU ==
    ASSUME NEW in \in Seq(Elems), LRU(log, order), cap \in Nat
    PROVE  LRU(log \o [i \in Reached(in) |-> Key[in[i]]], After(in).order)
<1>0. log \in Seq(Keys) /\ order \in Seq(Keys)
  BY DEF LRU
<1>1. PICK n \in 0..Len(in) : n = Cardinality(Reached(in)) /\ Reached(in) = 1..n
  BY ReachedFacts
<1>2. PICK g : AfterRun(g, in)
  BY <1>0, AfterLoop
<1>3. /\ g[0] = [order |-> order, kept |-> <<>>]
      /\ \A i \in 1..n : g[i] = Look(g[i - 1], in[i])
      /\ After(in) = g[n]
  BY <1>1, <1>2 DEF AfterRun
<1> DEFINE T == {i \in 0..n : LRU(log \o KeysOf(in, i), g[i].order)}
<1>4. 0 \in T
  <2>1. log \o KeysOf(in, 0) = log
    BY <1>0 DEF KeysOf
  <2>2. g[0].order = order
    BY <1>3
  <2>3. LRU(log \o KeysOf(in, 0), g[0].order)
    BY <2>1, <2>2, Zenon
  <2>4. 0 \in 0..n
    OBVIOUS
  <2> QED BY <2>3, <2>4
<1>5. ASSUME NEW i \in 1..n, i - 1 \in T PROVE i \in T
  <2>1. LRU(log \o KeysOf(in, i - 1), g[i - 1].order)
    BY <1>5
  <2>2. i \in 1..Len(in) /\ i \in 0..n
    BY <1>1
  <2>3. log \o KeysOf(in, i) = Append(log \o KeysOf(in, i - 1), Key[in[i]])
    BY <1>0, <2>2, HistoryGrows
  <2>4. Key[in[i]] \in Keys
    BY <2>2 DEF Keys
  <2>5. g[i].order = Looked(g[i - 1].order, Key[in[i]])
    <3>1. \A x, e : Look(x, e).order = Looked(x.order, Key[e])
      BY DEF Look
    <3>2. g[i] = Look(g[i - 1], in[i])
      BY <1>3
    <3> QED BY <3>1, <3>2
  <2>6. LRU(log \o KeysOf(in, i), g[i].order)
    BY <2>1, <2>3, <2>4, <2>5, LookLRU
  <2> QED BY <2>2, <2>6
<1>6. n \in T
  <2>1. n \in Nat
    OBVIOUS
  <2> HIDE DEF T
  <2>2. 0..n \subseteq T
    BY <1>4, <1>5, <2>1, UpTo
  <2> QED BY <2>1, <2>2
<1>7. [i \in Reached(in) |-> Key[in[i]]] = KeysOf(in, n)
  BY <1>1 DEF KeysOf
<1> QED
  BY <1>3, <1>6, <1>7

LRUInv == BaseInv /\ LRU(log, order)

LEMMA LRUStep == LRUInv /\ [Next]_vars => LRUInv'
<1> SUFFICES ASSUME LRUInv, [Next]_vars PROVE LRUInv'
  OBVIOUS
<1>1. BaseInv /\ BaseInv' /\ PoolTypes
  BY BaseStep DEF LRUInv, BaseInv
<1>2. cap' = cap
  BY DEF Next, vars, WorkerStep, Receive, Lock, Then, Else, SinkStep, Fold, Collect, PushSends,
         PushSheds, PushCancelled, Cancel, Read, Finished
<1>3. CASE UNCHANGED <<log, order>>
  BY <1>1, <1>2, <1>3 DEF LRUInv, LRU, Within
<1>4. ASSUME NEW w \in Workers, Then(w) PROVE LRU(log, order)'
  <2>1. PICK b \in DOMAIN Batches :
          /\ order' = After(Filtered(b).out).order
          /\ log' = log \o [i \in Reached(Filtered(b).out) |-> Key[Filtered(b).out[i]]]
    BY <1>1, <1>4, ThenStep
  <2>2. Filtered(b).out \in Seq(Elems) /\ cap \in Nat
    BY <1>1, FilteredOK DEF Results, PoolTypes
  <2>3. LRU(log', order')
    BY <2>1, <2>2, BatchLRU DEF LRUInv
  <2> QED BY <1>2, <2>3 DEF LRU, Within
<1>5. UNCHANGED <<log, order>> \/ \E w \in Workers : Then(w)
  BY DEF Next, vars, WorkerStep, Receive, Lock, Else, SinkStep, Fold, Collect, PushSends,
         PushSheds, PushCancelled, Cancel, Read, Finished, poolVars
<1> QED
  BY <1>1, <1>3, <1>4, <1>5 DEF LRUInv

(* RemembersLikeLRU (dedupStage.seen): for every capacity, and in whatever  *)
(* order the workers come to the mutex, the stage remembers the keys that   *)
(* an LRU of that capacity remembers of the looks so far, in that order.    *)
THEOREM LikeLRU == Spec => []RemembersLikeLRU
<1>1. Init => LRUInv
  <2> SUFFICES ASSUME Init PROVE LRUInv
    OBVIOUS
  <2>1. BaseInv
    BY BaseInit
  <2>2. cap \in Nat /\ log = <<>> /\ order = <<>>
    BY <2>1 DEF BaseInv, PoolTypes, Init
  <2>3. LRU(log, order)
    BY <2>2 DEF LRU, Within, ToSet
  <2> QED BY <2>1, <2>3 DEF LRUInv
<1>2. Spec => []LRUInv
  BY <1>1, LRUStep, PTL DEF Spec
<1>3. LRUInv => RemembersLikeLRU
  <2> SUFFICES ASSUME LRUInv, NEW k \in ToSet(log)
               PROVE  LET n == Cardinality(Since(k))
                      IN IF cap = 0 \/ n <= cap THEN n \in DOMAIN order /\ order[n] = k
                         ELSE k \notin ToSet(order)
    BY DEF RemembersLikeLRU
  <2>1. Since(k) = SinceIn(log, k)
    BY DEF Since, SinceIn, LastLook, LastIn
  <2>2. LRU(log, order) /\ DOMAIN order = 1..Len(order)
    BY DEF LRUInv, LRU
  <2> QED BY <2>1, <2>2 DEF LRU, Within, Depth
<1> QED
  BY <1>2, <1>3, PTL

-----------------------------------------------------------------------------
(* Deduplicate with an unbounded set.                                       *)

LEMMA LearnsKey ==
    ASSUME cap = 0, NEW ord \in Seq(Keys), NEW k \in Keys
    PROVE  \A c : c \in ToSet(Looked(ord, k)) <=> c \in ToSet(ord) \/ c = k
<1>0. PICK n \in Nat : n = Len(ord) /\ DOMAIN ord = 1..n
  OBVIOUS
<1>1. CASE k \in ToSet(ord)
  <2> DEFINE new == Looked(ord, k)
  <2>1. new = MovedToFront(ord, k)
    BY <1>1 DEF Looked
  <2>2. PICK p \in 1..n :
          /\ ord[p] = k
          /\ new \in Seq(Keys)
          /\ Len(new) = n
          /\ new[1] = k
          /\ \A i \in 1..(p - 1) : new[i + 1] = ord[i]
          /\ \A i \in (p + 1)..n : new[i] = ord[i]
    BY <1>0, <1>1, <2>1, Moved
  <2> HIDE DEF new
  <2>3. ASSUME NEW i \in 1..n PROVE \E j \in 1..n : new[i] = ord[j]
    <3>1. CASE i \in 2..p
      <4>1. i - 1 \in 1..(p - 1) /\ (i - 1) + 1 = i /\ i - 1 \in 1..n
        BY <3>1
      <4>2. new[(i - 1) + 1] = ord[i - 1]
        BY <2>2, <4>1
      <4> QED BY <4>1, <4>2
    <3>2. CASE i = 1
      BY <2>2, <3>2
    <3>3. CASE i \in (p + 1)..n
      BY <2>2, <3>3
    <3>4. i = 1 \/ i \in 2..p \/ i \in (p + 1)..n
      OBVIOUS
    <3> QED BY <3>1, <3>2, <3>3, <3>4
  <2>4. ASSUME NEW i \in 1..n PROVE \E j \in 1..n : ord[i] = new[j]
    <3>1. CASE i \in 1..(p - 1)
      <4>1. i + 1 \in 1..n
        BY <3>1
      <4> QED BY <2>2, <3>1, <4>1
    <3>2. CASE i = p
      <4>1. 1 \in 1..n
        OBVIOUS
      <4> QED BY <2>2, <3>2, <4>1
    <3>3. CASE i \in (p + 1)..n
      BY <2>2, <3>3
    <3>4. i = p \/ i \in 1..(p - 1) \/ i \in (p + 1)..n
      OBVIOUS
    <3> QED BY <3>1, <3>2, <3>3, <3>4
  <2>5. DOMAIN new = 1..n
    BY <2>2
  <2>6. \A c : c \in ToSet(new) <=> c \in ToSet(ord)
    <3>1. \A c : c \in ToSet(new) <=> \E i \in 1..n : new[i] = c
      BY <2>5 DEF ToSet
    <3>2. \A c : c \in ToSet(ord) <=> \E i \in 1..n : ord[i] = c
      BY <1>0 DEF ToSet
    <3> QED BY <2>3, <2>4, <3>1, <3>2
  <2> QED BY <1>1, <2>6 DEF new
<1>2. CASE k \notin ToSet(ord)
  <2> DEFINE d == <<k>> \o ord
  <2>1. Looked(ord, k) = d
    BY <1>2 DEF Looked
  <2>2. Longer(d, Keys, ord, k)
    BY Pushed
  <2> HIDE DEF d
  <2>3. /\ DOMAIN d = 1..(n + 1) /\ d[1] = k
        /\ \A i \in 1..n : d[i + 1] = ord[i]
    BY <1>0, <2>2 DEF Longer
  <2>4. \A i \in 1..(n + 1) : i = 1 \/ (i - 1 \in 1..n /\ (i - 1) + 1 = i)
    OBVIOUS
  <2>5. \A i \in 1..n : i + 1 \in 1..(n + 1)
    OBVIOUS
  <2>6. 1 \in 1..(n + 1)
    OBVIOUS
  <2>7. ASSUME NEW c PROVE c \in ToSet(d) <=> c \in ToSet(ord) \/ c = k
    <3>1. c \in ToSet(d) => c \in ToSet(ord) \/ c = k
      <4> SUFFICES ASSUME NEW i \in 1..(n + 1), d[i] = c, c # k PROVE c \in ToSet(ord)
        BY <2>3 DEF ToSet
      <4>1. i - 1 \in 1..n /\ (i - 1) + 1 = i
        BY <2>3, <2>4
      <4>2. ord[i - 1] = c
        BY <2>3, <4>1
      <4> QED BY <1>0, <4>1, <4>2 DEF ToSet
    <3>2. c \in ToSet(ord) => c \in ToSet(d)
      BY <1>0, <2>3, <2>5 DEF ToSet
    <3>3. k \in ToSet(d)
      BY <2>3, <2>6 DEF ToSet
    <3> QED BY <3>1, <3>2, <3>3
  <2> QED BY <2>1, <2>7
<1> QED
  BY <1>1, <1>2

(* What Deduplicate has made of the first i elements: the keys it learnt    *)
(* are theirs, and of each key it did not know it has let one element pass. *)
Deduped(x, in, i) ==
    /\ \A k : k \in ToSet(x.order) <=> k \in ToSet(order) \/ \E j \in 1..i : Key[in[j]] = k
    /\ \A k : (\E m \in 1..Len(x.kept) : Key[x.kept[m]] = k) <=>
              k \in ToSet(x.order) /\ k \notin ToSet(order)
    /\ \A m, n \in 1..Len(x.kept) : Key[x.kept[m]] = Key[x.kept[n]] => m = n
    /\ \A m \in 1..Len(x.kept) : \E j \in 1..i : x.kept[m] = in[j]

LEMMA LookDeduped ==
    ASSUME cap = 0, NEW in \in Seq(Elems), NEW i \in 1..Len(in), NEW x \in Steps,
           Deduped(x, in, i - 1)
    PROVE  Deduped(Look(x, in[i]), in, i)
<1> DEFINE e == in[i]
           k == Key[e]
<1>1. e \in Elems /\ k \in Keys /\ x.order \in Seq(Keys) /\ x.kept \in Seq(Elems)
  BY DEF Keys, Steps
<1>2. Look(x, e).order = Looked(x.order, k)
  BY DEF Look
<1>3. \A c : c \in ToSet(Looked(x.order, k)) <=> c \in ToSet(x.order) \/ c = k
  BY <1>1, LearnsKey
<1>4. \A j : j \in 1..i <=> j \in 1..(i - 1) \/ j = i
  OBVIOUS
<1>5. \A c : c \in ToSet(Look(x, e).order) <=>
             c \in ToSet(order) \/ \E j \in 1..i : Key[in[j]] = c
  BY <1>2, <1>3, <1>4 DEF Deduped
<1>6. CASE k \in ToSet(x.order)
  <2>1. Look(x, e).kept = x.kept
    BY <1>6 DEF Look
  <2>2. \A c : c \in ToSet(Look(x, e).order) <=> c \in ToSet(x.order)
    BY <1>2, <1>3, <1>6
  <2>3. \A m \in 1..Len(x.kept) : \E j \in 1..i : x.kept[m] = in[j]
    BY <1>4 DEF Deduped
  <2> HIDE DEF e, k
  <2>4. Deduped(Look(x, e), in, i)
    BY <1>5, <2>1, <2>2, <2>3 DEF Deduped
  <2> QED BY <2>4 DEF e
<1>7. CASE k \notin ToSet(x.order)
  <2>1. Look(x, e).kept = Append(x.kept, e)
    BY <1>7 DEF Look
  <2> HIDE DEF e
  <2>2. PICK l \in Nat : l = Len(x.kept)
    BY <1>1
  <2> DEFINE s == Append(x.kept, e)
  <2>3. /\ Len(s) = l + 1 /\ s[l + 1] = e
        /\ \A m \in 1..l : s[m] = x.kept[m]
    BY <1>1, <2>2
  <2> HIDE DEF s
  <2>4. \A m : m \in 1..(l + 1) <=> m \in 1..l \/ m = l + 1
    OBVIOUS
  <2>5. ASSUME NEW c
        PROVE  (\E m \in 1..(l + 1) : Key[s[m]] = c) <=>
               c \in ToSet(Look(x, e).order) /\ c \notin ToSet(order)
    <3>1. (\E m \in 1..(l + 1) : Key[s[m]] = c) <=>
          c = k \/ \E m \in 1..l : Key[x.kept[m]] = c
      BY <2>3, <2>4
    <3>2. k \notin ToSet(order)
      BY <1>7 DEF Deduped
    <3> QED BY <1>2, <1>3, <2>2, <3>1, <3>2 DEF Deduped
  <2>6. ASSUME NEW m \in 1..(l + 1), NEW n \in 1..(l + 1), Key[s[m]] = Key[s[n]]
        PROVE  m = n
    <3>1. \A a \in 1..l : Key[x.kept[a]] # k
      BY <1>7, <2>2 DEF Deduped
    <3>2. \A a, b \in 1..l : Key[x.kept[a]] = Key[x.kept[b]] => a = b
      BY <2>2 DEF Deduped
    <3> QED BY <2>3, <2>4, <2>6, <3>1, <3>2
  <2>7. \A m \in 1..(l + 1) : \E j \in 1..i : s[m] = in[j]
    <3>1. \A m \in 1..l : \E j \in 1..(i - 1) : x.kept[m] = in[j]
      BY <2>2 DEF Deduped
    <3>2. s[l + 1] = in[i] /\ i \in 1..i
      BY <2>3 DEF e
    <3> QED BY <1>4, <2>3, <2>4, <3>1, <3>2
  <2>8. Look(x, e).kept = s
    BY <2>1 DEF s
  <2> QED BY <1>5, <2>3, <2>5, <2>6, <2>7, <2>8 DEF Deduped, e
<1> QED
  BY <1>6, <1>7

LEMMA BatchDeduped ==
    ASSUME cap = 0, NEW in \in Seq(Elems), order \in Seq(Keys)
    PROVE  Deduped(After(in), in, Cardinality(Reached(in)))
<1>1. PICK n \in Nat : n = Cardinality(Reached(in)) /\ n <= Len(in)
  <2>1. Cardinality(Reached(in)) \in 0..Len(in)
    BY ReachedFacts
  <2> QED BY <2>1
<1>2. PICK g : AfterRun(g, in)
  BY AfterLoop
<1>3. /\ g \in [0..n -> Steps]
      /\ g[0] = [order |-> order, kept |-> <<>>]
      /\ \A i \in 1..n : g[i] = Look(g[i - 1], in[i])
      /\ After(in) = g[n]
  BY <1>1, <1>2 DEF AfterRun
<1> DEFINE T == {i \in 0..n : Deduped(g[i], in, i)}
<1>4. 0 \in T
  <2>1. g[0].order = order /\ g[0].kept = <<>>
    BY <1>3
  <2>2. Deduped(g[0], in, 0)
    BY <2>1 DEF Deduped
  <2> QED BY <2>2
<1>5. ASSUME NEW i \in 1..n, i - 1 \in T PROVE i \in T
  <2>1. i \in 1..Len(in) /\ i \in 0..n /\ i - 1 \in 0..n
    BY <1>1
  <2>2. PICK x \in Steps : x = g[i - 1]
    BY <1>3, <2>1
  <2>3. Deduped(x, in, i - 1)
    BY <1>5, <2>2
  <2>4. Deduped(Look(x, in[i]), in, i)
    BY <2>1, <2>3, LookDeduped
  <2>5. g[i] = Look(x, in[i])
    BY <1>3, <2>2
  <2> QED BY <2>1, <2>4, <2>5
<1>6. n \in T
  <2> HIDE DEF T
  <2>1. 0..n \subseteq T
    BY <1>4, <1>5, UpTo
  <2> QED BY <2>1
<1> QED
  BY <1>1, <1>3, <1>6

LEMMA Elements ==
    ASSUME NEW S, NEW s \in Seq(S)
    PROVE  /\ DOMAIN s = 1..Len(s)
           /\ Len(s) \in Nat
           /\ \A e : e \in ToSet(s) <=> \E i \in 1..Len(s) : s[i] = e
           /\ \A i \in 1..Len(s) : s[i] \in S
  BY DEF ToSet

(* What Deduplicate reaches of what is left of a batch is what it looks at. *)
LEMMA LooksFacts ==
    ASSUME NEW b \in DOMAIN Batches
    PROVE  LET in == Filtered(b).out
               r == Cardinality(Reached(in))
           IN /\ \A i \in 1..r : in[i] \in Looks(b)
              /\ r = Len(in) => \A e \in Looks(b) : \E i \in 1..r : in[i] = e
<1> DEFINE in == Filtered(b).out
           B == Batches[b]
           T == Kept(B, ThenElems)
<1>1. B \in Seq(Elems) /\ T \in Seq(Elems)
  BY BatchFacts
<1>2. in = Kept(T, Elems \ Rejected) /\ in \in Seq(Elems)
  BY <1>1, FilterFacts DEF Filtered
<1>3. \A e : e \in ToSet(T) <=> e \in ToSet(B) /\ e \in ThenElems
  BY <1>1, KeptFacts
<1> HIDE DEF T
<1>4. \A e : e \in ToSet(in) <=> e \in ToSet(T) /\ e \in Elems \ Rejected
  BY <1>1, <1>2, KeptFacts
<1>5. \A e : e \in ToSet(B) => e \in Elems
  BY <1>1, Elements
<1>6. PICK n \in Nat : n = Len(in)
  BY <1>2
<1> HIDE DEF in
<1>7. \A e : e \in ToSet(in) <=> \E i \in 1..n : in[i] = e
  BY <1>2, <1>6, Elements
<1>8. PICK r \in 0..n : r = Cardinality(Reached(in)) /\ Reached(in) = 1..r
  BY <1>2, <1>6, ReachedFacts
<1>9. \A i \in 1..r : in[i] \notin Unkeyed
  BY <1>8 DEF Reached
<1>10. ASSUME NEW i \in 1..r PROVE in[i] \in Looks(b)
  <2>1. i \in 1..n
    OBVIOUS
  <2>2. in[i] \in ToSet(in)
    BY <1>7, <2>1
  <2>3. in[i] \in ToSet(B) /\ in[i] \in ThenElems /\ in[i] \notin Rejected
    BY <1>3, <1>4, <2>2
  <2> QED BY <1>9, <2>3 DEF Looks
<1>11. ASSUME r = n, NEW e \in Looks(b) PROVE \E i \in 1..r : in[i] = e
  <2>1. e \in ToSet(B) /\ e \in ThenElems /\ e \notin Rejected
    BY DEF Looks
  <2>2. e \in ToSet(in)
    BY <1>3, <1>4, <1>5, <2>1
  <2> QED BY <1>7, <1>11, <2>2
<1> QED
  BY <1>6, <1>8, <1>10, <1>11 DEF in

-----------------------------------------------------------------------------
(* Where the batches are: each is waiting, in the hands of one worker,      *)
(* through, or lost to a failure.                                           *)

Apart ==
    /\ \A w \in Workers : Busy(w) => work[w].batch \notin waiting \union DOMAIN passed
    /\ \A w, v \in Workers : Busy(w) /\ Busy(v) /\ work[w].batch = work[v].batch => w = v
    /\ waiting \intersect DOMAIN passed = {}
Failed(b) ==
    /\ b \in DOMAIN Batches \ (waiting \union DOMAIN passed)
    /\ \A w \in Workers : Busy(w) => work[w].batch # b
Through(b, s) ==
    \/ b \in DOMAIN passed /\ s = passed[b]
    \/ \E w \in Workers : work[w].at = "else" /\ work[w].batch = b /\ work[w].then.out = s

(* The steps of the workers, told by what they do to this.                  *)
LEMMA ReceiveMoves ==
    ASSUME PoolTypes, Apart, NEW w \in Workers, Receive(w)
    PROVE  /\ Apart'
           /\ \A b : Failed(b)' <=> Failed(b)
           /\ \A b, s : Through(b, s)' <=> Through(b, s)
<1>1. PICK b \in waiting :
         /\ waiting' = waiting \ {b}
         /\ work' = [work EXCEPT ![w] = Item("lock", b, Filtered(b))]
         /\ passed' = passed
         /\ work[w].at = "idle"
  BY DEF Receive, Item, Filtered, Given
<1>2. /\ work'[w] = Item("lock", b, Filtered(b))
      /\ \A v \in Workers : v # w => work'[v] = work[v]
  BY <1>1, WorkStep
<1>3. work'[w].at = "lock" /\ work'[w].batch = b
  BY <1>2 DEF Item
<1>4. Apart'
  BY <1>1, <1>2, <1>3 DEF Apart, Busy
<1>5. \A c : Failed(c)' <=> Failed(c)
  BY <1>1, <1>2, <1>3 DEF Failed, Busy, PoolTypes
<1>6. \A c, s : Through(c, s)' <=> Through(c, s)
  BY <1>1, <1>2, <1>3 DEF Through
<1> QED
  BY <1>4, <1>5, <1>6

LEMMA LockMoves ==
    ASSUME PoolTypes, Apart, NEW w \in Workers, Lock(w)
    PROVE  /\ Apart'
           /\ \A b : Failed(b)' <=> Failed(b)
           /\ \A b, s : Through(b, s)' <=> Through(b, s)
<1>1. PICK b \in DOMAIN Batches :
         /\ work[w] = Item("lock", b, Filtered(b))
         /\ work' = [work EXCEPT ![w] = Item("then", b, Filtered(b))]
  BY LockStep
<1>2. /\ work'[w] = Item("then", b, Filtered(b))
      /\ \A v \in Workers : v # w => work'[v] = work[v]
  BY <1>1, WorkStep
<1>3. /\ work'[w].at = "then" /\ work'[w].batch = b
      /\ work[w].at = "lock" /\ work[w].batch = b
  BY <1>1, <1>2 DEF Item
<1>4. waiting' = waiting /\ passed' = passed
  BY DEF Lock
<1>5. Apart'
  BY <1>2, <1>3, <1>4 DEF Apart, Busy
<1>6. \A c : Failed(c)' <=> Failed(c)
  BY <1>2, <1>3, <1>4 DEF Failed, Busy
<1>7. \A c, s : Through(c, s)' <=> Through(c, s)
  BY <1>2, <1>3, <1>4 DEF Through
<1> QED
  BY <1>5, <1>6, <1>7

LEMMA FailMoves ==
    ASSUME PoolTypes, Apart, NEW w \in Workers, Busy(w), NEW b \in DOMAIN Batches,
           work[w].batch = b,
           NEW x \in {Idle, Gone}, work' = [work EXCEPT ![w] = x],
           UNCHANGED <<waiting, passed>>
    PROVE  /\ Apart'
           /\ \A c : Failed(c)' <=> Failed(c) \/ c = b
           /\ ~Failed(b)
           /\ \A c, s : Through(c, s)' <=> Through(c, s) /\ c # b
<1>1. /\ work'[w] = x
      /\ \A v \in Workers : v # w => work'[v] = work[v]
  BY WorkStep
<1>2. work'[w].at \in {"idle", "gone"}
  BY <1>1 DEF Idle, Gone
<1>3. Apart'
  BY <1>1, <1>2 DEF Apart, Busy
<1>4. \A c : Failed(c)' <=> Failed(c) \/ c = b
  BY <1>1, <1>2 DEF Failed, Busy, Apart
<1>5. \A c, s : Through(c, s)' <=> Through(c, s) /\ c # b
  <2>1. \A v \in Workers : v # w /\ work[v].at = "else" => work[v].batch # b
    BY DEF Apart, Busy
  <2>2. b \notin DOMAIN passed
    BY DEF Apart
  <2> QED BY <1>1, <1>2, <2>1, <2>2 DEF Through
<1> QED
  BY <1>3, <1>4, <1>5 DEF Failed

LEMMA GoesOnMoves ==
    ASSUME PoolTypes, Apart, NEW w \in Workers, NEW b \in DOMAIN Batches, NEW then,
           work[w] = Item("then", b, Filtered(b)), work' = [work EXCEPT ![w] = Item("else", b, then)],
           UNCHANGED <<waiting, passed>>
    PROVE  /\ Apart'
           /\ \A c : Failed(c)' <=> Failed(c)
           /\ \A s : ~Through(b, s)
           /\ \A c, s : Through(c, s)' <=> Through(c, s) \/ (c = b /\ s = then.out)
<1>1. /\ work'[w] = Item("else", b, then)
      /\ \A v \in Workers : v # w => work'[v] = work[v]
  BY WorkStep
<1>2. /\ work'[w].at = "else" /\ work'[w].batch = b /\ work'[w].then = then
      /\ work[w].at = "then" /\ work[w].batch = b
  BY <1>1 DEF Item
<1>3. Apart'
  BY <1>1, <1>2 DEF Apart, Busy
<1>4. \A c : Failed(c)' <=> Failed(c)
  BY <1>1, <1>2 DEF Failed, Busy
<1>5. \A s : ~Through(b, s)
  BY <1>2 DEF Through, Apart, Busy
<1>6. \A c, s : Through(c, s)' <=> Through(c, s) \/ (c = b /\ s = then.out)
  BY <1>1, <1>2 DEF Through
<1> QED
  BY <1>3, <1>4, <1>5, <1>6

LEMMA ThroughMoves ==
    ASSUME PoolTypes, Apart, NEW w \in Workers, NEW b \in DOMAIN Batches, NEW then,
           work[w] = Item("else", b, then),
           NEW x \in {Idle, Gone}, work' = [work EXCEPT ![w] = x],
           passed' = [c \in DOMAIN passed \union {b} |-> IF c = b THEN then.out ELSE passed[c]],
           waiting' = waiting
    PROVE  /\ Apart'
           /\ \A c : Failed(c)' <=> Failed(c)
           /\ \A c, s : Through(c, s)' <=> Through(c, s)
<1>1. /\ work'[w] = x
      /\ \A v \in Workers : v # w => work'[v] = work[v]
  BY WorkStep
<1>2. /\ work'[w].at \in {"idle", "gone"}
      /\ work[w].at = "else" /\ work[w].batch = b /\ work[w].then = then
  BY <1>1 DEF Idle, Gone, Item
<1>3. /\ DOMAIN passed' = DOMAIN passed \union {b}
      /\ passed'[b] = then.out
      /\ \A c \in DOMAIN passed : c # b => passed'[c] = passed[c]
  OBVIOUS
<1>4. b \notin DOMAIN passed /\ b \notin waiting
  BY <1>2 DEF Apart, Busy
<1>5. Apart'
  BY <1>1, <1>2, <1>3, <1>4 DEF Apart, Busy
<1>6. \A c : Failed(c)' <=> Failed(c)
  BY <1>1, <1>2, <1>3, <1>4 DEF Failed, Busy
<1>7. \A c, s : Through(c, s)' <=> Through(c, s)
  <2>1. \A v \in Workers : v # w /\ work[v].at = "else" => work[v].batch # b
    BY <1>2 DEF Apart, Busy
  <2> QED BY <1>1, <1>2, <1>3, <1>4, <2>1 DEF Through
<1> QED
  BY <1>5, <1>6, <1>7

-----------------------------------------------------------------------------
(* With an unbounded set: of each key known, one element is through, or a   *)
(* batch that failed has taught it.                                         *)

Place(b, i, k) == \E s : Through(b, s) /\ i \in DOMAIN s /\ Key[s[i]] = k
LearntLost(k) == \E c : Failed(c) /\ \E d \in Looks(c) : Key[d] = k
OneInv ==
    /\ \A b, s : Through(b, s) => /\ \A i \in DOMAIN s : s[i] \in Looks(b)
                                  /\ \A e \in Looks(b) : Key[e] \in ToSet(order)
    /\ \A b, i, k : Place(b, i, k) => k \in ToSet(order)
    /\ \A b, i, c, j, k : Place(b, i, k) /\ Place(c, j, k) => b = c /\ i = j
    /\ \A k \in ToSet(order) : LearntLost(k) \/ \E b, i : Place(b, i, k)

LEMMA SameOne ==
    ASSUME OneInv, order' = order,
           \A c : Failed(c)' <=> Failed(c),
           \A c, s : Through(c, s)' <=> Through(c, s)
    PROVE  OneInv'
<1>1. \A c, i, k : Place(c, i, k)' <=> Place(c, i, k)
  BY DEF Place
<1>2. \A k : LearntLost(k)' <=> LearntLost(k)
  BY DEF LearntLost, Looks
<1>3. \A b, s : Through(b, s)' => /\ \A i \in DOMAIN s : s[i] \in Looks(b)
                                  /\ \A e \in Looks(b) : Key[e] \in ToSet(order')
  BY DEF OneInv
<1>4. \A b, i, k : Place(b, i, k)' => k \in ToSet(order')
  BY <1>1 DEF OneInv
<1>5. \A b, i, c, j, k : Place(b, i, k)' /\ Place(c, j, k)' => b = c /\ i = j
  BY <1>1 DEF OneInv
<1>6. \A k \in ToSet(order') : LearntLost(k)' \/ \E b, i : Place(b, i, k)'
  BY <1>1, <1>2 DEF OneInv
<1> QED
  BY <1>3, <1>4, <1>5, <1>6 DEF OneInv, Looks

(* Batch b fails, having taught the stage some of its keys.                 *)
LEMMA FailOne ==
    ASSUME OneInv, NEW b,
           \A k : k \in ToSet(order) => k \in ToSet(order'),
           \A k : k \in ToSet(order') =>
                    k \in ToSet(order) \/ \E d \in Looks(b) : Key[d] = k,
           \A c : Failed(c)' <=> Failed(c) \/ c = b,
           \A c, s : Through(c, s)' <=> Through(c, s) /\ c # b
    PROVE  OneInv'
<1>1. \A c, i, k : Place(c, i, k)' <=> Place(c, i, k) /\ c # b
  BY DEF Place
<1>2. \A k : LearntLost(k)' <=> LearntLost(k) \/ \E d \in Looks(b) : Key[d] = k
  BY DEF LearntLost, Looks
<1>3. \A c, s : Through(c, s)' => /\ \A i \in DOMAIN s : s[i] \in Looks(c)
                                  /\ \A e \in Looks(c) : Key[e] \in ToSet(order')
  BY DEF OneInv
<1>4. \A c, i, k : Place(c, i, k)' => k \in ToSet(order')
  BY <1>1 DEF OneInv
<1>5. \A a, i, c, j, k : Place(a, i, k)' /\ Place(c, j, k)' => a = c /\ i = j
  BY <1>1 DEF OneInv
<1>6. ASSUME NEW k \in ToSet(order'), ~LearntLost(k)' PROVE \E c, i : Place(c, i, k)'
  <2>1. k \in ToSet(order) /\ ~LearntLost(k) /\ ~\E d \in Looks(b) : Key[d] = k
    BY <1>2, <1>6
  <2>2. PICK c, i : Place(c, i, k)
    BY <2>1 DEF OneInv
  <2>3. c # b
    BY <2>1, <2>2 DEF OneInv, Place
  <2> QED BY <1>1, <2>2, <2>3
<1> QED
  BY <1>3, <1>4, <1>5, <1>6 DEF OneInv, Looks

(* Batch b comes through the then-branch, s is what is left of it.          *)
LEMMA PassOne ==
    ASSUME OneInv, NEW b, NEW s,
           \A i \in DOMAIN s : s[i] \in Looks(b),
           \A e \in Looks(b) : Key[e] \in ToSet(order'),
           \A k : k \in ToSet(order) => k \in ToSet(order'),
           \A k : (\E i \in DOMAIN s : Key[s[i]] = k) <=>
                    k \in ToSet(order') /\ k \notin ToSet(order),
           \A i, j \in DOMAIN s : Key[s[i]] = Key[s[j]] => i = j,
           \A c : Failed(c)' <=> Failed(c),
           \A t : ~Through(b, t),
           \A c, t : Through(c, t)' <=> Through(c, t) \/ (c = b /\ t = s)
    PROVE  OneInv'
<1>1. \A c, i, k : Place(c, i, k)' <=>
                     Place(c, i, k) \/ (c = b /\ i \in DOMAIN s /\ Key[s[i]] = k)
  BY DEF Place
<1>2. \A k : LearntLost(k)' <=> LearntLost(k)
  BY DEF LearntLost, Looks
<1>3. \A c, t : Through(c, t)' => /\ \A i \in DOMAIN t : t[i] \in Looks(c)
                                  /\ \A e \in Looks(c) : Key[e] \in ToSet(order')
  BY DEF OneInv
<1>4. \A c, i, k : Place(c, i, k)' => k \in ToSet(order')
  BY <1>1 DEF OneInv
<1>5. ASSUME NEW a, NEW i, NEW c, NEW j, NEW k, Place(a, i, k)', Place(c, j, k)'
      PROVE  a = c /\ i = j
  <2>1. CASE Place(a, i, k) /\ Place(c, j, k)
    BY <2>1 DEF OneInv
  <2>2. CASE Place(a, i, k) /\ ~Place(c, j, k)
    <3>1. k \in ToSet(order)
      BY <2>2 DEF OneInv
    <3>2. j \in DOMAIN s /\ Key[s[j]] = k
      BY <1>1, <1>5, <2>2
    <3> QED BY <3>1, <3>2
  <2>3. CASE ~Place(a, i, k) /\ Place(c, j, k)
    <3>1. k \in ToSet(order)
      BY <2>3 DEF OneInv
    <3>2. i \in DOMAIN s /\ Key[s[i]] = k
      BY <1>1, <1>5, <2>3
    <3> QED BY <3>1, <3>2
  <2>4. CASE ~Place(a, i, k) /\ ~Place(c, j, k)
    BY <1>1, <1>5, <2>4
  <2> QED BY <2>1, <2>2, <2>3, <2>4
<1>6. ASSUME NEW k \in ToSet(order') PROVE LearntLost(k)' \/ \E c, i : Place(c, i, k)'
  <2>1. CASE k \in ToSet(order)
    BY <1>1, <1>2, <2>1 DEF OneInv
  <2>2. CASE k \notin ToSet(order)
    <3>1. PICK i \in DOMAIN s : Key[s[i]] = k
      BY <2>2
    <3> QED BY <1>1, <3>1
  <2> QED BY <2>1, <2>2
<1> QED
  BY <1>3, <1>4, <1>5, <1>6 DEF OneInv, Looks

(* Then and Else, told by what they do to where the batches are.            *)
LEMMA ThenMoves ==
    ASSUME PoolTypes, Apart, NEW w \in Workers, Then(w)
    PROVE  /\ Apart'
           /\ (cap = 0 /\ OneInv) => OneInv'
<1>1. PICK b \in DOMAIN Batches :
         /\ work[w] = Item("then", b, Filtered(b))
         /\ order' = After(Filtered(b).out).order
         /\ Fails(w, b) \/ \E then : GoesOn(w, b, then)
  BY ThenStep
<1>2. Busy(w) /\ work[w].batch = b
  BY <1>1 DEF Busy, Item
<1>3. UNCHANGED <<waiting, passed>>
  BY DEF Then
<1>4. PICK in \in Seq(Elems) : in = Filtered(b).out
  BY FilteredOK DEF Results
<1>5. PICK r \in Nat : r = Cardinality(Reached(in))
  BY <1>4, ReachedFacts
<1>6. /\ \A i \in 1..r : in[i] \in Looks(b)
      /\ r = Len(in) => \A e \in Looks(b) : \E i \in 1..r : in[i] = e
  BY <1>4, <1>5, LooksFacts
<1>7. ASSUME cap = 0
      PROVE  /\ Deduped(After(in), in, r)
             /\ \A k : k \in ToSet(order') <=>
                       k \in ToSet(order) \/ \E j \in 1..r : Key[in[j]] = k
  <2>1. Deduped(After(in), in, r)
    BY <1>4, <1>5, <1>7, BatchDeduped DEF PoolTypes
  <2> QED BY <1>1, <1>4, <2>1 DEF Deduped
<1>8. CASE Fails(w, b)
  <2>1. work' = [work EXCEPT ![w] = Idle]
    BY <1>8 DEF Fails
  <2>2. /\ Apart'
        /\ \A c : Failed(c)' <=> Failed(c) \/ c = b
        /\ \A c, s : Through(c, s)' <=> Through(c, s) /\ c # b
    BY <1>2, <1>3, <2>1, FailMoves
  <2>3. ASSUME cap = 0, OneInv PROVE OneInv'
    <3>1. \A k : k \in ToSet(order) => k \in ToSet(order')
      BY <1>7, <2>3
    <3>2. \A k : k \in ToSet(order') =>
                   k \in ToSet(order) \/ \E d \in Looks(b) : Key[d] = k
      BY <1>6, <1>7, <2>3
    <3> QED BY <2>2, <2>3, <3>1, <3>2, FailOne
  <2> QED BY <2>2, <2>3
<1>9. ASSUME NEW then, GoesOn(w, b, then)
      PROVE  Apart' /\ ((cap = 0 /\ OneInv) => OneInv')
  <2>1. /\ work' = [work EXCEPT ![w] = Item("else", b, then)]
        /\ then.out = After(in).kept
        /\ r = Len(in)
        /\ then.out \in Seq(Elems)
    BY <1>4, <1>5, <1>9 DEF GoesOn, Results
  <2>2. /\ Apart'
        /\ \A c : Failed(c)' <=> Failed(c)
        /\ \A s : ~Through(b, s)
        /\ \A c, s : Through(c, s)' <=> Through(c, s) \/ (c = b /\ s = then.out)
    BY <1>1, <1>3, <2>1, GoesOnMoves
  <2>3. ASSUME cap = 0, OneInv PROVE OneInv'
    <3> DEFINE s == then.out
    <3>1. DOMAIN s = 1..Len(s)
      BY <2>1
    <3>2. /\ \A k : (\E m \in 1..Len(s) : Key[s[m]] = k) <=>
                    k \in ToSet(order') /\ k \notin ToSet(order)
          /\ \A m, n \in 1..Len(s) : Key[s[m]] = Key[s[n]] => m = n
          /\ \A m \in 1..Len(s) : \E j \in 1..r : s[m] = in[j]
      BY <1>1, <1>4, <1>7, <2>1, <2>3 DEF Deduped
    <3>3. \A k : k \in ToSet(order) => k \in ToSet(order')
      BY <1>7, <2>3
    <3>4. \A e \in Looks(b) : Key[e] \in ToSet(order')
      BY <1>6, <1>7, <2>1, <2>3
    <3>5. \A i \in DOMAIN s : s[i] \in Looks(b)
      BY <1>6, <3>1, <3>2
    <3> HIDE DEF s
    <3>6. \A k : (\E i \in DOMAIN s : Key[s[i]] = k) <=>
                 k \in ToSet(order') /\ k \notin ToSet(order)
      BY <3>1, <3>2
    <3>7. \A i, j \in DOMAIN s : Key[s[i]] = Key[s[j]] => i = j
      BY <3>1, <3>2
    <3>8. \A c, t : Through(c, t)' <=> Through(c, t) \/ (c = b /\ t = s)
      BY <2>2 DEF s
    <3> QED BY <2>2, <2>3, <3>3, <3>4, <3>5, <3>6, <3>7, <3>8, PassOne
  <2> QED BY <2>2, <2>3
<1> QED
  BY <1>1, <1>8, <1>9

LEMMA ElseMoves ==
    ASSUME PoolTypes, Apart, NEW w \in Workers, Else(w)
    PROVE  /\ Apart'
           /\ OneInv => OneInv'
<1>1. PICK b \in DOMAIN Batches, then \in Results :
         /\ work[w] = Item("else", b, then)
         /\ \E x \in {Idle, Gone} : work' = [work EXCEPT ![w] = x]
         /\ LosesBoth(w, b, then) \/ ComesThrough(w, b, then)
  BY ElseStep
<1>2. Busy(w) /\ work[w].batch = b
  BY <1>1 DEF Busy, Item
<1>3. waiting' = waiting /\ order' = order
  BY DEF Else
<1>4. CASE LosesBoth(w, b, then)
  <2>1. passed' = passed
    BY <1>4 DEF LosesBoth
  <2>2. /\ Apart'
        /\ \A c : Failed(c)' <=> Failed(c) \/ c = b
        /\ \A c, s : Through(c, s)' <=> Through(c, s) /\ c # b
    BY <1>1, <1>2, <1>3, <2>1, FailMoves
  <2> QED BY <1>3, <2>2, FailOne
<1>5. CASE ComesThrough(w, b, then)
  <2>1. passed' = [c \in DOMAIN passed \union {b} |-> IF c = b THEN then.out ELSE passed[c]]
    BY <1>5 DEF ComesThrough
  <2>2. /\ Apart'
        /\ \A c : Failed(c)' <=> Failed(c)
        /\ \A c, s : Through(c, s)' <=> Through(c, s)
    BY <1>1, <1>3, <2>1, ThroughMoves
  <2> QED BY <1>3, <2>2, SameOne
<1> QED
  BY <1>1, <1>4, <1>5

MoveInv == BaseInv /\ Apart /\ (cap = 0 => OneInv)

LEMMA MoveInit == Init => MoveInv
<1> SUFFICES ASSUME Init PROVE MoveInv
  OBVIOUS
<1>1. /\ waiting = DOMAIN Batches /\ order = <<>> /\ DOMAIN passed = {}
      /\ \A w \in Workers : work[w].at = "idle"
  BY DEF Init, Idle
<1>2. Apart
  BY <1>1 DEF Apart, Busy
<1>3. \A b, s : ~Through(b, s)
  BY <1>1 DEF Through
<1>4. \A k : k \notin ToSet(order)
  BY <1>1 DEF ToSet
<1>5. \A b, i, k : ~Place(b, i, k)
  BY <1>3 DEF Place
<1>6. OneInv
  BY <1>3, <1>4, <1>5 DEF OneInv
<1> QED
  BY <1>2, <1>6, BaseInit DEF MoveInv

LEMMA MoveStep == MoveInv /\ [Next]_vars => MoveInv'
<1> SUFFICES ASSUME MoveInv, [Next]_vars PROVE MoveInv'
  OBVIOUS
<1>1. BaseInv' /\ PoolTypes /\ Apart
  BY BaseStep DEF MoveInv, BaseInv
<1>2. cap' = cap
  BY DEF Next, vars, WorkerStep, Receive, Lock, Then, Else, SinkStep, Fold, Collect, PushSends,
         PushSheds, PushCancelled, Cancel, Read, Finished
<1>3. ASSUME NEW w \in Workers, WorkerStep(w)
      PROVE  Apart' /\ ((cap = 0 /\ OneInv) => OneInv')
  <2>1. CASE Receive(w)
    <3>1. order' = order
      BY <2>1 DEF Receive
    <3> QED BY <1>1, <2>1, <3>1, ReceiveMoves, SameOne
  <2>2. CASE Lock(w)
    <3>1. order' = order
      BY <2>2 DEF Lock
    <3> QED BY <1>1, <2>2, <3>1, LockMoves, SameOne
  <2>3. CASE Then(w)
    BY <1>1, <2>3, ThenMoves
  <2>4. CASE Else(w)
    BY <1>1, <2>4, ElseMoves
  <2> QED BY <1>3, <2>1, <2>2, <2>3, <2>4 DEF WorkerStep
<1>4. CASE UNCHANGED <<waiting, work, passed, order>>
  <2>1. waiting' = waiting /\ work' = work /\ passed' = passed /\ order' = order
    BY <1>4
  <2>2. Apart' /\ \A c : Failed(c)' <=> Failed(c)
    BY <1>1, <2>1 DEF Apart, Busy, Failed
  <2>3. \A c, s : Through(c, s)' <=> Through(c, s)
    BY <2>1 DEF Through
  <2> QED BY <1>1, <1>2, <2>1, <2>2, <2>3, SameOne DEF MoveInv
<1>5. UNCHANGED <<waiting, work, passed, order>> \/ \E w \in Workers : WorkerStep(w)
  BY DEF Next, vars, SinkStep, Fold, Collect, PushSends,
         PushSheds, PushCancelled, Cancel, Read, Finished, poolVars
<1> QED
  BY <1>1, <1>2, <1>3, <1>4, <1>5 DEF MoveInv

(* ExactlyOne (dedupStage.Process, ifStage.Process): with an unbounded set, *)
(* whatever the batches, the workers and their order, exactly one element   *)
(* of every key looked at is through once the pool is done, or none is and  *)
(* a batch that failed has taught the stage the key.                        *)
THEOREM OnePerKey == Spec => []ExactlyOne
<1>1. Spec => []MoveInv
  BY MoveInit, MoveStep, PTL DEF Spec
<1>2. MoveInv => ExactlyOne
  <2> SUFFICES ASSUME MoveInv, cap = 0, PoolDone, NEW b \in DOMAIN Batches, NEW e \in Looks(b)
               PROVE  \/ Cardinality(Passes(Key[e])) = 1
                      \/ /\ Passes(Key[e]) = {}
                         /\ \E c \in DOMAIN Batches \ DOMAIN passed :
                              \E d \in Looks(c) : Key[d] = Key[e]
    BY DEF ExactlyOne
  <2> DEFINE k == Key[e]
  <2>1. OneInv /\ PoolTypes
    BY DEF MoveInv, BaseInv
  <2>2. waiting = {} /\ \A w \in Workers : work[w].at \in {"idle", "gone"}
    BY DEF PoolDone, Busy
  <2>3. \A c, s : Through(c, s) <=> c \in DOMAIN passed /\ s = passed[c]
    BY <2>2 DEF Through
  <2>4. \A c, i : Place(c, i, k) <=>
                    c \in DOMAIN passed /\ i \in DOMAIN passed[c] /\ Key[passed[c][i]] = k
    BY <2>3 DEF Place
  <2>5. \A c, i : <<c, i>> \in Passes(k) <=> Place(c, i, k)
    BY <2>4 DEF Passes
  <2>6. \A p \in Passes(k) : \E c, i : p = <<c, i>>
    BY DEF Passes
  <2>7. CASE \E c, i : Place(c, i, k)
    <3>1. PICK c, i : Place(c, i, k)
      BY <2>7
    <3>2. \A d, j : Place(d, j, k) => d = c /\ j = i
      BY <2>1, <3>1 DEF OneInv
    <3>3. Passes(k) = {<<c, i>>}
      BY <2>5, <2>6, <3>1, <3>2
    <3> QED BY <3>3, FS_Singleton
  <2>8. CASE ~\E c, i : Place(c, i, k)
    <3>1. Passes(k) = {}
      BY <2>5, <2>6, <2>8
    <3>2. LearntLost(k)
      <4>1. CASE b \in DOMAIN passed
        <5>1. k \in ToSet(order)
          BY <2>1, <2>3, <4>1 DEF OneInv
        <5> QED BY <2>1, <2>8, <5>1 DEF OneInv
      <4>2. CASE b \notin DOMAIN passed
        <5>1. Failed(b)
          BY <2>2, <4>2 DEF Failed, Busy
        <5> QED BY <5>1 DEF LearntLost
      <4> QED BY <4>1, <4>2
    <3> QED BY <3>1, <3>2 DEF LearntLost, Failed
  <2> QED BY <2>7, <2>8
<1> QED
  BY <1>1, <1>2, PTL

-----------------------------------------------------------------------------
(* The counters of the If stage.                                            *)

Cells(seqs) == UNION {{b} \X DOMAIN seqs[b] : b \in DOMAIN seqs}

(* One sequence more: Total grows by its length.                            *)
LEMMA TotalGrows ==
    ASSUME NEW f, NEW g, NEW b, b \notin DOMAIN f, DOMAIN g = DOMAIN f \union {b},
           \A c \in DOMAIN f : g[c] = f[c], g[b] \in Seq(Elems), IsFiniteSet(Cells(f))
    PROVE  /\ IsFiniteSet(Cells(g))
           /\ Total(f) \in Nat
           /\ Total(g) = Total(f) + Len(g[b])
<1>1. PICK l \in Nat : l = Len(g[b]) /\ DOMAIN g[b] = 1..l
  OBVIOUS
<1> DEFINE N == {b} \X DOMAIN g[b]
<1>2. IsFiniteSet(1..l) /\ Cardinality(1..l) = l
  <2>1. IsFiniteSet(1..l) /\ Cardinality(1..l) = IF 1 > l THEN 0 ELSE l - 1 + 1
    BY FS_Interval
  <2> QED BY <2>1
<1>3. IsFiniteSet({b}) /\ Cardinality({b}) = 1
  BY FS_Singleton
<1>4. IsFiniteSet({b} \X (1..l)) /\ Cardinality({b} \X (1..l)) = Cardinality({b}) * Cardinality(1..l)
  BY <1>2, <1>3, FS_Product
<1>5. IsFiniteSet(N) /\ Cardinality(N) = l
  BY <1>1, <1>2, <1>3, <1>4
<1>6. Cells(g) = Cells(f) \union N
  <2>1. \A p : p \in Cells(g) <=> \E c \in DOMAIN g : p \in {c} \X DOMAIN g[c]
    BY DEF Cells
  <2>2. \A p : p \in Cells(f) <=> \E c \in DOMAIN f : p \in {c} \X DOMAIN f[c]
    BY DEF Cells
  <2>3. \A p : p \in Cells(g) <=> p \in Cells(f) \/ p \in N
    BY <2>1, <2>2
  <2> QED BY <2>3
<1>7. Cells(f) \intersect N = {}
  BY DEF Cells
<1>8. Cardinality({}) = 0
  BY FS_EmptySet
<1>9. Cardinality(Cells(f)) \in Nat
  BY FS_CardinalityType
<1> HIDE DEF N
<1>10. /\ IsFiniteSet(Cells(f) \union N)
       /\ Cardinality(Cells(f) \union N) =
            Cardinality(Cells(f)) + Cardinality(N) - Cardinality(Cells(f) \intersect N)
  BY <1>5, FS_Union
<1>11. Cardinality(Cells(g)) = Cardinality(Cells(f)) + Len(g[b])
  <2>1. PICK k \in Nat : k = Cardinality(Cells(f))
    BY <1>9
  <2>2. Cardinality(Cells(f) \union N) = k + l - Cardinality({})
    BY <1>5, <1>7, <1>10, <2>1
  <2>3. k + l - 0 = k + l
    OBVIOUS
  <2>4. Cardinality(Cells(g)) = k + l
    BY <1>6, <1>8, <2>2, <2>3
  <2> QED BY <1>1, <2>1, <2>4
<1>12. Total(f) = Cardinality(Cells(f)) /\ Total(g) = Cardinality(Cells(g))
  BY DEF Total, Cells
<1> QED
  BY <1>6, <1>9, <1>10, <1>11, <1>12

(* What the batches that came through gave the else-branch, what it made of *)
(* that, and the batches that failed.                                       *)
Gives(p) == [b \in DOMAIN p |-> Given(b)]
Makes(p) == [b \in DOMAIN p |-> Made(b)]
Lost == {b \in DOMAIN Batches : Failed(b)}
IfBooks(st, p) ==
    /\ IsFiniteSet(Cells(Gives(p))) /\ IsFiniteSet(Cells(Makes(p)))
    /\ st.out + st.dropped + Total(Gives(p)) <= st.in + Total(Makes(p))
    /\ st.errs = 0 => st.out + st.dropped + Total(Gives(p)) = st.in + Total(Makes(p))
ErrorsCounted(st, lost) == IsFiniteSet(lost) /\ st.errs = Cardinality(lost)

(* Batch b fails; whatever is dropped is no more than came in.              *)
LEMMA BooksAfterLoss ==
    ASSUME NEW st \in Counts, NEW p, NEW len \in Nat, NEW dropped \in Nat, dropped <= len,
           IfBooks(st, p), Total(Gives(p)) \in Nat, Total(Makes(p)) \in Nat
    PROVE  IfBooks([in |-> st.in + len, out |-> st.out, dropped |-> st.dropped + dropped,
                    errs |-> st.errs + 1], p)
<1>1. st.in \in Nat /\ st.out \in Nat /\ st.dropped \in Nat /\ st.errs \in Nat
  BY DEF Counts
<1> DEFINE t == [in |-> st.in + len, out |-> st.out, dropped |-> st.dropped + dropped,
                 errs |-> st.errs + 1]
<1>2. /\ t.in = st.in + len /\ t.out = st.out /\ t.dropped = st.dropped + dropped
      /\ t.errs = st.errs + 1
  OBVIOUS
<1> HIDE DEF t
<1>3. st.out + st.dropped + Total(Gives(p)) <= st.in + Total(Makes(p))
  BY DEF IfBooks
<1>4. t.out + t.dropped + Total(Gives(p)) <= t.in + Total(Makes(p)) /\ t.errs # 0
  BY <1>1, <1>2, <1>3
<1>5. IfBooks(t, p)
  BY <1>4 DEF IfBooks
<1> QED
  BY <1>5 DEF t

LEMMA TotalsAreNumbers ==
    ASSUME NEW st, NEW p, IfBooks(st, p)
    PROVE  Total(Gives(p)) \in Nat /\ Total(Makes(p)) \in Nat
  BY FS_CardinalityType DEF IfBooks, Total, Cells

(* Batch b comes through.                                                   *)
LEMMA BooksAfterBatch ==
    ASSUME NEW st \in Counts, NEW p, NEW q, NEW b \in DOMAIN Batches, b \notin DOMAIN p,
           DOMAIN q = DOMAIN p \union {b}, IfBooks(st, p),
           NEW kept \in Nat, NEW dropped \in Nat,
           kept + dropped + Len(Given(b)) = Len(Batches[b])
    PROVE  IfBooks([in |-> st.in + Len(Batches[b]), out |-> st.out + (kept + Len(Made(b))),
                    dropped |-> st.dropped + dropped, errs |-> st.errs], q)
<1>1. st.in \in Nat /\ st.out \in Nat /\ st.dropped \in Nat /\ st.errs \in Nat
  BY DEF Counts
<1>2. /\ Given(b) \in Seq(Elems) /\ Len(Given(b)) \in Nat /\ Len(Batches[b]) \in Nat
  BY BatchFacts
<1>3. Made(b) \in Seq(Elems) /\ Len(Made(b)) \in Nat
  <2>1. Made(b) \in Seq(Elems)
    BY <1>2, GenerateFacts DEF Made
  <2> QED BY <2>1
<1>4. /\ IsFiniteSet(Cells(Gives(q))) /\ Total(Gives(p)) \in Nat
      /\ Total(Gives(q)) = Total(Gives(p)) + Len(Given(b))
  <2>1. /\ DOMAIN Gives(p) = DOMAIN p /\ DOMAIN Gives(q) = DOMAIN p \union {b}
        /\ \A c \in DOMAIN p : Gives(q)[c] = Gives(p)[c]
        /\ Gives(q)[b] = Given(b)
    BY DEF Gives
  <2>2. IsFiniteSet(Cells(Gives(p)))
    BY DEF IfBooks
  <2>3. PICK f : f = Gives(p)
    OBVIOUS
  <2>4. PICK g : g = Gives(q)
    OBVIOUS
  <2>5. /\ b \notin DOMAIN f /\ DOMAIN g = DOMAIN f \union {b}
        /\ \A c \in DOMAIN f : g[c] = f[c]
        /\ g[b] \in Seq(Elems) /\ IsFiniteSet(Cells(f))
    BY <1>2, <2>1, <2>2, <2>3, <2>4
  <2>6. /\ IsFiniteSet(Cells(g))
        /\ Total(f) \in Nat
        /\ Total(g) = Total(f) + Len(g[b])
    BY <2>5, TotalGrows
  <2> QED BY <2>1, <2>3, <2>4, <2>6
<1>5. /\ IsFiniteSet(Cells(Makes(q))) /\ Total(Makes(p)) \in Nat
      /\ Total(Makes(q)) = Total(Makes(p)) + Len(Made(b))
  <2>1. /\ DOMAIN Makes(p) = DOMAIN p /\ DOMAIN Makes(q) = DOMAIN p \union {b}
        /\ \A c \in DOMAIN p : Makes(q)[c] = Makes(p)[c]
        /\ Makes(q)[b] = Made(b)
    BY DEF Makes
  <2>2. IsFiniteSet(Cells(Makes(p)))
    BY DEF IfBooks
  <2>3. PICK f : f = Makes(p)
    OBVIOUS
  <2>4. PICK g : g = Makes(q)
    OBVIOUS
  <2>5. /\ b \notin DOMAIN f /\ DOMAIN g = DOMAIN f \union {b}
        /\ \A c \in DOMAIN f : g[c] = f[c]
        /\ g[b] \in Seq(Elems) /\ IsFiniteSet(Cells(f))
    BY <1>3, <2>1, <2>2, <2>3, <2>4
  <2>6. /\ IsFiniteSet(Cells(g))
        /\ Total(f) \in Nat
        /\ Total(g) = Total(f) + Len(g[b])
    BY <2>5, TotalGrows
  <2> QED BY <2>1, <2>3, <2>4, <2>6
<1> DEFINE t == [in |-> st.in + Len(Batches[b]), out |-> st.out + (kept + Len(Made(b))),
                 dropped |-> st.dropped + dropped, errs |-> st.errs]
<1>6. /\ t.in = st.in + Len(Batches[b]) /\ t.out = st.out + (kept + Len(Made(b)))
      /\ t.dropped = st.dropped + dropped /\ t.errs = st.errs
  OBVIOUS
<1> HIDE DEF t
<1>7. PICK g \in Nat, m \in Nat, l \in Nat, n \in Nat, x \in Nat, y \in Nat :
         /\ g = Total(Gives(p)) /\ m = Total(Makes(p))
         /\ l = Len(Batches[b]) /\ n = Len(Made(b))
         /\ x = st.in /\ y = Len(Given(b))
  BY <1>1, <1>2, <1>3, <1>4, <1>5
<1>8. /\ st.out + st.dropped + g <= x + m
      /\ st.errs = 0 => st.out + st.dropped + g = x + m
  BY <1>7 DEF IfBooks
<1>9. Total(Gives(q)) = g + y /\ Total(Makes(q)) = m + n
  BY <1>4, <1>5, <1>7
<1>10. /\ t.in = x + l /\ t.out = st.out + (kept + n)
       /\ t.dropped = st.dropped + dropped /\ t.errs = st.errs /\ kept + dropped + y = l
  BY <1>6, <1>7
<1>11. /\ t.out + t.dropped + (g + y) <= t.in + (m + n)
       /\ t.errs = 0 => t.out + t.dropped + (g + y) = t.in + (m + n)
  <2>1. PICK o \in Nat, d \in Nat : o = st.out /\ d = st.dropped
    BY <1>1
  <2>2. (o + (kept + n)) + (d + dropped) + (g + y) = (o + d + g) + (l + n)
    BY <1>10
  <2>3. (x + l) + (m + n) = (x + m) + (l + n)
    OBVIOUS
  <2>4. o + d + g <= x + m /\ (st.errs = 0 => o + d + g = x + m)
    BY <1>8, <2>1
  <2>5. /\ (o + (kept + n)) + (d + dropped) + (g + y) <= (x + l) + (m + n)
        /\ st.errs = 0 => (o + (kept + n)) + (d + dropped) + (g + y) = (x + l) + (m + n)
    BY <2>2, <2>3, <2>4
  <2> QED BY <1>10, <2>1, <2>5
<1>12. IfBooks(t, q)
  BY <1>4, <1>5, <1>9, <1>11 DEF IfBooks
<1> QED
  BY <1>12 DEF t

BooksInv == MoveInv /\ IfBooks(stat, passed) /\ ErrorsCounted(stat, Lost)

LEMMA ErrorMore ==
    ASSUME PoolTypes, ErrorsCounted(stat, Lost), NEW b \in DOMAIN Batches, ~Failed(b),
           \A c : Failed(c)' <=> Failed(c) \/ c = b, stat'.errs = stat.errs + 1
    PROVE  ErrorsCounted(stat', Lost')
<1>1. Lost' = Lost \union {b}
  BY DEF Lost
<1>2. b \notin Lost /\ IsFiniteSet(Lost) /\ stat.errs = Cardinality(Lost)
  BY DEF Lost, ErrorsCounted
<1>3. /\ IsFiniteSet(Lost \union {b})
      /\ Cardinality(Lost \union {b}) = Cardinality(Lost) + 1
  BY <1>2, FS_AddElement
<1> QED
  BY <1>1, <1>2, <1>3 DEF ErrorsCounted

LEMMA ErrorsSame ==
    ASSUME ErrorsCounted(stat, Lost), \A c : Failed(c)' <=> Failed(c), stat'.errs = stat.errs
    PROVE  ErrorsCounted(stat', Lost')
<1>1. Lost' = Lost
  BY DEF Lost
<1> QED
  BY <1>1 DEF ErrorsCounted

LEMMA ThenBooks ==
    ASSUME BooksInv, NEW w \in Workers, Then(w)
    PROVE  IfBooks(stat', passed') /\ ErrorsCounted(stat', Lost')
<1>1. PoolTypes /\ Apart /\ IfBooks(stat, passed) /\ ErrorsCounted(stat, Lost)
  BY DEF BooksInv, MoveInv, BaseInv
<1>2. PICK b \in DOMAIN Batches :
         /\ work[w] = Item("then", b, Filtered(b))
         /\ Fails(w, b) \/ \E then : GoesOn(w, b, then)
  BY <1>1, ThenStep
<1>3. Busy(w) /\ work[w].batch = b
  BY <1>2 DEF Busy, Item
<1>4. waiting' = waiting /\ passed' = passed
  BY DEF Then
<1>5. stat \in Counts
  BY <1>1 DEF PoolTypes
<1>6. CASE Fails(w, b)
  <2>1. PICK len \in Nat, dropped \in Nat :
          /\ len = Len(Batches[b]) /\ dropped = Len(Kept(Batches[b], ThenElems))
          /\ dropped <= len
    <3>1. /\ Len(Batches[b]) \in Nat /\ Len(Kept(Batches[b], ThenElems)) \in Nat
          /\ Len(Given(b)) \in Nat
          /\ Len(Kept(Batches[b], ThenElems)) + Len(Given(b)) = Len(Batches[b])
      BY BatchFacts
    <3>2. \A i, j, k \in Nat : i + j = k => i <= k
      OBVIOUS
    <3> QED BY <3>1, <3>2
  <2>2. /\ stat' = [in |-> stat.in + len, out |-> stat.out, dropped |-> stat.dropped + dropped,
                    errs |-> stat.errs + 1]
        /\ work' = [work EXCEPT ![w] = Idle]
    BY <1>6, <2>1 DEF Fails
  <2>3. IfBooks(stat', passed)
    BY <1>1, <1>5, <2>1, <2>2, TotalsAreNumbers, BooksAfterLoss
  <2>4. ~Failed(b) /\ \A c : Failed(c)' <=> Failed(c) \/ c = b
    BY <1>1, <1>3, <1>4, <2>2, FailMoves
  <2>5. stat'.errs = stat.errs + 1
    BY <2>2
  <2> QED BY <1>1, <1>4, <2>3, <2>4, <2>5, ErrorMore
<1>7. ASSUME NEW then, GoesOn(w, b, then)
      PROVE  IfBooks(stat', passed') /\ ErrorsCounted(stat', Lost')
  <2>1. stat' = stat /\ work' = [work EXCEPT ![w] = Item("else", b, then)]
    BY <1>7 DEF GoesOn
  <2>2. \A c : Failed(c)' <=> Failed(c)
    BY <1>1, <1>2, <1>4, <2>1, GoesOnMoves
  <2> QED BY <1>1, <1>4, <2>1, <2>2, ErrorsSame
<1> QED
  BY <1>2, <1>6, <1>7

LEMMA ElseBooks ==
    ASSUME BooksInv, NEW w \in Workers, Else(w)
    PROVE  IfBooks(stat', passed') /\ ErrorsCounted(stat', Lost')
<1>1. PoolTypes /\ Apart /\ IfBooks(stat, passed) /\ ErrorsCounted(stat, Lost)
  BY DEF BooksInv, MoveInv, BaseInv
<1>2. PICK b \in DOMAIN Batches, then \in Results :
         /\ work[w] = Item("else", b, then)
         /\ Len(then.out) + then.dropped = Len(Kept(Batches[b], ThenElems))
         /\ \E x \in {Idle, Gone} : work' = [work EXCEPT ![w] = x]
         /\ LosesBoth(w, b, then) \/ ComesThrough(w, b, then)
  BY <1>1, ElseStep
<1>3. Busy(w) /\ work[w].batch = b
  BY <1>2 DEF Busy, Item
<1>4. waiting' = waiting
  BY DEF Else
<1>5. stat \in Counts
  BY <1>1 DEF PoolTypes
<1>6. PICK kept \in Nat, dropped \in Nat, given \in Nat, len \in Nat :
         /\ kept = Len(then.out) /\ dropped = then.dropped /\ given = Len(Given(b))
         /\ len = Len(Batches[b]) /\ kept + dropped + given = len
  <2>1. /\ Len(Batches[b]) \in Nat /\ Len(Given(b)) \in Nat
        /\ Len(Kept(Batches[b], ThenElems)) + Len(Given(b)) = Len(Batches[b])
    BY BatchFacts
  <2>2. then.out \in Seq(Elems) /\ then.dropped \in Nat
    BY DEF Results
  <2>3. Len(then.out) \in Nat
    BY <2>2
  <2>4. (Len(then.out) + then.dropped) + Len(Given(b)) = Len(Batches[b])
    BY <1>2, <2>1
  <2> QED BY <2>1, <2>2, <2>3, <2>4
<1>7. CASE LosesBoth(w, b, then)
  <2>1. /\ stat' = [in |-> stat.in + len, out |-> stat.out,
                    dropped |-> stat.dropped + (dropped + given), errs |-> stat.errs + 1]
        /\ passed' = passed
    BY <1>6, <1>7 DEF LosesBoth
  <2>2. PICK all \in Nat : all = dropped + given /\ all <= len
    BY <1>6
  <2>3. stat' = [in |-> stat.in + len, out |-> stat.out, dropped |-> stat.dropped + all,
                 errs |-> stat.errs + 1]
    BY <2>1, <2>2
  <2>4. IfBooks(stat', passed)
    BY <1>1, <1>5, <2>2, <2>3, TotalsAreNumbers, BooksAfterLoss
  <2>5. ~Failed(b) /\ \A c : Failed(c)' <=> Failed(c) \/ c = b
    BY <1>1, <1>2, <1>3, <1>4, <2>1, FailMoves
  <2>6. stat'.errs = stat.errs + 1
    BY <2>1
  <2> QED BY <1>1, <2>1, <2>4, <2>5, <2>6, ErrorMore
<1>8. CASE ComesThrough(w, b, then)
  <2>1. /\ stat' = [in |-> stat.in + Len(Batches[b]), out |-> stat.out + (kept + Len(Made(b))),
                    dropped |-> stat.dropped + dropped, errs |-> stat.errs]
        /\ passed' = [c \in DOMAIN passed \union {b} |-> IF c = b THEN then.out ELSE passed[c]]
    BY <1>6, <1>8 DEF ComesThrough
  <2>2. DOMAIN passed' = DOMAIN passed \union {b} /\ b \notin DOMAIN passed
    BY <1>1, <1>3, <2>1 DEF Apart
  <2>3. IfBooks(stat', passed')
    BY <1>1, <1>5, <1>6, <2>1, <2>2, BooksAfterBatch
  <2>4. \A c : Failed(c)' <=> Failed(c)
    BY <1>1, <1>2, <1>4, <2>1, ThroughMoves
  <2>5. stat'.errs = stat.errs
    BY <2>1
  <2> QED BY <1>1, <2>3, <2>4, <2>5, ErrorsSame
<1> QED
  BY <1>2, <1>7, <1>8

LEMMA BooksInit == Init => BooksInv
<1> SUFFICES ASSUME Init PROVE BooksInv
  OBVIOUS
<1>1. /\ waiting = DOMAIN Batches /\ DOMAIN passed = {}
      /\ stat.in = 0 /\ stat.out = 0 /\ stat.dropped = 0 /\ stat.errs = 0
  BY DEF Init, NoCounts
<1>2. IsFiniteSet({}) /\ Cardinality({}) = 0
  BY FS_EmptySet
<1>3. Cells(Gives(passed)) = {} /\ Cells(Makes(passed)) = {}
  BY <1>1 DEF Cells, Gives, Makes
<1>4. Total(Gives(passed)) = Cardinality({}) /\ Total(Makes(passed)) = Cardinality({})
  BY <1>3 DEF Total, Cells
<1>5. IfBooks(stat, passed)
  BY <1>1, <1>2, <1>3, <1>4 DEF IfBooks
<1>6. Lost = {}
  BY <1>1 DEF Lost, Failed
<1>7. ErrorsCounted(stat, Lost)
  BY <1>1, <1>2, <1>6 DEF ErrorsCounted
<1> QED
  BY <1>5, <1>7, MoveInit DEF BooksInv

LEMMA BooksStep == BooksInv /\ [Next]_vars => BooksInv'
<1> SUFFICES ASSUME BooksInv, [Next]_vars PROVE BooksInv'
  OBVIOUS
<1>1. MoveInv' /\ PoolTypes /\ Apart /\ IfBooks(stat, passed) /\ ErrorsCounted(stat, Lost)
  BY MoveStep DEF BooksInv, MoveInv, BaseInv
<1>2. ASSUME NEW w \in Workers, WorkerStep(w)
      PROVE  IfBooks(stat', passed') /\ ErrorsCounted(stat', Lost')
  <2>1. CASE Receive(w)
    <3>1. stat' = stat /\ passed' = passed
      BY <2>1 DEF Receive
    <3>2. \A c : Failed(c)' <=> Failed(c)
      BY <1>1, <2>1, ReceiveMoves
    <3> QED BY <1>1, <3>1, <3>2, ErrorsSame
  <2>2. CASE Lock(w)
    <3>1. stat' = stat /\ passed' = passed
      BY <2>2 DEF Lock
    <3>2. \A c : Failed(c)' <=> Failed(c)
      BY <1>1, <2>2, LockMoves
    <3> QED BY <1>1, <3>1, <3>2, ErrorsSame
  <2>3. CASE Then(w)
    BY <2>3, ThenBooks
  <2>4. CASE Else(w)
    BY <2>4, ElseBooks
  <2> QED BY <1>2, <2>1, <2>2, <2>3, <2>4 DEF WorkerStep
<1>3. ASSUME UNCHANGED <<waiting, work, passed, stat>>
      PROVE  IfBooks(stat', passed') /\ ErrorsCounted(stat', Lost')
  <2>1. waiting' = waiting /\ work' = work /\ passed' = passed /\ stat' = stat
    BY <1>3
  <2>2. \A c : Failed(c)' <=> Failed(c)
    BY <2>1 DEF Failed, Busy
  <2> QED BY <1>1, <2>1, <2>2, ErrorsSame
<1>4. UNCHANGED <<waiting, work, passed, stat>> \/ \E w \in Workers : WorkerStep(w)
  BY DEF Next, vars, SinkStep, Fold, Collect, PushSends,
         PushSheds, PushCancelled, Cancel, Read, Finished, poolVars
<1>5. IfBooks(stat', passed') /\ ErrorsCounted(stat', Lost')
  BY <1>2, <1>3, <1>4
<1> QED
  BY <1>1, <1>5 DEF BooksInv

(* IfAccounts (ifStage.Process, Metrics of runStage): whatever the batches, *)
(* the branches and the panics, what came in and what Generate made of what *)
(* it was given went out or was dropped, except that a failed batch may     *)
(* leave some of it out; and every batch that failed is one error.          *)
THEOREM IfKeepsAccount == Spec => []IfAccounts
<1>1. Spec => []BooksInv
  BY BooksInit, BooksStep, PTL DEF Spec
<1>2. BooksInv => IfAccounts
  <2> SUFFICES ASSUME BooksInv PROVE IfAccounts
    OBVIOUS
  <2>1. PoolTypes /\ IfBooks(stat, passed) /\ ErrorsCounted(stat, Lost)
    BY DEF BooksInv, MoveInv, BaseInv
  <2>2. ASSUME PoolDone PROVE Lost = DOMAIN Batches \ DOMAIN passed
    BY <2>2 DEF PoolDone, Lost, Failed, Busy
  <2> QED BY <2>1, <2>2 DEF IfAccounts, IfBooks, ErrorsCounted, Gives, Makes
<1> QED
  BY <1>1, <1>2, PTL
=============================================================================
