--------------------------- MODULE LoopInduction ---------------------------
(***************************************************************************)
(* Induction over numbers and the existence of recursive functions, for the *)
(* proofs about the loops of the model.  A definition f[i \in S] == e is a  *)
(* choice of a function that meets the equation, so that nothing is known   *)
(* of it before one is shown to exist; and the induction that shows it rests*)
(* on the well-foundedness of the inclusion of finite sets.                 *)
(***************************************************************************)
EXTENDS Integers, Sequences, SequencesExt, FiniteSets, FiniteSetTheorems,
        WellFoundedInduction, TLAPS

(* A set of natural numbers that is not empty has a least element.         *)
LEMMA LeastNumber ==
  ASSUME NEW T \in SUBSET Nat, T # {}
  PROVE  \E n \in T : \A k \in T : n <= k
<1> DEFINE U == {0..n - 1 : n \in T}
           R == StrictSubsetOrdering(Nat)
           F == FiniteSubsetsOf(Nat)
<1>1. IsWellFoundedOn(R, F)
  BY FS_StrictSubsetOrderingWellFounded
<1>2. U \subseteq F
  <2> SUFFICES ASSUME NEW n \in T PROVE 0..n - 1 \in F
    OBVIOUS
  <2>1. n - 1 \in Int /\ 0..n - 1 \subseteq Nat
    OBVIOUS
  <2>2. IsFiniteSet(0..n - 1)
    BY <2>1, FS_Interval
  <2>3. QED
    BY <2>1, <2>2 DEF FiniteSubsetsOf
<1>3. U # {}
  OBVIOUS
<1> HIDE DEF U, R, F
<1>4. PICK x \in U : \A y \in U : <<y, x>> \notin R
  BY <1>1, <1>2, <1>3, WFMin
<1> USE DEF U, R, F
<1>5. PICK n \in T : x = 0..n - 1
  BY <1>4
<1>6. ASSUME NEW k \in T, k < n PROVE FALSE
  <2>1. <<0..k - 1, x>> \notin R
    BY <1>4
  <2>2. k \in 0..n - 1 /\ k \notin 0..k - 1
    BY <1>6
  <2>3. 0..k - 1 \subseteq 0..n - 1 /\ 0..k - 1 # 0..n - 1
    BY <2>2
  <2>4. QED
    BY <2>1, <2>3, <1>5 DEF StrictSubsetOrdering
<1>7. QED
  BY <1>6

(* Induction: a set that holds 0, and the successor of every number up to N *)
(* that it holds, holds the numbers from 0 to N.                            *)
LEMMA Induction ==
  ASSUME NEW N \in Nat, NEW T, 0 \in T,
         \A n \in 0..N - 1 : n \in T => n + 1 \in T
  PROVE  \A n \in 0..N : n \in T
<1> SUFFICES ASSUME NEW m \in 0..N, m \notin T PROVE FALSE
  OBVIOUS
<1> DEFINE Left == {n \in 0..N : n \notin T}
<1>1. Left \in SUBSET Nat /\ Left # {}
  OBVIOUS
<1>2. PICK n \in Left : \A k \in Left : n <= k
  BY <1>1, LeastNumber
<1>3. n # 0 /\ n - 1 \in 0..N - 1 /\ n - 1 \notin Left
  BY <1>2
<1>4. QED
  BY <1>2, <1>3

(* f is the recursive function on D with the values base where it stops,    *)
(* and elsewhere what step makes of its value at next.                      *)
Recursive(f, D, S, stop, base, next, step) ==
  /\ f \in [D -> S]
  /\ \A i \in D : f[i] = IF i \in stop THEN base[i] ELSE step[i][f[next[i]]]

(* It exists if every call it makes of itself is of lower rank.            *)
LEMMA RecursionExists ==
  ASSUME NEW D, NEW S, NEW N \in Nat, NEW rank \in [D -> 0..N],
         NEW stop, NEW base \in [D -> S], NEW next,
         NEW step \in [D -> [S -> S]],
         \A i \in D \ stop : next[i] \in D /\ rank[next[i]] < rank[i]
  PROVE  \E f : Recursive(f, D, S, stop, base, next, step)
<1> DEFINE Below(n) == {i \in D : rank[i] < n}
           Value(f, i) == IF i \in stop THEN base[i] ELSE step[i][f[next[i]]]
           Partial(f, n) == /\ f \in [Below(n) -> S]
                            /\ \A i \in Below(n) : f[i] = Value(f, i)
           T == {n \in 0..N + 1 : \E f : Partial(f, n)}
<1>1. 0 \in T
  <2>1. Below(0) = {}
    OBVIOUS
  <2>2. Partial([i \in Below(0) |-> base[i]], 0)
    BY <2>1
  <2> HIDE DEF Partial
  <2>3. QED
    BY <2>2
<1>2. ASSUME NEW n \in 0..N, n \in T PROVE n + 1 \in T
  <2>1. PICK f : Partial(f, n)
    BY <1>2
  <2> DEFINE g == [i \in Below(n + 1) |-> Value(f, i)]
  <2>2. ASSUME NEW i \in Below(n + 1), i \notin stop
        PROVE  next[i] \in Below(n) /\ f[next[i]] \in S
    BY <2>1, <2>2
  <2>3. ASSUME NEW i \in Below(n + 1) PROVE Value(f, i) \in S
    BY <2>2
  <2>4. ASSUME NEW i \in Below(n) PROVE i \in Below(n + 1) /\ g[i] = f[i]
    <3>1. i \in Below(n + 1)
      OBVIOUS
    <3>2. g[i] = Value(f, i)
      BY <3>1
    <3>3. QED
      BY <3>1, <3>2, <2>1
  <2>5. ASSUME NEW i \in Below(n + 1) PROVE g[i] = Value(g, i)
    BY <2>2, <2>4
  <2>6. Partial(g, n + 1)
    BY <2>3, <2>5
  <2> HIDE DEF Partial, g
  <2>7. QED
    BY <2>6
<1>3. N + 1 \in T
  <2> HIDE DEF T
  <2>1. N + 1 \in Nat /\ \A n \in 0..(N + 1) - 1 : n \in T => n + 1 \in T
    BY <1>2
  <2>2. \A n \in 0..N + 1 : n \in T
    BY <1>1, <2>1, Induction
  <2>3. QED
    BY <2>2
<1>4. PICK f : Partial(f, N + 1)
  BY <1>3
<1>5. Below(N + 1) = D
  OBVIOUS
<1>6. Recursive(f, D, S, stop, base, next, step)
  BY <1>4, <1>5 DEF Recursive
<1>7. QED
  BY <1>6

-----------------------------------------------------------------------------
(* Flattened sequences.                                                    *)

(* FlattenSeq appends one sequence after the other.                        *)
LEMMA FlattenIsRecursive ==
  ASSUME NEW X, NEW seqs \in Seq(Seq(X)), seqs # <<>>
  PROVE  \E f \in [1..Len(seqs) -> Seq(X)] :
           /\ \A i \in 1..Len(seqs) :
                f[i] = IF i = 1 THEN seqs[i] ELSE f[i - 1] \o seqs[i]
           /\ FlattenSeq(seqs) = f[Len(seqs)]
<1> DEFINE n == Len(seqs)
           D == 1..n
           S == Seq(X)
           rank == [i \in D |-> i]
           next == [i \in D |-> i - 1]
           base == [i \in D |-> seqs[1]]
           step == [i \in D |-> [x \in S |-> x \o seqs[i]]]
           Meets(f) == f = [i \in D |-> IF i = 1 THEN seqs[i] ELSE f[i - 1] \o seqs[i]]
<1>1. n \in Nat /\ n # 0 /\ \A i \in D : seqs[i] \in S
  OBVIOUS
<1>2. /\ rank \in [D -> 0..n] /\ base \in [D -> S] /\ step \in [D -> [S -> S]]
  BY <1>1
<1>3. \A i \in D \ {1} : next[i] \in D /\ rank[next[i]] < rank[i]
  BY <1>1
<1>4. \E f : Recursive(f, D, S, {1}, base, next, step)
  <2> HIDE DEF D, S, rank, next, base, step, n
  <2> QED BY <1>1, <1>2, <1>3, RecursionExists
<1>5. PICK f : Recursive(f, D, S, {1}, base, next, step)
  BY <1>4
<1> USE DEF Recursive
<1>6. Meets(f)
  <2>1. ASSUME NEW i \in D PROVE f[i] = IF i = 1 THEN seqs[i] ELSE f[i - 1] \o seqs[i]
    <3>1. CASE i = 1
      BY <1>1, <1>5, <3>1
    <3>2. CASE i # 1
      <4>1. next[i] = i - 1 /\ i - 1 \in D
        BY <1>1, <3>2
      <4>2. f[i - 1] \in S
        BY <1>5, <4>1
      <4>3. f[i] = step[i][f[i - 1]]
        BY <1>5, <3>2, <4>1
      <4>4. QED
        BY <3>2, <4>2, <4>3
    <3>3. QED
      BY <3>1, <3>2
  <2>2. f \in [D -> S]
    BY <1>5
  <2>3. QED
    BY <2>1, <2>2
<1>7. Meets(CHOOSE g : Meets(g))
  <2> HIDE DEF Meets
  <2> QED BY <1>6
<1>8. FlattenSeq(seqs) = (CHOOSE g : Meets(g))[n]
  BY <1>1 DEF FlattenSeq
<1> DEFINE h == CHOOSE g : Meets(g)
           T == {k \in 0..n - 1 : h[k + 1] \in S}
<1>9. \A i \in D : h[i] = IF i = 1 THEN seqs[i] ELSE h[i - 1] \o seqs[i]
  <2>1. h = [i \in D |-> IF i = 1 THEN seqs[i] ELSE h[i - 1] \o seqs[i]]
    BY <1>7
  <2> HIDE DEF h
  <2>2. QED
    BY <2>1
<1>10. \A k \in 0..n - 1 : k \in T
  <2> HIDE DEF h
  <2>1. 0 \in T
    BY <1>1, <1>9
  <2>2. ASSUME NEW k \in 0..(n - 1) - 1, k \in T PROVE k + 1 \in T
    <3>1. k + 2 \in D /\ k + 2 # 1 /\ (k + 2) - 1 = k + 1 /\ seqs[k + 2] \in S
      BY <1>1
    <3>2. h[k + 2] = h[k + 1] \o seqs[k + 2] /\ h[k + 1] \in S
      BY <1>9, <2>2, <3>1
    <3>3. h[k + 2] \in S
      BY <3>1, <3>2
    <3>4. QED
      BY <3>1, <3>3, <1>1
  <2> HIDE DEF T
  <2>3. n - 1 \in Nat
    BY <1>1
  <2>4. QED
    BY <2>1, <2>2, <2>3, Induction
<1>11. \A i \in D : h[i] \in S
  <2> HIDE DEF h
  <2> SUFFICES ASSUME NEW i \in D PROVE h[i] \in S
    OBVIOUS
  <2>1. i - 1 \in 0..n - 1 /\ (i - 1) + 1 = i
    BY <1>1
  <2>2. QED
    BY <2>1, <1>10
<1>12. h \in [D -> S] /\ FlattenSeq(seqs) = h[n]
  <2>1. h = [i \in D |-> IF i = 1 THEN seqs[i] ELSE h[i - 1] \o seqs[i]]
    BY <1>7
  <2> HIDE DEF h
  <2>2. h \in [D -> S]
    BY <2>1, <1>11
  <2>3. FlattenSeq(seqs) = h[n]
    BY <1>8 DEF h
  <2>4. QED
    BY <2>2, <2>3
<1> HIDE DEF h
<1>13. QED
  BY <1>9, <1>12

(* The parts of a flattened sequence: part k begins behind start[k].       *)
PartsAt(flat, seqs, start, n) ==
  /\ \A k \in 1..n : start[k + 1] = start[k] + Len(seqs[k])
  /\ \A k \in 1..n : \A m \in 1..Len(seqs[k]) :
       start[k] + m \in 1..Len(flat) /\ flat[start[k] + m] = seqs[k][m]
  /\ \A j \in 1..Len(flat) :
       \E k \in 1..n : \E m \in 1..Len(seqs[k]) : j = start[k] + m
  /\ Len(flat) = start[n + 1]

(* What a concatenation holds of its two halves.                           *)
LEMMA ConcatParts ==
  ASSUME NEW X, NEW a \in Seq(X), NEW b \in Seq(X)
  PROVE  /\ a \o b \in Seq(X)
         /\ Len(a) \in Nat /\ Len(b) \in Nat /\ Len(a \o b) = Len(a) + Len(b)
         /\ \A j \in 1..Len(a) : (a \o b)[j] = a[j]
         /\ \A m \in 1..Len(b) : (a \o b)[Len(a) + m] = b[m]
<1>1. Len(a) \in Nat /\ Len(b) \in Nat /\ Len(a \o b) = Len(a) + Len(b)
  OBVIOUS
<1>2. ASSUME NEW j \in 1..Len(a) PROVE (a \o b)[j] = a[j]
  BY <1>1
<1>3. ASSUME NEW m \in 1..Len(b) PROVE (a \o b)[Len(a) + m] = b[m]
  <2>1. Len(a) + m \in 1..Len(a) + Len(b) /\ Len(a) + m > Len(a)
    BY <1>1
  <2>2. (a \o b)[Len(a) + m] = b[(Len(a) + m) - Len(a)]
    BY <1>1, <2>1
  <2>3. (Len(a) + m) - Len(a) = m
    BY <1>1
  <2>4. QED
    BY <2>2, <2>3
<1>4. QED
  BY <1>1, <1>2, <1>3

(* One more part at the end.                                               *)
LEMMA PartsGrow ==
  ASSUME NEW X, NEW flat \in Seq(X), NEW part \in Seq(X), NEW seqs, NEW start,
         NEW c \in Nat, NEW d, d = c + 1, NEW e, e = d + 1,
         PartsAt(flat, seqs, start, c), seqs[d] = part,
         start[d] = Len(flat), start[e] = Len(flat \o part)
  PROVE  PartsAt(flat \o part, seqs, start, d)
<1> DEFINE p == Len(flat)
           q == Len(part)
           all == flat \o part
<1>1. /\ p \in Nat /\ q \in Nat /\ Len(all) = p + q
      /\ \A j \in 1..p : all[j] = flat[j]
      /\ \A m \in 1..q : all[p + m] = part[m]
  BY ConcatParts
<1>2. /\ \A j \in 1..p : j \in 1..p + q
      /\ \A m \in 1..q : p + m \in 1..p + q
      /\ \A j \in 1..p + q : j \in 1..p \/ (j - p \in 1..q /\ j = p + (j - p))
  <2> HIDE DEF p, q
  <2> QED
    BY <1>1
<1>3. \A k \in 1..d : k \in 1..c \/ k = d
  OBVIOUS
<1>4. d \in 1..d /\ \A k \in 1..c : k \in 1..d
  OBVIOUS
<1>5. /\ start[d] = p /\ start[d + 1] = p + q /\ Len(all) = start[d + 1]
      /\ seqs[d] = part /\ Len(seqs[d]) = q
  BY <1>1
<1>6. /\ \A k \in 1..c : start[k + 1] = start[k] + Len(seqs[k])
      /\ \A k \in 1..c : \A m \in 1..Len(seqs[k]) :
           start[k] + m \in 1..p /\ flat[start[k] + m] = seqs[k][m]
      /\ \A j \in 1..p :
           \E k \in 1..c : \E m \in 1..Len(seqs[k]) : j = start[k] + m
  BY DEF PartsAt
<1> HIDE DEF p, q, all
<1>7. \A k \in 1..d : start[k + 1] = start[k] + Len(seqs[k])
  <2>1. start[d + 1] = start[d] + Len(seqs[d])
    BY <1>5
  <2>2. QED
    BY <1>3, <1>6, <2>1
<1>8. \A k \in 1..d : \A m \in 1..Len(seqs[k]) :
        start[k] + m \in 1..p + q /\ all[start[k] + m] = seqs[k][m]
  <2>1. ASSUME NEW k \in 1..c, NEW m \in 1..Len(seqs[k])
        PROVE  start[k] + m \in 1..p + q /\ all[start[k] + m] = seqs[k][m]
    BY <1>1, <1>2, <1>6
  <2>2. ASSUME NEW m \in 1..q
        PROVE  p + m \in 1..p + q /\ all[p + m] = part[m]
    BY <1>1, <1>2
  <2>3. QED
    BY <1>3, <1>5, <2>1, <2>2
<1>9. ASSUME NEW j \in 1..p + q
      PROVE  \E k \in 1..d : \E m \in 1..Len(seqs[k]) : j = start[k] + m
  <2>1. CASE j \in 1..p
    BY <1>4, <1>6, <2>1
  <2>2. CASE j - p \in 1..q /\ j = p + (j - p)
    BY <1>4, <1>5, <2>2
  <2>3. QED
    BY <1>2, <2>1, <2>2
<1>10. /\ 1..Len(all) = 1..p + q
       /\ Len(all) = start[d + 1]
  BY <1>1, <1>5
<1>11. PartsAt(all, seqs, start, d)
  <2>1. \A k \in 1..d : \A m \in 1..Len(seqs[k]) :
          start[k] + m \in 1..Len(all) /\ all[start[k] + m] = seqs[k][m]
    BY <1>8, <1>10
  <2>2. \A j \in 1..Len(all) :
          \E k \in 1..d : \E m \in 1..Len(seqs[k]) : j = start[k] + m
    BY <1>9, <1>10
  <2>3. QED
    BY <1>7, <1>10, <2>1, <2>2, Zenon DEF PartsAt
<1>12. QED
  BY <1>11 DEF all

(* Every part of a flattened sequence has its place in it, and there is     *)
(* nothing else in it.                                                     *)
LEMMA FlattenParts ==
  ASSUME NEW X, NEW seqs \in Seq(Seq(X)), seqs # <<>>
  PROVE  /\ FlattenSeq(seqs) \in Seq(X)
         /\ \E start \in [1..Len(seqs) + 1 -> Nat] :
              start[1] = 0 /\ PartsAt(FlattenSeq(seqs), seqs, start, Len(seqs))
<1> DEFINE n == Len(seqs)
<1>1. n \in Nat /\ n # 0 /\ \A k \in 1..n : seqs[k] \in Seq(X)
  OBVIOUS
<1>2. PICK f \in [1..n -> Seq(X)] :
         /\ \A i \in 1..n : f[i] = IF i = 1 THEN seqs[i] ELSE f[i - 1] \o seqs[i]
         /\ FlattenSeq(seqs) = f[n]
  BY FlattenIsRecursive
<1> HIDE DEF n
<1> DEFINE start == [k \in 1..n + 1 |-> IF k = 1 THEN 0 ELSE Len(f[k - 1])]
           T == {k \in 0..n - 1 : PartsAt(f[k + 1], seqs, start, k + 1)}
<1>3. start \in [1..n + 1 -> Nat] /\ start[1] = 0
  <2>1. ASSUME NEW k \in 1..n + 1, k # 1 PROVE k - 1 \in 1..n
    BY <1>1, <2>1
  <2>2. QED
    BY <1>1, <1>2, <2>1
<1>4. \A k \in 1..n : start[k + 1] = Len(f[k])
  BY <1>1
<1> HIDE DEF start
<1>5. 0 \in T
  <2>1. 1 \in 1..n /\ 1 + 1 = 2
    BY <1>1
  <2>2. f[1] = seqs[1] /\ start[2] = Len(f[1]) /\ seqs[1] \in Seq(X)
    <3>1. f[1] = seqs[1]
      BY <1>2, <2>1
    <3>2. start[1 + 1] = Len(f[1])
      BY <1>4, <2>1
    <3>3. QED
      BY <1>1, <2>1, <3>1, <3>2
  <2>3. Len(seqs[1]) \in Nat
    BY <2>2
  <2>4. \A k \in 1..1 : k = 1
    OBVIOUS
  <2>5. PartsAt(f[1], seqs, start, 1)
    <3>1. \A k \in 1..1 : start[k + 1] = start[k] + Len(seqs[k])
      BY <1>3, <2>1, <2>2, <2>3, <2>4
    <3>2. \A m \in 1..Len(seqs[1]) : start[1] + m = m
      BY <1>3, <2>3
    <3>3. \A j \in 1..Len(f[1]) :
            \E k \in 1..1 : \E m \in 1..Len(seqs[k]) : j = start[k] + m
      BY <2>2, <3>2
    <3>4. \A k \in 1..1 : \A m \in 1..Len(seqs[k]) :
            start[k] + m \in 1..Len(f[1]) /\ f[1][start[k] + m] = seqs[k][m]
      BY <2>2, <2>4, <3>2
    <3>5. QED
      BY <3>1, <3>3, <3>4, <2>1, <2>2 DEF PartsAt
  <2>6. QED
    BY <2>5, <1>1
<1>6. ASSUME NEW i \in 0..(n - 1) - 1, i \in T PROVE i + 1 \in T
  <2>1. /\ i + 1 \in Nat /\ i + 2 = (i + 1) + 1 /\ i + 3 = (i + 2) + 1
        /\ i + 1 \in 1..n /\ i + 2 \in 1..n /\ i + 2 # 1 /\ (i + 2) - 1 = i + 1
        /\ (i + 1) + 1 = i + 2 /\ i + 1 \in 0..n - 1
    BY <1>1
  <2>2. /\ f[i + 2] = f[i + 1] \o seqs[i + 2]
        /\ f[i + 1] \in Seq(X) /\ seqs[i + 2] \in Seq(X)
    BY <1>1, <1>2, <2>1
  <2>3. start[i + 2] = Len(f[i + 1]) /\ start[i + 3] = Len(f[i + 1] \o seqs[i + 2])
    BY <1>4, <2>1, <2>2
  <2>4. PartsAt(f[i + 1], seqs, start, i + 1)
    BY <1>6
  <2>5. PartsAt(f[i + 2], seqs, start, i + 2)
    BY <2>1, <2>2, <2>3, <2>4, PartsGrow
  <2>6. QED
    BY <2>1, <2>5
<1>7. n - 1 \in T
  <2> HIDE DEF T
  <2>1. n - 1 \in Nat
    BY <1>1
  <2>2. \A k \in 0..n - 1 : k \in T
    BY <1>5, <1>6, <2>1, Induction
  <2>3. QED
    BY <2>1, <2>2
<1>8. PartsAt(f[n], seqs, start, n)
  BY <1>1, <1>7
<1>9. n \in 1..n
  BY <1>1
<1>10. FlattenSeq(seqs) \in Seq(X)
  BY <1>2, <1>9
<1>11. QED
  BY <1>2, <1>3, <1>8, <1>10 DEF n
=============================================================================
