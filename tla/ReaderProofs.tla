---------------------------- MODULE ReaderProofs ----------------------------
(***************************************************************************)
(* Proofs about the readers of ProviderConfiguration, for documents with    *)
(* any number of providers: what TLC computes for each of a few documents   *)
(* holds of all of them.                                                   *)
(*                                                                         *)
(* A document is laid out in parts, one for each provider (Layout), and the *)
(* loop reads each part well or badly: either its entry is the one that the *)
(* document says and leaves the reader right before the next provider, or   *)
(* it is another one, or the rest is lost.  Then the table is what the      *)
(* document says exactly if every part is read well (TableExact, by         *)
(* induction from the last provider to the first).  What is left is to say  *)
(* of one provider when it is read well.                                   *)
(***************************************************************************)
EXTENDS ProviderConfiguration, LoopInduction

-----------------------------------------------------------------------------
(* Documents, the moves of the reader and the loop over the providers.     *)

(* Where the parts of a document are: that of provider k begins at pos[k],  *)
(* behind the white space, if any.                                         *)
Layout(nodes, spaced, parts, n, pos) ==
  /\ pos \in [1..n + 1 -> Nat]
  /\ pos[1] = IF spaced THEN 2 ELSE 1
  /\ spaced => nodes[1].element = "Space"
  /\ \A k \in 1..n : pos[k + 1] = pos[k] + Len(parts[k])
  /\ pos[n + 1] = Len(nodes) + 1
  /\ \A k \in 1..n : \A m \in 1..Len(parts[k]) :
       /\ pos[k] + m - 1 \in 1..Len(nodes)
       /\ nodes[pos[k] + m - 1] = parts[k][m]
  /\ \A j \in 1..Len(nodes) :
       \/ spaced /\ j = 1
       \/ \E k \in 1..n : \E m \in 1..Len(parts[k]) : j = pos[k] + m - 1

(* A sequence of one element.                                              *)
LEMMA OneElement ==
  ASSUME NEW s, NEW a, s = <<a>>
  PROVE  1 \in 1..Len(s) /\ Len(s) = 1 /\ s[1] = a
OBVIOUS

(* The parts of a document follow each other, behind the white space, and  *)
(* there is nothing else in it.                                            *)
LEMMA DocumentLayout ==
  ASSUME NEW X, NEW spaced \in BOOLEAN, Space(spaced) \in Seq(X),
         NEW n \in Nat, n # 0, NEW parts \in [1..n -> Seq(X)]
  PROVE  /\ Document(spaced, parts) \in Seq(X)
         /\ \E pos : Layout(Document(spaced, parts), spaced, parts, n, pos)
<1> DEFINE seqs == <<Space(spaced)>> \o parts
           nodes == Document(spaced, parts)
           s == Len(Space(spaced))
<1>1. /\ seqs \in Seq(Seq(X)) /\ Len(seqs) = n + 1 /\ seqs # <<>>
      /\ seqs[1] = Space(spaced) /\ \A k \in 1..n : seqs[k + 1] = parts[k]
  <2>1. parts \in Seq(Seq(X)) /\ Len(parts) = n
    OBVIOUS
  <2>2. <<Space(spaced)>> \in Seq(Seq(X)) /\ Len(<<Space(spaced)>>) = 1
    OBVIOUS
  <2>3. /\ seqs \in Seq(Seq(X)) /\ Len(seqs) = 1 + n
        /\ seqs[1] = Space(spaced) /\ \A k \in 1..n : seqs[1 + k] = parts[k]
    <3> HIDE DEF Space
    <3>1. 1 \in 1..1 /\ <<Space(spaced)>>[1] = Space(spaced)
      OBVIOUS
    <3>2. QED
      BY <2>1, <2>2, <3>1, ConcatParts
  <2>4. QED
    BY <2>3
<1>2. s = IF spaced THEN 1 ELSE 0
  BY DEF Space
<1> HIDE DEF s, nodes, seqs
<1>3. /\ nodes \in Seq(X)
      /\ \E start \in [1..Len(seqs) + 1 -> Nat] :
           start[1] = 0 /\ PartsAt(nodes, seqs, start, Len(seqs))
  BY <1>1, FlattenParts DEF nodes, Document, seqs
<1>4. PICK start \in [1..n + 2 -> Nat] :
        start[1] = 0 /\ PartsAt(nodes, seqs, start, n + 1)
  <2>1. 1..Len(seqs) + 1 = 1..n + 2
    BY <1>1
  <2>2. QED
    BY <1>1, <1>3, <2>1
<1>5. /\ \A k \in 1..n + 1 : start[k + 1] = start[k] + Len(seqs[k])
      /\ \A k \in 1..n + 1 : \A m \in 1..Len(seqs[k]) :
           start[k] + m \in 1..Len(nodes) /\ nodes[start[k] + m] = seqs[k][m]
      /\ \A j \in 1..Len(nodes) :
           \E k \in 1..n + 1 : \E m \in 1..Len(seqs[k]) : j = start[k] + m
      /\ Len(nodes) = start[(n + 1) + 1]
  BY <1>4 DEF PartsAt
<1> DEFINE pos == [k \in 1..n + 1 |-> start[k + 1] + 1]
<1>6. pos \in [1..n + 1 -> Nat] /\ \A k \in 1..n + 1 : pos[k] = start[k + 1] + 1
  BY <1>4
<1> HIDE DEF pos
<1>7. /\ 1 \in 1..n + 1 /\ n + 1 \in 1..n + 1
      /\ \A k \in 1..n : k + 1 \in 1..n + 1 /\ k \in 1..n + 1 /\ k + 1 \in 1..n + 2
      /\ \A k \in 1..n + 1 : k = 1 \/ (k - 1 \in 1..n /\ (k - 1) + 1 = k)
  OBVIOUS
<1>8. pos[1] = IF spaced THEN 2 ELSE 1
  <2>1. start[1 + 1] = start[1] + s
    BY <1>1, <1>5, <1>7 DEF s
  <2>2. start[1 + 1] = s
    BY <1>2, <1>4, <2>1
  <2>3. pos[1] = start[1 + 1] + 1
    BY <1>6, <1>7
  <2>4. QED
    BY <1>2, <2>2, <2>3
<1>9. \A k \in 1..n : pos[k + 1] = pos[k] + Len(parts[k])
  <2> SUFFICES ASSUME NEW k \in 1..n PROVE pos[k + 1] = pos[k] + Len(parts[k])
    OBVIOUS
  <2>1. start[(k + 1) + 1] = start[k + 1] + Len(parts[k])
    BY <1>1, <1>5, <1>7
  <2>2. start[k + 1] \in Nat /\ Len(parts[k]) \in Nat
    BY <1>4, <1>7
  <2>3. pos[k + 1] = start[(k + 1) + 1] + 1 /\ pos[k] = start[k + 1] + 1
    BY <1>6, <1>7
  <2>4. QED
    BY <2>1, <2>2, <2>3
<1>10. pos[n + 1] = Len(nodes) + 1
  BY <1>5, <1>6, <1>7
<1>11. ASSUME NEW k \in 1..n, NEW m \in 1..Len(parts[k])
       PROVE  /\ pos[k] + m - 1 = start[k + 1] + m
              /\ pos[k] + m - 1 \in 1..Len(nodes)
              /\ nodes[pos[k] + m - 1] = parts[k][m]
  <2>1. pos[k] + m - 1 = start[k + 1] + m
    <3>1. start[k + 1] \in Nat /\ m \in Int /\ pos[k] = start[k + 1] + 1
      BY <1>4, <1>6, <1>7
    <3>2. QED
      BY <3>1
  <2>2. /\ start[k + 1] + m \in 1..Len(nodes)
        /\ nodes[start[k + 1] + m] = parts[k][m]
    <3>1. k + 1 \in 1..n + 1 /\ seqs[k + 1] = parts[k]
      BY <1>1, <1>7
    <3>2. \A i \in 1..Len(seqs[k + 1]) :
            /\ start[k + 1] + i \in 1..Len(nodes)
            /\ nodes[start[k + 1] + i] = seqs[k + 1][i]
      BY <1>5, <3>1
    <3>3. QED
      BY <3>1, <3>2
  <2>3. QED
    BY <2>1, <2>2
<1>12. ASSUME NEW j \in 1..Len(nodes)
       PROVE  \/ spaced /\ j = 1
              \/ \E k \in 1..n : \E m \in 1..Len(parts[k]) : j = pos[k] + m - 1
  <2>1. PICK k \in 1..n + 1 : \E m \in 1..Len(seqs[k]) : j = start[k] + m
    BY <1>5
  <2>2. PICK m \in 1..Len(seqs[k]) : j = start[k] + m
    BY <2>1
  <2>3. CASE k = 1
    <3>1. m \in 1..s /\ j = 0 + m
      BY <1>1, <1>4, <2>2, <2>3 DEF s
    <3>2. QED
      BY <1>2, <3>1
  <2>4. CASE k - 1 \in 1..n /\ (k - 1) + 1 = k
    <3>1. seqs[k] = parts[k - 1]
      BY <1>1, <2>4
    <3>2. m \in 1..Len(parts[k - 1])
      BY <2>2, <3>1
    <3>3. j = pos[k - 1] + m - 1
      BY <1>11, <2>2, <2>4, <3>2
    <3>4. QED
      BY <2>4, <3>2, <3>3
  <2>5. QED
    BY <1>7, <2>3, <2>4
<1>13. ASSUME spaced PROVE nodes[1].element = "Space"
  <2>1. Space(spaced) = <<Node("Space", 0, "")>>
    BY <1>13 DEF Space
  <2>2. 1 \in 1..Len(seqs[1]) /\ seqs[1][1] = Node("Space", 0, "")
    <3>1. seqs[1] = <<Node("Space", 0, "")>>
      BY <1>1, <2>1
    <3>2. QED
      BY <3>1, OneElement
  <2>3. nodes[start[1] + 1] = seqs[1][1]
    <3>1. \A m \in 1..Len(seqs[1]) : nodes[start[1] + m] = seqs[1][m]
      BY <1>5, <1>7
    <3>2. QED
      BY <2>2, <3>1
  <2>4. start[1] + 1 = 1 /\ Node("Space", 0, "").element = "Space"
    BY <1>4 DEF Node
  <2>5. QED
    BY <2>2, <2>3, <2>4
<1>14. Layout(nodes, spaced, parts, n, pos)
  BY <1>6, <1>8, <1>9, <1>10, <1>11, <1>12, <1>13 DEF Layout
<1>15. QED
  BY <1>3, <1>14 DEF nodes

(* The least of some numbers is one of them.                               *)
LEMMA MinOfNumbers ==
  ASSUME NEW S \in SUBSET Nat, S # {}
  PROVE  Min(S) \in S /\ \A k \in S : Min(S) <= k
BY LeastNumber DEF Min

(* The first position is one of them, before or at all others.             *)
LEMMA FirstOfPositions ==
  ASSUME NEW X, NEW nodes \in Seq(X), NEW S \in SUBSET 1..Len(nodes)
  PROVE  /\ FirstOf(nodes, S) \in S \/ (S = {} /\ FirstOf(nodes, S) = Len(nodes) + 1)
         /\ \A j \in S : FirstOf(nodes, S) <= j
<1>1. Len(nodes) \in Nat /\ S \in SUBSET Nat
  OBVIOUS
<1>2. CASE S = {}
  BY <1>2 DEF FirstOf
<1>3. CASE S # {}
  BY <1>1, <1>3, MinOfNumbers DEF FirstOf
<1>4. QED
  BY <1>2, <1>3

(* ReadToFollowing stops at the next such element or at the end.           *)
LEMMA ReadToFollowingStops ==
  ASSUME NEW X, NEW nodes \in Seq(X), NEW i \in Nat, NEW element,
         NEW r, r = ReadToFollowing(nodes, i, element)
  PROVE  /\ \/ r \in i + 1..Len(nodes) /\ nodes[r].element = element
            \/ r = Len(nodes) + 1
         /\ \A j \in i + 1..Len(nodes) : nodes[j].element = element => r <= j
<1> DEFINE S == {j \in i + 1..Len(nodes) : nodes[j].element = element}
<1>1. S \in SUBSET 1..Len(nodes) /\ r = FirstOf(nodes, S)
  BY DEF ReadToFollowing
<1>2. /\ r \in S \/ (S = {} /\ r = Len(nodes) + 1)
      /\ \A j \in S : r <= j
  <2> HIDE DEF S
  <2> QED
    BY <1>1, FirstOfPositions
<1>3. QED
  BY <1>2

(* An element right behind the reader is the one it moves to.              *)
LEMMA ReadToNext ==
  ASSUME NEW X, NEW nodes \in Seq(X), NEW i \in Nat, NEW element,
         NEW j, j = i + 1, j <= Len(nodes), nodes[j].element = element
  PROVE  ReadToFollowing(nodes, i, element) = j
<1>1. Len(nodes) \in Nat
  OBVIOUS
<1> DEFINE r == ReadToFollowing(nodes, i, element)
<1>2. /\ \/ r \in i + 1..Len(nodes) /\ nodes[r].element = element
         \/ r = Len(nodes) + 1
      /\ \A k \in i + 1..Len(nodes) : nodes[k].element = element => r <= k
  BY ReadToFollowingStops
<1> HIDE DEF r
<1>3. j \in i + 1..Len(nodes)
  BY <1>1
<1>4. r <= j
  BY <1>2, <1>3
<1>5. r = j
  BY <1>1, <1>2, <1>4
<1>6. QED
  BY <1>5 DEF r

(* The last of some siblings: behind it is another element, or nothing.    *)
LEMMA LastSiblingStops ==
  ASSUME NEW X, NEW nodes \in Seq(X), NEW i \in 1..Len(nodes)
  PROVE  /\ LastSibling(nodes, i) \in i..Len(nodes)
         /\ \A l \in i..Len(nodes) :
              /\ \A j \in i..l : nodes[j].element = nodes[i].element
              /\ l < Len(nodes) => nodes[l + 1].element # nodes[i].element
              => LastSibling(nodes, i) = l
<1> DEFINE S == {j \in i..Len(nodes) : nodes[j].element # nodes[i].element}
           r == FirstOf(nodes, S)
<1>1. Len(nodes) \in Nat /\ S \in SUBSET 1..Len(nodes) /\ i \notin S
  OBVIOUS
<1>2. LastSibling(nodes, i) = r - 1
  BY <1>1 DEF LastSibling
<1>3. /\ r \in S \/ (S = {} /\ r = Len(nodes) + 1)
      /\ \A j \in S : r <= j
  <2> HIDE DEF S
  <2> QED
    BY <1>1, FirstOfPositions
<1> HIDE DEF r
<1>4. r \in i + 1..Len(nodes) + 1
  BY <1>1, <1>3
<1>5. ASSUME NEW l \in i..Len(nodes),
             \A j \in i..l : nodes[j].element = nodes[i].element,
             l < Len(nodes) => nodes[l + 1].element # nodes[i].element
      PROVE  r - 1 = l
  <2>1. CASE l < Len(nodes)
    <3>1. l + 1 \in S
      BY <1>5, <2>1
    <3>2. r \in S /\ r <= l + 1
      BY <1>3, <3>1
    <3>3. r \notin i..l
      BY <1>5, <3>2
    <3>4. QED
      BY <1>4, <3>2, <3>3
  <2>2. CASE l = Len(nodes)
    <3>1. S = {}
      BY <1>5, <2>2
    <3>2. QED
      BY <1>1, <1>3, <2>2, <3>1
  <2>3. QED
    BY <1>1, <2>1, <2>2
<1>6. r - 1 \in i..Len(nodes)
  BY <1>1, <1>4
<1>7. QED
  BY <1>2, <1>5, <1>6

(* read is what the loop reads from each position of the reader.           *)
Reads(read, nodes, element, entry, next) ==
  \A i \in 1..Len(nodes) + 1 :
    \A p : p = ReadToFollowing(nodes, i, element) =>
      read[i] = IF p > Len(nodes) THEN <<>> ELSE <<entry[p]>> \o read[next[p]]

(* The loop over the providers is what its definition says.                *)
LEMMA TableReads ==
  ASSUME NEW X, NEW nodes \in Seq(X), NEW element, NEW entry, NEW next,
         \A p \in 1..Len(nodes) : next[p] \in p..Len(nodes) + 1
  PROVE  \E read :
           /\ Table(nodes, element, entry, next) = read[1]
           /\ Reads(read, nodes, element, entry, next)
<1> DEFINE n == Len(nodes)
           To(i) == ReadToFollowing(nodes, i, element)
           D == 1..n + 1
           E == {entry[p] : p \in 1..n}
           S == Seq(E)
           rank == [i \in D |-> n + 1 - i]
           stop == {i \in D : To(i) > n}
           base == [i \in D |-> <<>>]
           goto == [i \in D |-> next[To(i)]]
           step == [i \in D |-> [x \in S |->
                      IF i \in stop THEN x ELSE <<entry[To(i)]>> \o x]]
           Meets(read) ==
             read = [i \in D |->
                       LET p == To(i)
                       IN  IF p > n THEN <<>> ELSE <<entry[p]>> \o read[next[p]]]
<1>1. n \in Nat
  OBVIOUS
<1>2. ASSUME NEW i \in D \ stop
      PROVE  To(i) \in i + 1..n
  <2>1. i \in Nat /\ ~(To(i) > n)
    BY <1>1
  <2>2. To(i) \in i + 1..n \/ To(i) = n + 1
    BY <2>1, ReadToFollowingStops
  <2>3. QED
    BY <1>1, <2>1, <2>2
<1>3. \A i \in D \ stop : To(i) \in 1..n /\ entry[To(i)] \in E
  BY <1>1, <1>2
<1> HIDE DEF To
<1>4. \A i \in D \ stop : goto[i] \in D /\ rank[goto[i]] < rank[i]
  <2> SUFFICES ASSUME NEW i \in D \ stop
               PROVE  goto[i] \in D /\ rank[goto[i]] < rank[i]
    OBVIOUS
  <2>1. goto[i] = next[To(i)] /\ next[To(i)] \in To(i)..n + 1
    BY <1>3
  <2>2. goto[i] \in i + 1..n + 1
    BY <1>1, <1>2, <2>1
  <2>3. QED
    BY <1>1, <2>2
<1>5. rank \in [D -> 0..n] /\ base \in [D -> S]
  BY <1>1
<1>6. step \in [D -> [S -> S]]
  <2> SUFFICES ASSUME NEW i \in D, NEW x \in S
               PROVE  (IF i \in stop THEN x ELSE <<entry[To(i)]>> \o x) \in S
    OBVIOUS
  <2>1. CASE i \in stop
    BY <2>1
  <2>2. CASE i \notin stop
    <3>1. <<entry[To(i)]>> \in S
      BY <1>3, <2>2
    <3> HIDE DEF E
    <3>2. QED
      BY <2>2, <3>1
  <2>3. QED
    BY <2>1, <2>2
<1>7. \E f : Recursive(f, D, S, stop, base, goto, step)
  <2> HIDE DEF D, S, rank, stop, base, goto, step, n
  <2> QED
    BY <1>1, <1>4, <1>5, <1>6, RecursionExists
<1>8. PICK f : Recursive(f, D, S, stop, base, goto, step)
  BY <1>7
<1>9. Meets(f)
  <2>1. f \in [D -> S]
    BY <1>8 DEF Recursive
  <2>2. ASSUME NEW i \in D
        PROVE  f[i] = IF To(i) > n THEN <<>>
                      ELSE <<entry[To(i)]>> \o f[next[To(i)]]
    <3>1. CASE i \in stop
      <4>1. f[i] = base[i]
        BY <1>8, <3>1 DEF Recursive
      <4>2. QED
        BY <3>1, <4>1
    <3>2. CASE i \notin stop
      <4>1. f[i] = step[i][f[goto[i]]]
        BY <1>8, <3>2 DEF Recursive
      <4>2. f[goto[i]] \in S
        BY <1>4, <2>1, <3>2
      <4>3. step[i][f[goto[i]]] = <<entry[To(i)]>> \o f[goto[i]]
        BY <3>2, <4>2
      <4>4. QED
        BY <3>2, <4>1, <4>3
    <3>3. QED
      BY <3>1, <3>2
  <2>3. QED
    BY <2>1, <2>2
<1> DEFINE g == CHOOSE h : Meets(h)
<1>10. Meets(g)
  <2> HIDE DEF Meets
  <2> QED
    BY <1>9
<1>11. Table(nodes, element, entry, next) = g[1]
  BY DEF Table, To
<1> HIDE DEF g
<1>12. \A i \in D : g[i] = IF To(i) > n THEN <<>>
                          ELSE <<entry[To(i)]>> \o g[next[To(i)]]
  BY <1>10
<1>13. Reads(g, nodes, element, entry, next)
  <2>1. ASSUME NEW i \in D, NEW p, p = To(i)
        PROVE  g[i] = IF p > n THEN <<>> ELSE <<entry[p]>> \o g[next[p]]
    BY <1>12, <2>1
  <2>2. QED
    BY <2>1 DEF Reads, To
<1>14. QED
  BY <1>11, <1>13

(* What the loop may read.                                                 *)
Entries(nodes, element, entry) ==
  {entry[p] : p \in {q \in 1..Len(nodes) : nodes[q].element = element}}

(* It is always a list of entries.                                         *)
LEMMA ReadsEntries ==
  ASSUME NEW X, NEW nodes \in Seq(X), NEW element, NEW entry, NEW next,
         \A p \in 1..Len(nodes) : next[p] \in p..Len(nodes) + 1,
         NEW read, Reads(read, nodes, element, entry, next)
  PROVE  \A i \in 1..Len(nodes) + 1 :
           read[i] \in Seq(Entries(nodes, element, entry))
<1> DEFINE n == Len(nodes)
           S == Seq(Entries(nodes, element, entry))
           T == {m \in 0..n : \A i \in 1..n + 1 : i + m >= n + 1 => read[i] \in S}
<1>1. n \in Nat
  OBVIOUS
<1>2. ASSUME NEW i \in 1..n + 1,
             \A j \in 1..n + 1 : j > i => read[j] \in S
      PROVE  read[i] \in S
  <2> DEFINE p == ReadToFollowing(nodes, i, element)
  <2>1. i \in Nat
    BY <1>1
  <2>2. (p \in i + 1..n /\ nodes[p].element = element) \/ p = n + 1
    BY <2>1, ReadToFollowingStops
  <2>3. read[i] = IF p > n THEN <<>> ELSE <<entry[p]>> \o read[next[p]]
    BY DEF Reads
  <2> HIDE DEF p
  <2>4. CASE p = n + 1
    BY <1>1, <2>3, <2>4
  <2>5. CASE p \in i + 1..n /\ nodes[p].element = element
    <3>1. p \in 1..n /\ ~(p > n) /\ next[p] \in p..n + 1
      BY <1>1, <2>1, <2>5
    <3>2. next[p] \in 1..n + 1 /\ next[p] > i
      BY <1>1, <2>1, <2>5, <3>1
    <3>3. read[next[p]] \in S /\ <<entry[p]>> \in S
      <4>1. entry[p] \in Entries(nodes, element, entry)
        BY <2>5, <3>1 DEF Entries
      <4>2. QED
        BY <1>2, <3>2, <4>1
    <3>4. read[i] = <<entry[p]>> \o read[next[p]]
      BY <2>3, <3>1
    <3> HIDE DEF n
    <3>5. QED
      BY <3>3, <3>4
  <2>6. QED
    BY <2>2, <2>4, <2>5
<1> HIDE DEF S
<1>3. 0 \in T
  <2>1. ASSUME NEW i \in 1..n + 1, i >= n + 1
        PROVE  \A j \in 1..n + 1 : ~(j > i)
    BY <1>1, <2>1
  <2>2. QED
    BY <1>1, <1>2, <2>1
<1>4. ASSUME NEW m \in 0..n - 1, m \in T PROVE m + 1 \in T
  <2>1. ASSUME NEW i \in 1..n + 1, i + (m + 1) >= n + 1
        PROVE  \A j \in 1..n + 1 : j > i => read[j] \in S
    BY <1>1, <1>4, <2>1
  <2>2. QED
    BY <1>1, <1>2, <2>1
<1>5. \A m \in 0..n : m \in T
  <2> HIDE DEF T, n
  <2> QED
    BY <1>1, <1>3, <1>4, Induction
<1>6. QED
  <2>1. n \in T
    BY <1>1, <1>5
  <2>2. \A i \in 1..n + 1 : i + n >= n + 1
    BY <1>1
  <2>3. QED
    BY <2>1, <2>2 DEF S

(* So is the table.                                                        *)
LEMMA TableEntries ==
  ASSUME NEW X, NEW nodes \in Seq(X), NEW element, NEW entry, NEW next,
         \A p \in 1..Len(nodes) : next[p] \in p..Len(nodes) + 1
  PROVE  Table(nodes, element, entry, next) \in Seq(Entries(nodes, element, entry))
<1>1. PICK read : /\ Table(nodes, element, entry, next) = read[1]
                  /\ Reads(read, nodes, element, entry, next)
  BY TableReads
<1>2. 1 \in 1..Len(nodes) + 1
  OBVIOUS
<1>3. QED
  BY <1>1, <1>2, ReadsEntries

(* A list with one more entry in front.                                    *)
LEMMA EntryInFront ==
  ASSUME NEW E, NEW e \in E, NEW rest \in Seq(E), NEW all, all = <<e>> \o rest
  PROVE  /\ Len(rest) \in Nat /\ Len(all) = Len(rest) + 1 /\ all[1] = e
         /\ \A j \in 1..Len(rest) : all[j + 1] = rest[j]
<1>1. <<e>> \in Seq(E) /\ Len(<<e>>) = 1 /\ <<e>>[1] = e /\ 1 \in 1..1
  OBVIOUS
<1>2. /\ Len(rest) \in Nat /\ Len(all) = 1 + Len(rest)
      /\ all[1] = e /\ \A j \in 1..Len(rest) : all[1 + j] = rest[j]
  BY <1>1, ConcatParts
<1>3. QED
  BY <1>2

(* Provider k gives the entry said, and its entry leaves the reader right  *)
(* before the next provider, or behind the last.                           *)
ReadWell(nodes, element, entry, next, n, pos, said, k) ==
  /\ entry[pos[k]] = said[k]
  /\ k < n => next[pos[k]] = pos[k + 1] - 1
  /\ k = n => ReadToFollowing(nodes, next[pos[k]], element) > Len(nodes)

(* Provider k gives a wrong entry, or loses the providers behind it.       *)
ReadBadly(nodes, element, entry, next, n, pos, said, k) ==
  \/ entry[pos[k]] # said[k]
  \/ k < n /\ ReadToFollowing(nodes, next[pos[k]], element) > Len(nodes)

(* Each provider is read as said or badly; good are those read as said.    *)
WellOrBadly(nodes, element, entry, next, n, pos, said, good) ==
  \A k \in 1..n :
    \/ k \in good /\ ReadWell(nodes, element, entry, next, n, pos, said, k)
    \/ k \notin good /\ ReadBadly(nodes, element, entry, next, n, pos, said, k)

(* said is a list of n elements.                                           *)
IsList(said, n) == said = [k \in 1..n |-> said[k]]

(* The providers are read as said from the first on exactly if every one   *)
(* of them is read well.                                                   *)
LEMMA TableExact ==
  ASSUME NEW X, NEW nodes \in Seq(X), NEW element, NEW entry, NEW next,
         \A p \in 1..Len(nodes) : next[p] \in p..Len(nodes) + 1,
         NEW read, Reads(read, nodes, element, entry, next),
         NEW n \in Nat, n # 0, NEW pos, NEW good,
         NEW said, IsList(said, n),
         pos[1] = 2, \A k \in 1..n : pos[k] \in 2..Len(nodes)
                                     /\ nodes[pos[k]].element = element,
         WellOrBadly(nodes, element, entry, next, n, pos, said, good)
  PROVE  read[1] = said <=> \A k \in 1..n : k \in good
<1> DEFINE N == Len(nodes)
           E == Entries(nodes, element, entry)
           Is(r, k) == Len(r) = n - k + 1
                       /\ \A j \in 1..n - k + 1 : r[j] = said[k + j - 1]
           Claim(k) == Is(read[pos[k] - 1], k) <=> \A l \in k..n : l \in good
           T == {i \in 0..n - 1 : Claim(n - i)}
<1>1. N \in Nat
  OBVIOUS
<1>2. \A i \in 1..N + 1 : read[i] \in Seq(E)
  BY ReadsEntries
<1>3. ASSUME NEW k \in 1..n
      PROVE  /\ pos[k] \in 1..N /\ next[pos[k]] \in 1..N + 1
             /\ pos[k] - 1 \in 1..N + 1
             /\ read[pos[k] - 1] = <<entry[pos[k]]>> \o read[next[pos[k]]]
  <2>1. pos[k] \in 1..N /\ pos[k] - 1 \in Nat /\ pos[k] = (pos[k] - 1) + 1
        /\ pos[k] <= N /\ ~(pos[k] > N) /\ pos[k] - 1 \in 1..N + 1
    BY <1>1
  <2>2. pos[k] = ReadToFollowing(nodes, pos[k] - 1, element)
    BY <2>1, ReadToNext
  <2>3. next[pos[k]] \in pos[k]..N + 1
    BY <2>1
  <2>4. next[pos[k]] \in 1..N + 1
    BY <1>1, <2>1, <2>3
  <2>5. \A i \in 1..N + 1 : \A p : p = ReadToFollowing(nodes, i, element) =>
          read[i] = IF p > N THEN <<>> ELSE <<entry[p]>> \o read[next[p]]
    BY DEF Reads
  <2> HIDE DEF N
  <2>6. read[pos[k] - 1] = <<entry[pos[k]]>> \o read[next[pos[k]]]
    BY <2>1, <2>2, <2>5
  <2>7. QED
    BY <2>1, <2>4, <2>6
<1>4. ASSUME NEW k \in 1..n
      PROVE  /\ Len(read[next[pos[k]]]) \in Nat
             /\ Is(read[pos[k] - 1], k) <=>
                  /\ entry[pos[k]] = said[k]
                  /\ Len(read[next[pos[k]]]) = n - k
                  /\ \A j \in 1..n - k : read[next[pos[k]]][j] = said[k + j]
  <2> DEFINE e == entry[pos[k]]
             rest == read[next[pos[k]]]
             all == read[pos[k] - 1]
  <2>1. e \in E /\ rest \in Seq(E) /\ all = <<e>> \o rest
    <3>1. e \in E
      BY <1>3 DEF Entries
    <3>2. QED
      BY <1>2, <1>3, <3>1
  <2> HIDE DEF e, rest, all, E
  <2>2. /\ Len(rest) \in Nat /\ Len(all) = Len(rest) + 1 /\ all[1] = e
        /\ \A j \in 1..Len(rest) : all[j + 1] = rest[j]
    BY <2>1, EntryInFront
  <2> DEFINE m == n - k
  <2>3. m \in Nat /\ n - k + 1 = m + 1
    OBVIOUS
  <2>4. k + 1 - 1 = k /\ \A j \in 1..m : k + (j + 1) - 1 = k + j
    OBVIOUS
  <2> HIDE DEF m
  <2>5. ASSUME Len(all) = m + 1, \A j \in 1..m + 1 : all[j] = said[k + j - 1]
        PROVE  e = said[k] /\ Len(rest) = m /\ \A j \in 1..m : rest[j] = said[k + j]
    <3>1. Len(rest) = m
      BY <2>2, <2>3, <2>5
    <3>2. 1 \in 1..m + 1 /\ \A j \in 1..m : j + 1 \in 1..m + 1
      BY <2>3
    <3>3. e = said[k]
      BY <2>2, <2>4, <2>5, <3>2
    <3>4. ASSUME NEW j \in 1..m PROVE rest[j] = said[k + j]
      <4>1. all[j + 1] = said[k + (j + 1) - 1]
        BY <2>5, <3>2
      <4>2. QED
        BY <2>2, <2>4, <3>1, <4>1
    <3>5. QED
      BY <3>1, <3>3, <3>4
  <2>6. ASSUME e = said[k], Len(rest) = m, \A j \in 1..m : rest[j] = said[k + j]
        PROVE  Len(all) = m + 1 /\ \A j \in 1..m + 1 : all[j] = said[k + j - 1]
    <3>1. \A j \in 1..m + 1 : j = 1 \/ (j - 1 \in 1..m /\ j = (j - 1) + 1)
      BY <2>3
    <3>2. ASSUME NEW i \in 1..m PROVE all[i + 1] = said[k + (i + 1) - 1]
      BY <2>2, <2>4, <2>6
    <3>3. all[1] = said[k + 1 - 1]
      BY <2>2, <2>4, <2>6
    <3>4. ASSUME NEW j \in 1..m + 1 PROVE all[j] = said[k + j - 1]
      <4>1. CASE j = 1
        BY <3>3, <4>1
      <4>2. CASE j - 1 \in 1..m /\ j = (j - 1) + 1
        BY <3>2, <4>2
      <4>3. QED
        BY <3>1, <4>1, <4>2
    <3>5. QED
      BY <2>2, <2>6, <3>4
  <2>7. QED
    BY <2>2, <2>3, <2>5, <2>6 DEF e, rest, all, m
<1>5. ASSUME NEW r PROVE r = <<>> => Len(r) = 0
  OBVIOUS
<1>6. ASSUME NEW k \in 1..n,
             ReadToFollowing(nodes, next[pos[k]], element) > Len(nodes)
      PROVE  read[next[pos[k]]] = <<>>
  BY <1>3, <1>6 DEF Reads
<1> DEFINE last(k) == ReadToFollowing(nodes, next[pos[k]], element) > Len(nodes)
<1>7. /\ \A k \in 1..n : k \in good =>
           /\ entry[pos[k]] = said[k]
           /\ k < n => next[pos[k]] = pos[k + 1] - 1
           /\ k = n => last(k)
      /\ \A k \in 1..n : k \notin good =>
           entry[pos[k]] # said[k] \/ (k < n /\ last(k))
  BY DEF WellOrBadly, ReadWell, ReadBadly
<1>8. \A k \in 1..n : last(k) => read[next[pos[k]]] = <<>>
  BY <1>6
<1> HIDE DEF last
<1>9. Claim(n)
  <2>1. n \in 1..n /\ n - n = 0 /\ (\A l \in n..n : l = n) /\ n \in n..n
        /\ \A j \in 1..n - n : FALSE
    OBVIOUS
  <2>2. CASE n \in good
    <3>1. Len(read[next[pos[n]]]) = 0 /\ entry[pos[n]] = said[n]
      BY <1>5, <1>7, <1>8, <2>1, <2>2
    <3>2. Is(read[pos[n] - 1], n)
      BY <1>4, <2>1, <3>1
    <3>3. QED
      BY <2>1, <2>2, <3>2
  <2>3. CASE n \notin good
    <3>1. entry[pos[n]] # said[n]
      BY <1>7, <2>1, <2>3
    <3>2. ~Is(read[pos[n] - 1], n)
      BY <1>4, <2>1, <3>1
    <3>3. QED
      BY <2>1, <2>3, <3>2
  <2>4. QED
    BY <2>2, <2>3
<1>10. ASSUME NEW k \in 1..n - 1, Claim(k + 1) PROVE Claim(k)
  <2>0. k \in 1..n /\ k + 1 \in 1..n /\ k < n /\ n - k # 0
    OBVIOUS
  <2>1. /\ k \in 1..n /\ k + 1 \in 1..n /\ k < n /\ n - k # 0
        /\ n - (k + 1) + 1 = n - k /\ \A j \in 1..n - k : (k + 1) + j - 1 = k + j
        /\ \A l \in k..n : l = k \/ l \in k + 1..n
        /\ k \in k..n /\ \A l \in k + 1..n : l \in k..n
    BY <2>0
  <2>2. CASE k \in good
    <3>1. entry[pos[k]] = said[k] /\ next[pos[k]] = pos[k + 1] - 1
      BY <1>7, <2>1, <2>2
    <3>2. Is(read[next[pos[k]]], k + 1) <=>
            /\ Len(read[next[pos[k]]]) = n - k
            /\ \A j \in 1..n - k : read[next[pos[k]]][j] = said[k + j]
      BY <2>1
    <3>3. Is(read[pos[k] - 1], k) <=> Is(read[next[pos[k]]], k + 1)
      BY <1>4, <2>1, <3>1, <3>2
    <3> HIDE DEF Is
    <3>4. QED
      BY <1>10, <2>1, <2>2, <3>1, <3>3
  <2>3. CASE k \notin good
    <3>1. \/ entry[pos[k]] # said[k]
          \/ Len(read[next[pos[k]]]) = 0
      BY <1>5, <1>7, <1>8, <2>1, <2>3
    <3>2. ~Is(read[pos[k] - 1], k)
      BY <1>4, <2>1, <3>1
    <3> HIDE DEF Is
    <3>3. QED
      BY <2>1, <2>3, <3>2
  <2>4. QED
    BY <2>2, <2>3
<1> HIDE DEF Claim
<1>11. n - 1 \in T
  <2>1. 0 \in T
    BY <1>9
  <2>2. ASSUME NEW i \in 0..(n - 1) - 1, i \in T PROVE i + 1 \in T
    <3> DEFINE k == n - (i + 1)
    <3>1. k \in 1..n - 1 /\ n - i = k + 1 /\ i + 1 \in 0..n - 1
      OBVIOUS
    <3> HIDE DEF k
    <3>2. Claim(k)
      BY <1>10, <2>2, <3>1
    <3>3. QED
      BY <3>1, <3>2 DEF k
  <2> HIDE DEF T
  <2>3. n - 1 \in Nat
    OBVIOUS
  <2>4. \A i \in 0..n - 1 : i \in T
    BY <2>1, <2>2, <2>3, Induction
  <2>5. QED
    BY <2>3, <2>4
<1>12. Claim(1)
  BY <1>11
<1>13. read[1] = said <=> Is(read[1], 1)
  <2> DEFINE r == read[1]
  <2>1. r \in Seq(E)
    <3>1. 1 \in 1..N + 1
      BY <1>1
    <3>2. QED
      BY <1>2, <3>1
  <2> HIDE DEF r, E
  <2>2. r = said <=>
          Len(r) = n /\ \A k \in 1..n : r[k] = said[k]
    <3>1. ASSUME r = said
          PROVE  Len(r) = n /\ \A k \in 1..n : r[k] = said[k]
      BY <3>1 DEF IsList
    <3>2. ASSUME Len(r) = n, \A k \in 1..n : r[k] = said[k]
          PROVE  r = said
      <4>1. r = [k \in 1..n |-> r[k]]
        BY <2>1, <3>2
      <4>2. QED
        BY <3>2, <4>1 DEF IsList
    <3>3. QED
      BY <3>1, <3>2
  <2>3. n - 1 + 1 = n /\ \A j \in 1..n : 1 + j - 1 = j
    OBVIOUS
  <2>4. QED
    BY <2>2, <2>3 DEF r
<1>14. QED
  BY <1>12, <1>13 DEF Claim

(* Each part starts with the element of its provider, the only one in it.  *)
ProviderParts(parts, n, element) ==
  \A k \in 1..n :
    /\ 1 \in 1..Len(parts[k])
    /\ parts[k][1].element = element /\ parts[k][1].provider = k
    /\ \A m \in 1..Len(parts[k]) : parts[k][m].element = element => m = 1

(* A table holds what the document says exactly if white space precedes the *)
(* first provider, which the loop passes over otherwise, and every provider *)
(* is read well.                                                           *)
LEMMA TableAsSaid ==
  ASSUME NEW X, NEW nodes \in Seq(X), NEW element, element # "Space",
         NEW entry, NEW next,
         \A p \in 1..Len(nodes) : next[p] \in p..Len(nodes) + 1,
         NEW n \in Nat, n # 0, NEW spaced \in BOOLEAN, NEW parts, NEW pos,
         Layout(nodes, spaced, parts, n, pos), ProviderParts(parts, n, element),
         NEW good, NEW said, IsList(said, n),
         \A p \in 1..Len(nodes) :
            nodes[p].provider # 1 => entry[p] # said[1],
         WellOrBadly(nodes, element, entry, next, n, pos, said, good)
  PROVE  Table(nodes, element, entry, next) = said
         <=> spaced /\ \A k \in 1..n : k \in good
<1>1. PICK read : /\ Table(nodes, element, entry, next) = read[1]
                  /\ Reads(read, nodes, element, entry, next)
  BY TableReads
<1>2. /\ Len(nodes) \in Nat /\ 1 \in 1..n /\ 1 \in 1..Len(nodes) + 1
  OBVIOUS
<1>3. ASSUME NEW k \in 1..n
      PROVE  /\ pos[k] \in 1..Len(nodes) /\ nodes[pos[k]].element = element
             /\ nodes[pos[k]].provider = k
  <2>1. 1 \in 1..Len(parts[k])
    BY DEF ProviderParts
  <2>2. pos[k] + 1 - 1 \in 1..Len(nodes) /\ nodes[pos[k] + 1 - 1] = parts[k][1]
    BY <2>1 DEF Layout
  <2>3. pos[k] \in Nat
    BY DEF Layout
  <2>4. pos[k] + 1 - 1 = pos[k]
    BY <2>3
  <2>5. QED
    BY <2>2, <2>4 DEF ProviderParts
<1>4. CASE spaced
  <2>1. pos[1] = 2 /\ nodes[1].element = "Space"
    BY <1>4 DEF Layout
  <2>2. \A k \in 1..n : pos[k] \in 2..Len(nodes) /\ nodes[pos[k]].element = element
    BY <1>2, <1>3, <2>1
  <2>3. read[1] = said <=> \A k \in 1..n : k \in good
    <3> HIDE DEF Reads
    <3>1. QED
      BY <1>1, <2>1, <2>2, TableExact
  <2>4. QED
    BY <1>1, <1>4, <2>3
<1>5. CASE ~spaced
  <2> DEFINE p == ReadToFollowing(nodes, 1, element)
  <2>1. read[1] = IF p > Len(nodes) THEN <<>> ELSE <<entry[p]>> \o read[next[p]]
    BY <1>1, <1>2 DEF Reads
  <2>2. \/ p \in 2..Len(nodes) /\ nodes[p].element = element
        \/ p = Len(nodes) + 1
    BY ReadToFollowingStops
  <2> HIDE DEF p
  <2>3. ASSUME read[1] = said PROVE FALSE
    <3>1. CASE p = Len(nodes) + 1
      <4>1. read[1] = <<>>
        BY <1>2, <2>1, <3>1
      <4>2. said = <<>>
        BY <2>3, <4>1
      <4>3. QED
        BY <4>2, <1>2 DEF IsList
    <3>2. CASE p \in 2..Len(nodes) /\ nodes[p].element = element
      <4>1. p \in 1..Len(nodes) /\ p # 1 /\ ~(p > Len(nodes))
        BY <1>2, <3>2
      <4>2. PICK k \in 1..n : \E m \in 1..Len(parts[k]) : p = pos[k] + m - 1
        BY <1>5, <4>1 DEF Layout
      <4>3. PICK m \in 1..Len(parts[k]) : p = pos[k] + m - 1
        BY <4>2
      <4>4. nodes[p] = parts[k][m]
        BY <4>3 DEF Layout
      <4>5. m = 1
        BY <3>2, <4>4 DEF ProviderParts
      <4>6. pos[k] \in Nat /\ pos[1] = 1
        BY <1>5 DEF Layout
      <4>7. p = pos[k] /\ k # 1
        BY <4>1, <4>3, <4>5, <4>6
      <4>8. entry[p] # said[1]
        BY <1>3, <4>1, <4>7
      <4>9. read[1][1] = said[1]
        BY <2>3
      <4>10. next[p] \in 1..Len(nodes) + 1 /\ entry[p] \in Entries(nodes, element, entry)
        BY <1>2, <3>2, <4>1 DEF Entries
      <4>11. read[next[p]] \in Seq(Entries(nodes, element, entry))
        BY <1>1, <4>10, ReadsEntries
      <4>12. read[1] = <<entry[p]>> \o read[next[p]]
        BY <2>1, <4>1
      <4>13. read[1][1] = entry[p]
        BY <4>10, <4>11, <4>12, EntryInFront
      <4>14. QED
        BY <4>8, <4>9, <4>13
    <3>3. QED
      BY <2>2, <3>1, <3>2
  <2>4. QED
    BY <1>1, <1>5, <2>3
<1>6. QED
  BY <1>4, <1>5

-----------------------------------------------------------------------------
(* Queue providers.                                                        *)

(* A document with any number of providers of a kind.                      *)
DocumentOf(d, Described) ==
  /\ d.spaced \in BOOLEAN
  /\ d.providers \in Seq(Described) /\ d.providers # <<>>

(* A sequence of one element, over a set.                                  *)
LEMMA OneInSeq ==
  ASSUME NEW X, NEW x \in X
  PROVE  <<x>> \in Seq(X)
OBVIOUS

(* The empty sequence, over any set.                                       *)
LEMMA NoneInSeq ==
  ASSUME NEW X
  PROVE  <<>> \in Seq(X)
BY Z3

(* The nodes X may be white space.                                         *)
HasSpace(X) == Node("Space", 0, "") \in X

(* The white space before the first provider is a sequence of nodes.       *)
LEMMA SpaceIsNode ==
  ASSUME NEW X, HasSpace(X), NEW spaced
  PROVE  Space(spaced) \in Seq(X)
<1>1. <<Node("Space", 0, "")>> \in Seq(X) /\ <<>> \in Seq(X)
  BY OneInSeq, NoneInSeq DEF HasSpace
<1>2. QED
  BY <1>1 DEF Space

(* Where a part begins and where the next one does.                        *)
LEMMA PartBegins ==
  ASSUME NEW nodes, NEW spaced, NEW parts, NEW n \in Nat, n # 0, NEW pos,
         Layout(nodes, spaced, parts, n, pos), NEW k \in 1..n
  PROVE  /\ pos[k] \in Nat /\ pos[k + 1] \in Nat
         /\ pos[k + 1] = pos[k] + Len(parts[k])
         /\ k = n => pos[k + 1] = Len(nodes) + 1
<1>1. k \in 1..n + 1 /\ k + 1 \in 1..n + 1
  OBVIOUS
<1>2. QED
  BY <1>1 DEF Layout

(* Nothing follows the end of a document.                                  *)
LEMMA NothingBehind ==
  ASSUME NEW X, NEW nodes \in Seq(X), NEW i \in Nat, i >= Len(nodes), NEW element
  PROVE  ReadToFollowing(nodes, i, element) > Len(nodes)
<1> DEFINE r == ReadToFollowing(nodes, i, element)
<1>1. r \in i + 1..Len(nodes) \/ r = Len(nodes) + 1
  BY ReadToFollowingStops
<1>2. Len(nodes) \in Nat
  OBVIOUS
<1> HIDE DEF r
<1>3. r > Len(nodes)
  BY <1>1, <1>2
<1>4. QED
  BY <1>3 DEF r

-----------------------------------------------------------------------------

(* The parts are the single nodes said, each the element of its provider.  *)
Singletons(parts, said, n, element) ==
  \A k \in 1..n : /\ parts[k] = <<said[k]>>
                  /\ said[k].element = element /\ said[k].provider = k

(* The loop over providers that are one node each.                         *)
LEMMA SingletonsRead ==
  ASSUME NEW X, NEW nodes \in Seq(X), NEW n \in Nat, n # 0,
         NEW spaced \in BOOLEAN, NEW parts, NEW pos,
         Layout(nodes, spaced, parts, n, pos),
         NEW said, IsList(said, n), NEW element, element # "Space",
         Singletons(parts, said, n, element)
  PROVE  Table(nodes, element, nodes, [p \in DOMAIN nodes |-> p]) = said <=> spaced
<1> DEFINE next == [p \in DOMAIN nodes |-> p]
<1>1. Len(nodes) \in Nat /\ DOMAIN nodes = 1..Len(nodes)
  OBVIOUS
<1>2. \A p \in 1..Len(nodes) : next[p] = p /\ next[p] \in p..Len(nodes) + 1
  BY <1>1
<1> HIDE DEF next
<1>3. ASSUME NEW k \in 1..n
       PROVE  1 \in 1..Len(parts[k]) /\ Len(parts[k]) = 1 /\ parts[k][1] = said[k]
              /\ said[k].element = element /\ said[k].provider = k
  BY OneElement DEF Singletons
<1>4. ProviderParts(parts, n, element)
  BY <1>3 DEF ProviderParts
<1>5. ASSUME NEW k \in 1..n
       PROVE  /\ pos[k] \in 1..Len(nodes) /\ nodes[pos[k]] = said[k]
              /\ k < n => next[pos[k]] = pos[k + 1] - 1
              /\ k = n => pos[k] = Len(nodes)
  <2>1. /\ pos[k] \in Nat /\ pos[k + 1] = pos[k] + Len(parts[k])
        /\ k = n => pos[k + 1] = Len(nodes) + 1
    <3> HIDE DEF Singletons
    <3>1. pos[k] \in Nat
      BY DEF Layout
    <3>2. pos[k + 1] = pos[k] + Len(parts[k])
      BY DEF Layout
    <3>3. k = n => pos[k + 1] = Len(nodes) + 1
      BY DEF Layout
    <3>4. QED
      BY <3>1, <3>2, <3>3
  <2>2. 1 \in 1..Len(parts[k]) /\ Len(parts[k]) = 1 /\ parts[k][1] = said[k]
    BY <1>3
  <2>3. pos[k] + 1 - 1 \in 1..Len(nodes) /\ nodes[pos[k] + 1 - 1] = parts[k][1]
    BY <2>2 DEF Layout
  <2>4. pos[k] + 1 - 1 = pos[k] /\ pos[k + 1] - 1 = pos[k]
    BY <2>1, <2>2
  <2>5. next[pos[k]] = pos[k]
    BY <1>2, <2>3, <2>4
  <2>6. QED
    BY <1>1, <2>1, <2>2, <2>3, <2>4, <2>5
<1>6. WellOrBadly(nodes, element, nodes, next, n, pos, said, 1..n)
  <2> SUFFICES ASSUME NEW k \in 1..n
               PROVE  ReadWell(nodes, element, nodes, next, n, pos, said, k)
    BY DEF WellOrBadly
  <2>1. ASSUME k = n PROVE ReadToFollowing(nodes, next[pos[k]], element) > Len(nodes)
    <3>1. pos[k] \in Nat /\ pos[k] >= Len(nodes) /\ next[pos[k]] = pos[k]
      BY <1>1, <1>2, <1>5, <2>1
    <3>2. QED
      BY <3>1, NothingBehind
  <2>2. QED
    BY <1>5, <2>1 DEF ReadWell
<1>7. \A p \in 1..Len(nodes) : nodes[p].provider # 1 => nodes[p] # said[1]
  <2>1. said[1].provider = 1
    BY <1>3
  <2>2. QED
    BY <2>1
<1>8. Table(nodes, element, nodes, next) = said
       <=> spaced /\ \A k \in 1..n : k \in 1..n
  BY <1>2, <1>4, <1>6, <1>7, TableAsSaid
<1>9. QED
  BY <1>8 DEF next

(* What is said are nodes in X.                                            *)
AreNodes(said, n, X) == \A k \in 1..n : said[k] \in X

(* A document of such providers is laid out as DocumentLayout says.        *)
LEMMA SingletonsLayout ==
  ASSUME NEW n \in Nat, n # 0, NEW X, HasSpace(X), NEW spaced \in BOOLEAN,
         NEW element, NEW said, AreNodes(said, n, X),
         NEW parts, IsList(parts, n), Singletons(parts, said, n, element),
         NEW nodes, nodes = Document(spaced, parts)
  PROVE  /\ nodes \in Seq(X)
         /\ \E pos : Layout(nodes, spaced, parts, n, pos)
<1>1. \A i \in 1..n : parts[i] \in Seq(X)
  BY OneInSeq DEF Singletons, AreNodes
<1>2. parts \in [1..n -> Seq(X)]
  BY <1>1 DEF IsList
<1>3. Space(spaced) \in Seq(X)
  BY SpaceIsNode
<1>4. QED
  BY <1>2, <1>3, DocumentLayout

(* The providers of queues that a document names.                          *)
QueueSaid(d) ==
  [i \in 1..Len(d.providers) |-> Node("queueProvider", i, d.providers[i])]

(* The table of queue providers holds the providers of the document, in the *)
(* document's order, exactly if white space precedes the first.            *)
LEMMA QueueTableRead ==
  ASSUME NEW d, DocumentOf(d, QueueProviders)
  PROVE  QueueTable(d) = QueueSaid(d) <=> d.spaced
<1> DEFINE n == Len(d.providers)
           e == "queueProvider"
           said == QueueSaid(d)
           X == {Node("Space", 0, "")} \cup {said[i] : i \in 1..n}
           parts == [i \in 1..n |-> <<Node("queueProvider", i, d.providers[i])>>]
           nodes == QueueNodes(d)
           spaced == d.spaced
<1>1. n \in Nat /\ n # 0 /\ DOMAIN d.providers = 1..n
  BY DEF DocumentOf
<1>2. IsList(said, n) /\ IsList(parts, n)
  BY DEF QueueSaid, IsList
<1>3. AreNodes(said, n, X) /\ HasSpace(X)
  BY DEF AreNodes, HasSpace
<1>4. Singletons(parts, said, n, e)
  BY DEF Singletons, QueueSaid, Node
<1>5. nodes = Document(spaced, parts)
  BY <1>1 DEF QueueNodes
<1>6. spaced \in BOOLEAN
  BY DEF DocumentOf
<1>7. e # "Space"
  OBVIOUS
<1>8. QueueTable(d) = Table(nodes, e, nodes, [p \in DOMAIN nodes |-> p])
  BY DEF QueueTable
<1> HIDE DEF n, X, e, parts, said, nodes, spaced
<1>9. nodes \in Seq(X) /\ \E pos : Layout(nodes, spaced, parts, n, pos)
  BY <1>1, <1>2, <1>3, <1>4, <1>5, <1>6, SingletonsLayout
<1>10. QueueTable(d) = said <=> spaced
  BY <1>1, <1>2, <1>4, <1>6, <1>7, <1>8, <1>9, SingletonsRead
<1>11. QED
  BY <1>10 DEF said, spaced

(* Smsc accepts the queue providers of every document that QueueReadAsSaid  *)
(* names, of any length, exactly if they are unambiguous.                  *)
THEOREM QueueReaderReadsAsSaid ==
  ASSUME NEW d, DocumentOf(d, QueueProviders)
  PROVE  QueueReadAsSaid(d)
<1> DEFINE p == d.providers
           n == Len(d.providers)
           table == QueueTable(d)
           name == [i \in DOMAIN table |-> table[i].value.name]
           default(i) == table[i].value.default
           defaults == {i \in DOMAIN table : IsFeatureEnabled(default(i))}
           Unambiguous ==
             /\ \A i, j \in DOMAIN p : p[i].name = p[j].name => i = j
             /\ \E i \in DOMAIN p :
                  \A j \in DOMAIN p : p[j].default = "true" <=> j = i
<1> SUFFICES ASSUME d.spaced, \A i \in DOMAIN p : p[i].default # "1"
             PROVE  QueueAccepted(d) <=> Unambiguous
  BY DEF QueueReadAsSaid
<1>1. /\ DOMAIN p = 1..n
      /\ \A i \in 1..n : p[i] \in QueueProviders
  BY DEF DocumentOf
<1>2. table = QueueSaid(d)
  BY QueueTableRead
<1>3. DOMAIN table = 1..n /\ \A i \in 1..n : table[i].value = p[i]
  BY <1>2 DEF QueueSaid, Node
<1>4. \A i \in 1..n : p[i].default = "true" \/ p[i].default = "false"
  BY <1>1 DEF QueueProviders
<1>5. \A i \in 1..n : IsFeatureEnabled(p[i].default) <=> p[i].default = "true"
  BY <1>4 DEF IsFeatureEnabled
<1>6. QueueAccepted(d) <=>
        IsInjective(name) /\ \E i \in defaults : defaults = {i}
  BY DEF QueueAccepted
<1>7. IsInjective(name) <=> \A i, j \in DOMAIN p : p[i].name = p[j].name => i = j
  <2>1. DOMAIN name = 1..n /\ \A i \in 1..n : name[i] = p[i].name
    BY <1>3
  <2> HIDE DEF name, n, p
  <2>2. QED
    BY <1>1, <2>1 DEF IsInjective
<1>8. defaults = {i \in DOMAIN p : p[i].default = "true"}
  BY <1>1, <1>3, <1>5
<1>9. (\E i \in defaults : defaults = {i})
      <=> \E i \in DOMAIN p : \A j \in DOMAIN p : p[j].default = "true" <=> j = i
  <2> HIDE DEF p, defaults
  <2> QED
    BY <1>8
<1>10. QED
  BY <1>6, <1>7, <1>9

-----------------------------------------------------------------------------
(* Log providers.                                                          *)

(* Behind the end there is no sibling, and elsewhere the first one is the  *)
(* node that the reader stands on.                                         *)
LEMMA SiblingsFrom ==
  ASSUME NEW X, NEW nodes \in Seq(X), NEW s \in 1..Len(nodes),
         NEW l, l = LastSibling(nodes, s), NEW f, f = Siblings(nodes, s)
  PROVE  /\ l \in s..Len(nodes) /\ DOMAIN f = 1..l - s + 1
         /\ 1 \in DOMAIN f /\ f[1] = nodes[s]
         /\ \A j \in 1..l - s + 1 : f[j] = nodes[s + j - 1]
<1>1. Len(nodes) \in Nat /\ ~(s > Len(nodes))
  OBVIOUS
<1>2. l \in s..Len(nodes)
  BY LastSiblingStops
<1>3. f = SubSeq(nodes, s, l)
  BY <1>1 DEF Siblings
<1>4. f = [j \in 1..l - s + 1 |-> nodes[s + j - 1]]
  <2>1. SubSeq(nodes, s, l) = [j \in 1..l - s + 1 |-> nodes[s + j - 1]]
    BY <1>1, <1>2
  <2>2. QED
    BY <1>3, <2>1
<1>5. 1 \in 1..l - s + 1 /\ s + 1 - 1 = s
  BY <1>2
<1>6. QED
  BY <1>2, <1>4, <1>5

(* At the end there are no siblings, and the reader stays there.           *)
LEMMA NoSiblings ==
  ASSUME NEW X, NEW nodes \in Seq(X), NEW s, s = Len(nodes) + 1
  PROVE  Siblings(nodes, s) = <<>> /\ LastSibling(nodes, s) = s
<1>1. Len(nodes) \in Nat /\ s > Len(nodes)
  OBVIOUS
<1>2. QED
  BY <1>1 DEF Siblings, LastSibling

(* A sibling with another element behind it is the only one.               *)
LEMMA LastSiblingIsFirst ==
  ASSUME NEW X, NEW nodes \in Seq(X), NEW s \in 1..Len(nodes),
         s < Len(nodes) => nodes[s + 1].element # nodes[s].element
  PROVE  LastSibling(nodes, s) = s
<1>1. s \in s..Len(nodes) /\ \A j \in s..s : j = s
  OBVIOUS
<1>2. \A j \in s..s : nodes[j].element = nodes[s].element
  BY <1>1
<1>3. QED
  BY <1>1, <1>2, LastSiblingStops

(* The settings that the loop of BaseSmsc notes.                           *)
SettingsOf(sets) == [k \in DOMAIN sets |-> sets[k].provider]

(* A loop over the settings from s: nothing at the end; one if no sibling  *)
(* follows; and the first one it reads is the one at s.                    *)
LEMMA Settings ==
  ASSUME NEW X, NEW nodes \in Seq(X), NEW s \in 1..Len(nodes) + 1,
         NEW settings, settings = SettingsOf(Siblings(nodes, s))
  PROVE  /\ s = Len(nodes) + 1 => settings = <<>>
         /\ s <= Len(nodes) => settings # <<>> /\ settings[1] = nodes[s].provider
         /\ s <= Len(nodes) /\ LastSibling(nodes, s) = s
              => settings = <<nodes[s].provider>>
<1>1. CASE s = Len(nodes) + 1
  <2>1. Siblings(nodes, s) = <<>>
    BY <1>1, NoSiblings
  <2>2. DOMAIN <<>> = {}
    OBVIOUS
  <2>3. settings = <<>>
    BY <2>1, <2>2 DEF SettingsOf
  <2>4. QED
    BY <1>1, <2>3
<1>2. CASE s \in 1..Len(nodes)
  <2> DEFINE f == Siblings(nodes, s)
             l == LastSibling(nodes, s)
  <2>1. /\ l \in s..Len(nodes) /\ DOMAIN f = 1..l - s + 1
        /\ 1 \in DOMAIN f /\ f[1] = nodes[s]
        /\ \A j \in 1..l - s + 1 : f[j] = nodes[s + j - 1]
    BY <1>2, SiblingsFrom
  <2> HIDE DEF f, l
  <2>2. settings = [k \in DOMAIN f |-> f[k].provider]
    BY DEF SettingsOf, f
  <2>3. settings[1] = nodes[s].provider /\ 1 \in DOMAIN settings
    BY <2>1, <2>2
  <2>4. settings # <<>>
    BY <2>3
  <2>5. ASSUME l = s PROVE settings = <<nodes[s].provider>>
    <3>1. l - s + 1 = 1
      BY <1>2, <2>5
    <3>2. DOMAIN f = 1..1 /\ \A j \in 1..1 : j = 1
      BY <2>1, <3>1
    <3>3. settings = [j \in 1..1 |-> nodes[s].provider]
      BY <2>1, <2>2, <3>2
    <3>4. QED
      BY <3>3
  <2>6. s # Len(nodes) + 1
    BY <1>2
  <2>7. QED
    BY <2>3, <2>4, <2>5, <2>6 DEF l
<1>3. QED
  BY <1>1, <1>2

-----------------------------------------------------------------------------

(* Provider p of place k is at a, and what follows it at b.                *)
LogAt(nodes, a, b, p, k) ==
  /\ a \in 1..Len(nodes) /\ b \in 1..Len(nodes) + 1
  /\ nodes[a].provider = k /\ nodes[a].value = p.name
  /\ p.spaced => nodes[a + 2].element = "configuration"
  /\ b = (a + 2) + (IF p.spaced THEN 1 ELSE 0) + (IF p.hasSet THEN 1 ELSE 0)
  /\ p.hasSet => nodes[b - 1].element = "set"
  /\ b - 1 \in 1..Len(nodes) /\ nodes[b - 1].provider = k
  /\ \A j \in 1..Len(nodes) : nodes[j].element = "set" /\ nodes[j].provider = k
                              => p.hasSet /\ j = b - 1
  /\ b = Len(nodes) + 1 =>
       \A j \in a..Len(nodes) : nodes[j].element = "set" => p.hasSet
  /\ b <= Len(nodes) => nodes[b].element = "logProvider"
  /\ ~p.spaced => nodes[a + 1].element = "configuration"

(* What a document says of its log provider k.                             *)
LogProviderSaid(p, k) ==
  [provider |-> k, name |-> p.name,
   settings |-> IF p.hasSet THEN <<k>> ELSE <<>>]

(* What is read of provider p at a, and where the reader is then.          *)
LogRead(N, a, b, p, entry, said, next) ==
  /\ p.hasSet /\ p.spaced => entry = said /\ next = b - 1
  /\ p.hasSet /\ ~p.spaced => entry # said
  /\ ~p.hasSet /\ b = N + 1 => entry = said /\ next >= N
  /\ ~p.hasSet /\ b <= N => entry # said \/ next >= N
  /\ next \in a..N + 1

(* BaseSmsc reads a provider whose elements are where LogAt has them as    *)
(* LogRead says.                                                           *)
LEMMA LogProviderRead ==
  ASSUME NEW X, NEW nodes \in Seq(X), NEW a, NEW b, NEW p, NEW k,
         LogAt(nodes, a, b, p, k),
         p.hasSet \in BOOLEAN, p.spaced \in BOOLEAN
  PROVE  LogRead(Len(nodes), a, b, p, LogEntry(nodes, a), LogProviderSaid(p, k),
                 LastSibling(nodes, LogSet(nodes, a)))
<1> DEFINE entry == LogEntry(nodes, a)
           said == LogProviderSaid(p, k)
           next == LastSibling(nodes, LogSet(nodes, a))
<1> DEFINE N == Len(nodes)
           c == ReadToFollowing(nodes, a + 1, "configuration")
           s == LogSet(nodes, a)
           settings == SettingsOf(Siblings(nodes, s))
<1>1. N \in Nat /\ a \in 1..N /\ b \in 1..N + 1
  BY DEF LogAt
<1>2. p.hasSet \in BOOLEAN /\ p.spaced \in BOOLEAN
  OBVIOUS
<1>3. s = ReadToFollowing(nodes, c, "set")
  BY DEF LogSet
<1>4. c \in a + 2..N + 1
  <2>1. a + 1 \in Nat
    BY <1>1
  <2>2. c \in (a + 1) + 1..N \/ c = N + 1
    BY <2>1, ReadToFollowingStops
  <2> HIDE DEF c
  <2>3. b >= a + 2
    BY <1>1, <1>2 DEF LogAt
  <2>4. QED
    BY <1>1, <2>2, <2>3
<1>5. /\ \/ s \in c + 1..N /\ nodes[s].element = "set"
         \/ s = N + 1
      /\ \A j \in c + 1..N : nodes[j].element = "set" => s <= j
  <2>1. c \in Nat
    <3> HIDE DEF c
    <3>1. QED
      BY <1>1, <1>4
  <2>2. QED
    BY <1>3, <2>1, ReadToFollowingStops
<1>6. s \in a + 3..N + 1 \/ s = N + 1
  <2> HIDE DEF c, s
  <2> QED
    BY <1>1, <1>4, <1>5
<1>7. s \in 1..N + 1 /\ (s <= N => nodes[s].element = "set" /\ s >= a + 3)
  <2> HIDE DEF c, s
  <2> QED
    BY <1>1, <1>4, <1>5, <1>6
<1>8. /\ s = N + 1 => settings = <<>> /\ next = s
      /\ s <= N => settings # <<>> /\ settings[1] = nodes[s].provider
      /\ s <= N /\ next = s => settings = <<nodes[s].provider>>
  <2>1. next = LastSibling(nodes, s)
    OBVIOUS
  <2> HIDE DEF s, c
  <2>2. QED
    BY <1>7, <2>1, NoSiblings, Settings
<1>9. next \in s..N + 1
  <2>1. next = LastSibling(nodes, s)
    OBVIOUS
  <2> HIDE DEF s, c
  <2>2. CASE s = N + 1
    BY <1>1, <1>8, <2>2
  <2>3. CASE s \in 1..N
    <3>1. next \in s..N
      BY <2>1, <2>3, LastSiblingStops
    <3>2. QED
      BY <1>1, <2>3, <3>1
  <2>4. QED
    BY <1>1, <1>7, <2>2, <2>3
<1>10. entry = [provider |-> k, name |-> p.name, settings |-> settings]
  BY DEF LogEntry, LogAt, SettingsOf
<1> HIDE DEF settings
<1>11. /\ entry = said <=> settings = (IF p.hasSet THEN <<k>> ELSE <<>>)
  <2>1. said = [provider |-> k, name |-> p.name,
                settings |-> IF p.hasSet THEN <<k>> ELSE <<>>]
    BY DEF LogProviderSaid
  <2>2. QED
    BY <1>10, <2>1
<1> HIDE DEF s
<1>12. ASSUME p.hasSet, p.spaced
       PROVE  settings = <<k>> /\ next = b - 1
  <2>1. b = a + 4 /\ b - 1 \in 1..N
    BY <1>1, <1>12 DEF LogAt
  <2>2. nodes[b - 1].element = "set" /\ nodes[b - 1].provider = k
    BY <1>12 DEF LogAt
  <2>3. b <= N => nodes[b].element # "set"
    <3>1. "logProvider" # "set"
      OBVIOUS
    <3>2. QED
      BY <3>1 DEF LogAt
  <2>4. a + 1 \in Nat /\ a + 2 = (a + 1) + 1 /\ a + 2 <= N
    BY <1>1, <2>1
  <2>5. nodes[a + 2].element = "configuration"
    BY <1>12 DEF LogAt
  <2>6. c = a + 2
    BY <2>4, <2>5, ReadToNext
  <2> HIDE DEF c
  <2>7. c \in Nat /\ b - 1 = c + 1 /\ b - 1 <= N
    BY <1>1, <2>1, <2>4, <2>6
  <2>8. s = b - 1
    BY <1>3, <2>2, <2>7, ReadToNext
  <2>9. s + 1 = b /\ (s < N => b <= N)
    BY <1>1, <2>8
  <2>10. nodes[s].element = "set" /\ (s < N => nodes[s + 1].element # "set")
    BY <2>2, <2>3, <2>8, <2>9
  <2>11. s \in 1..N
    BY <2>1, <2>8
  <2>12. LastSibling(nodes, s) = s
    BY <2>10, <2>11, LastSiblingIsFirst
  <2>13. next = s
    BY <2>12 DEF s
  <2>14. s <= N
    BY <1>1, <2>11
  <2>15. settings = <<k>>
    BY <1>8, <2>2, <2>8, <2>13, <2>14
  <2>16. QED
    BY <2>8, <2>13, <2>15
<1>13. ASSUME p.hasSet, ~p.spaced
       PROVE  settings # <<k>>
  <2>1. b = a + 3
    BY <1>1, <1>13 DEF LogAt
  <2>2. CASE s = N + 1
    BY <1>8, <2>2
  <2>3. CASE s \in 1..N /\ s >= a + 3
    <3>1. s # b - 1 /\ nodes[s].element = "set" /\ s <= N
      BY <1>1, <1>7, <2>1, <2>3
    <3>2. nodes[s].provider # k
      BY <2>3, <3>1 DEF LogAt
    <3>3. settings[1] = nodes[s].provider
      BY <1>8, <3>1
    <3>4. QED
      BY <3>2, <3>3
  <2>4. QED
    BY <1>1, <1>7, <2>2, <2>3
<1>14. ASSUME ~p.hasSet, b = N + 1
       PROVE  settings = <<>> /\ next >= N
  <2>1. s = N + 1
    <3>1. CASE s \in a..N
      <4>1. nodes[s].element = "set"
        BY <1>1, <1>7, <3>1
      <4>2. QED
        BY <1>14, <3>1, <4>1 DEF LogAt
    <3>2. QED
      BY <1>1, <1>7, <3>1
  <2>2. QED
    BY <1>1, <1>8, <2>1
<1>15. ASSUME ~p.hasSet
       PROVE  settings # <<>> \/ next >= N
  BY <1>1, <1>7, <1>8
<1>16. next \in a..N + 1
  BY <1>1, <1>6, <1>9
<1>17. QED
  BY <1>2, <1>11, <1>12, <1>13, <1>14, <1>15, <1>16 DEF LogRead

(* The tuples that a part is put together from.                            *)
LEMMA OneMore ==
  ASSUME NEW X, NEW s \in Seq(X), NEW x \in X, NEW t, t = s \o <<x>>
  PROVE  /\ t \in Seq(X) /\ Len(s) \in Nat /\ Len(t) = Len(s) + 1
         /\ t[Len(s) + 1] = x /\ \A m \in 1..Len(s) : t[m] = s[m]
<1>1. <<x>> \in Seq(X) /\ Len(<<x>>) = 1 /\ 1 \in 1..1 /\ <<x>>[1] = x
  OBVIOUS
<1>2. /\ t \in Seq(X) /\ Len(s) \in Nat
  BY <1>1
<1>3. QED
  BY <1>1, <1>2, ConcatParts

(* The first elements of a part, put together one by one.                  *)
IsPair(t, a, b, X) ==
  /\ t \in Seq(X) /\ Len(t) = 2 /\ t[1] = a /\ t[2] = b
  /\ \A m \in 1..2 : m = 1 \/ m = 2

IsTriple(t, a, b, c, X) ==
  /\ t \in Seq(X) /\ Len(t) = 3 /\ t[1] = a /\ t[2] = b /\ t[3] = c
  /\ \A m \in 1..3 : m = 1 \/ m = 2 \/ m = 3

IsQuadruple(t, a, b, c, d, X) ==
  /\ t \in Seq(X) /\ Len(t) = 4
  /\ t[1] = a /\ t[2] = b /\ t[3] = c /\ t[4] = d
  /\ \A m \in 1..4 : m = 1 \/ m = 2 \/ m = 3 \/ m = 4

(* Two elements.                                                           *)
LEMMA Pair ==
  ASSUME NEW X, NEW a \in X, NEW b \in X
  PROVE  IsPair(<<a>> \o <<b>>, a, b, X)
<1>1. <<a>> \in Seq(X) /\ Len(<<a>>) = 1 /\ <<a>>[1] = a
  OBVIOUS
<1> DEFINE t == <<a>> \o <<b>>
<1>2. t = <<a>> \o <<b>>
  OBVIOUS
<1> HIDE DEF t
<1>3. t \in Seq(X) /\ Len(t) = 2 /\ t[1] = a /\ t[2] = b
  BY <1>1, <1>2, OneMore
<1>4. IsPair(t, a, b, X)
  BY <1>3 DEF IsPair
<1>5. QED
  BY <1>2, <1>4

(* A third element.                                                        *)
LEMMA Triple ==
  ASSUME NEW X, NEW a, NEW b, NEW s, IsPair(s, a, b, X), NEW c \in X
  PROVE  IsTriple(s \o <<c>>, a, b, c, X)
<1>1. s \in Seq(X) /\ Len(s) = 2 /\ s[1] = a /\ s[2] = b
  BY DEF IsPair
<1> DEFINE t == s \o <<c>>
<1>2. t = s \o <<c>>
  OBVIOUS
<1> HIDE DEF t
<1>3. /\ t \in Seq(X) /\ Len(t) = 2 + 1 /\ t[2 + 1] = c
      /\ \A m \in 1..2 : t[m] = s[m]
  BY <1>1, <1>2, OneMore
<1>4. IsTriple(t, a, b, c, X)
  BY <1>1, <1>3 DEF IsTriple
<1>5. QED
  BY <1>2, <1>4

(* A fourth one.                                                           *)
LEMMA Quadruple ==
  ASSUME NEW X, NEW a, NEW b, NEW c, NEW s, IsTriple(s, a, b, c, X), NEW d \in X
  PROVE  IsQuadruple(s \o <<d>>, a, b, c, d, X)
<1>1. s \in Seq(X) /\ Len(s) = 3 /\ s[1] = a /\ s[2] = b /\ s[3] = c
  BY DEF IsTriple
<1> DEFINE t == s \o <<d>>
<1>2. t = s \o <<d>>
  OBVIOUS
<1> HIDE DEF t
<1>3. /\ t \in Seq(X) /\ Len(t) = 3 + 1 /\ t[3 + 1] = d
      /\ \A m \in 1..3 : t[m] = s[m]
  <2> DEFINE n == Len(s)
  <2>1. s \in Seq(X)
    BY <1>1
  <2>2. /\ t \in Seq(X) /\ Len(t) = n + 1 /\ t[n + 1] = d
        /\ \A m \in 1..n : t[m] = s[m]
    BY <1>2, <2>1, OneMore
  <2>3. n = 3
    BY <1>1
  <2> HIDE DEF n
  <2>4. QED
    BY <2>2, <2>3
<1>4. IsQuadruple(t, a, b, c, d, X)
  BY <1>1, <1>3 DEF IsQuadruple
<1>5. QED
  BY <1>2, <1>4

(* Nothing is appended.                                                    *)
LEMMA NoMore ==
  ASSUME NEW X, NEW s \in Seq(X)
  PROVE  s \o <<>> = s
OBVIOUS

(* What matters of a part: where its elements are.                         *)
LogShape(part, p, k) ==
  /\ Len(part) = 2 + (IF p.spaced THEN 1 ELSE 0) + (IF p.hasSet THEN 1 ELSE 0)
  /\ part[1].element = "logProvider" /\ part[1].provider = k
  /\ part[1].value = p.name
  /\ p.spaced => part[3].element = "configuration"
  /\ ~p.spaced => part[2].element = "configuration"
  /\ p.hasSet => part[Len(part)].element = "set"
  /\ part[Len(part)].provider = k
  /\ \A m \in 1..Len(part) : part[m].element = "logProvider" => m = 1
  /\ \A m \in 1..Len(part) : part[m].element = "set"
                             => p.hasSet /\ m = Len(part) /\ part[m].provider = k

(* The nodes that the parts are made of.                                   *)
LogNodeSet(n, name) ==
  {Node("Space", 0, "")} \cup {Node("logProvider", k, name[k]) : k \in 1..n}
    \cup {Node("configuration", k, "") : k \in 1..n}
    \cup {Node("set", k, "fileName") : k \in 1..n}

(* The nodes of a log provider have that shape, whatever its name.         *)
LEMMA LogPartShape ==
  ASSUME NEW n, NEW name, NEW k \in 1..n, NEW p \in LogProviders, p.name = name[k],
         NEW part, part = LogPart(p, k), NEW X, X = LogNodeSet(n, name)
  PROVE  part \in Seq(X) /\ LogShape(part, p, k)
<1> DEFINE a == Node("logProvider", k, p.name)
           b == Node("Space", 0, "")
           c == Node("configuration", k, "")
           d == Node("set", k, "fileName")
<1>1. p.hasSet \in BOOLEAN /\ p.spaced \in BOOLEAN
  BY DEF LogProviders
<1>2. /\ a.element = "logProvider" /\ a.provider = k /\ a.value = p.name
      /\ b.element = "Space"
      /\ c.element = "configuration" /\ c.provider = k
      /\ d.element = "set" /\ d.provider = k
  BY DEF Node
<1>3. a \in X /\ b \in X /\ c \in X /\ d \in X
  BY DEF LogNodeSet
<1>4. part = <<a>> \o (IF p.spaced THEN <<b>> ELSE <<>>) \o <<c>>
               \o (IF p.hasSet THEN <<d>> ELSE <<>>)
  BY DEF LogPart, Space
<1> HIDE DEF a, b, c, d
<1>5. IsPair(<<a>> \o <<b>>, a, b, X) /\ IsPair(<<a>> \o <<c>>, a, c, X)
  BY <1>3, Pair
<1>6. /\ IsTriple(<<a>> \o <<b>> \o <<c>>, a, b, c, X)
      /\ IsTriple(<<a>> \o <<c>> \o <<d>>, a, c, d, X)
  BY <1>3, <1>5, Triple
<1>7. IsQuadruple(<<a>> \o <<b>> \o <<c>> \o <<d>>, a, b, c, d, X)
  BY <1>3, <1>6, Quadruple
<1>8. /\ <<a>> \o <<>> = <<a>>
      /\ <<a>> \o <<b>> \o <<c>> \o <<>> = <<a>> \o <<b>> \o <<c>>
      /\ <<a>> \o <<c>> \o <<>> = <<a>> \o <<c>>
  <2>1. <<a>> \in Seq(X)
    BY <1>3, OneInSeq
  <2>2. <<a>> \o <<c>> \in Seq(X) /\ <<a>> \o <<b>> \o <<c>> \in Seq(X)
    BY <1>5, <1>6 DEF IsPair, IsTriple
  <2>3. QED
    BY <2>1, <2>2, NoMore
<1>9. CASE p.spaced /\ p.hasSet
  <2>1. IsQuadruple(part, a, b, c, d, X)
    BY <1>4, <1>7, <1>9
  <2>2. Len(part) = 2 + (IF p.spaced THEN 1 ELSE 0) + (IF p.hasSet THEN 1 ELSE 0)
    BY <1>9, <2>1 DEF IsQuadruple
  <2>3. QED
    BY <1>2, <1>9, <2>1, <2>2 DEF LogShape, IsQuadruple
<1>10. CASE p.spaced /\ ~p.hasSet
  <2>1. IsTriple(part, a, b, c, X)
    BY <1>4, <1>6, <1>8, <1>10
  <2>2. Len(part) = 2 + (IF p.spaced THEN 1 ELSE 0) + (IF p.hasSet THEN 1 ELSE 0)
    BY <1>10, <2>1 DEF IsTriple
  <2>3. QED
    BY <1>2, <1>10, <2>1, <2>2 DEF LogShape, IsTriple
<1>11. CASE ~p.spaced /\ p.hasSet
  <2>1. IsTriple(part, a, c, d, X)
    BY <1>4, <1>6, <1>8, <1>11
  <2>2. Len(part) = 2 + (IF p.spaced THEN 1 ELSE 0) + (IF p.hasSet THEN 1 ELSE 0)
    BY <1>11, <2>1 DEF IsTriple
  <2>3. QED
    BY <1>2, <1>11, <2>1, <2>2 DEF LogShape, IsTriple
<1>12. CASE ~p.spaced /\ ~p.hasSet
  <2>1. IsPair(part, a, c, X)
    BY <1>4, <1>5, <1>8, <1>12
  <2>2. Len(part) = 2 + (IF p.spaced THEN 1 ELSE 0) + (IF p.hasSet THEN 1 ELSE 0)
    BY <1>12, <2>1 DEF IsPair
  <2>3. QED
    BY <1>2, <1>12, <2>1, <2>2 DEF LogShape, IsPair
<1>13. QED
  BY <1>1, <1>9, <1>10, <1>11, <1>12

(* All parts have that shape.                                              *)
LogShapes(parts, providers, n) ==
  \A k \in 1..n : providers[k] \in LogProviders
                  /\ LogShape(parts[k], providers[k], k)

(* In a document the elements of each provider are where LogAt has them.   *)
LEMMA LogPlaces ==
  ASSUME NEW X, NEW nodes \in Seq(X), NEW n \in Nat, n # 0,
         NEW spaced \in BOOLEAN, NEW parts, NEW pos,
         Layout(nodes, spaced, parts, n, pos),
         NEW providers, LogShapes(parts, providers, n), NEW k \in 1..n
  PROVE  LogAt(nodes, pos[k], pos[k + 1], providers[k], k)
<1> DEFINE N == Len(nodes)
           L == Len(parts[k])
           a == pos[k]
           b == pos[k + 1]
           p == providers[k]
<1>1. LogShape(parts[k], p, k) /\ p.spaced \in BOOLEAN /\ p.hasSet \in BOOLEAN
  BY DEF LogShapes, LogProviders
<1>2. L = 2 + (IF p.spaced THEN 1 ELSE 0) + (IF p.hasSet THEN 1 ELSE 0)
  BY <1>1 DEF LogShape
<1>3. L \in Nat /\ L >= 2 /\ (p.spaced => L >= 3) /\ 1 \in 1..L /\ L \in 1..L /\ 2 \in 1..L
      /\ (p.spaced => 3 \in 1..L)
  BY <1>1, <1>2
<1>4. N \in Nat
  OBVIOUS
<1>5. a \in Nat
  BY DEF Layout
<1>6. b = a + L
  BY DEF Layout
<1>7. ASSUME NEW m \in 1..L PROVE a + m - 1 \in 1..N /\ nodes[a + m - 1] = parts[k][m]
  BY DEF Layout
<1> HIDE DEF a, b, L
<1>8. /\ a + 1 - 1 = a /\ a + 2 - 1 = a + 1 /\ a + 3 - 1 = a + 2 /\ a + L - 1 = b - 1
  BY <1>3, <1>5, <1>6
<1>9. a \in 1..N /\ b - 1 \in 1..N
  BY <1>3, <1>7, <1>8
<1>10. b \in 1..N + 1 /\ b \in Nat
  BY <1>3, <1>4, <1>5, <1>6, <1>9
<1>11. nodes[a] = parts[k][1] /\ nodes[b - 1] = parts[k][L] /\ nodes[a + 1] = parts[k][2]
  BY <1>3, <1>7, <1>8
<1>12. p.spaced => nodes[a + 2] = parts[k][3]
  BY <1>3, <1>7, <1>8
<1>13. b = (a + 2) + (IF p.spaced THEN 1 ELSE 0) + (IF p.hasSet THEN 1 ELSE 0)
  BY <1>1, <1>2, <1>5, <1>6
<1>14. /\ nodes[a].provider = k /\ nodes[a].value = p.name
       /\ p.spaced => nodes[a + 2].element = "configuration"
       /\ p.hasSet => nodes[b - 1].element = "set"
       /\ nodes[b - 1].provider = k
       /\ ~p.spaced => nodes[a + 1].element = "configuration"
  BY <1>1, <1>11, <1>12 DEF LogShape, L
<1>15. ASSUME NEW j \in 1..N, nodes[j].element = "set", nodes[j].provider = k
       PROVE  p.hasSet /\ j = b - 1
  <2>1. ~(spaced /\ j = 1)
    <3>1. spaced => nodes[1].element = "Space"
      BY DEF Layout
    <3>2. "Space" # "set"
      OBVIOUS
    <3>3. QED
      BY <1>15, <3>1, <3>2
  <2>2. PICK l \in 1..n : \E m \in 1..Len(parts[l]) : j = pos[l] + m - 1
    BY <2>1 DEF Layout
  <2>3. PICK m \in 1..Len(parts[l]) : j = pos[l] + m - 1
    BY <2>2
  <2>4. nodes[j] = parts[l][m]
    BY <2>3 DEF Layout
  <2>5. LogShape(parts[l], providers[l], l)
    BY DEF LogShapes
  <2>6. providers[l].hasSet /\ m = Len(parts[l]) /\ parts[l][m].provider = l
    BY <1>15, <2>4, <2>5 DEF LogShape
  <2>7. l = k
    BY <1>15, <2>4, <2>6
  <2>8. p.hasSet /\ m = L
    BY <2>6, <2>7 DEF L
  <2>9. j = a + L - 1
    BY <2>3, <2>7, <2>8 DEF a
  <2>10. QED
    BY <1>8, <2>8, <2>9
<1>16. ASSUME b = N + 1, NEW j \in a..N, nodes[j].element = "set"
       PROVE  p.hasSet
  <2> DEFINE m == j - a + 1
  <2>1. m \in 1..L /\ j = a + m - 1
    BY <1>3, <1>4, <1>5, <1>6, <1>16
  <2> HIDE DEF m
  <2>2. nodes[j] = parts[k][m]
    BY <1>7, <2>1
  <2>3. m \in 1..Len(parts[k])
    BY <2>1 DEF L
  <2>4. QED
    BY <1>1, <1>16, <2>2, <2>3 DEF LogShape
<1>17. ASSUME b <= N PROVE nodes[b].element = "logProvider"
  <2>1. k # n
    <3>1. pos[n + 1] = N + 1
      BY DEF Layout
    <3>2. N + 1 > N
      BY <1>4
    <3>3. ASSUME k = n PROVE b = N + 1
      BY <3>1, <3>3 DEF b
    <3>4. QED
      BY <1>4, <1>17, <3>3
  <2>2. k + 1 \in 1..n
    BY <2>1
  <2>3. LogShape(parts[k + 1], providers[k + 1], k + 1)
           /\ providers[k + 1].spaced \in BOOLEAN /\ providers[k + 1].hasSet \in BOOLEAN
    BY <2>2 DEF LogShapes, LogProviders
  <2>4. Len(parts[k + 1]) = 2 + (IF providers[k + 1].spaced THEN 1 ELSE 0)
                               + (IF providers[k + 1].hasSet THEN 1 ELSE 0)
    BY <2>3 DEF LogShape
  <2>5. 1 \in 1..Len(parts[k + 1])
    BY <2>3, <2>4
  <2>6. nodes[pos[k + 1] + 1 - 1] = parts[k + 1][1]
    BY <2>2, <2>5 DEF Layout
  <2>7. b + 1 - 1 = b
    BY <1>10
  <2>8. nodes[b] = parts[k + 1][1]
    BY <2>6, <2>7 DEF b
  <2>9. QED
    BY <2>3, <2>8 DEF LogShape
<1>18. LogAt(nodes, a, b, p, k)
  BY <1>9, <1>10, <1>13, <1>14, <1>15, <1>16, <1>17 DEF LogAt
<1>19. QED
  BY <1>18 DEF a, b

(* The reader does not move back.                                          *)
LEMMA LastSiblingRange ==
  ASSUME NEW X, NEW nodes \in Seq(X), NEW s \in 1..Len(nodes) + 1
  PROVE  LastSibling(nodes, s) \in s..Len(nodes) + 1
<1>1. Len(nodes) \in Nat
  OBVIOUS
<1>2. CASE s = Len(nodes) + 1
  <2>1. LastSibling(nodes, s) = s
    BY <1>2, NoSiblings
  <2>2. QED
    BY <1>1, <1>2, <2>1
<1>3. CASE s \in 1..Len(nodes)
  <2>1. LastSibling(nodes, s) \in s..Len(nodes)
    BY <1>3, LastSiblingStops
  <2>2. QED
    BY <1>1, <1>3, <2>1
<1>4. QED
  BY <1>1, <1>2, <1>3

(* The reader only moves on, from wherever it looks for a setting.         *)
LEMMA LogNextRange ==
  ASSUME NEW X, NEW nodes \in Seq(X), NEW p \in 1..Len(nodes)
  PROVE  LastSibling(nodes, LogSet(nodes, p)) \in p..Len(nodes) + 1
<1> DEFINE N == Len(nodes)
           c == ReadToFollowing(nodes, p + 1, "configuration")
           s == LogSet(nodes, p)
<1>1. N \in Nat /\ p + 1 \in Nat
  OBVIOUS
<1>2. c \in (p + 1) + 1..N \/ c = N + 1
  BY <1>1, ReadToFollowingStops
<1>3. s = ReadToFollowing(nodes, c, "set")
  BY DEF LogSet
<1> HIDE DEF c, s
<1>4. c \in Nat /\ c > p
  BY <1>1, <1>2
<1>5. s \in c + 1..N \/ s = N + 1
  BY <1>3, <1>4, ReadToFollowingStops
<1>6. s \in 1..N \/ s = N + 1
  BY <1>1, <1>4, <1>5
<1>7. s > p
  BY <1>1, <1>4, <1>5
<1>8. s \in 1..N + 1
  BY <1>1, <1>6
<1> DEFINE l == LastSibling(nodes, s)
<1>9. l \in s..N + 1
  BY <1>8, LastSiblingRange
<1> HIDE DEF l
<1>10. l \in p..N + 1
  BY <1>1, <1>6, <1>7, <1>9
<1>11. QED
  BY <1>10 DEF l, s

(* What a document says of its log providers.                              *)
LogSaid(providers, n) == [k \in 1..n |-> LogProviderSaid(providers[k], k)]

(* The providers that the loop reads well.                                 *)
LogGood(providers, n) ==
  {k \in 1..n : /\ k < n => providers[k].hasSet /\ providers[k].spaced
                /\ k = n => (providers[k].hasSet => providers[k].spaced)}

(* What the loop takes from each node, and where it goes on.               *)
LogLoop(nodes, entry, next) ==
  \A p \in 1..Len(nodes) :
    entry[p] = LogEntry(nodes, p) /\ next[p] = LastSibling(nodes, LogSet(nodes, p))

(* The loop reads each provider well or badly, and well those of LogGood.  *)
LEMMA LogWellOrBadly ==
  ASSUME NEW X, NEW nodes \in Seq(X), NEW n \in Nat, n # 0,
         NEW spaced \in BOOLEAN, NEW parts, NEW pos,
         Layout(nodes, spaced, parts, n, pos),
         NEW providers, LogShapes(parts, providers, n),
         NEW entry, NEW next, LogLoop(nodes, entry, next),
         NEW said, said = LogSaid(providers, n),
         NEW good, good = LogGood(providers, n)
  PROVE  WellOrBadly(nodes, "logProvider", entry, next, n, pos, said, good)
<1> DEFINE N == Len(nodes)
<1>1. N \in Nat /\ DOMAIN nodes = 1..N
  OBVIOUS
<1> SUFFICES ASSUME NEW k \in 1..n
             PROVE  \/ k \in good /\ ReadWell(nodes, "logProvider", entry, next, n,
                                              pos, said, k)
                    \/ k \notin good /\ ReadBadly(nodes, "logProvider", entry, next, n,
                                                  pos, said, k)
  BY DEF WellOrBadly
<1> DEFINE a == pos[k]
           b == pos[k + 1]
           p == providers[k]
<1>2. LogAt(nodes, a, b, p, k)
  BY LogPlaces
<1>3. p \in LogProviders /\ p.hasSet \in BOOLEAN /\ p.spaced \in BOOLEAN
  BY DEF LogShapes, LogProviders
<1>4. a \in 1..N /\ b \in 1..N + 1
  BY <1>2 DEF LogAt
<1>5. k = n => b = N + 1
  BY DEF Layout
<1>6. k < n => b <= N
  <2>1. ASSUME k < n PROVE k + 1 \in 1..n
    BY <2>1
  <2>2. ASSUME k < n PROVE LogAt(nodes, pos[k + 1], pos[(k + 1) + 1], providers[k + 1], k + 1)
    BY <2>1, <2>2, LogPlaces
  <2>3. ASSUME k < n PROVE b \in 1..N
    BY <2>2, <2>3 DEF LogAt
  <2>4. QED
    BY <1>1, <2>3
<1>7. entry[a] = LogEntry(nodes, a) /\ next[a] = LastSibling(nodes, LogSet(nodes, a))
  BY <1>4 DEF LogLoop
<1>8. said[k] = LogProviderSaid(p, k)
  BY DEF LogSaid
<1>9. k \in good <=> /\ k < n => p.hasSet /\ p.spaced
                     /\ k = n => (p.hasSet => p.spaced)
  BY Zenon DEF LogGood
<1> HIDE DEF a, b, p
<1>10. LogRead(N, a, b, p, entry[a], said[k], next[a])
  BY <1>2, <1>3, <1>7, <1>8, LogProviderRead
<1>11. next[a] \in Nat
  BY <1>1, <1>4, <1>10 DEF LogRead
<1>12. next[a] >= N => ReadToFollowing(nodes, next[a], "logProvider") > N
  BY <1>11, NothingBehind
<1>13. CASE k < n
  <2>1. b <= N /\ k # n
    BY <1>6, <1>13
  <2>2. CASE p.hasSet /\ p.spaced
    BY <1>9, <1>10, <1>13, <2>1, <2>2 DEF ReadWell, LogRead, a, b
  <2>3. CASE ~(p.hasSet /\ p.spaced)
    <3>1. entry[a] # said[k] \/ next[a] >= N
      BY <1>3, <1>10, <2>1, <2>3 DEF LogRead
    <3>2. QED
      BY <1>9, <1>12, <1>13, <2>3, <3>1 DEF ReadBadly, a
  <2>4. QED
    BY <2>2, <2>3
<1>14. CASE k = n
  <2>1. b = N + 1 /\ ~(k < n)
    BY <1>5, <1>14
  <2>2. CASE p.hasSet /\ p.spaced
    <3>1. next[a] >= N
      BY <1>1, <1>10, <2>1, <2>2 DEF LogRead
    <3>2. QED
      BY <1>9, <1>10, <1>12, <1>14, <2>1, <2>2, <3>1 DEF ReadWell, LogRead, a
  <2>3. CASE ~p.hasSet
    <3>1. entry[a] = said[k] /\ next[a] >= N
      BY <1>10, <2>1, <2>3 DEF LogRead
    <3>2. QED
      BY <1>9, <1>12, <1>14, <2>1, <2>3, <3>1 DEF ReadWell, LogRead, a
  <2>4. CASE p.hasSet /\ ~p.spaced
    BY <1>9, <1>10, <2>1, <2>4 DEF ReadBadly, LogRead, a
  <2>5. QED
    BY <1>3, <2>2, <2>3, <2>4
<1>15. QED
  BY <1>13, <1>14

(* The table of log providers of a document that is laid out so.           *)
LEMMA LogProvidersRead ==
  ASSUME NEW X, NEW nodes \in Seq(X), NEW n \in Nat, n # 0,
         NEW spaced \in BOOLEAN, NEW parts, NEW pos,
         Layout(nodes, spaced, parts, n, pos),
         NEW providers, LogShapes(parts, providers, n),
         NEW entry, NEW next, LogLoop(nodes, entry, next)
  PROVE  Table(nodes, "logProvider", entry, next) = LogSaid(providers, n)
         <=> spaced /\ \A k \in 1..n : k \in LogGood(providers, n)
<1> DEFINE said == LogSaid(providers, n)
           good == LogGood(providers, n)
           e == "logProvider"
<1>1. DOMAIN nodes = 1..Len(nodes)
  OBVIOUS
<1>2. WellOrBadly(nodes, e, entry, next, n, pos, said, good)
  BY LogWellOrBadly
<1>3. ASSUME NEW p \in 1..Len(nodes) PROVE next[p] \in p..Len(nodes) + 1
  <2>1. next[p] = LastSibling(nodes, LogSet(nodes, p))
    BY DEF LogLoop
  <2>2. QED
    BY <2>1, LogNextRange
<1>4. IsList(said, n)
  BY DEF IsList, LogSaid
<1>5. ProviderParts(parts, n, e)
  <2> SUFFICES ASSUME NEW k \in 1..n
               PROVE  /\ 1 \in 1..Len(parts[k])
                      /\ parts[k][1].element = e /\ parts[k][1].provider = k
                      /\ \A m \in 1..Len(parts[k]) : parts[k][m].element = e => m = 1
    BY DEF ProviderParts
  <2>1. /\ LogShape(parts[k], providers[k], k)
        /\ providers[k].hasSet \in BOOLEAN /\ providers[k].spaced \in BOOLEAN
    BY DEF LogShapes, LogProviders
  <2>2. Len(parts[k]) = 2 + (IF providers[k].spaced THEN 1 ELSE 0)
                           + (IF providers[k].hasSet THEN 1 ELSE 0)
    BY <2>1 DEF LogShape
  <2>3. 1 \in 1..Len(parts[k])
    BY <2>1, <2>2
  <2>4. QED
    BY <2>1, <2>3 DEF LogShape
<1>6. ASSUME NEW p \in 1..Len(nodes), nodes[p].provider # 1
      PROVE  entry[p] # said[1]
  <2>1. entry[p] = LogEntry(nodes, p)
    BY DEF LogLoop
  <2>2. LogEntry(nodes, p).provider = nodes[p].provider
    BY DEF LogEntry
  <2>3. 1 \in 1..n
    OBVIOUS
  <2>4. said[1] = LogProviderSaid(providers[1], 1)
    BY <2>3 DEF LogSaid
  <2>5. LogProviderSaid(providers[1], 1).provider = 1
    BY DEF LogProviderSaid
  <2> HIDE DEF said
  <2>6. QED
    BY <1>6, <2>1, <2>2, <2>4, <2>5
<1>7. e # "Space"
  OBVIOUS
<1> HIDE DEF said, good, e
<1>8. Table(nodes, e, entry, next) = said <=> spaced /\ \A k \in 1..n : k \in good
  BY <1>2, <1>3, <1>4, <1>5, <1>6, <1>7, TableAsSaid
<1>9. QED
  BY <1>8 DEF said, good, e

(* The parts are sequences of nodes in X.                                  *)
AreParts(parts, n, X) == \A k \in 1..n : parts[k] \in Seq(X)

(* The document of some parts is laid out as Layout says.                  *)
LEMMA PartsLayout ==
  ASSUME NEW X, HasSpace(X), NEW spaced \in BOOLEAN, NEW n \in Nat, n # 0,
         NEW parts, IsList(parts, n), AreParts(parts, n, X)
  PROVE  /\ Document(spaced, parts) \in Seq(X)
         /\ \E pos : Layout(Document(spaced, parts), spaced, parts, n, pos)
<1>1. parts \in [1..n -> Seq(X)]
  BY DEF IsList, AreParts
<1>2. Space(spaced) \in Seq(X)
  BY SpaceIsNode
<1>3. QED
  BY <1>1, <1>2, DocumentLayout

(* The nodes of a document of log providers, with their names.             *)
LEMMA LogDocumentNodes ==
  ASSUME NEW d, DocumentOf(d, LogProviders), NEW n, n = Len(d.providers),
         NEW name, name = [k \in 1..n |-> d.providers[k].name],
         NEW X, X = LogNodeSet(n, name),
         NEW nodes, nodes = LogNodes(d),
         NEW parts, parts = [k \in 1..n |-> LogPart(d.providers[k], k)]
  PROVE  /\ nodes \in Seq(X)
         /\ \E pos : Layout(nodes, d.spaced, parts, n, pos)
         /\ LogShapes(parts, d.providers, n)
<1> DEFINE p == d.providers
           spaced == d.spaced
<1>1. n \in Nat /\ n # 0 /\ DOMAIN p = 1..n /\ \A k \in 1..n : p[k] \in LogProviders
  BY DEF DocumentOf
<1>2. spaced \in BOOLEAN
  BY DEF DocumentOf
<1>3. IsList(parts, n)
  BY DEF IsList
<1>4. HasSpace(X)
  BY DEF HasSpace, LogNodeSet
<1>5. ASSUME NEW k \in 1..n
      PROVE  parts[k] \in Seq(X) /\ LogShape(parts[k], p[k], k)
  <2>1. parts[k] = LogPart(p[k], k) /\ p[k].name = name[k]
    OBVIOUS
  <2> HIDE DEF p
  <2>2. QED
    BY <1>1, <2>1, LogPartShape
<1>6. AreParts(parts, n, X) /\ LogShapes(parts, p, n)
  <2> HIDE DEF p
  <2> QED
    BY <1>1, <1>5 DEF AreParts, LogShapes
<1>7. nodes = Document(spaced, parts)
  BY <1>1 DEF LogNodes
<1>8. n \in Nat /\ n # 0 /\ AreParts(parts, n, X)
  BY <1>1, <1>6
<1> HIDE DEF p, spaced
<1>9. nodes \in Seq(X) /\ \E pos : Layout(nodes, spaced, parts, n, pos)
  <2>1. /\ Document(spaced, parts) \in Seq(X)
        /\ \E pos : Layout(Document(spaced, parts), spaced, parts, n, pos)
    BY <1>2, <1>3, <1>4, <1>8, PartsLayout, Zenon
  <2>2. QED
    BY <1>7, <2>1, Zenon
<1>10. QED
  BY <1>6, <1>9 DEF p, spaced

(* What the loop of BaseSmsc takes from the nodes of a document.           *)
LEMMA LogTableLoop ==
  ASSUME NEW d, NEW X, LogNodes(d) \in Seq(X),
         NEW nodes, nodes = LogNodes(d)
  PROVE  \E entry, next :
           /\ LogLoop(nodes, entry, next)
           /\ LogTable(d) = Table(nodes, "logProvider", entry, next)
<1> DEFINE entry == [i \in DOMAIN nodes |-> LogEntry(nodes, i)]
           next == [i \in DOMAIN nodes |-> LastSibling(nodes, LogSet(nodes, i))]
<1>1. LogLoop(nodes, entry, next)
  <2>1. DOMAIN nodes = 1..Len(nodes)
    OBVIOUS
  <2>2. QED
    BY <2>1 DEF LogLoop
<1>2. LogTable(d) = Table(nodes, "logProvider", entry, next)
  BY DEF LogTable
<1> HIDE DEF entry, next
<1>3. QED
  BY <1>1, <1>2

(* The table of log providers of every document.                           *)
LEMMA LogTableRead ==
  ASSUME NEW d, DocumentOf(d, LogProviders), NEW n, n = Len(d.providers)
  PROVE  LogTable(d) = LogSaid(d.providers, n)
         <=> d.spaced /\ \A k \in 1..n : k \in LogGood(d.providers, n)
<1> DEFINE p == d.providers
           spaced == d.spaced
           nodes == LogNodes(d)
           parts == [k \in 1..n |-> LogPart(d.providers[k], k)]
           name == [k \in 1..n |-> d.providers[k].name]
           X == LogNodeSet(n, name)
<1>1. n \in Nat /\ n # 0 /\ spaced \in BOOLEAN
  BY DEF DocumentOf
<1>2. /\ nodes \in Seq(X)
      /\ \E pos : Layout(nodes, spaced, parts, n, pos)
      /\ LogShapes(parts, p, n)
  BY LogDocumentNodes
<1>3. PICK entry, next :
        /\ LogLoop(nodes, entry, next)
        /\ LogTable(d) = Table(nodes, "logProvider", entry, next)
  BY <1>2, LogTableLoop
<1>4. PICK pos : Layout(nodes, spaced, parts, n, pos)
  BY <1>2
<1> HIDE DEF p, spaced, nodes, parts, X
<1>5. Table(nodes, "logProvider", entry, next) = LogSaid(p, n)
      <=> spaced /\ \A k \in 1..n : k \in LogGood(p, n)
  BY <1>1, <1>2, <1>3, <1>4, LogProvidersRead
<1>6. QED
  BY <1>3, <1>5 DEF p, spaced

(* Whatever the reader makes of a document, every entry of its table has    *)
(* the name of a log provider.                                             *)
LEMMA LogTableNames ==
  ASSUME NEW d, DocumentOf(d, LogProviders)
  PROVE  /\ Len(LogTable(d)) \in Nat /\ DOMAIN LogTable(d) = 1..Len(LogTable(d))
         /\ \A i \in DOMAIN LogTable(d) : LogTable(d)[i].name \in LogNames
<1> DEFINE n == Len(d.providers)
           nodes == LogNodes(d)
           parts == [k \in 1..n |-> LogPart(d.providers[k], k)]
           name == [k \in 1..n |-> d.providers[k].name]
           X == LogNodeSet(n, name)
           e == "logProvider"
<1>1. nodes \in Seq(X)
  BY LogDocumentNodes
<1>2. PICK entry, next :
        /\ LogLoop(nodes, entry, next)
        /\ LogTable(d) = Table(nodes, e, entry, next)
  BY <1>1, LogTableLoop
<1>3. \A k \in 1..n : name[k] \in LogNames
  <2>1. \A k \in 1..n : d.providers[k] \in LogProviders
    BY DEF DocumentOf
  <2>2. QED
    BY <2>1 DEF LogProviders
<1>4. \A x \in X : x.element = "logProvider" => x.value \in LogNames
  <2> HIDE DEF name
  <2>1. \A x \in X : \/ x = Node("Space", 0, "")
                     \/ \E k \in 1..n : x = Node("logProvider", k, name[k])
                     \/ \E k \in 1..n : x = Node("configuration", k, "")
                     \/ \E k \in 1..n : x = Node("set", k, "fileName")
    BY DEF LogNodeSet
  <2>2. ASSUME NEW f, NEW k, NEW v PROVE Node(f, k, v).element = f
                                         /\ Node(f, k, v).value = v
    BY DEF Node
  <2>3. /\ "Space" # "logProvider" /\ "configuration" # "logProvider"
        /\ "set" # "logProvider"
    OBVIOUS
  <2> HIDE DEF X
  <2> SUFFICES ASSUME NEW x \in X, x.element = "logProvider"
               PROVE  x.value \in LogNames
    OBVIOUS
  <2>4. CASE x = Node("Space", 0, "")
    BY <2>2, <2>3, <2>4, Zenon
  <2>5. CASE \E k \in 1..n : x = Node("logProvider", k, name[k])
    <3>1. PICK k \in 1..n : x = Node("logProvider", k, name[k])
      BY <2>5
    <3>2. x.value = name[k]
      BY <2>2, <3>1
    <3>3. name[k] \in LogNames
      BY <1>3
    <3>4. QED
      BY <3>2, <3>3
  <2>6. CASE \E k \in 1..n : x = Node("configuration", k, "")
    <3>1. PICK k \in 1..n : x = Node("configuration", k, "")
      BY <2>6
    <3>2. QED
      BY <2>2, <2>3, <3>1, Zenon
  <2>7. CASE \E k \in 1..n : x = Node("set", k, "fileName")
    <3>1. PICK k \in 1..n : x = Node("set", k, "fileName")
      BY <2>7
    <3>2. QED
      BY <2>2, <2>3, <3>1, Zenon
  <2>8. QED
    BY <2>1, <2>4, <2>5, <2>6, <2>7, Zenon
<1>5. ASSUME NEW p \in 1..Len(nodes) PROVE next[p] \in p..Len(nodes) + 1
  <2>1. next[p] = LastSibling(nodes, LogSet(nodes, p))
    BY <1>2 DEF LogLoop
  <2> HIDE DEF nodes, X
  <2>2. QED
    BY <1>1, <2>1, LogNextRange
<1> HIDE DEF nodes, X, e
<1>6. LogTable(d) \in Seq(Entries(nodes, e, entry))
  BY <1>1, <1>2, <1>5, TableEntries
<1>7. ASSUME NEW p \in 1..Len(nodes), nodes[p].element = e
      PROVE  entry[p].name \in LogNames
  <2>1. entry[p] = LogEntry(nodes, p)
    BY <1>2 DEF LogLoop
  <2>2. entry[p].name = nodes[p].value
    BY <2>1 DEF LogEntry
  <2>3. nodes[p] \in X
    BY <1>1
  <2>4. QED
    BY <1>4, <1>7, <2>2, <2>3 DEF e
<1>8. \A x \in Entries(nodes, e, entry) : x.name \in LogNames
  BY <1>7 DEF Entries
<1>9. QED
  BY <1>6, <1>8

(* All providers are good exactly if the document is one that LogReadAsSaid*)
(* calls readable.                                                         *)
LEMMA LogGoodReadable ==
  ASSUME NEW n \in Nat, n # 0, NEW p
  PROVE  (\A k \in 1..n : k \in LogGood(p, n))
         <=> (\A i \in 1..n - 1 : p[i].hasSet /\ p[i].spaced)
             /\ (p[n].hasSet => p[n].spaced)
<1>1. n \in 1..n /\ ~(n < n) /\ \A i \in 1..n - 1 : i \in 1..n /\ i < n
  OBVIOUS
<1>2. \A i \in 1..n : (i \in 1..n - 1 /\ i # n) \/ (~(i < n) /\ i = n)
  OBVIOUS
<1>3. ASSUME \A k \in 1..n : k \in LogGood(p, n)
      PROVE  (\A i \in 1..n - 1 : p[i].hasSet /\ p[i].spaced)
             /\ (p[n].hasSet => p[n].spaced)
  BY Zenon, <1>1, <1>3 DEF LogGood
<1>4. ASSUME \A i \in 1..n - 1 : p[i].hasSet /\ p[i].spaced,
             p[n].hasSet => p[n].spaced, NEW k \in 1..n
      PROVE  k \in LogGood(p, n)
  BY Zenon, <1>2, <1>4 DEF LogGood
<1>5. QED
  BY <1>3, <1>4

(* BaseSmsc reads the log providers of every document, of any length, as   *)
(* LogReadAsSaid says.                                                     *)
THEOREM LogReaderReadsAsSaid ==
  ASSUME NEW d, DocumentOf(d, LogProviders)
  PROVE  LogReadAsSaid(d)
<1> DEFINE p == d.providers
           n == Len(d.providers)
           said == [i \in 1..n |-> [provider |-> i, name |-> p[i].name,
                                    settings |-> IF p[i].hasSet THEN <<i>> ELSE <<>>]]
           Readable == /\ d.spaced
                       /\ \A i \in 1..n - 1 : p[i].hasSet /\ p[i].spaced
                       /\ p[n].hasSet => p[n].spaced
<1>1. n \in Nat /\ n # 0
  BY DEF DocumentOf
<1>2. LogSaid(p, n) = said
  BY DEF LogSaid, LogProviderSaid
<1>3. LogTable(d) = LogSaid(p, n)
      <=> d.spaced /\ \A k \in 1..n : k \in LogGood(p, n)
  BY LogTableRead
<1>4. (\A k \in 1..n : k \in LogGood(p, n))
      <=> (\A i \in 1..n - 1 : p[i].hasSet /\ p[i].spaced)
          /\ (p[n].hasSet => p[n].spaced)
  <2> HIDE DEF p, n
  <2> QED
    BY <1>1, LogGoodReadable
<1>5. (d.spaced /\ \A k \in 1..n : k \in LogGood(p, n)) <=> Readable
  BY <1>4
<1>6. LogReadAsSaid(d) <=> (LogTable(d) = said <=> Readable)
  BY DEF LogReadAsSaid
<1>7. QED
  BY <1>2, <1>3, <1>5, <1>6

-----------------------------------------------------------------------------
(* SMS providers.                                                          *)

(* How many nodes the optional white space is.                             *)
One(spaced) == IF spaced THEN 1 ELSE 0

(* The features that the loop of Smsc notes.                               *)
FeaturesOf(features) ==
  [k \in DOMAIN features |-> <<features[k].provider, features[k].value>>]

(* The positions of a provider at a, its first feature at g and what       *)
(* follows it at b, among N nodes; f features, behind one white space.     *)
SmsNumbers(N, a, g, b, f, one) ==
  /\ a \in 1..N /\ g \in Nat /\ b \in Nat /\ b - 1 \in 1..N /\ f \in 1..2
  /\ g = a + 2 + one /\ b = g + f + 2

(* With white space behind <features>, the feature is a node further away. *)
LEMMA SmsSpaced ==
  ASSUME NEW N \in Nat, NEW a, NEW g, NEW b, NEW f, NEW one, one = 1,
         SmsNumbers(N, a, g, b, f, one)
  PROVE  /\ a \in 1..N /\ g \in 1..N /\ b - 1 \in 1..N /\ f \in 1..2
         /\ g = a + 3 /\ b = g + f + 2 /\ b \in Nat
BY DEF SmsNumbers

(* Without it, the feature follows at once.                                *)
LEMMA SmsNotSpaced ==
  ASSUME NEW N \in Nat, NEW a, NEW g, NEW b, NEW f, NEW one, one = 0,
         SmsNumbers(N, a, g, b, f, one)
  PROVE  /\ a \in 1..N /\ g \in 1..N /\ b - 1 \in 1..N /\ f \in 1..2
         /\ g = a + 2 /\ b = g + f + 2 /\ b \in Nat
BY DEF SmsNumbers

(* Provider p of place k is at a, its first feature at g, and what follows  *)
(* it at b.                                                                *)
SmsAt(nodes, a, g, b, p, k) ==
  /\ SmsNumbers(Len(nodes), a, g, b, Len(p.features), One(p.spaced))
  /\ nodes[a].provider = k /\ nodes[a].value = p.default
  /\ \A j \in 1..Len(p.features) :
       /\ nodes[g + j - 1].element = "feature" /\ nodes[g + j - 1].provider = k
       /\ nodes[g + j - 1].value = p.features[j]
  /\ nodes[g + Len(p.features)].element = "configuration"
  /\ nodes[b - 1].element = "set" /\ nodes[b - 1].provider = k
  /\ \A j \in 1..Len(nodes) :
       nodes[j].element = "feature" /\ nodes[j].provider = k
       => j \in g..g + Len(p.features) - 1
  /\ b <= Len(nodes) => nodes[b].element # "set"

(* What the document says of a provider.                                   *)
SmsProviderSaid(p, k) ==
  [provider |-> k, default |-> p.default # "false",
   features |-> [j \in DOMAIN p.features |-> <<k, p.features[j]>>],
   settings |-> <<k>>]

(* The features of a provider behind white space are read, and only they.  *)
LEMMA SmsFeaturesRead ==
  ASSUME NEW X, NEW nodes \in Seq(X), NEW a, NEW g, NEW b, NEW p, NEW k,
         SmsAt(nodes, a, g, b, p, k), p.spaced
  PROVE  /\ SmsFeature(nodes, a) = g
         /\ LastSibling(nodes, g) = g + Len(p.features) - 1
         /\ g \in 1..Len(nodes)
<1> DEFINE N == Len(nodes)
           f == Len(p.features)
           l == g + f - 1
<1>1. N \in Nat
  OBVIOUS
<1>2. /\ a \in 1..N /\ g \in 1..N /\ b - 1 \in 1..N /\ f \in 1..2
      /\ g = a + 3 /\ b = g + f + 2 /\ b \in Nat
  <2>1. SmsNumbers(N, a, g, b, f, One(p.spaced))
    BY DEF SmsAt
  <2>2. One(p.spaced) = 1
    BY DEF One
  <2> HIDE DEF N, f
  <2>3. QED
    BY <1>1, <2>1, <2>2, SmsSpaced
<1>3. \A j \in 1..f : nodes[g + j - 1].element = "feature"
  BY DEF SmsAt
<1>4. nodes[g + f].element # "feature"
  <2>1. "configuration" # "feature"
    OBVIOUS
  <2>2. QED
    BY <2>1 DEF SmsAt
<1> HIDE DEF f
<1>5. 1 \in 1..f /\ g + 1 - 1 = g /\ a + 2 \in Nat /\ g = (a + 2) + 1 /\ g <= N
  BY <1>1, <1>2
<1>6. nodes[g].element = "feature"
  BY <1>3, <1>5
<1>7. SmsFeature(nodes, a) = g
  BY <1>5, <1>6, ReadToNext DEF SmsFeature
<1>8. l \in g..N /\ l + 1 = g + f /\ g \in 1..N
  BY <1>1, <1>2
<1>9. ASSUME NEW j \in g..l PROVE nodes[j].element = "feature"
  <2>1. j - g + 1 \in 1..f /\ g + (j - g + 1) - 1 = j
    BY <1>1, <1>2
  <2>2. QED
    BY <1>3, <2>1
<1> HIDE DEF l, N
<1>10. \A j \in g..l : nodes[j].element = nodes[g].element
  BY <1>6, <1>9
<1>11. l < N => nodes[l + 1].element # nodes[g].element
  BY <1>4, <1>6, <1>8
<1>12. LastSibling(nodes, g) = l
  BY <1>8, <1>10, <1>11, LastSiblingStops DEF N
<1>13. QED
  BY <1>7, <1>8, <1>12 DEF l, f, N

(* So are its settings, and the reader stays on the last of them.          *)
LEMMA SmsSettingsRead ==
  ASSUME NEW X, NEW nodes \in Seq(X), NEW a, NEW g, NEW b, NEW p, NEW k,
         SmsAt(nodes, a, g, b, p, k), p.spaced
  PROVE  /\ SmsSet(nodes, a) = b - 1
         /\ LastSibling(nodes, SmsSet(nodes, a)) = b - 1
         /\ SettingsOf(Siblings(nodes, SmsSet(nodes, a))) = <<k>>
<1> DEFINE N == Len(nodes)
           f == Len(p.features)
           l == g + f - 1
           s == b - 1
<1>1. N \in Nat
  OBVIOUS
<1>2. /\ a \in 1..N /\ g \in 1..N /\ b - 1 \in 1..N /\ f \in 1..2
      /\ g = a + 3 /\ b = g + f + 2 /\ b \in Nat
  <2>1. SmsNumbers(N, a, g, b, f, One(p.spaced))
    BY DEF SmsAt
  <2>2. One(p.spaced) = 1
    BY DEF One
  <2> HIDE DEF N, f
  <2>3. QED
    BY <1>1, <2>1, <2>2, SmsSpaced
<1>3. /\ nodes[g + f].element = "configuration"
      /\ nodes[s].element = "set" /\ nodes[s].provider = k
  BY DEF SmsAt
<1>4. b <= N => nodes[b].element # "set"
  BY DEF SmsAt
<1>5. LastSibling(nodes, SmsFeature(nodes, a)) = l
  BY SmsFeaturesRead
<1> HIDE DEF f
<1>6. /\ l \in Nat /\ g + f = l + 1 /\ g + f <= N
      /\ g + f \in Nat /\ s = (g + f) + 1 /\ s <= N /\ s \in 1..N
      /\ s + 1 = b /\ (s < N => b <= N) /\ s \in 1..N + 1
  BY <1>1, <1>2
<1> HIDE DEF l, s, N
<1>7. ReadToFollowing(nodes, l, "configuration") = g + f
  BY <1>3, <1>6, ReadToNext DEF N
<1>8. ReadToFollowing(nodes, g + f, "set") = s
  BY <1>3, <1>6, ReadToNext DEF N
<1>9. SmsSet(nodes, a) = s
  BY <1>5, <1>7, <1>8 DEF SmsSet
<1>10. s < N => nodes[s + 1].element # nodes[s].element
  BY <1>3, <1>4, <1>6
<1>11. LastSibling(nodes, s) = s
  BY <1>6, <1>10, LastSiblingIsFirst DEF N
<1>12. SettingsOf(Siblings(nodes, s)) = <<nodes[s].provider>>
  BY <1>6, <1>11, Settings DEF N
<1>13. QED
  BY <1>3, <1>9, <1>11, <1>12 DEF s

(* A loop over the features from s: nothing at the end, and else the first *)
(* one it reads is the one at s.                                           *)
LEMMA FeaturesFrom ==
  ASSUME NEW X, NEW nodes \in Seq(X), NEW s \in 1..Len(nodes) + 1,
         NEW features, features = FeaturesOf(Siblings(nodes, s))
  PROVE  /\ s = Len(nodes) + 1 => features = <<>>
         /\ s <= Len(nodes) => features[1] = <<nodes[s].provider, nodes[s].value>>
<1>1. CASE s = Len(nodes) + 1
  <2>1. Siblings(nodes, s) = <<>>
    BY <1>1, NoSiblings
  <2>2. DOMAIN <<>> = {}
    OBVIOUS
  <2>3. features = <<>>
    BY <2>1, <2>2 DEF FeaturesOf
  <2>4. Len(nodes) \in Nat
    OBVIOUS
  <2>5. QED
    BY <1>1, <2>3, <2>4
<1>2. CASE s \in 1..Len(nodes)
  <2> DEFINE f == Siblings(nodes, s)
  <2>1. 1 \in DOMAIN f /\ f[1] = nodes[s]
    BY <1>2, SiblingsFrom
  <2> HIDE DEF f
  <2>2. features = [k \in DOMAIN f |-> <<f[k].provider, f[k].value>>]
    BY DEF FeaturesOf, f
  <2>3. features[1] = <<nodes[s].provider, nodes[s].value>>
    BY <2>1, <2>2
  <2>4. s # Len(nodes) + 1
    BY <1>2
  <2>5. QED
    BY <2>3, <2>4
<1>3. QED
  BY <1>1, <1>2

(* Without white space, the first feature of a provider is passed over.    *)
LEMMA SmsFeatureMissed ==
  ASSUME NEW X, NEW nodes \in Seq(X), NEW a, NEW g, NEW b, NEW p, NEW k,
         SmsAt(nodes, a, g, b, p, k), ~p.spaced,
         \A j \in 1..Len(p.features) : p.features[j] = p.features[1] => j = 1
  PROVE  FeaturesOf(Siblings(nodes, SmsFeature(nodes, a)))
         # [j \in DOMAIN p.features |-> <<k, p.features[j]>>]
<1> DEFINE N == Len(nodes)
           f == Len(p.features)
           s == SmsFeature(nodes, a)
           features == FeaturesOf(Siblings(nodes, s))
           said == [j \in DOMAIN p.features |-> <<k, p.features[j]>>]
<1>1. N \in Nat
  OBVIOUS
<1>2. /\ a \in 1..N /\ g \in 1..N /\ b - 1 \in 1..N /\ f \in 1..2
      /\ g = a + 2 /\ b = g + f + 2 /\ b \in Nat
  <2>1. SmsNumbers(N, a, g, b, f, One(p.spaced))
    BY DEF SmsAt
  <2>2. One(p.spaced) = 0
    BY DEF One
  <2> HIDE DEF N, f
  <2>3. QED
    BY <1>1, <2>1, <2>2, SmsNotSpaced
<1>3. s \in (a + 2) + 1..N \/ s = N + 1
  <2>1. a + 2 \in Nat
    BY <1>1, <1>2
  <2>2. QED
    BY <2>1, ReadToFollowingStops DEF SmsFeature
<1>4. s <= N => nodes[s].element = "feature"
  <2>1. a + 2 \in Nat
    BY <1>1, <1>2
  <2>2. nodes[s].element = "feature" \/ s = N + 1
    BY <2>1, ReadToFollowingStops DEF SmsFeature
  <2>3. QED
    BY <1>1, <2>2
<1>5. 1 \in DOMAIN p.features
  BY <1>2
<1> HIDE DEF f, s, features
<1>6. said[1] = <<k, p.features[1]>>
  BY <1>5
<1>7. s \in 1..N + 1 /\ features = FeaturesOf(Siblings(nodes, s))
  BY <1>1, <1>2, <1>3 DEF features
<1>8. CASE s = N + 1
  <2>1. features = <<>>
    BY <1>7, <1>8, FeaturesFrom
  <2>2. 1 \notin DOMAIN <<>>
    OBVIOUS
  <2>3. 1 \in DOMAIN said
    BY <1>5
  <2>4. QED
    BY <2>1, <2>2, <2>3 DEF features, s
<1>9. CASE s \in (a + 2) + 1..N
  <2>1. features[1] = <<nodes[s].provider, nodes[s].value>>
    BY <1>1, <1>7, <1>9, FeaturesFrom
  <2>2. ASSUME nodes[s].provider = k, nodes[s].value = p.features[1]
        PROVE  FALSE
    <3>1. nodes[s].element = "feature" /\ s \in 1..N
      BY <1>1, <1>2, <1>4, <1>9
    <3>2. s \in g..g + f - 1
      BY <2>2, <3>1 DEF SmsAt, f
    <3>3. s - g + 1 \in 1..f /\ s - g + 1 # 1 /\ g + (s - g + 1) - 1 = s
      BY <1>1, <1>2, <1>9, <3>2
    <3>4. nodes[s].value = p.features[s - g + 1]
      BY <3>3 DEF SmsAt, f
    <3>5. QED
      BY <2>2, <3>3, <3>4 DEF f
  <2>3. features[1] # said[1]
    BY <1>6, <2>1, <2>2
  <2>4. QED
    BY <2>3 DEF features, s
<1>10. QED
  BY <1>3, <1>8, <1>9

(* Four sequences in a row.                                                *)
FourBlocks(t, a, b, c, d) ==
  /\ Len(t) = Len(a) + Len(b) + Len(c) + Len(d)
  /\ \A m \in 1..Len(a) : t[m] = a[m]
  /\ \A m \in 1..Len(b) : t[Len(a) + m] = b[m]
  /\ \A m \in 1..Len(c) : t[Len(a) + Len(b) + m] = c[m]
  /\ \A m \in 1..Len(d) : t[Len(a) + Len(b) + Len(c) + m] = d[m]

(* The concatenation of four sequences.                                    *)
LEMMA Blocks ==
  ASSUME NEW X, NEW a \in Seq(X), NEW b \in Seq(X), NEW c \in Seq(X), NEW d \in Seq(X)
  PROVE  a \o b \o c \o d \in Seq(X) /\ FourBlocks(a \o b \o c \o d, a, b, c, d)
<1> DEFINE u == a \o b
           v == u \o c
           t == v \o d
           x == Len(a)
           y == Len(b)
           z == Len(c)
           w == Len(d)
<1>1. /\ u \in Seq(X) /\ x \in Nat /\ y \in Nat /\ Len(u) = x + y
      /\ \A m \in 1..x : u[m] = a[m]
      /\ \A m \in 1..y : u[x + m] = b[m]
  BY ConcatParts
<1> HIDE DEF u
<1>2. /\ v \in Seq(X) /\ z \in Nat /\ Len(v) = Len(u) + z
      /\ \A m \in 1..Len(u) : v[m] = u[m]
      /\ \A m \in 1..z : v[Len(u) + m] = c[m]
  <2>1. u \in Seq(X)
    BY <1>1
  <2>2. QED
    BY <2>1, ConcatParts
<1> HIDE DEF v
<1>3. /\ t \in Seq(X) /\ w \in Nat /\ Len(t) = Len(v) + w
      /\ \A m \in 1..Len(v) : t[m] = v[m]
      /\ \A m \in 1..w : t[Len(v) + m] = d[m]
  <2>1. v \in Seq(X)
    BY <1>2
  <2>2. QED
    BY <2>1, ConcatParts
<1> HIDE DEF t, x, y, z, w
<1>4. Len(u) = x + y /\ Len(v) = x + y + z /\ Len(t) = x + y + z + w
  BY <1>1, <1>2, <1>3
<1>5. /\ \A m \in 1..x : m \in 1..Len(u) /\ m \in 1..Len(v)
      /\ \A m \in 1..y : x + m \in 1..Len(u) /\ x + m \in 1..Len(v)
      /\ \A m \in 1..z : x + y + m \in 1..Len(v)
  BY <1>1, <1>2, <1>3, <1>4
<1>6. \A m \in 1..x : t[m] = a[m]
  BY <1>1, <1>2, <1>3, <1>5
<1>7. \A m \in 1..y : t[x + m] = b[m]
  BY <1>1, <1>2, <1>3, <1>5
<1>8. \A m \in 1..z : t[x + y + m] = c[m]
  BY <1>2, <1>3, <1>4, <1>5
<1>9. \A m \in 1..w : t[x + y + z + m] = d[m]
  BY <1>3, <1>4
<1>10. t \in Seq(X) /\ FourBlocks(t, a, b, c, d)
  BY <1>3, <1>4, <1>6, <1>7, <1>8, <1>9 DEF FourBlocks, x, y, z, w
<1>11. QED
  BY <1>10 DEF t, u, v

(* The features that a provider may have.                                  *)
SmsFeatures(features) ==
  /\ Len(features) \in 1..2 /\ DOMAIN features = 1..Len(features)
  /\ \A j \in 1..Len(features) : features[j] = features[1] => j = 1

(* What the schema admits of an SMS provider.                              *)
LEMMA SmsProviderFields ==
  ASSUME NEW p \in SmsProviders
  PROVE  /\ p.spaced \in BOOLEAN /\ SmsFeatures(p.features)
         /\ IsFeatureEnabled(p.default) = (p.default # "false") <=> p.default # "1"
<1>1. p.spaced \in BOOLEAN
  BY DEF SmsProviders
<1>2. p.default \in {"true", "1", "false"}
  BY DEF SmsProviders
<1>3. p.features = <<"simpleSms">> \/ p.features = <<"simpleSms", "testMode">>
  BY DEF SmsProviders
<1>4. IsFeatureEnabled(p.default) = (p.default # "false") <=> p.default # "1"
  BY <1>2 DEF IsFeatureEnabled
<1>5. CASE p.features = <<"simpleSms">>
  <2> DEFINE f == p.features
  <2>1. Len(f) = 1 /\ DOMAIN f = 1..1
    BY <1>5
  <2>2. \A j \in 1..1 : j = 1
    OBVIOUS
  <2>3. 1 \in 1..2
    OBVIOUS
  <2> HIDE DEF f
  <2>4. SmsFeatures(f)
    BY <2>1, <2>2, <2>3 DEF SmsFeatures
  <2>5. QED
    BY <1>1, <1>4, <2>4 DEF f
<1>6. CASE p.features = <<"simpleSms", "testMode">>
  <2> DEFINE f == p.features
  <2>1. Len(f) = 2 /\ DOMAIN f = 1..2
    BY <1>6
  <2>2. f[1] # f[2]
    BY <1>6
  <2>3. 2 \in 1..2 /\ \A j \in 1..2 : j = 1 \/ j = 2
    OBVIOUS
  <2> HIDE DEF f
  <2>4. SmsFeatures(f)
    BY <2>1, <2>2, <2>3 DEF SmsFeatures
  <2>5. QED
    BY <1>1, <1>4, <2>4 DEF f
<1>7. QED
  BY <1>3, <1>5, <1>6

(* What matters of a part: where its elements are.                         *)
SmsShape(part, p, k) ==
  /\ Len(part) = 4 + One(p.spaced) + Len(p.features)
  /\ part[1].element = "smsProvider" /\ part[1].provider = k
  /\ part[1].value = p.default
  /\ \A j \in 1..Len(p.features) :
       LET m == 2 + One(p.spaced) + j
       IN  /\ part[m].element = "feature" /\ part[m].provider = k
           /\ part[m].value = p.features[j]
  /\ part[3 + One(p.spaced) + Len(p.features)].element = "configuration"
  /\ part[4 + One(p.spaced) + Len(p.features)].element = "set"
  /\ part[4 + One(p.spaced) + Len(p.features)].provider = k
  /\ \A m \in 1..Len(part) : part[m].element = "smsProvider" => m = 1
  /\ \A m \in 1..Len(part) :
       part[m].element = "feature"
       => /\ m - 2 - One(p.spaced) \in 1..Len(p.features)
          /\ part[m].provider = k

(* The nodes that the parts are made of.                                   *)
SmsNodeSet(p, k) ==
  {Node("Space", 0, ""), Node("smsProvider", k, p.default), Node("features", k, ""),
   Node("configuration", k, ""), Node("set", k, "")}
    \cup {Node("feature", k, p.features[j]) : j \in 1..Len(p.features)}

(* A sequence of two elements.                                             *)
LEMMA PairOf ==
  ASSUME NEW X, NEW a \in X, NEW b \in X
  PROVE  <<a, b>> \in Seq(X) /\ Len(<<a, b>>) = 2 /\ <<a, b>>[1] = a /\ <<a, b>>[2] = b
OBVIOUS

(* The places in the nodes of an SMS provider with o white spaces and f    *)
(* features.                                                               *)
LEMMA SmsIndices ==
  ASSUME NEW o \in 0..1, NEW f \in 1..2, NEW m \in 1..4 + o + f
  PROVE  \/ m = 1 \/ m = 2 \/ (o = 1 /\ m = 2 + 1) \/ m = 3 + o + f \/ m = 4 + o + f
         \/ (m - 2 - o \in 1..f /\ m = 2 + o + (m - 2 - o))
OBVIOUS

(* The nodes of an SMS provider have that shape.                           *)
LEMMA SmsPartShape ==
  ASSUME NEW p, p.spaced \in BOOLEAN, SmsFeatures(p.features), NEW k,
         NEW X, X = SmsNodeSet(p, k)
  PROVE  SmsPart(p, k) \in Seq(X) /\ SmsShape(SmsPart(p, k), p, k)
<1> DEFINE na == Node("smsProvider", k, p.default)
           nb == Node("features", k, "")
           ns == Node("Space", 0, "")
           nc == Node("configuration", k, "")
           nd == Node("set", k, "")
           nf(j) == Node("feature", k, p.features[j])
           f == Len(p.features)
           o == One(p.spaced)
           a == <<na, nb>>
           b == Space(p.spaced)
           c == [j \in DOMAIN p.features |-> nf(j)]
           d == <<nc, nd>>
           part == SmsPart(p, k)
<1>1. part = a \o b \o c \o d
  BY DEF SmsPart
<1>2. /\ na.element = "smsProvider" /\ na.provider = k /\ na.value = p.default
      /\ nb.element = "features" /\ ns.element = "Space"
      /\ nc.element = "configuration"
      /\ nd.element = "set" /\ nd.provider = k
      /\ \A j \in 1..f : nf(j).element = "feature" /\ nf(j).provider = k
                         /\ nf(j).value = p.features[j]
  BY DEF Node
<1>3. na \in X /\ nb \in X /\ ns \in X /\ nc \in X /\ nd \in X
      /\ \A j \in 1..f : nf(j) \in X
  BY DEF SmsNodeSet
<1>4. HasSpace(X)
  BY <1>3 DEF HasSpace
<1>5. f \in 1..2 /\ DOMAIN p.features = 1..f
  BY DEF SmsFeatures
<1>6. o \in 0..1 /\ (o = 1 <=> p.spaced)
  BY DEF One
<1>7. b = IF p.spaced THEN <<ns>> ELSE <<>>
  BY DEF Space
<1> HIDE DEF na, nb, ns, nc, nd, nf, part, f, o
<1>8. a \in Seq(X) /\ Len(a) = 2 /\ a[1] = na /\ a[2] = nb
  BY <1>3, PairOf
<1>9. d \in Seq(X) /\ Len(d) = 2 /\ d[1] = nc /\ d[2] = nd
  BY <1>3, PairOf
<1>10. c \in Seq(X) /\ Len(c) = f /\ \A j \in 1..f : c[j] = nf(j)
  <2>1. c = [j \in 1..f |-> nf(j)]
    BY <1>5
  <2>2. f \in Nat
    BY <1>5
  <2> HIDE DEF c
  <2>3. QED
    BY <1>3, <2>1, <2>2
<1>11. b \in Seq(X)
  BY <1>4, SpaceIsNode
<1>12. Len(b) = o /\ (o = 1 => b[1] = ns)
  <2>1. CASE p.spaced
    <3>1. b = <<ns>>
      BY <1>7, <2>1
    <3> HIDE DEF b
    <3>2. Len(b) = 1 /\ b[1] = ns
      BY <3>1, OneElement
    <3>3. QED
      BY <1>6, <2>1, <3>2
  <2>2. CASE ~p.spaced
    <3>1. b = <<>>
      BY <1>7, <2>2
    <3> HIDE DEF b
    <3>2. Len(b) = 0
      BY <3>1
    <3>3. o = 0
      BY <1>6, <2>2
    <3>4. QED
      BY <3>2, <3>3
  <2>3. QED
    BY <2>1, <2>2
<1> HIDE DEF a, b, c, d
<1>13. part \in Seq(X) /\ FourBlocks(part, a, b, c, d)
  BY <1>1, <1>8, <1>9, <1>10, <1>11, Blocks
<1>14. /\ Len(part) = 2 + o + f + 2
       /\ \A m \in 1..2 : part[m] = a[m]
       /\ \A m \in 1..o : part[2 + m] = b[m]
       /\ \A m \in 1..f : part[2 + o + m] = c[m]
       /\ \A m \in 1..2 : part[2 + o + f + m] = d[m]
  BY <1>8, <1>9, <1>10, <1>12, <1>13 DEF FourBlocks
<1>15. 1 \in 1..2 /\ 2 \in 1..2 /\ (o = 1 => 1 \in 1..o)
       /\ 2 + o + f + 1 = 3 + o + f /\ 2 + o + f + 2 = 4 + o + f
  BY <1>5, <1>6
<1>16. Len(part) = 4 + o + f
  BY <1>14, <1>15
<1>17. part[1] = na /\ part[2] = nb
  BY <1>8, <1>14, <1>15
<1>18. o = 1 => part[2 + 1] = ns
  BY <1>12, <1>14, <1>15
<1>19. part[3 + o + f] = nc /\ part[4 + o + f] = nd
  BY <1>9, <1>14, <1>15
<1>20. \A j \in 1..f : part[2 + o + j] = nf(j)
  BY <1>10, <1>14
<1>21. ASSUME NEW m \in 1..Len(part)
       PROVE  /\ part[m].element = "smsProvider" => m = 1
              /\ part[m].element = "feature" => m - 2 - o \in 1..f
                                                /\ part[m].provider = k
  <2>1. \/ m = 1 \/ m = 2 \/ (o = 1 /\ m = 2 + 1) \/ m = 3 + o + f \/ m = 4 + o + f
        \/ (m - 2 - o \in 1..f /\ m = 2 + o + (m - 2 - o))
    BY <1>5, <1>6, <1>16, SmsIndices
  <2>2. CASE m = 1
    BY <1>2, <1>17, <2>2
  <2>3. CASE m = 2
    BY <1>2, <1>17, <2>3
  <2>4. CASE o = 1 /\ m = 2 + 1
    BY <1>2, <1>18, <2>4
  <2>5. CASE m = 3 + o + f
    BY <1>2, <1>19, <2>5
  <2>6. CASE m = 4 + o + f
    BY <1>2, <1>19, <2>6
  <2>7. CASE m - 2 - o \in 1..f /\ m = 2 + o + (m - 2 - o)
    <3>1. part[m] = nf(m - 2 - o)
      BY <1>20, <2>7
    <3>2. QED
      BY <1>2, <2>7, <3>1
  <2>8. QED
    BY <2>1, <2>2, <2>3, <2>4, <2>5, <2>6, <2>7
<1>22. SmsShape(part, p, k)
  <2>1. part[1].element = "smsProvider" /\ part[1].provider = k
        /\ part[1].value = p.default
    BY <1>2, <1>17
  <2>2. \A j \in 1..f : /\ part[2 + o + j].element = "feature"
                        /\ part[2 + o + j].provider = k
                        /\ part[2 + o + j].value = p.features[j]
    BY <1>2, <1>20
  <2>3. part[3 + o + f].element = "configuration"
        /\ part[4 + o + f].element = "set" /\ part[4 + o + f].provider = k
    BY <1>2, <1>19
  <2>4. QED
    BY <1>16, <1>21, <2>1, <2>2, <2>3 DEF SmsShape, f, o
<1>23. QED
  BY <1>13, <1>22 DEF part

(* All parts have that shape.                                              *)
SmsShapes(parts, providers, n) ==
  \A k \in 1..n : /\ providers[k].spaced \in BOOLEAN
                  /\ SmsFeatures(providers[k].features)
                  /\ SmsShape(parts[k], providers[k], k)

(* How many nodes they are.                                                *)
LEMMA SmsPartLength ==
  ASSUME NEW n, NEW parts, NEW providers, SmsShapes(parts, providers, n), NEW k \in 1..n
  PROVE  /\ Len(providers[k].features) \in 1..2 /\ One(providers[k].spaced) \in 0..1
         /\ Len(parts[k]) = 4 + One(providers[k].spaced) + Len(providers[k].features)
         /\ 1 \in 1..Len(parts[k])
<1>1. Len(providers[k].features) \in 1..2
  BY DEF SmsShapes, SmsFeatures
<1>2. One(providers[k].spaced) \in 0..1
  BY DEF One
<1>3. Len(parts[k]) = 4 + One(providers[k].spaced) + Len(providers[k].features)
  BY DEF SmsShapes, SmsShape
<1>4. QED
  BY <1>1, <1>2, <1>3

(* In a document the elements of each provider are where SmsAt has them.   *)
LEMMA SmsPlaces ==
  ASSUME NEW X, NEW nodes \in Seq(X), NEW n \in Nat, n # 0,
         NEW spaced \in BOOLEAN, NEW parts, NEW pos,
         Layout(nodes, spaced, parts, n, pos),
         NEW providers, SmsShapes(parts, providers, n), NEW k \in 1..n
  PROVE  SmsAt(nodes, pos[k], pos[k] + 2 + One(providers[k].spaced), pos[k + 1],
               providers[k], k)
<1> DEFINE N == Len(nodes)
           L == Len(parts[k])
           a == pos[k]
           b == pos[k + 1]
           p == providers[k]
           f == Len(p.features)
           o == One(p.spaced)
           g == a + 2 + o
<1>1. SmsShape(parts[k], p, k)
  BY DEF SmsShapes
<1>2. f \in 1..2 /\ o \in 0..1 /\ L = 4 + o + f
  BY SmsPartLength
<1>3. N \in Nat
  OBVIOUS
<1>4. a \in Nat
  BY DEF Layout
<1>5. b = a + L
  BY DEF Layout
<1>6. ASSUME NEW m \in 1..L PROVE a + m - 1 \in 1..N /\ nodes[a + m - 1] = parts[k][m]
  BY DEF Layout
<1> HIDE DEF a, b, L, f, o, g
<1>7. /\ 1 \in 1..L /\ L \in 1..L /\ 3 + o + f \in 1..L /\ 4 + o + f \in 1..L
      /\ \A j \in 1..f : 2 + o + j \in 1..L
  BY <1>2
<1>8. /\ a + 1 - 1 = a /\ a + (3 + o + f) - 1 = g + f /\ a + (4 + o + f) - 1 = b - 1
      /\ g \in Nat /\ b = g + f + 2 /\ b \in Nat /\ g = a + 2 + o
      /\ \A j \in 1..f : a + (2 + o + j) - 1 = g + j - 1
  BY <1>2, <1>4, <1>5 DEF g
<1>9. /\ a \in 1..N /\ nodes[a] = parts[k][1]
      /\ nodes[g + f] = parts[k][3 + o + f]
      /\ b - 1 \in 1..N /\ nodes[b - 1] = parts[k][4 + o + f]
      /\ \A j \in 1..f : nodes[g + j - 1] = parts[k][2 + o + j]
  BY <1>6, <1>7, <1>8
<1>10. SmsNumbers(N, a, g, b, f, o)
  BY <1>2, <1>8, <1>9 DEF SmsNumbers
<1>11. /\ nodes[a].provider = k /\ nodes[a].value = p.default
       /\ nodes[g + f].element = "configuration"
       /\ nodes[b - 1].element = "set" /\ nodes[b - 1].provider = k
  BY <1>1, <1>9 DEF SmsShape, f, o
<1>12. \A j \in 1..f : /\ nodes[g + j - 1].element = "feature"
                       /\ nodes[g + j - 1].provider = k
                       /\ nodes[g + j - 1].value = p.features[j]
  BY <1>1, <1>9 DEF SmsShape, f, o
<1>13. ASSUME NEW j \in 1..N, nodes[j].element = "feature", nodes[j].provider = k
       PROVE  j \in g..g + f - 1
  <2>1. ~(spaced /\ j = 1)
    <3>1. spaced => nodes[1].element = "Space"
      BY DEF Layout
    <3>2. "Space" # "feature"
      OBVIOUS
    <3>3. QED
      BY <1>13, <3>1, <3>2
  <2>2. PICK l \in 1..n : \E m \in 1..Len(parts[l]) : j = pos[l] + m - 1
    BY <2>1 DEF Layout
  <2>3. PICK m \in 1..Len(parts[l]) : j = pos[l] + m - 1
    BY <2>2
  <2>4. nodes[j] = parts[l][m]
    BY <2>3 DEF Layout
  <2>5. SmsShape(parts[l], providers[l], l)
    BY DEF SmsShapes
  <2>6. m - 2 - One(providers[l].spaced) \in 1..Len(providers[l].features)
        /\ parts[l][m].provider = l
    BY <1>13, <2>4, <2>5 DEF SmsShape
  <2>7. l = k
    BY <1>13, <2>4, <2>6
  <2>8. m - 2 - o \in 1..f /\ j = a + m - 1 /\ m \in 1..L
    BY <2>3, <2>6, <2>7 DEF o, f, a, L
  <2>9. QED
    BY <1>2, <1>4, <1>8, <2>8
<1>14. ASSUME b <= N PROVE nodes[b].element # "set"
  <2>1. k # n
    <3>1. ASSUME k = n PROVE b = N + 1
      BY <3>1 DEF Layout, b
    <3>2. QED
      BY <1>3, <1>14, <3>1
  <2>2. k + 1 \in 1..n
    BY <2>1
  <2>3. SmsShape(parts[k + 1], providers[k + 1], k + 1)
    BY <2>2 DEF SmsShapes
  <2>4. 1 \in 1..Len(parts[k + 1])
    BY <2>2, SmsPartLength
  <2>5. nodes[pos[k + 1] + 1 - 1] = parts[k + 1][1]
    BY <2>2, <2>4 DEF Layout
  <2>6. b + 1 - 1 = b
    BY <1>8
  <2>7. nodes[b] = parts[k + 1][1]
    BY <2>5, <2>6 DEF b
  <2>8. nodes[b].element = "smsProvider"
    BY <2>3, <2>7 DEF SmsShape
  <2>9. "smsProvider" # "set"
    OBVIOUS
  <2>10. QED
    BY <2>8, <2>9
<1>15. SmsAt(nodes, a, g, b, p, k)
  BY <1>10, <1>11, <1>12, <1>13, <1>14 DEF SmsAt, f, o
<1>16. QED
  BY <1>15 DEF a, b, g, o

(* The reader only moves on, from wherever it looks for a feature.         *)
LEMMA SmsNextRange ==
  ASSUME NEW X, NEW nodes \in Seq(X), NEW p \in 1..Len(nodes)
  PROVE  LastSibling(nodes, SmsSet(nodes, p)) \in p..Len(nodes) + 1
<1> DEFINE N == Len(nodes)
           t == SmsFeature(nodes, p)
           l == LastSibling(nodes, t)
           c == ReadToFollowing(nodes, l, "configuration")
           s == SmsSet(nodes, p)
           r == LastSibling(nodes, s)
<1>1. N \in Nat /\ p + 2 \in Nat
  OBVIOUS
<1>2. t \in (p + 2) + 1..N \/ t = N + 1
  BY <1>1, ReadToFollowingStops DEF SmsFeature
<1>3. s = ReadToFollowing(nodes, c, "set")
  BY DEF SmsSet
<1> HIDE DEF t
<1>4. t \in 1..N + 1 /\ t > p
  BY <1>1, <1>2
<1>5. l \in t..N + 1
  BY <1>4, LastSiblingRange
<1> HIDE DEF l
<1>6. l \in Nat /\ l > p
  BY <1>1, <1>4, <1>5
<1>7. c \in l + 1..N \/ c = N + 1
  BY <1>6, ReadToFollowingStops
<1> HIDE DEF c, s
<1>8. c \in Nat /\ c > p
  BY <1>1, <1>6, <1>7
<1>9. s \in c + 1..N \/ s = N + 1
  BY <1>3, <1>8, ReadToFollowingStops
<1>10. s \in 1..N + 1 /\ s > p
  BY <1>1, <1>8, <1>9
<1>11. r \in s..N + 1
  BY <1>10, LastSiblingRange
<1> HIDE DEF r
<1>12. r \in p..N + 1
  BY <1>1, <1>10, <1>11
<1>13. QED
  BY <1>12 DEF r, s

(* What the loop takes from each node, and where it goes on.               *)
SmsLoop(nodes, entry, next) ==
  \A p \in 1..Len(nodes) :
    entry[p] = SmsEntry(nodes, p) /\ next[p] = LastSibling(nodes, SmsSet(nodes, p))

(* What a document says of its SMS providers.                              *)
SmsSaid(providers, n) == [k \in 1..n |-> SmsProviderSaid(providers[k], k)]

(* The providers that the loop reads well.                                 *)
SmsGood(providers, n) ==
  {k \in 1..n : providers[k].spaced /\ providers[k].default # "1"}

(* The marks of the default provider that the schema admits.               *)
SmsDefaults(providers, n) ==
  \A k \in 1..n :
    IsFeatureEnabled(providers[k].default) = (providers[k].default # "false")
    <=> providers[k].default # "1"

(* One provider: read well, or with an entry that the document does not    *)
(* say.                                                                    *)
LEMMA SmsProviderRead ==
  ASSUME NEW X, NEW nodes \in Seq(X), NEW a, NEW g, NEW b, NEW p, NEW k,
         SmsAt(nodes, a, g, b, p, k), p.spaced \in BOOLEAN, SmsFeatures(p.features),
         IsFeatureEnabled(p.default) = (p.default # "false") <=> p.default # "1"
  PROVE  /\ p.spaced /\ p.default # "1"
            => SmsEntry(nodes, a) = SmsProviderSaid(p, k)
               /\ LastSibling(nodes, SmsSet(nodes, a)) = b - 1
         /\ ~(p.spaced /\ p.default # "1")
            => SmsEntry(nodes, a) # SmsProviderSaid(p, k)
<1> DEFINE e == SmsEntry(nodes, a)
           said == SmsProviderSaid(p, k)
           features == FeaturesOf(Siblings(nodes, SmsFeature(nodes, a)))
           settings == SettingsOf(Siblings(nodes, SmsSet(nodes, a)))
           saidFeatures == [j \in DOMAIN p.features |-> <<k, p.features[j]>>]
<1>1. nodes[a].provider = k /\ nodes[a].value = p.default
  BY DEF SmsAt
<1>2. e = [provider |-> k, default |-> IsFeatureEnabled(p.default),
           features |-> features, settings |-> settings]
  BY <1>1 DEF SmsEntry, FeaturesOf, SettingsOf
<1>3. said = [provider |-> k, default |-> p.default # "false",
              features |-> saidFeatures, settings |-> <<k>>]
  BY DEF SmsProviderSaid
<1>4. ASSUME p.spaced PROVE features = saidFeatures
  <2> DEFINE s == SmsFeature(nodes, a)
             fs == Siblings(nodes, s)
             f == Len(p.features)
  <2>1. s = g /\ LastSibling(nodes, g) = g + f - 1 /\ g \in 1..Len(nodes)
    BY <1>4, SmsFeaturesRead
  <2>2. DOMAIN p.features = 1..f /\ f \in 1..2
    BY DEF SmsFeatures
  <2>3. \A j \in 1..f : nodes[g + j - 1].provider = k
                        /\ nodes[g + j - 1].value = p.features[j]
    BY DEF SmsAt
  <2> HIDE DEF s, f
  <2>4. /\ DOMAIN fs = 1..(g + f - 1) - g + 1
        /\ \A j \in 1..(g + f - 1) - g + 1 : fs[j] = nodes[g + j - 1]
    BY <2>1, SiblingsFrom
  <2>5. (g + f - 1) - g + 1 = f
    BY <2>1, <2>2
  <2>6. DOMAIN fs = 1..f /\ \A j \in 1..f : fs[j] = nodes[g + j - 1]
    BY <2>4, <2>5
  <2> HIDE DEF fs
  <2>7. FeaturesOf(fs) = [j \in 1..f |-> <<k, p.features[j]>>]
    BY <2>3, <2>6 DEF FeaturesOf
  <2>8. QED
    BY <2>2, <2>7 DEF fs, s
<1>5. ASSUME p.spaced
      PROVE  settings = <<k>> /\ LastSibling(nodes, SmsSet(nodes, a)) = b - 1
  BY <1>5, SmsSettingsRead
<1>6. ASSUME ~p.spaced PROVE features # saidFeatures
  <2>1. \A j \in 1..Len(p.features) : p.features[j] = p.features[1] => j = 1
    BY DEF SmsFeatures
  <2>2. QED
    BY <1>6, <2>1, SmsFeatureMissed
<1> HIDE DEF e, said, features, settings, saidFeatures
<1>7. e = said <=> /\ IsFeatureEnabled(p.default) = (p.default # "false")
                   /\ features = saidFeatures /\ settings = <<k>>
  BY <1>2, <1>3
<1>8. QED
  BY <1>4, <1>5, <1>6, <1>7 DEF e, said

(* The loop reads each provider well or badly, and well those of SmsGood.  *)
LEMMA SmsWellOrBadly ==
  ASSUME NEW X, NEW nodes \in Seq(X), NEW n \in Nat, n # 0,
         NEW spaced \in BOOLEAN, NEW parts, NEW pos,
         Layout(nodes, spaced, parts, n, pos),
         NEW providers, SmsShapes(parts, providers, n), SmsDefaults(providers, n),
         NEW entry, NEW next, SmsLoop(nodes, entry, next),
         NEW said, said = SmsSaid(providers, n),
         NEW good, good = SmsGood(providers, n)
  PROVE  WellOrBadly(nodes, "smsProvider", entry, next, n, pos, said, good)
<1> DEFINE N == Len(nodes)
<1>1. N \in Nat
  OBVIOUS
<1> SUFFICES ASSUME NEW k \in 1..n
             PROVE  \/ k \in good /\ ReadWell(nodes, "smsProvider", entry, next, n,
                                              pos, said, k)
                    \/ k \notin good /\ ReadBadly(nodes, "smsProvider", entry, next, n,
                                                  pos, said, k)
  BY DEF WellOrBadly
<1> DEFINE a == pos[k]
           b == pos[k + 1]
           p == providers[k]
           g == a + 2 + One(p.spaced)
<1>2. SmsAt(nodes, a, g, b, p, k)
  BY SmsPlaces
<1>3. /\ p.spaced \in BOOLEAN /\ SmsFeatures(p.features)
      /\ IsFeatureEnabled(p.default) = (p.default # "false") <=> p.default # "1"
  BY DEF SmsShapes, SmsDefaults
<1>4. a \in 1..N /\ b - 1 \in 1..N
  BY <1>2 DEF SmsAt, SmsNumbers
<1>5. k = n => b = N + 1
  BY DEF Layout
<1>6. entry[a] = SmsEntry(nodes, a) /\ next[a] = LastSibling(nodes, SmsSet(nodes, a))
  BY <1>4 DEF SmsLoop
<1>7. said[k] = SmsProviderSaid(p, k)
  BY DEF SmsSaid
<1>8. k \in good <=> p.spaced /\ p.default # "1"
  BY Zenon DEF SmsGood
<1> HIDE DEF a, b, p, g
<1>9. /\ p.spaced /\ p.default # "1" => entry[a] = said[k] /\ next[a] = b - 1
      /\ ~(p.spaced /\ p.default # "1") => entry[a] # said[k]
  BY <1>2, <1>3, <1>6, <1>7, SmsProviderRead
<1>10. CASE k \in good
  <2>1. entry[a] = said[k] /\ next[a] = b - 1
    BY <1>8, <1>9, <1>10
  <2>2. ASSUME k = n PROVE ReadToFollowing(nodes, next[a], "smsProvider") > N
    <3>1. next[a] = N
      BY <1>1, <1>5, <2>1, <2>2
    <3>2. next[a] \in Nat /\ next[a] >= N
      BY <1>1, <3>1
    <3>3. QED
      BY <3>2, NothingBehind
  <2>3. QED
    BY <1>10, <2>1, <2>2 DEF ReadWell, a, b
<1>11. CASE k \notin good
  <2>1. entry[a] # said[k]
    BY <1>8, <1>9, <1>11
  <2>2. QED
    BY <1>11, <2>1 DEF ReadBadly, a
<1>12. QED
  BY <1>10, <1>11

(* The table of SMS providers of a document that is laid out so.           *)
LEMMA SmsProvidersRead ==
  ASSUME NEW X, NEW nodes \in Seq(X), NEW n \in Nat, n # 0,
         NEW spaced \in BOOLEAN, NEW parts, NEW pos,
         Layout(nodes, spaced, parts, n, pos),
         NEW providers, SmsShapes(parts, providers, n), SmsDefaults(providers, n),
         NEW entry, NEW next, SmsLoop(nodes, entry, next)
  PROVE  Table(nodes, "smsProvider", entry, next) = SmsSaid(providers, n)
         <=> spaced /\ \A k \in 1..n : k \in SmsGood(providers, n)
<1> DEFINE said == SmsSaid(providers, n)
           good == SmsGood(providers, n)
           e == "smsProvider"
<1>1. DOMAIN nodes = 1..Len(nodes)
  OBVIOUS
<1>2. WellOrBadly(nodes, e, entry, next, n, pos, said, good)
  BY SmsWellOrBadly
<1>3. ASSUME NEW p \in 1..Len(nodes) PROVE next[p] \in p..Len(nodes) + 1
  <2>1. next[p] = LastSibling(nodes, SmsSet(nodes, p))
    BY DEF SmsLoop
  <2>2. QED
    BY <2>1, SmsNextRange
<1>4. IsList(said, n)
  BY DEF IsList, SmsSaid
<1>5. ProviderParts(parts, n, e)
  <2> SUFFICES ASSUME NEW k \in 1..n
               PROVE  /\ 1 \in 1..Len(parts[k])
                      /\ parts[k][1].element = e /\ parts[k][1].provider = k
                      /\ \A m \in 1..Len(parts[k]) : parts[k][m].element = e => m = 1
    BY DEF ProviderParts
  <2>1. SmsShape(parts[k], providers[k], k)
    BY DEF SmsShapes
  <2>2. 1 \in 1..Len(parts[k])
    BY SmsPartLength
  <2>3. QED
    BY <2>1, <2>2 DEF SmsShape
<1>6. ASSUME NEW p \in 1..Len(nodes), nodes[p].provider # 1
      PROVE  entry[p] # said[1]
  <2>1. entry[p] = SmsEntry(nodes, p)
    BY DEF SmsLoop
  <2>2. SmsEntry(nodes, p).provider = nodes[p].provider
    BY DEF SmsEntry
  <2>3. 1 \in 1..n
    OBVIOUS
  <2>4. said[1] = SmsProviderSaid(providers[1], 1)
    BY <2>3 DEF SmsSaid
  <2>5. SmsProviderSaid(providers[1], 1).provider = 1
    BY DEF SmsProviderSaid
  <2> HIDE DEF said
  <2>6. QED
    BY <1>6, <2>1, <2>2, <2>4, <2>5
<1>7. e # "Space"
  OBVIOUS
<1> HIDE DEF said, good, e
<1>8. Table(nodes, e, entry, next) = said <=> spaced /\ \A k \in 1..n : k \in good
  BY <1>2, <1>3, <1>4, <1>5, <1>6, <1>7, TableAsSaid
<1>9. QED
  BY <1>8 DEF said, good, e

(* The table of SMS providers of every document.                           *)
LEMMA SmsTableRead ==
  ASSUME NEW d, DocumentOf(d, SmsProviders), NEW n, n = Len(d.providers)
  PROVE  SmsTable(d) = SmsSaid(d.providers, n)
         <=> d.spaced /\ \A k \in 1..n : k \in SmsGood(d.providers, n)
<1> DEFINE p == d.providers
           spaced == d.spaced
           nodes == SmsNodes(d)
           parts == [k \in 1..n |-> SmsPart(p[k], k)]
           X == {Node("Space", 0, "")} \cup UNION {SmsNodeSet(p[k], k) : k \in 1..n}
           entry == [i \in DOMAIN nodes |-> SmsEntry(nodes, i)]
           next == [i \in DOMAIN nodes |-> LastSibling(nodes, SmsSet(nodes, i))]
<1>1. n \in Nat /\ n # 0 /\ DOMAIN p = 1..n /\ \A k \in 1..n : p[k] \in SmsProviders
  BY DEF DocumentOf
<1>2. spaced \in BOOLEAN
  BY DEF DocumentOf
<1>3. IsList(parts, n)
  BY DEF IsList
<1>4. HasSpace(X)
  BY DEF HasSpace
<1>5. ASSUME NEW k \in 1..n
      PROVE  /\ parts[k] \in Seq(X) /\ SmsShape(parts[k], p[k], k)
             /\ p[k].spaced \in BOOLEAN /\ SmsFeatures(p[k].features)
             /\ IsFeatureEnabled(p[k].default) = (p[k].default # "false")
                <=> p[k].default # "1"
  <2>1. parts[k] = SmsPart(p[k], k)
    OBVIOUS
  <2>2. SmsNodeSet(p[k], k) \subseteq X
    OBVIOUS
  <2> HIDE DEF parts, X, p
  <2>3. /\ p[k].spaced \in BOOLEAN /\ SmsFeatures(p[k].features)
        /\ IsFeatureEnabled(p[k].default) = (p[k].default # "false")
           <=> p[k].default # "1"
    BY <1>1, SmsProviderFields
  <2>4. parts[k] \in Seq(SmsNodeSet(p[k], k)) /\ SmsShape(parts[k], p[k], k)
    BY <2>1, <2>3, SmsPartShape
  <2>5. parts[k] \in Seq(X)
    <3> DEFINE Y == SmsNodeSet(p[k], k)
               s == parts[k]
    <3>1. s \in Seq(Y) /\ Y \subseteq X
      BY <2>2, <2>4
    <3> HIDE DEF Y, s
    <3>2. s \in Seq(X)
      BY <3>1
    <3>3. QED
      BY <3>2 DEF s
  <2>6. QED
    BY <2>3, <2>4, <2>5
<1>6. AreParts(parts, n, X) /\ SmsShapes(parts, p, n) /\ SmsDefaults(p, n)
  <2> HIDE DEF parts, X, p
  <2> QED
    BY <1>5 DEF AreParts, SmsShapes, SmsDefaults
<1>7. nodes = Document(spaced, parts)
  BY <1>1 DEF SmsNodes
<1>8. SmsTable(d) = Table(nodes, "smsProvider", entry, next)
  BY DEF SmsTable
<1> HIDE DEF p, spaced, parts, X
<1>9. nodes \in Seq(X) /\ \E pos : Layout(nodes, spaced, parts, n, pos)
  BY <1>1, <1>2, <1>3, <1>4, <1>6, <1>7, PartsLayout
<1> HIDE DEF nodes
<1>10. SmsLoop(nodes, entry, next)
  <2>1. DOMAIN nodes = 1..Len(nodes)
    BY <1>9
  <2>2. QED
    BY <2>1 DEF SmsLoop
<1> HIDE DEF entry, next
<1>11. PICK pos : Layout(nodes, spaced, parts, n, pos)
  BY <1>9
<1>12. Table(nodes, "smsProvider", entry, next) = SmsSaid(p, n)
       <=> spaced /\ \A k \in 1..n : k \in SmsGood(p, n)
  BY <1>1, <1>2, <1>6, <1>9, <1>10, <1>11, SmsProvidersRead
<1>13. QED
  BY <1>8, <1>12 DEF p, spaced

(* Smsc reads the SMS providers of every document, of any length, as       *)
(* SmsReadAsSaid says.                                                     *)
THEOREM SmsReaderReadsAsSaid ==
  ASSUME NEW d, DocumentOf(d, SmsProviders)
  PROVE  SmsReadAsSaid(d)
<1> DEFINE p == d.providers
           n == Len(d.providers)
           said == [i \in 1..n |-> [provider |-> i, default |-> p[i].default # "false",
                                    features |-> [k \in DOMAIN p[i].features |->
                                                    <<i, p[i].features[k]>>],
                                    settings |-> <<i>>]]
           Readable == /\ d.spaced
                       /\ \A i \in 1..n : p[i].spaced /\ p[i].default # "1"
<1>1. SmsSaid(p, n) = said
  BY DEF SmsSaid, SmsProviderSaid
<1>2. SmsTable(d) = SmsSaid(p, n)
      <=> d.spaced /\ \A k \in 1..n : k \in SmsGood(p, n)
  BY SmsTableRead
<1>3. (\A k \in 1..n : k \in SmsGood(p, n))
      <=> \A i \in 1..n : p[i].spaced /\ p[i].default # "1"
  <2> HIDE DEF p, n
  <2> QED
    BY Zenon DEF SmsGood
<1>4. SmsReadAsSaid(d) <=> (SmsTable(d) = said <=> Readable)
  BY DEF SmsReadAsSaid
<1>5. QED
  BY <1>1, <1>2, <1>3, <1>4
=============================================================================
