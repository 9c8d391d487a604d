----------------------------- MODULE InputProofs ----------------------------
(***************************************************************************)
(* Proofs about the inputs that MCDeliveryLog begins with: the documents of *)
(* the three readers, by the theorems of ReaderProofs, and the references   *)
(* that AspsmsProvider makes numbers of, for an int of any width.           *)
(*                                                                         *)
(* ToInt adds up what the sixteen bytes are moved to (ToIntSums).  A change *)
(* of one summand changes every sum behind it (OneDiffers), so that two     *)
(* references with one byte different have the same number exactly if that  *)
(* byte is moved to the same (ShiftLeftSeparates); and between two bytes    *)
(* that have changed places the sums stay off by the same (TwoSwapped).     *)
(***************************************************************************)
EXTENDS MCDeliveryLog, ReaderProofs

-----------------------------------------------------------------------------
(* Remainders.  An int of range M holds what is left of a number modulo M. *)

(* A remainder is less than the divisor.                                   *)
LEMMA ModRange ==
  ASSUME NEW M \in Nat \ {0}, NEW x \in Nat
  PROVE  x % M \in 0..M - 1
OBVIOUS

(* A number that fits is kept.                                             *)
LEMMA ModOfSmall ==
  ASSUME NEW M \in Nat \ {0}, NEW x \in 0..M - 1
  PROVE  x % M = x
OBVIOUS

(* One that fits but for once the range is reduced by it.                  *)
LEMMA ModOnce ==
  ASSUME NEW M \in Nat \ {0}, NEW x \in M..2*M - 1
  PROVE  x % M = x - M
OBVIOUS

(* A number has one remainder,                                             *)
LEMMA ModUnique ==
  ASSUME NEW M \in Nat \ {0}, NEW q \in Nat, NEW r \in 0..M - 1
  PROVE  (M * q + r) % M = r
OBVIOUS

(* and a quotient.                                                         *)
LEMMA Divide ==
  ASSUME NEW M \in Nat \ {0}, NEW x \in Nat
  PROVE  \E q \in Nat : x = M * q + (x % M)
<1>1. x \div M \in Nat /\ x = M * (x \div M) + (x % M)
  OBVIOUS
<1>2. QED
  BY <1>1

(* What the width of an int cuts off when a byte is moved by seven halves. *)
LEMMA ModOfProduct ==
  ASSUME NEW B \in Nat \ {0}, NEW p \in Nat \ {0}, NEW v \in Nat
  PROVE  (v * p) % (B * p) = (v % B) * p
<1>1. PICK q \in Nat : v = B * q + (v % B)
  BY Divide
<1> DEFINE r == v % B
<1>2. r \in 0..B - 1
  BY ModRange
<1>3. v = B * q + r
  BY <1>1
<1> HIDE DEF r
<1>4. v * p = (B * p) * q + r * p
  <2>1. r \in Int
    BY <1>2
  <2>2. (B * q + r) * p = (B * p) * q + r * p
    BY <2>1
  <2>3. QED
    BY <1>3, <2>2
<1>5. B * p \in Nat \ {0}
  OBVIOUS
<1>6. r * p \in 0..B * p - 1
  <2>1. r + 1 <= B /\ r \in Nat
    BY <1>2
  <2>2. r * p \in Nat /\ (r + 1) * p <= B * p /\ (r + 1) * p = r * p + p
    BY <2>1
  <2>3. QED
    BY <2>2
<1> DEFINE M == B * p
           z == r * p
<1>7. (M * q + z) % M = z
  <2>1. M \in Nat \ {0} /\ z \in 0..M - 1
    BY <1>5, <1>6
  <2> HIDE DEF M, z
  <2>2. QED
    BY <2>1, ModUnique
<1>8. QED
  BY <1>4, <1>7 DEF r

(* The sum of two numbers in an int.                                       *)
Added(x, y, M) == IF x + y < M THEN x + y ELSE x + y - M

(* It is what an int holds of the sum.                                     *)
LEMMA ModOfSum ==
  ASSUME NEW M \in Nat \ {0}, NEW x \in 0..M - 1, NEW y \in 0..M - 1
  PROVE  (x + y) % M = Added(x, y, M) /\ Added(x, y, M) \in 0..M - 1
<1>1. CASE x + y < M
  <2>1. x + y \in 0..M - 1
    BY <1>1
  <2>2. QED
    BY <1>1, <2>1, ModOfSmall DEF Added
<1>2. CASE ~(x + y < M)
  <2>1. x + y \in M..2 * M - 1
    BY <1>2
  <2>2. QED
    BY <1>2, <2>1, ModOnce DEF Added
<1>3. QED
  BY <1>1, <1>2

(* Adding a number to two others keeps them apart.                         *)
LEMMA AddedCancels ==
  ASSUME NEW M \in Nat \ {0}, NEW x \in 0..M - 1, NEW y \in 0..M - 1,
         NEW c \in 0..M - 1
  PROVE  Added(x, c, M) = Added(y, c, M) <=> x = y
BY DEF Added

(* Adding two numbers to another keeps them apart.                         *)
LEMMA AddedOnLeft ==
  ASSUME NEW M \in Nat \ {0}, NEW x \in 0..M - 1, NEW y \in 0..M - 1,
         NEW c \in 0..M - 1
  PROVE  Added(c, x, M) = Added(c, y, M) <=> x = y
BY DEF Added

(* Two sums in an int may be taken in any order.                           *)
LEMMA AddedInAnyOrder ==
  ASSUME NEW M \in Nat \ {0}, NEW x \in 0..M - 1, NEW y \in 0..M - 1,
         NEW c \in 0..M - 1
  PROVE  Added(Added(x, c, M), y, M) = Added(Added(x, y, M), c, M)
BY DEF Added

-----------------------------------------------------------------------------
(* The powers of the values of half a byte.                                *)

(* A function that multiplies by B from each number to the next.           *)
Powers(f, B) ==
  /\ f[0] = 1
  /\ \A k \in 1..8 : f[k] = B * f[k - 1]

(* Power is such a function.                                               *)
LEMMA PowerExists == Powers(Power, Half)
<1> DEFINE D == 0..8
           S == Nat
           stop == {0}
           base == [k \in D |-> 1]
           rank == [k \in D |-> k]
           next == [k \in D |-> k - 1]
           step == [k \in D |-> [x \in S |-> Half * x]]
           Meets(f) == f = [k \in D |-> IF k = 0 THEN 1 ELSE Half * f[k - 1]]
<1>1. Half \in Nat
  BY HalfAssumption
<1>2. /\ rank \in [D -> 0..8] /\ base \in [D -> S] /\ step \in [D -> [S -> S]]
      /\ \A k \in D \ stop : next[k] \in D /\ rank[next[k]] < rank[k]
  BY <1>1
<1>3. \E f : Recursive(f, D, S, stop, base, next, step)
  <2> HIDE DEF D, S, stop, base, rank, next, step
  <2> QED
    BY <1>2, RecursionExists
<1>4. PICK f : Recursive(f, D, S, stop, base, next, step)
  BY <1>3
<1>5. Meets(f)
  <2>1. f \in [D -> S]
    BY <1>4 DEF Recursive
  <2>2. ASSUME NEW k \in D
        PROVE  f[k] = IF k = 0 THEN 1 ELSE Half * f[k - 1]
    <3>1. CASE k = 0
      BY <1>4, <3>1 DEF Recursive
    <3>2. CASE k # 0
      <4>1. f[k] = step[k][f[next[k]]]
        BY <1>4, <3>2 DEF Recursive
      <4>2. next[k] = k - 1 /\ k - 1 \in D
        BY <3>2
      <4>3. f[k - 1] \in S
        BY <2>1, <4>2
      <4>4. step[k][f[k - 1]] = Half * f[k - 1]
        BY <4>3
      <4>5. QED
        BY <3>2, <4>1, <4>2, <4>4
    <3>3. QED
      BY <3>1, <3>2
  <2>3. QED
    BY <2>1, <2>2
<1>6. Meets(Power)
  <2>1. Power = CHOOSE g : Meets(g)
    BY DEF Power
  <2> HIDE DEF Meets
  <2>2. QED
    BY <1>5, <2>1
<1>7. Power[0] = 1 /\ \A k \in 1..8 : Power[k] = Half * Power[k - 1]
  <2>1. \A k \in D : Power[k] = IF k = 0 THEN 1 ELSE Half * Power[k - 1]
    BY <1>6
  <2>2. QED
    BY <2>1
<1>8. QED
  BY <1>7 DEF Powers

(* Powers are numbers, and what a power lacks of the range of an int is a  *)
(* power, too.                                                             *)
LEMMA PowersMultiply ==
  ASSUME NEW B \in Nat \ {0}, NEW f, Powers(f, B)
  PROVE  /\ \A k \in 0..8 : f[k] \in Nat \ {0}
         /\ \A k \in 0..8 : f[k] * f[8 - k] = f[8]
<1>1. ASSUME NEW k \in 0..7 PROVE f[k + 1] = B * f[k]
  <2>1. k + 1 \in 1..8 /\ (k + 1) - 1 = k
    OBVIOUS
  <2>2. QED
    BY <2>1 DEF Powers
<1>2. f[0] = 1
  BY DEF Powers
<1> DEFINE T == {k \in 0..8 : f[k] \in Nat \ {0}}
<1>3. 0 \in T
  BY <1>2
<1>4. ASSUME NEW k \in 0..8 - 1, k \in T PROVE k + 1 \in T
  <2>1. f[k + 1] = B * f[k] /\ f[k] \in Nat \ {0}
    BY <1>1, <1>4
  <2>2. B * f[k] \in Nat \ {0}
    BY <2>1
  <2>3. QED
    BY <2>1, <2>2
<1>5. \A k \in 0..8 : k \in T
  <2> HIDE DEF T
  <2> QED
    BY <1>3, <1>4, Induction
<1>6. \A k \in 0..8 : f[k] \in Nat \ {0}
  BY <1>5
<1> DEFINE U == {k \in 0..8 : f[k] * f[8 - k] = f[8]}
<1>7. 0 \in U
  BY <1>2, <1>6
<1>8. ASSUME NEW k \in 0..8 - 1, k \in U PROVE k + 1 \in U
  <2>1. f[k + 1] = B * f[k]
    BY <1>1
  <2>2. 7 - k \in 0..7 /\ (7 - k) + 1 = 8 - k /\ 8 - (k + 1) = 7 - k
    OBVIOUS
  <2>3. f[8 - k] = B * f[7 - k]
    BY <1>1, <2>2
  <2>4. f[k] \in Nat /\ f[7 - k] \in Nat
    BY <1>6, <2>2
  <2>5. ASSUME NEW x \in Nat, NEW y \in Nat PROVE (B * x) * y = x * (B * y)
    OBVIOUS
  <2>6. f[k + 1] * f[7 - k] = f[k] * f[8 - k]
    BY <2>1, <2>3, <2>4, <2>5
  <2>7. QED
    BY <1>8, <2>2, <2>6
<1>9. \A k \in 0..8 : k \in U
  <2> HIDE DEF U
  <2> QED
    BY <1>7, <1>8, Induction
<1>10. QED
  BY <1>6, <1>9

(* The numbers that the proof of ToInt rests on.                           *)
LEMMA PowerIsNat ==
  /\ IntRange \in Nat \ {0} /\ \A k \in 0..8 : Power[k] \in Nat \ {0}
  /\ IntRange = Half * Power[7]
  /\ \A k \in 0..6 : Half * Half * Power[k] <= IntRange
<1>1. Half \in Nat \ {0}
  BY HalfAssumption
<1>2. /\ \A k \in 0..8 : Power[k] \in Nat \ {0}
      /\ \A k \in 0..8 : Power[k] * Power[8 - k] = Power[8]
  BY <1>1, PowerExists, PowersMultiply
<1>3. Power[0] = 1 /\ \A k \in 1..8 : Power[k] = Half * Power[k - 1]
  BY PowerExists DEF Powers
<1>4. IntRange \in Nat \ {0} /\ IntRange = Half * Power[7]
  BY <1>2, <1>3 DEF IntRange
<1>5. ASSUME NEW k \in 0..6 PROVE Half * Half * Power[k] <= IntRange
  <2>1. k + 1 \in 1..8 /\ k + 2 \in 1..8 /\ 8 - (k + 2) \in 0..8
        /\ (k + 2) - 1 = k + 1 /\ (k + 1) - 1 = k
    OBVIOUS
  <2>2. Power[k + 2] = Half * Power[k + 1] /\ Power[k + 1] = Half * Power[k]
    BY <1>3, <2>1
  <2>3. Power[k] \in Nat
    BY <1>2
  <2>4. Power[k + 2] = Half * Half * Power[k]
    BY <1>1, <2>2, <2>3
  <2>5. Power[k + 2] * Power[8 - (k + 2)] = Power[8]
    BY <1>2, <2>1
  <2>6. Power[k + 2] \in Nat /\ Power[8 - (k + 2)] \in Nat \ {0}
    BY <1>2, <2>1
  <2>7. ASSUME NEW x \in Nat, NEW y \in Nat \ {0} PROVE x <= x * y
    OBVIOUS
  <2>8. Power[k + 2] <= Power[8]
    BY <2>5, <2>6, <2>7
  <2>9. QED
    BY <2>4, <2>8 DEF IntRange
<1>6. QED
  BY <1>2, <1>4, <1>5

-----------------------------------------------------------------------------
(* Sums in an int.                                                         *)

(* sum adds up what is moved, byte after byte, in an int of range M.       *)
SumsUp(sum, moved, M) ==
  /\ sum[0] = 0
  /\ \A n \in 0..15 : /\ moved[n] \in 0..M - 1
                      /\ sum[n + 1] = Added(sum[n], moved[n], M)

(* They stay within the int.                                               *)
LEMMA SumsAreInts ==
  ASSUME NEW M \in Nat \ {0}, NEW sum, NEW moved, SumsUp(sum, moved, M)
  PROVE  \A n \in 0..16 : sum[n] \in 0..M - 1
<1> DEFINE T == {n \in 0..16 : sum[n] \in 0..M - 1}
<1>1. 0 \in T
  BY DEF SumsUp
<1>2. ASSUME NEW n \in 0..16 - 1, n \in T PROVE n + 1 \in T
  <2>1. n \in 0..15
    OBVIOUS
  <2>2. sum[n + 1] = Added(sum[n], moved[n], M) /\ moved[n] \in 0..M - 1
    BY <2>1 DEF SumsUp
  <2>3. sum[n + 1] \in 0..M - 1
    BY <1>2, <2>2, ModOfSum
  <2>4. QED
    BY <2>3
<1>3. \A n \in 0..16 : n \in T
  <2> HIDE DEF T
  <2> QED
    BY <1>1, <1>2, Induction
<1>4. QED
  BY <1>3

(* As long as the same is moved, sums that are equal at place a stay equal, *)
(* and sums that differ there keep differing.                              *)
LEMMA SumsStay ==
  ASSUME NEW M \in Nat \ {0},
         NEW sum, NEW moved, SumsUp(sum, moved, M),
         NEW other, NEW away, SumsUp(other, away, M),
         NEW a \in 0..16, NEW b \in a..16,
         \A n \in a..b - 1 : moved[n] = away[n]
  PROVE  sum[b] = other[b] <=> sum[a] = other[a]
<1> DEFINE N == b - a
           T == {m \in 0..N : sum[a + m] = other[a + m] <=> sum[a] = other[a]}
<1>1. N \in Nat /\ a + N = b
  OBVIOUS
<1>2. 0 \in T
  <2>1. a + 0 = a
    OBVIOUS
  <2>2. QED
    BY <1>1, <2>1
<1>3. ASSUME NEW m \in 0..N - 1, m \in T PROVE m + 1 \in T
  <2> DEFINE n == a + m
  <2>1. n \in a..b - 1 /\ n \in 0..15 /\ n \in 0..16 /\ n + 1 = a + (m + 1)
        /\ m + 1 \in 0..N
    BY <1>1
  <2> HIDE DEF n
  <2>2. moved[n] = away[n] /\ moved[n] \in 0..M - 1
    BY <2>1 DEF SumsUp
  <2>3. /\ sum[n + 1] = Added(sum[n], moved[n], M)
        /\ other[n + 1] = Added(other[n], moved[n], M)
    BY <2>1, <2>2 DEF SumsUp
  <2>4. sum[n] \in 0..M - 1 /\ other[n] \in 0..M - 1
    BY <2>1, SumsAreInts
  <2>5. sum[n + 1] = other[n + 1] <=> sum[n] = other[n]
    BY <2>2, <2>3, <2>4, AddedCancels
  <2>6. sum[n] = other[n] <=> sum[a] = other[a]
    BY <1>3 DEF n
  <2>7. QED
    BY <2>1, <2>5, <2>6
<1>4. \A m \in 0..N : m \in T
  <2> HIDE DEF T, N
  <2> QED
    BY <1>1, <1>2, <1>3, Induction
<1>5. N \in T
  BY <1>1, <1>4
<1>6. QED
  BY <1>1, <1>5

(* Sums of which one summand differs are different.                        *)
LEMMA OneDiffers ==
  ASSUME NEW M \in Nat \ {0},
         NEW sum, NEW moved, SumsUp(sum, moved, M),
         NEW other, NEW away, SumsUp(other, away, M),
         NEW i \in 0..15, \A n \in 0..15 : n # i => moved[n] = away[n]
  PROVE  sum[16] = other[16] <=> moved[i] = away[i]
<1>1. /\ 0 \in 0..16 /\ i \in 0..16 /\ i + 1 \in 0..16 /\ 16 \in i + 1..16
      /\ \A n \in 0..i - 1 : moved[n] = away[n]
      /\ \A n \in i + 1..16 - 1 : moved[n] = away[n]
  OBVIOUS
<1>2. sum[0] = other[0]
  BY DEF SumsUp
<1>3. sum[i] = other[i]
  BY <1>1, <1>2, SumsStay
<1>4. sum[16] = other[16] <=> sum[i + 1] = other[i + 1]
  BY <1>1, SumsStay
<1>5. /\ sum[i + 1] = Added(sum[i], moved[i], M) /\ moved[i] \in 0..M - 1
      /\ other[i + 1] = Added(other[i], away[i], M) /\ away[i] \in 0..M - 1
  BY DEF SumsUp
<1>6. sum[i] \in 0..M - 1
  BY <1>1, SumsAreInts
<1>7. sum[i + 1] = other[i + 1] <=> moved[i] = away[i]
  BY <1>3, <1>5, <1>6, AddedOnLeft
<1>8. QED
  BY <1>4, <1>7

(* other lacks of sum what is taken, and has what is given.                *)
OffBy(sum, other, n, taken, given, M) ==
  Added(sum[n], given, M) = Added(other[n], taken, M)

(* Adding to both keeps them off by the same.                              *)
LEMMA AddedKeepsOff ==
  ASSUME NEW M \in Nat \ {0}, NEW x \in 0..M - 1, NEW y \in 0..M - 1,
         NEW c \in 0..M - 1, NEW taken \in 0..M - 1, NEW given \in 0..M - 1,
         Added(x, given, M) = Added(y, taken, M)
  PROVE  Added(Added(x, c, M), given, M) = Added(Added(y, c, M), taken, M)
<1>1. Added(Added(x, c, M), given, M) = Added(Added(x, given, M), c, M)
  BY AddedInAnyOrder
<1>2. Added(Added(y, c, M), taken, M) = Added(Added(y, taken, M), c, M)
  BY AddedInAnyOrder
<1>3. QED
  BY <1>1, <1>2

(* Sums of which two summands have changed places are equal.               *)
LEMMA TwoSwapped ==
  ASSUME NEW M \in Nat \ {0},
         NEW sum, NEW moved, SumsUp(sum, moved, M),
         NEW other, NEW away, SumsUp(other, away, M),
         NEW i \in 0..7, NEW j, j = i + 8,
         moved[i] = away[j], moved[j] = away[i],
         \A n \in 0..15 : n # i /\ n # j => moved[n] = away[n]
  PROVE  sum[16] = other[16]
<1> DEFINE taken == moved[i]
           given == moved[j]
           T == {m \in 0..7 : OffBy(sum, other, i + 1 + m, taken, given, M)}
<1>1. /\ i \in 0..15 /\ j \in 0..15 /\ i \in 0..16 /\ j \in 0..16 /\ j + 1 \in 0..16
      /\ 0 \in 0..16 /\ 16 \in j + 1..16
      /\ \A n \in 0..i - 1 : moved[n] = away[n]
      /\ \A n \in j + 1..16 - 1 : moved[n] = away[n]
  OBVIOUS
<1>2. taken \in 0..M - 1 /\ given \in 0..M - 1 /\ away[i] = given /\ away[j] = taken
  BY <1>1 DEF SumsUp
<1>3. sum[i] = other[i] /\ sum[i] \in 0..M - 1
  <2>1. sum[0] = other[0]
    BY DEF SumsUp
  <2>2. /\ 0 \in 0..16 /\ i \in 0..16
        /\ \A n \in 0..i - 1 : moved[n] = away[n]
    BY <1>1
  <2>3. sum[i] = other[i]
    BY <2>1, <2>2, SumsStay
  <2>4. sum[i] \in 0..M - 1
    BY <2>2, SumsAreInts
  <2>5. QED
    BY <2>3, <2>4
<1>4. /\ sum[i + 1] = Added(sum[i], moved[i], M)
      /\ other[i + 1] = Added(other[i], away[i], M)
      /\ sum[j + 1] = Added(sum[j], moved[j], M)
      /\ other[j + 1] = Added(other[j], away[j], M)
  BY <1>1 DEF SumsUp
<1> HIDE DEF taken, given
<1>5. OffBy(sum, other, i + 1, taken, given, M)
  <2>1. sum[i + 1] = Added(sum[i], taken, M) /\ other[i + 1] = Added(sum[i], given, M)
    BY <1>2, <1>3, <1>4 DEF taken
  <2>2. QED
    BY <1>2, <1>3, <2>1, AddedInAnyOrder DEF OffBy
<1>6. 0 \in T
  <2>1. i + 1 + 0 = i + 1
    OBVIOUS
  <2>2. QED
    BY <1>5, <2>1
<1>7. ASSUME NEW m \in 0..7 - 1, m \in T PROVE m + 1 \in T
  <2> DEFINE n == i + 1 + m
  <2>1. n \in 0..15 /\ n \in 0..16 /\ n # i /\ n # j /\ n + 1 = i + 1 + (m + 1)
        /\ m + 1 \in 0..7
    OBVIOUS
  <2>2. OffBy(sum, other, n, taken, given, M)
    BY <1>7
  <2> HIDE DEF n
  <2>3. moved[n] = away[n] /\ moved[n] \in 0..M - 1
    BY <2>1 DEF SumsUp
  <2>4. /\ sum[n + 1] = Added(sum[n], moved[n], M)
        /\ other[n + 1] = Added(other[n], moved[n], M)
    BY <2>1, <2>3 DEF SumsUp
  <2>5. sum[n] \in 0..M - 1 /\ other[n] \in 0..M - 1
    BY <2>1, SumsAreInts
  <2>6. OffBy(sum, other, n + 1, taken, given, M)
    BY <1>2, <2>2, <2>3, <2>4, <2>5, AddedKeepsOff DEF OffBy
  <2>7. QED
    BY <2>1, <2>6
<1>8. \A m \in 0..7 : m \in T
  <2> HIDE DEF T
  <2> QED
    BY <1>6, <1>7, Induction
<1>9. OffBy(sum, other, j, taken, given, M)
  <2>1. i + 1 + 7 = j
    OBVIOUS
  <2>2. 7 \in T
    BY <1>8
  <2>3. QED
    BY <2>1, <2>2
<1>10. sum[j + 1] = other[j + 1]
  <2>1. sum[j + 1] = Added(sum[j], given, M) /\ other[j + 1] = Added(other[j], taken, M)
    BY <1>2, <1>4 DEF given
  <2>2. QED
    BY <1>9, <2>1 DEF OffBy
<1>11. /\ j + 1 \in 0..16 /\ 16 \in j + 1..16
       /\ \A n \in j + 1..16 - 1 : moved[n] = away[n]
  BY <1>1
<1>12. QED
  BY <1>10, <1>11, SumsStay

-----------------------------------------------------------------------------
(* The numbers of ToInt.                                                   *)

(* What is moved of each byte.                                             *)
Moved(guid) == [n \in Positions |-> ShiftLeft(guid[n], n)]

(* What is moved fits into an int.                                         *)
LEMMA ShiftLeftIsInt ==
  ASSUME NEW byte \in Nat, NEW halves \in Nat
  PROVE  ShiftLeft(byte, halves) \in 0..IntRange - 1
<1>1. halves % 8 \in 0..8
  OBVIOUS
<1>2. Power[halves % 8] \in Nat /\ IntRange \in Nat \ {0}
  BY <1>1, PowerIsNat
<1>3. byte * Power[halves % 8] \in Nat
  BY <1>2
<1>4. QED
  BY <1>2, <1>3, ModRange DEF ShiftLeft

(* Bytes that are moved by less than seven halves lose nothing.            *)
LEMMA NothingLost ==
  ASSUME NEW M \in Nat \ {0}, NEW B \in Nat \ {0}, NEW p \in Nat \ {0}, B * B * p <= M,
         NEW v \in 0..B * B - 1, NEW w \in 0..B * B - 1
  PROVE  (v * p) % M = (w * p) % M <=> v = w
<1>1. ASSUME NEW x \in 0..B * B - 1 PROVE x * p \in 0..M - 1
  <2>1. x + 1 <= B * B /\ x \in Nat /\ B * B \in Nat
    OBVIOUS
  <2>2. x * p \in Nat /\ (x + 1) * p = x * p + p
    BY <2>1
  <2>3. (x + 1) * p <= (B * B) * p
    <3> DEFINE c == B * B
    <3>1. x + 1 <= c /\ c \in Nat
      BY <2>1
    <3> HIDE DEF c
    <3>2. (x + 1) * p <= c * p
      BY <2>1, <3>1
    <3>3. QED
      BY <3>2 DEF c
  <2>4. QED
    BY <2>2, <2>3
<1>2. (v * p) % M = v * p /\ (w * p) % M = w * p
  BY <1>1, ModOfSmall
<1>3. v \in Nat /\ w \in Nat
  OBVIOUS
<1>4. v * p = w * p <=> v = w
  BY <1>3
<1>5. QED
  BY <1>2, <1>4

(* Two bytes are moved to the same number only if they are the same, or if *)
(* they lose their upper half and the lower one is the same.               *)
LEMMA ShiftLeftSeparates ==
  ASSUME NEW i \in Positions, NEW v \in ByteValues, NEW w \in ByteValues
  PROVE  ShiftLeft(v, i) = ShiftLeft(w, i)
         <=> \/ v = w
             \/ i \in {7, 15} /\ v % Half = w % Half
<1>1. Half \in Nat \ {0} /\ IntRange \in Nat \ {0}
  BY HalfAssumption, PowerIsNat
<1> DEFINE h == i % 8
           p == Power[h]
<1>2. h \in 0..7 /\ (h = 7 <=> i \in {7, 15}) /\ (h \in 0..6 \/ h = 7)
  BY DEF Positions
<1>3. p \in Nat \ {0}
  BY <1>2, PowerIsNat
<1>4. ShiftLeft(v, i) = (v * p) % IntRange /\ ShiftLeft(w, i) = (w * p) % IntRange
  BY DEF ShiftLeft
<1>5. v \in 0..Half * Half - 1 /\ w \in 0..Half * Half - 1
  BY DEF ByteValues
<1>6. v \in Nat /\ w \in Nat
  BY <1>1, <1>5
<1> HIDE DEF h
<1>7. CASE h \in 0..6
  <2>1. Half * Half * p <= IntRange
    BY <1>7, PowerIsNat
  <2> HIDE DEF p
  <2>2. (v * p) % IntRange = (w * p) % IntRange <=> v = w
    BY <1>1, <1>3, <1>5, <2>1, NothingLost
  <2>3. i \notin {7, 15}
    BY <1>2, <1>7
  <2>4. QED
    BY <1>4, <2>2, <2>3
<1>8. CASE h = 7
  <2>1. IntRange = Half * p
    BY <1>8, PowerIsNat
  <2> HIDE DEF p
  <2>2. /\ (v * p) % (Half * p) = (v % Half) * p
        /\ (w * p) % (Half * p) = (w % Half) * p
    BY <1>1, <1>3, <1>6, ModOfProduct
  <2>3. v % Half \in Nat /\ w % Half \in Nat
    BY <1>1, <1>6
  <2>4. ASSUME NEW x \in Nat, NEW y \in Nat PROVE x * p = y * p <=> x = y
    BY <1>3
  <2>5. (v % Half) * p = (w % Half) * p <=> v % Half = w % Half
    BY <2>3, <2>4
  <2>6. ShiftLeft(v, i) = ShiftLeft(w, i) <=> v % Half = w % Half
    BY <1>4, <2>1, <2>2, <2>5
  <2>7. i \in {7, 15}
    BY <1>2, <1>8
  <2>8. QED
    BY <2>6, <2>7
<1>9. QED
  BY <1>2, <1>7, <1>8

(* The loop of ToInt adds up what is moved.                                *)
LEMMA ToIntSums ==
  ASSUME NEW guid \in [Positions -> ByteValues]
  PROVE  \E sum : ToInt(guid) = sum[16] /\ SumsUp(sum, Moved(guid), IntRange)
<1> DEFINE M == IntRange
           moved == Moved(guid)
           D == 0..16
           S == 0..M - 1
           stop == {0}
           base == [n \in D |-> 0]
           rank == [n \in D |-> n]
           next == [n \in D |-> n - 1]
           step == [n \in D |-> [x \in S |-> (x + ShiftLeft(guid[n - 1], n - 1)) % M]]
           Meets(f) == f = [n \in D |->
                              IF n = 0 THEN 0
                              ELSE (f[n - 1] + ShiftLeft(guid[n - 1], n - 1)) % M]
<1>1. M \in Nat \ {0} /\ 0 \in S
  BY PowerIsNat
<1>2. ASSUME NEW n \in 0..15 PROVE ShiftLeft(guid[n], n) \in S
  <2>1. guid[n] \in Nat /\ n \in Nat
    BY HalfAssumption DEF Positions, ByteValues
  <2>2. ShiftLeft(guid[n], n) \in 0..IntRange - 1
    BY <2>1, ShiftLeftIsInt
  <2>3. QED
    BY <2>2
<1> HIDE DEF M
<1>3. ASSUME NEW x \in S, NEW y \in S PROVE (x + y) % M \in S
  <2>1. x + y \in Nat
    BY <1>1
  <2>2. QED
    BY <1>1, <2>1, ModRange
<1>4. /\ rank \in [D -> 0..16] /\ base \in [D -> S]
      /\ \A n \in D \ stop : next[n] \in D /\ rank[next[n]] < rank[n]
  BY <1>1
<1>5. \E f : Recursive(f, D, S, stop, base, next,
                       [n \in D |-> [x \in S |-> IF n = 0 THEN x ELSE step[n][x]]])
  <2> DEFINE go == [n \in D |-> [x \in S |-> IF n = 0 THEN x ELSE step[n][x]]]
  <2>1. ASSUME NEW n \in D, NEW x \in S
        PROVE  (IF n = 0 THEN x ELSE step[n][x]) \in S
    <3>1. CASE n = 0
      BY <3>1
    <3>2. CASE n # 0
      <4>1. n - 1 \in 0..15
        BY <3>2
      <4>2. step[n][x] = (x + ShiftLeft(guid[n - 1], n - 1)) % M
        OBVIOUS
      <4>3. QED
        BY <1>2, <1>3, <3>2, <4>1, <4>2
    <3>3. QED
      BY <3>1, <3>2
  <2> HIDE DEF step
  <2>2. go \in [D -> [S -> S]]
    BY <2>1
  <2> HIDE DEF D, S, stop, base, rank, next, go
  <2>3. QED
    BY <1>4, <2>2, RecursionExists DEF go
<1>6. PICK f : Recursive(f, D, S, stop, base, next,
                       [n \in D |-> [x \in S |-> IF n = 0 THEN x ELSE step[n][x]]])
  BY <1>5
<1>7. Meets(f)
  <2>1. f \in [D -> S]
    BY <1>6 DEF Recursive
  <2>2. ASSUME NEW n \in D
        PROVE  f[n] = IF n = 0 THEN 0
                      ELSE (f[n - 1] + ShiftLeft(guid[n - 1], n - 1)) % M
    <3>1. CASE n = 0
      BY <1>6, <3>1 DEF Recursive
    <3>2. CASE n # 0
      <4>1. n - 1 \in D /\ next[n] = n - 1
        BY <3>2
      <4>2. f[n - 1] \in S
        BY <2>1, <4>1
      <4>3. f[n] = step[n][f[n - 1]]
        BY <1>6, <3>2, <4>1, <4>2 DEF Recursive
      <4>4. QED
        BY <3>2, <4>2, <4>3
    <3>3. QED
      BY <3>1, <3>2
  <2>3. QED
    BY <2>1, <2>2
<1> DEFINE g == CHOOSE h : Meets(h)
<1>8. Meets(g)
  <2> HIDE DEF Meets
  <2> QED
    BY <1>7
<1>9. ToInt(guid) = g[16]
  BY DEF ToInt, M
<1> HIDE DEF g
<1>10. \A n \in D : g[n] = IF n = 0 THEN 0
                          ELSE (g[n - 1] + ShiftLeft(guid[n - 1], n - 1)) % M
  BY <1>8
<1>11. g[0] = 0
  BY <1>10
<1>12. ASSUME NEW n \in 0..15
       PROVE  g[n + 1] = (g[n] + moved[n]) % M /\ moved[n] \in S
  <2>1. n + 1 \in D /\ n + 1 # 0 /\ (n + 1) - 1 = n
    OBVIOUS
  <2>2. g[n + 1] = (g[n] + ShiftLeft(guid[n], n)) % M
    BY <1>10, <2>1
  <2>3. moved[n] = ShiftLeft(guid[n], n)
    BY DEF Moved, Positions
  <2>4. QED
    BY <1>2, <2>2, <2>3
<1> HIDE DEF moved
<1> DEFINE T == {n \in 0..16 : g[n] \in S}
<1>13. 0 \in T
  BY <1>1, <1>11
<1>14. ASSUME NEW n \in 0..16 - 1, n \in T PROVE n + 1 \in T
  <2>1. n \in 0..15 /\ n + 1 \in 0..16 /\ g[n] \in S
    BY <1>14
  <2>2. g[n + 1] = (g[n] + moved[n]) % M /\ moved[n] \in S
    BY <1>12, <2>1
  <2> HIDE DEF S
  <2>3. g[n + 1] \in S
    BY <1>3, <2>1, <2>2
  <2>4. QED
    BY <2>1, <2>3
<1>15. \A n \in 0..16 : n \in T
  <2> HIDE DEF T
  <2> QED
    BY <1>13, <1>14, Induction
<1>16. ASSUME NEW n \in 0..15
       PROVE  moved[n] \in 0..M - 1 /\ g[n + 1] = Added(g[n], moved[n], M)
  <2>1. g[n] \in S
    BY <1>15
  <2>2. QED
    BY <1>1, <1>12, <2>1, ModOfSum
<1>17. SumsUp(g, moved, M)
  BY <1>11, <1>16 DEF SumsUp
<1>18. QED
  BY <1>9, <1>17 DEF moved, M

(* The numbers that Aspsms gets for any reference and the ones near it are  *)
(* as SeparatedByToInt says, in an int of any width.                       *)
THEOREM ToIntSeparatesAll ==
  ASSUME NEW guid \in [Positions -> ByteValues]
  PROVE  SeparatedByToInt(guid)
<1> DEFINE M == IntRange
           moved == Moved(guid)
<1>1. M \in Nat \ {0}
  BY PowerIsNat
<1>2. PICK sum : ToInt(guid) = sum[16] /\ SumsUp(sum, moved, M)
  BY ToIntSums
<1>3. ASSUME NEW i \in Positions, NEW v \in ByteValues
      PROVE  ToInt([guid EXCEPT ![i] = v]) = ToInt(guid) <=> Same(guid, i, v)
  <2> DEFINE other == [guid EXCEPT ![i] = v]
             away == Moved(other)
  <2>1. other \in [Positions -> ByteValues]
    OBVIOUS
  <2>2. /\ moved[i] = ShiftLeft(guid[i], i) /\ away[i] = ShiftLeft(v, i)
        /\ \A n \in 0..15 : n # i => moved[n] = away[n]
    BY DEF Moved, Positions
  <2>3. guid[i] \in ByteValues
    OBVIOUS
  <2> HIDE DEF other, moved
  <2>4. PICK t : ToInt(other) = t[16] /\ SumsUp(t, away, M)
    BY <2>1, ToIntSums
  <2> HIDE DEF away, M
  <2>5. i \in 0..15
    BY DEF Positions
  <2>6. sum[16] = t[16] <=> moved[i] = away[i]
    BY <1>1, <1>2, <2>2, <2>4, <2>5, OneDiffers
  <2>7. moved[i] = away[i]
        <=> \/ v = guid[i]
            \/ i \in {7, 15} /\ v % Half = guid[i] % Half
    BY <2>2, <2>3, ShiftLeftSeparates
  <2>8. ToInt(other) = ToInt(guid) <=> Same(guid, i, v)
    BY <1>2, <2>4, <2>6, <2>7 DEF Same
  <2>9. QED
    BY <2>8 DEF other
<1>4. ASSUME NEW i \in 0..7
      PROVE  ToInt([guid EXCEPT ![i] = guid[i + 8], ![i + 8] = guid[i]])
             = ToInt(guid)
  <2> DEFINE j == i + 8
             other == [guid EXCEPT ![i] = guid[j], ![j] = guid[i]]
             away == Moved(other)
  <2>1. i \in 0..15 /\ j \in 0..15 /\ i # j /\ i % 8 = j % 8
    OBVIOUS
  <2> HIDE DEF j
  <2>2. /\ other \in [Positions -> ByteValues]
        /\ other[i] = guid[j] /\ other[j] = guid[i]
        /\ \A n \in 0..15 : n # i /\ n # j => other[n] = guid[n]
    BY <2>1 DEF Positions
  <2> HIDE DEF other, moved
  <2>3. /\ \A n \in 0..15 : moved[n] = ShiftLeft(guid[n], n)
        /\ \A n \in 0..15 : away[n] = ShiftLeft(other[n], n)
    BY DEF Moved, Positions, moved
  <2>4. /\ moved[i] = away[j] /\ moved[j] = away[i]
        /\ \A n \in 0..15 : n # i /\ n # j => moved[n] = away[n]
    <3> HIDE DEF away
    <3>1. ASSUME NEW byte PROVE ShiftLeft(byte, i) = ShiftLeft(byte, j)
      BY <2>1 DEF ShiftLeft
    <3>2. QED
      BY <2>1, <2>2, <2>3, <3>1
  <2>5. PICK t : ToInt(other) = t[16] /\ SumsUp(t, away, M)
    BY <2>2, ToIntSums
  <2> HIDE DEF away, M
  <2>6. sum[16] = t[16]
    BY <1>1, <1>2, <2>4, <2>5, TwoSwapped DEF j
  <2>7. QED
    BY <1>2, <2>5, <2>6 DEF other, j
<1>5. QED
  BY <1>3, <1>4 DEF SeparatedByToInt

-----------------------------------------------------------------------------
(* The inputs of a behaviour.                                              *)
InputInv == input = NoInput \/ input \in Inputs

(* A document of a bounded number of providers is one of any number.       *)
LEMMA DocumentFits ==
  ASSUME NEW Described, NEW m \in Nat,
         NEW d \in [spaced : BOOLEAN, providers : SeqOf(Described, m) \ {<<>>}]
  PROVE  DocumentOf(d, Described)
<1>1. PICK k \in 0..m : d.providers \in [1..k -> Described]
  BY DEF SeqOf
<1>2. d.providers \in Seq(Described)
  BY <1>1
<1>3. d.spaced \in BOOLEAN /\ d.providers # <<>>
  OBVIOUS
<1>4. QED
  BY <1>2, <1>3 DEF DocumentOf

(* The references to vary are sixteen bytes.                               *)
LEMMA GuidFits ==
  ASSUME NEW guid \in Guids
  PROVE  guid \in [Positions -> ByteValues]
<1>1. PICK a \in {0, 1}, b \in ByteValues :
        guid = [i \in Positions |-> (a * i + b) % (Half * Half)]
  BY DEF Guids
<1>2. Half * Half \in Nat \ {0}
  BY HalfAssumption
<1>3. ASSUME NEW i \in Positions
      PROVE  (a * i + b) % (Half * Half) \in ByteValues
  <2>1. a * i + b \in Nat
    BY <1>2 DEF Positions, ByteValues
  <2> DEFINE M == Half * Half
             x == a * i + b
  <2>2. M \in Nat \ {0} /\ x \in Nat
    BY <1>2, <2>1
  <2> HIDE DEF M, x
  <2>3. x % M \in 0..M - 1
    BY <2>2, ModRange
  <2>4. QED
    BY <2>3 DEF ByteValues, M, x
<1>4. QED
  BY <1>1, <1>3

(* The inputs are documents of the kinds that ReaderProofs is about, or     *)
(* references of sixteen bytes.                                            *)
LEMMA InputsFit ==
  ASSUME InputInv
  PROVE  /\ input.kind = "LogProviders" => DocumentOf(input.value, LogProviders)
         /\ input.kind = "SmsProviders" => DocumentOf(input.value, SmsProviders)
         /\ input.kind = "QueueProviders" => DocumentOf(input.value, QueueProviders)
         /\ input.kind = "Guid" => input.value \in [Positions -> ByteValues]
<1>1. CASE input = NoInput
  BY <1>1 DEF NoInput
<1>2. CASE input \in [kind : {"LogProviders"}, value : LogDocuments]
  <2>1. DocumentOf(input.value, LogProviders)
    BY <1>2, DocumentFits, ConfigurationAssumption DEF LogDocuments
  <2>2. input.kind = "LogProviders"
    BY <1>2
  <2>3. QED
    BY <2>1, <2>2
<1>3. CASE input \in [kind : {"SmsProviders"}, value : SmsDocuments]
  <2>1. DocumentOf(input.value, SmsProviders)
    BY <1>3, DocumentFits, ConfigurationAssumption DEF SmsDocuments
  <2>2. input.kind = "SmsProviders"
    BY <1>3
  <2>3. QED
    BY <2>1, <2>2
<1>4. CASE input \in [kind : {"QueueProviders"}, value : QueueDocuments]
  <2>1. DocumentOf(input.value, QueueProviders)
    BY <1>4, DocumentFits, ConfigurationAssumption DEF QueueDocuments
  <2>2. input.kind = "QueueProviders"
    BY <1>4
  <2>3. QED
    BY <2>1, <2>2
<1>5. CASE input \in [kind : {"Guid"}, value : Guids]
  <2>1. input.value \in [Positions -> ByteValues]
    BY <1>5, GuidFits
  <2>2. input.kind = "Guid"
    BY <1>5
  <2>3. QED
    BY <2>1, <2>2
<1>6. QED
  BY <1>1, <1>2, <1>3, <1>4, <1>5 DEF InputInv, Inputs

(* What is read of each input is what the invariants of the run say.       *)
LEMMA InputsAsSaid ==
  ASSUME InputInv
  PROVE  LogReaderExact /\ SmsReaderExact /\ QueueReaderExact /\ ToIntSeparates
<1>1. LogReaderExact
  BY InputsFit, LogReaderReadsAsSaid DEF LogReaderExact
<1>2. SmsReaderExact
  BY InputsFit, SmsReaderReadsAsSaid DEF SmsReaderExact
<1>3. QueueReaderExact
  BY InputsFit, QueueReaderReadsAsSaid DEF QueueReaderExact
<1>4. ToIntSeparates
  BY InputsFit, ToIntSeparatesAll DEF ToIntSeparates
<1>5. QED
  BY <1>1, <1>2, <1>3, <1>4

(* An input is looked at in the first state only.                          *)
LEMMA SpecInputInv == MCSpec => []InputInv
<1>1. MCInit => InputInv
  BY DEF MCInit, InputInv
<1>2. InputInv /\ [MCNext]_<<vars, input>> => InputInv'
  <2> SUFFICES ASSUME InputInv, [MCNext]_<<vars, input>> PROVE InputInv'
    OBVIOUS
  <2>1. input' = NoInput \/ input' = input
    <3>1. CASE Construct
      BY <3>1 DEF Construct
    <3>2. CASE input = NoInput /\ Next /\ UNCHANGED input
      BY <3>2
    <3>3. CASE UNCHANGED <<vars, input>>
      BY <3>3
    <3>4. QED
      BY <3>1, <3>2, <3>3 DEF MCNext
  <2>2. CASE input' = NoInput
    BY <2>2 DEF InputInv, NoInput
  <2>3. CASE input' = input
    BY <2>3 DEF InputInv, Inputs, NoInput
  <2>4. QED
    BY <2>1, <2>2, <2>3
<1>3. QED
  BY <1>1, <1>2, PTL DEF MCSpec

(* BaseSmsc reads the log providers of a document that the behaviours begin *)
(* with as it says if LogReadAsSaid names the document, and of no other,    *)
(* however many providers there may be in one.                             *)
THEOREM SpecLogReaderExact == MCSpec => []LogReaderExact
BY SpecInputInv, InputsAsSaid, PTL

(* Smsc reads the SMS providers of a document as it says if SmsReadAsSaid   *)
(* names it, and of no other.                                              *)
THEOREM SpecSmsReaderExact == MCSpec => []SmsReaderExact
BY SpecInputInv, InputsAsSaid, PTL

(* Smsc accepts the queue providers of a document that QueueReadAsSaid      *)
(* names exactly if they are unambiguous.                                  *)
THEOREM SpecQueueReaderExact == MCSpec => []QueueReaderExact
BY SpecInputInv, InputsAsSaid, PTL

(* The numbers that Aspsms gets tell two references apart as                *)
(* SeparatedByToInt says, whatever the width of an int.                     *)
THEOREM SpecToIntSeparates == MCSpec => []ToIntSeparates
BY SpecInputInv, InputsAsSaid, PTL
-----------------------------------------------------------------------------
(* The run's specification and DeliveryLog's.                              *)

(* Sequences of the names of log providers that name none twice.           *)
LEMMA NamedOnce ==
  ASSUME NEW n \in Nat, NEW f, f \in [1..n -> LogNames], IsInjective(f)
  PROVE  f \in {<<>>, <<"TextLogger">>, <<"SqlServerLogger">>,
                <<"TextLogger", "SqlServerLogger">>,
                <<"SqlServerLogger", "TextLogger">>}
<1>1. \A i, j \in 1..n : f[i] = f[j] => i = j
  BY DEF IsInjective
<1>2. \A i \in 1..n : f[i] = "TextLogger" \/ f[i] = "SqlServerLogger"
  BY DEF LogNames
<1>3. n \in {0, 1, 2}
  <2>1. SUFFICES ASSUME 1 \in 1..n, 2 \in 1..n, 3 \in 1..n PROVE FALSE
    OBVIOUS
  <2>2. f[1] # f[2] /\ f[1] # f[3] /\ f[2] # f[3]
    BY <1>1, <2>1
  <2>3. QED
    BY <1>2, <2>1, <2>2
<1>4. CASE n = 0
  BY <1>4
<1>5. CASE n = 1
  <2>1. 1 \in 1..n
    BY <1>5
  <2>2. f[1] = "TextLogger" \/ f[1] = "SqlServerLogger"
    BY <1>2, <2>1
  <2>3. f = <<f[1]>>
    BY <1>5
  <2>4. QED
    BY <2>2, <2>3, Zenon
<1>6. CASE n = 2
  <2>1. 1 \in 1..n /\ 2 \in 1..n
    BY <1>6
  <2>2. /\ f[1] = "TextLogger" \/ f[1] = "SqlServerLogger"
        /\ f[2] = "TextLogger" \/ f[2] = "SqlServerLogger"
        /\ f[1] # f[2]
    BY <1>1, <1>2, <2>1
  <2>3. f = <<f[1], f[2]>>
    BY <1>6
  <2>4. QED
    BY <2>2, <2>3, Zenon
<1>7. QED
  BY <1>3, <1>4, <1>5, <1>6

(* What the configuration loads as log handlers, from documents with any    *)
(* number of providers, is what DeliveryLog assumes of HandlerLists: a      *)
(* document that names a provider twice is refused (BaseSmsc.cs:86).  *)
THEOREM LoadedHandlersAsAssumed ==
  LoadedHandlers \subseteq
    {<<>>, <<"TextLogger">>, <<"SqlServerLogger">>,
     <<"TextLogger", "SqlServerLogger">>, <<"SqlServerLogger", "TextLogger">>}
<1>1. SUFFICES ASSUME NEW d \in LogDocuments, LogAccepted(d)
               PROVE  [i \in DOMAIN LogTable(d) |-> LogTable(d)[i].name] \in
                        {<<>>, <<"TextLogger">>, <<"SqlServerLogger">>,
                         <<"TextLogger", "SqlServerLogger">>,
                         <<"SqlServerLogger", "TextLogger">>}
  BY DEF LoadedHandlers
<1> DEFINE t == LogTable(d)
           f == [i \in DOMAIN t |-> t[i].name]
           n == Len(t)
<1>2. DocumentOf(d, LogProviders)
  BY DocumentFits, ConfigurationAssumption DEF LogDocuments
<1>3. /\ n \in Nat /\ DOMAIN t = 1..n
      /\ \A i \in DOMAIN t : t[i].name \in LogNames
  BY <1>2, LogTableNames
<1>4. IsInjective(f)
  BY <1>1 DEF LogAccepted
<1>5. f \in [1..n -> LogNames]
  <2> HIDE DEF t, n
  <2> QED
    BY <1>3
<1> HIDE DEF n, f
<1>6. f \in {<<>>, <<"TextLogger">>, <<"SqlServerLogger">>,
             <<"TextLogger", "SqlServerLogger">>,
             <<"SqlServerLogger", "TextLogger">>}
  BY <1>3, <1>4, <1>5, NamedOnce
<1>7. QED
  BY <1>6 DEF f

(* After the input that it begins with, a behaviour of the run is one of    *)
(* DeliveryLog, so that what is proved of DeliveryLog holds of the run.     *)
THEOREM RunImplementsDeliveryLog == MCSpec => Spec
<1>1. MCInit => Init
  BY DEF MCInit
<1>2. [MCNext]_<<vars, input>> => [Next]_vars
  BY DEF MCNext, Construct
<1>3. QED
  BY <1>1, <1>2, PTL DEF MCSpec, Spec
=============================================================================
