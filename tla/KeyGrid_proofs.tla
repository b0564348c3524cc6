--------------------------- MODULE KeyGrid_proofs ---------------------------
(***************************************************************************)
(* Whatever configuration is loaded and however the grid is edited and     *)
(* drawn: every index is within its array, the lists show the grid, a      *)
(* click finds the key drawn under it, the exit button can be reached, and *)
(* the grid survives a restart.                                            *)
(***************************************************************************)
EXTENDS KeyGrid, FiniteSetTheorems, SequenceTheorems, WellFoundedInduction, TLAPS

USE DEF Dims

-----------------------------------------------------------------------------
(* Counting up.                                                            *)

LEMMA Least ==
  ASSUME NEW T \in SUBSET Nat, T # {}
  PROVE  \E x \in T : \A y \in T : x <= y
<1>1. PICK x \in T : \A y \in T : <<y, x>> \notin OpToRel(<, Nat)
  BY NatLessThanWellFounded, WFMin
<1>2. \A y \in T : ~(y < x)
  BY <1>1 DEF OpToRel
<1> QED BY <1>2

\* A set that has 0 and the successors of its members, up to n, has them all.
LEMMA CountUp ==
  ASSUME NEW n \in Nat, NEW T, 0 \in T,
         \A i \in 1..n : i - 1 \in T => i \in T
  PROVE  0..n \subseteq T
<1> SUFFICES ASSUME NEW k \in 0..n, k \notin T PROVE FALSE
  OBVIOUS
<1>1. PICK x \in (0..n) \ T : \A y \in (0..n) \ T : x <= y
  <2> DEFINE U == (0..n) \ T
  <2>1. U \in SUBSET Nat /\ U # {}
    OBVIOUS
  <2> HIDE DEF U
  <2>2. PICK x \in U : \A y \in U : x <= y
    BY <2>1, Least
  <2> QED BY <2>2 DEF U
<1>2. x \in 1..n /\ x - 1 \in 0..n
  BY <1>1
<1>3. x - 1 \in T
  BY <1>1, <1>2
<1> QED BY <1>1, <1>2, <1>3

-----------------------------------------------------------------------------
(* Sequences.                                                              *)

LEMMA Elements ==
  ASSUME NEW S, NEW q \in Seq(S)
  PROVE  Len(q) \in Nat /\ \A i \in 1..Len(q) : q[i] \in S
  OBVIOUS

LEMMA AppendedAt ==
  ASSUME NEW S, NEW q \in Seq(S), NEW x \in S, NEW n \in Nat, Len(q) = n - 1
  PROVE  /\ Len(Append(q, x)) = n /\ Append(q, x)[n] = x
         /\ \A i \in 1..(n - 1) : Append(q, x)[i] = q[i]
<1>1. n = Len(q) + 1
  OBVIOUS
<1> QED BY <1>1, AppendProperties

LEMMA SequenceOf ==
  ASSUME NEW S, NEW n \in Nat, NEW f \in [1..n -> S]
  PROVE  f \in Seq(S) /\ Len(f) = n
  OBVIOUS

LEMMA WiderSequence ==
  ASSUME NEW S, NEW W, S \subseteq W, NEW q \in Seq(S)
  PROVE  q \in Seq(W)
<1>1. Len(q) \in Nat /\ q \in [1..Len(q) -> S]
  OBVIOUS
<1>2. q \in [1..Len(q) -> W]
  BY <1>1
<1> QED BY <1>1, <1>2, SequenceOf

-----------------------------------------------------------------------------
(* Sums.                                                                   *)

\* f[i] is the sum of the first i elements of s, for i up to n.
Sums(s, n, f) ==
  /\ f \in [0..n -> Int] /\ f[0] = 0
  /\ \A i \in 1..n : f[i] = f[i - 1] + s[i]

LEMMA SumsExist ==
  ASSUME NEW s \in Seq(Int)
  PROVE  \E f : Sums(s, Len(s), f)
<1> DEFINE n == Len(s)
           T == {i \in 0..n : \E f : Sums(s, i, f)}
<1>1. n \in Nat
  OBVIOUS
<1>2. 0 \in T
  <2> DEFINE f == [j \in 0..0 |-> 0]
  <2>1. Sums(s, 0, f)
    BY DEF Sums
  <2> HIDE DEF f
  <2> QED BY <1>1, <2>1
<1>3. ASSUME NEW i \in 1..n, i - 1 \in T PROVE i \in T
  <2>1. PICK f : Sums(s, i - 1, f)
    BY <1>3
  <2> DEFINE g == [j \in 0..i |-> IF j = i THEN f[i - 1] + s[i] ELSE f[j]]
  <2>2. s[i] \in Int /\ f[i - 1] \in Int
    BY <1>1, <2>1 DEF Sums
  <2>3. g \in [0..i -> Int] /\ g[0] = 0
    BY <1>1, <2>1, <2>2 DEF Sums
  <2>4. \A j \in 1..i : g[j] = g[j - 1] + s[j]
    BY <1>1, <2>1 DEF Sums
  <2>5. Sums(s, i, g)
    BY <2>3, <2>4 DEF Sums
  <2> HIDE DEF g
  <2> QED BY <1>1, <2>5
<1> HIDE DEF T, n
<1>4. 0..n \subseteq T
  BY <1>1, <1>2, <1>3, CountUp
<1>5. n \in T
  BY <1>1, <1>4
<1> QED BY <1>5 DEF T, n

LEMMA SumsUnique ==
  ASSUME NEW s, NEW n \in Nat, NEW k \in 0..n, NEW f, NEW g,
         Sums(s, n, f), Sums(s, k, g)
  PROVE  \A i \in 0..k : g[i] = f[i]
<1> DEFINE T == {i \in 0..k : g[i] = f[i]}
<1>1. 0 \in T
  BY DEF Sums
<1>2. ASSUME NEW i \in 1..k, i - 1 \in T PROVE i \in T
  BY <1>2 DEF Sums
<1> HIDE DEF T
<1>3. 0..k \subseteq T
  BY <1>1, <1>2, CountUp
<1> QED BY <1>3 DEF T

LEMMA TotalIs ==
  ASSUME NEW s \in Seq(Int), NEW f, Sums(s, Len(s), f)
  PROVE  Total(s) = f[Len(s)]
<1> DEFINE n == Len(s)
           Body(h) == [i \in 0..n |-> IF i = 0 THEN 0 ELSE h[i - 1] + s[i]]
           sum == CHOOSE h : h = Body(h)
<1>1. n \in Nat
  OBVIOUS
<1>2. f = Body(f)
  <2>1. \A i \in 0..n : f[i] = Body(f)[i]
    BY <1>1 DEF Sums
  <2>2. f \in [0..n -> Int]
    BY DEF Sums
  <2> QED BY <2>1, <2>2
<1>3. sum = Body(sum)
  BY <1>2
<1>4. Total(s) = sum[n]
  BY DEF Total
<1> HIDE DEF sum
<1> DEFINE T == {i \in 0..n : sum[i] = f[i]}
<1>5. \A i \in 0..n : sum[i] = IF i = 0 THEN 0 ELSE sum[i - 1] + s[i]
  BY <1>3
<1>6. 0 \in T
  BY <1>1, <1>5 DEF Sums
<1>7. ASSUME NEW i \in 1..n, i - 1 \in T PROVE i \in T
  BY <1>1, <1>5, <1>7 DEF Sums
<1> HIDE DEF T, n
<1>8. 0..n \subseteq T
  BY <1>1, <1>6, <1>7, CountUp
<1>9. n \in T
  BY <1>1, <1>8
<1> QED BY <1>4, <1>9 DEF T, n

LEMMA PrefixTotal ==
  ASSUME NEW s \in Seq(Int), NEW f, Sums(s, Len(s), f), NEW k \in 0..Len(s)
  PROVE  Total(SubSeq(s, 1, k)) = f[k]
<1> DEFINE q == SubSeq(s, 1, k)
<1>1. q \in Seq(Int) /\ Len(q) = k /\ \A i \in 1..k : q[i] = s[i]
  BY SubSeqProperties
<1> HIDE DEF q
<1>2. PICK g : Sums(q, k, g)
  BY <1>1, SumsExist
<1>3. Sums(s, k, g)
  BY <1>1, <1>2 DEF Sums
<1>4. g[k] = f[k]
  BY <1>3, SumsUnique
<1>5. Total(q) = g[k]
  BY <1>1, <1>2, TotalIs
<1> QED BY <1>4, <1>5 DEF q

\* Sums of natural numbers grow.
LEMMA SumsGrow ==
  ASSUME NEW s, NEW n \in Nat, NEW f, Sums(s, n, f), \A i \in 1..n : s[i] \in Nat
  PROVE  \A i, j \in 0..n : i <= j => 0 <= f[i] /\ f[i] <= f[j]
<1> DEFINE T == {j \in 0..n : 0 <= f[j] /\ \A i \in 0..n : i <= j => f[i] <= f[j]}
<1>1. 0 \in T
  BY DEF Sums
<1>2. ASSUME NEW j \in 1..n, j - 1 \in T PROVE j \in T
  <2>1. f[j] = f[j - 1] + s[j] /\ s[j] \in Nat /\ f[j - 1] \in Int /\ 0 <= f[j - 1]
    BY <1>2 DEF Sums
  <2>2. ASSUME NEW i \in 0..n, i <= j PROVE f[i] <= f[j]
    <3>1. CASE i = j
      BY <2>1, <3>1
    <3>2. CASE i <= j - 1
      <4>1. f[i] \in Int /\ f[i] <= f[j - 1]
        BY <1>2, <2>2, <3>2 DEF Sums
      <4> QED BY <2>1, <4>1
    <3> QED BY <2>2, <3>1, <3>2
  <2> QED BY <2>1, <2>2
<1> HIDE DEF T
<1>3. 0..n \subseteq T
  BY <1>1, <1>2, CountUp
<1> QED BY <1>3 DEF T

\* s[i] is not more of p than w[i] of the total.
InShare(s, w, n, total, p) ==
  \A i \in 1..n : s[i] \in Nat /\ w[i] \in Nat /\ s[i] * total <= w[i] * p

\* Parts of p that are not more than their shares are together not more than p.
LEMMA SumsWithin ==
  ASSUME NEW n \in Nat, NEW s, NEW f, Sums(s, n, f), NEW w, NEW g, Sums(w, n, g),
         NEW total \in Nat, NEW p \in Nat, InShare(s, w, n, total, p)
  PROVE  \A i \in 0..n : f[i] * total <= g[i] * p
<1> DEFINE T == {i \in 0..n : f[i] * total <= g[i] * p}
<1>1. 0 \in T
  BY DEF Sums
<1>2. ASSUME NEW i \in 1..n, i - 1 \in T PROVE i \in T
  <2>1. /\ f[i] = f[i - 1] + s[i] /\ f[i - 1] \in Int /\ s[i] \in Nat
        /\ g[i] = g[i - 1] + w[i] /\ g[i - 1] \in Int /\ w[i] \in Nat
    BY DEF Sums, InShare
  <2>2. f[i - 1] * total <= g[i - 1] * p /\ s[i] * total <= w[i] * p
    BY <1>2 DEF InShare
  <2>3. /\ f[i] * total = f[i - 1] * total + s[i] * total
        /\ g[i] * p = g[i - 1] * p + w[i] * p
    BY <2>1
  <2>4. f[i] * total <= g[i] * p
    <3>1. \A a, b, c, d \in Int : a <= c /\ b <= d => a + b <= c + d
      OBVIOUS
    <3>2. /\ f[i - 1] * total \in Int /\ s[i] * total \in Int
          /\ g[i - 1] * p \in Int /\ w[i] * p \in Int
      BY <2>1
    <3> QED BY <2>2, <2>3, <3>1, <3>2
  <2> QED BY <2>4
<1> HIDE DEF T
<1>3. 0..n \subseteq T
  BY <1>1, <1>2, CountUp
<1> QED BY <1>3 DEF T

-----------------------------------------------------------------------------
(* Where the cells begin.                                                  *)

LEMMA ShareWithin ==
  ASSUME NEW w \in Nat, NEW total \in Nat \ {0}, NEW pix \in Nat, NEW x \in Shares(w, total, pix)
  PROVE  x \in Nat /\ x * total <= w * pix
  BY DEF Shares

\* The positions start at 0, grow and end on the canvas.
Placed(p, n, pix) ==
  /\ p \in Seq(Nat) /\ Len(p) = n + 1
  /\ \A i, j \in 1..(n + 1) : i <= j => p[i] <= p[j]
  /\ p[n + 1] <= pix

LEMMA PlacedAt ==
  ASSUME NEW p, NEW n \in Nat, NEW pix, Placed(p, n, pix)
  PROVE  /\ \A i \in 1..(n + 1) : p[i] \in Nat /\ p[i] <= p[n + 1]
         /\ \A i, j \in 1..(n + 1) : i <= j => p[i] <= p[j]
         /\ p[n + 1] <= pix
<1>1. \A i \in 1..(n + 1) : p[i] \in Nat
  BY Elements DEF Placed
<1>2. \A i \in 1..(n + 1) : n + 1 \in 1..(n + 1) /\ i <= n + 1
  OBVIOUS
<1> QED BY <1>1, <1>2 DEF Placed

LEMMA PositionsPlaced ==
  ASSUME NEW ws \in Seq(Nat \ {0}), Len(ws) > 0, NEW pix \in Nat, NEW p \in Positions(ws, pix)
  PROVE  Placed(p, Len(ws), pix)
<1> DEFINE n == Len(ws)
           total == Total(ws)
           all == UNION {Shares(ws[i], total, pix) : i \in DOMAIN ws}
<1>1. n \in Nat \ {0} /\ DOMAIN ws = 1..n /\ \A i \in 1..n : ws[i] \in Nat \ {0}
  OBVIOUS
<1>2. ws \in Seq(Int)
  BY <1>1
<1>3. PICK g : Sums(ws, n, g)
  BY <1>2, SumsExist
<1>4. total = g[n] /\ total \in Nat \ {0}
  <2>1. total = g[n]
    BY <1>2, <1>3, TotalIs
  <2>2. g[1] = ws[1] /\ g[n] \in Int
    BY <1>1, <1>3 DEF Sums
  <2>3. g[1] <= g[n]
    BY <1>1, <1>3, SumsGrow
  <2> QED BY <1>1, <2>1, <2>2, <2>3
<1>5. PICK s \in [1..n -> all] :
        /\ \A i \in 1..n : s[i] \in Shares(ws[i], total, pix)
        /\ p = [i \in 1..(n + 1) |-> Total(SubSeq(s, 1, i - 1))]
  BY <1>1 DEF Positions
<1> HIDE DEF total, all
<1>6. \A i \in 1..n : s[i] \in Nat /\ s[i] * total <= ws[i] * pix
  BY <1>1, <1>4, <1>5, ShareWithin
<1>7. s \in Seq(Int) /\ Len(s) = n
  <2>1. \A i \in 1..n : s[i] \in Int
    BY <1>6
  <2>2. s = [i \in 1..n |-> s[i]]
    BY <1>5
  <2>3. s \in [1..n -> Int]
    BY <2>1, <2>2
  <2> QED BY <1>1, <2>3, SequenceOf
<1>8. PICK f : Sums(s, n, f)
  BY <1>7, SumsExist
<1>9. \A i \in 1..(n + 1) : p[i] = f[i - 1]
  <2>1. ASSUME NEW i \in 1..(n + 1) PROVE p[i] = f[i - 1]
    <3>1. i - 1 \in 0..Len(s)
      BY <1>1, <1>7
    <3> QED BY <1>5, <1>7, <1>8, <3>1, PrefixTotal
  <2> QED BY <2>1
<1>10. \A i, j \in 0..n : i <= j => 0 <= f[i] /\ f[i] <= f[j]
  BY <1>1, <1>6, <1>8, SumsGrow
<1> HIDE DEF n
<1>11. p \in Seq(Nat) /\ Len(p) = n + 1
  <2>1. ASSUME NEW i \in 1..(n + 1) PROVE p[i] \in Nat
    <3>1. i - 1 \in 0..n /\ 0 <= i - 1
      BY <1>1
    <3>2. f[i - 1] \in Int /\ 0 <= f[i - 1]
      BY <1>8, <1>10, <3>1 DEF Sums
    <3> QED BY <1>9, <3>2
  <2>2. p \in [1..(n + 1) -> Nat]
    BY <1>5, <2>1
  <2> QED BY <1>1, <2>2
<1>12. \A i, j \in 1..(n + 1) : i <= j => p[i] <= p[j]
  <2>1. ASSUME NEW i \in 1..(n + 1), NEW j \in 1..(n + 1), i <= j PROVE p[i] <= p[j]
    <3>1. i - 1 \in 0..n /\ j - 1 \in 0..n /\ i - 1 <= j - 1
      BY <1>1, <2>1
    <3> QED BY <1>9, <1>10, <3>1
  <2> QED BY <2>1
<1>13. f[n] <= pix
  <2>1. f[n] * total <= total * pix
    <3>1. \A i \in 0..n : f[i] * total <= g[i] * pix
      <4>1. InShare(s, ws, n, total, pix)
        BY <1>1, <1>6 DEF InShare
      <4>2. n \in Nat /\ total \in Nat
        BY <1>1, <1>4
      <4> QED BY <1>3, <1>8, <4>1, <4>2, SumsWithin
    <3>2. f[n] * total <= g[n] * pix
      BY <1>1, <3>1
    <3> QED BY <1>4, <3>2
  <2>2. f[n] \in Int
    BY <1>1, <1>8 DEF Sums
  <2>3. ASSUME f[n] > pix PROVE FALSE
    <3>1. \A a, b, c \in Int : a > b /\ c > 0 => a * c > c * b
      OBVIOUS
    <3>2. f[n] * total > total * pix
      BY <1>4, <2>2, <2>3, <3>1
    <3>3. f[n] * total \in Int /\ total * pix \in Int
      BY <1>4, <2>2
    <3> QED BY <2>1, <3>2, <3>3
  <2> QED BY <2>2, <2>3
<1>14. p[n + 1] <= pix
  BY <1>1, <1>9, <1>13
<1> QED BY <1>11, <1>12, <1>14 DEF Placed, n

-----------------------------------------------------------------------------
(* Cells and their places in m_aEditHK.                                    *)

Sized(t) == t["column"] \in Nat \ {0} /\ t["row"] \in Nat \ {0}

LEMMA ProductGrows ==
  ASSUME NEW a \in Nat, NEW b \in Nat, NEW c \in Nat, NEW d \in Nat, a <= b, c <= d
  PROVE  a * c <= b * d
<1>1. PICK e \in Nat : b = a + e
  <2>1. b - a \in Nat /\ b = a + (b - a)
    OBVIOUS
  <2> QED BY <2>1
<1>2. PICK f \in Nat : d = c + f
  <2>1. d - c \in Nat /\ d = c + (d - c)
    OBVIOUS
  <2> QED BY <2>1
<1>3. b * d = a * c + a * f + e * d
  BY <1>1, <1>2
<1>4. a * c \in Nat /\ a * f \in Nat /\ e * d \in Nat
  BY <1>1, <1>2
<1> QED BY <1>3, <1>4

\* Rows of n cells do not overlap.
LEMMA RowsApart ==
  ASSUME NEW n \in Nat, NEW x \in 0..(n - 1), NEW y \in Nat, NEW z \in Nat, y < z
  PROVE  x + y * n < z * n
<1>1. (y + 1) * n <= z * n
  BY ProductGrows
<1>2. (y + 1) * n = y * n + n /\ y * n \in Nat /\ z * n \in Nat
  OBVIOUS
<1> QED BY <1>1, <1>2

LEMMA IndexRange ==
  ASSUME NEW t, Sized(t), NEW c \in Cells(t)
  PROVE  Index(c[1], c[2], t) \in 1..(t["column"] * t["row"])
<1> DEFINE m == t["column"]
           n == t["row"]
<1>1. /\ m \in Nat \ {0} /\ n \in Nat \ {0}
      /\ c[1] \in 0..(m - 1) /\ c[2] \in 0..(n - 1)
  BY DEF Sized, Cells
<1> HIDE DEF m, n
<1>2. c[1] + c[2] * m < n * m
  BY <1>1, RowsApart
<1>3. n * m = m * n /\ m * n \in Nat /\ c[2] * m \in Nat
  BY <1>1
<1> QED BY <1>1, <1>2, <1>3 DEF Index, m, n

LEMMA IndexInjective ==
  ASSUME NEW t, Sized(t), NEW c \in Cells(t), NEW e \in Cells(t),
         Index(c[1], c[2], t) = Index(e[1], e[2], t)
  PROVE  c = e
<1> DEFINE m == t["column"]
<1>1. /\ m \in Nat \ {0} /\ c[2] \in Nat /\ e[2] \in Nat
      /\ c[1] \in 0..(m - 1) /\ e[1] \in 0..(m - 1)
      /\ c = <<c[1], c[2]>> /\ e = <<e[1], e[2]>>
  BY DEF Sized, Cells
<1>2. c[1] + c[2] * m + 1 = e[1] + e[2] * m + 1
  BY DEF Index
<1> HIDE DEF m
<1>3. c[2] * m \in Nat /\ e[2] * m \in Nat
  BY <1>1
<1>4. c[1] + c[2] * m = e[1] + e[2] * m
  BY <1>1, <1>2, <1>3
<1>5. ~(c[2] < e[2])
  <2> SUFFICES ASSUME c[2] < e[2] PROVE FALSE
    OBVIOUS
  <2>1. c[1] + c[2] * m < e[2] * m
    BY <1>1, RowsApart
  <2> QED BY <1>1, <1>3, <1>4, <2>1
<1>6. ~(e[2] < c[2])
  <2> SUFFICES ASSUME e[2] < c[2] PROVE FALSE
    OBVIOUS
  <2>1. e[1] + e[2] * m < c[2] * m
    BY <1>1, RowsApart
  <2> QED BY <1>1, <1>3, <1>4, <2>1
<1>7. c[2] = e[2]
  BY <1>1, <1>5, <1>6
<1>8. c[1] = e[1]
  BY <1>1, <1>3, <1>4, <1>7
<1> QED BY <1>1, <1>7, <1>8

-----------------------------------------------------------------------------
(* Values read from a configuration.                                       *)

\* f[i] are the valid tokens among the first i of s.
Filters(s, lo, hi, n, f) ==
  /\ f \in [0..n -> Seq(lo..hi)] /\ f[0] = <<>>
  /\ \A i \in 1..n : f[i] = IF s[i] \in lo..hi THEN Append(f[i - 1], s[i]) ELSE f[i - 1]

LEMMA FiltersExist ==
  ASSUME NEW s, NEW n \in Nat, NEW lo, NEW hi
  PROVE  \E f : Filters(s, lo, hi, n, f)
<1> DEFINE T == {i \in 0..n : \E f : Filters(s, lo, hi, i, f)}
<1>1. 0 \in T
  <2> DEFINE f == [j \in 0..0 |-> <<>>]
  <2>1. f \in [0..0 -> Seq(lo..hi)] /\ f[0] = <<>>
    OBVIOUS
  <2> HIDE DEF f
  <2>2. Filters(s, lo, hi, 0, f)
    BY <2>1 DEF Filters
  <2> QED BY <2>2
<1>2. ASSUME NEW i \in 1..n, i - 1 \in T PROVE i \in T
  <2>1. PICK f : Filters(s, lo, hi, i - 1, f)
    BY <1>2
  <2> DEFINE new == IF s[i] \in lo..hi THEN Append(f[i - 1], s[i]) ELSE f[i - 1]
             g == [j \in 0..i |-> IF j = i THEN new ELSE f[j]]
  <2>2. f \in [0..(i - 1) -> Seq(lo..hi)]
    BY <2>1 DEF Filters
  <2>3. f[i - 1] \in Seq(lo..hi)
    BY <2>2
  <2>4. new \in Seq(lo..hi)
    <3>1. \A S, v : \A q \in Seq(S) : v \in S => Append(q, v) \in Seq(S)
      OBVIOUS
    <3> QED BY <2>3, <3>1
  <2> HIDE DEF new
  <2>5. g \in [0..i -> Seq(lo..hi)]
    BY <2>2, <2>4
  <2>6. g[0] = <<>> /\ g[i] = new /\ \A j \in 0..(i - 1) : g[j] = f[j]
    BY <2>1 DEF Filters
  <2> HIDE DEF g
  <2>7. ASSUME NEW j \in 1..i
        PROVE  g[j] = IF s[j] \in lo..hi THEN Append(g[j - 1], s[j]) ELSE g[j - 1]
    <3>1. CASE j = i
      BY <2>6, <3>1 DEF new
    <3>2. CASE j # i
      <4>1. j \in 1..(i - 1) /\ j \in 0..(i - 1) /\ j - 1 \in 0..(i - 1)
        BY <3>2
      <4> QED BY <2>1, <2>6, <4>1 DEF Filters
    <3> QED BY <3>1, <3>2
  <2>8. Filters(s, lo, hi, i, g)
    BY <2>5, <2>6, <2>7 DEF Filters
  <2> QED BY <2>8
<1> HIDE DEF T
<1>3. 0..n \subseteq T
  BY <1>1, <1>2, CountUp
<1> QED BY <1>3 DEF T

LEMMA ValidIs ==
  ASSUME NEW s, Len(s) \in Nat, NEW lo, NEW hi, NEW f, Filters(s, lo, hi, Len(s), f)
  PROVE  Valid(s, lo, hi) = f[Len(s)]
<1> DEFINE n == Len(s)
           Body(h) == [i \in 0..n |->
             IF i = 0 THEN <<>>
             ELSE IF s[i] \in lo..hi THEN Append(h[i - 1], s[i]) ELSE h[i - 1]]
           valid == CHOOSE h : h = Body(h)
<1>1. f = Body(f)
  <2>1. \A i \in 0..n : f[i] = Body(f)[i]
    <3>1. ASSUME NEW i \in 1..n PROVE f[i] = Body(f)[i]
      <4>1. i # 0 /\ i \in 0..n
        OBVIOUS
      <4> QED BY <4>1 DEF Filters
    <3>2. f[0] = Body(f)[0]
      BY DEF Filters
    <3>3. \A i \in 0..n : i = 0 \/ i \in 1..n
      OBVIOUS
    <3> QED BY <3>1, <3>2, <3>3
  <2>2. f \in [0..n -> Seq(lo..hi)]
    BY DEF Filters
  <2> QED BY <2>1, <2>2
<1>2. valid = Body(valid)
  BY <1>1
<1>3. Valid(s, lo, hi) = valid[n]
  BY DEF Valid
<1> HIDE DEF valid
<1> DEFINE T == {i \in 0..n : valid[i] = f[i]}
<1>4. \A i \in 0..n : valid[i] =
        IF i = 0 THEN <<>>
        ELSE IF s[i] \in lo..hi THEN Append(valid[i - 1], s[i]) ELSE valid[i - 1]
  BY <1>2
<1>5. 0 \in T
  BY <1>4 DEF Filters
<1>6. ASSUME NEW i \in 1..n, i - 1 \in T PROVE i \in T
  BY <1>4, <1>6 DEF Filters
<1> HIDE DEF T, n
<1>7. n \in Nat
  BY DEF n
<1>8. 0..n \subseteq T
  BY <1>5, <1>6, <1>7, CountUp
<1>9. n \in T
  BY <1>7, <1>8
<1> QED BY <1>3, <1>9 DEF T, n

LEMMA ValidType ==
  ASSUME NEW s, Len(s) \in Nat, NEW lo, NEW hi
  PROVE  Valid(s, lo, hi) \in Seq(lo..hi)
<1>1. PICK f : Filters(s, lo, hi, Len(s), f)
  BY FiltersExist
<1>2. f[Len(s)] \in Seq(lo..hi)
  BY <1>1 DEF Filters
<1> QED BY <1>1, <1>2, ValidIs

\* Nothing is left out of what is valid.
LEMMA ValidAll ==
  ASSUME NEW lo, NEW hi, NEW s \in Seq(lo..hi)
  PROVE  Len(Valid(s, lo, hi)) = Len(s) /\ \A i \in 1..Len(s) : Valid(s, lo, hi)[i] = s[i]
<1> DEFINE n == Len(s)
<1>1. n \in Nat /\ \A i \in 1..n : s[i] \in lo..hi
  BY Elements
<1>2. PICK f : Filters(s, lo, hi, n, f)
  BY <1>1, FiltersExist
<1> DEFINE T == {i \in 0..n : Len(f[i]) = i /\ \A j \in 1..i : f[i][j] = s[j]}
<1>3. 0 \in T
  BY <1>1, <1>2 DEF Filters
<1>4. ASSUME NEW i \in 1..n, i - 1 \in T PROVE i \in T
  <2>1. f[i] = Append(f[i - 1], s[i]) /\ f[i - 1] \in Seq(lo..hi)
    <3>1. s[i] \in lo..hi /\ i - 1 \in 0..n
      BY <1>1
    <3>2. f[i - 1] \in Seq(lo..hi)
      BY <1>2, <3>1 DEF Filters
    <3>3. f[i] = Append(f[i - 1], s[i])
      BY <1>2, <3>1, Zenon DEF Filters
    <3> QED BY <3>2, <3>3
  <2>2. Len(f[i - 1]) = i - 1 /\ \A j \in 1..(i - 1) : f[i - 1][j] = s[j]
    BY <1>4
  <2> DEFINE q == f[i - 1]
  <2> HIDE DEF q
  <2>3. q \in Seq(lo..hi) /\ Len(q) = i - 1 /\ s[i] \in lo..hi
    BY <1>1, <2>1, <2>2 DEF q
  <2>4. /\ Len(Append(q, s[i])) = i /\ Append(q, s[i])[i] = s[i]
        /\ \A j \in 1..(i - 1) : Append(q, s[i])[j] = q[j]
    <3> DEFINE R == lo..hi
               x == s[i]
    <3>1. q \in Seq(R) /\ x \in R /\ i \in Nat /\ Len(q) = i - 1
      BY <1>1, <2>3
    <3> HIDE DEF R, x
    <3>2. /\ Len(Append(q, x)) = i /\ Append(q, x)[i] = x
          /\ \A j \in 1..(i - 1) : Append(q, x)[j] = q[j]
      BY <3>1, AppendedAt
    <3> QED BY <3>2 DEF x
  <2>5. \A j \in 1..i : f[i][j] = s[j]
    BY <2>1, <2>2, <2>4 DEF q
  <2>6. Len(f[i]) = i
    BY <2>1, <2>4, Zenon DEF q
  <2>7. i \in 0..n
    BY <1>1
  <2> QED BY <2>5, <2>6, <2>7, Zenon
<1> HIDE DEF T, n
<1>5. 0..n \subseteq T
  BY <1>1, <1>3, <1>4, CountUp
<1>6. n \in T
  BY <1>1, <1>5
<1>7. Valid(s, lo, hi) = f[n]
  BY <1>1, <1>2, ValidIs DEF n
<1> QED BY <1>6, <1>7 DEF T, n

LEMMA VectorType ==
  ASSUME NEW s, Len(s) \in Nat, NEW n \in Nat, NEW lo, NEW hi, NEW default \in lo..hi
  PROVE  /\ StringToVector(s, n, lo, hi, default) \in Seq(lo..hi)
         /\ Len(StringToVector(s, n, lo, hi, default)) = n
         /\ DOMAIN StringToVector(s, n, lo, hi, default) = 1..n
<1> DEFINE v == Valid(s, lo, hi)
<1>1. v \in Seq(lo..hi)
  BY ValidType
<1> HIDE DEF v
<1>2. \A i \in 1..n : (IF i <= Len(v) THEN v[i] ELSE default) \in lo..hi
  <2>1. Len(v) \in Nat /\ \A i \in 1..Len(v) : v[i] \in lo..hi
    BY <1>1, Elements
  <2>2. \A i \in 1..n : i <= Len(v) => i \in 1..Len(v)
    BY <2>1
  <2> QED BY <2>1, <2>2, Zenon
<1>3. [i \in 1..n |-> IF i <= Len(v) THEN v[i] ELSE default] \in [1..n -> lo..hi]
  BY <1>2
<1>4. StringToVector(s, n, lo, hi, default) = [i \in 1..n |-> IF i <= Len(v) THEN v[i] ELSE default]
  BY DEF StringToVector, v
<1> QED BY <1>3, <1>4

LEMMA VectorKept ==
  ASSUME NEW lo, NEW hi, NEW s \in Seq(lo..hi), NEW n \in Nat, n <= Len(s), NEW default
  PROVE  \A i \in 1..n : StringToVector(s, n, lo, hi, default)[i] = s[i]
<1>1. \A i \in 1..n : i <= Len(Valid(s, lo, hi)) /\ Valid(s, lo, hi)[i] = s[i]
  BY ValidAll
<1> QED BY <1>1 DEF StringToVector

-----------------------------------------------------------------------------
(* The inductive invariant.                                                *)

\* The grid, as it is edited, stored and loaded.
GridOK ==
  /\ tot \in [Dims -> Nat \ {0}] /\ \A d \in Dims : tot[d] <= MaxGrid[d]
  /\ weights \in [Dims -> Seq(MinWeight..MaxWeight)]
  /\ \A d \in Dims : Len(weights[d]) = tot[d]
  /\ cells \in Seq(Keys) /\ Len(cells) >= tot["column"] * tot["row"]
  /\ inCell \in BOOLEAN
  /\ exitCell \in [Dims -> Nat] /\ \A d \in Dims : exitCell[d] < tot[d]
  /\ percent \in [Dims -> 0..100]

\* The lists, and the row whose value is entered.
EditOK ==
  /\ ListsShowGrid
  /\ screen = "weight" => edited \in Dims \X Nat

\* What was drawn.
DrawOK ==
  /\ canvas \in [Dims -> Nat] /\ drawn \in BOOLEAN
  /\ drawn /\ screen = "keyboard" =>
       \A d \in Dims : Placed(pos[d], tot[d], canvas[d] + Margin)
  /\ ExitReachable

Rest ==
  /\ screen \in {"off", "main", "weight", "key", "keyboard"}
  /\ conf \in Configuration
  /\ edits \in 0..MaxEdits

GridInv == GridOK /\ EditOK /\ DrawOK /\ Rest

LEMMA Bounds ==
  /\ Margin \in Nat /\ ExitSize \in Nat /\ MaxEdits \in Nat
  /\ MinWeight \in Nat \ {0} /\ MaxWeight \in Nat
  /\ Margin < ExitSize \div 2 /\ ExitSize \div 2 \in Nat
  /\ \A d \in Dims : MaxGrid[d] \in Nat \ {0}
  BY GridAssumption

\* The types and the lists.
LEMMA InvMeans == GridInv => TypeOK /\ ListsShowGrid /\ ExitReachable
<1> SUFFICES ASSUME GridInv PROVE TypeOK
  BY DEF GridInv, EditOK, DrawOK
<1>1. \A d \in Dims : tot[d] \in 1..MaxGrid[d]
  BY Bounds DEF GridInv, GridOK
<1>2. \A d \in Dims : exitCell[d] \in 0..(tot[d] - 1) /\ percent[d] \in 0..100
  BY DEF GridInv, GridOK
<1>3. drawn /\ screen = "keyboard" => \A d \in Dims : Len(pos[d]) = tot[d] + 1
  BY DEF GridInv, DrawOK, Placed
<1> QED BY <1>1, <1>2, <1>3 DEF GridInv, GridOK, DrawOK, Rest, TypeOK

-----------------------------------------------------------------------------
(* Drawing and clicking.                                                   *)

LEMMA PercentageWithin ==
  ASSUME NEW n \in Int, NEW p \in 0..100
  PROVE  /\ Percentage(n, p) \in Int
         /\ n >= 0 => 0 <= Percentage(n, p) /\ Percentage(n, p) <= n
         /\ n < 0 => n <= Percentage(n, p) /\ Percentage(n, p) <= 0
<1>1. ASSUME NEW m \in Nat
      PROVE  (m * p) \div 100 \in Nat /\ (m * p) \div 100 <= m
  <2>1. m * p <= m * 100 /\ m * p \in Nat
    BY ProductGrows
  <2> QED BY <2>1
<1>2. CASE n >= 0
  BY <1>1, <1>2 DEF Percentage
<1>3. CASE n < 0
  <2>1. -n \in Nat
    BY <1>3
  <2>2. ((-n) * p) \div 100 \in Nat /\ ((-n) * p) \div 100 <= -n
    BY <1>1, <2>1
  <2>3. Percentage(n, p) = -(((-n) * p) \div 100)
    BY <1>3 DEF Percentage
  <2> DEFINE x == ((-n) * p) \div 100
  <2> HIDE DEF x
  <2> QED BY <1>3, <2>2, <2>3 DEF x
<1> QED BY <1>2, <1>3

\* The exit button reaches the canvas from wherever its center is placed.
LEMMA CenterReachable ==
  ASSUME GridOK, NEW d \in Dims, NEW at, NEW size, size[d] \in Nat,
         Placed(at[d], tot[d], size[d] + Margin)
  PROVE  /\ Center(d, at, size) - ExitSize \div 2 < size[d]
         /\ Center(d, at, size) + ExitSize \div 2 > 0
<1> DEFINE half == ExitSize \div 2
<1>1. half \in Nat /\ Margin \in Nat /\ Margin < half
  BY Bounds
<1>2. percent[d] \in 0..100
  BY DEF GridOK
<1> HIDE DEF half
<1>3. CASE ~inCell
  <2>1. Center(d, at, size) = Percentage(size[d], percent[d])
    BY <1>3 DEF Center
  <2>2. /\ Percentage(size[d], percent[d]) \in Int
        /\ 0 <= Percentage(size[d], percent[d]) /\ Percentage(size[d], percent[d]) <= size[d]
    <3>1. size[d] \in Int /\ size[d] >= 0
      OBVIOUS
    <3> QED BY <1>2, <3>1, PercentageWithin
  <2> QED BY <1>1, <2>1, <2>2 DEF half
<1>4. CASE inCell
  <2> DEFINE i == exitCell[d] + 1
             a == at[d][i]
             b == at[d][i + 1]
             part == Percentage(b - Margin - a, percent[d])
  <2>1. i \in 1..tot[d] /\ i + 1 \in 1..(tot[d] + 1) /\ tot[d] \in Nat
    BY DEF GridOK
  <2>2. /\ a \in Nat /\ b \in Nat /\ a <= b /\ b <= size[d] + Margin
    <3> DEFINE p == at[d]
    <3> HIDE DEF p
    <3>1. Placed(p, tot[d], size[d] + Margin)
      BY DEF p
    <3>2. i <= i + 1 /\ tot[d] + 1 \in 1..(tot[d] + 1)
      BY <2>1
    <3> HIDE DEF i
    <3>3. /\ p[i] \in Nat /\ p[i + 1] \in Nat /\ p[tot[d] + 1] \in Nat
          /\ p[i] <= p[i + 1] /\ p[i + 1] <= p[tot[d] + 1]
          /\ p[tot[d] + 1] <= size[d] + Margin
      BY <2>1, <3>1, <3>2, PlacedAt
    <3> QED BY <1>1, <3>3 DEF p
  <2>3. Center(d, at, size) = a + part
    BY <1>4 DEF Center
  <2>4. /\ part \in Int
        /\ b - Margin - a >= 0 => 0 <= part /\ part <= b - Margin - a
        /\ b - Margin - a < 0 => b - Margin - a <= part /\ part <= 0
    <3> HIDE DEF a, b
    <3>1. b - Margin - a \in Int
      BY <1>1, <2>2
    <3> QED BY <1>2, <3>1, PercentageWithin
  <2> HIDE DEF a, b, part, i
  <2> QED BY <1>1, <2>2, <2>3, <2>4 DEF half
<1> QED BY <1>3, <1>4 DEF GridOK

\* A point at p in the cell n of a column or row.
Within(at, n, p) == at[n + 1] <= p /\ p < at[n + 2] - Margin

LEMMA WithinOne ==
  ASSUME NEW n \in Nat, NEW at, NEW pix, Placed(at, n, pix), NEW p \in Int,
         NEW x \in 0..(n - 1), NEW y \in 0..(n - 1), Within(at, x, p), Within(at, y, p)
  PROVE  x = y
<1>1. ASSUME NEW i \in 0..(n - 1), NEW j \in 0..(n - 1), Within(at, i, p), Within(at, j, p)
      PROVE  ~(i < j)
  <2> SUFFICES ASSUME i < j PROVE FALSE
    OBVIOUS
  <2>1. i + 2 \in 1..(n + 1) /\ j + 1 \in 1..(n + 1) /\ i + 2 <= j + 1
    OBVIOUS
  <2>2. at[i + 2] \in Nat /\ at[j + 1] \in Nat /\ at[i + 2] <= at[j + 1]
    BY <2>1 DEF Placed
  <2>3. p < at[i + 2] - Margin /\ at[j + 1] <= p
    BY <1>1 DEF Within
  <2> QED BY <2>2, <2>3, Bounds
<1> QED BY <1>1

LEMMA ClickFinds == GridInv => ClickFindsKey
<1> SUFFICES ASSUME GridInv, drawn, screen = "keyboard", NEW c \in Cells(tot)
             PROVE  LET at == <<pos["column"][c[1] + 1], pos["row"][c[2] + 1]>>
                        seen == /\ pos["column"][c[1] + 2] - Margin > at[1]
                                /\ pos["row"][c[2] + 2] - Margin > at[2]
                        hits == Hits(pos, at)
                    IN  /\ Cardinality(hits) <= 1
                        /\ seen => hits = {<<c, keyList[c]>>}
  BY DEF ClickFindsKey
<1> DEFINE at == <<pos["column"][c[1] + 1], pos["row"][c[2] + 1]>>
           seen == /\ pos["column"][c[1] + 2] - Margin > at[1]
                   /\ pos["row"][c[2] + 2] - Margin > at[2]
           hits == Hits(pos, at)
           In(e) == Within(pos["column"], e[1], at[1]) /\ Within(pos["row"], e[2], at[2])
           Hit(e) == <<e, cells[Index(e[1], e[2], tot)]>>
<1>1. /\ Placed(pos["column"], tot["column"], canvas["column"] + Margin)
      /\ Placed(pos["row"], tot["row"], canvas["row"] + Margin)
  BY DEF GridInv, DrawOK
<1>2. tot["column"] \in Nat \ {0} /\ tot["row"] \in Nat \ {0}
  BY DEF GridInv, GridOK
<1>3. \A e \in Cells(tot) : /\ e = <<e[1], e[2]>>
                            /\ e[1] \in 0..(tot["column"] - 1) /\ e[2] \in 0..(tot["row"] - 1)
  BY DEF Cells
<1>4. at[1] \in Int /\ at[2] \in Int
  <2>1. c[1] + 1 \in 1..(tot["column"] + 1) /\ c[2] + 1 \in 1..(tot["row"] + 1)
    BY <1>2, <1>3
  <2>2. pos["column"][c[1] + 1] \in Nat /\ pos["row"][c[2] + 1] \in Nat
    BY <1>1, <1>2, <2>1, PlacedAt
  <2> QED BY <2>2
<1>5. hits = {Hit(e) : e \in {e \in Cells(tot) : In(e)}}
  BY DEF Hits, Within
<1>6. \A e, f \in Cells(tot) : In(e) /\ In(f) => e = f
  <2> SUFFICES ASSUME NEW e \in Cells(tot), NEW f \in Cells(tot), In(e), In(f) PROVE e = f
    OBVIOUS
  <2> HIDE DEF at
  <2>1. e[1] = f[1]
    BY <1>1, <1>2, <1>3, <1>4, WithinOne
  <2>2. e[2] = f[2]
    BY <1>1, <1>2, <1>3, <1>4, WithinOne
  <2> QED BY <1>3, <2>1, <2>2
<1> HIDE DEF In, hits, Hit
<1>7. Cardinality(hits) <= 1
  <2>1. CASE hits = {}
    BY <2>1, FS_EmptySet
  <2>2. CASE hits # {}
    <3>1. PICK e \in Cells(tot) : In(e)
      BY <1>5, <2>2
    <3>2. hits = {Hit(e)}
      BY <1>5, <1>6, <3>1
    <3> QED BY <3>2, FS_Singleton
  <2> QED BY <2>1, <2>2
<1>8. ASSUME seen PROVE hits = {<<c, keyList[c]>>}
  <2>1. In(c)
    <3>1. /\ pos["column"][c[1] + 1] = at[1] /\ pos["row"][c[2] + 1] = at[2]
      OBVIOUS
    <3> HIDE DEF at
    <3>2. /\ c[1] + 2 \in 1..(tot["column"] + 1) /\ c[2] + 2 \in 1..(tot["row"] + 1)
      BY <1>2, <1>3
    <3>3. /\ pos["column"][c[1] + 2] \in Int /\ pos["row"][c[2] + 2] \in Int
      <4>1. pos["column"][c[1] + 2] \in Nat /\ pos["row"][c[2] + 2] \in Nat
        BY <1>1, <1>2, <3>2, PlacedAt
      <4> QED BY <4>1
    <3> QED BY <1>4, <1>8, <3>1, <3>3, Bounds DEF In, Within
  <2>2. hits = {Hit(c)}
    BY <1>5, <1>6, <2>1
  <2>3. keyList[c] = cells[Index(c[1], c[2], tot)]
    BY DEF GridInv, EditOK, ListsShowGrid, Visible, KeyRows
  <2> QED BY <2>2, <2>3 DEF Hit
<1> QED BY <1>7, <1>8 DEF hits

-----------------------------------------------------------------------------
(* Loading and resizing.                                                   *)

LEMMA Codes ==
  /\ MaxCode \in Nat /\ -1 \in -1..MaxCode
  /\ 0..MaxCode \subseteq Nat /\ 0..MaxCode \subseteq Int /\ 0..MaxCode \subseteq -1..MaxCode
<1>1. MaxCode \in Nat
  BY SMT DEF MaxCode
<1> QED BY <1>1

LEMMA ClampedWithin ==
  \A n, lo, hi \in Int : lo <= hi =>
    /\ Clamped(n, lo, hi) \in Int /\ lo <= Clamped(n, lo, hi) /\ Clamped(n, lo, hi) <= hi
    /\ lo <= n /\ n <= hi => Clamped(n, lo, hi) = n
  BY SMT DEF Clamped

\* A grid with at most the columns and rows that can be edited.
Fits(t) == t \in [Dims -> Nat \ {0}] /\ \A d \in Dims : t[d] <= MaxGrid[d]

LEMMA FitsSized ==
  ASSUME NEW t, Fits(t)
  PROVE  /\ Sized(t) /\ t["column"] * t["row"] \in Nat
         /\ t["column"] * t["row"] <= MaxGrid["column"] * MaxGrid["row"]
<1>1. /\ t["column"] \in Nat \ {0} /\ t["row"] \in Nat \ {0}
      /\ t["column"] <= MaxGrid["column"] /\ t["row"] <= MaxGrid["row"]
      /\ MaxGrid["column"] \in Nat /\ MaxGrid["row"] \in Nat
  BY Bounds DEF Fits
<1>2. t["column"] * t["row"] <= MaxGrid["column"] * MaxGrid["row"]
  BY <1>1, ProductGrows
<1> QED BY <1>1, <1>2 DEF Sized

\* The window's constructor clamps, fills up and translates what it reads.
LEMMA StartLoads ==
  ASSUME GridInv, Start
  PROVE  GridOK'
<1> DEFINE t == [d \in Dims |-> Clamped(conf.tot[d], 1, MaxGrid[d])]
           n == t["column"] * t["row"]
           codes == StringToVector(conf.cells, n, -1, MaxCode, -1)
<1>1. /\ conf.tot \in [Dims -> Int] /\ conf.weights \in [Dims -> Seq(Int)]
      /\ conf.cells \in Seq(Int) /\ conf.inCell \in BOOLEAN
      /\ conf.exitCell \in [Dims -> Int] /\ conf.percent \in [Dims -> Int]
  BY DEF GridInv, Rest, Configuration
<1>2. Fits(t)
  <2>1. ASSUME NEW d \in Dims PROVE t[d] \in Nat \ {0} /\ t[d] <= MaxGrid[d]
    <3>1. conf.tot[d] \in Int /\ MaxGrid[d] \in Int /\ 1 \in Int /\ 1 <= MaxGrid[d]
      BY <1>1, Bounds
    <3>2. t[d] = Clamped(conf.tot[d], 1, MaxGrid[d])
      OBVIOUS
    <3> HIDE DEF t
    <3>3. t[d] \in Int /\ 1 <= t[d] /\ t[d] <= MaxGrid[d]
      <4> DEFINE x == conf.tot[d]
                 hi == MaxGrid[d]
      <4> HIDE DEF x, hi
      <4>1. Clamped(x, 1, hi) \in Int /\ 1 <= Clamped(x, 1, hi) /\ Clamped(x, 1, hi) <= hi
        <5>1. x \in Int /\ hi \in Int /\ 1 <= hi
          BY <3>1 DEF x, hi
        <5> QED BY <5>1, ClampedWithin
      <4> QED BY <3>2, <4>1 DEF x, hi
    <3> QED BY <3>3
  <2> HIDE DEF t
  <2>2. t = [d \in Dims |-> t[d]]
    BY DEF t
  <2> QED BY <2>1, <2>2 DEF Fits
<1>3. tot' = t
  BY DEF Start
<1>4. weights' \in [Dims -> Seq(MinWeight..MaxWeight)] /\ \A d \in Dims : Len(weights'[d]) = t[d]
  <2>1. weights' = [d \in Dims |->
          StringToVector(conf.weights[d], t[d], MinWeight, MaxWeight, DefaultWeight)]
    BY DEF Start
  <2>2. DefaultWeight \in MinWeight..MaxWeight
    BY GridAssumption
  <2> HIDE DEF t
  <2>3. ASSUME NEW d \in Dims
        PROVE  weights'[d] \in Seq(MinWeight..MaxWeight) /\ Len(weights'[d]) = t[d]
    <3>1. Len(conf.weights[d]) \in Nat /\ t[d] \in Nat
      BY <1>1, <1>2 DEF Fits
    <3> QED BY <2>1, <2>2, <3>1, VectorType
  <2> QED BY <2>1, <2>3
<1>5. cells' \in [1..n -> Keys] /\ n \in Nat
  <2>1. n \in Nat /\ n <= MaxGrid["column"] * MaxGrid["row"]
    BY <1>2, FitsSized
  <2>2. cells' = [i \in DOMAIN codes |-> KeyOfCode(codes[i], i)]
    BY DEF Start
  <2> HIDE DEF n
  <2>3. codes \in Seq(-1..MaxCode) /\ Len(codes) = n /\ DOMAIN codes = 1..n
    <3>1. Len(conf.cells) \in Nat /\ -1 \in -1..MaxCode
      BY <1>1, Codes
    <3> QED BY <2>1, <3>1, VectorType
  <2> HIDE DEF codes
  <2>4. \A i \in 1..n : KeyOfCode(codes[i], i) \in Keys
    <3>1. \A i \in 1..n : codes[i] \in Int
      <4>1. \A i \in 1..n : codes[i] \in -1..MaxCode
        BY <2>3, Elements, Zenon
      <4> QED BY <4>1, Codes
    <3>2. MaxGrid["column"] * MaxGrid["row"] \in Nat
      BY Bounds
    <3>3. \A i \in 1..n : i \in 1..(MaxGrid["column"] * MaxGrid["row"])
      BY <2>1, <3>2
    <3>4. \A i \in 1..n : DefaultKeys[i] \in Keys
      BY <3>3, GridAssumption
    <3>5. HK_NULL \in Keys
      BY GridAssumption
    <3> QED BY <3>1, <3>4, <3>5, SMT DEF KeyOfCode
  <2> QED BY <2>1, <2>2, <2>3, <2>4
<1>6. exitCell' \in [Dims -> Nat] /\ \A d \in Dims : exitCell'[d] < t[d]
  <2>1. exitCell' = [d \in Dims |-> Clamped(conf.exitCell[d], 0, t[d] - 1)]
    BY DEF Start
  <2> HIDE DEF t
  <2>2. \A d \in Dims : exitCell'[d] \in Nat /\ exitCell'[d] < t[d]
    <3> SUFFICES ASSUME NEW d \in Dims PROVE exitCell'[d] \in Nat /\ exitCell'[d] < t[d]
      OBVIOUS
    <3>1. conf.exitCell[d] \in Int /\ t[d] - 1 \in Nat /\ t[d] \in Nat
      BY <1>1, <1>2 DEF Fits
    <3>2. exitCell'[d] \in Int /\ 0 <= exitCell'[d] /\ exitCell'[d] <= t[d] - 1
      <4> DEFINE x == conf.exitCell[d]
                 hi == t[d] - 1
      <4>1. exitCell'[d] = Clamped(x, 0, hi) /\ x \in Int /\ hi \in Int /\ 0 <= hi
        BY <2>1, <3>1
      <4> HIDE DEF x, hi
      <4>2. /\ Clamped(x, 0, hi) \in Int
            /\ 0 <= Clamped(x, 0, hi) /\ Clamped(x, 0, hi) <= hi
        BY <4>1, ClampedWithin
      <4> QED BY <4>1, <4>2 DEF hi
    <3> QED BY <3>1, <3>2
  <2> QED BY <2>1, <2>2
<1>7. percent' \in [Dims -> 0..100]
  <2>1. percent' = [d \in Dims |-> Clamped(conf.percent[d], 0, 100)]
    BY DEF Start
  <2>2. ASSUME NEW d \in Dims PROVE Clamped(conf.percent[d], 0, 100) \in 0..100
    <3>1. conf.percent[d] \in Int /\ 0 \in Int /\ 100 \in Int /\ 0 <= 100
      BY <1>1
    <3>2. /\ Clamped(conf.percent[d], 0, 100) \in Int
          /\ 0 <= Clamped(conf.percent[d], 0, 100) /\ Clamped(conf.percent[d], 0, 100) <= 100
      <4> DEFINE x == conf.percent[d]
      <4> HIDE DEF x
      <4>1. x \in Int
        BY <3>1 DEF x
      <4>2. Clamped(x, 0, 100) \in Int /\ 0 <= Clamped(x, 0, 100) /\ Clamped(x, 0, 100) <= 100
        BY <4>1, ClampedWithin
      <4> QED BY <4>2 DEF x
    <3> QED BY <3>2
  <2> QED BY <2>1, <2>2
<1>8. inCell' \in BOOLEAN
  BY <1>1 DEF Start
<1> HIDE DEF t
<1>9. tot' \in [Dims -> Nat \ {0}] /\ \A d \in Dims : tot'[d] <= MaxGrid[d]
  BY <1>2, <1>3 DEF Fits
<1>10. cells' \in Seq(Keys) /\ Len(cells') >= tot'["column"] * tot'["row"]
  BY <1>3, <1>5
<1>11. \A d \in Dims : Len(weights'[d]) = tot'[d] /\ exitCell'[d] < tot'[d]
  BY <1>3, <1>4, <1>6
<1> QED BY <1>4, <1>6, <1>7, <1>8, <1>9, <1>10, <1>11 DEF GridOK

LEMMA GrownType ==
  ASSUME NEW c \in Seq(Keys), NEW n \in Nat
  PROVE  /\ Grown(c, n) \in Seq(Keys) /\ Len(Grown(c, n)) >= n
         /\ \A i \in 1..Len(c) : Grown(c, n)[i] = c[i]
<1> DEFINE m == IF n > Len(c) THEN n ELSE Len(c)
<1>1. Len(c) \in Nat /\ \A i \in 1..Len(c) : c[i] \in Keys
  BY Elements
<1>2. m \in Nat /\ m >= n /\ m >= Len(c)
  BY <1>1
<1>3. HK_NULL \in Keys
  BY GridAssumption
<1> HIDE DEF m
<1>4. \A i \in 1..m : (IF i <= Len(c) THEN c[i] ELSE HK_NULL) \in Keys
  BY <1>1, <1>3
<1>5. Grown(c, n) = [i \in 1..m |-> IF i <= Len(c) THEN c[i] ELSE HK_NULL]
  BY DEF Grown, m
<1>6. Grown(c, n) \in [1..m -> Keys]
  BY <1>4, <1>5
<1>7. \A i \in 1..Len(c) : i \in 1..m
  BY <1>1, <1>2
<1> QED BY <1>1, <1>2, <1>5, <1>6, <1>7

LEMMA Resized ==
  ASSUME GridInv, NEW d \in Dims, NEW n \in 1..MaxGrid[d], SpinNr(d, n)
  PROVE  GridOK'
<1>1. /\ tot \in [Dims -> Nat \ {0}] /\ weights \in [Dims -> Seq(MinWeight..MaxWeight)]
      /\ cells \in Seq(Keys) /\ exitCell \in [Dims -> Nat]
      /\ \A e \in Dims : Len(weights[e]) = tot[e] /\ tot[e] <= MaxGrid[e]
  BY DEF GridInv, GridOK
<1>2. n \in Nat \ {0} /\ n <= MaxGrid[d]
  BY Bounds
<1>3. tot' = [tot EXCEPT ![d] = n]
  BY DEF SpinNr
<1>4. tot' \in [Dims -> Nat \ {0}] /\ \A e \in Dims : tot'[e] <= MaxGrid[e]
  BY <1>1, <1>2, <1>3
<1>5. weights' \in [Dims -> Seq(MinWeight..MaxWeight)] /\ \A e \in Dims : Len(weights'[e]) = tot'[e]
  <2> DEFINE w == weights[d]
             new == [i \in 1..n |-> IF i <= Len(w) THEN w[i] ELSE DefaultWeight]
  <2>1. weights' = [weights EXCEPT ![d] = new]
    BY DEF SpinNr
  <2>2. \A i \in 1..n : new[i] \in MinWeight..MaxWeight
    <3>1. w \in Seq(MinWeight..MaxWeight) /\ DefaultWeight \in MinWeight..MaxWeight
      BY <1>1, GridAssumption
    <3> HIDE DEF w
    <3>2. Len(w) \in Nat /\ \A i \in 1..Len(w) : w[i] \in MinWeight..MaxWeight
      BY <3>1, Elements
    <3>3. \A i \in 1..n : i <= Len(w) => i \in 1..Len(w)
      BY <3>2
    <3> QED BY <3>1, <3>2, <3>3, Zenon
  <2>3. new \in [1..n -> MinWeight..MaxWeight]
    BY <2>2
  <2> HIDE DEF new
  <2>4. new \in Seq(MinWeight..MaxWeight) /\ Len(new) = n
    BY <1>2, <2>3, SequenceOf
  <2> QED BY <1>1, <1>3, <2>1, <2>4
<1>6. cells' \in Seq(Keys) /\ Len(cells') >= tot'["column"] * tot'["row"]
  <2> DEFINE m == tot'["column"] * tot'["row"]
  <2>1. cells' = Grown(cells, m)
    BY DEF SpinNr
  <2>2. m \in Nat
    BY <1>4
  <2> HIDE DEF m
  <2>3. cells' \in Seq(Keys) /\ Len(cells') >= m
    BY <1>1, <2>1, <2>2, GrownType
  <2> QED BY <2>3 DEF m
<1>7. exitCell' \in [Dims -> Nat] /\ \A e \in Dims : exitCell'[e] < tot'[e]
  <2>1. exitCell' = [e \in Dims |-> Clamped(exitCell[e], 0, tot'[e] - 1)]
    BY DEF SpinNr, ExitCellWithin
  <2>2. ASSUME NEW e \in Dims PROVE exitCell'[e] \in Nat /\ exitCell'[e] < tot'[e]
    <3>1. exitCell[e] \in Int /\ tot'[e] \in Nat /\ tot'[e] - 1 \in Nat
      BY <1>1, <1>4
    <3>2. exitCell'[e] \in Int /\ 0 <= exitCell'[e] /\ exitCell'[e] <= tot'[e] - 1
      <4> DEFINE x == exitCell[e]
                 hi == tot'[e] - 1
      <4>1. exitCell'[e] = Clamped(x, 0, hi) /\ x \in Int /\ hi \in Int /\ 0 <= hi
        BY <2>1, <3>1
      <4> HIDE DEF x, hi
      <4>2. /\ Clamped(x, 0, hi) \in Int
            /\ 0 <= Clamped(x, 0, hi) /\ Clamped(x, 0, hi) <= hi
        BY <4>1, ClampedWithin
      <4> QED BY <4>1, <4>2 DEF hi
    <3> QED BY <3>1, <3>2
  <2> QED BY <2>1, <2>2
<1>8. UNCHANGED <<inCell, percent>>
  BY DEF SpinNr
<1> QED BY <1>4, <1>5, <1>6, <1>7, <1>8 DEF GridInv, GridOK

-----------------------------------------------------------------------------
(* Every step keeps the invariant.                                         *)

\* A step that keeps the grid.
LEMMA GridKept ==
  ASSUME GridOK, UNCHANGED grid
  PROVE  GridOK'
  BY DEF GridOK, grid

\* A step that draws nothing and does not return to what was drawn.
LEMMA DrawKept ==
  ASSUME DrawOK, canvas' = canvas, drawn' \in BOOLEAN,
         drawn' /\ screen' = "keyboard" =>
           drawn /\ screen = "keyboard" /\ UNCHANGED <<tot, pos, center>>
  PROVE  DrawOK'
  BY DEF DrawOK, ExitReachable

LEMMA StartStep ==
  ASSUME GridInv, Start
  PROVE  GridInv'
<1>1. GridOK'
  BY StartLoads
<1>2. EditOK'
  <2>1. screen' = "main" /\ keyList' = KeyRows(cells', tot') /\ weightList' = weights'
    BY DEF Start
  <2> QED BY <2>1 DEF EditOK, ListsShowGrid, Visible
<1>3. DrawOK'
  BY DrawKept DEF GridInv, Start
<1>4. Rest'
  BY DEF GridInv, Rest, Start
<1> QED BY <1>1, <1>2, <1>3, <1>4 DEF GridInv

LEMMA QuitStep ==
  ASSUME GridInv, Quit
  PROVE  GridInv'
<1>1. GridOK'
  BY GridKept DEF GridInv, Quit
<1>2. EditOK'
  BY DEF EditOK, ListsShowGrid, Quit
<1>3. DrawOK'
  BY DrawKept DEF GridInv, DrawOK, Quit, drawing
<1>4. Rest'
  <2>1. Stored \in Configuration
    <3>1. /\ tot \in [Dims -> Int] /\ exitCell \in [Dims -> Int] /\ percent \in [Dims -> Int]
          /\ inCell \in BOOLEAN
      <4>1. /\ tot \in [Dims -> Nat \ {0}] /\ exitCell \in [Dims -> Nat]
            /\ percent \in [Dims -> 0..100] /\ inCell \in BOOLEAN
        BY DEF GridInv, GridOK
      <4> QED BY <4>1
    <3>2. weights \in [Dims -> Seq(Int)]
      <4>1. weights \in [Dims -> Seq(MinWeight..MaxWeight)] /\ MinWeight..MaxWeight \subseteq Int
        BY Bounds DEF GridInv, GridOK
      <4>2. \A d \in Dims : weights[d] \in Seq(Int)
        BY <4>1, WiderSequence
      <4> QED BY <4>1, <4>2
    <3>3. cells \in Seq(Int)
      <4>1. cells \in Seq(Keys) /\ Keys \subseteq Int
        BY Codes, GridAssumption DEF GridInv, GridOK
      <4> QED BY <4>1, WiderSequence
    <3> QED BY <3>1, <3>2, <3>3 DEF Stored, StoredCells, Configuration
  <2> QED BY <2>1 DEF GridInv, Rest, Quit
<1> QED BY <1>1, <1>2, <1>3, <1>4 DEF GridInv

LEMMA SpinNrStep ==
  ASSUME GridInv, NEW d \in Dims, NEW n \in 1..MaxGrid[d], SpinNr(d, n)
  PROVE  GridInv'
<1>1. GridOK'
  BY Resized
<1>2. EditOK'
  <2>1. screen' = "main" /\ keyList' = KeyRows(cells', tot') /\ weightList' = weights'
    BY DEF SpinNr
  <2> QED BY <2>1 DEF EditOK, ListsShowGrid, Visible
<1>3. DrawOK'
  BY DrawKept DEF GridInv, DrawOK, SpinNr, drawing
<1>4. Rest'
  BY Bounds DEF GridInv, Rest, SpinNr, Edits
<1> QED BY <1>1, <1>2, <1>3, <1>4 DEF GridInv

\* The steps to a screen where a value is entered and back without one.
LEMMA ActivateStep ==
  ASSUME GridInv,
         \/ \E d \in Dims : \E i \in 1..tot[d] : ActivateWeight(d, i)
         \/ \E c \in Cells(tot) : ActivateCell(c[1], c[2])
         \/ Cancel
  PROVE  GridInv'
<1>1. UNCHANGED <<grid, lists, drawing, conf, edits>> /\ screen \notin {"off", "keyboard"}
      /\ screen' \in {"main", "weight", "key"}
  BY DEF ActivateWeight, ActivateCell, Cancel, Closed
<1>2. GridOK'
  BY <1>1, GridKept DEF GridInv
<1>3. EditOK'
  <2>1. keyList' = KeyRows(cells', tot') /\ weightList' = weights'
    BY <1>1 DEF GridInv, EditOK, ListsShowGrid, Visible, grid, lists
  <2>2. tot' = tot
    BY <1>1 DEF grid
  <2>3. ASSUME NEW d \in Dims, NEW i \in 1..tot[d], ActivateWeight(d, i) PROVE EditOK'
    <3>1. screen' = "weight" /\ edited' = <<d, i>>
      BY <2>3 DEF ActivateWeight
    <3>2. tot[d] \in Nat
      BY DEF GridInv, GridOK
    <3>3. i \in Nat /\ edited' \in Dims \X Nat /\ edited'[1] = d /\ edited'[2] = i
      BY <3>1, <3>2
    <3> QED BY <2>1, <2>2, <3>1, <3>3 DEF EditOK, ListsShowGrid, Visible
  <2>4. ASSUME NEW c \in Cells(tot), ActivateCell(c[1], c[2]) PROVE EditOK'
    <3>1. screen' = "key" /\ edited' = <<c[1], c[2]>>
      BY <2>4 DEF ActivateCell
    <3>2. edited' = c
      BY <3>1 DEF Cells
    <3>3. edited' \in Cells(tot')
      BY <2>2, <3>2
    <3> QED BY <2>1, <3>1, <3>3 DEF EditOK, ListsShowGrid, Visible
  <2>5. ASSUME Cancel PROVE EditOK'
    <3>1. screen' = "main"
      BY <2>5 DEF Cancel, Closed
    <3> QED BY <2>1, <3>1 DEF EditOK, ListsShowGrid, Visible
  <2> QED BY <2>3, <2>4, <2>5
<1>4. DrawOK'
  BY <1>1, DrawKept DEF GridInv, DrawOK, drawing
<1>5. Rest'
  BY <1>1 DEF GridInv, Rest
<1> QED BY <1>2, <1>3, <1>4, <1>5 DEF GridInv

LEMMA EnterWeightStep ==
  ASSUME GridInv, NEW w \in Weights, EnterWeight(w)
  PROVE  GridInv'
<1>1. /\ edited \in Dims \X Nat /\ edited[2] \in 1..tot[edited[1]]
      /\ keyList = KeyRows(cells, tot) /\ weightList = weights
  BY DEF GridInv, EditOK, ListsShowGrid, Visible, EnterWeight
<1> DEFINE d == edited[1]
           i == edited[2]
<1>2. d \in Dims /\ i \in 1..tot[d]
  BY <1>1
<1>3. w \in MinWeight..MaxWeight
  BY GridAssumption
<1>4. weights' = [weights EXCEPT ![d][i] = w] /\ weightList' = weights'
  BY <1>1 DEF EnterWeight
<1> HIDE DEF d, i
<1>5. weights' \in [Dims -> Seq(MinWeight..MaxWeight)] /\ \A e \in Dims : Len(weights'[e]) = tot[e]
  <2> DEFINE q == weights[d]
             new == [q EXCEPT ![i] = w]
  <2>1. weights \in [Dims -> Seq(MinWeight..MaxWeight)] /\ \A e \in Dims : Len(weights[e]) = tot[e]
    BY DEF GridInv, GridOK
  <2>2. weights' = [weights EXCEPT ![d] = new]
    BY <1>4
  <2>3. q \in Seq(MinWeight..MaxWeight) /\ i \in 1..Len(q)
    BY <1>2, <2>1
  <2> HIDE DEF q
  <2>4. new \in Seq(MinWeight..MaxWeight) /\ Len(new) = Len(q)
    BY <1>3, <2>3
  <2> HIDE DEF new
  <2> QED BY <1>2, <2>1, <2>2, <2>4 DEF q
<1>6. GridOK'
  BY <1>5 DEF GridInv, GridOK, EnterWeight
<1>7. EditOK'
  <2>1. screen' = "main" /\ UNCHANGED <<keyList, cells, tot>>
    BY DEF EnterWeight, Closed
  <2> QED BY <1>1, <1>4, <2>1 DEF EditOK, ListsShowGrid, Visible
<1>8. DrawOK'
  BY DrawKept DEF GridInv, DrawOK, EnterWeight, Closed, drawing
<1>9. Rest'
  BY Bounds DEF GridInv, Rest, EnterWeight, Closed, Edits
<1> QED BY <1>6, <1>7, <1>8, <1>9 DEF GridInv

LEMMA EnterKeyStep ==
  ASSUME GridInv, NEW k \in Keys, EnterKey(k)
  PROVE  GridInv'
<1>1. /\ edited \in Cells(tot) /\ keyList = KeyRows(cells, tot) /\ weightList = weights
  BY DEF GridInv, EditOK, ListsShowGrid, Visible, EnterKey
<1>2. Sized(tot) /\ cells \in Seq(Keys) /\ Len(cells) >= tot["column"] * tot["row"]
      /\ tot["column"] * tot["row"] \in Nat
  BY DEF GridInv, GridOK, Sized
<1> DEFINE at == Index(edited[1], edited[2], tot)
<1>3. EditedIndex = at
  BY DEF GridInv, GridOK, EditedIndex, Index
<1>4. at \in 1..Len(cells)
  <2>1. at \in 1..(tot["column"] * tot["row"])
    BY <1>1, <1>2, IndexRange
  <2>2. Len(cells) \in Nat
    BY <1>2
  <2> HIDE DEF at
  <2> QED BY <1>2, <2>1, <2>2
<1>5. cells' = [cells EXCEPT ![at] = k] /\ keyList' = [keyList EXCEPT ![edited] = k]
  BY <1>3 DEF EnterKey
<1>6. cells' \in Seq(Keys) /\ Len(cells') = Len(cells)
  <2> HIDE DEF at
  <2> QED BY <1>2, <1>4, <1>5
<1>7. keyList' = KeyRows(cells', tot)
  <2>1. ASSUME NEW c \in Cells(tot)
        PROVE  keyList'[c] = cells'[Index(c[1], c[2], tot)]
    <3> DEFINE j == Index(c[1], c[2], tot)
    <3>1. j \in 1..(tot["column"] * tot["row"])
      BY <1>2, IndexRange
    <3>2. keyList[c] = cells[j]
      BY <1>1 DEF KeyRows
    <3>3. j = at => c = edited
      BY <1>1, <1>2, IndexInjective
    <3>4. j \in 1..Len(cells)
      <4>1. Len(cells) \in Nat
        BY <1>2
      <4> HIDE DEF j
      <4> QED BY <1>2, <3>1, <4>1
    <3>5. DOMAIN keyList = Cells(tot) /\ DOMAIN cells = 1..Len(cells)
      BY <1>1, <1>2 DEF KeyRows
    <3>6. c = edited => j = at
      OBVIOUS
    <3> HIDE DEF j, at
    <3> QED BY <1>5, <3>2, <3>3, <3>4, <3>5, <3>6 DEF j
  <2>2. keyList' = [c \in Cells(tot) |-> keyList'[c]]
    BY <1>1, <1>5 DEF KeyRows
  <2> QED BY <2>1, <2>2 DEF KeyRows
<1>8. GridOK'
  BY <1>6 DEF GridInv, GridOK, EnterKey
<1>9. EditOK'
  <2>1. screen' = "main" /\ UNCHANGED <<weights, weightList, tot>>
    BY DEF EnterKey, Closed
  <2> QED BY <1>1, <1>7, <2>1 DEF EditOK, ListsShowGrid, Visible
<1>10. DrawOK'
  BY DrawKept DEF GridInv, DrawOK, EnterKey, Closed, drawing
<1>11. Rest'
  BY Bounds DEF GridInv, Rest, EnterKey, Closed, Edits
<1> QED BY <1>8, <1>9, <1>10, <1>11 DEF GridInv

\* The steps that set where the exit button is.
LEMMA ExitButtonStep ==
  ASSUME GridInv,
         \/ \E d \in Dims : \E p \in Percents : SpinExitPosition(d, p)
         \/ KeysExitInCell
         \/ \E d \in Dims : \E i \in 0..(tot[d] - 1) : SpinExitInCell(d, i)
  PROVE  GridInv'
<1>1. /\ screen = "main" /\ Edits
      /\ UNCHANGED <<tot, weights, cells, lists, screen, edited, drawing, conf>>
  BY DEF SpinExitPosition, KeysExitInCell, SpinExitInCell
<1>2. /\ percent \in [Dims -> 0..100] /\ inCell \in BOOLEAN /\ tot \in [Dims -> Nat \ {0}]
      /\ exitCell \in [Dims -> Nat] /\ \A d \in Dims : exitCell[d] < tot[d]
  BY DEF GridInv, GridOK
<1>3. /\ percent' \in [Dims -> 0..100] /\ inCell' \in BOOLEAN
      /\ exitCell' \in [Dims -> Nat] /\ \A d \in Dims : exitCell'[d] < tot[d]
  <2>1. ASSUME NEW d \in Dims, NEW p \in Percents, SpinExitPosition(d, p)
        PROVE  percent' \in [Dims -> 0..100] /\ UNCHANGED <<inCell, exitCell>>
    <3>1. p \in 0..100
      BY GridAssumption
    <3> QED BY <1>2, <2>1, <3>1 DEF SpinExitPosition
  <2>2. ASSUME KeysExitInCell
        PROVE  inCell' \in BOOLEAN /\ UNCHANGED <<percent, exitCell>>
    BY <2>2 DEF KeysExitInCell
  <2>3. ASSUME NEW d \in Dims, NEW i \in 0..(tot[d] - 1), SpinExitInCell(d, i)
        PROVE  /\ UNCHANGED <<percent, inCell>>
               /\ exitCell' \in [Dims -> Nat] /\ \A e \in Dims : exitCell'[e] < tot[e]
    <3>1. i \in Nat /\ i < tot[d]
      BY <1>2
    <3>2. exitCell' = [exitCell EXCEPT ![d] = i]
      BY <2>3 DEF SpinExitInCell
    <3> QED BY <1>2, <2>3, <3>1, <3>2 DEF SpinExitInCell
  <2> QED BY <1>2, <2>1, <2>2, <2>3
<1>4. GridOK'
  BY <1>1, <1>3 DEF GridInv, GridOK
<1>5. EditOK'
  BY <1>1 DEF GridInv, EditOK, ListsShowGrid, Visible, lists
<1>6. DrawOK'
  BY <1>1, DrawKept DEF GridInv, DrawOK, drawing
<1>7. Rest'
  BY <1>1, Bounds DEF GridInv, Rest, Edits
<1> QED BY <1>4, <1>5, <1>6, <1>7 DEF GridInv

\* The steps to the keyboard and back.
LEMMA KeyboardStep ==
  ASSUME GridInv, OpenKeyboard \/ ExitKeyboard
  PROVE  GridInv'
<1>1. /\ UNCHANGED <<grid, lists, edited, pos, center, canvas, conf, edits>>
      /\ screen' \in {"main", "keyboard"} /\ screen \in {"main", "keyboard"}
  BY DEF OpenKeyboard, ExitKeyboard, drawing
<1>2. drawn' \in BOOLEAN /\ ~(drawn' /\ screen' = "keyboard")
  BY DEF GridInv, DrawOK, OpenKeyboard, ExitKeyboard, drawing
<1>3. GridOK'
  BY <1>1, GridKept DEF GridInv
<1>4. EditOK'
  BY <1>1 DEF GridInv, EditOK, ListsShowGrid, Visible, grid, lists
<1>5. DrawOK'
  BY <1>1, <1>2, DrawKept DEF GridInv
<1>6. Rest'
  BY <1>1 DEF GridInv, Rest
<1> QED BY <1>3, <1>4, <1>5, <1>6 DEF GridInv

LEMMA DrawStep ==
  ASSUME GridInv, Draw
  PROVE  GridInv'
<1>1. PICK size \in Canvases :
        /\ canvas' = size
        /\ \E ps \in Positions(weights["column"], size["column"] + Margin),
              qs \in Positions(weights["row"], size["row"] + Margin) :
             pos' = [d \in Dims |-> IF d = "column" THEN ps ELSE qs]
        /\ center' = [d \in Dims |-> Center(d, pos', size)]
  BY DEF Draw
<1>2. size \in [Dims -> Nat] /\ Margin \in Nat
  BY Bounds, GridAssumption
<1>3. /\ weights \in [Dims -> Seq(MinWeight..MaxWeight)] /\ \A d \in Dims : Len(weights[d]) = tot[d]
      /\ tot \in [Dims -> Nat \ {0}]
  BY DEF GridInv, GridOK
<1>4. \A d \in Dims : weights[d] \in Seq(Nat \ {0}) /\ Len(weights[d]) > 0
  <2>1. MinWeight..MaxWeight \subseteq Nat \ {0}
    BY Bounds
  <2>2. \A d \in Dims : weights[d] \in Seq(MinWeight..MaxWeight) /\ Len(weights[d]) > 0
    BY <1>3
  <2> QED BY <2>1, <2>2, WiderSequence
<1>5. \A d \in Dims : pos'[d] \in Positions(weights[d], size[d] + Margin)
  BY <1>1
<1>6. \A d \in Dims : Placed(pos'[d], tot[d], size[d] + Margin)
  <2> SUFFICES ASSUME NEW d \in Dims PROVE Placed(pos'[d], tot[d], size[d] + Margin)
    OBVIOUS
  <2> DEFINE ws == weights[d]
             pix == size[d] + Margin
  <2>1. ws \in Seq(Nat \ {0}) /\ Len(ws) > 0 /\ Len(ws) = tot[d]
    BY <1>3, <1>4
  <2>2. pix \in Nat /\ pos'[d] \in Positions(ws, pix)
    BY <1>2, <1>5
  <2> HIDE DEF ws, pix
  <2>3. Placed(pos'[d], Len(ws), pix)
    BY <2>1, <2>2, PositionsPlaced
  <2> QED BY <2>1, <2>3 DEF pix
<1>7. UNCHANGED <<grid, lists, screen, edited, conf, edits>> /\ drawn' = TRUE
  BY DEF Draw
<1>8. GridOK'
  BY <1>7, GridKept DEF GridInv
<1>9. EditOK'
  BY <1>7 DEF GridInv, EditOK, ListsShowGrid, Visible, grid, lists
<1>10. ASSUME NEW d \in Dims
       PROVE  /\ center'[d] - ExitSize \div 2 < size[d]
              /\ center'[d] + ExitSize \div 2 > 0
  <2>1. center'[d] = Center(d, pos', size)
    BY <1>1
  <2>2. GridOK /\ size[d] \in Nat
    BY <1>2 DEF GridInv
  <2> DEFINE at == pos'
  <2> HIDE DEF at
  <2>3. /\ Center(d, at, size) - ExitSize \div 2 < size[d]
        /\ Center(d, at, size) + ExitSize \div 2 > 0
    BY <1>6, <2>2, CenterReachable DEF at
  <2> QED BY <2>1, <2>3 DEF at
<1>11. DrawOK'
  <2>1. tot' = tot /\ canvas' = size
    BY <1>1, <1>7 DEF grid
  <2> QED BY <1>2, <1>6, <1>7, <1>10, <2>1 DEF DrawOK, ExitReachable
<1>12. Rest'
  BY <1>7 DEF GridInv, Rest
<1> QED BY <1>8, <1>9, <1>11, <1>12 DEF GridInv

LEMMA StepKeepsInv ==
  ASSUME GridInv, [Next]_vars
  PROVE  GridInv'
<1>1. CASE Start
  BY <1>1, StartStep
<1>2. CASE Quit
  BY <1>2, QuitStep
<1>3. ASSUME NEW d \in Dims, NEW n \in 1..MaxGrid[d], SpinNr(d, n) PROVE GridInv'
  BY <1>3, SpinNrStep
<1>4. CASE \/ \E d \in Dims : \E i \in 1..tot[d] : ActivateWeight(d, i)
           \/ \E c \in Cells(tot) : ActivateCell(c[1], c[2])
           \/ Cancel
  BY <1>4, ActivateStep
<1>5. CASE \/ \E d \in Dims : \E p \in Percents : SpinExitPosition(d, p)
           \/ KeysExitInCell
           \/ \E d \in Dims : \E i \in 0..(tot[d] - 1) : SpinExitInCell(d, i)
  BY <1>5, ExitButtonStep
<1>6. ASSUME NEW w \in Weights, EnterWeight(w) PROVE GridInv'
  BY <1>6, EnterWeightStep
<1>7. ASSUME NEW k \in Keys, EnterKey(k) PROVE GridInv'
  BY <1>7, EnterKeyStep
<1>8. CASE OpenKeyboard \/ ExitKeyboard
  BY <1>8, KeyboardStep
<1>9. CASE Draw
  BY <1>9, DrawStep
<1>10. CASE UNCHANGED vars
  <2>1. UNCHANGED <<grid, lists, screen, edited, pos, center, canvas, drawn, conf, edits>>
    BY <1>10 DEF vars, drawing
  <2>2. GridOK'
    BY <2>1, GridKept DEF GridInv
  <2>3. EditOK'
    BY <2>1 DEF GridInv, EditOK, ListsShowGrid, Visible, grid, lists
  <2>4. DrawOK'
    BY <2>1, DrawKept DEF GridInv, DrawOK, grid
  <2>5. Rest'
    BY <2>1 DEF GridInv, Rest
  <2> QED BY <2>2, <2>3, <2>4, <2>5 DEF GridInv
<1> QED BY <1>1, <1>2, <1>3, <1>4, <1>5, <1>6, <1>7, <1>8, <1>9, <1>10 DEF Next

LEMMA InitInv == Init => GridInv
<1> SUFFICES ASSUME Init PROVE GridInv
  OBVIOUS
<1>1. /\ screen = "off" /\ tot = [d \in Dims |-> 1] /\ weights = [d \in Dims |-> <<DefaultWeight>>]
      /\ cells = <<DefaultKeys[1]>> /\ inCell = FALSE /\ exitCell = [d \in Dims |-> 0]
      /\ percent = [d \in Dims |-> 50] /\ drawn = FALSE /\ edits = 0
      /\ canvas = [d \in Dims |-> 0] /\ conf \in Configs
  BY DEF Init
<1>2. <<DefaultWeight>> \in Seq(MinWeight..MaxWeight) /\ Len(<<DefaultWeight>>) = 1
  BY GridAssumption
<1>3. cells \in Seq(Keys) /\ Len(cells) = 1
  <2>1. MaxGrid["column"] \in Nat \ {0} /\ MaxGrid["row"] \in Nat \ {0}
    BY Bounds
  <2>2. 1 * 1 <= MaxGrid["column"] * MaxGrid["row"] /\ MaxGrid["column"] * MaxGrid["row"] \in Nat
    BY <2>1, ProductGrows
  <2>3. 1 \in 1..(MaxGrid["column"] * MaxGrid["row"])
    BY <2>2
  <2>4. DefaultKeys[1] \in Keys
    BY <2>3, GridAssumption
  <2> QED BY <1>1, <2>4
<1>4. GridOK
  <2>1. weights \in [Dims -> Seq(MinWeight..MaxWeight)] /\ \A d \in Dims : Len(weights[d]) = 1
    BY <1>1, <1>2
  <2>2. /\ tot \in [Dims -> Nat \ {0}] /\ \A d \in Dims : tot[d] = 1 /\ tot[d] <= MaxGrid[d]
    BY <1>1, Bounds
  <2>3. tot["column"] * tot["row"] = 1
    BY <2>2
  <2>4. /\ exitCell \in [Dims -> Nat] /\ \A d \in Dims : exitCell[d] < tot[d]
        /\ percent \in [Dims -> 0..100] /\ inCell \in BOOLEAN
    <3>1. exitCell \in [Dims -> Nat] /\ \A d \in Dims : exitCell[d] = 0
      BY <1>1
    <3>2. percent \in [Dims -> 0..100] /\ inCell \in BOOLEAN
      <4>1. 50 \in 0..100
        OBVIOUS
      <4>2. \A d \in Dims : 50 \in 0..100
        BY <4>1
      <4> QED BY <1>1, <4>2, Zenon
    <3> QED BY <2>2, <3>1, <3>2
  <2>5. cells \in Seq(Keys) /\ Len(cells) >= tot["column"] * tot["row"]
    BY <1>3, <2>3
  <2>6. \A d \in Dims : Len(weights[d]) = tot[d] /\ tot[d] <= MaxGrid[d]
    BY <2>1, <2>2
  <2> QED BY <2>1, <2>2, <2>4, <2>5, <2>6 DEF GridOK
<1>5. EditOK
  BY <1>1 DEF EditOK, ListsShowGrid
<1>6. DrawOK
  BY <1>1 DEF DrawOK, ExitReachable
<1>7. Rest
  BY <1>1, Bounds, GridAssumption DEF Rest
<1> QED BY <1>4, <1>5, <1>6, <1>7 DEF GridInv

LEMMA Invariant == Spec => []GridInv
<1>1. GridInv /\ [Next]_vars => GridInv'
  BY StepKeepsInv
<1> QED BY InitInv, <1>1, PTL DEF Spec

-----------------------------------------------------------------------------
(* The results.                                                            *)

\* Every index is within its array, for every configuration and every sequence
\* of edits.
THEOREM TypeCorrect == Spec => []TypeOK
  BY Invariant, InvMeans, PTL

\* The lists show the grid, and the row whose value is entered exists.
THEOREM ListsCorrect == Spec => []ListsShowGrid
  BY Invariant, InvMeans, PTL

\* A click finds the key that was drawn under it, and no other.
THEOREM ClickCorrect == Spec => []ClickFindsKey
  BY Invariant, ClickFinds, PTL

\* The exit button is never drawn where no click on the canvas reaches it.
THEOREM ExitCorrect == Spec => []ExitReachable
  BY Invariant, InvMeans, PTL

\* A step that loads what was stored, for the conjuncts of GridSurvives.
LEMMA LoadedIsStored ==
  ASSUME GridInv, Start, conf = Stored
  PROVE  /\ UNCHANGED <<tot, weights, inCell, exitCell, percent>>
         /\ KeyRows(cells', tot') = Visible
<1>1. /\ conf.tot = tot /\ conf.weights = weights /\ conf.cells = cells /\ conf.inCell = inCell
      /\ conf.exitCell = exitCell /\ conf.percent = percent
  BY DEF Stored, StoredCells
<1>2. /\ tot \in [Dims -> Nat \ {0}] /\ \A d \in Dims : tot[d] <= MaxGrid[d]
      /\ weights \in [Dims -> Seq(MinWeight..MaxWeight)] /\ \A d \in Dims : Len(weights[d]) = tot[d]
      /\ cells \in Seq(Keys) /\ Len(cells) >= tot["column"] * tot["row"]
      /\ exitCell \in [Dims -> Nat] /\ \A d \in Dims : exitCell[d] < tot[d]
      /\ percent \in [Dims -> 0..100]
  BY DEF GridInv, GridOK
<1>3. tot' = tot
  <2>1. tot' = [d \in Dims |-> Clamped(tot[d], 1, MaxGrid[d])]
    BY <1>1 DEF Start
  <2>2. ASSUME NEW d \in Dims PROVE Clamped(tot[d], 1, MaxGrid[d]) = tot[d]
    <3> DEFINE x == tot[d]
               hi == MaxGrid[d]
    <3>1. x \in Nat \ {0} /\ hi \in Nat \ {0} /\ x <= hi
      BY <1>2, Bounds
    <3> HIDE DEF x, hi
    <3>2. x \in Int /\ hi \in Int /\ 1 <= hi /\ 1 <= x /\ x <= hi
      BY <3>1
    <3>3. Clamped(x, 1, hi) = x
      BY <3>2, ClampedWithin
    <3> QED BY <3>3 DEF x, hi
  <2> QED BY <1>2, <2>1, <2>2
<1>4. weights' = weights
  <2>1. ASSUME NEW d \in Dims PROVE weights'[d] = weights[d]
    <3> DEFINE q == weights[d]
               n == tot[d]
               v == StringToVector(q, n, MinWeight, MaxWeight, DefaultWeight)
    <3>1. q \in Seq(MinWeight..MaxWeight) /\ n \in Nat /\ Len(q) = n
      BY <1>2
    <3>2. weights'[d] = v
      BY <1>1, <1>3 DEF Start
    <3>3. DefaultWeight \in MinWeight..MaxWeight
      BY GridAssumption
    <3> HIDE DEF q, n
    <3>4. DOMAIN v = 1..n /\ Len(v) = n /\ v \in Seq(MinWeight..MaxWeight)
      BY <3>1, <3>3, VectorType
    <3>5. \A i \in 1..n : v[i] = q[i]
      BY <3>1, VectorKept
    <3> HIDE DEF v
    <3>6. v = q
      BY <3>1, <3>4, <3>5
    <3> QED BY <3>2, <3>6 DEF q
  <2>2. weights' \in [Dims -> Seq(MinWeight..MaxWeight)]
    BY StartLoads DEF GridOK
  <2> QED BY <1>2, <2>1, <2>2
<1>5. exitCell' = exitCell
  <2>1. exitCell' = [d \in Dims |-> Clamped(exitCell[d], 0, tot[d] - 1)]
    BY <1>1, <1>3 DEF Start
  <2>2. ASSUME NEW d \in Dims PROVE Clamped(exitCell[d], 0, tot[d] - 1) = exitCell[d]
    <3> DEFINE x == exitCell[d]
               hi == tot[d] - 1
    <3>1. x \in Int /\ hi \in Int /\ 0 <= hi /\ 0 <= x /\ x <= hi
      BY <1>2
    <3> HIDE DEF x, hi
    <3>2. Clamped(x, 0, hi) = x
      BY <3>1, ClampedWithin
    <3> QED BY <3>2 DEF x, hi
  <2> QED BY <1>2, <2>1, <2>2
<1>6. percent' = percent
  <2>1. percent' = [d \in Dims |-> Clamped(percent[d], 0, 100)]
    BY <1>1 DEF Start
  <2>2. ASSUME NEW d \in Dims PROVE Clamped(percent[d], 0, 100) = percent[d]
    <3> DEFINE x == percent[d]
    <3>1. x \in Int /\ 0 <= x /\ x <= 100
      <4>1. x \in 0..100
        BY <1>2, Zenon
      <4> HIDE DEF x
      <4> QED BY <4>1
    <3> HIDE DEF x
    <3>2. Clamped(x, 0, 100) = x
      BY <3>1, ClampedWithin
    <3> QED BY <3>2 DEF x
  <2> QED BY <1>2, <2>1, <2>2
<1>7. inCell' = inCell
  BY <1>1 DEF Start
<1>8. KeyRows(cells', tot') = Visible
  <2> DEFINE n == tot["column"] * tot["row"]
             codes == StringToVector(cells, n, -1, MaxCode, -1)
  <2>1. Sized(tot) /\ n \in Nat
    BY <1>2 DEF Sized
  <2>2. cells' = [i \in DOMAIN codes |-> KeyOfCode(codes[i], i)]
    BY <1>1, <1>3 DEF Start
  <2> HIDE DEF n
  <2>3. n <= Len(cells) /\ Len(cells) \in Nat
    BY <1>2 DEF n
  <2>4. cells \in Seq(-1..MaxCode)
    <3>1. Keys \subseteq -1..MaxCode
      BY Codes, GridAssumption
    <3> QED BY <1>2, <3>1, WiderSequence
  <2>5. DOMAIN codes = 1..n
    BY <2>1, <2>3, Codes, VectorType
  <2>6. \A i \in 1..n : codes[i] = cells[i]
    BY <2>1, <2>3, <2>4, VectorKept
  <2> HIDE DEF codes
  <2>7. ASSUME NEW i \in 1..n PROVE cells'[i] = cells[i]
    <3>1. i \in 1..Len(cells)
      BY <2>1, <2>3
    <3>2. cells[i] \in Keys
      BY <1>2, <3>1, Elements
    <3>3. cells[i] \in Nat
      BY <3>2, Codes, GridAssumption
    <3>4. cells'[i] = KeyOfCode(cells[i], i)
      BY <2>2, <2>5, <2>6
    <3> DEFINE k == cells[i]
    <3> HIDE DEF k
    <3>5. KeyOfCode(k, i) = k
      BY <3>2, <3>3, SMT DEF KeyOfCode, k
    <3> QED BY <3>4, <3>5 DEF k
  <2>8. ASSUME NEW c \in Cells(tot)
        PROVE  cells'[Index(c[1], c[2], tot)] = cells[Index(c[1], c[2], tot)]
    BY <2>1, <2>7, IndexRange DEF n
  <2> QED BY <1>3, <2>8 DEF KeyRows, Visible
<1> QED BY <1>3, <1>4, <1>5, <1>6, <1>7, <1>8

\* What is stored is what is loaded: the grid, every key that can be seen, the
\* weights and the exit button.
THEOREM GridKeptCorrect == Spec => GridSurvives
<1>1. ASSUME GridInv, [Next]_vars
      PROVE  [Start /\ conf = Stored =>
                /\ UNCHANGED <<tot, weights, inCell, exitCell, percent>>
                /\ KeyRows(cells', tot') = Visible]_vars
  BY <1>1, LoadedIsStored
<1> QED BY Invariant, <1>1, PTL DEF Spec, GridSurvives
=============================================================================
