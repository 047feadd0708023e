----------------------------- MODULE Induction -----------------------------
(* Induction over the natural numbers, and what recursive functions compute.  *)
(* The library's rule of induction takes an operator, which the provers       *)
(* cannot instantiate; that a set of numbers has a least element is the same   *)
(* and takes none.                                                            *)
EXTENDS Integers, Sequences, WellFoundedInduction, TLAPS

LEMMA LeastOf ==
    ASSUME NEW R, IsWellFoundedOn(R, Nat), \A x, y \in Nat : y < x => <<y, x>> \in R,
           NEW T, T \subseteq Nat, T # {}
    PROVE  \E n \in T : \A m \in T : n <= m
<1>1. PICK x \in T : \A y \in T : <<y, x>> \notin R
  BY WFMin
<1>2. ASSUME NEW m \in T PROVE x <= m
  <2>1. x \in Nat /\ m \in Nat /\ ~(m < x)
    BY <1>1
  <2>. QED
    BY <2>1
<1>. QED
  BY <1>2

\* A set of numbers that is not empty has a least one.
LEMMA LeastNat ==
    ASSUME NEW T, T \subseteq Nat, T # {}
    PROVE  \E n \in T : \A m \in T : n <= m
<1>. SUFFICES \E R : IsWellFoundedOn(R, Nat) /\ \A x, y \in Nat : y < x => <<y, x>> \in R
  BY LeastOf
<1>. DEFINE R == OpToRel(<, Nat)
<1>1. IsWellFoundedOn(R, Nat)
  BY NatLessThanWellFounded
<1>2. \A x, y \in Nat : y < x => <<y, x>> \in R
  BY DEF R, OpToRel
<1>. HIDE DEF R
<1>. QED
  BY <1>1, <1>2

\* A set that has 0 and the successors of its members has every number.
LEMMA AllNats ==
    ASSUME NEW S, 0 \in S, \A n \in Nat : n \in S => n + 1 \in S
    PROVE  \A n \in Nat : n \in S
<1>. DEFINE T == {n \in Nat : n \notin S}
<1>1. SUFFICES ASSUME T # {} PROVE FALSE
  OBVIOUS
<1>2. PICK m \in T : \A k \in T : m <= k
  BY <1>1, LeastNat
<1>3. m \in Nat /\ m \notin S
  OBVIOUS
<1>4. m - 1 \in Nat /\ ~(m <= m - 1)
  BY <1>3
<1>5. m - 1 \in S
  BY <1>2, <1>4
<1>. QED
  BY <1>3, <1>4, <1>5

-----------------------------------------------------------------------------
(* The products of a sequence: what a loop over it has accumulated behind   *)
(* each of its elements.                                                    *)

Monoid(M, op, e) ==
    /\ e \in M /\ op \in [M -> [M -> M]]
    /\ \A x \in M : op[e][x] = x /\ op[x][e] = x
    /\ \A x, y, z \in M : op[op[x][y]][z] = op[x][op[y][z]]

ProductsOf(f, s, M, op, e) ==
    /\ f \in [0..Len(s) -> M]
    /\ f[0] = e
    /\ \A i \in 1..Len(s) : f[i] = op[f[i - 1]][s[i]]

Product(s, M, op, e) == (CHOOSE f : ProductsOf(f, s, M, op, e))[Len(s)]

\* The empty sequence has products, and those of a sequence can be continued.
LEMMA ProductsContinue ==
    ASSUME NEW M, NEW op, NEW e, Monoid(M, op, e), NEW s \in Seq(M), NEW x \in M,
           NEW f, ProductsOf(f, s, M, op, e)
    PROVE  ProductsOf([i \in 0..Len(s) + 1 |-> IF i = Len(s) + 1 THEN op[f[Len(s)]][x]
                                              ELSE f[i]],
                      Append(s, x), M, op, e)
<1>. DEFINE n == Len(s)
            t == Append(s, x)
            g == [i \in 0..n + 1 |-> IF i = n + 1 THEN op[f[n]][x] ELSE f[i]]
<1>1. /\ n \in Nat /\ Len(t) = n + 1 /\ t[n + 1] = x
      /\ \A i \in 1..n : t[i] = s[i]
  OBVIOUS
<1>2. /\ f \in [0..n -> M] /\ f[0] = e
      /\ \A i \in 1..n : f[i] = op[f[i - 1]][s[i]]
  BY DEF ProductsOf
<1>. HIDE DEF n, t
<1>3. op[f[n]][x] \in M
  <2>1. f[n] \in M
    BY <1>1, <1>2
  <2>. QED
    BY <2>1 DEF Monoid
<1>4. g \in [0..n + 1 -> M]
  BY <1>1, <1>2, <1>3
<1>5. g[0] = e
  BY <1>1, <1>2
<1>6. ASSUME NEW i \in 1..n + 1 PROVE g[i] = op[g[i - 1]][t[i]]
  <2>1. g[i - 1] = f[i - 1]
    BY <1>1
  <2>2. CASE i = n + 1
    BY <1>1, <2>1, <2>2
  <2>3. CASE i \in 1..n
    BY <1>1, <1>2, <2>1, <2>3
  <2>. QED
    BY <1>1, <2>2, <2>3
<1>7. ProductsOf(g, t, M, op, e)
  BY <1>1, <1>4, <1>5, <1>6 DEF ProductsOf
<1>. QED
  BY <1>7 DEF n, t

\* Every sequence has products.
LEMMA ProductsExist ==
    ASSUME NEW M, NEW op, NEW e, Monoid(M, op, e)
    PROVE  \A s \in Seq(M) : \E f : ProductsOf(f, s, M, op, e)
<1>. DEFINE S == {n \in Nat : \A s \in Seq(M) : Len(s) = n => \E f : ProductsOf(f, s, M, op, e)}
<1>1. 0 \in S
  <2>1. SUFFICES ASSUME NEW s \in Seq(M), Len(s) = 0
                 PROVE  \E f : ProductsOf(f, s, M, op, e)
    OBVIOUS
  <2>2. ProductsOf([i \in 0..0 |-> e], s, M, op, e)
    BY <2>1 DEF ProductsOf, Monoid
  <2>. QED
    BY <2>2
<1>2. ASSUME NEW n \in Nat, n \in S PROVE n + 1 \in S
  <2>1. SUFFICES ASSUME NEW s \in Seq(M), Len(s) = n + 1
                 PROVE  \E f : ProductsOf(f, s, M, op, e)
    OBVIOUS
  <2>. DEFINE r == SubSeq(s, 1, n)
  <2>2. r \in Seq(M) /\ Len(r) = n /\ s[n + 1] \in M /\ s = Append(r, s[n + 1])
    BY <2>1
  <2>3. PICK f : ProductsOf(f, r, M, op, e)
    BY <1>2, <2>2
  <2>. HIDE DEF r
  <2>. QED
    BY <2>2, <2>3, ProductsContinue
<1>. HIDE DEF S
<1>3. \A n \in Nat : n \in S
  BY <1>1, <1>2, AllNats
<1>4. ASSUME NEW s \in Seq(M) PROVE \E f : ProductsOf(f, s, M, op, e)
  <2>1. Len(s) \in S
    BY <1>3
  <2>. QED
    BY <2>1 DEF S
<1>. QED
  BY <1>4

\* What agrees with them at one place and goes on like them is them.
LEMMA ProductsUnique ==
    ASSUME NEW M, NEW op, NEW e, Monoid(M, op, e), NEW s \in Seq(M),
           NEW f, ProductsOf(f, s, M, op, e),
           NEW k \in 0..Len(s), NEW h, h[k] = f[k],
           \A i \in k + 1..Len(s) : h[i] = op[h[i - 1]][s[i]]
    PROVE  \A i \in k..Len(s) : h[i] = f[i]
<1>. DEFINE n == Len(s)
            S == {d \in Nat : k + d <= n => h[k + d] = f[k + d]}
<1>1. n \in Nat /\ k \in 0..n
  OBVIOUS
<1>2. \A i \in 1..n : f[i] = op[f[i - 1]][s[i]]
  BY DEF ProductsOf
<1>3. \A i \in k + 1..n : h[i] = op[h[i - 1]][s[i]]
  OBVIOUS
<1>. HIDE DEF n
<1>4. 0 \in S
  BY <1>1
<1>5. ASSUME NEW d \in Nat, d \in S PROVE d + 1 \in S
  <2>1. SUFFICES ASSUME k + (d + 1) <= n PROVE h[k + (d + 1)] = f[k + (d + 1)]
    OBVIOUS
  <2>. DEFINE i == k + (d + 1)
  <2>2. i \in 1..n /\ i \in k + 1..n /\ i - 1 = k + d /\ k + d <= n
    BY <1>1, <2>1
  <2>3. h[i - 1] = f[i - 1]
    BY <1>5, <2>2
  <2>. HIDE DEF i
  <2>4. h[i] = f[i]
    BY <1>2, <1>3, <2>2, <2>3
  <2>. QED
    BY <2>4 DEF i
<1>. HIDE DEF S
<1>6. \A d \in Nat : d \in S
  BY <1>4, <1>5, AllNats
<1>7. ASSUME NEW i \in k..n PROVE h[i] = f[i]
  <2>1. i - k \in Nat /\ k + (i - k) = i /\ k + (i - k) <= n
    BY <1>1
  <2>2. i - k \in S
    BY <1>6, <2>1
  <2>. QED
    BY <2>1, <2>2 DEF S
<1>. QED
  BY <1>7 DEF n

\* The product is that of the products' last place, whichever they are.
LEMMA ProductIs ==
    ASSUME NEW M, NEW op, NEW e, Monoid(M, op, e), NEW s \in Seq(M),
           NEW f, ProductsOf(f, s, M, op, e)
    PROVE  /\ Product(s, M, op, e) = f[Len(s)]
           /\ Product(s, M, op, e) \in M
<1>. DEFINE g == CHOOSE h : ProductsOf(h, s, M, op, e)
<1>1. ProductsOf(g, s, M, op, e)
  OBVIOUS
<1>2. Product(s, M, op, e) = g[Len(s)]
  BY DEF Product
<1>. HIDE DEF g
<1>3. 0 \in 0..Len(s) /\ Len(s) \in 0..Len(s) /\ f \in [0..Len(s) -> M]
      /\ f[0] = g[0] /\ \A i \in 0 + 1..Len(s) : g[i] = op[g[i - 1]][s[i]]
  BY <1>1 DEF ProductsOf
<1>4. g[Len(s)] = f[Len(s)]
  BY <1>3, ProductsUnique
<1>. QED
  BY <1>2, <1>3, <1>4

LEMMA ProductEmpty ==
    ASSUME NEW M, NEW op, NEW e, Monoid(M, op, e), NEW s \in Seq(M)
    PROVE  Len(s) = 0 => Product(s, M, op, e) = e
<1>1. PICK f : ProductsOf(f, s, M, op, e)
  BY ProductsExist
<1>2. f[0] = e
  BY <1>1 DEF ProductsOf
<1>3. Product(s, M, op, e) = f[Len(s)]
  BY <1>1, ProductIs
<1>. QED
  BY <1>2, <1>3

\* t is s and one element more; t is s without its first element.
Continues(t, s) == Len(t) = Len(s) + 1 /\ \A i \in 1..Len(s) : t[i] = s[i]
IsTailOf(t, s) == Len(s) = Len(t) + 1 /\ \A i \in 1..Len(t) : t[i] = s[i + 1]

LEMMA ProductAppend ==
    ASSUME NEW M, NEW op, NEW e, Monoid(M, op, e), NEW s \in Seq(M), NEW t \in Seq(M),
           Continues(t, s)
    PROVE  Product(t, M, op, e) = op[Product(s, M, op, e)][t[Len(t)]]
<1>. DEFINE n == Len(s)
<1>1. /\ n \in Nat /\ Len(t) = n + 1 /\ n + 1 \in 1..n + 1 /\ n \in 0..n + 1
      /\ (n + 1) - 1 = n /\ \A i \in 1..n : t[i] = s[i]
  BY DEF Continues
<1>2. PICK f : ProductsOf(f, t, M, op, e)
  BY ProductsExist
<1>3. PICK g : ProductsOf(g, s, M, op, e)
  BY ProductsExist
<1>4. f[n] = g[n]
  <2>1. /\ f[0] = e /\ g[0] = e /\ 0 \in 0..Len(s)
        /\ \A i \in 1..n + 1 : f[i] = op[f[i - 1]][t[i]]
    BY <1>1, <1>2, <1>3 DEF ProductsOf
  <2>2. \A i \in 0 + 1..Len(s) : f[i] = op[f[i - 1]][s[i]]
    BY <1>1, <2>1
  <2>3. n \in 0..Len(s)
    BY <1>1
  <2>. QED
    BY <1>3, <2>1, <2>2, <2>3, ProductsUnique
<1>5. f[n + 1] = op[f[n]][t[n + 1]]
  BY <1>1, <1>2 DEF ProductsOf
<1>6. Product(t, M, op, e) = f[Len(t)] /\ Product(s, M, op, e) = g[n]
  BY <1>2, <1>3, ProductIs
<1>. QED
  BY <1>1, <1>4, <1>5, <1>6

\* The first element can be taken off in front.
LEMMA ProductHead ==
    ASSUME NEW M, NEW op, NEW e, Monoid(M, op, e), NEW s \in Seq(M), NEW t \in Seq(M),
           IsTailOf(t, s)
    PROVE  Product(s, M, op, e) = op[s[1]][Product(t, M, op, e)]
<1>. DEFINE n == Len(t)
            a == s[1]
<1>1. /\ n \in Nat /\ Len(s) = n + 1 /\ a \in M
      /\ \A i \in 1..n : t[i] = s[i + 1] /\ t[i] \in M
  BY DEF IsTailOf
<1>2. PICK f : ProductsOf(f, s, M, op, e)
  BY ProductsExist
<1>3. PICK g : ProductsOf(g, t, M, op, e)
  BY ProductsExist
<1>. HIDE DEF n, a
<1>. DEFINE h == [i \in 1..n + 1 |-> op[a][g[i - 1]]]
<1>4. /\ \A i \in 0..n : g[i] \in M
      /\ g[0] = e /\ f[0] = e
      /\ \A i \in 1..n : g[i] = op[g[i - 1]][t[i]]
      /\ f[1] = op[f[0]][a]
  <2>1. /\ g \in [0..n -> M] /\ g[0] = e /\ f[0] = e
        /\ \A i \in 1..n : g[i] = op[g[i - 1]][t[i]]
    BY <1>2, <1>3 DEF ProductsOf, n
  <2>2. 1 \in 1..Len(s) /\ 1 - 1 = 0
    BY <1>1
  <2>3. f[1] = op[f[1 - 1]][s[1]]
    BY <1>2, <2>2 DEF ProductsOf
  <2>. QED
    BY <2>1, <2>2, <2>3 DEF a
<1>5. h[1] = f[1]
  <2>1. f[1] = a /\ op[a][e] = a
    BY <1>1, <1>4 DEF Monoid
  <2>2. 1 \in 1..n + 1
    BY <1>1
  <2>. QED
    BY <1>4, <2>1, <2>2
<1>6. ASSUME NEW i \in 2..n + 1 PROVE h[i] = op[h[i - 1]][s[i]]
  <2>. DEFINE j == i - 1
  <2>1. j \in 1..n /\ j - 1 \in 0..n /\ i = j + 1 /\ i \in 1..n + 1 /\ j \in 1..n + 1
    BY <1>1
  <2>. HIDE DEF j
  <2>2. t[j] = s[i] /\ t[j] \in M /\ g[j - 1] \in M /\ g[j] = op[g[j - 1]][t[j]]
    BY <1>1, <1>4, <2>1
  <2>3. op[op[a][g[j - 1]]][t[j]] = op[a][op[g[j - 1]][t[j]]]
    BY <1>1, <2>2 DEF Monoid
  <2>4. h[i] = op[a][g[j]] /\ h[j] = op[a][g[j - 1]] /\ i - 1 = j
    BY <2>1
  <2>. QED
    BY <2>2, <2>3, <2>4
<1>. HIDE DEF h
<1>7. h[n + 1] = f[n + 1]
  <2>1. 1 \in 0..Len(s) /\ n + 1 \in 1..Len(s) /\ 1 + 1 = 2 /\ Len(s) = n + 1
    BY <1>1
  <2>2. \A i \in 1 + 1..Len(s) : h[i] = op[h[i - 1]][s[i]]
    BY <1>6, <2>1
  <2>. QED
    BY <1>2, <1>5, <2>1, <2>2, ProductsUnique
<1>8. h[n + 1] = op[a][g[n]]
  BY <1>1 DEF h
<1>9. Product(s, M, op, e) = f[n + 1] /\ Product(t, M, op, e) = g[n]
  BY <1>1, <1>2, <1>3, ProductIs DEF n
<1>. QED
  BY <1>7, <1>8, <1>9 DEF a

-----------------------------------------------------------------------------
(* What a loop over 1..last has made of z behind each of its rounds.        *)

Rounds(step, last, Z) == \A i \in 1..last : step[i] \in [Z -> Z]
IterationOf(f, z, step, last, Z) ==
    /\ f \in [0..last -> Z] /\ f[0] = z
    /\ \A i \in 1..last : f[i] = step[i][f[i - 1]]

LEMMA IterationExists ==
    ASSUME NEW Z, NEW z \in Z, NEW step, NEW last \in Nat, Rounds(step, last, Z)
    PROVE  \E f : IterationOf(f, z, step, last, Z)
<1>. DEFINE IsLoop(f, n) == IterationOf(f, z, step, n, Z)
            S == {n \in Nat : n <= last => \E f : IsLoop(f, n)}
<1>0. \A i \in 1..last : step[i] \in [Z -> Z]
  BY DEF Rounds
<1>1. 0 \in S
  <2>1. IsLoop([i \in 0..0 |-> z], 0)
    BY DEF IterationOf
  <2>. HIDE DEF IsLoop
  <2>. QED
    BY <2>1
<1>2. ASSUME NEW n \in Nat, n \in S PROVE n + 1 \in S
  <2>1. SUFFICES ASSUME n + 1 <= last PROVE \E f : IsLoop(f, n + 1)
    OBVIOUS
  <2>2. PICK f : IsLoop(f, n)
    BY <1>2, <2>1
  <2>. DEFINE g == [i \in 0..n + 1 |-> IF i <= n THEN f[i] ELSE step[n + 1][f[n]]]
  <2>3. f \in [0..n -> Z] /\ f[n] \in Z /\ n + 1 \in 1..last
    BY <2>1, <2>2 DEF IterationOf
  <2>4. step[n + 1][f[n]] \in Z
    BY <1>0, <2>3
  <2>5. g \in [0..n + 1 -> Z] /\ g[0] = z
    BY <2>2, <2>3, <2>4 DEF IterationOf
  <2>6. ASSUME NEW i \in 1..n + 1 PROVE g[i] = step[i][g[i - 1]]
    <3>1. CASE i <= n
      <4>1. i \in 1..n /\ i - 1 \in 0..n /\ i \in 0..n + 1 /\ i - 1 \in 0..n + 1 /\ i - 1 <= n
        BY <3>1
      <4>2. g[i] = f[i] /\ g[i - 1] = f[i - 1]
        BY <3>1, <4>1
      <4>. QED
        BY <2>2, <4>1, <4>2 DEF IterationOf
    <3>2. CASE i = n + 1
      <4>1. i - 1 = n /\ n \in 0..n + 1 /\ i \in 0..n + 1 /\ ~(i <= n)
        BY <3>2
      <4>2. g[i] = step[n + 1][f[n]] /\ g[n] = f[n]
        BY <4>1
      <4>. QED
        BY <3>2, <4>1, <4>2
    <3>. QED
      BY <3>1, <3>2
  <2>7. IsLoop(g, n + 1)
    BY <2>5, <2>6 DEF IterationOf
  <2>. HIDE DEF IsLoop
  <2>. QED
    BY <2>7
<1>. HIDE DEF S
<1>3. last \in S
  BY <1>1, <1>2, AllNats
<1>4. PICK f : IsLoop(f, last)
  BY <1>3 DEF S
<1>. QED
  BY <1>4

=============================================================================
