------------------------- MODULE SubstitutionProofs -------------------------
(***************************************************************************)
(* Theorems about module Substitution, for any paths, parameters and texts *)
(* that its assumptions allow, and any number of runs.                     *)
(***************************************************************************)
EXTENDS Substitution, WellFoundedInduction, SequenceTheorems, TLAPS

(* Every set of numbers has a least one: the induction that the lemmas     *)
(* below are proved by, on the least number for which one would be false.  *)
LEMMA Least ==
    ASSUME NEW T \in SUBSET Nat, T # {}
    PROVE  \E x \in T : \A y \in T : x <= y
<1>. DEFINE R == OpToRel(<, Nat)
<1>1. IsWellFoundedOn(R, Nat)
  BY NatLessThanWellFounded
<1>. HIDE DEF R
<1>2. PICK x \in T : \A y \in T : ~(<<y, x>> \in R)
  BY <1>1, WFMin
<1>3. ASSUME NEW y \in T, y < x
      PROVE  FALSE
  <2>1. <<y, x>> \in R
    BY <1>3 DEF R, OpToRel
  <2>. QED
    BY <1>2, <2>1
<1>. QED
  BY <1>2, <1>3

LEMMA UpTo ==
    ASSUME NEW m \in Nat, NEW G, \A n \in 1..m : n = 1 \/ n - 1 \in G => n \in G
    PROVE  \A n \in 1..m : n \in G
<1>. DEFINE T == {n \in 1..m : n \notin G}
<1>. SUFFICES ASSUME T # {} PROVE FALSE
  OBVIOUS
<1>1. T \in SUBSET Nat
  OBVIOUS
<1>2. PICK x \in T : \A y \in T : x <= y
  <2>. HIDE DEF T
  <2>. QED
    BY <1>1, Least
<1>3. x \in 1..m /\ x # 1 /\ x \notin G /\ x - 1 \in 1..m
  OBVIOUS
<1>4. x - 1 \notin T
  BY <1>2, <1>3
<1>. QED
  BY <1>3, <1>4

LEMMA MinIsLeast ==
    ASSUME NEW T \in SUBSET Nat, T # {}
    PROVE  Min(T) \in T /\ \A y \in T : Min(T) <= y
BY Least DEF Min

LEMMA MaxOfTwo ==
    ASSUME NEW a \in Nat, NEW b \in Nat
    PROVE  Max({a, b}) = IF a >= b THEN a ELSE b
BY DEF Max

-----------------------------------------------------------------------------
(* FlattenSeq.                                                             *)

(* It is defined by recursion: of what it says of each length there is a   *)
(* function.                                                               *)
Flattening(s, m) == \E f : f = [n \in 1..m |-> IF n = 1 THEN s[n] ELSE f[n - 1] \o s[n]]

LEMMA FlatteningStep ==
    ASSUME NEW s, NEW m \in Nat, Flattening(s, m)
    PROVE  Flattening(s, m + 1)
<1>1. PICK f : f = [n \in 1..m |-> IF n = 1 THEN s[n] ELSE f[n - 1] \o s[n]]
  BY DEF Flattening
<1>. DEFINE last == IF m = 0 THEN s[1] ELSE f[m] \o s[m + 1]
            g == [n \in 1..(m + 1) |-> IF n = m + 1 THEN last ELSE f[n]]
            h == [n \in 1..(m + 1) |-> IF n = 1 THEN s[n] ELSE g[n - 1] \o s[n]]
<1>2. ASSUME NEW n \in 1..(m + 1)
      PROVE  g[n] = h[n]
  <2>1. CASE n = m + 1
    BY <2>1
  <2>2. CASE n # m + 1
    <3>1. n \in 1..m /\ (n # 1 => n - 1 \in 1..m /\ n - 1 \in 1..(m + 1) /\ n - 1 # m + 1)
      BY <2>2
    <3>2. f[n] = IF n = 1 THEN s[n] ELSE f[n - 1] \o s[n]
      BY <1>1, <3>1
    <3>. QED
      BY <3>1, <3>2
  <2>. QED
    BY <2>1, <2>2
<1>3. g = h
  <2>. HIDE DEF last
  <2>. QED
    BY <1>2
<1>. HIDE DEF g
<1>. QED
  BY <1>3 DEF Flattening

LEMMA FlatteningExists ==
    ASSUME NEW s, NEW m \in Nat
    PROVE  Flattening(s, m)
<1>. DEFINE T == {n \in Nat : ~Flattening(s, n)}
<1>. SUFFICES ASSUME T # {} PROVE FALSE
  OBVIOUS
<1>1. PICK x \in T : \A y \in T : x <= y
  BY Least
<1>2. Flattening(s, 0)
  <2>1. [n \in {} |-> {}] = [n \in 1..0 |->
           IF n = 1 THEN s[n] ELSE [k \in {} |-> {}][n - 1] \o s[n]]
    OBVIOUS
  <2>. QED
    BY <2>1 DEF Flattening
<1>3. x # 0 /\ x - 1 \in Nat
  BY <1>1, <1>2
<1>4. Flattening(s, x - 1)
  BY <1>1, <1>3
<1>5. Flattening(s, (x - 1) + 1)
  BY <1>3, <1>4, FlatteningStep
<1>. QED
  BY <1>1, <1>3, <1>5

(* What remains to be known of it, if it is not empty.                     *)
LEMMA Flattened ==
    ASSUME NEW s, NEW m \in Nat \ {0}, Len(s) = m
    PROVE  \E f : /\ f = [n \in 1..m |-> IF n = 1 THEN s[n] ELSE f[n - 1] \o s[n]]
                  /\ FlattenSeq(s) = f[m]
<1>. DEFINE f == CHOOSE f : f = [n \in 1..m |-> IF n = 1 THEN s[n] ELSE f[n - 1] \o s[n]]
<1>1. f = [n \in 1..m |-> IF n = 1 THEN s[n] ELSE f[n - 1] \o s[n]]
  <2>1. \E g : g = [n \in 1..m |-> IF n = 1 THEN s[n] ELSE g[n - 1] \o s[n]]
    BY FlatteningExists DEF Flattening
  <2>. QED
    BY <2>1
<1>2. FlattenSeq(s) = f[m]
  BY DEF FlattenSeq
<1>. HIDE DEF f
<1>. QED
  BY <1>1, <1>2

(* Two sequences, one behind the other.                                    *)
LEMMA Joined ==
    ASSUME NEW S, NEW a \in Seq(S), NEW b \in Seq(S)
    PROVE  /\ a \o b \in Seq(S) /\ Len(a \o b) = Len(a) + Len(b)
           /\ \A n \in 1..Len(a) : (a \o b)[n] = a[n]
           /\ \A n \in 1..Len(b) : (a \o b)[Len(a) + n] = b[n]
<1>1. /\ a \o b \in Seq(S) /\ Len(a \o b) = Len(a) + Len(b)
      /\ \A n \in 1..(Len(a) + Len(b)) :
            (a \o b)[n] = IF n <= Len(a) THEN a[n] ELSE b[n - Len(a)]
  BY ConcatProperties
<1>2. Len(a) \in Nat /\ Len(b) \in Nat
  OBVIOUS
<1>3. ASSUME NEW n \in 1..Len(b)
      PROVE  (a \o b)[Len(a) + n] = b[n]
  <2>1. /\ Len(a) + n \in 1..(Len(a) + Len(b))
        /\ ~(Len(a) + n <= Len(a)) /\ (Len(a) + n) - Len(a) = n
    BY <1>2
  <2>. QED
    BY <1>1, <2>1
<1>. QED
  BY <1>1, <1>2, <1>3

(* Pieces that are not empty.                                              *)
LEMMA FlattenPieces ==
    ASSUME NEW S, NEW m \in Nat \ {0}, NEW s, Len(s) = m,
           \A n \in 1..m : s[n] \in Seq(S) /\ Len(s[n]) > 0
    PROVE  FlattenSeq(s) \in Seq(S) /\ Len(FlattenSeq(s)) > 0
<1>1. PICK f : /\ f = [n \in 1..m |-> IF n = 1 THEN s[n] ELSE f[n - 1] \o s[n]]
               /\ FlattenSeq(s) = f[m]
  BY Flattened
<1>. DEFINE G == {n \in 1..m : f[n] \in Seq(S) /\ Len(f[n]) > 0}
<1>2. ASSUME NEW n \in 1..m, n = 1 \/ n - 1 \in G
      PROVE  n \in G
  <2>1. f[n] = IF n = 1 THEN s[n] ELSE f[n - 1] \o s[n]
    BY <1>1
  <2>2. CASE n = 1
    BY <2>1, <2>2
  <2>3. CASE n # 1
    <3>1. f[n - 1] \in Seq(S) /\ Len(f[n - 1]) > 0
      BY <1>2, <2>3
    <3>2. f[n - 1] \o s[n] \in Seq(S) /\ Len(f[n - 1] \o s[n]) = Len(f[n - 1]) + Len(s[n])
      BY <3>1, Joined
    <3>3. Len(s[n]) \in Nat /\ Len(s[n]) > 0 /\ Len(f[n - 1]) \in Nat
      BY <3>1, LenProperties
    <3>4. Len(f[n - 1]) + Len(s[n]) > 0
      <4>1. \A a, b \in Nat : b > 0 => a + b > 0
        OBVIOUS
      <4>. QED
        BY ONLY <3>3, <4>1, Zenon
    <3>5. f[n] = f[n - 1] \o s[n]
      BY <2>1, <2>3
    <3>6. f[n] \in Seq(S) /\ Len(f[n]) > 0
      BY ONLY <3>2, <3>4, <3>5
    <3>. QED
      BY <3>6
  <2>. QED
    BY <2>2, <2>3
<1>3. m \in G
  <2>. HIDE DEF G
  <2>1. \A n \in 1..m : n = 1 \/ n - 1 \in G => n \in G
    BY <1>2
  <2>2. \A n \in 1..m : n \in G
    BY <2>1, UpTo
  <2>. QED
    BY <2>2
<1>. QED
  BY <1>1, <1>3

(* Rooms of one width: the j-th place of the k-th room.                    *)
Offset(k, w) == (k - 1) * w

LEMMA Rooms ==
    ASSUME NEW w \in Nat, NEW k \in Nat \ {0}
    PROVE  /\ Offset(k, w) \in Nat /\ Offset(1, w) = 0
           /\ Offset(k + 1, w) = Offset(k, w) + w /\ Offset(k + 1, w) = k * w
<1>1. /\ (k - 1) * w \in Nat /\ k * w = (k - 1) * w + w
      /\ (1 - 1) * w = 0 /\ (k + 1) - 1 = k
  OBVIOUS
<1>. QED
  BY <1>1 DEF Offset

LEMMA RoomsApart ==
    ASSUME NEW w \in Nat, NEW k \in Nat \ {0}, NEW l \in Nat \ {0}, k < l
    PROVE  Offset(k, w) + w <= Offset(l, w)
<1>1. PICK d \in Nat : l - 1 = k + d
  BY Z3
<1>2. (l - 1) * w = k * w + d * w /\ d * w \in Nat /\ k * w \in Nat
  BY <1>1
<1>3. k * w = Offset(k, w) + w /\ Offset(k, w) \in Nat
  BY Rooms
<1>4. Offset(l, w) = k * w + d * w
  BY <1>2 DEF Offset
<1>. QED
  BY <1>2, <1>3, <1>4

(* The place in a sequence of rooms.                                       *)
LEMMA PlaceOfRoom ==
    ASSUME NEW w \in Nat, NEW m \in Nat, NEW k \in 1..m, NEW j \in 1..w
    PROVE  Offset(k, w) + j \in 1..Offset(m + 1, w)
<1>1. Offset(k, w) \in Nat
  BY Rooms
<1>2. Offset(m + 1, w) \in Nat
  BY Rooms
<1>3. Offset(k, w) + w <= Offset(m + 1, w)
  BY RoomsApart
<1>. QED
  BY <1>1, <1>2, <1>3

LEMMA FlattenRooms ==
    ASSUME NEW S, NEW m \in Nat \ {0}, NEW s, Len(s) = m, NEW w \in Nat,
           \A n \in 1..m : s[n] \in Seq(S) /\ Len(s[n]) = w
    PROVE  /\ FlattenSeq(s) \in Seq(S) /\ Len(FlattenSeq(s)) = Offset(m + 1, w)
           /\ \A k \in 1..m, j \in 1..w : FlattenSeq(s)[Offset(k, w) + j] = s[k][j]
<1>1. PICK f : /\ f = [n \in 1..m |-> IF n = 1 THEN s[n] ELSE f[n - 1] \o s[n]]
               /\ FlattenSeq(s) = f[m]
  BY Flattened
<1>. DEFINE Good(n) == /\ f[n] \in Seq(S) /\ Len(f[n]) = Offset(n + 1, w)
                       /\ \A k \in 1..n, j \in 1..w : f[n][Offset(k, w) + j] = s[k][j]
            G == {n \in 1..m : Good(n)}
<1>2. ASSUME NEW n \in 1..m, n = 1 \/ n - 1 \in G
      PROVE  Good(n)
  <2>1. f[n] = IF n = 1 THEN s[n] ELSE f[n - 1] \o s[n]
    BY <1>1
  <2>2. n \in Nat \ {0}
    OBVIOUS
  <2>3. /\ Offset(1, w) = 0 /\ Offset(n, w) \in Nat
        /\ Offset(n + 1, w) = Offset(n, w) + w
    <3>. HIDE DEF G
    <3>. QED
      BY ONLY <2>2, w \in Nat, Rooms
  <2>4. s[n] \in Seq(S) /\ Len(s[n]) = w
    OBVIOUS
  <2>5. CASE n = 1
    <3>1. f[n] = s[n] /\ (\A k \in 1..n : k = n)
      BY <2>1, <2>5
    <3>. QED
      BY <2>3, <2>4, <2>5, <3>1
  <2>6. CASE n # 1
    <3>1. Good(n - 1) /\ n - 1 \in Nat /\ (n - 1) + 1 = n
      BY <1>2, <2>6
    <3>2. /\ f[n - 1] \in Seq(S) /\ Len(f[n - 1]) = Offset(n, w)
          /\ \A k \in 1..(n - 1), j \in 1..w : f[n - 1][Offset(k, w) + j] = s[k][j]
      BY <3>1
    <3>. HIDE DEF G, Good
    <3>3. f[n] = f[n - 1] \o s[n]
      BY <2>1, <2>6
    <3>4. /\ f[n] \in Seq(S) /\ Len(f[n]) = Offset(n, w) + w
          /\ \A j \in 1..Offset(n, w) : f[n][j] = f[n - 1][j]
          /\ \A j \in 1..w : f[n][Offset(n, w) + j] = s[n][j]
      <4>. DEFINE a == f[n - 1]
                  b == s[n]
      <4>1. a \in Seq(S) /\ b \in Seq(S)
        BY <2>4, <3>2
      <4>. HIDE DEF a, b
      <4>2. /\ a \o b \in Seq(S) /\ Len(a \o b) = Len(a) + Len(b)
            /\ \A i \in 1..Len(a) : (a \o b)[i] = a[i]
            /\ \A i \in 1..Len(b) : (a \o b)[Len(a) + i] = b[i]
        BY ONLY <4>1, Joined
      <4>3. f[n] = a \o b /\ Len(a) = Offset(n, w) /\ Len(b) = w
        BY <2>4, <3>2, <3>3 DEF a, b
      <4>4. /\ f[n] \in Seq(S) /\ Len(f[n]) = Offset(n, w) + w
            /\ \A j \in 1..Offset(n, w) : f[n][j] = a[j]
            /\ \A j \in 1..w : f[n][Offset(n, w) + j] = b[j]
        BY ONLY <4>2, <4>3
      <4>. QED
        BY <4>4 DEF a, b
    <3>5. ASSUME NEW k \in 1..n, NEW j \in 1..w
          PROVE  f[n][Offset(k, w) + j] = s[k][j]
      <4>1. CASE k = n
        BY <3>4, <4>1
      <4>2. CASE k # n
        <5>1. k \in 1..(n - 1)
          BY <4>2
        <5>2. Offset(k, w) + j \in 1..Offset((n - 1) + 1, w)
          BY ONLY <3>1, <5>1, w \in Nat, j \in 1..w, PlaceOfRoom
        <5>3. f[n - 1][Offset(k, w) + j] = s[k][j]
          BY <3>2, <5>1
        <5>. QED
          BY <3>1, <3>4, <5>2, <5>3
      <4>. QED
        BY <4>1, <4>2
    <3>. QED
      BY <2>3, <3>4, <3>5 DEF Good
  <2>. QED
    BY <2>5, <2>6
<1>3. Good(m)
  <2>1. \A n \in 1..m : n = 1 \/ n - 1 \in G => n \in G
    BY <1>2
  <2>2. \A n \in 1..m : n \in G
    <3>. HIDE DEF G
    <3>. QED
      BY <2>1, UpTo
  <2>. HIDE DEF Good
  <2>. QED
    BY <2>2
<1>4. FlattenSeq(s) = f[m] /\ m \in 1..m
  BY <1>1
<1>. QED
  BY ONLY <1>3, <1>4

(* Every place is in a room.                                               *)
LEMMA InARoom ==
    ASSUME NEW w \in Nat, NEW m \in Nat, NEW n \in 1..Offset(m + 1, w)
    PROVE  \E k \in 1..m, j \in 1..w : n = Offset(k, w) + j
<1>. DEFINE T == {k \in 1..(m + 1) : n <= Offset(k, w)}
<1>1. m + 1 \in T
  OBVIOUS
<1>2. PICK x \in T : \A y \in T : x <= y
  <2>1. T \in SUBSET Nat
    OBVIOUS
  <2>. HIDE DEF T
  <2>. QED
    BY <1>1, <2>1, Least
<1>3. x # 1
  BY Rooms
<1>. DEFINE k == x - 1
            j == n - Offset(k, w)
<1>4. k \in 1..m /\ k \notin T /\ k + 1 = x
  BY <1>2, <1>3
<1>. HIDE DEF k
<1>5. Offset(k, w) \in Nat /\ Offset(k, w) < n /\ n <= Offset(k, w) + w
  BY <1>4, Rooms
<1>6. j \in 1..w /\ n = Offset(k, w) + j
  BY <1>5
<1>. QED
  BY <1>4, <1>6

-----------------------------------------------------------------------------
(* Occurrences, spellings and values.                                      *)

LEMMA Characters ==
    /\ NUL \in Char /\ Slash \in Char /\ Backslash \in Char
    /\ NUL # Slash /\ NUL # Backslash /\ Slash # Backslash
BY SubstitutionAssumption DEF NUL, Slash, Backslash

LEMMA Pieces ==
    ASSUME NEW S, NEW b \in Seq(S), NEW i \in Nat \ {0}, NEW j \in Nat,
           i <= j + 1, j <= Len(b)
    PROVE  /\ SubSeq(b, i, j) \in Seq(S) /\ Len(SubSeq(b, i, j)) = j - i + 1
           /\ \A n \in 1..(j - i + 1) : SubSeq(b, i, j)[n] = b[i + n - 1]
OBVIOUS

LEMMA AtPoint ==
    ASSUME NEW S, NEW b \in Seq(S), NEW k \in Seq(S), NEW n \in Nat \ {0}
    PROVE  At(b, n, k) <=> /\ n + Len(k) - 1 <= Len(b)
                           /\ \A j \in 1..Len(k) : b[n + j - 1] = k[j]
<1>. DEFINE j == n + Len(k) - 1
            c == SubSeq(b, n, j)
<1>1. Len(k) \in Nat /\ j \in Nat /\ n <= j + 1 /\ j - n + 1 = Len(k)
  OBVIOUS
<1>. SUFFICES ASSUME j <= Len(b)
              PROVE  c = k <=> \A i \in 1..Len(k) : b[n + i - 1] = k[i]
  BY DEF At
<1>2. /\ c \in Seq(S) /\ Len(c) = Len(k)
      /\ \A i \in 1..Len(k) : c[i] = b[n + i - 1]
  <2>. HIDE DEF j
  <2>. QED
    BY <1>1, Pieces
<1>3. c = k <=> \A i \in 1..Len(k) : c[i] = k[i]
  <2>. HIDE DEF c
  <2>. QED
    BY <1>2, SeqEqual
<1>. QED
  BY <1>2, <1>3

LEMMA OneOrTwo ==
    ASSUME NEW S, NEW x \in S, NEW y \in S
    PROVE  /\ <<x>> \in Seq(S) /\ Len(<<x>>) = 1 /\ <<x>>[1] = x
           /\ <<x, y>> \in Seq(S) /\ Len(<<x, y>>) = 2
OBVIOUS

LEMMA SpelledIs ==
    ASSUME NEW p \in Seq(Char), Len(p) > 0, NEW s \in Spellings
    PROVE  Spelled(p, s) \in Seq(Char) /\ Len(Spelled(p, s)) > 0
<1>. DEFINE q == [n \in DOMAIN p |->
                    IF p[n] # Slash \/ s = "normal" THEN <<p[n]>>
                    ELSE IF s = "single" THEN <<Backslash>> ELSE <<Backslash, Backslash>>]
<1>1. Len(p) \in Nat \ {0} /\ DOMAIN p = 1..Len(p)
  OBVIOUS
<1>2. Len(q) = Len(p)
  BY <1>1
<1>3. ASSUME NEW n \in 1..Len(p)
      PROVE  q[n] \in Seq(Char) /\ Len(q[n]) > 0
  <2>1. q[n] \in {<<p[n]>>, <<Backslash>>, <<Backslash, Backslash>>} /\ p[n] \in Char
    BY <1>1
  <2>. HIDE DEF q
  <2>2. \A x \in Char : <<x>> \in Seq(Char) /\ Len(<<x>>) > 0
    BY ONLY OneOrTwo
  <2>3. <<Backslash, Backslash>> \in Seq(Char) /\ Len(<<Backslash, Backslash>>) > 0
    BY ONLY Characters, OneOrTwo
  <2>. QED
    BY ONLY Characters, <2>1, <2>2, <2>3
<1>4. FlattenSeq(q) \in Seq(Char) /\ Len(FlattenSeq(q)) > 0
  <2>. HIDE DEF q
  <2>. QED
    BY <1>1, <1>2, <1>3, FlattenPieces
<1>. QED
  BY <1>4 DEF Spelled

(* With single separators a path keeps its length.                         *)
LEMMA SingleIs ==
    ASSUME NEW p \in Seq(Char), Len(p) > 0
    PROVE  /\ Spelled(p, "single") \in Seq(Char) /\ Len(Spelled(p, "single")) = Len(p)
           /\ \A n \in 1..Len(p) :
                 Spelled(p, "single")[n] = IF p[n] = Slash THEN Backslash ELSE p[n]
<1>. DEFINE q == [n \in DOMAIN p |->
                    IF p[n] # Slash \/ "single" = "normal" THEN <<p[n]>>
                    ELSE IF "single" = "single" THEN <<Backslash>>
                    ELSE <<Backslash, Backslash>>]
            m == Len(p)
<1>1. m \in Nat \ {0} /\ DOMAIN p = 1..m
  OBVIOUS
<1>2. Len(q) = m
  BY <1>1
<1>3. ASSUME NEW n \in 1..m
      PROVE  q[n] = << IF p[n] = Slash THEN Backslash ELSE p[n] >> /\ p[n] \in Char
  BY <1>1
<1>4. ASSUME NEW n \in 1..m
      PROVE  /\ q[n] \in Seq(Char) /\ Len(q[n]) = 1
             /\ q[n][1] = IF p[n] = Slash THEN Backslash ELSE p[n]
  <2>. DEFINE x == IF p[n] = Slash THEN Backslash ELSE p[n]
  <2>1. x \in Char /\ q[n] = <<x>>
    BY <1>3, Characters
  <2>. HIDE DEF q, x
  <2>2. <<x>> \in Seq(Char) /\ Len(<<x>>) = 1 /\ <<x>>[1] = x
    BY ONLY <2>1, OneOrTwo
  <2>3. q[n] \in Seq(Char) /\ Len(q[n]) = 1 /\ q[n][1] = x
    BY ONLY <2>1, <2>2
  <2>. QED
    BY <2>3 DEF x
<1>. HIDE DEF q
<1>5. /\ FlattenSeq(q) \in Seq(Char) /\ Len(FlattenSeq(q)) = Offset(m + 1, 1)
      /\ \A k \in 1..m, j \in 1..1 : FlattenSeq(q)[Offset(k, 1) + j] = q[k][j]
  <2>. HIDE DEF m
  <2>1. \A n \in 1..m : q[n] \in Seq(Char) /\ Len(q[n]) = 1
    BY <1>4
  <2>. DEFINE w == 1
  <2>2. w \in Nat /\ \A n \in 1..m : q[n] \in Seq(Char) /\ Len(q[n]) = w
    BY <2>1
  <2>. HIDE DEF w
  <2>3. /\ FlattenSeq(q) \in Seq(Char) /\ Len(FlattenSeq(q)) = Offset(m + 1, w)
        /\ \A k \in 1..m, j \in 1..w : FlattenSeq(q)[Offset(k, w) + j] = q[k][j]
    <3>. HIDE DEF Offset
    <3>. QED
      BY ONLY <1>1, <1>2, <2>2, FlattenRooms
  <2>. QED
    BY ONLY <2>3 DEF w
<1>6. Offset(m + 1, 1) = m /\ \A k \in 1..m : Offset(k, 1) + 1 = k /\ 1 \in 1..1
  <2>. HIDE DEF m
  <2>. QED
    BY ONLY <1>1 DEF Offset
<1>7. FlattenSeq(q) = Spelled(p, "single")
  BY DEF Spelled, q
<1>8. /\ FlattenSeq(q) \in Seq(Char) /\ Len(FlattenSeq(q)) = m
      /\ \A k \in 1..m : FlattenSeq(q)[k] = q[k][1]
  <2>. HIDE DEF m
  <2>1. ASSUME NEW k \in 1..m
        PROVE  FlattenSeq(q)[Offset(k, 1) + 1] = q[k][1]
    BY <1>5, <1>6
  <2>. QED
    BY <1>5, <1>6, <2>1
<1>. QED
  BY <1>4, <1>7, <1>8

LEMMA Parameter ==
    ASSUME NEW k \in DOMAIN Params
    PROVE  /\ Plain(Params[k].prefix) /\ Plain(Params[k].dir)
           /\ Len(Params[k].prefix) \in Nat /\ Len(Params[k].dir) \in Nat
           /\ Len(Params[k].prefix) + MaxPath + 1 + Len(Params[k].dir) < Width
           /\ Width \in Nat /\ MaxPath \in Nat
<1>1. Plain(Params[k].prefix) /\ Plain(Params[k].dir)
  BY SubstitutionAssumption
<1>2. Params[k].prefix \in Seq(Char) /\ Params[k].dir \in Seq(Char)
  BY <1>1 DEF Plain
<1>. QED
  BY <1>1, <1>2, SubstitutionAssumption, LenProperties

(* A value, place by place.                                                *)
LEMMA ValueIs ==
    ASSUME NEW k \in DOMAIN Params, NEW q \in Seq(Char), NEW c \in Char
    PROVE  LET v == Value(Params[k], q, <<c>>)
               x == Params[k].prefix
               d == Params[k].dir
           IN /\ v \in Seq(Char)
              /\ Len(v) = Len(x) + Len(q) + IF d = <<>> THEN 0 ELSE 1 + Len(d)
              /\ \A j \in 1..Len(v) :
                    v[j] = IF j <= Len(x) THEN x[j]
                           ELSE IF j - Len(x) <= Len(q) THEN q[j - Len(x)]
                           ELSE IF j - Len(x) - Len(q) <= 1 THEN c
                           ELSE d[j - Len(x) - Len(q) - 1]
<1>. DEFINE x == Params[k].prefix
            d == Params[k].dir
            tail == IF d = <<>> THEN <<>> ELSE <<c>> \o d
<1>1. x \in Seq(Char) /\ d \in Seq(Char)
  BY Parameter DEF Plain
<1>. HIDE DEF x, d
<1>2. Len(x) \in Nat /\ Len(d) \in Nat /\ Len(q) \in Nat
  BY ONLY <1>1, q \in Seq(Char), LenProperties
<1>3. <<c>> \in Seq(Char) /\ Len(<<c>>) = 1 /\ <<c>>[1] = c
  BY OneOrTwo
<1>4. /\ tail \in Seq(Char) /\ Len(tail) = IF d = <<>> THEN 0 ELSE 1 + Len(d)
      /\ \A j \in 1..Len(tail) : tail[j] = IF j <= 1 THEN c ELSE d[j - 1]
  <2>1. CASE d = <<>>
    <3>1. tail = <<>> /\ tail \in Seq(Char) /\ Len(tail) = 0
      BY <2>1, EmptySeq
    <3>. QED
      BY <2>1, <3>1
  <2>2. CASE d # <<>>
    <3>. DEFINE one == <<c>>
    <3>1. tail = one \o d
      BY <2>2
    <3>2. one \in Seq(Char) /\ Len(one) = 1 /\ one[1] = c
      BY <1>3
    <3>. HIDE DEF tail, one
    <3>3. /\ one \o d \in Seq(Char) /\ Len(one \o d) = Len(one) + Len(d)
          /\ \A j \in 1..(Len(one) + Len(d)) :
                (one \o d)[j] = IF j <= Len(one) THEN one[j] ELSE d[j - Len(one)]
      <4>1. one \in Seq(Char)
        BY <3>2
      <4>. QED
        BY ONLY <1>1, <4>1, ConcatProperties
    <3>. QED
      BY ONLY <1>2, <2>2, <3>1, <3>2, <3>3
  <2>. QED
    BY <2>1, <2>2
<1>. HIDE DEF tail
<1>5. /\ x \o q \in Seq(Char) /\ Len(x \o q) = Len(x) + Len(q)
      /\ \A j \in 1..(Len(x) + Len(q)) :
            (x \o q)[j] = IF j <= Len(x) THEN x[j] ELSE q[j - Len(x)]
  BY ONLY <1>1, q \in Seq(Char), ConcatProperties
<1>. DEFINE h == x \o q
            v == h \o tail
<1>. HIDE DEF h
<1>6. /\ h \in Seq(Char) /\ Len(h) = Len(x) + Len(q)
      /\ \A j \in 1..Len(h) : h[j] = IF j <= Len(x) THEN x[j] ELSE q[j - Len(x)]
  BY <1>5 DEF h
<1>7. /\ v \in Seq(Char) /\ Len(v) = Len(h) + Len(tail)
      /\ \A j \in 1..(Len(h) + Len(tail)) :
            v[j] = IF j <= Len(h) THEN h[j] ELSE tail[j - Len(h)]
  <2>1. h \in Seq(Char) /\ tail \in Seq(Char)
    BY <1>4, <1>6
  <2>. QED
    BY ONLY <2>1, ConcatProperties
<1>8. v = Value(Params[k], q, <<c>>)
  BY DEF Value, h, tail, x, d
<1>. HIDE DEF v
<1>9. Len(tail) \in Nat /\ Len(h) \in Nat /\ Len(v) = Len(x) + Len(q) + Len(tail)
  BY ONLY <1>4, <1>6, <1>7, LenProperties
<1>10. ASSUME NEW j \in 1..Len(v)
       PROVE  v[j] = IF j <= Len(x) THEN x[j]
                     ELSE IF j - Len(x) <= Len(q) THEN q[j - Len(x)]
                     ELSE IF j - Len(x) - Len(q) <= 1 THEN c
                     ELSE d[j - Len(x) - Len(q) - 1]
  <2>1. CASE j <= Len(h)
    <3>1. j \in 1..Len(h) /\ j \in 1..(Len(h) + Len(tail))
      BY ONLY <1>9, <2>1, j \in 1..Len(v)
    <3>2. v[j] = IF j <= Len(x) THEN x[j] ELSE q[j - Len(x)]
      BY ONLY <1>6, <1>7, <2>1, <3>1
    <3>3. j <= Len(x) \/ j - Len(x) <= Len(q)
      BY ONLY <1>2, <1>6, <2>1, j \in 1..Len(v)
    <3>. QED
      BY ONLY <3>2, <3>3
  <2>2. CASE ~(j <= Len(h))
    <3>1. /\ j \in 1..(Len(h) + Len(tail)) /\ j - Len(h) \in 1..Len(tail)
          /\ ~(j <= Len(x)) /\ ~(j - Len(x) <= Len(q))
          /\ j - Len(h) = j - Len(x) - Len(q)
      BY ONLY <1>2, <1>6, <1>7, <1>9, <2>2, j \in 1..Len(v)
    <3>2. v[j] = tail[j - Len(h)]
      BY ONLY <1>7, <2>2, <3>1
    <3>3. tail[j - Len(h)] = IF j - Len(h) <= 1 THEN c ELSE d[j - Len(h) - 1]
      BY ONLY <1>4, <3>1
    <3>. QED
      BY ONLY <3>1, <3>2, <3>3
  <2>. QED
    BY <2>1, <2>2
<1>. QED
  BY <1>4, <1>7, <1>8, <1>9, <1>10 DEF x, d

(* What any value of the k-th parameter is like.                           *)
Valued(k, v) ==
    /\ v \in Seq(Char) /\ Len(v) \in 1..(Width - 1)
    /\ \A j \in 1..Len(v) : v[j] # NUL
    /\ At(v, 1, Params[k].prefix)
    /\ \A l \in DOMAIN Params :
          Occurrences(v, Params[l].prefix) \subseteq IF k = l THEN {1} ELSE {}

LEMMA PathIs ==
    ASSUME NEW p \in Paths
    PROVE  /\ p \in Seq(Char) /\ Len(p) \in Nat /\ Len(p) > 2
           /\ \A n \in 1..Len(p) : p[n] # NUL /\ p[n] # Backslash
           /\ LET q == Spelled(p, "single")
              IN /\ q \in Seq(Char) /\ Len(q) = Len(p)
                 /\ \A n \in 1..Len(p) :
                       q[n] # NUL /\ p[n] = IF q[n] = Backslash THEN Slash ELSE q[n]
<1>1. p \in Seq(Char) /\ \A n \in DOMAIN p : p[n] \notin {NUL, Backslash}
  BY SubstitutionAssumption DEF Plain
<1>2. Len(p) \in Nat /\ DOMAIN p = 1..Len(p)
  BY <1>1
<1>3. Len(p) > 2
  BY SubstitutionAssumption
<1>4. /\ Spelled(p, "single") \in Seq(Char) /\ Len(Spelled(p, "single")) = Len(p)
      /\ \A n \in 1..Len(p) :
            Spelled(p, "single")[n] = IF p[n] = Slash THEN Backslash ELSE p[n]
  BY <1>1, <1>2, <1>3, SingleIs
<1>. QED
  BY <1>1, <1>2, <1>3, <1>4, Characters

LEMMA ValueFits ==
    ASSUME NEW k \in DOMAIN Params, NEW q \in Seq(Char), Len(q) > 0, Len(q) <= MaxPath,
           \A n \in 1..Len(q) : q[n] # NUL, NEW c \in Char \ {NUL}
    PROVE  LET v == Value(Params[k], q, <<c>>)
           IN /\ v \in Seq(Char) /\ Len(v) \in 1..(Width - 1)
              /\ \A j \in 1..Len(v) : v[j] # NUL
              /\ At(v, 1, Params[k].prefix)
<1>. DEFINE v == Value(Params[k], q, <<c>>)
            x == Params[k].prefix
            d == Params[k].dir
<1>1. /\ v \in Seq(Char)
      /\ Len(v) = Len(x) + Len(q) + IF d = <<>> THEN 0 ELSE 1 + Len(d)
      /\ \A j \in 1..Len(v) :
            v[j] = IF j <= Len(x) THEN x[j]
                   ELSE IF j - Len(x) <= Len(q) THEN q[j - Len(x)]
                   ELSE IF j - Len(x) - Len(q) <= 1 THEN c
                   ELSE d[j - Len(x) - Len(q) - 1]
  BY ValueIs
<1>2. /\ x \in Seq(Char) /\ (\A n \in 1..Len(x) : x[n] # NUL)
      /\ d \in Seq(Char) /\ (\A n \in 1..Len(d) : d[n] # NUL)
      /\ Len(x) \in Nat /\ Len(d) \in Nat /\ Width \in Nat /\ MaxPath \in Nat
      /\ Len(x) + MaxPath + 1 + Len(d) < Width
  BY Parameter DEF Plain
<1>3. Len(q) \in Nat /\ (d = <<>> => Len(d) = 0)
  BY LenProperties
<1>. HIDE DEF v, x, d
<1>. DEFINE nv == Len(v)
            nx == Len(x)
            nq == Len(q)
            nd == Len(d)
<1>7. /\ nv = nx + nq + IF d = <<>> THEN 0 ELSE 1 + nd
      /\ nx \in Nat /\ nd \in Nat /\ Width \in Nat /\ MaxPath \in Nat
      /\ nx + MaxPath + 1 + nd < Width
      /\ nq \in Nat /\ nq > 0 /\ nq <= MaxPath
  <2>1. nv = nx + nq + IF d = <<>> THEN 0 ELSE 1 + nd
    BY ONLY <1>1
  <2>2. /\ nx \in Nat /\ nd \in Nat /\ Width \in Nat /\ MaxPath \in Nat
        /\ nx + MaxPath + 1 + nd < Width
    BY ONLY <1>2
  <2>3. nq \in Nat /\ nq > 0 /\ nq <= MaxPath
    BY <1>3
  <2>. QED
    BY ONLY <2>1, <2>2, <2>3, Zenon
<1>4. Len(v) \in 1..(Width - 1) /\ Len(x) <= Len(v)
  <2>. HIDE DEF nv, nx, nq, nd
  <2>1. nv \in 1..(Width - 1) /\ nx <= nv
    BY ONLY <1>7
  <2>. QED
    BY <2>1 DEF nv, nx
<1>5. ASSUME NEW j \in 1..Len(v)
      PROVE  v[j] # NUL
  <2>1. j \in Nat \ {0}
    BY <1>4
  <2>2. CASE j <= Len(x)
    <3>1. j \in 1..Len(x)
      BY ONLY <1>2, <2>1, <2>2
    <3>. QED
      BY <1>1, <1>2, <2>2, <3>1
  <2>3. CASE ~(j <= Len(x)) /\ j - Len(x) <= Len(q)
    <3>1. j - Len(x) \in 1..Len(q)
      BY ONLY <1>2, <1>3, <2>1, <2>3
    <3>. QED
      BY <1>1, <2>3, <3>1
  <2>4. CASE ~(j <= Len(x)) /\ ~(j - Len(x) <= Len(q)) /\ j - Len(x) - Len(q) <= 1
    BY <1>1, <2>4
  <2>5. CASE ~(j <= Len(x)) /\ ~(j - Len(x) <= Len(q)) /\ ~(j - Len(x) - Len(q) <= 1)
    <3>1. v[j] = d[j - Len(x) - Len(q) - 1]
      BY <1>1, <2>5
    <3>2. j - nx - nq - 1 \in 1..nd
      <4>1. j \in 1..nv /\ ~(j - nx - nq <= 1)
        BY <2>5
      <4>. HIDE DEF nv, nx, nq, nd
      <4>. QED
        BY ONLY <1>7, <4>1
    <3>. QED
      BY <1>2, <3>1, <3>2
  <2>. QED
    BY <2>2, <2>3, <2>4, <2>5
<1>6. At(v, 1, x)
  <2>1. 1 + Len(x) - 1 <= Len(v)
    BY ONLY <1>2, <1>4
  <2>2. ASSUME NEW j \in 1..Len(x)
        PROVE  v[1 + j - 1] = x[j]
    <3>1. 1 + j - 1 = j /\ j \in 1..Len(v) /\ j <= Len(x)
      BY ONLY <1>2, <1>4, j \in 1..Len(x)
    <3>. QED
      BY <1>1, <3>1
  <2>3. v \in Seq(Char) /\ x \in Seq(Char) /\ 1 \in Nat \ {0}
    BY <1>1, <1>2
  <2>. HIDE DEF At
  <2>. QED
    BY ONLY <2>1, <2>2, <2>3, AtPoint
<1>. QED
  BY <1>1, <1>4, <1>5, <1>6 DEF v, x

LEMMA ValuesAreValued ==
    ASSUME NEW p \in Fitting, NEW values \in {BuiltValues(p), NewValues(p)},
           NEW k \in DOMAIN Params
    PROVE  Valued(k, values[k])
<1>1. p \in Paths /\ Len(p) <= MaxPath
  BY DEF Fitting
<1>2. \E q \in Seq(Char), c \in Char \ {NUL} :
         /\ Len(q) = Len(p) /\ \A n \in 1..Len(q) : q[n] # NUL
         /\ values[k] = Value(Params[k], q, <<c>>)
  <2>1. CASE values = BuiltValues(p)
    <3>1. values[k] = Value(Params[k], p, <<Slash>>)
      BY <2>1 DEF BuiltValues
    <3>. QED
      BY <1>1, <3>1, PathIs, Characters
  <2>2. CASE values = NewValues(p)
    <3>1. values[k] = Value(Params[k], Spelled(p, "single"), <<Backslash>>)
      BY <2>2 DEF NewValues, NewValue
    <3>2. /\ Spelled(p, "single") \in Seq(Char) /\ Len(Spelled(p, "single")) = Len(p)
          /\ \A n \in 1..Len(p) : Spelled(p, "single")[n] # NUL
      BY <1>1, PathIs
    <3>. QED
      BY <3>1, <3>2, Characters
  <2>. QED
    BY <2>1, <2>2
<1>3. PICK q \in Seq(Char), c \in Char \ {NUL} :
         /\ Len(q) = Len(p) /\ \A n \in 1..Len(q) : q[n] # NUL
         /\ values[k] = Value(Params[k], q, <<c>>)
  BY <1>2
<1>4. Len(q) > 0 /\ Len(q) <= MaxPath
  BY <1>1, <1>3, PathIs
<1>5. /\ values[k] \in Seq(Char) /\ Len(values[k]) \in 1..(Width - 1)
      /\ \A j \in 1..Len(values[k]) : values[k][j] # NUL
      /\ At(values[k], 1, Params[k].prefix)
  BY <1>3, <1>4, ValueFits
<1>6. \A l \in DOMAIN Params :
         Occurrences(values[k], Params[l].prefix) \subseteq IF k = l THEN {1} ELSE {}
  BY <1>1, PrefixAssumption
<1>. QED
  BY <1>5, <1>6 DEF Valued

LEMMA PrefixIs ==
    ASSUME NEW k \in DOMAIN Params, NEW v, Valued(k, v)
    PROVE  LET x == Params[k].prefix
           IN /\ x \in Seq(Char) /\ Len(x) \in Nat /\ Len(x) <= Len(v)
              /\ \A j \in 1..Len(x) : v[j] = x[j]
<1>1. /\ v \in Seq(Char) /\ Params[k].prefix \in Seq(Char) /\ 1 \in Nat \ {0}
      /\ At(v, 1, Params[k].prefix)
  BY Parameter DEF Valued, Plain
<1>. DEFINE x == Params[k].prefix
<1>. HIDE DEF x
<1>2. 1 + Len(x) - 1 <= Len(v) /\ \A j \in 1..Len(x) : v[1 + j - 1] = x[j]
  BY ONLY <1>1, AtPoint DEF x
<1>3. x \in Seq(Char) /\ Len(x) \in Nat
  BY <1>1 DEF x
<1>4. \A j \in 1..Len(x) : v[j] = x[j]
  <2>1. ASSUME NEW j \in 1..Len(x) PROVE v[j] = x[j]
    <3>1. 1 + j - 1 = j
      BY <1>3
    <3>. QED
      BY <1>2, <3>1
  <2>. QED
    BY <2>1
<1>5. Len(x) <= Len(v)
  BY ONLY <1>2, <1>3
<1>. QED
  BY <1>3, <1>4, <1>5 DEF x

-----------------------------------------------------------------------------
(* The layout of a binary.                                                 *)

(* The values v, each of which fits.                                       *)
Rightly(b, v) ==
    /\ b \in Seq(Char) /\ Layout(b, v)
    /\ \A k \in DOMAIN Params : Valued(k, v[k])

LEMMA LayoutIs ==
    ASSUME NEW b, NEW v, Rightly(b, v)
    PROVE  /\ b \in Seq(Char) /\ Len(b) = Offset(Len(Params) + 1, Width)
           /\ Len(Params) \in Nat \ {0} /\ DOMAIN Params = 1..Len(Params)
           /\ DOMAIN b = 1..Len(b)
           /\ \A k \in DOMAIN Params :
                 /\ v[k] \in Seq(Char) /\ Len(v[k]) \in 1..(Width - 1)
                 /\ Offset(k, Width) \in Nat /\ Offset(k, Width) + Width <= Len(b)
                 /\ \A j \in 1..Width :
                       b[Offset(k, Width) + j] = IF j <= Len(v[k]) THEN v[k][j] ELSE NUL
                 /\ \A j \in 1..Len(v[k]) : v[k][j] # NUL
<1>1. Len(Params) \in Nat \ {0} /\ DOMAIN Params = 1..Len(Params) /\ Width \in Nat
  BY SubstitutionAssumption
<1>2. Len(Params) * Width = Offset(Len(Params) + 1, Width)
  BY <1>1, Rooms
<1>3. ASSUME NEW k \in DOMAIN Params
      PROVE  Offset(k, Width) \in Nat
             /\ Offset(k, Width) + Width <= Offset(Len(Params) + 1, Width)
  <2>. DEFINE m == Len(Params)
  <2>1. k \in Nat \ {0} /\ m + 1 \in Nat \ {0} /\ k < m + 1 /\ Width \in Nat
    BY <1>1
  <2>. HIDE DEF m
  <2>2. Offset(k, Width) \in Nat /\ Offset(k, Width) + Width <= Offset(m + 1, Width)
    BY ONLY <2>1, Rooms, RoomsApart
  <2>. QED
    BY <2>2 DEF m
<1>4. /\ b \in Seq(Char) /\ Len(b) = Len(Params) * Width
      /\ \A k \in DOMAIN Params, j \in 1..Width :
            b[Offset(k, Width) + j] = IF j <= Len(v[k]) THEN v[k][j] ELSE NUL
      /\ \A k \in DOMAIN Params : Valued(k, v[k])
  BY DEF Rightly, Layout, Offset
<1>. HIDE DEF Offset
<1>5. DOMAIN b = 1..Len(b)
  BY <1>4
<1>. QED
  BY <1>1, <1>2, <1>3, <1>4, <1>5 DEF Valued

(* A value is only found at the beginning of its own room: its prefix is   *)
(* nowhere else in a value, and no zero is in it.                          *)
LEMMA OnlyInItsRoom ==
    ASSUME NEW b, NEW v, Rightly(b, v), NEW l \in DOMAIN Params, NEW old, Valued(l, old),
           NEW n \in Occurrences(b, old)
    PROVE  n = Offset(l, Width) + 1
<1>. DEFINE x == Params[l].prefix
            nx == Len(x)
            no == Len(old)
            m == Len(Params)
<1>1. /\ old \in Seq(Char) /\ no \in Nat \ {0} /\ nx \in Nat /\ nx <= no
      /\ x \in Seq(Char) /\ \A j \in 1..nx : old[j] = x[j]
      /\ \A j \in 1..no : old[j] # NUL
  <2>1. /\ x \in Seq(Char) /\ nx \in Nat /\ nx <= no
        /\ \A j \in 1..nx : old[j] = x[j]
    BY PrefixIs
  <2>2. /\ old \in Seq(Char) /\ no \in 1..(Width - 1)
        /\ \A j \in 1..no : old[j] # NUL
    BY DEF Valued
  <2>. HIDE DEF x, nx, no
  <2>3. no \in Nat \ {0}
    BY <2>2, SubstitutionAssumption
  <2>. QED
    BY <2>1, <2>2, <2>3
<1>2. /\ b \in Seq(Char) /\ Len(b) = Offset(m + 1, Width) /\ DOMAIN b = 1..Len(b)
      /\ m \in Nat \ {0} /\ DOMAIN Params = 1..m /\ Width \in Nat
  BY LayoutIs, SubstitutionAssumption
<1>3. n \in 1..Offset(m + 1, Width)
  BY <1>2 DEF Occurrences
<1>. HIDE DEF x, nx, no, m
<1>4. PICK k \in 1..m, j \in 1..Width : n = Offset(k, Width) + j
  BY ONLY <1>2, <1>3, InARoom
<1>. DEFINE o == Offset(k, Width)
            w == v[k]
            nw == Len(w)
<1>5. /\ w \in Seq(Char) /\ nw \in 1..(Width - 1) /\ o \in Nat /\ o + Width <= Len(b)
      /\ \A i \in 1..Width : b[o + i] = IF i <= nw THEN w[i] ELSE NUL
      /\ n = o + j
  <2>1. k \in DOMAIN Params
    BY <1>2
  <2>2. w \in Seq(Char) /\ nw \in 1..(Width - 1) /\ o \in Nat /\ o + Width <= Len(b)
    BY <2>1, LayoutIs
  <2>3. \A i \in 1..Width : b[o + i] = IF i <= nw THEN w[i] ELSE NUL
    BY <2>1, LayoutIs
  <2>. QED
    BY <1>4, <2>2, <2>3
<1>6. Valued(k, w)
  BY <1>2 DEF Rightly
<1>. HIDE DEF o, w, nw
<1>7. n + no - 1 <= Len(b) /\ \A i \in 1..no : b[n + i - 1] = old[i]
  <2>1. At(b, n, old) /\ n \in Nat \ {0}
    BY <1>2 DEF Occurrences
  <2>. QED
    <3>1. n + Len(old) - 1 <= Len(b) /\ \A i \in 1..Len(old) : b[n + i - 1] = old[i]
      <4>1. b \in Seq(Char) /\ old \in Seq(Char)
        BY <1>1, <1>2
      <4>. QED
        BY ONLY <2>1, <4>1, AtPoint
    <3>. QED
      BY <3>1 DEF no
<1>7a. /\ no \in Nat \ {0} /\ nx \in Nat /\ nx <= no /\ Width \in Nat
      /\ nw \in 1..(Width - 1) /\ o \in Nat /\ j \in 1..Width /\ n = o + j
  BY <1>1, <1>2, <1>5
(* It begins in the value of that room,                                    *)
<1>8. j <= nw
  <2>1. b[n + 1 - 1] = old[1] /\ n + 1 - 1 = o + j /\ old[1] # NUL
    <3>1. 1 \in 1..no /\ n + 1 - 1 = o + j
      BY <1>1, <1>5
    <3>. QED
      BY <1>1, <1>7, <3>1
  <2>. QED
    BY <1>5, <2>1
(* and its prefix ends there.                                              *)
<1>9. j + nx - 1 <= nw
  <2>. SUFFICES ASSUME nw < j + nx - 1 PROVE FALSE
    BY <1>1, <1>5
  <2>. DEFINE i == nw + 2 - j
  <2>1. /\ i \in 1..no /\ nw + 1 \in 1..Width /\ ~(nw + 1 <= nw)
        /\ n + i - 1 = o + (nw + 1)
    BY <1>7a, <1>8
  <2>2. b[o + (nw + 1)] = NUL
    BY <1>5, <2>1
  <2>. HIDE DEF i
  <2>. QED
    BY <1>1, <1>7, <2>1, <2>2
<1>10. \A i \in 1..nx : w[j + i - 1] = x[i]
  <2>. SUFFICES ASSUME NEW i \in 1..nx PROVE w[j + i - 1] = x[i]
    OBVIOUS
  <2>1. /\ i \in 1..no /\ j + i - 1 \in 1..Width /\ j + i - 1 <= nw
        /\ n + i - 1 = o + (j + i - 1)
    BY <1>7a, <1>9
  <2>2. b[n + i - 1] = x[i]
    BY <1>1, <1>7, <2>1
  <2>. DEFINE r == j + i - 1
  <2>. HIDE DEF r
  <2>3. r \in 1..Width /\ r <= nw /\ b[o + r] = x[i]
    BY <2>1, <2>2 DEF r
  <2>4. w[r] = x[i]
    BY <1>5, <2>3
  <2>. QED
    BY <2>4 DEF r
<1>11. j \in Occurrences(w, x)
  <2>1. j \in DOMAIN w /\ j \in Nat \ {0}
    BY <1>5, <1>8 DEF nw
  <2>2. At(w, j, x)
    BY <1>1, <1>5, <1>9, <1>10, <2>1, AtPoint DEF nx, nw
  <2>. QED
    BY <2>1, <2>2 DEF Occurrences
<1>12. k = l /\ j = 1
  <2>1. Occurrences(w, x) \subseteq IF k = l THEN {1} ELSE {}
    BY <1>6 DEF Valued, x
  <2>. QED
    BY <1>11, <2>1
<1>. QED
  BY <1>5, <1>12 DEF o

LEMMA InItsRoom ==
    ASSUME NEW b, NEW v, Rightly(b, v), NEW k \in DOMAIN Params
    PROVE  Offset(k, Width) + 1 \in Occurrences(b, v[k])
<1>. DEFINE o == Offset(k, Width)
            w == v[k]
            nw == Len(w)
<1>1. /\ b \in Seq(Char) /\ DOMAIN b = 1..Len(b)
      /\ w \in Seq(Char) /\ nw \in 1..(Width - 1) /\ o \in Nat /\ o + Width <= Len(b)
      /\ \A i \in 1..Width : b[o + i] = IF i <= nw THEN w[i] ELSE NUL
      /\ Width \in Nat
  BY LayoutIs, SubstitutionAssumption
<1>. HIDE DEF o, w
<1>2. o + 1 + nw - 1 <= Len(b) /\ o + 1 \in DOMAIN b /\ o + 1 \in Nat \ {0}
  <2>1. Len(b) \in Nat
    BY <1>1
  <2>. HIDE DEF nw
  <2>. QED
    BY <1>1, <2>1
<1>3. ASSUME NEW j \in 1..nw
      PROVE  b[o + 1 + j - 1] = w[j]
  <2>1. o + 1 + j - 1 = o + j /\ j \in 1..Width /\ j <= nw
    <3>. HIDE DEF nw
    <3>. QED
      BY <1>1
  <2>. QED
    BY <1>1, <2>1
<1>4. At(b, o + 1, w)
  <2>. DEFINE n == o + 1
  <2>1. /\ n \in Nat \ {0} /\ n + Len(w) - 1 <= Len(b)
        /\ \A j \in 1..Len(w) : b[n + j - 1] = w[j]
    BY <1>2, <1>3
  <2>2. b \in Seq(Char) /\ w \in Seq(Char)
    BY <1>1
  <2>. HIDE DEF n
  <2>3. At(b, n, w)
    BY ONLY <2>1, <2>2, AtPoint
  <2>. QED
    BY <2>3 DEF n
<1>. QED
  BY <1>2, <1>4 DEF Occurrences, o, w

(* Up to the first zero of a room there is its value.                      *)
LEMMA ReadsIs ==
    ASSUME NEW b, NEW v, Rightly(b, v), NEW k \in DOMAIN Params
    PROVE  Reads(b, k) = v[k]
<1>. DEFINE o == Offset(k, Width)
            w == v[k]
            nw == Len(w)
            nb == Len(b)
            zeros == {n \in (o + 1)..nb : b[n] = NUL}
            T == zeros \union {nb + 1}
<1>1. /\ b \in Seq(Char) /\ nb \in Nat
      /\ w \in Seq(Char) /\ nw \in 1..(Width - 1) /\ o \in Nat /\ o + Width <= nb
      /\ \A i \in 1..Width : b[o + i] = IF i <= nw THEN w[i] ELSE NUL
      /\ \A i \in 1..nw : w[i] # NUL
      /\ Width \in Nat
  <2>. HIDE DEF zeros, T
  <2>1. nb \in Nat
    BY LayoutIs, LenProperties
  <2>2. Width \in Nat
    BY SubstitutionAssumption
  <2>3. \A i \in 1..nw : w[i] # NUL
    BY LayoutIs
  <2>4. /\ b \in Seq(Char) /\ w \in Seq(Char) /\ nw \in 1..(Width - 1)
        /\ o \in Nat /\ o + Width <= nb
        /\ \A i \in 1..Width : b[o + i] = IF i <= nw THEN w[i] ELSE NUL
    BY LayoutIs
  <2>. QED
    BY <2>1, <2>2, <2>3, <2>4
<1>2. Reads(b, k) = SubSeq(b, o + 1, Min(T) - 1)
  BY DEF Reads, Offset
<1>. HIDE DEF o, w
<1>3. T \in SUBSET Nat /\ T # {}
  <2>. HIDE DEF nb
  <2>. QED
    BY <1>1
<1>4. Min(T) \in T /\ \A y \in T : Min(T) <= y
  <2>. HIDE DEF T
  <2>. QED
    BY <1>3, MinIsLeast
<1>5. o + nw + 1 \in T
  <2>. HIDE DEF nb, nw
  <2>1. o + nw + 1 \in (o + 1)..nb /\ nw + 1 \in 1..Width /\ ~(nw + 1 <= nw)
        /\ o + (nw + 1) = o + nw + 1
    BY <1>1
  <2>2. b[o + (nw + 1)] = NUL
    BY <1>1, <2>1
  <2>. QED
    BY <2>1, <2>2
<1>6. ASSUME NEW y \in T, y < o + nw + 1
      PROVE  FALSE
  <2>. HIDE DEF nb, nw
  <2>1. y \in (o + 1)..nb /\ b[y] = NUL
    BY <1>1, <1>6
  <2>. DEFINE i == y - o
  <2>2. i \in 1..Width /\ i \in 1..nw /\ i <= nw /\ o + i = y
    BY <1>1, <1>6, <2>1
  <2>. HIDE DEF i
  <2>. QED
    BY <1>1, <2>1, <2>2
<1>7. Min(T) - 1 = o + nw
  <2>. HIDE DEF T, nw
  <2>1. /\ Min(T) \in Nat /\ Min(T) <= o + nw + 1 /\ ~(Min(T) < o + nw + 1)
        /\ o + nw \in Nat
    <3>1. Min(T) \in Nat
      BY <1>3, <1>4
    <3>2. Min(T) <= o + nw + 1
      BY <1>4, <1>5
    <3>3. ~(Min(T) < o + nw + 1)
      BY <1>4, <1>6
    <3>. QED
      BY <1>1, <3>1, <3>2, <3>3
  <2>. QED
    BY ONLY <2>1
<1>. DEFINE r == SubSeq(b, o + 1, o + nw)
<1>8. /\ r \in Seq(Char) /\ Len(r) = nw
      /\ \A i \in 1..nw : r[i] = b[o + i]
  <2>. DEFINE i == o + 1
              j == o + nw
  <2>1. i \in Nat \ {0} /\ j \in Nat /\ i <= j + 1 /\ j <= Len(b) /\ j - i + 1 = nw
    <3>. HIDE DEF nw
    <3>. QED
      BY <1>1
  <2>. HIDE DEF i, j, nw
  <2>2. /\ SubSeq(b, i, j) \in Seq(Char) /\ Len(SubSeq(b, i, j)) = nw
        /\ \A n \in 1..nw : SubSeq(b, i, j)[n] = b[i + n - 1]
    <3>1. b \in Seq(Char)
      BY <1>1
    <3>2. /\ SubSeq(b, i, j) \in Seq(Char) /\ Len(SubSeq(b, i, j)) = j - i + 1
          /\ \A n \in 1..(j - i + 1) : SubSeq(b, i, j)[n] = b[i + n - 1]
      BY ONLY <2>1, <3>1, Pieces
    <3>. QED
      BY ONLY <2>1, <3>2
  <2>3. \A n \in 1..nw : i + n - 1 = o + n
    BY <1>1 DEF i
  <2>. QED
    BY ONLY <2>2, <2>3 DEF i, j
<1>9. r = w
  <2>1. \A i \in 1..nw : r[i] = w[i]
    <3>1. \A i \in 1..nw : i \in 1..Width /\ i <= nw
      <4>. HIDE DEF nw
      <4>. QED
        BY <1>1
    <3>. HIDE DEF r, nw
    <3>. QED
      BY <1>1, <1>8, <3>1
  <2>2. r \in Seq(Char) /\ w \in Seq(Char) /\ Len(r) = Len(w)
    BY <1>1, <1>8
  <2>. HIDE DEF r
  <2>. QED
    BY ONLY <2>1, <2>2, SeqEqual
<1>. QED
  BY <1>2, <1>7, <1>9 DEF w

(* A value is written over another: they are of that room alone.           *)
LEMMA OverwriteIs ==
    ASSUME NEW b, NEW v, Rightly(b, v), NEW k \in DOMAIN Params, NEW w, Valued(k, w),
           NEW u, u[k] = w, \A l \in DOMAIN Params : l # k => u[l] = v[l]
    PROVE  /\ Rightly(Overwrite(b, Offset(k, Width) + 1, w, v[k]), u)
           /\ Len(Overwrite(b, Offset(k, Width) + 1, w, v[k])) = Len(b)
           /\ Offset(k, Width) + 1 + Max({Len(w), Len(v[k])})
                \in (Offset(k, Width) + 2)..(Len(b) + 1)
<1>. DEFINE o == Offset(k, Width)
            old == v[k]
            n == o + 1
            nw == Len(w)
            no == Len(old)
            nb == Len(b)
            top == Max({n + nw, n + no - 1})
            c == Overwrite(b, n, w, old)
<1>1. /\ b \in Seq(Char) /\ nb \in Nat /\ DOMAIN b = 1..nb
      /\ old \in Seq(Char) /\ no \in 1..(Width - 1) /\ o \in Nat /\ o + Width <= nb
      /\ \A i \in 1..Width : b[o + i] = IF i <= no THEN old[i] ELSE NUL
      /\ Width \in Nat
  BY LayoutIs, LenProperties, SubstitutionAssumption
<1>2. w \in Seq(Char) /\ nw \in 1..(Width - 1)
  BY DEF Valued
<1>3. c = [i \in 1..nb |-> IF i \in n..(n + nw - 1) THEN w[i - n + 1]
                           ELSE IF i \in (n + nw)..top THEN NUL
                           ELSE b[i]]
  BY <1>1 DEF Overwrite
<1>. HIDE DEF o, old, nw, no, nb
<1>4. top = IF nw >= no THEN n + nw ELSE IF n + nw >= n + no - 1 THEN n + nw ELSE n + no - 1
  <2>1. n + nw \in Nat /\ n + no - 1 \in Nat
    BY <1>1, <1>2
  <2>2. Max({n + nw, n + no - 1}) = IF n + nw >= n + no - 1 THEN n + nw ELSE n + no - 1
    <3>. DEFINE i == n + nw
                j == n + no - 1
    <3>. HIDE DEF i, j
    <3>. QED
      BY <2>1, MaxOfTwo DEF i, j
  <2>. QED
    BY <1>1, <1>2, <2>2
<1>5. top \in Nat /\ n + nw <= top /\ n + no - 1 <= top /\ top <= o + Width
  <2>. HIDE DEF top
  <2>. QED
    BY <1>1, <1>2, <1>4
<1>. HIDE DEF top, c
<1>6. c \in Seq(Char) /\ Len(c) = nb
  <2>1. ASSUME NEW i \in 1..nb
        PROVE  c[i] \in Char
    <3>1. b[i] \in Char /\ NUL \in Char
      BY <1>1, Characters
    <3>2. CASE i \in n..(n + nw - 1)
      <4>1. i - n + 1 \in 1..nw
        BY <1>1, <1>2, <3>2
      <4>2. w[i - n + 1] \in Char
        BY <1>2, <4>1 DEF nw
      <4>. QED
        BY <1>3, <3>2, <4>2
    <3>3. CASE i \notin n..(n + nw - 1)
      BY <1>3, <3>1, <3>3
    <3>. QED
      BY <3>2, <3>3
  <2>2. c \in [1..nb -> Char]
    BY <1>3, <2>1
  <2>. QED
    BY <1>1, <2>2
<1>7. ASSUME NEW l \in DOMAIN Params, NEW j \in 1..Width
      PROVE  c[Offset(l, Width) + j] = IF j <= Len(u[l]) THEN u[l][j] ELSE NUL
  <2>1. CASE l = k
    <3>. DEFINE i == o + j
    <3>1. Offset(l, Width) + j = i /\ u[l] = w
      BY <2>1 DEF o
    <3>2. i \in 1..nb
      BY <1>1
    <3>3. CASE j <= nw
      <4>1. i \in n..(n + nw - 1) /\ i - n + 1 = j
        BY <1>1, <1>2, <3>3
      <4>. HIDE DEF i
      <4>2. c[i] = w[j]
        BY <1>3, <3>2, <4>1
      <4>. QED
        BY <3>1, <3>3, <4>2 DEF nw
    <3>4. CASE ~(j <= nw)
      <4>1. i \notin n..(n + nw - 1)
        BY <1>1, <1>2, <3>4
      <4>2. i \in (n + nw)..top \/ b[i] = NUL
        <5>1. CASE j <= no
          <6>1. i \in (n + nw)..top
            BY <1>1, <1>2, <1>5, <3>4, <5>1
          <6>. QED
            BY <6>1
        <5>2. CASE ~(j <= no)
          BY <1>1, <5>2
        <5>. QED
          BY <5>1, <5>2
      <4>. HIDE DEF i
      <4>3. c[i] = NUL
        BY <1>3, <3>2, <4>1, <4>2
      <4>. QED
        BY <3>1, <3>4, <4>3 DEF nw
    <3>. QED
      BY <3>3, <3>4
  <2>2. CASE l # k
    <3>. DEFINE p == Offset(l, Width)
                i == p + j
    <3>1. /\ p \in Nat /\ p + Width <= nb
          /\ \A h \in 1..Width : b[p + h] = IF h <= Len(v[l]) THEN v[l][h] ELSE NUL
      BY LayoutIs DEF nb
    <3>2. p + Width <= o \/ o + Width <= p
      <4>1. l \in Nat \ {0} /\ k \in Nat \ {0} /\ (l < k \/ k < l)
        BY <2>2, LayoutIs
      <4>. QED
        BY <1>1, <4>1, RoomsApart DEF o
    <3>3. i \in 1..nb
      BY <1>1, <3>1
    <3>. HIDE DEF p
    <3>4. i \notin n..(n + nw - 1) /\ i \notin (n + nw)..top
      BY <1>1, <1>2, <1>5, <3>1, <3>2
    <3>5. b[i] = IF j <= Len(v[l]) THEN v[l][j] ELSE NUL
      BY <3>1
    <3>. HIDE DEF i
    <3>6. c[i] = b[i]
      BY <1>3, <3>3, <3>4
    <3>. QED
      BY <2>2, <3>5, <3>6 DEF i, p
  <2>. QED
    BY <2>1, <2>2
<1>8. Layout(c, u)
  <2>1. Len(c) = Len(Params) * Width
    BY <1>6 DEF Rightly, Layout, nb
  <2>. QED
    BY <1>7, <2>1 DEF Layout, Offset
<1>9. \A l \in DOMAIN Params : Valued(l, u[l])
  BY DEF Rightly
<1>10. o + 1 + Max({nw, no}) \in (o + 2)..(nb + 1)
  <2>1. Max({nw, no}) = IF nw >= no THEN nw ELSE no
    <3>1. nw \in Nat /\ no \in Nat
      BY <1>1, <1>2
    <3>. QED
      BY ONLY <3>1, MaxOfTwo
  <2>. DEFINE i == Max({nw, no})
  <2>. HIDE DEF i
  <2>2. i \in 1..(Width - 1)
    BY <1>1, <1>2, <2>1 DEF i
  <2>3. o + 1 + i \in (o + 2)..(nb + 1)
    BY <1>1, <2>2
  <2>. QED
    BY <2>3 DEF i
<1>. QED
  BY <1>6, <1>8, <1>9, <1>10 DEF Rightly, c, n, o, old, nw, no, nb

(* A binary as it is built.                                                *)
LEMMA PaddedIs ==
    ASSUME NEW v \in Seq(Char), Len(v) \in 1..(Width - 1)
    PROVE  /\ Padded(v) \in Seq(Char) /\ Len(Padded(v)) = Width
           /\ \A j \in 1..Width : Padded(v)[j] = IF j <= Len(v) THEN v[j] ELSE NUL
<1>. DEFINE nv == Len(v)
            m == Width - nv
            z == [n \in 1..m |-> NUL]
<1>1. Width \in Nat /\ nv \in 1..(Width - 1)
  BY SubstitutionAssumption
<1>. HIDE DEF nv
<1>2. m \in Nat /\ nv + m = Width
  BY <1>1
<1>. HIDE DEF m
<1>3. z \in Seq(Char) /\ Len(z) = m /\ \A n \in 1..m : z[n] = NUL
  <2>1. z \in [1..m -> Char]
    BY Characters
  <2>. QED
    BY <1>2, <2>1
<1>. HIDE DEF z
<1>4. /\ v \o z \in Seq(Char) /\ Len(v \o z) = nv + m
      /\ \A j \in 1..(nv + m) : (v \o z)[j] = IF j <= nv THEN v[j] ELSE z[j - nv]
  <2>1. /\ v \o z \in Seq(Char) /\ Len(v \o z) = Len(v) + Len(z)
        /\ \A j \in 1..(Len(v) + Len(z)) :
              (v \o z)[j] = IF j <= Len(v) THEN v[j] ELSE z[j - Len(v)]
    <3>1. z \in Seq(Char)
      BY <1>3
    <3>. QED
      BY ONLY v \in Seq(Char), <3>1, ConcatProperties
  <2>2. Len(z) = m /\ Len(v) = nv
    BY <1>3 DEF nv
  <2>. QED
    BY ONLY <2>1, <2>2
<1>5. \A j \in 1..Width : ~(j <= nv) => j - nv \in 1..m
  BY <1>1, <1>2
<1>6. \A j \in 1..Width : (v \o z)[j] = IF j <= nv THEN v[j] ELSE NUL
  BY ONLY <1>2, <1>3, <1>4, <1>5
<1>7. Padded(v) = v \o z
  BY DEF Padded, z, m, nv
<1>. QED
  BY <1>2, <1>4, <1>6, <1>7 DEF nv

LEMMA BuiltIs ==
    ASSUME NEW p \in Fitting
    PROVE  Rightly(Binary(p), BuiltValues(p))
<1>. DEFINE m == Len(Params)
            values == BuiltValues(p)
            s == [k \in DOMAIN Params |-> Padded(values[k])]
<1>1. m \in Nat \ {0} /\ DOMAIN Params = 1..m /\ Width \in Nat
  BY SubstitutionAssumption
<1>2. \A k \in DOMAIN Params : Valued(k, values[k])
  BY ValuesAreValued
<1>3. Len(s) = m
  BY <1>1
<1>4. ASSUME NEW k \in 1..m
      PROVE  /\ s[k] \in Seq(Char) /\ Len(s[k]) = Width
             /\ \A j \in 1..Width :
                   s[k][j] = IF j <= Len(values[k]) THEN values[k][j] ELSE NUL
  <2>1. s[k] = Padded(values[k])
    BY <1>1
  <2>2. values[k] \in Seq(Char) /\ Len(values[k]) \in 1..(Width - 1)
    BY <1>1, <1>2 DEF Valued
  <2>. HIDE DEF s, values
  <2>. QED
    BY <2>1, <2>2, PaddedIs
<1>. HIDE DEF s, values
<1>5. /\ FlattenSeq(s) \in Seq(Char) /\ Len(FlattenSeq(s)) = Offset(m + 1, Width)
      /\ \A k \in 1..m, j \in 1..Width : FlattenSeq(s)[Offset(k, Width) + j] = s[k][j]
  <2>1. \A n \in 1..m : s[n] \in Seq(Char) /\ Len(s[n]) = Width
    BY <1>4
  <2>2. m \in Nat \ {0} /\ Width \in Nat
    BY <1>1
  <2>. HIDE DEF m, Offset
  <2>3. FlattenSeq(s) \in Seq(Char)
    BY ONLY <1>3, <2>1, <2>2, FlattenRooms
  <2>4. Len(FlattenSeq(s)) = Offset(m + 1, Width)
    BY ONLY <1>3, <2>1, <2>2, FlattenRooms
  <2>5. \A k \in 1..m, j \in 1..Width : FlattenSeq(s)[Offset(k, Width) + j] = s[k][j]
    BY ONLY <1>3, <2>1, <2>2, FlattenRooms
  <2>. QED
    BY ONLY <2>3, <2>4, <2>5
<1>6. Binary(p) = FlattenSeq(s)
  BY DEF Binary, s, values
<1>7. Offset(m + 1, Width) = m * Width
  <2>. HIDE DEF m
  <2>. QED
    BY <1>1, Rooms
<1>8. \A k \in 1..m, j \in 1..Width :
         FlattenSeq(s)[Offset(k, Width) + j]
            = IF j <= Len(values[k]) THEN values[k][j] ELSE NUL
  BY <1>4, <1>5
<1>9. Layout(FlattenSeq(s), values)
  BY <1>1, <1>5, <1>7, <1>8 DEF Layout, Offset
<1>. QED
  BY <1>2, <1>5, <1>6, <1>9 DEF Rightly, values

(* The values a binary is built with, and those it is patched with, are    *)
(* the same but for the separators.                                        *)
LEMMA SameValues ==
    ASSUME NEW p \in Fitting, NEW k \in DOMAIN Params
    PROVE  LET v == NewValues(p)[k]
               w == BuiltValues(p)[k]
           IN /\ Len(v) = Len(w)
              /\ \A j \in 1..Len(v) : w[j] = IF v[j] = Backslash THEN Slash ELSE v[j]
              /\ \A j \in 1..Len(w) : w[j] # Backslash
<1>. DEFINE v == NewValues(p)[k]
            w == BuiltValues(p)[k]
            x == Params[k].prefix
            d == Params[k].dir
            q == Spelled(p, "single")
<1>1. v = Value(Params[k], q, <<Backslash>>) /\ w = Value(Params[k], p, <<Slash>>)
  BY DEF NewValues, NewValue, BuiltValues
<1>2. /\ p \in Seq(Char) /\ q \in Seq(Char) /\ Len(q) = Len(p)
      /\ \A n \in 1..Len(p) : p[n] # Backslash
      /\ \A n \in 1..Len(p) : p[n] = IF q[n] = Backslash THEN Slash ELSE q[n]
  BY PathIs DEF Fitting
<1>3. /\ x \in Seq(Char) /\ \A n \in 1..Len(x) : x[n] # Backslash
      /\ d \in Seq(Char) /\ \A n \in 1..Len(d) : d[n] # Backslash
  BY Parameter DEF Plain
<1>. DEFINE nx == Len(x)
            nq == Len(p)
            nd == Len(d)
            tail == IF d = <<>> THEN 0 ELSE 1 + nd
<1>4. /\ Len(v) = nx + nq + tail
      /\ \A j \in 1..(nx + nq + tail) :
            v[j] = IF j <= nx THEN x[j]
                   ELSE IF j - nx <= nq THEN q[j - nx]
                   ELSE IF j - nx - nq <= 1 THEN Backslash
                   ELSE d[j - nx - nq - 1]
  <2>1. LET u == Value(Params[k], q, <<Backslash>>)
        IN /\ Len(u) = Len(x) + Len(q) + IF d = <<>> THEN 0 ELSE 1 + Len(d)
           /\ \A j \in 1..Len(u) :
                 u[j] = IF j <= Len(x) THEN x[j]
                        ELSE IF j - Len(x) <= Len(q) THEN q[j - Len(x)]
                        ELSE IF j - Len(x) - Len(q) <= 1 THEN Backslash
                        ELSE d[j - Len(x) - Len(q) - 1]
    BY <1>2, Characters, ValueIs
  <2>. HIDE DEF v, x, d, q
  <2>. QED
    BY <1>1, <1>2, <2>1
<1>5. /\ Len(w) = nx + nq + tail
      /\ \A j \in 1..(nx + nq + tail) :
            w[j] = IF j <= nx THEN x[j]
                   ELSE IF j - nx <= nq THEN p[j - nx]
                   ELSE IF j - nx - nq <= 1 THEN Slash
                   ELSE d[j - nx - nq - 1]
  <2>1. LET u == Value(Params[k], p, <<Slash>>)
        IN /\ Len(u) = Len(x) + Len(p) + IF d = <<>> THEN 0 ELSE 1 + Len(d)
           /\ \A j \in 1..Len(u) :
                 u[j] = IF j <= Len(x) THEN x[j]
                        ELSE IF j - Len(x) <= Len(p) THEN p[j - Len(x)]
                        ELSE IF j - Len(x) - Len(p) <= 1 THEN Slash
                        ELSE d[j - Len(x) - Len(p) - 1]
    BY <1>2, Characters, ValueIs
  <2>. HIDE DEF w, x, d
  <2>. QED
    BY <1>1, <2>1
<1>6. nx \in Nat /\ nq \in Nat /\ nd \in Nat /\ (d = <<>> => tail = 0)
  BY <1>2, <1>3, LenProperties
<1>. HIDE DEF v, w, x, d, q
<1>7. ASSUME NEW j \in 1..(nx + nq + tail)
      PROVE  w[j] = (IF v[j] = Backslash THEN Slash ELSE v[j]) /\ w[j] # Backslash
  <2>0. tail \in Nat
    BY ONLY <1>6
  <2>1. CASE j <= nx
    <3>1. v[j] = x[j] /\ w[j] = x[j]
      BY <1>4, <1>5, <2>1
    <3>2. j \in 1..nx
      <4>. HIDE DEF nx, nq, tail
      <4>. QED
        BY <1>6, <2>0, <2>1
    <3>. QED
      BY <1>3, <3>1, <3>2
  <2>2. CASE ~(j <= nx) /\ j - nx <= nq
    <3>1. v[j] = q[j - nx] /\ w[j] = p[j - nx]
      BY <1>4, <1>5, <2>2
    <3>2. j - nx \in 1..nq
      <4>. HIDE DEF nx, nq, tail
      <4>. QED
        BY <1>6, <2>0, <2>2
    <3>. QED
      BY <1>2, <3>1, <3>2
  <2>3. CASE ~(j <= nx) /\ ~(j - nx <= nq) /\ j - nx - nq <= 1
    <3>1. v[j] = Backslash /\ w[j] = Slash
      BY <1>4, <1>5, <2>3
    <3>. QED
      BY <3>1, Characters
  <2>4. CASE ~(j <= nx) /\ ~(j - nx <= nq) /\ ~(j - nx - nq <= 1)
    <3>1. v[j] = d[j - nx - nq - 1] /\ w[j] = d[j - nx - nq - 1]
      BY <1>4, <1>5, <2>4
    <3>2. j - nx - nq - 1 \in 1..nd
      <4>. HIDE DEF nx, nq, nd
      <4>. QED
        BY <1>6, <2>4
    <3>. QED
      BY <1>3, <3>1, <3>2
  <2>. QED
    BY <2>1, <2>2, <2>3, <2>4
<1>8. Len(v) = Len(w) /\ Len(v) = nx + nq + tail
  BY <1>4, <1>5
<1>. HIDE DEF nx, nq, tail
<1>9. \A j \in 1..Len(v) :
         w[j] = (IF v[j] = Backslash THEN Slash ELSE v[j]) /\ w[j] # Backslash
  BY <1>7, <1>8
<1>. QED
  BY <1>8, <1>9 DEF v, w

LEMMA FollowsIs ==
    ASSUME NEW p \in Fitting, NEW values \in {BuiltValues(p), NewValues(p)},
           NEW b, Rightly(b, values)
    PROVE  [n \in DOMAIN b |-> IF b[n] = Backslash THEN Slash ELSE b[n]] = Binary(p)
<1>. DEFINE c == Binary(p)
            w == BuiltValues(p)
            m == Len(Params)
            norm(x) == IF x = Backslash THEN Slash ELSE x
            e == Offset(m + 1, Width)
<1>1. Rightly(c, w)
  BY BuiltIs
<1>2. /\ b \in Seq(Char) /\ Len(b) = e /\ DOMAIN b = 1..e
      /\ c \in Seq(Char) /\ Len(c) = e /\ DOMAIN c = 1..e
      /\ m \in Nat \ {0} /\ DOMAIN Params = 1..m /\ Width \in Nat
  <2>1. Len(b) = e /\ b \in Seq(Char) /\ DOMAIN b = 1..Len(b)
    BY LayoutIs
  <2>2. Len(c) = e /\ c \in Seq(Char) /\ DOMAIN c = 1..Len(c)
    BY <1>1, LayoutIs
  <2>3. m \in Nat \ {0} /\ DOMAIN Params = 1..m
    BY LayoutIs
  <2>. HIDE DEF e, m, c
  <2>. QED
    BY <2>1, <2>2, <2>3, SubstitutionAssumption
<1>3. ASSUME NEW n \in 1..e
      PROVE  c[n] = norm(b[n])
  <2>1. PICK k \in 1..m, j \in 1..Width : n = Offset(k, Width) + j
    <3>. HIDE DEF m
    <3>. QED
      BY <1>2, InARoom
  <2>2. b[n] = IF j <= Len(values[k]) THEN values[k][j] ELSE NUL
    <3>1. k \in DOMAIN Params
      BY <1>2
    <3>2. \A i \in 1..Width :
             b[Offset(k, Width) + i] = IF i <= Len(values[k]) THEN values[k][i] ELSE NUL
      BY <3>1, LayoutIs
    <3>. QED
      BY <2>1, <3>2
  <2>3. /\ c[n] = IF j <= Len(w[k]) THEN w[k][j] ELSE NUL
        /\ Len(w[k]) \in 1..(Width - 1)
    <3>1. k \in DOMAIN Params
      BY <1>2
    <3>. HIDE DEF c, w
    <3>2. \A i \in 1..Width :
             c[Offset(k, Width) + i] = IF i <= Len(w[k]) THEN w[k][i] ELSE NUL
      BY ONLY <1>1, <3>1, LayoutIs
    <3>3. Len(w[k]) \in 1..(Width - 1)
      BY ONLY <1>1, <3>1, LayoutIs
    <3>. QED
      BY <2>1, <3>2, <3>3
  <2>4. /\ Len(values[k]) = Len(w[k])
        /\ \A i \in 1..Len(w[k]) : w[k][i] = norm(values[k][i])
    <3>1. CASE values = w
      <4>1. \A i \in 1..Len(w[k]) : w[k][i] # Backslash
        BY <1>2, SameValues
      <4>. HIDE DEF w
      <4>. QED
        BY <3>1, <4>1
    <3>2. CASE values = NewValues(p)
      <4>1. /\ Len(NewValues(p)[k]) = Len(w[k])
            /\ \A i \in 1..Len(NewValues(p)[k]) : w[k][i] = norm(NewValues(p)[k][i])
        BY <1>2, SameValues
      <4>. HIDE DEF w, norm
      <4>. QED
        BY <3>2, <4>1
    <3>. QED
      BY <3>1, <3>2
  <2>5. j <= Len(w[k]) => j \in 1..Len(w[k])
    BY <2>3
  <2>6. norm(NUL) = NUL
    BY Characters
  <2>. HIDE DEF norm, c, w
  <2>. QED
    BY <2>2, <2>3, <2>4, <2>5, <2>6
<1>4. c = [n \in 1..e |-> c[n]]
  <2>. HIDE DEF c, e
  <2>. QED
    BY <1>2
<1>. HIDE DEF c, e
<1>5. [n \in DOMAIN b |-> norm(b[n])] = c
  <2>1. [n \in 1..e |-> norm(b[n])] = [n \in 1..e |-> c[n]]
    <3>. HIDE DEF norm
    <3>. QED
      BY <1>3
  <2>. QED
    BY <1>2, <1>4, <2>1
<1>. QED
  BY <1>5 DEF c

(* Where the pieces of a flattened sequence are: of Places, too, there is  *)
(* a function for each length.                                             *)
Placing(s, m) == \E f : f = [n \in 1..m |-> IF n = 1 THEN 1 ELSE f[n - 1] + Len(s[n - 1])]

LEMMA PlacingStep ==
    ASSUME NEW s, NEW m \in Nat, Placing(s, m)
    PROVE  Placing(s, m + 1)
<1>1. PICK f : f = [n \in 1..m |-> IF n = 1 THEN 1 ELSE f[n - 1] + Len(s[n - 1])]
  BY DEF Placing
<1>. DEFINE last == IF m = 0 THEN 1 ELSE f[m] + Len(s[m])
            g == [n \in 1..(m + 1) |-> IF n = m + 1 THEN last ELSE f[n]]
            h == [n \in 1..(m + 1) |-> IF n = 1 THEN 1 ELSE g[n - 1] + Len(s[n - 1])]
<1>2. ASSUME NEW n \in 1..(m + 1)
      PROVE  g[n] = h[n]
  <2>1. CASE n = m + 1
    <3>1. n = 1 \/ (n - 1 \in 1..(m + 1) /\ n - 1 # m + 1 /\ n - 1 = m)
      BY <2>1
    <3>2. CASE n = 1
      BY <2>1, <3>2
    <3>3. CASE n # 1
      <4>1. g[n - 1] = f[m]
        BY <3>1, <3>3
      <4>2. m # 0
        BY <2>1, <3>3
      <4>3. h[n] = g[n - 1] + Len(s[n - 1])
        BY <3>3
      <4>. QED
        BY <2>1, <3>1, <3>3, <4>1, <4>2, <4>3
    <3>. QED
      BY <3>2, <3>3
  <2>2. CASE n # m + 1
    <3>1. n \in 1..m /\ (n # 1 => n - 1 \in 1..m /\ n - 1 \in 1..(m + 1) /\ n - 1 # m + 1)
      BY <2>2
    <3>2. f[n] = IF n = 1 THEN 1 ELSE f[n - 1] + Len(s[n - 1])
      BY <1>1, <3>1
    <3>. QED
      BY <3>1, <3>2
  <2>. QED
    BY <2>1, <2>2
<1>3. g = h
  <2>. HIDE DEF last
  <2>. QED
    BY <1>2
<1>. HIDE DEF g
<1>. QED
  BY <1>3 DEF Placing

LEMMA PlacingExists ==
    ASSUME NEW s, NEW m \in Nat
    PROVE  Placing(s, m)
<1>. DEFINE T == {n \in Nat : ~Placing(s, n)}
<1>. SUFFICES ASSUME T # {} PROVE FALSE
  OBVIOUS
<1>1. PICK x \in T : \A y \in T : x <= y
  BY Least
<1>2. Placing(s, 0)
  <2>1. [n \in {} |-> {}] = [n \in 1..0 |->
           IF n = 1 THEN 1 ELSE [k \in {} |-> {}][n - 1] + Len(s[n - 1])]
    OBVIOUS
  <2>. QED
    BY <2>1 DEF Placing
<1>3. x # 0 /\ x - 1 \in Nat
  BY <1>1, <1>2
<1>4. Placing(s, x - 1)
  BY <1>1, <1>3
<1>5. Placing(s, (x - 1) + 1)
  BY <1>3, <1>4, PlacingStep
<1>. QED
  BY <1>1, <1>3, <1>5

LEMMA PiecesAre ==
    ASSUME NEW s \in Seq(Seq(Char))
    PROVE  /\ Len(s) \in Nat /\ DOMAIN s = 1..Len(s)
           /\ \A n \in 1..Len(s) : s[n] \in Seq(Char) /\ Len(s[n]) \in Nat
OBVIOUS

LEMMA PlacesIs ==
    ASSUME NEW s \in Seq(Seq(Char))
    PROVE  /\ Places(s)[1] = 1
           /\ \A n \in 1..(Len(s) + 1) : Places(s)[n] \in Nat \ {0}
           /\ \A n \in 1..Len(s) : Places(s)[n + 1] = Places(s)[n] + Len(s[n])
<1>. DEFINE m == Len(s)
            f == Places(s)
<1>1. m \in Nat /\ \A n \in 1..m : s[n] \in Seq(Char) /\ Len(s[n]) \in Nat
  BY PiecesAre
<1>2. f = [n \in 1..(m + 1) |-> IF n = 1 THEN 1 ELSE f[n - 1] + Len(s[n - 1])]
  <2>1. m + 1 \in Nat
    BY <1>1
  <2>2. \E g : g = [n \in 1..(m + 1) |-> IF n = 1 THEN 1 ELSE g[n - 1] + Len(s[n - 1])]
    <3>. HIDE DEF m
    <3>. QED
      BY <2>1, PlacingExists DEF Placing
  <2>3. f = CHOOSE g : g = [n \in 1..(m + 1) |-> IF n = 1 THEN 1 ELSE g[n - 1] + Len(s[n - 1])]
    BY DEF Places
  <2>. HIDE DEF f, m
  <2>. QED
    BY <2>2, <2>3
<1>. HIDE DEF f, m
<1>. DEFINE G == {n \in 1..(m + 1) : f[n] \in Nat \ {0}}
<1>3. ASSUME NEW n \in 1..m
      PROVE  f[n + 1] = f[n] + Len(s[n])
  <2>1. n + 1 \in 1..(m + 1) /\ n + 1 # 1 /\ (n + 1) - 1 = n
    BY <1>1
  <2>. QED
    BY <1>2, <2>1
<1>4. f[1] = 1
  BY <1>1, <1>2
<1>5. ASSUME NEW n \in 1..(m + 1), n = 1 \/ n - 1 \in G
      PROVE  n \in G
  <2>1. CASE n = 1
    BY <1>4, <2>1
  <2>2. CASE n # 1
    <3>1. n - 1 \in 1..m /\ (n - 1) + 1 = n
      BY <1>1, <2>2
    <3>2. f[n] = f[n - 1] + Len(s[n - 1]) /\ f[n - 1] \in Nat \ {0} /\ Len(s[n - 1]) \in Nat
      BY <1>1, <1>3, <1>5, <2>2, <3>1
    <3>3. f[n] \in Nat \ {0}
      <4>1. \A a \in Nat \ {0}, b \in Nat : a + b \in Nat \ {0}
        OBVIOUS
      <4>. QED
        BY ONLY <3>2, <4>1, Zenon
    <3>. QED
      BY <3>3
  <2>. QED
    BY <2>1, <2>2
<1>6. \A n \in 1..(m + 1) : n \in G
  <2>1. \A n \in 1..(m + 1) : n = 1 \/ n - 1 \in G => n \in G
    BY <1>5
  <2>. HIDE DEF G
  <2>2. m + 1 \in Nat
    BY <1>1
  <2>. QED
    BY <2>1, <2>2, UpTo
<1>. QED
  BY <1>3, <1>4, <1>6 DEF f, m

(* A piece ends where a later one begins, or before that.                  *)
LEMMA PlacesApart ==
    ASSUME NEW s \in Seq(Seq(Char)), NEW i \in 1..Len(s), NEW l \in 1..(Len(s) + 1), i < l
    PROVE  Places(s)[i] + Len(s[i]) <= Places(s)[l]
<1>. DEFINE m == Len(s)
            f == Places(s)
            ni == Len(s[i])
<1>1. /\ m \in Nat /\ \A n \in 1..m : Len(s[n]) \in Nat
      /\ \A n \in 1..(m + 1) : f[n] \in Nat \ {0}
      /\ \A n \in 1..m : f[n + 1] = f[n] + Len(s[n])
  BY PiecesAre, PlacesIs
<1>. HIDE DEF m, f
<1>. DEFINE G == {n \in 1..(m + 1) : i < n => f[i] + ni <= f[n]}
<1>2. ASSUME NEW n \in 1..(m + 1), n = 1 \/ n - 1 \in G
      PROVE  n \in G
  <2>. SUFFICES ASSUME i < n PROVE f[i] + ni <= f[n]
    OBVIOUS
  <2>1. n - 1 \in 1..m /\ (n - 1) + 1 = n /\ (i = n - 1 \/ i < n - 1) /\ n # 1 /\ n - 1 \in 1..(m + 1)
    BY <1>1 DEF m
  <2>2. f[n] = f[n - 1] + Len(s[n - 1])
    BY <1>1, <2>1
  <2>3. CASE i = n - 1
    <3>1. f[n] = f[i] + ni /\ f[n] \in Nat
      BY <1>1, <2>2, <2>3
    <3>. QED
      BY <3>1
  <2>4. CASE i < n - 1
    <3>1. f[i] + ni <= f[n - 1]
      BY <1>2, <2>1, <2>4
    <3>2. Len(s[n - 1]) \in Nat /\ f[n - 1] \in Nat /\ f[i] + ni \in Nat
      <4>1. i \in 1..m /\ i \in 1..(m + 1)
        BY <1>1 DEF m
      <4>2. f[i] \in Nat /\ ni \in Nat
        BY <1>1, <4>1
      <4>3. f[n - 1] \in Nat
        BY <1>1, <2>1
      <4>4. Len(s[n - 1]) \in Nat
        BY <1>1, <2>1
      <4>5. \A a, b \in Nat : a + b \in Nat
        OBVIOUS
      <4>6. f[i] + ni \in Nat
        BY ONLY <4>2, <4>5
      <4>. HIDE DEF ni
      <4>. QED
        BY ONLY <4>3, <4>4, <4>6
    <3>. HIDE DEF ni
    <3>3. \A a, b, c \in Nat : a <= b => a <= b + c
      OBVIOUS
    <3>. QED
      BY <2>2, <3>1, <3>2, <3>3
  <2>. QED
    BY <2>1, <2>3, <2>4
<1>3. \A n \in 1..(m + 1) : n \in G
  <2>1. \A n \in 1..(m + 1) : n = 1 \/ n - 1 \in G => n \in G
    BY <1>2
  <2>. HIDE DEF G
  <2>2. m + 1 \in Nat
    BY <1>1
  <2>. QED
    BY <2>1, <2>2, UpTo
<1>. QED
  BY <1>3 DEF f, m
(* Pieces that are the same are at the same places.                        *)
LEMMA PlacesSame ==
    ASSUME NEW s \in Seq(Seq(Char)), NEW u \in Seq(Seq(Char)), NEW k \in Nat,
           k <= Len(s), k <= Len(u), \A n \in 1..k : s[n] = u[n]
    PROVE  \A n \in 1..(k + 1) : Places(s)[n] = Places(u)[n]
<1>. DEFINE f == Places(s)
            g == Places(u)
            G == {n \in 1..(k + 1) : f[n] = g[n]}
<1>1. /\ f[1] = 1 /\ g[1] = 1
      /\ \A n \in 1..k : f[n + 1] = f[n] + Len(s[n])
      /\ \A n \in 1..k : g[n + 1] = g[n] + Len(u[n])
  <2>1. Len(s) \in Nat /\ Len(u) \in Nat
    OBVIOUS
  <2>2. \A n \in 1..k : n \in 1..Len(s) /\ n \in 1..Len(u)
    BY <2>1
  <2>. HIDE DEF f, g
  <2>. QED
    BY <2>2, PlacesIs DEF f, g
<1>. HIDE DEF f, g
<1>2. ASSUME NEW n \in 1..(k + 1), n = 1 \/ n - 1 \in G
      PROVE  n \in G
  <2>1. CASE n = 1
    BY <1>1, <2>1
  <2>2. CASE n # 1
    <3>1. n - 1 \in 1..k /\ (n - 1) + 1 = n /\ f[n - 1] = g[n - 1]
      BY <1>2, <2>2
    <3>2. f[n] = f[n - 1] + Len(s[n - 1]) /\ g[n] = g[n - 1] + Len(u[n - 1])
      BY <1>1, <3>1
    <3>. QED
      BY <3>1, <3>2
  <2>. QED
    BY <2>1, <2>2
<1>3. \A n \in 1..(k + 1) : n \in G
  <2>1. \A n \in 1..(k + 1) : n = 1 \/ n - 1 \in G => n \in G
    BY <1>2
  <2>. HIDE DEF G
  <2>2. k + 1 \in Nat
    OBVIOUS
  <2>. QED
    BY <2>1, <2>2, UpTo
<1>. QED
  BY <1>3 DEF f, g

(* If one piece is another, those behind it are moved.                     *)
LEMMA PlacesMoved ==
    ASSUME NEW s \in Seq(Seq(Char)), NEW u \in Seq(Seq(Char)), Len(s) = Len(u),
           NEW i \in 1..Len(s), \A n \in 1..Len(s) : n # i => s[n] = u[n]
    PROVE  \A n \in (i + 1)..(Len(s) + 1) :
              Places(u)[n] = Places(s)[n] - Len(s[i]) + Len(u[i])
<1>. DEFINE m == Len(s)
            f == Places(s)
            g == Places(u)
            a == Len(s[i])
            b == Len(u[i])
            G == {n \in 1..(m + 1) : i < n => g[n] = f[n] - a + b}
<1>1. /\ m \in Nat /\ i \in 1..m /\ a \in Nat /\ b \in Nat
      /\ \A n \in 1..(m + 1) : f[n] \in Nat /\ g[n] \in Nat
      /\ \A n \in 1..m : f[n + 1] = f[n] + Len(s[n])
      /\ \A n \in 1..m : g[n + 1] = g[n] + Len(u[n])
      /\ \A n \in 1..m : Len(s[n]) \in Nat
      /\ f[i] = g[i]
  <2>1. Len(s) \in Nat /\ \A n \in 1..Len(s) : Len(s[n]) \in Nat
    BY PiecesAre
  <2>2. \A n \in 1..Len(s) : Len(u[n]) \in Nat
    BY PiecesAre
  <2>3. f[i] = g[i]
    <3>. DEFINE k == i - 1
    <3>1. k \in Nat /\ k <= Len(s) /\ k <= Len(u) /\ k + 1 = i /\ i \in 1..(k + 1)
      BY <2>1
    <3>2. \A n \in 1..k : s[n] = u[n]
      <4>1. \A n \in 1..k : n \in 1..Len(s) /\ n # i
        BY <2>1
      <4>. QED
        BY <4>1
    <3>. HIDE DEF k
    <3>3. \A n \in 1..(k + 1) : Places(s)[n] = Places(u)[n]
      BY ONLY s \in Seq(Seq(Char)), u \in Seq(Seq(Char)), <3>1, <3>2, PlacesSame
    <3>. QED
      BY <3>1, <3>3
  <2>4. /\ \A n \in 1..(m + 1) : f[n] \in Nat
        /\ \A n \in 1..m : f[n + 1] = f[n] + Len(s[n])
    BY PlacesIs
  <2>5. /\ \A n \in 1..(m + 1) : g[n] \in Nat
        /\ \A n \in 1..m : g[n + 1] = g[n] + Len(u[n])
    BY PlacesIs
  <2>. HIDE DEF f, g
  <2>. QED
    BY <2>1, <2>2, <2>3, <2>4, <2>5
<1>2. \A n \in 1..m : n # i => s[n] = u[n]
  OBVIOUS
<1>. HIDE DEF m, f, g
<1>3. ASSUME NEW n \in 1..(m + 1), n = 1 \/ n - 1 \in G
      PROVE  n \in G
  <2>. SUFFICES ASSUME i < n PROVE g[n] = f[n] - a + b
    OBVIOUS
  <2>1. n - 1 \in 1..m /\ (n - 1) + 1 = n /\ n # 1 /\ (n - 1 = i \/ i < n - 1) /\ n - 1 \in 1..(m + 1)
    BY <1>1
  <2>2. f[n] = f[n - 1] + Len(s[n - 1]) /\ g[n] = g[n - 1] + Len(u[n - 1])
    BY <1>1, <2>1
  <2>3. f[n - 1] \in Nat /\ g[n - 1] \in Nat
    BY <1>1, <2>1
  <2>4. CASE n - 1 = i
    <3>1. f[n] = f[i] + a /\ g[n] = f[i] + b /\ f[i] \in Nat
      BY <1>1, <2>2, <2>3, <2>4
    <3>. HIDE DEF a, b
    <3>. QED
      BY <1>1, <3>1
  <2>5. CASE i < n - 1
    <3>1. g[n - 1] = f[n - 1] - a + b
      BY <1>3, <2>1, <2>5
    <3>2. s[n - 1] = u[n - 1] /\ Len(s[n - 1]) \in Nat
      <4>1. n - 1 # i
        BY <1>1, <2>1, <2>5
      <4>2. s[n - 1] = u[n - 1]
        BY <1>2, <2>1, <4>1
      <4>3. Len(s[n - 1]) \in Nat
        BY <1>1, <2>1
      <4>. QED
        BY ONLY <4>2, <4>3
    <3>. DEFINE x == Len(s[n - 1])
    <3>3. f[n] = f[n - 1] + x /\ g[n] = g[n - 1] + x /\ x \in Nat
      BY <2>2, <3>2
    <3>4. a \in Nat /\ b \in Nat
      BY <1>1
    <3>. DEFINE p == f[n - 1]
                q == g[n - 1]
    <3>5. /\ q = p - a + b /\ f[n] = p + x /\ g[n] = q + x
          /\ p \in Nat /\ q \in Nat /\ x \in Nat
      BY ONLY <2>3, <3>1, <3>3
    <3>. HIDE DEF a, b, x, p, q
    <3>. QED
      BY ONLY <3>4, <3>5
  <2>. QED
    BY <2>1, <2>4, <2>5
<1>4. \A n \in 1..(m + 1) : n \in G
  <2>1. \A n \in 1..(m + 1) : n = 1 \/ n - 1 \in G => n \in G
    BY <1>3
  <2>. HIDE DEF G
  <2>2. m + 1 \in Nat
    BY <1>1
  <2>. QED
    BY <2>1, <2>2, UpTo
<1>5. ASSUME NEW n \in (i + 1)..(m + 1)
      PROVE  g[n] = f[n] - a + b
  <2>1. n \in 1..(m + 1) /\ i < n
    BY <1>1
  <2>. HIDE DEF a, b
  <2>. QED
    BY <1>4, <2>1
<1>. QED
  BY <1>5 DEF f, g, m, a, b

(* Every place is in a piece.                                              *)
LEMMA InAPiece ==
    ASSUME NEW s \in Seq(Seq(Char)), NEW n \in 1..(Places(s)[Len(s) + 1] - 1)
    PROVE  \E i \in 1..Len(s) : \E j \in 1..Len(s[i]) : n = Places(s)[i] + j - 1
<1>. DEFINE m == Len(s)
            f == Places(s)
            T == {k \in 1..(m + 1) : n < f[k]}
<1>1. /\ m \in Nat /\ (\A k \in 1..m : Len(s[k]) \in Nat) /\ f[1] = 1
      /\ \A k \in 1..(m + 1) : f[k] \in Nat \ {0}
      /\ \A k \in 1..m : f[k + 1] = f[k] + Len(s[k])
      /\ n \in 1..(f[m + 1] - 1)
  BY PiecesAre, PlacesIs
<1>. HIDE DEF m, f
<1>2. m + 1 \in T
  <2>1. m + 1 \in 1..(m + 1) /\ f[m + 1] \in Nat
    BY <1>1
  <2>. QED
    BY <1>1, <2>1
<1>3. PICK x \in T : \A y \in T : x <= y
  <2>1. T \in SUBSET Nat
    OBVIOUS
  <2>. HIDE DEF T
  <2>. QED
    BY <1>2, <2>1, Least
<1>4. x # 1
  BY <1>1
<1>. DEFINE k == x - 1
<1>5. k \in 1..m /\ k \in 1..(m + 1) /\ k \notin T /\ k + 1 = x
  BY <1>1, <1>3, <1>4
<1>6. n < f[k + 1]
  BY <1>3, <1>5
<1>. HIDE DEF k
<1>7. f[k] \in Nat /\ Len(s[k]) \in Nat /\ f[k] <= n /\ n < f[k] + Len(s[k]) /\ n \in Nat
  <2>1. f[k] \in Nat /\ Len(s[k]) \in Nat
    BY <1>1, <1>5
  <2>2. f[k + 1] = f[k] + Len(s[k])
    BY <1>1, <1>5
  <2>3. n \in Nat
    BY <1>1
  <2>4. ~(n < f[k])
    BY <1>5
  <2>. DEFINE y == f[k]
  <2>5. y \in Nat /\ ~(n < y) /\ n \in Nat
    BY ONLY <2>1, <2>3, <2>4
  <2>. HIDE DEF y
  <2>6. y <= n
    BY ONLY <2>5
  <2>. QED
    BY ONLY <1>6, <2>1, <2>2, <2>3, <2>6 DEF y
<1>. DEFINE l == Len(s[k])
            j == n - f[k] + 1
<1>8. j \in 1..l /\ n = f[k] + j - 1
  <2>. DEFINE y == f[k]
  <2>1. y \in Nat /\ l \in Nat /\ y <= n /\ n < y + l /\ n \in Nat
    BY ONLY <1>7
  <2>. HIDE DEF l, y
  <2>2. n - y + 1 \in 1..l /\ n = y + (n - y + 1) - 1
    BY ONLY <2>1
  <2>. QED
    BY ONLY <2>2 DEF y
<1>. QED
  BY <1>5, <1>8 DEF f, m

(* The text t is the pieces s, one behind the other.                       *)
Rendered(t, s) ==
    /\ t \in Seq(Char) /\ Len(t) + 1 = Places(s)[Len(s) + 1]
    /\ \A i \in 1..Len(s) : \A j \in 1..Len(s[i]) : t[Places(s)[i] + j - 1] = s[i][j]

LEMMA FlattenRendered ==
    ASSUME NEW s \in Seq(Seq(Char))
    PROVE  Rendered(FlattenSeq(s), s)
<1>. DEFINE m == Len(s)
            p == Places(s)
<1>1. /\ m \in Nat /\ (\A n \in 1..m : s[n] \in Seq(Char) /\ Len(s[n]) \in Nat)
      /\ p[1] = 1 /\ \A n \in 1..(m + 1) : p[n] \in Nat \ {0}
      /\ \A n \in 1..m : p[n + 1] = p[n] + Len(s[n])
  BY PiecesAre, PlacesIs
<1>2. CASE m = 0
  <2>1. FlattenSeq(s) = s /\ s = <<>>
    BY <1>2 DEF FlattenSeq
  <2>2. <<>> \in Seq(Char) /\ Len(<<>>) = 0
    OBVIOUS
  <2>. QED
    BY <1>1, <1>2, <2>1, <2>2 DEF Rendered
<1>3. CASE m # 0
  <2>1. PICK f : /\ f = [n \in 1..m |-> IF n = 1 THEN s[n] ELSE f[n - 1] \o s[n]]
                 /\ FlattenSeq(s) = f[m]
    BY <1>1, <1>3, Flattened
  <2>2. \A i, n \in 1..m : i < n => p[i] + Len(s[i]) <= p[n]
    <3>1. \A n \in 1..m : n \in 1..(m + 1)
      BY <1>1
    <3>. QED
      BY <3>1, PlacesApart
  <2>. HIDE DEF m, p
  <2>. DEFINE Good(n) == /\ f[n] \in Seq(Char) /\ Len(f[n]) + 1 = p[n + 1]
                         /\ \A i \in 1..n : \A j \in 1..Len(s[i]) : f[n][p[i] + j - 1] = s[i][j]
              G == {n \in 1..m : Good(n)}
  <2>3. ASSUME NEW n \in 1..m, n = 1 \/ n - 1 \in G
        PROVE  Good(n)
    <3>1. f[n] = IF n = 1 THEN s[n] ELSE f[n - 1] \o s[n]
      BY <2>1
    <3>2. /\ s[n] \in Seq(Char) /\ Len(s[n]) \in Nat /\ p[n] \in Nat \ {0}
          /\ p[n + 1] = p[n] + Len(s[n])
      BY <1>1
    <3>3. CASE n = 1
      <4>1. f[n] = s[n] /\ p[n] = 1 /\ \A i \in 1..n : i = n
        BY <1>1, <3>1, <3>3
      <4>2. \A j \in 1..Len(s[n]) : 1 + j - 1 = j
        BY <3>2
      <4>. QED
        BY <3>2, <4>1, <4>2
    <3>4. CASE n # 1
      <4>1. Good(n - 1) /\ n - 1 \in 1..m /\ (n - 1) + 1 = n
        BY <2>3, <3>4
      <4>. DEFINE a == f[n - 1]
                  b == s[n]
                  na == Len(a)
                  nb == Len(b)
      <4>2. /\ a \in Seq(Char) /\ na + 1 = p[n]
            /\ \A i \in 1..(n - 1) : \A j \in 1..Len(s[i]) : a[p[i] + j - 1] = s[i][j]
        BY <4>1
      <4>3. f[n] = a \o b /\ b \in Seq(Char)
        BY <3>1, <3>2, <3>4
      <4>. HIDE DEF Good, a, b
      <4>4. /\ a \o b \in Seq(Char) /\ Len(a \o b) = na + nb
            /\ \A i \in 1..na : (a \o b)[i] = a[i]
            /\ \A i \in 1..nb : (a \o b)[na + i] = b[i]
        BY ONLY <4>2, <4>3, Joined
      <4>5. na \in Nat /\ nb \in Nat /\ p[n] = na + 1 /\ p[n + 1] = p[n] + nb
        BY <3>2, <4>2, <4>3 DEF b
      <4>6. ASSUME NEW i \in 1..n, NEW j \in 1..Len(s[i])
            PROVE  f[n][p[i] + j - 1] = s[i][j]
        <5>1. CASE i = n
          <6>1. j \in 1..nb /\ s[i] = b
            BY <5>1 DEF b
          <6>2. p[i] + j - 1 = na + j
            <7>. HIDE DEF na, nb
            <7>. QED
              BY <4>5, <5>1, <6>1
          <6>. QED
            BY <4>3, <4>4, <6>1, <6>2
        <5>2. CASE i # n
          <6>1. i \in 1..(n - 1) /\ i \in 1..m /\ i < n
            <7>1. m \in Nat
              BY <1>1
            <7>. QED
              BY <5>2, <7>1
          <6>. DEFINE ni == Len(s[i])
                      r == p[i] + j - 1
          <6>2. p[i] \in Nat \ {0} /\ ni \in Nat /\ p[i] + ni <= p[n] /\ j \in 1..ni
            <7>1. i \in 1..(m + 1)
              BY <1>1, <6>1
            <7>. QED
              BY <1>1, <2>2, <6>1, <7>1
          <6>3. r \in 1..na
            <7>. DEFINE x == p[i]
            <7>1. /\ x \in Nat \ {0} /\ ni \in Nat /\ x + ni <= na + 1
                  /\ j \in 1..ni /\ na \in Nat
              BY ONLY <4>5, <6>2
            <7>. HIDE DEF na, nb, ni, x
            <7>2. x + j - 1 \in 1..na
              BY ONLY <7>1
            <7>. QED
              BY ONLY <7>2 DEF x
          <6>4. a[r] = s[i][j]
            BY <4>2, <6>1
          <6>. HIDE DEF r, na
          <6>5. f[n][r] = s[i][j]
            BY <4>3, <4>4, <6>3, <6>4
          <6>. QED
            BY <6>5 DEF r
        <5>. QED
          BY <5>1, <5>2
      <4>7. Len(f[n]) + 1 = p[n + 1]
        <5>1. Len(f[n]) = na + nb
          BY <4>3, <4>4
        <5>. HIDE DEF na, nb
        <5>. QED
          BY <4>5, <5>1
      <4>8. f[n] \in Seq(Char)
        BY <4>3, <4>4
      <4>. QED
        BY <4>6, <4>7, <4>8 DEF Good
    <3>. QED
      BY <3>3, <3>4
  <2>4. Good(m)
    <3>1. \A n \in 1..m : n = 1 \/ n - 1 \in G => n \in G
      BY <2>3
    <3>2. \A n \in 1..m : n \in G
      <4>. HIDE DEF G
      <4>. QED
        BY <1>1, <3>1, UpTo
    <3>3. m \in 1..m
      BY <1>1, <1>3
    <3>. HIDE DEF Good
    <3>. QED
      BY <3>2, <3>3
  <2>. QED
    BY <2>1, <2>4 DEF Rendered, m, p
<1>. QED
  BY <1>2, <1>3

LEMMA RenderedOnce ==
    ASSUME NEW s \in Seq(Seq(Char)), NEW t, NEW u, Rendered(t, s), Rendered(u, s)
    PROVE  t = u
<1>. DEFINE e == Places(s)[Len(s) + 1]
<1>1. t \in Seq(Char) /\ u \in Seq(Char) /\ Len(t) + 1 = e /\ Len(u) + 1 = e
  BY DEF Rendered
<1>2. Len(t) = Len(u) /\ \A n \in 1..Len(t) : n \in 1..(e - 1)
  <2>. DEFINE a == Len(t)
              b == Len(u)
  <2>1. a \in Nat /\ b \in Nat /\ a + 1 = e /\ b + 1 = e
    BY <1>1
  <2>. HIDE DEF a, b, e
  <2>2. a = b /\ \A n \in 1..a : n \in 1..(e - 1)
    BY <2>1
  <2>. QED
    BY <2>2 DEF a, b
<1>3. ASSUME NEW n \in 1..Len(t)
      PROVE  t[n] = u[n]
  <2>1. PICK i \in 1..Len(s) : \E j \in 1..Len(s[i]) : n = Places(s)[i] + j - 1
    BY <1>2, InAPiece
  <2>2. PICK j \in 1..Len(s[i]) : n = Places(s)[i] + j - 1
    BY <2>1
  <2>. QED
    BY <2>2 DEF Rendered
<1>. HIDE DEF e
<1>. QED
  BY ONLY <1>1, <1>2, <1>3, SeqEqual

(* A piece is found at its place.                                          *)
LEMMA PieceAt ==
    ASSUME NEW s \in Seq(Seq(Char)), NEW t, Rendered(t, s), NEW i \in 1..Len(s)
    PROVE  /\ At(t, Places(s)[i], s[i])
           /\ Len(s[i]) > 0 => Places(s)[i] \in Occurrences(t, s[i])
<1>. DEFINE p == Places(s)[i]
            x == s[i]
            nx == Len(x)
            nt == Len(t)
<1>1. /\ t \in Seq(Char) /\ nt \in Nat /\ x \in Seq(Char) /\ nx \in Nat /\ p \in Nat \ {0}
      /\ \A j \in 1..nx : t[p + j - 1] = x[j]
  <2>1. t \in Seq(Char) /\ \A j \in 1..nx : t[p + j - 1] = x[j]
    BY DEF Rendered
  <2>2. Len(s) \in Nat
    BY PiecesAre
  <2>3. i \in 1..(Len(s) + 1)
    BY <2>2
  <2>4. p \in Nat \ {0}
    BY <2>3, PlacesIs
  <2>5. x \in Seq(Char) /\ nx \in Nat /\ nt \in Nat
    BY <2>1, PiecesAre
  <2>. QED
    BY <2>1, <2>4, <2>5
<1>2. p + nx <= nt + 1
  <2>1. Len(s) \in Nat
    BY PiecesAre
  <2>2. Len(s) + 1 \in 1..(Len(s) + 1) /\ i < Len(s) + 1
    BY <2>1
  <2>3. p + nx <= Places(s)[Len(s) + 1]
    BY <2>2, PlacesApart
  <2>. QED
    BY <2>3 DEF Rendered
<1>. HIDE DEF p, x
<1>3. At(t, p, x)
  <2>1. p + nx - 1 <= nt
    <3>. HIDE DEF nx, nt
    <3>. QED
      BY <1>1, <1>2
  <2>. QED
    BY ONLY <1>1, <2>1, AtPoint
<1>4. nx > 0 => p \in DOMAIN t
  <2>1. DOMAIN t = 1..nt
    BY <1>1
  <2>. HIDE DEF nx, nt
  <2>. QED
    BY <1>1, <1>2, <2>1
<1>. QED
  BY <1>3, <1>4 DEF Occurrences, p, x

LEMMA SplicedIs ==
    ASSUME NEW t \in Seq(Char), NEW old \in Seq(Char), NEW v \in Seq(Char),
           NEW n \in Nat \ {0}, At(t, n, old)
    PROVE  /\ Spliced(t, n, old, v) \in Seq(Char) /\ n + Len(old) <= Len(t) + 1
           /\ Len(Spliced(t, n, old, v)) = Len(t) - Len(old) + Len(v)
           /\ \A i \in 1..(n - 1) : Spliced(t, n, old, v)[i] = t[i]
           /\ \A i \in 1..Len(v) : Spliced(t, n, old, v)[n + i - 1] = v[i]
           /\ \A i \in (n + Len(old))..Len(t) :
                 Spliced(t, n, old, v)[i - Len(old) + Len(v)] = t[i]
<1>. DEFINE u == Spliced(t, n, old, v)
            nt == Len(t)
            no == Len(old)
            nv == Len(v)
            i == n - 1
            j == n + no
            a == SubSeq(t, 1, i)
            b == SubSeq(t, j, nt)
<1>1. nt \in Nat /\ no \in Nat /\ nv \in Nat
  BY LenProperties
<1>2. n + Len(old) - 1 <= Len(t)
  BY DEF At
<1>3. j - 1 <= nt
  BY <1>2
<1>. HIDE DEF nt, no, nv
<1>4. /\ i \in Nat /\ j \in Nat \ {0} /\ i <= nt /\ j <= nt + 1 /\ j = n + no
      /\ 1 <= i + 1 /\ i - 1 + 1 = n - 1 /\ i = n - 1
  BY <1>1, <1>3
<1>. HIDE DEF i, j
<1>5. a \in Seq(Char) /\ Len(a) = i /\ \A k \in 1..i : a[k] = t[k]
  <2>1. 1 \in Nat \ {0} /\ i \in Nat /\ 1 <= i + 1 /\ i <= Len(t) /\ i - 1 + 1 = i
    BY <1>4 DEF nt
  <2>. DEFINE one == 1
  <2>. HIDE DEF one
  <2>2. /\ one \in Nat \ {0} /\ i \in Nat /\ one <= i + 1 /\ i <= Len(t) /\ i - one + 1 = i
        /\ \A k \in 1..i : one + k - 1 = k
    BY <2>1 DEF one
  <2>3. /\ SubSeq(t, one, i) \in Seq(Char) /\ Len(SubSeq(t, one, i)) = i - one + 1
        /\ \A k \in 1..(i - one + 1) : SubSeq(t, one, i)[k] = t[one + k - 1]
    BY ONLY t \in Seq(Char), <2>2, Pieces
  <2>4. /\ SubSeq(t, one, i) \in Seq(Char) /\ Len(SubSeq(t, one, i)) = i
        /\ \A k \in 1..i : SubSeq(t, one, i)[k] = t[k]
    BY ONLY <2>2, <2>3
  <2>. QED
    BY <2>4 DEF one
<1>6. /\ b \in Seq(Char) /\ Len(b) = nt - j + 1
      /\ \A k \in 1..(nt - j + 1) : b[k] = t[j + k - 1]
  <2>1. nt <= Len(t)
    BY <1>1 DEF nt
  <2>. QED
    BY ONLY t \in Seq(Char), <1>1, <1>4, <2>1, Pieces
<1>7. u = (a \o v) \o b
  BY DEF Spliced, a, b, i, j, nt, no
<1>. HIDE DEF u, a, b
<1>8. /\ a \o v \in Seq(Char) /\ Len(a \o v) = i + nv
      /\ \A k \in 1..i : (a \o v)[k] = a[k]
      /\ \A k \in 1..nv : (a \o v)[i + k] = v[k]
  <2>1. /\ a \o v \in Seq(Char) /\ Len(a \o v) = Len(a) + Len(v)
        /\ \A k \in 1..Len(a) : (a \o v)[k] = a[k]
        /\ \A k \in 1..Len(v) : (a \o v)[Len(a) + k] = v[k]
    <3>1. a \in Seq(Char)
      BY <1>5
    <3>. QED
      BY ONLY v \in Seq(Char), <3>1, Joined
  <2>. QED
    BY <1>5, <2>1 DEF nv
<1>. DEFINE c == a \o v
<1>. HIDE DEF c
<1>9. /\ c \o b \in Seq(Char) /\ Len(c \o b) = (i + nv) + (nt - j + 1)
      /\ \A k \in 1..(i + nv) : (c \o b)[k] = c[k]
      /\ \A k \in 1..(nt - j + 1) : (c \o b)[i + nv + k] = b[k]
  <2>1. c \in Seq(Char) /\ Len(c) = i + nv
    BY <1>8 DEF c
  <2>2. /\ c \o b \in Seq(Char) /\ Len(c \o b) = Len(c) + Len(b)
        /\ \A k \in 1..Len(c) : (c \o b)[k] = c[k]
        /\ \A k \in 1..Len(b) : (c \o b)[Len(c) + k] = b[k]
    <3>1. c \in Seq(Char) /\ b \in Seq(Char)
      BY <1>6, <2>1
    <3>. QED
      BY ONLY <3>1, Joined
  <2>. QED
    BY <1>6, <2>1, <2>2
<1>10. (i + nv) + (nt - j + 1) = nt - no + nv
  BY <1>1, <1>4
<1>11. ASSUME NEW k \in 1..(n - 1)
       PROVE  u[k] = t[k]
  <2>1. k \in 1..i /\ k \in 1..(i + nv)
    BY <1>1, <1>4
  <2>. QED
    BY <1>5, <1>7, <1>8, <1>9, <2>1 DEF c
<1>12. ASSUME NEW k \in 1..nv
       PROVE  u[n + k - 1] = v[k]
  <2>1. n + k - 1 = i + k /\ i + k \in 1..(i + nv)
    BY <1>1, <1>4
  <2>. QED
    BY <1>7, <1>8, <1>9, <2>1 DEF c
<1>13. ASSUME NEW k \in (n + no)..nt
       PROVE  u[k - no + nv] = t[k]
  <2>. DEFINE l == k - j + 1
  <2>1. l \in 1..(nt - j + 1) /\ i + nv + l = k - no + nv /\ j + l - 1 = k
    BY <1>1, <1>4
  <2>. HIDE DEF l
  <2>2. u[i + nv + l] = b[l] /\ b[l] = t[j + l - 1]
    BY <1>6, <1>7, <1>9, <2>1 DEF c
  <2>. QED
    BY <2>1, <2>2
<1>. QED
  BY <1>4, <1>7, <1>9, <1>10, <1>11, <1>12, <1>13 DEF c, u, nt, no, nv

(* One piece is replaced.                                                  *)
LEMMA SplicedRendered ==
    ASSUME NEW s \in Seq(Seq(Char)), NEW u \in Seq(Seq(Char)), Len(s) = Len(u),
           NEW i \in 1..Len(s), \A n \in 1..Len(s) : n # i => s[n] = u[n],
           NEW t, Rendered(t, s)
    PROVE  /\ Rendered(Spliced(t, Places(s)[i], s[i], u[i]), u)
           /\ \A n \in 1..i : Places(u)[n] = Places(s)[n]
<1>. DEFINE m == Len(s)
            f == Places(s)
            g == Places(u)
            r == f[i]
            old == s[i]
            v == u[i]
            no == Len(old)
            nv == Len(v)
            nt == Len(t)
            c == Spliced(t, r, old, v)
<1>1. /\ m \in Nat /\ t \in Seq(Char) /\ nt + 1 = f[m + 1] /\ nt \in Nat
      /\ \A n \in 1..m : s[n] \in Seq(Char) /\ Len(s[n]) \in Nat
      /\ \A n \in 1..m : u[n] \in Seq(Char) /\ Len(u[n]) \in Nat
      /\ \A n \in 1..m : \A j \in 1..Len(s[n]) : t[f[n] + j - 1] = s[n][j]
  <2>1. m \in Nat /\ \A n \in 1..m : s[n] \in Seq(Char) /\ Len(s[n]) \in Nat
    BY PiecesAre
  <2>2. \A n \in 1..m : u[n] \in Seq(Char) /\ Len(u[n]) \in Nat
    BY PiecesAre
  <2>3. t \in Seq(Char) /\ nt + 1 = f[m + 1]
    BY DEF Rendered
  <2>4. \A n \in 1..m : \A j \in 1..Len(s[n]) : t[f[n] + j - 1] = s[n][j]
    BY DEF Rendered
  <2>5. nt \in Nat
    BY <2>3
  <2>. QED
    BY ONLY <2>1, <2>2, <2>3, <2>4, <2>5
<1>2. \A n \in 1..(m + 1) : f[n] \in Nat \ {0} /\ g[n] \in Nat \ {0}
  BY PlacesIs
<1>3. \A k, n \in 1..(m + 1) : k \in 1..m /\ k < n => f[k] + Len(s[k]) <= f[n]
  BY PlacesApart
<1>4. \A n \in (i + 1)..(m + 1) : g[n] = f[n] - no + nv
  BY ONLY s \in Seq(Seq(Char)), u \in Seq(Seq(Char)), Len(s) = Len(u), i \in 1..Len(s),
          \A n \in 1..Len(s) : n # i => s[n] = u[n], PlacesMoved
<1>5. \A n \in 1..i : g[n] = f[n]
  <2>. DEFINE k == i - 1
  <2>1. k \in Nat /\ k <= Len(s) /\ k <= Len(u) /\ k + 1 = i
    BY <1>1
  <2>2. \A n \in 1..k : s[n] = u[n]
    <3>1. \A n \in 1..k : n \in 1..Len(s) /\ n # i
      <4>1. m \in Nat /\ i \in 1..m /\ k + 1 = i
        BY <1>1
      <4>. HIDE DEF m
      <4>2. \A n \in 1..k : n \in 1..m /\ n # i
        BY ONLY <4>1
      <4>. QED
        BY ONLY <4>2 DEF m
    <3>. QED
      BY <3>1
  <2>. HIDE DEF k
  <2>3. \A n \in 1..(k + 1) : Places(s)[n] = Places(u)[n]
    BY ONLY s \in Seq(Seq(Char)), u \in Seq(Seq(Char)), <2>1, <2>2, PlacesSame
  <2>. QED
    BY <2>1, <2>3
<1>6. At(t, r, old)
  BY PieceAt
<1>7. /\ old \in Seq(Char) /\ v \in Seq(Char) /\ no \in Nat /\ nv \in Nat
      /\ r \in Nat \ {0} /\ i \in 1..(m + 1) /\ i \in 1..m
  <2>1. i \in 1..m /\ i \in 1..(m + 1)
    BY <1>1
  <2>. QED
    BY <1>1, <1>2, <2>1
<1>8. \A n \in 1..m : n # i => s[n] = u[n]
  OBVIOUS
<1>. HIDE DEF m, f, g, r, old, v
<1>9. /\ c \in Seq(Char) /\ Len(c) = nt - no + nv
      /\ \A k \in 1..(r - 1) : c[k] = t[k]
      /\ \A k \in 1..nv : c[r + k - 1] = v[k]
      /\ \A k \in (r + no)..nt : c[k - no + nv] = t[k]
  <2>1. t \in Seq(Char) /\ old \in Seq(Char) /\ v \in Seq(Char) /\ r \in Nat \ {0}
    BY <1>1, <1>7
  <2>. QED
    <3>. HIDE DEF no, nv, nt
    <3>1. c \in Seq(Char)
      BY ONLY <1>6, <2>1, SplicedIs
    <3>2. Len(c) = nt - no + nv
      BY ONLY <1>6, <2>1, SplicedIs DEF nt, no, nv
    <3>3. \A k \in 1..(r - 1) : c[k] = t[k]
      BY ONLY <1>6, <2>1, SplicedIs
    <3>4. \A k \in 1..nv : c[r + k - 1] = v[k]
      BY ONLY <1>6, <2>1, SplicedIs DEF nv
    <3>5. \A k \in (r + no)..nt : c[k - no + nv] = t[k]
      BY ONLY <1>6, <2>1, SplicedIs DEF nt, no, nv
    <3>. QED
      BY ONLY <3>1, <3>2, <3>3, <3>4, <3>5
<1>. HIDE DEF c
<1>10. Len(c) + 1 = g[m + 1]
  <2>1. m + 1 \in (i + 1)..(m + 1)
    BY <1>1, <1>7
  <2>2. g[m + 1] = f[m + 1] - no + nv
    BY <1>4, <2>1
  <2>. DEFINE nc == Len(c)
              x == f[m + 1]
              y == g[m + 1]
  <2>3. nc = nt - no + nv
    BY <1>9
  <2>4. /\ y = x - no + nv /\ nt + 1 = x /\ nc = nt - no + nv
        /\ nt \in Nat /\ no \in Nat /\ nv \in Nat
    BY ONLY <1>1, <1>7, <2>2, <2>3
  <2>. HIDE DEF no, nv, nt, nc, x, y
  <2>5. nc + 1 = y
    BY ONLY <2>4
  <2>. QED
    BY ONLY <2>5 DEF nc, y
<1>11. ASSUME NEW n \in 1..m, NEW j \in 1..Len(u[n])
       PROVE  c[g[n] + j - 1] = u[n][j]
  <2>. DEFINE nn == Len(u[n])
              k == f[n] + j - 1
  <2>1. CASE n = i
    <3>1. g[n] = r /\ u[n] = v
      <4>1. i \in 1..i
        BY <1>7
      <4>. QED
        BY <1>5, <2>1, <4>1 DEF r, v
    <3>. QED
      BY <1>9, <3>1
  <2>2. CASE n < i
    <3>1. /\ g[n] = f[n] /\ s[n] = u[n] /\ f[n] + nn <= r /\ nn \in Nat
          /\ f[n] \in Nat \ {0} /\ t[k] = s[n][j]
      <4>1. n \in 1..i /\ n # i /\ n \in 1..(m + 1)
        BY <1>1, <2>2
      <4>2. s[n] = u[n]
        BY <1>8, <4>1
      <4>3. f[n] + Len(s[n]) <= f[i]
        BY <1>3, <1>7, <2>2, <4>1
      <4>. QED
        BY <1>1, <1>2, <1>5, <4>1, <4>2, <4>3 DEF r
    <3>2. k \in 1..(r - 1)
      <4>1. j \in 1..nn
        OBVIOUS
      <4>2. f[n] + nn <= r /\ nn \in Nat /\ f[n] \in Nat \ {0} /\ r \in Nat
        BY <1>7, <3>1
      <4>3. \A a \in Nat \ {0}, x, y \in Nat : \A z \in 1..x : a + x <= y => a + z - 1 \in 1..(y - 1)
        OBVIOUS
      <4>. HIDE DEF nn
      <4>. QED
        BY ONLY <4>1, <4>2, <4>3, Zenon
    <3>. QED
      BY <1>9, <3>1, <3>2
  <2>3. CASE i < n
    <3>1. /\ g[n] = f[n] - no + nv /\ s[n] = u[n] /\ r + no <= f[n] /\ nn \in Nat
          /\ f[n] \in Nat \ {0} /\ t[k] = s[n][j] /\ f[n] + nn <= nt + 1
      <4>1. n \in (i + 1)..(m + 1) /\ n # i /\ n \in 1..(m + 1) /\ m + 1 \in 1..(m + 1) /\ n < m + 1
        <5>1. m \in Nat /\ i \in 1..m /\ n \in 1..m
          BY <1>1, <1>7
        <5>. QED
          BY ONLY <2>3, <5>1
      <4>2. s[n] = u[n]
        BY <1>8, <4>1
      <4>3. f[i] + no <= f[n] /\ f[n] + Len(s[n]) <= f[m + 1]
        BY <1>3, <1>7, <2>3, <4>1 DEF old
      <4>4. f[m + 1] = nt + 1
        BY <1>1
      <4>5. nn \in Nat /\ f[n] \in Nat \ {0} /\ t[k] = s[n][j] /\ g[n] = f[n] - no + nv
        BY <1>1, <1>2, <1>4, <4>1, <4>2
      <4>. HIDE DEF nt, no, nv, k
      <4>. QED
        BY <4>2, <4>3, <4>4, <4>5 DEF r
    <3>2. k \in (r + no)..nt /\ k - no + nv = g[n] + j - 1
      <4>1. j \in 1..nn
        OBVIOUS
      <4>2. /\ g[n] = f[n] - no + nv /\ r + no <= f[n] /\ nn \in Nat
            /\ f[n] \in Nat \ {0} /\ f[n] + nn <= nt + 1
            /\ nt \in Nat /\ no \in Nat /\ nv \in Nat /\ r \in Nat
        BY <1>1, <1>7, <3>1
      <4>. DEFINE p == f[n]
                  q == p + j - 1
      <4>. HIDE DEF nn, nt, no, nv, p
      <4>3. /\ r + no <= p /\ nn \in Nat
            /\ p \in Nat \ {0} /\ p + nn <= nt + 1
            /\ nt \in Nat /\ no \in Nat /\ nv \in Nat /\ r \in Nat
        BY <4>2 DEF p
      <4>4. q \in (r + no)..nt
        BY ONLY <4>1, <4>3
      <4>5. q - no + nv = (p - no + nv) + j - 1
        BY ONLY <4>1, <4>3
      <4>. QED
        BY ONLY <4>2, <4>4, <4>5 DEF p
    <3>. HIDE DEF k
    <3>3. c[k - no + nv] = t[k]
      BY <1>9, <3>2
    <3>. QED
      BY <3>1, <3>2, <3>3
  <2>4. n = i \/ n < i \/ i < n
    BY <1>7
  <2>. QED
    BY <2>1, <2>2, <2>3, <2>4
<1>12. Len(u) = m
  BY DEF m
<1>. QED
  BY <1>5, <1>9, <1>10, <1>11, <1>12 DEF Rendered, c, f, g, m, r, old, v

-----------------------------------------------------------------------------
(* Spellings of a path, letter by letter.                                  *)

Letter(c, s) ==
    IF c # Slash \/ s = "normal" THEN <<c>>
    ELSE IF s = "single" THEN <<Backslash>> ELSE <<Backslash, Backslash>>
Letters(p, s) == [n \in DOMAIN p |-> Letter(p[n], s)]

(* A spelling, piece by piece.                                             *)
LEMMA LettersAre ==
    ASSUME NEW p \in Seq(Char), NEW s
    PROVE  /\ Letters(p, s) \in Seq(Seq(Char)) /\ Len(Letters(p, s)) = Len(p)
           /\ Spelled(p, s) = FlattenSeq(Letters(p, s))
           /\ \A n \in 1..Len(p) : Letters(p, s)[n] = Letter(p[n], s)
<1>. DEFINE w == Letters(p, s)
            m == Len(p)
<1>1. m \in Nat /\ DOMAIN p = 1..m /\ \A n \in 1..m : p[n] \in Char
  OBVIOUS
<1>2. \A n \in 1..m : w[n] = Letter(p[n], s)
  BY <1>1 DEF Letters
<1>3. ASSUME NEW n \in 1..m
      PROVE  w[n] \in Seq(Char)
  <2>1. w[n] \in {<<p[n]>>, <<Backslash>>, <<Backslash, Backslash>>} /\ p[n] \in Char
    BY <1>1, <1>2 DEF Letter
  <2>2. \A x \in Char : <<x>> \in Seq(Char)
    BY ONLY OneOrTwo
  <2>3. <<Backslash, Backslash>> \in Seq(Char)
    BY ONLY Characters, OneOrTwo
  <2>. HIDE DEF w
  <2>. QED
    BY ONLY Characters, <2>1, <2>2, <2>3
<1>4. w \in Seq(Seq(Char)) /\ Len(w) = m
  <2>1. w = [n \in 1..m |-> w[n]]
    BY <1>1 DEF Letters
  <2>. HIDE DEF w, m
  <2>2. w \in [1..m -> Seq(Char)]
    BY <1>3, <2>1
  <2>. QED
    BY <1>1, <2>2
<1>5. Spelled(p, s) = FlattenSeq(w)
  BY DEF Spelled, Letters, Letter
<1>. QED
  BY <1>2, <1>4, <1>5

(* The pieces of a spelling, and what is at its beginning.                 *)
LEMMA SpelledRendered ==
    ASSUME NEW p \in Seq(Char), NEW s
    PROVE  Rendered(Spelled(p, s), Letters(p, s))
BY LettersAre, FlattenRendered

(* A drive is only at the beginning of a path, in any spelling.            *)
LEMMA DriveIsFirst ==
    ASSUME NEW p \in Paths, NEW q \in Paths
    PROVE  /\ p[1] \in Char /\ q[1] # Backslash /\ q[1] # Slash
           /\ \A n \in 2..Len(p) : p[n] # q[1]
<1>1. p[2] = Slash /\ \A n \in 2..Len(p) : p[n] # q[1]
  BY SubstitutionAssumption
<1>2. Len(p) \in Nat /\ Len(p) > 2 /\ Len(q) \in Nat /\ Len(q) > 2
  BY PathIs
<1>3. 1 \in 1..Len(p) /\ 1 \in 1..Len(q) /\ 2 \in 2..Len(p)
  BY <1>2
<1>4. p[1] \in Char /\ q[1] # Backslash
  BY <1>3, PathIs
<1>. QED
  BY <1>1, <1>3, <1>4

(* A spelling is told from another one by its second and third character.  *)
LEMMA SpellingIs ==
    ASSUME NEW p \in Paths, NEW s \in Spellings
    PROVE  LET t == Spelled(p, s)
           IN /\ t \in Seq(Char) /\ Len(t) \in Nat /\ Len(t) > 2
              /\ t[1] = p[1] /\ t[2] = IF s = "normal" THEN Slash ELSE Backslash
              /\ s # "normal" => (t[3] = Backslash <=> s = "double")
              /\ \A j \in 2..Len(t) : \A q \in Paths : t[j] # q[1]
<1>. DEFINE t == Spelled(p, s)
            w == Letters(p, s)
            f == Places(w)
            m == Len(p)
            nt == Len(t)
<1>1. p \in Seq(Char) /\ m \in Nat /\ m > 2 /\ \A n \in 1..m : p[n] # Backslash
  BY PathIs
<1>2. p[2] = Slash /\ p[3] # Slash /\ p[1] # Slash /\ p[3] # Backslash
  <2>1. 3 \in 1..m
    BY <1>1
  <2>. QED
    BY <1>1, <2>1, SubstitutionAssumption, DriveIsFirst
<1>3. /\ w \in Seq(Seq(Char)) /\ Len(w) = m
      /\ \A n \in 1..m : w[n] = Letter(p[n], s)
  BY <1>1, LettersAre
<1>4. /\ t \in Seq(Char) /\ nt + 1 = f[m + 1] /\ nt \in Nat
      /\ \A i \in 1..m : \A j \in 1..Len(w[i]) : t[f[i] + j - 1] = w[i][j]
  <2>1. Rendered(t, w)
    BY <1>1, SpelledRendered
  <2>. HIDE DEF t, w, f, m
  <2>2. t \in Seq(Char) /\ nt \in Nat
    BY <2>1 DEF Rendered
  <2>. QED
    BY <1>3, <2>1, <2>2 DEF Rendered, f
<1>5. /\ f[1] = 1 /\ \A n \in 1..(m + 1) : f[n] \in Nat \ {0}
      /\ \A n \in 1..m : f[n + 1] = f[n] + Len(w[n])
      /\ \A n \in 1..m : n < m + 1 => f[n] + Len(w[n]) <= f[m + 1]
  <2>. HIDE DEF w, m
  <2>1. /\ f[1] = 1 /\ \A n \in 1..(m + 1) : f[n] \in Nat \ {0}
        /\ \A n \in 1..m : f[n + 1] = f[n] + Len(w[n])
    BY <1>3, PlacesIs
  <2>2. m + 1 \in 1..(m + 1)
    BY <1>1
  <2>3. \A n \in 1..m : n < m + 1 => f[n] + Len(w[n]) <= f[m + 1]
    BY <1>3, <2>2, PlacesApart
  <2>. QED
    BY <2>1, <2>3
<1>. HIDE DEF t, w, f, m
<1>6. 1 \in 1..m /\ 2 \in 1..m /\ 3 \in 1..m /\ 3 < m + 1
  BY <1>1
<1>7. /\ w[1] = <<p[1]>> /\ w[3] = <<p[3]>>
      /\ s = "normal" => w[2] = <<Slash>>
      /\ s = "single" => w[2] = <<Backslash>>
      /\ s = "double" => w[2] = <<Backslash, Backslash>>
  BY <1>2, <1>3, <1>6 DEF Letter
<1>8. /\ f[2] = 2 /\ t[1] = p[1]
  <2>1. Len(w[1]) = 1 /\ w[1][1] = p[1] /\ 1 \in 1..Len(w[1])
    BY <1>7
  <2>2. f[1 + 1] = f[1] + Len(w[1]) /\ t[f[1] + 1 - 1] = w[1][1]
    BY <1>4, <1>5, <1>6, <2>1
  <2>. QED
    BY <1>5, <2>1, <2>2
<1>9. /\ f[3] = IF s = "double" THEN 4 ELSE 3
      /\ t[2] = IF s = "normal" THEN Slash ELSE Backslash
      /\ s = "double" => t[3] = Backslash
  <2>1. /\ Len(w[2]) = IF s = "double" THEN 2 ELSE 1
        /\ w[2][1] = IF s = "normal" THEN Slash ELSE Backslash
        /\ s = "double" => w[2][2] = Backslash
        /\ 1 \in 1..Len(w[2]) /\ (s = "double" => 2 \in 1..Len(w[2]))
    <3>1. 1 \in 1..1 /\ 1 \in 1..2 /\ 2 \in 1..2
      OBVIOUS
    <3>2. CASE s = "normal"
      <4>1. w[2] = <<Slash>>
        BY <1>7, <3>2
      <4>2. Len(w[2]) = 1 /\ w[2][1] = Slash
        BY ONLY <4>1
      <4>. QED
        BY ONLY <3>1, <3>2, <4>2
    <3>3. CASE s = "single"
      <4>1. w[2] = <<Backslash>>
        BY <1>7, <3>3
      <4>2. Len(w[2]) = 1 /\ w[2][1] = Backslash
        BY ONLY <4>1
      <4>. QED
        BY ONLY <3>1, <3>3, <4>2
    <3>4. CASE s = "double"
      <4>1. w[2] = <<Backslash, Backslash>>
        BY <1>7, <3>4
      <4>2. Len(w[2]) = 2 /\ w[2][1] = Backslash /\ w[2][2] = Backslash
        BY ONLY <4>1
      <4>. QED
        BY ONLY <3>1, <3>4, <4>2
    <3>. QED
      BY <3>2, <3>3, <3>4 DEF Spellings
  <2>2. f[2 + 1] = f[2] + Len(w[2]) /\ t[f[2] + 1 - 1] = w[2][1]
    BY <1>4, <1>5, <1>6, <2>1
  <2>3. s = "double" => t[f[2] + 2 - 1] = w[2][2]
    BY <1>4, <1>6, <2>1
  <2>. QED
    BY <1>8, <2>1, <2>2, <2>3
<1>10. /\ nt > 2 /\ t[f[3]] = p[3]
  <2>1. Len(w[3]) = 1 /\ w[3][1] = p[3] /\ 1 \in 1..Len(w[3])
    BY <1>7
  <2>2. t[f[3] + 1 - 1] = w[3][1] /\ f[3] + 1 <= f[m + 1]
    BY <1>4, <1>5, <1>6, <2>1
  <2>. HIDE DEF nt
  <2>. QED
    BY <1>4, <1>9, <2>1, <2>2
<1>11. s # "normal" => (t[3] = Backslash <=> s = "double")
  BY <1>2, <1>9, <1>10 DEF Spellings
<1>12. ASSUME NEW j \in 2..nt, NEW q \in Paths
       PROVE  t[j] # q[1]
  <2>1. j \in 1..(f[m + 1] - 1)
    <3>. HIDE DEF nt
    <3>. QED
      BY <1>4
  <2>2. PICK i \in 1..m : \E l \in 1..Len(w[i]) : j = f[i] + l - 1
    <3>1. w \in Seq(Seq(Char)) /\ Len(w) = m
      BY <1>3
    <3>2. j \in 1..(Places(w)[Len(w) + 1] - 1)
      BY <2>1, <3>1 DEF f
    <3>3. \E i \in 1..Len(w) : \E l \in 1..Len(w[i]) : j = Places(w)[i] + l - 1
      BY ONLY <3>1, <3>2, InAPiece
    <3>. QED
      BY <3>1, <3>3 DEF f
  <2>3. PICK l \in 1..Len(w[i]) : j = f[i] + l - 1
    BY <2>2
  <2>4. i # 1
    <3>. SUFFICES ASSUME i = 1 PROVE FALSE
      OBVIOUS
    <3>1. Len(w[i]) = 1 /\ f[i] = 1
      BY <1>5, <1>7
    <3>. QED
      BY <2>3, <3>1
  <2>5. t[j] = w[i][l]
    BY <1>4, <2>3
  <2>6. w[i][l] \in {p[i], Backslash}
    <3>1. w[i] \in {<<p[i]>>, <<Backslash>>, <<Backslash, Backslash>>}
      BY <1>3 DEF Letter
    <3>2. \A x \in {<<p[i]>>, <<Backslash>>, <<Backslash, Backslash>>} :
             \A k \in 1..Len(x) : x[k] \in {p[i], Backslash}
      OBVIOUS
    <3>. QED
      BY <3>1, <3>2
  <2>7. i \in 2..Len(p)
    BY <1>1, <2>4 DEF m
  <2>. QED
    BY <2>5, <2>6, <2>7, DriveIsFirst
<1>. QED
  BY <1>4, <1>8, <1>9, <1>10, <1>11, <1>12 DEF t

(* No place has two spellings.                                             *)
LEMMA OneSpelling ==
    ASSUME NEW t \in Seq(Char), NEW n \in Nat \ {0}, NEW p \in Paths, NEW q \in Paths,
           NEW k \in Spellings, NEW l \in Spellings,
           At(t, n, Spelled(p, k)), At(t, n, Spelled(q, l))
    PROVE  k = l /\ t[n] = p[1]
<1>. DEFINE a == Spelled(p, k)
            b == Spelled(q, l)
<1>1. /\ a \in Seq(Char) /\ Len(a) \in Nat /\ Len(a) > 2 /\ a[1] = p[1]
      /\ a[2] = (IF k = "normal" THEN Slash ELSE Backslash)
      /\ k # "normal" => (a[3] = Backslash <=> k = "double")
  BY SpellingIs
<1>2. /\ b \in Seq(Char) /\ Len(b) \in Nat /\ Len(b) > 2
      /\ b[2] = (IF l = "normal" THEN Slash ELSE Backslash)
      /\ l # "normal" => (b[3] = Backslash <=> l = "double")
  BY SpellingIs
<1>3. At(t, n, a) /\ At(t, n, b)
  OBVIOUS
<1>. HIDE DEF a, b
<1>4. \A j \in 1..Len(a) : t[n + j - 1] = a[j]
  BY <1>1, <1>3, AtPoint
<1>5. \A j \in 1..Len(b) : t[n + j - 1] = b[j]
  BY <1>2, <1>3, AtPoint
<1>6. a[1] = t[n] /\ a[2] = b[2] /\ a[3] = b[3]
  <2>1. \A j \in {1, 2, 3} : j \in 1..Len(a) /\ j \in 1..Len(b)
    BY <1>1, <1>2
  <2>2. n + 1 - 1 = n
    OBVIOUS
  <2>. QED
    BY <1>4, <1>5, <2>1, <2>2
<1>7. (k = "normal") <=> (l = "normal")
  BY <1>1, <1>2, <1>6, Characters
<1>8. (k = "double") <=> (l = "double")
  BY <1>1, <1>2, <1>6, <1>7
<1>. QED
  BY <1>1, <1>6, <1>7, <1>8 DEF Spellings

(* With normal separators a path is itself.                                *)
LEMMA NormalIs ==
    ASSUME NEW p \in Seq(Char)
    PROVE  Spelled(p, "normal") = p
<1>. DEFINE w == Letters(p, "normal")
            m == Len(p)
            f == Places(w)
<1>1. /\ w \in Seq(Seq(Char)) /\ Len(w) = m /\ m \in Nat
      /\ \A n \in 1..m : Len(w[n]) = 1 /\ w[n][1] = p[n]
  <2>1. /\ w \in Seq(Seq(Char)) /\ Len(w) = m
        /\ \A n \in 1..m : w[n] = Letter(p[n], "normal")
    BY LettersAre
  <2>2. ASSUME NEW n \in 1..m
        PROVE  Len(w[n]) = 1 /\ w[n][1] = p[n]
    <3>1. w[n] = <<p[n]>>
      BY <2>1 DEF Letter
    <3>. HIDE DEF w
    <3>. QED
      BY ONLY <3>1
  <2>. QED
    BY <2>1, <2>2
<1>2. /\ f[1] = 1 /\ \A n \in 1..m : f[n + 1] = f[n] + Len(w[n])
  <2>. HIDE DEF w, m
  <2>. QED
    BY <1>1, PlacesIs
<1>. DEFINE G == {n \in 1..(m + 1) : f[n] = n}
<1>3. ASSUME NEW n \in 1..(m + 1), n = 1 \/ n - 1 \in G
      PROVE  n \in G
  <2>. HIDE DEF w, f
  <2>1. CASE n = 1
    BY <1>2, <2>1
  <2>2. CASE n # 1
    <3>1. n - 1 \in 1..m /\ (n - 1) + 1 = n /\ f[n - 1] = n - 1
      BY <1>1, <1>3, <2>2
    <3>2. Len(w[n - 1]) = 1
      BY <1>1, <3>1, Zenon
    <3>. QED
      BY <1>2, <3>1, <3>2
  <2>. QED
    BY <2>1, <2>2
<1>4. \A n \in 1..(m + 1) : f[n] = n
  <2>1. \A n \in 1..(m + 1) : n = 1 \/ n - 1 \in G => n \in G
    BY <1>3
  <2>2. m + 1 \in Nat
    BY <1>1
  <2>3. \A n \in 1..(m + 1) : n \in G
    <3>. HIDE DEF G
    <3>. QED
      BY <2>1, <2>2, UpTo
  <2>. QED
    BY <2>3
<1>5. Rendered(p, w)
  <2>1. m + 1 = f[m + 1]
    BY <1>1, <1>4
  <2>2. ASSUME NEW i \in 1..m, NEW j \in 1..Len(w[i])
        PROVE  p[f[i] + j - 1] = w[i][j]
    <3>. HIDE DEF w, f, m
    <3>1. f[i] = i /\ Len(w[i]) = 1 /\ w[i][1] = p[i]
      <4>1. m \in Nat
        BY <1>1
      <4>2. i \in 1..(m + 1)
        BY <4>1
      <4>. QED
        BY <1>1, <1>4, <4>2
    <3>2. j = 1 /\ i + j - 1 = i
      <4>1. m \in Nat /\ j \in 1..1
        BY <1>1, <3>1
      <4>. QED
        BY ONLY <4>1, i \in 1..m
    <3>. QED
      BY ONLY <3>1, <3>2
  <2>. HIDE DEF w
  <2>. QED
    BY <1>1, <2>1, <2>2 DEF Rendered
<1>6. Rendered(Spelled(p, "normal"), w)
  BY SpelledRendered
<1>. HIDE DEF w
<1>. QED
  BY <1>1, <1>5, <1>6, RenderedOnce

(* A path that begins another one begins it in any spelling.               *)
LEMMA BeginsIs ==
    ASSUME NEW p \in Seq(Char), NEW q \in Seq(Char), Len(p) <= Len(q),
           \A n \in 1..Len(p) : p[n] = q[n], NEW s,
           NEW t \in Seq(Char), NEW n \in Nat \ {0}, At(t, n, Spelled(q, s))
    PROVE  At(t, n, Spelled(p, s))
<1>. DEFINE a == Letters(p, s)
            b == Letters(q, s)
            x == Spelled(p, s)
            y == Spelled(q, s)
            k == Len(p)
<1>1. /\ a \in Seq(Seq(Char)) /\ Len(a) = k /\ b \in Seq(Seq(Char)) /\ Len(b) = Len(q)
      /\ k \in Nat /\ Len(q) \in Nat /\ k <= Len(a) /\ k <= Len(b)
  BY LettersAre
<1>2. \A i \in 1..k : a[i] = b[i]
  <2>1. \A i \in 1..k : i \in 1..Len(q) /\ p[i] = q[i]
    BY <1>1
  <2>2. /\ \A i \in 1..k : a[i] = Letter(p[i], s)
        /\ \A i \in 1..Len(q) : b[i] = Letter(q[i], s)
    BY LettersAre
  <2>. HIDE DEF a, b, k
  <2>. QED
    BY ONLY <2>1, <2>2
<1>3. Rendered(x, a) /\ Rendered(y, b)
  BY SpelledRendered
<1>. HIDE DEF a, b, x, y
<1>4. \A i \in 1..(k + 1) : Places(a)[i] = Places(b)[i]
  <2>. HIDE DEF k
  <2>. QED
    BY ONLY <1>1, <1>2, PlacesSame
<1>5. /\ x \in Seq(Char) /\ y \in Seq(Char) /\ Len(x) \in Nat /\ Len(y) \in Nat
      /\ Len(x) + 1 = Places(a)[k + 1] /\ Len(y) + 1 = Places(b)[Len(b) + 1]
  <2>1. x \in Seq(Char) /\ y \in Seq(Char)
    BY <1>3 DEF Rendered
  <2>2. Len(x) \in Nat /\ Len(y) \in Nat
    BY <2>1
  <2>. QED
    BY <1>1, <1>3, <2>1, <2>2 DEF Rendered
<1>6. Len(x) <= Len(y)
  <2>. DEFINE nx == Len(x)
              ny == Len(y)
              m == Len(b)
  <2>1. nx + 1 = Places(b)[k + 1] /\ ny + 1 = Places(b)[m + 1] /\ nx \in Nat /\ ny \in Nat
    <3>1. k + 1 \in 1..(k + 1)
      BY <1>1
    <3>. QED
      BY <1>4, <1>5, <3>1
  <2>2. CASE k = m
    <3>. HIDE DEF nx, ny, m, k
    <3>1. nx <= ny
      BY <2>1, <2>2
    <3>. QED
      BY <3>1 DEF nx, ny
  <2>3. CASE k # m
    <3>. DEFINE i == k + 1
                l == m + 1
    <3>1. i \in 1..Len(b) /\ l \in 1..(Len(b) + 1) /\ i < l
      <4>1. m \in Nat /\ k <= m /\ k \in Nat
        BY <1>1
      <4>2. i \in 1..m /\ l \in 1..(m + 1) /\ i < l
        <5>. HIDE DEF m, k
        <5>. QED
          BY <2>3, <4>1
      <4>. QED
        BY <4>2
    <3>. HIDE DEF i, l, m
    <3>2. Places(b)[i] + Len(b[i]) <= Places(b)[l]
      BY ONLY <1>1, <3>1, PlacesApart
    <3>3. Len(b[i]) \in Nat
      BY ONLY <1>1, <3>1, PiecesAre
    <3>. DEFINE z == Len(b[i])
    <3>4. nx + 1 + z <= ny + 1 /\ z \in Nat
      BY <2>1, <3>2, <3>3 DEF i, l
    <3>. HIDE DEF nx, ny, z
    <3>5. nx <= ny
      BY <2>1, <3>4
    <3>. QED
      BY <3>5 DEF nx, ny
  <2>. QED
    BY <2>2, <2>3
<1>7. ASSUME NEW j \in 1..Len(x)
      PROVE  x[j] = y[j]
  <2>1. j \in 1..(Places(a)[Len(a) + 1] - 1)
    <3>. DEFINE nx == Len(x)
    <3>1. nx + 1 = Places(a)[Len(a) + 1] /\ nx \in Nat /\ j \in 1..nx
      BY <1>1, <1>5
    <3>. HIDE DEF nx
    <3>. QED
      BY ONLY <3>1
  <2>2. PICK i \in 1..Len(a) : \E l \in 1..Len(a[i]) : j = Places(a)[i] + l - 1
    BY <1>1, <2>1, InAPiece
  <2>3. PICK l \in 1..Len(a[i]) : j = Places(a)[i] + l - 1
    BY <2>2
  <2>4. i \in 1..k /\ i \in 1..(k + 1) /\ i \in 1..Len(b)
    BY <1>1
  <2>5. a[i] = b[i] /\ Places(a)[i] = Places(b)[i]
    BY <1>2, <1>4, <2>4
  <2>6. x[j] = a[i][l]
    BY <1>3, <2>3 DEF Rendered
  <2>7. y[j] = b[i][l]
    <3>1. l \in 1..Len(b[i]) /\ j = Places(b)[i] + l - 1
      BY <2>3, <2>5
    <3>2. \A d \in 1..Len(b[i]) : y[Places(b)[i] + d - 1] = b[i][d]
      BY <1>3, <2>4 DEF Rendered
    <3>. QED
      BY ONLY <3>1, <3>2
  <2>. QED
    BY <2>5, <2>6, <2>7
<1>8. At(t, n, y)
  BY DEF y
<1>9. n + Len(y) - 1 <= Len(t) /\ \A j \in 1..Len(y) : t[n + j - 1] = y[j]
  <2>1. t \in Seq(Char) /\ y \in Seq(Char) /\ n \in Nat \ {0}
    BY <1>5
  <2>. QED
    BY ONLY <1>8, <2>1, AtPoint
<1>10. n + Len(x) - 1 <= Len(t) /\ \A j \in 1..Len(x) : t[n + j - 1] = x[j]
  <2>. DEFINE nx == Len(x)
              ny == Len(y)
              nt == Len(t)
  <2>1. nx \in Nat /\ ny \in Nat /\ nx <= ny /\ n + ny - 1 <= nt /\ nt \in Nat
    BY <1>5, <1>6, <1>9
  <2>. HIDE DEF nx, ny, nt
  <2>2. n + nx - 1 <= nt /\ \A j \in 1..nx : j \in 1..ny
    BY <2>1
  <2>. QED
    BY <1>7, <1>9, <2>2 DEF nx, ny, nt
<1>11. At(t, n, x)
  BY <1>5, <1>10, AtPoint
<1>. QED
  BY <1>11 DEF x

-----------------------------------------------------------------------------
(* A text that mentions a path.                                            *)

(* What is within a mention does not mention the path.                     *)
LEMMA MentionsApart ==
    ASSUME NEW t \in Seq(Char), NEW p \in Paths, NEW i \in Nat \ {0}, NEW n \in Nat \ {0},
           NEW s \in Spellings, At(t, i, Spelled(p, s)), i < n, n < i + Len(Spelled(p, s)),
           NEW q \in Paths, NEW r \in Spellings
    PROVE  ~At(t, n, Spelled(q, r))
<1>. DEFINE a == Spelled(p, s)
            b == Spelled(q, r)
            j == n - i + 1
<1>1. a \in Seq(Char) /\ Len(a) \in Nat /\ \A k \in 2..Len(a) : a[k] # q[1]
  <2>1. a \in Seq(Char) /\ Len(a) \in Nat
    BY ONLY p \in Paths, s \in Spellings, SpellingIs
  <2>2. \A k \in 2..Len(a) : \A x \in Paths : a[k] # x[1]
    BY ONLY p \in Paths, s \in Spellings, SpellingIs
  <2>. QED
    BY <2>1, <2>2
<1>2. b \in Seq(Char) /\ Len(b) \in Nat /\ Len(b) > 2 /\ b[1] = q[1]
  BY SpellingIs
<1>3. At(t, i, a) /\ n < i + Len(a)
  OBVIOUS
<1>. SUFFICES ASSUME At(t, n, b) PROVE FALSE
  OBVIOUS
<1>. HIDE DEF a, b
<1>4. \A k \in 1..Len(a) : t[i + k - 1] = a[k]
  BY <1>1, <1>3, AtPoint
<1>5. t[n] = b[1]
  <2>1. \A k \in 1..Len(b) : t[n + k - 1] = b[k]
    BY <1>2, AtPoint
  <2>2. 1 \in 1..Len(b) /\ n + 1 - 1 = n
    BY <1>2
  <2>. QED
    BY <2>1, <2>2
<1>6. j \in 2..Len(a) /\ j \in 1..Len(a) /\ i + j - 1 = n
  <2>. DEFINE na == Len(a)
  <2>1. na \in Nat /\ n < i + na
    BY <1>1, <1>3
  <2>. HIDE DEF na
  <2>2. j \in 2..na /\ j \in 1..na /\ i + j - 1 = n
    BY <2>1
  <2>. QED
    BY <2>2 DEF na
<1>. HIDE DEF j
<1>7. t[n] = a[j]
  BY <1>4, <1>6
<1>. QED
  BY <1>1, <1>2, <1>5, <1>6, <1>7

(* A mention is in one spelling, and it alone covers what is in it.        *)
Size(t, p, n) == Len(Spelled(p, How(t, p, n)))

LEMMA MentionedIs ==
    ASSUME NEW t \in Seq(Char), NEW p \in Paths
    PROVE  /\ Mentioned(t, p) \subseteq 1..Len(t) /\ Covered(t, p) \subseteq 1..Len(t)
           /\ \A n \in Mentioned(t, p) :
                 /\ n \notin Covered(t, p) /\ How(t, p, n) \in Spellings
                 /\ At(t, n, Spelled(p, How(t, p, n)))
                 /\ Size(t, p, n) \in Nat /\ Size(t, p, n) > 2
                 /\ n + Size(t, p, n) <= Len(t) + 1
           /\ \A n \in 1..Len(t) : \A s \in Spellings :
                 At(t, n, Spelled(p, s)) => n \in Mentioned(t, p) /\ How(t, p, n) = s
           /\ \A n \in Covered(t, p) :
                 \E i \in Mentioned(t, p) : i < n /\ n < i + Size(t, p, i)
           /\ \A i \in Mentioned(t, p), n \in 1..Len(t) :
                 i < n /\ n < i + Size(t, p, i) => n \in Covered(t, p)
<1>. DEFINE m == Len(t)
            M == Mentioned(t, p)
            C == Covered(t, p)
<1>1. m \in Nat /\ DOMAIN t = 1..m
  OBVIOUS
<1>2. /\ M = {n \in 1..m \ C : HowAt(t, p, n) # {}}
      /\ C = {n \in 1..m : \E i \in 1..(n - 1) : \E s \in HowAt(t, p, i) : n < i + Len(Spelled(p, s))}
  BY <1>1 DEF Mentioned, Covered
<1>3. \A n : \A s : s \in HowAt(t, p, n) <=> s \in Spellings /\ At(t, n, Spelled(p, s))
  BY DEF HowAt
<1>4. ASSUME NEW n \in C
      PROVE  HowAt(t, p, n) = {}
  <2>1. PICK i \in 1..(n - 1) : \E s \in HowAt(t, p, i) : n < i + Len(Spelled(p, s))
    BY <1>2
  <2>2. PICK s \in HowAt(t, p, i) : n < i + Len(Spelled(p, s))
    BY <2>1
  <2>3. n \in 1..m
    BY <1>2
  <2>4. i \in Nat \ {0} /\ n \in Nat \ {0} /\ i < n
    BY <1>1, <2>3
  <2>. SUFFICES ASSUME NEW r \in HowAt(t, p, n) PROVE FALSE
    OBVIOUS
  <2>5. /\ s \in Spellings /\ At(t, i, Spelled(p, s))
        /\ r \in Spellings /\ At(t, n, Spelled(p, r))
    BY <1>3
  <2>. HIDE DEF m, C
  <2>. QED
    BY <2>2, <2>4, <2>5, MentionsApart
<1>5. ASSUME NEW n \in 1..m, NEW s \in Spellings, At(t, n, Spelled(p, s))
      PROVE  n \in M /\ How(t, p, n) = s
  <2>1. s \in HowAt(t, p, n)
    BY <1>3, <1>5
  <2>2. n \in M
    BY <1>2, <1>4, <2>1
  <2>3. How(t, p, n) \in HowAt(t, p, n)
    BY <2>1 DEF How, HowAt
  <2>4. n \in Nat \ {0}
    BY <1>1
  <2>5. How(t, p, n) \in Spellings /\ At(t, n, Spelled(p, How(t, p, n)))
    BY <1>3, <2>3
  <2>. HIDE DEF m, M
  <2>6. How(t, p, n) = s
    BY <1>5, <2>4, <2>5, OneSpelling
  <2>. QED
    BY <2>2, <2>6
<1>6. ASSUME NEW n \in M
      PROVE  /\ n \in 1..m /\ n \notin C /\ How(t, p, n) \in Spellings
             /\ At(t, n, Spelled(p, How(t, p, n)))
             /\ Size(t, p, n) \in Nat /\ Size(t, p, n) > 2 /\ n + Size(t, p, n) <= m + 1
  <2>1. n \in 1..m /\ n \notin C /\ HowAt(t, p, n) # {}
    BY <1>2
  <2>2. PICK s : s \in HowAt(t, p, n)
    BY <2>1
  <2>3. How(t, p, n) = s /\ s \in Spellings /\ At(t, n, Spelled(p, s))
    BY <1>3, <1>5, <2>1, <2>2
  <2>4. Len(Spelled(p, s)) \in Nat /\ Len(Spelled(p, s)) > 2
    BY <2>3, SpellingIs
  <2>5. n + Len(Spelled(p, s)) - 1 <= m
    BY <2>3 DEF At
  <2>. DEFINE k == Len(Spelled(p, s))
  <2>6. n + k <= m + 1
    <3>1. k \in Nat /\ n + k - 1 <= m /\ n \in 1..m
      BY <2>1, <2>4, <2>5
    <3>. HIDE DEF k, m
    <3>. QED
      BY <1>1, <3>1
  <2>. QED
    BY <2>1, <2>3, <2>4, <2>6 DEF Size
<1>7. ASSUME NEW n \in C
      PROVE  \E i \in M : i < n /\ n < i + Size(t, p, i)
  <2>1. PICK i \in 1..(n - 1) : \E s \in HowAt(t, p, i) : n < i + Len(Spelled(p, s))
    BY <1>2
  <2>2. PICK s \in HowAt(t, p, i) : n < i + Len(Spelled(p, s))
    BY <2>1
  <2>3. n \in 1..m
    BY <1>2
  <2>4. i \in 1..m /\ i < n
    <3>. HIDE DEF m, C
    <3>. QED
      BY <1>1, <2>3
  <2>5. s \in Spellings /\ At(t, i, Spelled(p, s))
    BY <1>3
  <2>6. i \in M /\ How(t, p, i) = s
    BY <1>5, <2>4, <2>5
  <2>. QED
    BY <2>2, <2>4, <2>6 DEF Size
<1>8. ASSUME NEW i \in M, NEW n \in 1..m, i < n, n < i + Size(t, p, i)
      PROVE  n \in C
  <2>. DEFINE s == How(t, p, i)
  <2>1. s \in HowAt(t, p, i) /\ i \in 1..m
    BY <1>3, <1>6
  <2>2. i \in 1..(n - 1)
    <3>. HIDE DEF m, M
    <3>. QED
      BY <1>1, <1>8, <2>1
  <2>3. n < i + Len(Spelled(p, s))
    BY <1>8 DEF Size
  <2>. HIDE DEF s, m
  <2>. QED
    BY <1>2, <2>1, <2>2, <2>3
<1>. HIDE DEF M, C
<1>. QED
  BY <1>2, <1>5, <1>6, <1>7, <1>8 DEF M, C

(* What a text is cut into.                                                *)
LEMMA CutIs ==
    ASSUME NEW t \in Seq(Char), NEW p \in Paths, NEW v,
           \A n \in Mentioned(t, p) : v[n] \in Seq(Char)
    PROVE  /\ Cut(t, p, v) \in Seq(Seq(Char)) /\ Len(Cut(t, p, v)) = Len(t)
           /\ \A n \in 1..Len(t) :
                 Cut(t, p, v)[n] = IF n \in Mentioned(t, p) THEN v[n]
                                   ELSE IF n \in Covered(t, p) THEN <<>> ELSE <<t[n]>>
<1>. DEFINE m == Len(t)
            s == Cut(t, p, v)
<1>1. m \in Nat /\ DOMAIN t = 1..m /\ \A n \in 1..m : t[n] \in Char
  OBVIOUS
<1>2. /\ s = [n \in 1..m |-> s[n]]
      /\ \A n \in 1..m : s[n] = IF n \in Mentioned(t, p) THEN v[n]
                                ELSE IF n \in Covered(t, p) THEN <<>> ELSE <<t[n]>>
  BY <1>1 DEF Cut
<1>3. ASSUME NEW n \in 1..m
      PROVE  s[n] \in Seq(Char)
  <2>1. t[n] \in Char
    BY <1>1
  <2>2. <<>> \in Seq(Char) /\ <<t[n]>> \in Seq(Char)
    BY <2>1
  <2>. HIDE DEF s
  <2>. QED
    BY <1>2, <2>2
<1>. HIDE DEF s, m
<1>4. s \in Seq(Seq(Char)) /\ Len(s) = m
  <2>1. s \in [1..m -> Seq(Char)]
    BY <1>2, <1>3
  <2>. QED
    BY <1>1, <2>1
<1>. QED
  BY <1>2, <1>4 DEF m, s

(* A text is its own pieces, each where it is.                             *)
LEMMA CutRendered ==
    ASSUME NEW t \in Seq(Char), NEW p \in Paths, NEW v,
           \A n \in Mentioned(t, p) : v[n] = Spelled(p, How(t, p, n))
    PROVE  Rendered(t, Cut(t, p, v))
<1>. DEFINE m == Len(t)
            M == Mentioned(t, p)
            C == Covered(t, p)
            s == Cut(t, p, v)
            f == Places(s)
            size(n) == Size(t, p, n)
<1>1. /\ M \subseteq 1..m /\ C \subseteq 1..m /\ m \in Nat
      /\ \A n \in M : /\ n \notin C /\ At(t, n, Spelled(p, How(t, p, n)))
                      /\ size(n) \in Nat /\ size(n) > 2 /\ n + size(n) <= m + 1
      /\ \A i \in M, n \in 1..m : i < n /\ n < i + size(i) => n \in C
  BY MentionedIs
<1>1a. \A n \in C : \E i \in M : i < n /\ n < i + size(i)
  BY MentionedIs
<1>2. \A n \in M : v[n] \in Seq(Char) /\ Len(v[n]) = size(n)
  <2>1. ASSUME NEW n \in M
        PROVE  v[n] \in Seq(Char) /\ Len(v[n]) = size(n)
    <3>1. How(t, p, n) \in Spellings
      BY MentionedIs
    <3>2. Spelled(p, How(t, p, n)) \in Seq(Char)
      BY <3>1, SpellingIs
    <3>. QED
      BY <3>2 DEF Size
  <2>. QED
    BY <2>1
<1>3. /\ s \in Seq(Seq(Char)) /\ Len(s) = m
      /\ \A n \in 1..m : s[n] = IF n \in M THEN v[n] ELSE IF n \in C THEN <<>> ELSE <<t[n]>>
  <2>. HIDE DEF m
  <2>. QED
    BY <1>2, CutIs DEF m
<1>4. /\ f[1] = 1 /\ \A n \in 1..(m + 1) : f[n] \in Nat \ {0}
      /\ \A n \in 1..m : f[n + 1] = f[n] + Len(s[n])
  <2>. HIDE DEF s, m
  <2>. QED
    BY <1>3, PlacesIs
<1>. HIDE DEF m, M, C, s, f, size
<1>5. ASSUME NEW n \in 1..m
      PROVE  Len(s[n]) = IF n \in M THEN size(n) ELSE IF n \in C THEN 0 ELSE 1
  <2>1. CASE n \in M
    BY <1>2, <1>3, <2>1
  <2>2. CASE n \notin M /\ n \in C
    <3>1. s[n] = <<>>
      BY <1>3, <2>2
    <3>2. Len(s[n]) = 0
      BY ONLY <3>1
    <3>. QED
      BY <2>2, <3>2
  <2>3. CASE n \notin M /\ n \notin C
    <3>1. s[n] = <<t[n]>>
      BY <1>3, <2>3
    <3>2. Len(s[n]) = 1
      BY ONLY <3>1
    <3>. QED
      BY <2>3, <3>2
  <2>. QED
    BY <2>1, <2>2, <2>3
<1>. DEFINE Good(n) == /\ n \notin C => f[n] = n
                       /\ \A i \in M : i < n /\ n < i + size(i) => f[n] = i + size(i)
            G == {n \in 1..(m + 1) : Good(n)}
<1>6. ASSUME NEW n \in 1..(m + 1), n = 1 \/ n - 1 \in G
      PROVE  Good(n)
  <2>1. CASE n = 1
    <3>1. \A i \in M : ~(i < 1)
      BY <1>1
    <3>. QED
      BY <1>4, <2>1, <3>1
  <2>2. CASE n # 1
    <3>. DEFINE k == n - 1
    <3>1. k \in 1..m /\ k + 1 = n /\ k \in G /\ k < n /\ n \in Nat /\ (n = m + 1 \/ n \in 1..m)
      BY <1>1, <1>6, <2>2
    <3>2. Good(k)
      BY <3>1
    <3>. HIDE DEF k, G
    <3>3. f[n] = f[k] + Len(s[k]) /\ f[k] \in Nat
      <4>1. k \in 1..(m + 1)
        BY <1>1, <3>1
      <4>. QED
        BY <1>4, <3>1, <4>1
    <3>4. \A i \in M : i < n /\ i # k => i < k
      BY <1>1, <3>1
    <3>5. \A i \in M : n < i + size(i) => k < i + size(i)
      BY <1>1, <3>1
    <3>6. CASE k \in M
      <4>1. f[n] = k + size(k)
        BY <1>1, <1>5, <3>1, <3>2, <3>3, <3>6
      <4>2. n \in C
        <5>1. size(k) \in Nat /\ size(k) > 2 /\ k + size(k) <= m + 1 /\ k < n
          BY <1>1, <3>1, <3>6
        <5>2. n # m + 1 /\ n < k + size(k)
          BY <1>1, <3>1, <5>1
        <5>. QED
          BY <1>1, <3>1, <3>6, <5>2
      <4>3. ASSUME NEW i \in M, i < n, n < i + size(i)
            PROVE  i = k
        <5>1. i < k => k \in C
          BY <1>1, <3>1, <3>5, <4>3
        <5>. QED
          BY <1>1, <3>4, <3>6, <4>3, <5>1
      <4>. QED
        BY <4>1, <4>2, <4>3
    <3>7. CASE k \in C
      <4>1. PICK l \in M : l < k /\ k < l + size(l)
        BY <1>1a, <3>7
      <4>2. f[n] = l + size(l)
        <5>1. k \notin M
          BY <1>1, <3>7
        <5>2. Len(s[k]) = 0
          BY <1>5, <3>1, <3>7, <5>1
        <5>3. f[k] = l + size(l)
          BY <3>2, <4>1
        <5>. QED
          BY <3>3, <5>2, <5>3
      <4>3. n \notin C => n = l + size(l)
        <5>1. l \in Nat /\ size(l) \in Nat /\ l + size(l) <= m + 1 /\ l < n
          BY <1>1, <3>1, <4>1
        <5>2. n \notin C => ~(n < l + size(l))
          BY <1>1, <3>1, <5>1
        <5>. QED
          BY <3>1, <4>1, <5>1, <5>2
      <4>4. ASSUME NEW i \in M, i < n, n < i + size(i)
            PROVE  f[n] = i + size(i)
        <5>1. i # k
          BY <1>1, <3>7
        <5>2. i < k /\ k < i + size(i)
          BY <3>4, <3>5, <4>4, <5>1
        <5>3. f[k] = i + size(i) /\ f[k] = l + size(l)
          BY <3>2, <4>1, <5>2
        <5>. QED
          BY <4>2, <5>3
      <4>. QED
        BY <4>2, <4>3, <4>4
    <3>8. CASE k \notin M /\ k \notin C
      <4>1. f[n] = n
        <5>1. f[k] = k /\ Len(s[k]) = 1
          BY <1>5, <3>1, <3>2, <3>8
        <5>. QED
          BY <3>1, <3>3, <5>1
      <4>2. ASSUME NEW i \in M, i < n, n < i + size(i)
            PROVE  FALSE
        <5>1. i < k /\ k < i + size(i)
          BY <3>4, <3>5, <3>8, <4>2
        <5>. QED
          BY <1>1, <3>1, <3>8, <5>1
      <4>. QED
        BY <4>1, <4>2
    <3>. QED
      BY <3>6, <3>7, <3>8
  <2>. QED
    BY <2>1, <2>2
<1>7. \A n \in 1..(m + 1) : Good(n)
  <2>1. \A n \in 1..(m + 1) : n = 1 \/ n - 1 \in G => n \in G
    BY <1>6
  <2>2. m + 1 \in Nat
    BY <1>1
  <2>3. \A n \in 1..(m + 1) : n \in G
    <3>. HIDE DEF G
    <3>. QED
      BY <2>1, <2>2, UpTo
  <2>. QED
    BY <2>3
<1>8. m + 1 = f[m + 1]
  <2>1. m + 1 \in 1..(m + 1) /\ m + 1 \notin C
    BY <1>1
  <2>. QED
    BY <1>7, <2>1
<1>9. ASSUME NEW i \in 1..m, NEW j \in 1..Len(s[i])
      PROVE  t[f[i] + j - 1] = s[i][j]
  <2>1. i \in 1..(m + 1) /\ i \in Nat \ {0}
    BY <1>1
  <2>2. CASE i \in M
    <3>1. f[i] = i /\ s[i] = v[i] /\ i \notin C
      BY <1>1, <1>3, <1>7, <2>1, <2>2
    <3>2. At(t, i, v[i]) /\ v[i] \in Seq(Char)
      BY <1>1, <1>2, <2>2 DEF M
    <3>3. \A l \in 1..Len(v[i]) : t[i + l - 1] = v[i][l]
      BY <2>1, <3>2, AtPoint
    <3>. QED
      BY <3>1, <3>3
  <2>3. CASE i \notin M /\ i \in C
    <3>1. Len(s[i]) = 0
      BY <1>5, <2>3
    <3>. QED
      BY <3>1
  <2>4. CASE i \notin M /\ i \notin C
    <3>1. Len(s[i]) = 1 /\ f[i] = i /\ s[i] = <<t[i]>>
      BY <1>3, <1>5, <1>7, <2>1, <2>4
    <3>2. j = 1 /\ i + j - 1 = i /\ <<t[i]>>[1] = t[i]
      BY <2>1, <3>1
    <3>. QED
      BY <3>1, <3>2
  <2>. QED
    BY <2>2, <2>3, <2>4
<1>10. t \in Seq(Char) /\ Len(t) = m
  BY DEF m
<1>. QED
  BY <1>3, <1>8, <1>9, <1>10 DEF Rendered, f, s

(* A path only mentions another one at its beginning.                      *)
LEMMA MentionsIs ==
    ASSUME NEW p \in Paths, NEW q \in Paths, Mentions(q, p)
    PROVE  Len(p) <= Len(q) /\ \A n \in 1..Len(p) : p[n] = q[n]
<1>1. PICK s \in Spellings : Occurrences(q, Spelled(p, s)) # {}
  BY DEF Mentions
<1>2. PICK r \in DOMAIN q : At(q, r, Spelled(p, s))
  BY <1>1 DEF Occurrences
<1>3. /\ p \in Seq(Char) /\ Len(p) \in Nat /\ Len(p) > 2
      /\ q \in Seq(Char) /\ Len(q) \in Nat /\ Len(q) > 2 /\ DOMAIN q = 1..Len(q)
  BY PathIs
<1>. DEFINE a == Spelled(p, s)
<1>4. /\ a \in Seq(Char) /\ Len(a) \in Nat /\ Len(a) > 2 /\ a[1] = p[1]
      /\ a[2] = IF s = "normal" THEN Slash ELSE Backslash
  BY SpellingIs
<1>5. r \in Nat \ {0} /\ At(q, r, a) /\ r \in 1..Len(q)
  BY <1>2, <1>3
<1>. HIDE DEF a
<1>6. \A k \in 1..Len(a) : q[r + k - 1] = a[k]
  <2>1. q \in Seq(Char) /\ a \in Seq(Char) /\ r \in Nat \ {0} /\ At(q, r, a)
    BY <1>3, <1>4, <1>5
  <2>. QED
    BY ONLY <2>1, AtPoint
<1>7. r = 1
  <2>1. 1 \in 1..Len(a) /\ r + 1 - 1 = r
    BY <1>4, <1>5
  <2>2. q[r] = p[1]
    BY <1>4, <1>6, <2>1
  <2>3. r \notin 2..Len(q)
    BY <2>2, DriveIsFirst
  <2>. QED
    BY <1>3, <1>5, <2>3
<1>8. s = "normal"
  <2>1. 2 \in 1..Len(a) /\ r + 2 - 1 = 2
    BY <1>4, <1>7
  <2>2. q[2] = a[2] /\ q[2] = Slash
    BY <1>6, <2>1, SubstitutionAssumption
  <2>. QED
    BY <1>4, <2>2, Characters
<1>9. At(q, 1, p)
  <2>1. a = p
    BY <1>3, <1>8, NormalIs DEF a
  <2>. QED
    BY <1>5, <1>7, <2>1
<1>. DEFINE one == 1
<1>10. one \in Nat \ {0} /\ At(q, one, p)
  BY <1>9
<1>. HIDE DEF one
<1>11. one + Len(p) - 1 <= Len(q) /\ \A n \in 1..Len(p) : q[one + n - 1] = p[n]
  BY <1>3, <1>10, AtPoint
<1>12. Len(p) <= Len(q)
  BY <1>3, <1>11 DEF one
<1>13. ASSUME NEW n \in 1..Len(p)
       PROVE  p[n] = q[n]
  <2>1. one + n - 1 = n
    BY <1>3 DEF one
  <2>. QED
    BY <1>11, <2>1
<1>. QED
  BY <1>12, <1>13

(* If a text has paths where it mentioned p, and does not mention q but    *)
(* within p, then q is only found where p was mentioned.                   *)
LEMMA FoundWhereMentioned ==
    ASSUME NEW t \in Seq(Char), NEW p \in Paths, NEW q \in Paths,
           Mentions(t, q) => Mentions(q, p),
           NEW v, \A n \in Mentioned(t, p) : \E x \in Paths, k \in Spellings : v[n] = Spelled(x, k),
           NEW u, Rendered(u, Cut(t, p, v)),
           NEW s \in Spellings, NEW n \in Occurrences(u, Spelled(q, s))
    PROVE  \E i \in Mentioned(t, p) :
              /\ n = Places(Cut(t, p, v))[i]
              /\ \A x \in Paths, k \in Spellings : v[i] = Spelled(x, k) => k = s
<1>. DEFINE m == Len(t)
            M == Mentioned(t, p)
            C == Covered(t, p)
            w == Cut(t, p, v)
            f == Places(w)
            b == Spelled(q, s)
            l == Len(b)
            nu == Len(u)
            size(i) == Size(t, p, i)
<1>1. /\ b \in Seq(Char) /\ l \in Nat /\ l > 2 /\ b[1] = q[1]
      /\ \A j \in 2..l : \A x \in Paths : b[j] # x[1]
  BY SpellingIs
<1>2. \A i \in M : v[i] \in Seq(Char)
  BY SpellingIs
<1>3. /\ w \in Seq(Seq(Char)) /\ Len(w) = m /\ m \in Nat
      /\ \A i \in 1..m : w[i] = IF i \in M THEN v[i] ELSE IF i \in C THEN <<>> ELSE <<t[i]>>
  <2>1. m \in Nat
    OBVIOUS
  <2>. HIDE DEF m, w, M
  <2>. QED
    BY <1>2, <2>1, CutIs DEF m, w, M
<1>4. /\ u \in Seq(Char) /\ nu \in Nat /\ nu + 1 = f[m + 1]
      /\ \A i \in 1..m : \A j \in 1..Len(w[i]) : u[f[i] + j - 1] = w[i][j]
  <2>. HIDE DEF m, w
  <2>1. u \in Seq(Char)
    BY DEF Rendered
  <2>2. nu \in Nat
    BY <2>1
  <2>. QED
    BY <1>3, <2>1, <2>2 DEF Rendered, w
<1>5. /\ \A i \in 1..(m + 1) : f[i] \in Nat \ {0}
      /\ \A i \in 1..m : f[i + 1] = f[i] + Len(w[i])
  <2>. HIDE DEF w, m
  <2>. QED
    BY <1>3, PlacesIs
<1>6. /\ M \subseteq 1..m /\ C \subseteq 1..m
      /\ \A i \in M : i \notin C /\ size(i) \in Nat
      /\ \A i \in 1..m : At(t, i, Spelled(p, s)) => i \in M
      /\ \A i \in C : \E h \in M : h < i /\ i < h + size(h)
      /\ \A h \in M, i \in 1..m : h < i /\ i < h + size(h) => i \in C
  BY MentionedIs
<1>7. /\ n \in 1..nu /\ n \in Nat \ {0} /\ At(u, n, b)
      /\ n + l - 1 <= nu /\ \A j \in 1..l : u[n + j - 1] = b[j]
  <2>1. n \in 1..nu /\ n \in Nat \ {0} /\ At(u, n, b)
    BY <1>4 DEF Occurrences
  <2>. HIDE DEF b
  <2>2. n + Len(b) - 1 <= Len(u) /\ \A j \in 1..Len(b) : u[n + j - 1] = b[j]
    BY <1>1, <1>4, <2>1, AtPoint
  <2>. QED
    BY <2>1, <2>2
<1>8. PICK i \in 1..m : \E j \in 1..Len(w[i]) : n = f[i] + j - 1
  <2>1. n \in 1..(f[m + 1] - 1)
    <3>. HIDE DEF nu, w, f, m
    <3>. QED
      BY ONLY <1>4, <1>7
  <2>. HIDE DEF w, m
  <2>2. n \in 1..(Places(w)[Len(w) + 1] - 1)
    BY <1>3, <2>1
  <2>3. \E i \in 1..Len(w) : \E j \in 1..Len(w[i]) : n = Places(w)[i] + j - 1
    BY ONLY <1>3, <2>2, InAPiece
  <2>. QED
    BY <1>3, <2>3
<1>9. PICK j \in 1..Len(w[i]) : n = f[i] + j - 1
  BY <1>8
<1>9a. f[i] \in Nat
  <2>1. m \in Nat
    BY <1>3
  <2>. HIDE DEF m
  <2>2. i \in 1..(m + 1)
    BY <2>1
  <2>. QED
    BY <1>5, <2>2
<1>10. w[i][j] = q[1]
  <2>1. u[n] = w[i][j]
    BY <1>4, <1>9
  <2>2. 1 \in 1..l /\ n + 1 - 1 = n
    BY <1>1, <1>7
  <2>3. u[n] = b[1]
    BY <1>7, <2>2
  <2>. QED
    BY <1>1, <2>1, <2>3
<1>. HIDE DEF m, M, C, w, f, b, l, nu, size
<1>11. CASE i \in M
  <2>1. PICK x \in Paths, k \in Spellings : v[i] = Spelled(x, k)
    BY <1>11 DEF M
  <2>2. w[i] = Spelled(x, k)
    BY <1>3, <1>11, <2>1
  <2>3. n = f[i]
    <3>1. \A h \in 2..Len(w[i]) : w[i][h] # q[1]
      BY <2>2, SpellingIs
    <3>2. j \notin 2..Len(w[i])
      BY <1>10, <3>1
    <3>3. j = 1
      <4>1. Len(w[i]) \in Nat
        BY <2>2, SpellingIs
      <4>. QED
        BY <3>2, <4>1
    <3>. QED
      BY <1>9, <1>9a, <3>3
  <2>4. ASSUME NEW y \in Paths, NEW h \in Spellings, v[i] = Spelled(y, h)
        PROVE  h = s
    <3>1. At(u, n, Spelled(y, h))
      <4>1. At(u, Places(w)[i], w[i])
        <5>1. i \in 1..Len(w) /\ Rendered(u, w)
          BY <1>3 DEF w
        <5>. QED
          BY ONLY <1>3, <5>1, PieceAt
      <4>2. w[i] = Spelled(y, h)
        BY <2>1, <2>2, <2>4
      <4>. QED
        BY <2>3, <4>1, <4>2 DEF f
    <3>2. At(u, n, Spelled(q, s))
      BY <1>7 DEF b
    <3>. QED
      BY <1>4, <1>7, <3>1, <3>2, OneSpelling
  <2>. QED
    BY <1>11, <2>3, <2>4 DEF M, f, w
<1>12. CASE i \notin M /\ i \in C
  <2>1. w[i] = <<>>
    BY <1>3, <1>12
  <2>2. Len(w[i]) = 0
    BY ONLY <2>1
  <2>. QED
    BY <2>2
<1>13. CASE i \notin M /\ i \notin C
  <2>1. \A h \in 1..m : h \notin M /\ h \notin C => Len(w[h]) = 1 /\ w[h][1] = t[h]
    <3>1. ASSUME NEW h \in 1..m, h \notin M, h \notin C
          PROVE  Len(w[h]) = 1 /\ w[h][1] = t[h]
      <4>1. w[h] = <<t[h]>>
        BY <1>3, <3>1
      <4>. QED
        BY ONLY <4>1
    <3>. QED
      BY <3>1
  <2>2. j = 1 /\ n = f[i]
    <3>1. j \in 1..1
      BY <1>13, <2>1
    <3>2. j = 1
      BY ONLY <3>1
    <3>. QED
      BY <1>9, <1>9a, <3>2
  <2>. DEFINE Good(h) == /\ i + h - 1 \in 1..m /\ i + h - 1 \notin M /\ i + h - 1 \notin C
                         /\ f[i + h - 1] = n + h - 1
              G == {h \in 1..l : Good(h)}
  <2>3. ASSUME NEW h \in 1..l, h = 1 \/ h - 1 \in G
        PROVE  Good(h)
    <3>1. CASE h = 1
      <4>1. i + h - 1 = i /\ n + h - 1 = n
        BY <1>7, <3>1
      <4>. QED
        BY <1>13, <2>2, <4>1
    <3>2. CASE h # 1
      <4>. DEFINE c == i + (h - 1) - 1
                  d == c + 1
      <4>1. Good(h - 1) /\ h - 1 \in 1..l /\ h \in 2..l
        BY <1>1, <2>3, <3>2
      <4>2. /\ c \in 1..m /\ c \notin M /\ c \notin C /\ f[c] = n + (h - 1) - 1
        BY <4>1
      <4>3. d = i + h - 1
        BY <1>1
      <4>. HIDE DEF Good, G, c
      <4>4. f[d] = n + h - 1
        <5>1. f[d] = f[c] + Len(w[c]) /\ Len(w[c]) = 1
          BY <1>5, <2>1, <4>2
        <5>2. f[c] = n + (h - 1) - 1 /\ h \in 1..l /\ l \in Nat /\ n \in Nat
          BY <1>1, <1>7, <4>2
        <5>. QED
          BY ONLY <5>1, <5>2
      <4>5. n + h - 1 <= nu
        <5>1. h \in 1..l /\ l \in Nat /\ n \in Nat /\ nu \in Nat /\ n + l - 1 <= nu
          BY <1>1, <1>4, <1>7
        <5>. QED
          BY ONLY <5>1
      <4>6. d \in 1..m
        <5>1. d # m + 1
          BY <1>4, <4>4, <4>5
        <5>2. c \in 1..m /\ m \in Nat
          BY <1>3, <4>2
        <5>. QED
          BY ONLY <5>1, <5>2
      <4>7. d \notin C
        <5>. SUFFICES ASSUME d \in C PROVE FALSE
          OBVIOUS
        <5>1. PICK e \in M : e < d /\ d < e + size(e)
          BY <1>6
        <5>2. e \in 1..m /\ c \in 1..m /\ size(e) \in Nat /\ e # c
          BY <1>6, <4>2
        <5>3. e < c /\ c < e + size(e)
          BY <1>3, <5>1, <5>2
        <5>. QED
          BY <1>6, <4>2, <5>3
      <4>8. d \notin M
        <5>. SUFFICES ASSUME d \in M PROVE FALSE
          OBVIOUS
        <5>1. PICK x \in Paths, k \in Spellings : v[d] = Spelled(x, k)
          BY DEF M
        <5>2. w[d] = Spelled(x, k)
          BY <1>3, <4>6, <5>1
        <5>3. w[d][1] = x[1] /\ Len(w[d]) \in Nat /\ Len(w[d]) > 2
          BY <5>2, SpellingIs
        <5>4. 1 \in 1..Len(w[d])
          BY <5>3
        <5>5. u[f[d] + 1 - 1] = w[d][1]
          BY <1>4, <4>6, <5>4
        <5>6. f[d] + 1 - 1 = n + h - 1
          <6>1. h \in 1..l /\ l \in Nat /\ n \in Nat
            BY <1>1, <1>7
          <6>. QED
            BY ONLY <4>4, <6>1
        <5>7. u[n + h - 1] = b[h]
          BY <1>7
        <5>8. b[h] = x[1]
          BY <5>3, <5>5, <5>6, <5>7
        <5>. QED
          BY <1>1, <4>1, <5>8
      <4>. QED
        BY <4>3, <4>4, <4>6, <4>7, <4>8 DEF Good
    <3>. QED
      BY <3>1, <3>2
  <2>4. \A h \in 1..l : Good(h)
    <3>1. \A h \in 1..l : h = 1 \/ h - 1 \in G => h \in G
      BY <2>3
    <3>2. \A h \in 1..l : h \in G
      <4>. HIDE DEF G
      <4>. QED
        BY <1>1, <3>1, UpTo
    <3>. QED
      BY <3>2
  <2>5. ASSUME NEW h \in 1..l
        PROVE  t[i + h - 1] = b[h]
    <3>. DEFINE c == i + h - 1
    <3>1. c \in 1..m /\ c \notin M /\ c \notin C /\ f[c] = n + h - 1
      BY <2>4
    <3>. HIDE DEF c
    <3>2. Len(w[c]) = 1 /\ w[c][1] = t[c]
      BY <2>1, <3>1
    <3>3. u[f[c] + 1 - 1] = w[c][1]
      <4>1. 1 \in 1..Len(w[c])
        BY <3>2
      <4>. QED
        BY <1>4, <3>1, <4>1
    <3>4. f[c] + 1 - 1 = n + h - 1
      <4>1. h \in 1..l /\ l \in Nat /\ n \in Nat
        BY <1>1, <1>7
      <4>. QED
        BY ONLY <3>1, <4>1
    <3>5. u[n + h - 1] = b[h]
      BY <1>7
    <3>. QED
      BY <3>2, <3>3, <3>4, <3>5 DEF c
  <2>6. At(t, i, b) /\ i \in Nat \ {0}
    <3>1. i \in Nat \ {0}
      BY <1>3
    <3>2. i + l - 1 <= m
      <4>1. l \in 1..l
        BY <1>1
      <4>2. i + l - 1 \in 1..m
        BY <2>4, <4>1
      <4>. QED
        BY <1>3, <4>2
    <3>3. i + Len(b) - 1 <= Len(t) /\ \A h \in 1..Len(b) : t[i + h - 1] = b[h]
      BY <2>5, <3>2 DEF l, m
    <3>. QED
      BY <1>1, <3>1, <3>3, AtPoint
  <2>7. Mentions(q, p)
    <3>1. i \in DOMAIN t
      BY DEF m
    <3>2. i \in Occurrences(t, Spelled(q, s))
      BY <2>6, <3>1 DEF Occurrences, b
    <3>. QED
      BY <3>2 DEF Mentions
  <2>8. At(t, i, Spelled(p, s))
    <3>1. p \in Seq(Char) /\ q \in Seq(Char)
      BY PathIs
    <3>2. Len(p) <= Len(q) /\ \A h \in 1..Len(p) : p[h] = q[h]
      BY <2>7, MentionsIs
    <3>3. At(t, i, Spelled(q, s))
      BY <2>6 DEF b
    <3>. QED
      BY <2>6, <3>1, <3>2, <3>3, BeginsIs
  <2>. QED
    BY <1>6, <1>13, <2>8
<1>. QED
  BY <1>11, <1>12, <1>13

(* What qmake answers is a path.                                           *)
LEMMA AnswerIs ==
    ASSUME NEW p \in Fitting, NEW values \in {BuiltValues(p), NewValues(p)}
    PROVE  Normal(Answer(values)) = p
<1>. DEFINE v == values[1]
            x == Params[1].prefix
            norm(y) == IF y = Backslash THEN Slash ELSE y
<1>1. 1 \in DOMAIN Params /\ Params[1].dir = <<>>
  BY SubstitutionAssumption
<1>2. p \in Paths
  BY DEF Fitting
<1>3. /\ p \in Seq(Char) /\ Len(p) \in Nat /\ Len(p) > 2
      /\ \A n \in 1..Len(p) : p[n] # Backslash
      /\ LET q == Spelled(p, "single")
         IN q \in Seq(Char) /\ Len(q) = Len(p) /\ \A n \in 1..Len(p) : p[n] = norm(q[n])
  BY <1>2, PathIs
<1>4. \E q \in Seq(Char), c \in Char :
         /\ Len(q) = Len(p) /\ v = Value(Params[1], q, <<c>>)
         /\ \A n \in 1..Len(p) : p[n] = norm(q[n])
  <2>1. CASE values = BuiltValues(p)
    <3>1. v = Value(Params[1], p, <<Slash>>)
      BY <1>1, <2>1 DEF BuiltValues
    <3>. QED
      BY <1>3, <3>1, Characters
  <2>2. CASE values = NewValues(p)
    <3>1. v = Value(Params[1], Spelled(p, "single"), <<Backslash>>)
      BY <1>1, <2>2 DEF NewValues, NewValue
    <3>. HIDE DEF norm
    <3>. QED
      BY <1>3, <3>1, Characters
  <2>. QED
    BY <2>1, <2>2
<1>5. PICK q \in Seq(Char), c \in Char :
         /\ Len(q) = Len(p) /\ v = Value(Params[1], q, <<c>>)
         /\ \A n \in 1..Len(p) : p[n] = norm(q[n])
  BY <1>4
<1>6. Len(x) \in Nat
  BY <1>1, Parameter
<1>7. /\ v \in Seq(Char) /\ Len(v) = Len(x) + Len(q)
      /\ \A j \in 1..Len(v) : ~(j <= Len(x)) /\ j - Len(x) <= Len(q) => v[j] = q[j - Len(x)]
  <2>. DEFINE one == 1
              u == Value(Params[one], q, <<c>>)
              d == Params[one].dir
              y == Params[one].prefix
  <2>1. one \in DOMAIN Params /\ d = <<>>
    BY <1>1
  <2>2. v = u /\ x = y
    BY <1>5
  <2>. HIDE DEF one
  <2>3. /\ u \in Seq(Char)
        /\ Len(u) = Len(y) + Len(q) + IF d = <<>> THEN 0 ELSE 1 + Len(d)
        /\ \A j \in 1..Len(u) :
              u[j] = IF j <= Len(y) THEN y[j]
                     ELSE IF j - Len(y) <= Len(q) THEN q[j - Len(y)]
                     ELSE IF j - Len(y) - Len(q) <= 1 THEN c
                     ELSE d[j - Len(y) - Len(q) - 1]
    BY <2>1, ValueIs
  <2>4. Len(x) \in Nat /\ Len(q) \in Nat
    BY <1>6
  <2>. HIDE DEF u, v, x, y, d
  <2>5. Len(u) = Len(y) + Len(q)
    BY <2>1, <2>2, <2>3, <2>4
  <2>. QED
    BY <2>2, <2>3, <2>5
<1>. HIDE DEF v, x
<1>. DEFINE i == Len(x) + 1
            e == Len(v)
            a == SubSeq(v, i, e)
            m == Len(p)
<1>8. i \in Nat \ {0} /\ e \in Nat /\ i <= e + 1 /\ e - i + 1 = m /\ m \in Nat
  BY <1>3, <1>5, <1>6, <1>7
<1>9. /\ a \in Seq(Char) /\ Len(a) = m
      /\ \A n \in 1..m : a[n] = v[i + n - 1]
  <2>1. v \in Seq(Char) /\ e <= Len(v)
    BY <1>7, <1>8
  <2>. HIDE DEF i, e, m
  <2>2. /\ a \in Seq(Char) /\ Len(a) = e - i + 1
        /\ \A n \in 1..(e - i + 1) : a[n] = v[i + n - 1]
    BY ONLY <1>8, <2>1, Pieces
  <2>. QED
    BY <1>8, <2>2
<1>10. ASSUME NEW n \in 1..m
       PROVE  a[n] = q[n]
  <2>. DEFINE nx == Len(x)
              j == nx + n
  <2>1. nx \in Nat /\ m \in Nat /\ e = nx + m
    BY <1>5, <1>6, <1>7, <1>8
  <2>. HIDE DEF e, m, nx
  <2>2. j \in 1..e /\ ~(j <= nx) /\ j - nx <= m /\ j - nx = n /\ (nx + 1) + n - 1 = j
    BY <2>1
  <2>3. v[j] = q[j - nx]
    <3>1. Len(q) = m
      BY <1>5 DEF m
    <3>. HIDE DEF j
    <3>. QED
      BY <1>7, <2>2, <3>1 DEF e, nx
  <2>4. a[n] = v[(nx + 1) + n - 1]
    BY <1>9 DEF nx
  <2>. QED
    BY <2>2, <2>3, <2>4
<1>11. Normal(a) = p
  <2>1. DOMAIN a = 1..m /\ DOMAIN p = 1..m /\ p = [n \in 1..m |-> p[n]]
    BY <1>3, <1>9
  <2>2. Normal(a) = [n \in 1..m |-> norm(a[n])]
    BY <2>1 DEF Normal
  <2>3. \A n \in 1..m : norm(a[n]) = p[n]
    BY <1>5, <1>10
  <2>. HIDE DEF norm, a, m
  <2>4. [n \in 1..m |-> norm(a[n])] = [n \in 1..m |-> p[n]]
    BY <2>3
  <2>. QED
    BY <2>1, <2>2, <2>4
<1>12. Answer(values) = a
  BY DEF Answer, a, i, e, v, x
<1>. QED
  BY <1>11, <1>12

(* So the entries of a text are spellings of that path.                    *)
LEMMA PatternIs ==
    ASSUME NEW p \in Fitting, asked \in {BuiltValues(p), NewValues(p)}, pc = "text",
           NEW s \in Spellings
    PROVE  Pattern(s) \in Seq(Char) /\ Len(Pattern(s)) > 0
<1>1. Old = p
  BY AnswerIs DEF Old
<1>2. p \in Seq(Char) /\ Len(p) > 0
  BY PathIs DEF Fitting
<1>3. Pattern(s) = Spelled(p, s)
  BY <1>1 DEF Pattern
<1>. QED
  BY <1>2, <1>3, SpelledIs

-----------------------------------------------------------------------------
(* The steps.                                                              *)

(* What is found next.                                                     *)
LEMMA AheadIs ==
    ASSUME TypeInv, NEW k, Ahead(k) # {}
    PROVE  /\ Min(Ahead(k)) \in Occurrences(Buffer, Pattern(k)) /\ Min(Ahead(k)) >= at
           /\ Min(Ahead(k)) \in Nat \ {0} /\ at \in Nat \ {0}
<1>1. Buffer \in Seq(Char)
  BY DEF TypeInv, Buffer
<1>2. DOMAIN Buffer \subseteq Nat \ {0} /\ Len(Buffer) \in Nat
  BY <1>1
<1>3. Ahead(k) \subseteq Nat \ {0}
  BY <1>2 DEF Ahead, Occurrences
<1>4. Min(Ahead(k)) \in Ahead(k)
  BY <1>3, MinIsLeast
<1>5. at \in Nat \ {0}
  BY <1>2 DEF TypeInv, TypeOK
<1>. QED
  BY <1>3, <1>4, <1>5 DEF Ahead

LEMMA ReplaceText ==
    ASSUME SubstitutionInv, ReplaceInText
    PROVE  /\ text' \in Seq(Char) /\ at' \in 1..(Len(text') + 1)
           /\ Len(text') - at' < Len(text) - at
<1>1. PICK k \in key :
         LET n == Min(Ahead(k))
             v == Replacement(new, k)
         IN text' = Spliced(text, n, Pattern(k), v) /\ at' = Behind(n, Pattern(k), v)
  BY DEF ReplaceInText
<1>. DEFINE n == Min(Ahead(k))
            v == Replacement(new, k)
            old == Pattern(k)
            no == Len(old)
            nv == Len(v)
            nt == Len(text)
<1>2. pc = "text" /\ k \in Spellings /\ new \in Paths /\ text \in Seq(Char)
  BY DEF ReplaceInText, SubstitutionInv, TypeInv, TypeOK, Fitting
<1>3. Ahead(k) # {}
  BY DEF ReplaceInText, Exhausted, SubstitutionInv, TypeInv
<1>4. n \in Occurrences(text, old) /\ n >= at /\ n \in Nat \ {0} /\ at \in Nat \ {0}
  BY <1>2, <1>3, AheadIs DEF SubstitutionInv, Buffer
<1>5. old \in Seq(Char) /\ Len(old) > 0
  BY <1>2, PatternIs DEF SubstitutionInv, BinaryInv
<1>6. v \in Seq(Char)
  <2>1. (IF k = "double" THEN "double" ELSE "normal") \in Spellings
    BY DEF Spellings
  <2>2. new \in Seq(Char) /\ Len(new) > 0
    BY <1>2, PathIs
  <2>. QED
    BY <2>1, <2>2, SpelledIs DEF Replacement
<1>7. text' = Spliced(text, n, old, v) /\ at' = n + nv
  BY <1>1 DEF Behind
<1>. HIDE DEF n, v, old
<1>8. At(text, n, old)
  BY <1>4 DEF Occurrences
<1>9. text' \in Seq(Char) /\ n + no <= nt + 1 /\ Len(text') = nt - no + nv
  <2>1. /\ text \in Seq(Char) /\ old \in Seq(Char) /\ v \in Seq(Char)
        /\ n \in Nat \ {0} /\ At(text, n, old)
    BY <1>2, <1>4, <1>5, <1>6, <1>8
  <2>2. Spliced(text, n, old, v) \in Seq(Char)
    BY ONLY <2>1, SplicedIs
  <2>3. n + no <= nt + 1
    BY ONLY <2>1, SplicedIs
  <2>4. Len(Spliced(text, n, old, v)) = nt - no + nv
    BY ONLY <2>1, SplicedIs
  <2>. QED
    BY <1>7, <2>2, <2>3, <2>4
<1>10. no \in Nat \ {0} /\ nv \in Nat /\ nt \in Nat
  BY <1>2, <1>5, <1>6, LenProperties
<1>. HIDE DEF no, nv, nt
<1>11. n + nv \in 1..(nt - no + nv + 1) /\ nt - no + nv - (n + nv) < nt - at
  BY <1>4, <1>9, <1>10
<1>. QED
  <2>. DEFINE l == Len(text')
  <2>1. l = nt - no + nv /\ at' = n + nv /\ text' \in Seq(Char)
    BY <1>7, <1>9 DEF nv
  <2>. HIDE DEF l
  <2>2. at' \in 1..(l + 1) /\ l - at' < nt - at
    BY <1>4, <1>10, <1>11, <2>1
  <2>. QED
    BY <2>1, <2>2 DEF l, nt

LEMMA AskedIs ==
    ASSUME NEW p \in Fitting, asked \in {BuiltValues(p), NewValues(p)}
    PROVE  asked = [k \in DOMAIN Params |-> asked[k]] /\ \A k \in DOMAIN Params : Valued(k, asked[k])
BY ValuesAreValued DEF BuiltValues, NewValues

(* While a binary is patched each room has what it should.                 *)
LEMMA ReplacedIs ==
    ASSUME SubstitutionInv, pc = "bin"
    PROVE  /\ Rightly(binary, Replaced)
           /\ \A k \in DOMAIN Params : Valued(k, asked[k]) /\ Valued(k, NewValue(k, new))
<1>1. PICK p \in Fitting : asked \in {BuiltValues(p), NewValues(p)}
  BY DEF SubstitutionInv, BinaryInv
<1>2. ASSUME NEW k \in DOMAIN Params
      PROVE  Valued(k, asked[k]) /\ Valued(k, NewValue(k, new))
  <2>1. Valued(k, asked[k])
    BY <1>1, AskedIs
  <2>2. NewValues(new)[k] = NewValue(k, new) /\ new \in Fitting
    BY DEF NewValues, SubstitutionInv, TypeInv
  <2>. QED
    BY <2>1, <2>2, ValuesAreValued
<1>3. \A k \in DOMAIN Params : Valued(k, Replaced[k])
  BY <1>2 DEF Replaced
<1>. QED
  BY <1>2, <1>3 DEF Rightly, SubstitutionInv, BinaryInv, TypeInv

(* When the search for an entry has ended its value has been replaced.     *)
LEMMA ExhaustedIs ==
    ASSUME SubstitutionInv, pc = "bin", Exhausted, NEW k \in DOMAIN Params, k \notin todo
    PROVE  Replaced[k] = NewValue(k, new)
<1>. SUFFICES ASSUME k \in key, at = 1 PROVE FALSE
  BY DEF Replaced
<1>1. Replaced[k] = asked[k]
  BY DEF Replaced
<1>2. Offset(k, Width) + 1 \in Occurrences(binary, asked[k])
  BY <1>1, ReplacedIs, InItsRoom
<1>3. Offset(k, Width) \in Nat
  BY ReplacedIs, LayoutIs
<1>4. Offset(k, Width) + 1 \in Ahead(k)
  <2>1. Buffer = binary /\ Pattern(k) = asked[k]
    BY DEF Buffer, Pattern
  <2>. HIDE DEF Offset
  <2>. QED
    BY <1>2, <1>3, <2>1 DEF Ahead
<1>. QED
  BY <1>4 DEF Exhausted

LEMMA ReplaceBinary ==
    ASSUME SubstitutionInv, ReplaceInBinary
    PROVE  /\ binary' \in Seq(Char) /\ Layout(binary', Replaced')
           /\ at' \in 1..(Len(binary') + 1)
           /\ \A k \in key : at' > Offset(k, Width) + 1
<1>1. PICK k \in key :
         LET n == Min(Ahead(k))
             v == NewValue(k, new)
         IN /\ binary' = Overwrite(binary, n, v, Pattern(k))
            /\ at' = n + Max({Len(v), Len(Pattern(k))})
  BY DEF ReplaceInBinary
<1>. DEFINE n == Min(Ahead(k))
            v == NewValue(k, new)
<1>2. /\ pc = "bin" /\ k \in DOMAIN Params /\ Pattern(k) = asked[k] /\ Buffer = binary
      /\ key = {k} /\ k \notin todo
  BY DEF ReplaceInBinary, SubstitutionInv, TypeInv, TypeOK, BinaryInv, Pattern, Buffer
<1>3. Ahead(k) # {}
  BY <1>2 DEF ReplaceInBinary, Exhausted
<1>4. n \in Occurrences(binary, asked[k]) /\ n >= at /\ at \in Nat \ {0} /\ n \in Nat
  BY <1>2, <1>3, AheadIs DEF SubstitutionInv
<1>5. /\ Rightly(binary, Replaced) /\ Valued(k, asked[k]) /\ Valued(k, v)
  BY <1>2, ReplacedIs
<1>. HIDE DEF n
<1>6. n = Offset(k, Width) + 1 /\ Offset(k, Width) \in Nat
  BY <1>2, <1>4, <1>5, OnlyInItsRoom, LayoutIs
<1>7. at = 1 /\ Replaced[k] = asked[k]
  <2>1. at = 1 \/ at > Offset(k, Width) + 1
    BY <1>2 DEF SubstitutionInv, BinaryInv, Offset
  <2>2. at = 1
    <3>. HIDE DEF Offset
    <3>. QED
      BY <1>4, <1>6, <2>1
  <2>. QED
    BY <1>2, <2>2 DEF Replaced
<1>. DEFINE u == Replaced'
            o == Offset(k, Width)
<1>8. UNCHANGED <<asked, new, pc, todo, key>>
  BY DEF ReplaceInBinary
<1>9. /\ binary' = Overwrite(binary, o + 1, v, Replaced[k])
      /\ at' = o + 1 + Max({Len(v), Len(Replaced[k])})
  BY <1>1, <1>2, <1>6, <1>7 DEF n
<1>. DEFINE spliced == [l \in DOMAIN Params |-> IF l = k THEN v ELSE Replaced[l]]
<1>10. /\ spliced[k] = v
       /\ \A l \in DOMAIN Params : l # k => spliced[l] = Replaced[l]
  BY <1>2
<1>. HIDE DEF spliced, v, o
<1>11. /\ Rightly(binary', spliced)
       /\ at' \in (o + 2)..(Len(binary') + 1)
  BY <1>2, <1>5, <1>9, <1>10, OverwriteIs DEF o
<1>12. o \in Nat /\ Len(binary') \in Nat
  BY <1>6, <1>11 DEF o, Rightly
<1>13. at' > o + 1 /\ at' \in 1..(Len(binary') + 1) /\ at' # 1
  BY <1>11, <1>12
<1>14. \A l \in DOMAIN Params : u[l] = spliced[l]
  <2>1. ASSUME NEW l \in DOMAIN Params
        PROVE  u[l] = IF l = k THEN v ELSE Replaced[l]
    <3>1. u[l] = IF l \in todo \/ (l \in key /\ at' = 1) THEN asked[l] ELSE NewValue(l, new)
      BY <1>8 DEF Replaced
    <3>2. CASE l = k
      BY <1>2, <1>13, <3>1, <3>2 DEF v
    <3>3. CASE l # k
      BY <1>2, <3>1, <3>3 DEF Replaced
    <3>. QED
      BY <3>2, <3>3
  <2>. QED
    BY <2>1 DEF spliced
<1>15. Layout(binary', u)
  BY <1>11, <1>14 DEF Rightly, Layout
<1>. QED
  BY <1>2, <1>11, <1>13, <1>15 DEF Rightly, o

-----------------------------------------------------------------------------
(* The text in a run.                                                      *)

(* The path that qmake answered is searched for.                           *)
LEMMA OldIs ==
    ASSUME SubstitutionInv, pc = "text"
    PROVE  /\ orig \in Seq(Char) /\ built \in Paths /\ new \in Paths /\ Old \in Paths
           /\ Mentions(orig, Old) => Mentions(Old, built)
           /\ Buffer = text /\ \A s : Pattern(s) = Spelled(Old, s)
BY DEF SubstitutionInv, TypeInv, TextInv, Fitting, Buffer, Pattern

(* A replacement is in a form that another run keeps.                      *)
LEMMA FormIs ==
    ASSUME NEW s \in Spellings, NEW q
    PROVE  /\ Form(s) \in Spellings /\ Form(Form(s)) = Form(s)
           /\ Replacement(q, s) = Spelled(q, Form(s))
BY DEF Form, Replacement, Spellings

(* A mention is spelled in one of the three ways.                          *)
LEMMA NowIs ==
    ASSUME SubstitutionInv, pc = "text", NEW n \in Mentioned(orig, built)
    PROVE  Now(n) \in Spellings /\ n \in 1..Len(orig)
<1>1. How(orig, built, n) \in Spellings /\ n \in 1..Len(orig)
  BY OldIs, MentionedIs
<1>. QED
  BY <1>1, FormIs DEF Now

(* The pieces of a text in a run.                                          *)
LEMMA PutIs ==
    ASSUME SubstitutionInv, pc = "text", NEW done \in SUBSET Mentioned(orig, built)
    PROVE  /\ Put(done) \in Seq(Seq(Char)) /\ Len(Put(done)) = Len(orig)
           /\ \A n \in Mentioned(orig, built) :
                 /\ n \in 1..Len(orig) /\ Now(n) \in Spellings
                 /\ Put(done)[n] = IF n \in done THEN Spelled(new, Form(Now(n)))
                                   ELSE Spelled(Old, Now(n))
           /\ \A n \in 1..Len(orig) : n \notin Mentioned(orig, built) =>
                 Put(done)[n] = IF n \in Covered(orig, built) THEN <<>> ELSE <<orig[n]>>
           /\ Rendered(FlattenSeq(Put(done)), Put(done))
<1>. DEFINE v == [n \in DOMAIN orig |->
                    IF n \in done THEN Replacement(new, Now(n)) ELSE Spelled(Old, Now(n))]
            M == Mentioned(orig, built)
<1>1. orig \in Seq(Char) /\ built \in Paths /\ new \in Paths /\ Old \in Paths
  BY OldIs
<1>2. ASSUME NEW n \in M
      PROVE  /\ n \in 1..Len(orig) /\ Now(n) \in Spellings
             /\ v[n] = IF n \in done THEN Spelled(new, Form(Now(n))) ELSE Spelled(Old, Now(n))
  <2>1. n \in 1..Len(orig) /\ Now(n) \in Spellings
    BY NowIs
  <2>2. n \in DOMAIN orig
    BY <1>1, <2>1
  <2>3. Replacement(new, Now(n)) = Spelled(new, Form(Now(n)))
    BY <2>1, FormIs
  <2>. QED
    BY <2>1, <2>2, <2>3
<1>3. ASSUME NEW n \in M
      PROVE  v[n] \in Seq(Char)
  <2>1. Now(n) \in Spellings /\ Form(Now(n)) \in Spellings
    BY <1>2, FormIs
  <2>2. Spelled(new, Form(Now(n))) \in Seq(Char) /\ Spelled(Old, Now(n)) \in Seq(Char)
    BY <1>1, <2>1, SpellingIs
  <2>. HIDE DEF v
  <2>. QED
    BY <1>2, <2>2
<1>4. Put(done) = Cut(orig, built, v)
  BY DEF Put
<1>. HIDE DEF v
<1>5. /\ Put(done) \in Seq(Seq(Char)) /\ Len(Put(done)) = Len(orig)
      /\ \A n \in 1..Len(orig) :
            Put(done)[n] = IF n \in M THEN v[n]
                           ELSE IF n \in Covered(orig, built) THEN <<>> ELSE <<orig[n]>>
  BY <1>1, <1>3, <1>4, CutIs
<1>6. Rendered(FlattenSeq(Put(done)), Put(done))
  BY <1>5, FlattenRendered
<1>. QED
  BY <1>2, <1>5, <1>6

(* The old path is still ahead where it is to be replaced.                 *)
LEMMA StillAhead ==
    ASSUME SubstitutionInv, pc = "text", NEW done \in SUBSET Mentioned(orig, built),
           Changed(done), NEW n \in Mentioned(orig, built), n \notin done, Now(n) \in key
    PROVE  Places(Put(done))[n] \in Ahead(Now(n))
<1>. DEFINE s == Put(done)
            k == Now(n)
<1>1. /\ s \in Seq(Seq(Char)) /\ n \in 1..Len(s) /\ k \in Spellings
      /\ s[n] = Spelled(Old, k) /\ Rendered(text, s)
  <2>1. text = FlattenSeq(s)
    BY DEF Changed
  <2>. QED
    BY <2>1, PutIs
<1>2. Len(s[n]) > 0
  <2>1. Len(Spelled(Old, k)) \in Nat /\ Len(Spelled(Old, k)) > 2
    BY <1>1, OldIs, SpellingIs
  <2>. HIDE DEF s, k
  <2>. QED
    BY <1>1, <2>1
<1>3. Places(s)[n] \in Occurrences(text, Spelled(Old, k))
  <2>. HIDE DEF s, k
  <2>. QED
    BY <1>1, <1>2, PieceAt
<1>4. Places(s)[n] >= at
  <2>1. ~(Places(s)[n] < at)
    BY DEF Changed
  <2>2. Places(s)[n] \in Nat
    <3>. HIDE DEF s
    <3>1. Len(s) \in Nat
      BY <1>1, PiecesAre
    <3>2. n \in 1..(Len(s) + 1)
      BY <1>1, <3>1
    <3>. QED
      BY <1>1, <3>2, PlacesIs
  <2>3. text \in Seq(Char) /\ at \in 1..(Len(text) + 1)
    BY OldIs DEF SubstitutionInv, TypeInv, TypeOK
  <2>4. at \in Nat
    BY <2>3
  <2>. HIDE DEF s
  <2>. QED
    BY <2>1, <2>2, <2>4
<1>5. Buffer = text /\ Pattern(k) = Spelled(Old, k)
  BY OldIs
<1>. QED
  BY <1>3, <1>4, <1>5 DEF Ahead

(* The pieces only depend on the paths and on the number of the run.       *)
LEMMA PutSame ==
    ASSUME UNCHANGED <<built, orig, asked, new, runs>>, NEW done
    PROVE  Old' = Old /\ Put(done)' = Put(done) /\ \A n : Now(n)' = Now(n)
<1>1. Old' = Old
  BY DEF Old
<1>2. \A n : Now(n)' = Now(n)
  BY DEF Now
<1>. QED
  BY <1>1, <1>2 DEF Put

(* A mention is put somewhere in the text.                                 *)
LEMMA PlacesOfPut ==
    ASSUME SubstitutionInv, pc = "text", NEW done \in SUBSET Mentioned(orig, built),
           NEW n \in Mentioned(orig, built)
    PROVE  Places(Put(done))[n] \in Nat \ {0}
<1>. DEFINE s == Put(done)
<1>1. s \in Seq(Seq(Char)) /\ n \in 1..Len(s)
  BY PutIs
<1>. HIDE DEF s
<1>2. Len(s) \in Nat
  BY <1>1, PiecesAre
<1>3. n \in 1..(Len(s) + 1)
  BY <1>1, <1>2
<1>4. Places(s)[n] \in Nat \ {0}
  BY <1>1, <1>3, PlacesIs
<1>. QED
  BY <1>4 DEF s

(* An entry is done when nothing of it is ahead.                           *)
LEMMA TextNext ==
    ASSUME SubstitutionInv, NextEntry, pc = "text"
    PROVE  TextInv'
<1>. DEFINE M == Mentioned(orig, built)
<1>1. PICK k \in Foremost(todo) : key' = {k} /\ todo' = todo \ {k}
  BY DEF NextEntry
<1>2. /\ Exhausted /\ at' = 1 /\ UNCHANGED <<built, orig, text, binary, asked, new, pc, runs>>
  BY DEF NextEntry
<1>3. k \in todo /\ todo' \union key' = todo /\ key' \intersect todo' = {}
  BY <1>1 DEF Foremost
<1>4. /\ orig \in Seq(Char) /\ \A p \in Paths : Mentions(orig, p) => Mentions(p, built)
      /\ runs = 0 => new = built /\ text = orig
      /\ Old \in Fitting /\ (runs = 1 => Old = built) /\ key \intersect todo = {}
      /\ "normal" \in todo \union key => {"single", "double"} \subseteq todo
  BY DEF SubstitutionInv, TextInv
<1>5. PICK done \in SUBSET M : Changed(done)
  BY DEF SubstitutionInv, TextInv
<1>6. Old' = Old /\ Put(done)' = Put(done) /\ \A n : Now(n)' = Now(n)
  BY <1>2, PutSame
<1>7. "normal" \in todo' \union key' => {"single", "double"} \subseteq todo'
  <2>. SUFFICES ASSUME "normal" \in todo
                PROVE  {"single", "double"} \subseteq todo'
    BY <1>3
  <2>1. k = "normal" /\ {"single", "double"} \subseteq todo
    BY <1>4 DEF Foremost
  <2>. QED
    BY <1>1, <2>1
<1>8. ASSUME NEW n \in M
      PROVE  n \in done <=> \/ Now(n) \notin todo' \union key'
                            \/ Now(n) \in key' /\ Places(Put(done))[n] < at'
  <2>1. n \in done <=> \/ Now(n) \notin todo \union key
                       \/ Now(n) \in key /\ Places(Put(done))[n] < at
    BY <1>5 DEF Changed
  <2>2. Now(n) \in key => n \in done
    BY <1>2, <1>5, StillAhead DEF Exhausted
  <2>3. n \in done <=> Now(n) \notin todo
    BY <1>4, <2>1, <2>2
  <2>4. ~(Places(Put(done))[n] < at')
    <3>1. Places(Put(done))[n] \in Nat \ {0}
      BY <1>5, PlacesOfPut
    <3>. QED
      BY <1>2, <3>1
  <2>. QED
    BY <1>3, <2>3, <2>4
<1>9. Changed(done)'
  <2>1. text = FlattenSeq(Put(done))
    BY <1>5 DEF Changed
  <2>2. text' = FlattenSeq(Put(done)')
    BY <1>2, <1>6, <2>1
  <2>. QED
    BY <1>2, <1>6, <1>8, <2>2 DEF Changed
<1>. QED
  <2>1. \E d \in SUBSET M' : Changed(d)'
    BY <1>2, <1>9
  <2>. QED
    BY <1>2, <1>3, <1>4, <1>6, <1>7, <2>1 DEF TextInv, Fitting

(* All at once, piece by piece.                                            *)
LEMMA SubstitutedIs ==
    ASSUME SubstitutionInv, pc = "text"
    PROVE  Substituted(orig, built, new) = FlattenSeq(Put(Mentioned(orig, built)))
<1>. DEFINE M == Mentioned(orig, built)
            v == [n \in DOMAIN orig |-> Replacement(new, How(orig, built, n))]
            w == [n \in DOMAIN orig |->
                    IF n \in M THEN Replacement(new, Now(n)) ELSE Spelled(Old, Now(n))]
<1>1. orig \in Seq(Char) /\ built \in Paths
  BY OldIs
<1>2. ASSUME NEW n \in M
      PROVE  n \in DOMAIN orig /\ v[n] = w[n]
  <2>1. n \in 1..Len(orig) /\ How(orig, built, n) \in Spellings
    BY <1>1, MentionedIs
  <2>2. n \in DOMAIN orig
    BY <1>1, <2>1
  <2>3. /\ Form(How(orig, built, n)) \in Spellings
        /\ Form(Form(How(orig, built, n))) = Form(How(orig, built, n))
        /\ \A s \in Spellings : Replacement(new, s) = Spelled(new, Form(s))
    BY <2>1, FormIs
  <2>4. Replacement(new, How(orig, built, n)) = Replacement(new, Now(n))
    BY <2>1, <2>3 DEF Now
  <2>. QED
    BY <2>2, <2>4
<1>3. Substituted(orig, built, new) = FlattenSeq(Cut(orig, built, v))
  BY DEF Substituted
<1>4. Put(M) = Cut(orig, built, w)
  BY DEF Put
<1>. HIDE DEF v, w
<1>5. Cut(orig, built, v) = Cut(orig, built, w)
  BY <1>2 DEF Cut
<1>. QED
  BY <1>3, <1>4, <1>5

(* The text is done when all the entries are.                              *)
LEMMA TextDone ==
    ASSUME SubstitutionInv, TextEnds
    PROVE  TextInv'
<1>. DEFINE M == Mentioned(orig, built)
<1>1. /\ pc = "text" /\ Exhausted /\ todo = {} /\ pc' = "bin"
      /\ UNCHANGED <<built, orig, text, binary, asked, new, runs>>
  BY DEF TextEnds
<1>2. /\ orig \in Seq(Char) /\ \A p \in Paths : Mentions(orig, p) => Mentions(p, built)
      /\ runs = 0 => new = built /\ text = orig
  BY DEF SubstitutionInv, TextInv
<1>3. PICK done \in SUBSET M : Changed(done)
  BY <1>1 DEF SubstitutionInv, TextInv
<1>4. \A n \in M : n \in done
  <2>. SUFFICES ASSUME NEW n \in M, n \notin done
                PROVE  FALSE
    OBVIOUS
  <2>1. Now(n) \in key
    BY <1>1, <1>3 DEF Changed
  <2>. QED
    BY <1>1, <1>3, <2>1, StillAhead DEF Exhausted
<1>5. done = M
  BY <1>4
<1>6. text = Substituted(orig, built, new)
  BY <1>1, <1>3, <1>5, SubstitutedIs DEF Changed
<1>. QED
  BY <1>1, <1>2, <1>6 DEF TextInv

(* The search finds the old path only where the text mentions it, in the   *)
(* spelling that is there.                                                 *)
LEMMA FoundIs ==
    ASSUME SubstitutionInv, pc = "text", NEW done \in SUBSET Mentioned(orig, built),
           Changed(done), NEW s \in Spellings, NEW n \in Occurrences(text, Spelled(Old, s))
    PROVE  \E i \in Mentioned(orig, built) :
              /\ n = Places(Put(done))[i]
              /\ s = IF i \in done THEN Form(Now(i)) ELSE Now(i)
<1>. DEFINE v == [l \in DOMAIN orig |->
                    IF l \in done THEN Replacement(new, Now(l)) ELSE Spelled(Old, Now(l))]
            M == Mentioned(orig, built)
<1>1. /\ orig \in Seq(Char) /\ built \in Paths /\ new \in Paths /\ Old \in Paths
      /\ Mentions(orig, Old) => Mentions(Old, built)
  BY OldIs
<1>2. ASSUME NEW l \in M
      PROVE  /\ Now(l) \in Spellings /\ Form(Now(l)) \in Spellings
             /\ v[l] = IF l \in done THEN Spelled(new, Form(Now(l))) ELSE Spelled(Old, Now(l))
  <2>1. l \in 1..Len(orig) /\ Now(l) \in Spellings
    BY NowIs
  <2>2. l \in DOMAIN orig
    BY <1>1, <2>1
  <2>3. Form(Now(l)) \in Spellings /\ Replacement(new, Now(l)) = Spelled(new, Form(Now(l)))
    BY <2>1, FormIs
  <2>. QED
    BY <2>1, <2>2, <2>3
<1>3. Put(done) = Cut(orig, built, v)
  BY DEF Put
<1>. HIDE DEF v
<1>4. Rendered(text, Cut(orig, built, v))
  <2>1. text = FlattenSeq(Put(done)) /\ Rendered(FlattenSeq(Put(done)), Put(done))
    BY PutIs DEF Changed
  <2>. QED
    BY <1>3, <2>1
<1>5. \A l \in M : \E x \in Paths, k \in Spellings : v[l] = Spelled(x, k)
  BY <1>1, <1>2
<1>6. PICK i \in M : /\ n = Places(Cut(orig, built, v))[i]
                     /\ \A x \in Paths, k \in Spellings : v[i] = Spelled(x, k) => k = s
  BY <1>1, <1>4, <1>5, FoundWhereMentioned
<1>7. s = IF i \in done THEN Form(Now(i)) ELSE Now(i)
  BY <1>1, <1>2, <1>6
<1>. QED
  BY <1>3, <1>6, <1>7

(* One more is replaced.                                                   *)
LEMMA OneMore ==
    ASSUME SubstitutionInv, pc = "text", NEW done \in SUBSET Mentioned(orig, built),
           Changed(done), NEW i \in Mentioned(orig, built), i \notin done
    PROVE  LET s == Put(done)
               u == Put(done \union {i})
               v == Spelled(new, Form(Now(i)))
           IN /\ FlattenSeq(u) = Spliced(text, Places(s)[i], Spelled(Old, Now(i)), v)
              /\ Places(u)[i] = Places(s)[i]
              /\ \A n \in Mentioned(orig, built) : 
                    /\ n < i => Places(s)[n] < Places(s)[i] /\ Places(u)[n] = Places(s)[n]
                    /\ i < n => /\ Places(s)[i] < Places(s)[n]
                                /\ Places(s)[i] + Len(v) <= Places(u)[n]
<1>. DEFINE s == Put(done)
            u == Put(done \union {i})
            v == Spelled(new, Form(Now(i)))
            old == Spelled(Old, Now(i))
            M == Mentioned(orig, built)
            m == Len(orig)
<1>1. /\ s \in Seq(Seq(Char)) /\ Len(s) = m /\ s[i] = old
      /\ \A n \in M : n \in 1..m
      /\ i \in 1..m /\ Rendered(FlattenSeq(s), s) /\ text = FlattenSeq(s)
  BY PutIs DEF Changed
<1>2. (done \union {i}) \in SUBSET M
  OBVIOUS
<1>3. /\ u \in Seq(Seq(Char)) /\ Len(u) = m /\ u[i] = v
      /\ Rendered(FlattenSeq(u), u)
  BY <1>2, PutIs
<1>4. ASSUME NEW n \in 1..m, n # i
      PROVE  s[n] = u[n]
  <2>1. CASE n \in M
    BY <1>2, <1>4, <2>1, PutIs
  <2>2. CASE n \notin M
    BY <1>2, <2>2, PutIs
  <2>. QED
    BY <2>1, <2>2
<1>5. ASSUME NEW n \in M
      PROVE  /\ Now(n) \in Spellings /\ Len(s[n]) \in Nat /\ Len(s[n]) > 2
  <2>1. /\ Now(n) \in Spellings /\ Form(Now(n)) \in Spellings
        /\ s[n] = IF n \in done THEN Spelled(new, Form(Now(n))) ELSE Spelled(Old, Now(n))
    BY PutIs, FormIs
  <2>2. \A p \in Paths : \A k \in Spellings : Len(Spelled(p, k)) \in Nat /\ Len(Spelled(p, k)) > 2
    BY SpellingIs
  <2>3. new \in Paths /\ Old \in Paths
    BY OldIs
  <2>. HIDE DEF s
  <2>. QED
    BY <2>1, <2>2, <2>3
<1>. HIDE DEF s, u, v, old
<1>6. Len(s) = Len(u) /\ i \in 1..Len(s) /\ Rendered(text, s)
  BY <1>1, <1>3
<1>7. \A n \in 1..Len(s) : n # i => s[n] = u[n]
  BY <1>1, <1>4
<1>8. Rendered(Spliced(text, Places(s)[i], s[i], u[i]), u)
  BY <1>1, <1>3, <1>6, <1>7, SplicedRendered
<1>9. \A n \in 1..i : Places(u)[n] = Places(s)[n]
  BY <1>1, <1>3, <1>6, <1>7, SplicedRendered
<1>10. FlattenSeq(u) = Spliced(text, Places(s)[i], old, v)
  BY <1>1, <1>3, <1>8, RenderedOnce
<1>11. m \in Nat
  BY OldIs
<1>. HIDE DEF m
<1>12. Places(u)[i] = Places(s)[i]
  BY <1>1, <1>9, <1>11
<1>13. \A n \in 1..(m + 1) : Places(s)[n] \in Nat /\ Places(u)[n] \in Nat
  BY <1>1, <1>3, PlacesIs
<1>14. ASSUME NEW n \in M, n < i
       PROVE  Places(s)[n] < Places(s)[i] /\ Places(u)[n] = Places(s)[n]
  <2>1. n \in 1..m /\ n \in 1..i /\ i \in 1..(m + 1)
    BY <1>1, <1>11, <1>14
  <2>2. Places(s)[n] + Len(s[n]) <= Places(s)[i]
    BY <1>1, <1>14, <2>1, PlacesApart
  <2>3. n \in 1..(m + 1)
    BY <1>11, <2>1
  <2>4. Places(s)[n] \in Nat /\ Places(s)[i] \in Nat
    BY <1>13, <2>1, <2>3
  <2>5. Places(s)[n] < Places(s)[i]
    BY <1>5, <2>2, <2>4
  <2>. QED
    BY <1>9, <2>1, <2>5
<1>15. ASSUME NEW n \in M, i < n
       PROVE  /\ Places(s)[i] < Places(s)[n]
              /\ Places(s)[i] + Len(v) <= Places(u)[n]
  <2>1. n \in 1..(m + 1) /\ i \in 1..(m + 1)
    BY <1>1, <1>11
  <2>2. Places(s)[i] + Len(s[i]) <= Places(s)[n]
    BY <1>1, <1>15, <2>1, PlacesApart
  <2>3. Places(u)[i] + Len(u[i]) <= Places(u)[n]
    BY <1>1, <1>3, <1>15, <2>1, PlacesApart
  <2>4. Places(s)[n] \in Nat /\ Places(s)[i] \in Nat
    BY <1>13, <2>1
  <2>5. Places(s)[i] < Places(s)[n]
    BY <1>5, <2>2, <2>4
  <2>. QED
    BY <1>3, <1>12, <2>3, <2>5
<1>. QED
  BY <1>10, <1>12, <1>14, <1>15 DEF s, u, v, old

(* The first mention ahead is replaced: those before it are done, those    *)
(* behind it stay ahead of the search.                                     *)
LEMMA TextReplaced ==
    ASSUME SubstitutionInv, ReplaceInText
    PROVE  TextInv'
<1>. DEFINE M == Mentioned(orig, built)
<1>1. /\ pc = "text" /\ ~Exhausted
      /\ UNCHANGED <<built, orig, binary, asked, new, pc, todo, key, runs>>
  BY DEF ReplaceInText
<1>2. PICK k \in key :
         LET n == Min(Ahead(k))
             v == Replacement(new, k)
         IN text' = Spliced(text, n, Pattern(k), v) /\ at' = Behind(n, Pattern(k), v)
  BY DEF ReplaceInText
<1>3. /\ orig \in Seq(Char) /\ \A p \in Paths : Mentions(orig, p) => Mentions(p, built)
      /\ runs = 0 => new = built /\ text = orig
      /\ Old \in Fitting /\ (runs = 1 => Old = built) /\ key \intersect todo = {}
      /\ "normal" \in todo \union key => {"single", "double"} \subseteq todo
  BY <1>1 DEF SubstitutionInv, TextInv
<1>4. PICK done \in SUBSET M : Changed(done)
  BY <1>1 DEF SubstitutionInv, TextInv
<1>5. TypeInv /\ key = {k} /\ k \in Spellings /\ runs > 0 /\ runs \in Nat
  BY <1>1 DEF SubstitutionInv, TypeInv, TypeOK, BinaryInv
<1>. DEFINE s == Put(done)
            n0 == Min(Ahead(k))
            v == Replacement(new, k)
<1>6. Ahead(k) # {}
  BY <1>1, <1>5 DEF Exhausted
<1>7. Buffer = text /\ Pattern(k) = Spelled(Old, k) /\ text \in Seq(Char)
  BY <1>1, <1>5, OldIs DEF TypeInv
<1>8. n0 \in Occurrences(text, Spelled(Old, k)) /\ n0 >= at /\ n0 \in Nat /\ at \in Nat
  BY <1>5, <1>6, <1>7, AheadIs
<1>9. \A l \in Ahead(k) : n0 <= l
  <2>1. Ahead(k) \subseteq Nat
    BY <1>7 DEF Ahead, Occurrences
  <2>. QED
    BY <1>6, <2>1, MinIsLeast
<1>10. text' = Spliced(text, n0, Spelled(Old, k), v) /\ at' = n0 + Len(v)
  BY <1>2, <1>7 DEF Behind
<1>. HIDE DEF n0
<1>11. PICK i \in M : /\ n0 = Places(s)[i]
                      /\ k = IF i \in done THEN Form(Now(i)) ELSE Now(i)
  BY <1>1, <1>4, <1>5, <1>8, FoundIs
<1>12. i \notin done
  <2>. SUFFICES ASSUME i \in done
                PROVE  FALSE
    OBVIOUS
  <2>1. k = Form(Now(i)) /\ Now(i) \in Spellings
    BY <1>1, <1>11, NowIs
  <2>2. ~(Now(i) \in key /\ Places(s)[i] < at)
    BY <1>8, <1>11
  <2>3. Now(i) \notin todo \union key
    BY <1>4, <2>2 DEF Changed
  <2>4. CASE k = "double"
    <3>1. Now(i) = "double"
      BY <2>1, <2>4 DEF Form
    <3>. QED
      BY <1>5, <2>3, <2>4, <3>1
  <2>5. CASE k # "double"
    <3>1. k = "normal"
      BY <2>1, <2>5 DEF Form
    <3>2. {"single", "double"} \subseteq todo
      BY <1>3, <1>5, <3>1
    <3>3. Now(i) \in {"normal", "single", "double"}
      BY <2>1 DEF Spellings
    <3>. QED
      BY <1>5, <2>3, <3>1, <3>2, <3>3
  <2>. QED
    BY <2>4, <2>5
<1>13. k = Now(i) /\ v = Spelled(new, Form(Now(i)))
  BY <1>5, <1>11, <1>12, FormIs
<1>. DEFINE u == Put(done \union {i})
<1>14. /\ FlattenSeq(u) = Spliced(text, Places(s)[i], Spelled(Old, Now(i)), Spelled(new, Form(Now(i))))
       /\ Places(u)[i] = Places(s)[i]
       /\ \A n \in M : 
             /\ n < i => Places(s)[n] < Places(s)[i] /\ Places(u)[n] = Places(s)[n]
             /\ i < n => /\ Places(s)[i] < Places(s)[n]
                         /\ Places(s)[i] + Len(Spelled(new, Form(Now(i)))) <= Places(u)[n]
  BY <1>1, <1>4, <1>12, OneMore
<1>15. text' = FlattenSeq(u)
  BY <1>10, <1>11, <1>13, <1>14
<1>16. Len(v) \in Nat /\ Len(v) > 2
  <2>1. Form(Now(i)) \in Spellings /\ new \in Paths
    BY <1>1, <1>5, <1>13, FormIs, OldIs
  <2>. HIDE DEF v
  <2>. QED
    BY <1>13, <2>1, SpellingIs
<1>17. done \union {i} \in SUBSET M
  OBVIOUS
<1>18. ASSUME NEW n \in M
       PROVE  n \in done \union {i} <=> \/ Now(n) \notin todo \union key
                                        \/ Now(n) \in key /\ Places(u)[n] < at'
  <2>1. n \in done <=> \/ Now(n) \notin todo \union key
                       \/ Now(n) \in key /\ Places(s)[n] < at
    BY <1>4 DEF Changed
  <2>2. Places(s)[n] \in Nat /\ Places(u)[n] \in Nat /\ n \in 1..Len(orig) /\ i \in 1..Len(orig)
    <3>1. Places(s)[n] \in Nat
      BY <1>1, <1>4, PlacesOfPut
    <3>2. Places(u)[n] \in Nat
      BY <1>1, <1>17, PlacesOfPut
    <3>3. n \in 1..Len(orig) /\ i \in 1..Len(orig)
      BY <1>1, NowIs
    <3>. QED
      BY <3>1, <3>2, <3>3
  <2>3. n \notin done /\ Now(n) \in key => n0 <= Places(s)[n]
    <3>. SUFFICES ASSUME n \notin done, Now(n) \in key
                  PROVE  n0 <= Places(s)[n]
      OBVIOUS
    <3>1. Places(s)[n] \in Ahead(Now(n)) /\ Now(n) = k
      BY <1>1, <1>4, <1>5, StillAhead
    <3>. QED
      BY <1>9, <3>1
  <2>. HIDE DEF s, u, v, M
  <2>4. CASE n = i
    <3>1. Now(n) \in key /\ Places(u)[n] < at'
      BY <1>5, <1>8, <1>10, <1>11, <1>13, <1>14, <1>16, <2>4
    <3>. QED
      BY <2>4, <3>1
  <2>5. CASE n < i
    <3>1. Places(s)[n] < n0 /\ Places(u)[n] = Places(s)[n]
      BY <1>11, <1>14, <2>5 DEF M
    <3>2. Places(u)[n] < at'
      BY <1>8, <1>10, <1>16, <2>2, <3>1
    <3>3. Now(n) \in key => n \in done
      BY <1>8, <2>2, <2>3, <3>1
    <3>4. n # i
      BY <2>2, <2>5
    <3>. QED
      BY <2>1, <3>2, <3>3, <3>4
  <2>6. CASE i < n
    <3>1. n0 < Places(s)[n] /\ n0 + Len(v) <= Places(u)[n]
      BY <1>11, <1>13, <1>14, <2>6 DEF M
    <3>2. ~(Places(u)[n] < at') /\ ~(Places(s)[n] < at)
      BY <1>8, <1>10, <1>16, <2>2, <3>1
    <3>3. n # i
      BY <2>2, <2>6
    <3>. QED
      BY <2>1, <3>2, <3>3
  <2>7. n = i \/ n < i \/ i < n
    BY <2>2
  <2>. QED
    BY <2>4, <2>5, <2>6, <2>7
<1>19. Old' = Old /\ u' = u /\ \A n : Now(n)' = Now(n)
  BY <1>1, PutSame
<1>20. Changed(done \union {i})'
  <2>1. text' = FlattenSeq(u')
    BY <1>15, <1>19
  <2>. QED
    BY <1>1, <1>18, <1>19, <2>1 DEF Changed
<1>. QED
  <2>1. \E d \in SUBSET M' : Changed(d)'
    BY <1>1, <1>20
  <2>. QED
    BY <1>1, <1>3, <1>5, <1>19, <2>1 DEF TextInv, Fitting

(* Nothing is done when a run begins.                                      *)
LEMMA TextRun ==
    ASSUME SubstitutionInv, NEW p \in Paths, Run(p),
           NEW values \in {BuiltValues(new), NewValues(new)}, asked' = values
    PROVE  TextInv'
<1>. DEFINE M == Mentioned(orig, built)
            how(n) == How(orig, built, n)
            now(n) == IF runs = 0 THEN how(n) ELSE Form(how(n))
            w == [n \in DOMAIN orig |-> Spelled(new, now(n))]
            c == [n \in DOMAIN orig |-> Replacement(new, how(n))]
<1>1. /\ pc = "idle" /\ new \in Fitting /\ built \in Fitting /\ runs \in Nat
      /\ UNCHANGED <<built, orig, text, binary>> /\ pc' = "text"
      /\ todo' = Spellings /\ key' = {} /\ at' = 1 /\ runs' = runs + 1
  BY DEF Run, SubstitutionInv, TypeInv, TypeOK
<1>2. /\ orig \in Seq(Char) /\ \A q \in Paths : Mentions(orig, q) => Mentions(q, built)
      /\ runs = 0 => new = built /\ text = orig
      /\ runs > 0 => text = Substituted(orig, built, new)
  BY <1>1 DEF SubstitutionInv, TextInv
<1>3. Old' = new
  <2>1. Normal(Answer(values)) = new
    BY <1>1, AnswerIs
  <2>. QED
    BY <2>1 DEF Old
<1>4. \A n : Now(n)' = now(n)
  BY <1>1 DEF Now
<1>5. built \in Paths /\ new \in Paths
  BY <1>1 DEF Fitting
<1>6. ASSUME NEW n \in M
      PROVE  /\ n \in DOMAIN orig /\ how(n) \in Spellings /\ now(n) \in Spellings
             /\ c[n] = Spelled(new, Form(how(n))) /\ w[n] = Spelled(new, now(n))
  <2>1. n \in 1..Len(orig) /\ how(n) \in Spellings
    BY <1>2, <1>5, MentionedIs
  <2>2. n \in DOMAIN orig
    BY <1>2, <2>1
  <2>3. Form(how(n)) \in Spellings /\ Replacement(new, how(n)) = Spelled(new, Form(how(n)))
    BY <2>1, FormIs
  <2>4. now(n) \in Spellings
    BY <2>1, <2>3
  <2>. HIDE DEF how, now
  <2>. QED
    BY <2>1, <2>2, <2>3, <2>4
<1>7. Put({})' = Cut(orig, built, w)
  <2>1. Put({})' = Cut(orig', built', [n \in DOMAIN orig' |->
            IF n \in {} THEN Replacement(new', Now(n)') ELSE Spelled(Old', Now(n)')])
    BY DEF Put
  <2>. HIDE DEF now
  <2>2. [n \in DOMAIN orig' |->
            IF n \in {} THEN Replacement(new', Now(n)') ELSE Spelled(Old', Now(n)')] = w
    BY <1>1, <1>3, <1>4
  <2>. QED
    BY <1>1, <2>1, <2>2
<1>8. text = FlattenSeq(Cut(orig, built, w))
  <2>1. CASE runs = 0
    <3>1. \A n \in M : w[n] = Spelled(built, How(orig, built, n))
      BY <1>2, <1>6, <2>1
    <3>2. \A n \in M : w[n] \in Seq(Char)
      BY <1>5, <1>6, SpellingIs
    <3>. HIDE DEF w
    <3>3. Rendered(orig, Cut(orig, built, w))
      BY <1>2, <1>5, <3>1, CutRendered
    <3>4. Cut(orig, built, w) \in Seq(Seq(Char))
      BY <1>2, <1>5, <3>2, CutIs
    <3>5. Rendered(FlattenSeq(Cut(orig, built, w)), Cut(orig, built, w))
      BY <3>4, FlattenRendered
    <3>6. orig = FlattenSeq(Cut(orig, built, w))
      BY <3>3, <3>4, <3>5, RenderedOnce
    <3>. QED
      BY <1>2, <2>1, <3>6
  <2>2. CASE runs # 0
    <3>1. \A n \in M : w[n] = c[n]
      BY <1>6, <2>2
    <3>2. Substituted(orig, built, new) = FlattenSeq(Cut(orig, built, c))
      BY DEF Substituted
    <3>. HIDE DEF w, c
    <3>3. Cut(orig, built, w) = Cut(orig, built, c)
      BY <3>1 DEF Cut
    <3>4. runs > 0
      BY <1>1, <2>2
    <3>. QED
      BY <1>2, <3>2, <3>3, <3>4
  <2>. QED
    BY <2>1, <2>2
<1>9. Changed({})'
  <2>1. text' = FlattenSeq(Put({})')
    BY <1>1, <1>7, <1>8
  <2>2. \A n \in M : Now(n)' \in todo' \union key' /\ Now(n)' \notin key'
    <3>. HIDE DEF now
    <3>. QED
      BY <1>1, <1>4, <1>6
  <2>3. M' = M
    BY <1>1
  <2>. HIDE DEF M
  <2>. QED
    BY <2>1, <2>2, <2>3 DEF Changed, M
<1>. QED
  <2>1. \E d \in SUBSET M' : Changed(d)'
    BY <1>9
  <2>2. runs' # 0 /\ (runs' = 1 => Old' = built') /\ Old' \in Fitting
    BY <1>1, <1>2, <1>3
  <2>3. \A q \in Paths : Mentions(orig', q) => Mentions(q, built')
    BY <1>1, <1>2
  <2>4. {"single", "double"} \subseteq todo' /\ key' \intersect todo' = {}
    BY <1>1 DEF Spellings
  <2>. QED
    BY <1>1, <1>2, <2>1, <2>2, <2>3, <2>4 DEF TextInv, Fitting

(* The text as it was built.                                               *)
LEMMA TextInit ==
    ASSUME Init
    PROVE  TextInv
<1>1. built \in Paths /\ orig \in Texts(built)
  BY DEF Init
<1>2. orig \in Seq(Char)
  BY <1>1, SubstitutionAssumption
<1>. QED
  BY <1>2 DEF Init, TextInv

(* In the other steps the text stays, and is not at work.                  *)
LEMMA TextStays ==
    ASSUME TextInv, pc # "text", pc' # "text", UNCHANGED <<built, orig, text, new, runs>>
    PROVE  TextInv'
BY DEF TextInv

-----------------------------------------------------------------------------
(* The theorems.                                                           *)

(* The invariant, initially and after each action.                         *)
LEMMA InitHolds ==
    ASSUME Init
    PROVE  SubstitutionInv
<1>1. built \in Fitting /\ new = built /\ binary = Binary(built)
  BY DEF Init, Fitting
<1>2. Rightly(Binary(built), BuiltValues(built))
  BY <1>1, BuiltIs
<1>3. binary \in Seq(Char) /\ Layout(binary, BuiltValues(new))
  BY <1>1, <1>2 DEF Rightly
<1>4. text \in Seq(Char)
  BY SubstitutionAssumption DEF Init
<1>5. TypeOK
  <2>1. Buffer = binary /\ Len(binary) \in Nat
    BY <1>3 DEF Init, Buffer
  <2>2. MaxRuns \in Nat
    BY SubstitutionAssumption
  <2>. QED
    BY <1>1, <2>1, <2>2 DEF Init, TypeOK, Fitting
<1>6. TypeInv
  BY <1>1, <1>3, <1>4, <1>5 DEF TypeInv, Init
<1>7. BinaryInv
  BY <1>3 DEF BinaryInv, Init
<1>. QED
  BY <1>6, <1>7, TextInit DEF SubstitutionInv

LEMMA RunKeeps ==
    ASSUME SubstitutionInv, NEW p \in Paths, Run(p)
    PROVE  SubstitutionInv'
<1>1. p \in Fitting
  BY DEF Run, Fitting
<1>2. /\ pc = "idle" /\ new \in Fitting /\ binary \in Seq(Char) /\ text \in Seq(Char)
      /\ UNCHANGED <<built, orig, text, binary>> /\ new' = p /\ pc' = "text"
      /\ todo' = Spellings /\ key' = {} /\ at' = 1 /\ runs' = runs + 1 /\ runs < MaxRuns
      /\ runs \in Nat /\ built \in Fitting
  BY DEF Run, SubstitutionInv, TypeInv, TypeOK
<1>3. PICK values \in {BuiltValues(new), NewValues(new)} : Layout(binary, values)
  BY <1>2 DEF SubstitutionInv, BinaryInv
<1>4. Rightly(binary, values)
  BY <1>2, <1>3, ValuesAreValued DEF Rightly
<1>5. asked' = values
  <2>1. asked' = [k \in DOMAIN Params |-> Reads(binary, k)]
    BY DEF Run, OldValues
  <2>2. \A k \in DOMAIN Params : Reads(binary, k) = values[k]
    BY <1>4, ReadsIs
  <2>3. values = [k \in DOMAIN Params |-> values[k]]
    BY DEF BuiltValues, NewValues
  <2>. QED
    BY <2>1, <2>2, <2>3
<1>6. TypeInv'
  <2>1. Buffer' = text /\ Len(text) \in Nat
    BY <1>2 DEF Buffer
  <2>2. runs' \in 0..MaxRuns
    BY <1>2, SubstitutionAssumption
  <2>3. TypeOK'
    BY <1>1, <1>2, <2>1, <2>2 DEF TypeOK, Fitting
  <2>. QED
    BY <1>1, <1>2, <2>3 DEF TypeInv
<1>7. BinaryInv'
  <2>1. Layout(binary', asked')
    BY <1>2, <1>3, <1>5
  <2>2. runs' > 0
    BY <1>2
  <2>3. \E q \in Fitting : asked' \in {BuiltValues(q), NewValues(q)}
    BY <1>2, <1>5
  <2>. QED
    BY <1>2, <2>1, <2>2, <2>3 DEF BinaryInv
<1>. QED
  BY <1>5, <1>6, <1>7, TextRun DEF SubstitutionInv

LEMMA NextEntryKeeps ==
    ASSUME SubstitutionInv, NextEntry
    PROVE  SubstitutionInv'
<1>1. PICK k \in todo : key' = {k} /\ todo' = todo \ {k}
  BY DEF NextEntry, Foremost
<1>2. /\ pc # "idle" /\ Exhausted /\ at' = 1
      /\ UNCHANGED <<built, orig, text, binary, asked, new, pc, runs>>
  BY DEF NextEntry
<1>3. TypeInv'
  <2>1. Buffer' = Buffer /\ Buffer \in Seq(Char)
    BY <1>2 DEF Buffer, SubstitutionInv, TypeInv
  <2>2. at' \in 1..(Len(Buffer') + 1)
    BY <1>2, <2>1
  <2>3. TypeOK'
    BY <1>1, <1>2, <2>2 DEF TypeOK, SubstitutionInv, TypeInv
  <2>. QED
    BY <1>1, <1>2, <2>3 DEF TypeInv, SubstitutionInv
<1>4. CASE pc = "text"
  <2>1. BinaryInv'
    BY <1>2, <1>4 DEF BinaryInv, SubstitutionInv
  <2>. QED
    BY <1>3, <1>4, <2>1, TextNext DEF SubstitutionInv
<1>5. CASE pc = "bin"
  <2>1. ASSUME NEW l \in DOMAIN Params
        PROVE  Replaced'[l] = Replaced[l]
    <3>1. Replaced'[l] = IF l \in todo THEN asked[l] ELSE NewValue(l, new)
      BY <1>1, <1>2 DEF Replaced
    <3>2. CASE l \in todo
      BY <3>1, <3>2 DEF Replaced
    <3>3. CASE l \notin todo
      BY <1>2, <1>5, <3>1, <3>3, ExhaustedIs
    <3>. QED
      BY <3>2, <3>3
  <2>2. Layout(binary', Replaced')
    BY <1>2, <1>5, <2>1 DEF Layout, SubstitutionInv, BinaryInv
  <2>3. BinaryInv'
    BY <1>1, <1>2, <1>5, <2>2 DEF BinaryInv, SubstitutionInv
  <2>4. TextInv'
    BY <1>2, <1>5, TextStays DEF SubstitutionInv
  <2>. QED
    BY <1>3, <2>3, <2>4 DEF SubstitutionInv
<1>. QED
  BY <1>2, <1>4, <1>5 DEF SubstitutionInv, TypeInv, TypeOK

LEMMA EndsKeep ==
    ASSUME SubstitutionInv, TextEnds \/ BinaryEnds
    PROVE  SubstitutionInv'
<1>1. binary \in Seq(Char) /\ Len(binary) \in Nat
  BY DEF SubstitutionInv, TypeInv
<1>2. CASE TextEnds
  <2>1. TypeInv'
    BY <1>1, <1>2 DEF TextEnds, TypeInv, TypeOK, SubstitutionInv, Buffer
  <2>2. Layout(binary, asked)
    BY <1>2 DEF TextEnds, SubstitutionInv, BinaryInv
  <2>3. \A k \in DOMAIN Params : Replaced'[k] = asked[k]
    BY <1>2 DEF TextEnds, Replaced
  <2>4. Layout(binary', Replaced')
    BY <1>2, <2>2, <2>3 DEF TextEnds, Layout
  <2>5. BinaryInv'
    BY <1>2, <2>4 DEF TextEnds, SubstitutionInv, BinaryInv
  <2>. QED
    BY <1>2, <2>1, <2>5, TextDone DEF SubstitutionInv
<1>3. CASE BinaryEnds
  <2>1. TypeInv'
    BY <1>3 DEF BinaryEnds, TypeInv, TypeOK, SubstitutionInv, Buffer
  <2>2. \A k \in DOMAIN Params : Replaced[k] = NewValues(new)[k]
    BY <1>3, ExhaustedIs DEF BinaryEnds, NewValues
  <2>3. Layout(binary, Replaced)
    BY <1>3 DEF BinaryEnds, SubstitutionInv, BinaryInv
  <2>4. Layout(binary', NewValues(new'))
    BY <1>3, <2>2, <2>3 DEF BinaryEnds, Layout
  <2>5. runs' > 0 /\ runs \in Nat /\ runs' = runs
    BY <1>3 DEF BinaryEnds, SubstitutionInv, BinaryInv, TypeInv, TypeOK
  <2>6. runs' # 0
    BY <2>5
  <2>7. BinaryInv'
    BY <1>3, <2>4, <2>6 DEF BinaryEnds, BinaryInv
  <2>8. TextInv'
    BY <1>3, TextStays DEF BinaryEnds, SubstitutionInv
  <2>. QED
    BY <2>1, <2>7, <2>8 DEF SubstitutionInv
<1>. QED
  BY <1>2, <1>3

LEMMA ReplacingKeeps ==
    ASSUME SubstitutionInv, ReplaceInText \/ ReplaceInBinary
    PROVE  SubstitutionInv'
<1>1. CASE ReplaceInText
  <2>1. /\ pc = "text" /\ UNCHANGED <<built, orig, binary, asked, new, pc, todo, key, runs>>
    BY <1>1 DEF ReplaceInText
  <2>2. text' \in Seq(Char) /\ at' \in 1..(Len(text') + 1)
    BY <1>1, ReplaceText
  <2>3. TypeInv'
    BY <2>1, <2>2 DEF TypeInv, TypeOK, SubstitutionInv, Buffer
  <2>4. BinaryInv'
    BY <2>1 DEF BinaryInv, SubstitutionInv
  <2>. QED
    BY <1>1, <2>3, <2>4, TextReplaced DEF SubstitutionInv
<1>2. CASE ReplaceInBinary
  <2>1. /\ pc = "bin" /\ UNCHANGED <<built, orig, text, asked, new, pc, todo, key, runs>>
    BY <1>2 DEF ReplaceInBinary
  <2>2. /\ binary' \in Seq(Char) /\ Layout(binary', Replaced')
        /\ at' \in 1..(Len(binary') + 1)
        /\ \A k \in key : at' > (k - 1) * Width + 1
    BY <1>2, ReplaceBinary DEF Offset
  <2>3. TypeInv'
    BY <2>1, <2>2 DEF TypeInv, TypeOK, SubstitutionInv, Buffer
  <2>4. BinaryInv'
    BY <2>1, <2>2 DEF BinaryInv, SubstitutionInv
  <2>5. TextInv'
    BY <2>1, TextStays DEF SubstitutionInv
  <2>. QED
    BY <2>3, <2>4, <2>5 DEF SubstitutionInv
<1>. QED
  BY <1>1, <1>2

LEMMA StutterKeeps ==
    ASSUME SubstitutionInv, UNCHANGED vars
    PROVE  SubstitutionInv'
<1>1. TypeInv' /\ BinaryInv'
  BY DEF SubstitutionInv, TypeInv, TypeOK, BinaryInv, Replaced, Buffer, vars
<1>2. UNCHANGED <<built, orig, text, asked, new, pc, todo, key, at, runs>>
  BY DEF vars
<1>3. /\ Old' = Old /\ \A done : Put(done)' = Put(done)
      /\ \A n : Now(n)' = Now(n)
  BY <1>2, PutSame
<1>4. \A done : Changed(done)' <=> Changed(done)
  BY <1>2, <1>3 DEF Changed
<1>5. TextInv'
  BY <1>2, <1>3, <1>4 DEF SubstitutionInv, TextInv, Fitting
<1>. QED
  BY <1>1, <1>5 DEF SubstitutionInv

(* TypeInv, BinaryInv and TextInv are inductive.                           *)
THEOREM InvariantHolds == Spec => []SubstitutionInv
<1>1. Init => SubstitutionInv
  BY InitHolds
<1>2. SubstitutionInv /\ [Next]_vars => SubstitutionInv'
  BY RunKeeps, NextEntryKeeps, EndsKeep, ReplacingKeeps, StutterKeeps DEF Next, PatchStep
<1>. QED
  BY <1>1, <1>2, PTL DEF Spec

(* After any number of runs, for paths that get longer and shorter, the    *)
(* values of a binary name the present path, each in its own room, with    *)
(* zeros behind it: patch_bin_file.                                        *)
THEOREM BinaryAlwaysFollows == Spec => []BinaryFollows
<1>1. ASSUME SubstitutionInv
      PROVE  BinaryFollows
  <2>. SUFFICES ASSUME pc = "idle"
                PROVE  [n \in DOMAIN binary |->
                          IF binary[n] = Backslash THEN Slash ELSE binary[n]] = Binary(new)
    BY DEF BinaryFollows
  <2>1. PICK values \in {BuiltValues(new), NewValues(new)} : Layout(binary, values)
    BY <1>1 DEF SubstitutionInv, BinaryInv
  <2>2. new \in Fitting /\ binary \in Seq(Char)
    BY <1>1 DEF SubstitutionInv, TypeInv
  <2>3. Rightly(binary, values)
    BY <2>1, <2>2, ValuesAreValued DEF Rightly
  <2>. QED
    BY <2>2, <2>3, FollowsIs
<1>. QED
  BY <1>1, InvariantHolds, PTL

(* After any number of runs, for paths that get longer and shorter and may *)
(* contain one another, a text is the one that was built, with the present *)
(* path in each place where the first one was, in the spelling that place  *)
(* gets: patch_text_file does spelling by spelling, and run by run, what   *)
(* replacing all of them at once would do.                                 *)
THEOREM TextAlwaysFollows == Spec => []TextFollows
<1>1. SubstitutionInv => TextFollows
  BY DEF SubstitutionInv, TextInv, TextFollows
<1>. QED
  BY <1>1, InvariantHolds, PTL

(* Each replacement in a text leaves less of it to be searched: the loop   *)
(* of patch_text_file ends, whatever the paths.                            *)
THEOREM SearchAlwaysShrinks == Spec => SearchShrinks
<1>1. ASSUME SubstitutionInv, [Next]_vars
      PROVE  [pc = "text" /\ UNCHANGED <<pc, todo>> => Len(text') - at' < Len(text) - at]_vars
  <2>. SUFFICES ASSUME pc = "text", pc' = pc, todo' = todo, vars' # vars
                PROVE  Len(text') - at' < Len(text) - at
    OBVIOUS
  <2>1. ~NextEntry
    <3>1. Foremost(todo) \subseteq todo
      BY DEF Foremost
    <3>2. NextEntry => \E k \in Foremost(todo) : todo' = todo \ {k}
      BY DEF NextEntry
    <3>. QED
      BY <3>1, <3>2
  <2>2. ReplaceInText
    BY <1>1, <2>1 DEF Next, PatchStep, Run, TextEnds, BinaryEnds, ReplaceInBinary
  <2>. QED
    BY <1>1, <2>2, ReplaceText
<1>. QED
  BY <1>1, InvariantHolds, PTL DEF Spec, SearchShrinks
=============================================================================
