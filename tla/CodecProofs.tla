---------------------------- MODULE CodecProofs ----------------------------
(***************************************************************************)
(* Proofs about Codec, for every base and width.  Induction over the bytes *)
(* is by the set of the positions for which the claim holds.               *)
(***************************************************************************)
EXTENDS Codec, WellFoundedInduction, TLAPS

-----------------------------------------------------------------------------
(***************************************************************************)
(* Arithmetic.                                                             *)
(***************************************************************************)
\* A nonempty set of numbers has a least element.
LEMMA Least ==
  ASSUME NEW S, S \subseteq Nat, S # {}
  PROVE  \E m \in S : \A n \in S : m <= n
<1> DEFINE R == OpToRel(<, Nat)
<1>1. IsWellFoundedOn(R, Nat)
  BY NatLessThanWellFounded
<1> HIDE DEF R
<1>2. PICK m \in S : \A n \in S : <<n, m>> \notin R
  BY <1>1, WFMin
<1>3. ASSUME NEW n \in S PROVE m <= n
  <2>1. m \in Nat /\ n \in Nat
    OBVIOUS
  <2>2. ~(n < m)
    BY <1>2, <2>1 DEF R, OpToRel
  <2> QED
    BY <2>1, <2>2
<1> QED
  BY <1>3

\* Induction: a set that has 0, and with each number its successor, up to n, has
\* them all.
LEMMA Induct ==
  ASSUME NEW n \in Nat, NEW S, 0 \in S, \A i \in 0 .. n - 1 : i \in S => i + 1 \in S
  PROVE  \A i \in 0 .. n : i \in S
<1> DEFINE Bad == (0 .. n) \ S
<1> SUFFICES ASSUME Bad # {} PROVE FALSE
  OBVIOUS
<1>1. Bad \subseteq Nat
  OBVIOUS
<1> HIDE DEF Bad
<1>2. PICK m \in Bad : \A k \in Bad : m <= k
  BY <1>1, Least
<1>3. m \in 0 .. n /\ m # 0
  BY DEF Bad
<1>4. m - 1 \in 0 .. n - 1 /\ m - 1 \notin Bad
  BY <1>1, <1>2, <1>3
<1> QED
  BY <1>3, <1>4 DEF Bad

\* Quotient and remainder.
LEMMA DivMod ==
  ASSUME NEW a \in Nat, NEW b \in Nat \ {0}
  PROVE  /\ a \div b \in Nat
         /\ a % b \in Nat /\ a % b < b
         /\ a = b * (a \div b) + (a % b)
<1>1. a \div b \in Nat
  OBVIOUS
<1>2. a % b \in Nat /\ a % b < b
  OBVIOUS
<1>3. a = b * (a \div b) + (a % b)
  OBVIOUS
<1> QED
  BY <1>1, <1>2, <1>3

\* They are the only ones.
LEMMA DivUnique ==
  ASSUME NEW a \in Nat, NEW b \in Nat \ {0}, NEW q \in Nat, NEW r \in Nat,
         r < b, a = b * q + r
  PROVE  a \div b = q /\ a % b = r
OBVIOUS

\* Dividing twice is dividing by the product.
LEMMA DivDiv ==
  ASSUME NEW u \in Nat, NEW p \in Nat \ {0}, NEW b \in Nat \ {0}
  PROVE  (u \div p) \div b = u \div (b * p)
<1> DEFINE q == u \div p
           r == u % p
           s == q \div b
           t == q % b
<1>1. q \in Nat /\ r \in Nat /\ r < p /\ u = p * q + r
  BY DivMod
<1>2. s \in Nat /\ t \in Nat /\ t < b /\ q = b * s + t
  BY <1>1, DivMod
<1> HIDE DEF q, r, s, t
<1>3. u = (b * p) * s + (p * t + r)
  <2>1. p * (b * s + t) = (b * p) * s + p * t
    BY <1>1, <1>2
  <2> QED
    BY <1>1, <1>2, <2>1
<1>4. p * t + r < b * p /\ p * t + r \in Nat
  <2>1. p * (t + 1) <= p * b
    BY <1>2
  <2>2. p * (t + 1) = p * t + p /\ p * b = b * p
    BY <1>2
  <2>3. p * t \in Nat /\ b * p \in Nat
    BY <1>2
  <2> QED
    BY <1>1, <2>1, <2>2, <2>3
<1>5. b * p \in Nat \ {0}
  OBVIOUS
<1>6. u \div (b * p) = s
  BY <1>2, <1>3, <1>4, <1>5, DivUnique
<1> QED
  BY <1>6 DEF s, q

\* Division keeps the order.
LEMMA DivMono ==
  ASSUME NEW u \in Nat, NEW v \in Nat, NEW p \in Nat \ {0}, u <= v
  PROVE  u \div p <= v \div p
<1> DEFINE q == u \div p
           s == v \div p
           r == u % p
           t == v % p
<1>1. q \in Nat /\ r \in Nat /\ r < p /\ u = p * q + r
  BY DivMod
<1>2. s \in Nat /\ t \in Nat /\ t < p /\ v = p * s + t
  BY DivMod
<1> HIDE DEF q, r, s, t
<1>3. SUFFICES ASSUME s + 1 <= q PROVE FALSE
  BY <1>1, <1>2 DEF q, s
<1>4. p * (s + 1) <= p * q /\ p * (s + 1) = p * s + p
  BY <1>1, <1>2, <1>3
<1> QED
  BY <1>1, <1>2, <1>4

\* A product of positive numbers is one.
LEMMA Positive ==
  ASSUME NEW p \in Nat \ {0}
  PROVE  Base * p \in Nat \ {0}
BY CodecAssumption

-----------------------------------------------------------------------------
(***************************************************************************)
(* The recursive functions.                                                *)
(***************************************************************************)
\* f goes from c on as Horner's rule says, for the digits b, up to n.
Horner(f, b, c, n) ==
  /\ f \in [0 .. n -> Nat] /\ f[0] = c
  /\ \A i \in 1 .. n : f[i] = Base * f[i - 1] + b[i]

\* Each step gives a number.
LEMMA NextNat ==
  ASSUME NEW x \in Nat, NEW d \in Nat
  PROVE  Base * x + d \in Nat
<1>1. Base * x \in Nat
  BY CodecAssumption
<1> QED
  BY <1>1

\* A function that goes up to n - 1 can be continued to n.
LEMMA HornerStep ==
  ASSUME NEW b \in [1 .. Width -> Nat], NEW c \in Nat, NEW n \in 1 .. Width,
         NEW g, Horner(g, b, c, n - 1)
  PROVE  \E f : Horner(f, b, c, n)
<1> USE CodecAssumption
<1> DEFINE f == [i \in 0 .. n |-> IF i = n THEN Base * g[n - 1] + b[n] ELSE g[i]]
<1>1. Base * g[n - 1] + b[n] \in Nat
  <2>1. g[n - 1] \in Nat /\ b[n] \in Nat
    BY DEF Horner
  <2> QED
    BY <2>1, NextNat
<1>2. ASSUME NEW i \in 0 .. n PROVE f[i] \in Nat
  <2>1. CASE i = n
    BY <1>1, <2>1
  <2>2. CASE i # n
    <3>1. i \in 0 .. n - 1
      BY <2>2
    <3> QED
      BY <2>2, <3>1 DEF Horner
  <2> QED
    BY <2>1, <2>2
<1>3. f \in [0 .. n -> Nat]
  BY <1>2
<1>4. f[0] = c
  <2>1. 0 \in 0 .. n /\ 0 # n
    OBVIOUS
  <2> QED
    BY <2>1 DEF Horner
<1>5. ASSUME NEW i \in 1 .. n PROVE f[i] = Base * f[i - 1] + b[i]
  <2>1. i \in 0 .. n /\ i - 1 \in 0 .. n /\ i - 1 # n
    OBVIOUS
  <2>2. f[i - 1] = g[i - 1]
    BY <2>1
  <2>3. CASE i = n
    BY <2>1, <2>2, <2>3
  <2>4. CASE i # n
    <3>1. i \in 1 .. n - 1
      BY <2>4
    <3>2. f[i] = g[i]
      BY <2>1, <2>4
    <3>3. g[i] = Base * g[i - 1] + b[i]
      BY <3>1 DEF Horner
    <3> QED
      BY <2>2, <3>2, <3>3
  <2> QED
    BY <2>3, <2>4
<1> HIDE DEF f
<1>6. Horner(f, b, c, n)
  BY <1>3, <1>4, <1>5 DEF Horner
<1> QED
  BY <1>6

\* There is such a function for all the bytes.
LEMMA HornerExists ==
  ASSUME NEW b \in [1 .. Width -> Nat], NEW c \in Nat
  PROVE  \E f : Horner(f, b, c, Width)
<1> USE CodecAssumption
<1> DEFINE S == {n \in 0 .. Width : \E f : Horner(f, b, c, n)}
<1>1. 0 \in S
  <2> DEFINE f == [i \in 0 .. 0 |-> c]
  <2>1. Horner(f, b, c, 0)
    BY DEF Horner
  <2> QED
    BY <2>1
<1>2. ASSUME NEW n \in 0 .. Width - 1, n \in S PROVE n + 1 \in S
  <2>1. PICK g : Horner(g, b, c, n)
    BY <1>2
  <2>2. n + 1 \in 1 .. Width /\ (n + 1) - 1 = n
    OBVIOUS
  <2>3. \E f : Horner(f, b, c, n + 1)
    BY <2>1, <2>2, HornerStep
  <2> QED
    BY <2>2, <2>3
<1>3. Width \in 0 .. Width
  OBVIOUS
<1> HIDE DEF S
<1>4. Width \in S
  BY <1>1, <1>2, <1>3, Induct
<1> QED
  BY <1>4 DEF S

\* A function that is defined by the recursion is such a function.
LEMMA HornerRecursion ==
  ASSUME NEW b \in [1 .. Width -> Nat], NEW c \in Nat
  PROVE  \E f : /\ Horner(f, b, c, Width)
                /\ f = [i \in 0 .. Width |-> IF i = 0 THEN c ELSE Base * f[i - 1] + b[i]]
<1> USE CodecAssumption
<1>1. PICK f : Horner(f, b, c, Width)
  BY HornerExists
<1> DEFINE h == [i \in 0 .. Width |-> IF i = 0 THEN c ELSE Base * f[i - 1] + b[i]]
<1>2. ASSUME NEW i \in 0 .. Width PROVE f[i] = h[i]
  <2>1. CASE i = 0
    BY <1>1, <2>1 DEF Horner
  <2>2. CASE i # 0
    <3>1. i \in 1 .. Width
      BY <2>2
    <3> QED
      BY <1>1, <2>2, <3>1 DEF Horner
  <2> QED
    BY <2>1, <2>2
<1>3. f \in [0 .. Width -> Nat]
  BY <1>1 DEF Horner
<1>4. DOMAIN f = 0 .. Width /\ f = [i \in DOMAIN f |-> f[i]]
  BY <1>3
<1>5. f = h
  BY <1>2, <1>4
<1> QED
  BY <1>1, <1>5

\* A function that satisfies the recursion obeys Horner's rule.
LEMMA RecursionIsHorner ==
  ASSUME NEW b \in [1 .. Width -> Nat], NEW c \in Nat, NEW f,
         f = [i \in 0 .. Width |-> IF i = 0 THEN c ELSE Base * f[i - 1] + b[i]]
  PROVE  Horner(f, b, c, Width)
<1> USE CodecAssumption
<1>1. f[0] = c
  <2>1. 0 \in 0 .. Width
    OBVIOUS
  <2> QED
    BY <2>1
<1>2. ASSUME NEW i \in 1 .. Width PROVE f[i] = Base * f[i - 1] + b[i]
  <2>1. i \in 0 .. Width /\ i # 0
    OBVIOUS
  <2> QED
    BY <2>1
<1> DEFINE S == {i \in 0 .. Width : f[i] \in Nat}
<1>3. 0 \in S
  BY <1>1
<1>4. ASSUME NEW n \in 0 .. Width - 1, n \in S PROVE n + 1 \in S
  <2>1. n + 1 \in 1 .. Width /\ (n + 1) - 1 = n /\ n + 1 \in 0 .. Width
    OBVIOUS
  <2>2. f[n] \in Nat /\ b[n + 1] \in Nat
    BY <1>4, <2>1
  <2>3. Base * f[n] + b[n + 1] \in Nat
    BY <2>2, NextNat, Zenon
  <2>4. f[n + 1] = Base * f[n] + b[n + 1]
    BY <1>2, <2>1
  <2>5. f[n + 1] \in Nat
    BY <2>3, <2>4, Zenon
  <2> QED
    BY <2>1, <2>5
<1> HIDE DEF S
<1>5. \A i \in 0 .. Width : i \in S
  BY <1>3, <1>4, Induct
<1>6. \A i \in 0 .. Width : f[i] \in Nat
  BY <1>5 DEF S
<1>7. f \in [0 .. Width -> Nat]
  BY <1>6
<1> QED
  BY <1>1, <1>2, <1>7 DEF Horner

\* Horner's rule leaves no choice.
LEMMA HornerUnique ==
  ASSUME NEW b, NEW c, NEW f, NEW g, Horner(f, b, c, Width), Horner(g, b, c, Width)
  PROVE  \A i \in 0 .. Width : f[i] = g[i]
<1> USE CodecAssumption
<1> DEFINE S == {i \in 0 .. Width : f[i] = g[i]}
<1>1. 0 \in S
  BY DEF Horner
<1>2. ASSUME NEW n \in 0 .. Width - 1, n \in S PROVE n + 1 \in S
  <2>1. n + 1 \in 1 .. Width /\ (n + 1) - 1 = n /\ n + 1 \in 0 .. Width
    OBVIOUS
  <2>2. f[n + 1] = Base * f[n] + b[n + 1] /\ g[n + 1] = Base * g[n] + b[n + 1]
    BY <2>1 DEF Horner
  <2>3. f[n] = g[n]
    BY <1>2
  <2> QED
    BY <2>1, <2>2, <2>3
<1> HIDE DEF S
<1>3. \A i \in 0 .. Width : i \in S
  BY <1>1, <1>2, Induct
<1> QED
  BY <1>3 DEF S

\* bytesToUint64 is what Horner's rule gives.
LEMMA Decoded ==
  ASSUME NEW b \in [1 .. Width -> Nat], NEW f, Horner(f, b, 0, Width)
  PROVE  bytesToUint64(b) = f[Width]
<1> USE CodecAssumption
<1> DEFINE val == CHOOSE g : g = [i \in 0 .. Width |-> IF i = 0 THEN 0 ELSE Base * g[i - 1] + b[i]]
<1>1. \E g : g = [i \in 0 .. Width |-> IF i = 0 THEN 0 ELSE Base * g[i - 1] + b[i]]
  <2>1. 0 \in Nat
    OBVIOUS
  <2> QED
    BY <2>1, HornerRecursion, Zenon
<1>2. val = [i \in 0 .. Width |-> IF i = 0 THEN 0 ELSE Base * val[i - 1] + b[i]]
  BY <1>1, Zenon
<1>3. bytesToUint64(b) = val[Width]
  BY Zenon DEF bytesToUint64
<1> HIDE DEF val
<1>4. Horner(val, b, 0, Width)
  BY <1>2, RecursionIsHorner
<1>5. val[Width] = f[Width]
  <2>1. Width \in 0 .. Width
    OBVIOUS
  <2> QED
    BY <1>4, <2>1, HornerUnique
<1> QED
  BY <1>3, <1>5

\* The powers.
LEMMA Pow ==
  /\ \A i \in 0 .. Width : pow[i] \in Nat \ {0}
  /\ pow[0] = 1
  /\ \A i \in 1 .. Width : pow[i] = Base * pow[i - 1]
<1> USE CodecAssumption
<1> DEFINE zero == [i \in 1 .. Width |-> 0]
<1>1. zero \in [1 .. Width -> Nat] /\ \A i \in 1 .. Width : zero[i] = 0
  OBVIOUS
<1> HIDE DEF zero
<1>2. PICK f : Horner(f, zero, 1, Width)
  BY <1>1, HornerExists
<1>3. f \in [0 .. Width -> Nat] /\ f[0] = 1
  BY <1>2 DEF Horner
<1>4. ASSUME NEW i \in 1 .. Width PROVE f[i] = Base * f[i - 1] /\ f[i - 1] \in Nat
  <2>1. f[i] = Base * f[i - 1] + zero[i] /\ i - 1 \in 0 .. Width
    BY <1>2 DEF Horner
  <2>2. f[i - 1] \in Nat /\ zero[i] = 0
    BY <1>1, <1>3, <2>1
  <2>3. Base * f[i - 1] \in Nat
    BY <2>2
  <2> QED
    BY <2>1, <2>2, <2>3
<1> DEFINE h == [i \in 0 .. Width |-> IF i = 0 THEN 1 ELSE Base * f[i - 1]]
<1>5. ASSUME NEW i \in 0 .. Width PROVE f[i] = h[i]
  BY <1>3, <1>4
<1>6. f = h
  <2>1. f = [i \in 0 .. Width |-> f[i]]
    BY <1>3
  <2> QED
    BY <1>5, <2>1
<1>7. pow = [i \in 0 .. Width |-> IF i = 0 THEN 1 ELSE Base * pow[i - 1]]
  <2>1. \E g : g = [i \in 0 .. Width |-> IF i = 0 THEN 1 ELSE Base * g[i - 1]]
    BY <1>6
  <2> QED
    BY <2>1, Zenon DEF pow
<1> HIDE DEF h, pow
<1>8. pow[0] = 1
  <2>1. 0 \in 0 .. Width
    OBVIOUS
  <2> QED
    BY <1>7, <2>1
<1>9. ASSUME NEW i \in 1 .. Width PROVE pow[i] = Base * pow[i - 1]
  <2>1. i \in 0 .. Width /\ i # 0
    OBVIOUS
  <2> QED
    BY <1>7, <2>1
<1> DEFINE S == {i \in 0 .. Width : pow[i] \in Nat \ {0}}
<1>10. 0 \in S
  BY <1>8
<1>11. ASSUME NEW n \in 0 .. Width - 1, n \in S PROVE n + 1 \in S
  <2>1. n + 1 \in 1 .. Width /\ (n + 1) - 1 = n /\ n + 1 \in 0 .. Width
    OBVIOUS
  <2>2. pow[n + 1] = Base * pow[n]
    BY <1>9, <2>1
  <2>3. pow[n] \in Nat \ {0}
    BY <1>11
  <2>4. Base * pow[n] \in Nat \ {0}
    BY <2>3, Positive
  <2> QED
    BY <2>1, <2>2, <2>4
<1> HIDE DEF S
<1>12. \A i \in 0 .. Width : i \in S
  BY <1>10, <1>11, Induct
<1> QED
  BY <1>8, <1>9, <1>12 DEF S

-----------------------------------------------------------------------------
(***************************************************************************)
(* The conversions.  The value of the first i bytes of u is u without its  *)
(* last Width - i bytes.                                                   *)
(***************************************************************************)
Prefix(u, i) == u \div pow[Width - i]

\* The prefixes are numbers; there is nothing in the empty one, the whole is the
\* number, and a byte is the last one of its prefix.
LEMMA Prefixes ==
  ASSUME NEW u \in Uint
  PROVE  /\ u \in Nat
         /\ \A i \in 0 .. Width : Prefix(u, i) \in Nat
         /\ Prefix(u, 0) = 0 /\ Prefix(u, Width) = u
         /\ \A i \in 1 .. Width :
              /\ uint64ToBytes(u)[i] = Prefix(u, i) % Base
              /\ uint64ToBytes(u)[i] \in 0 .. Base - 1
              /\ Prefix(u, i) = Base * Prefix(u, i - 1) + uint64ToBytes(u)[i]
<1> USE CodecAssumption
<1>1. Width \in 0 .. Width /\ 0 \in 0 .. Width
  OBVIOUS
<1>2. pow[Width] \in Nat \ {0} /\ pow[0] = 1
  BY <1>1, Pow
<1>3. u \in Nat /\ u < pow[Width]
  BY <1>2 DEF Uint
<1>4. ASSUME NEW i \in 0 .. Width PROVE Prefix(u, i) \in Nat
  <2>1. Width - i \in 0 .. Width
    OBVIOUS
  <2>2. pow[Width - i] \in Nat \ {0}
    BY <2>1, Pow
  <2> QED
    BY <1>3, <2>2, DivMod DEF Prefix
<1>5. Prefix(u, 0) = 0
  <2>1. u = pow[Width] * 0 + u
    BY <1>2, <1>3
  <2>2. u \div pow[Width] = 0
    BY <1>2, <1>3, <2>1, DivUnique
  <2>3. Width - 0 = Width
    OBVIOUS
  <2> QED
    BY <2>2, <2>3 DEF Prefix
<1>6. Prefix(u, Width) = u
  <2>1. u = 1 * u + 0
    BY <1>3
  <2>2. u \div 1 = u
    BY <1>3, <2>1, DivUnique
  <2>3. Width - Width = 0
    OBVIOUS
  <2> QED
    BY <1>2, <2>2, <2>3 DEF Prefix
<1>7. ASSUME NEW i \in 1 .. Width
      PROVE  /\ uint64ToBytes(u)[i] = Prefix(u, i) % Base
             /\ uint64ToBytes(u)[i] \in 0 .. Base - 1
             /\ Prefix(u, i) = Base * Prefix(u, i - 1) + uint64ToBytes(u)[i]
  <2> DEFINE q == Prefix(u, i)
             p == pow[Width - i]
  <2>1. uint64ToBytes(u)[i] = q % Base
    BY DEF uint64ToBytes, Prefix
  <2>2. Width - i \in 0 .. Width /\ Width - (i - 1) \in 1 .. Width
        /\ (Width - (i - 1)) - 1 = Width - i
    OBVIOUS
  <2>3. p \in Nat \ {0} /\ pow[Width - (i - 1)] = Base * p
    BY <2>2, Pow
  <2>4. q = u \div p
    BY DEF Prefix
  <2>5. Prefix(u, i - 1) = u \div (Base * p)
    BY <2>3 DEF Prefix
  <2>6. i \in 0 .. Width
    OBVIOUS
  <2>7. q \in Nat
    BY <1>4, <2>6
  <2> HIDE DEF p, q
  <2>8. q \div Base = Prefix(u, i - 1)
    BY <1>3, <2>3, <2>4, <2>5, DivDiv
  <2>9. q % Base \in Nat /\ q % Base < Base /\ q = Base * (q \div Base) + (q % Base)
    BY <2>7, DivMod
  <2>10. q = Base * Prefix(u, i - 1) + uint64ToBytes(u)[i]
    BY <2>1, <2>8, <2>9
  <2>11. uint64ToBytes(u)[i] \in 0 .. Base - 1
    BY <2>1, <2>9
  <2> QED
    BY <2>1, <2>10, <2>11 DEF q
<1> QED
  BY <1>3, <1>4, <1>5, <1>6, <1>7

\* A number is encoded as bytes, and read back as itself.
THEOREM DecodeEncode ==
  ASSUME NEW u \in Uint
  PROVE  uint64ToBytes(u) \in Bytes /\ bytesToUint64(uint64ToBytes(u)) = u
<1> USE CodecAssumption
<1> DEFINE b == uint64ToBytes(u)
<1>1. \A i \in 1 .. Width : b[i] \in 0 .. Base - 1
  BY Prefixes
<1>2. b = [i \in 1 .. Width |-> b[i]]
  BY DEF uint64ToBytes
<1>3. b \in Bytes /\ b \in [1 .. Width -> Nat]
  <2> HIDE DEF b
  <2>1. b \in [1 .. Width -> 0 .. Base - 1]
    BY <1>1, <1>2
  <2> QED
    BY <2>1 DEF Bytes
<1> DEFINE f == [i \in 0 .. Width |-> Prefix(u, i)]
<1>4. Horner(f, b, 0, Width)
  <2>1. f \in [0 .. Width -> Nat]
    BY Prefixes
  <2>2. f[0] = 0
    <3>1. 0 \in 0 .. Width
      OBVIOUS
    <3> QED
      BY <3>1, Prefixes
  <2>3. ASSUME NEW i \in 1 .. Width PROVE f[i] = Base * f[i - 1] + b[i]
    <3>1. i \in 0 .. Width /\ i - 1 \in 0 .. Width
      OBVIOUS
    <3>2. f[i] = Prefix(u, i) /\ f[i - 1] = Prefix(u, i - 1)
      BY <3>1
    <3>3. Prefix(u, i) = Base * Prefix(u, i - 1) + b[i]
      BY Prefixes
    <3> QED
      BY <3>2, <3>3
  <2> HIDE DEF f, b
  <2> QED
    BY <2>1, <2>2, <2>3 DEF Horner
<1>5. f[Width] = u
  <2>1. Width \in 0 .. Width
    OBVIOUS
  <2> QED
    BY <2>1, Prefixes
<1> HIDE DEF f, b
<1>6. bytesToUint64(b) = f[Width]
  BY <1>3, <1>4, Decoded
<1> QED
  BY <1>3, <1>5, <1>6 DEF b

\* Numbers with the same first i bytes have the same prefix.
LEMMA SamePrefix ==
  ASSUME NEW u \in Uint, NEW v \in Uint, NEW n \in 0 .. Width,
         \A j \in 1 .. n : uint64ToBytes(u)[j] = uint64ToBytes(v)[j]
  PROVE  Prefix(u, n) = Prefix(v, n)
<1> USE CodecAssumption
<1> DEFINE S == {i \in 0 .. n : Prefix(u, i) = Prefix(v, i)}
<1>1. n \in Nat /\ n \in 0 .. n
  OBVIOUS
<1>2. 0 \in S
  BY Prefixes
<1>3. ASSUME NEW i \in 0 .. n - 1, i \in S PROVE i + 1 \in S
  <2>1. i + 1 \in 1 .. n /\ i + 1 \in 1 .. Width /\ i + 1 \in 0 .. n /\ (i + 1) - 1 = i
    OBVIOUS
  <2>2. uint64ToBytes(u)[i + 1] = uint64ToBytes(v)[i + 1] /\ Prefix(u, i) = Prefix(v, i)
    BY <1>3, <2>1
  <2>3. /\ Prefix(u, i + 1) = Base * Prefix(u, i) + uint64ToBytes(u)[i + 1]
        /\ Prefix(v, i + 1) = Base * Prefix(v, i) + uint64ToBytes(v)[i + 1]
    BY <2>1, Prefixes
  <2>4. Prefix(u, i + 1) = Prefix(v, i + 1)
    BY <2>2, <2>3, Zenon
  <2> QED
    BY <2>1, <2>4
<1> HIDE DEF S
<1>4. n \in S
  BY <1>1, <1>2, <1>3, Induct
<1> QED
  BY <1>4 DEF S

\* A prefix grows with the number.
LEMMA PrefixMono ==
  ASSUME NEW u \in Uint, NEW v \in Uint, NEW i \in 0 .. Width, u <= v
  PROVE  Prefix(u, i) <= Prefix(v, i)
<1>1. Width - i \in 0 .. Width
  BY CodecAssumption
<1>2. pow[Width - i] \in Nat \ {0} /\ u \in Nat /\ v \in Nat
  BY <1>1, Pow, Prefixes
<1> QED
  BY <1>2, DivMono DEF Prefix

\* bytes.Compare orders keys as the numbers are ordered: the least byte in which
\* two keys differ decides.
THEOREM OrderOfBytes ==
  ASSUME NEW u \in Uint, NEW v \in Uint
  PROVE  Less(uint64ToBytes(u), uint64ToBytes(v)) <=> u < v
<1> USE CodecAssumption
<1> DEFINE a == uint64ToBytes(u)
           b == uint64ToBytes(v)
<1>1. u \in Nat /\ v \in Nat
  BY Prefixes
<1>2. ASSUME Less(a, b) PROVE u < v
  <2>1. PICK i \in 1 .. Width : a[i] < b[i] /\ \A j \in 1 .. i - 1 : a[j] = b[j]
    BY <1>2 DEF Less
  <2>2. i \in 0 .. Width /\ i - 1 \in 0 .. Width
    OBVIOUS
  <2>3. Prefix(u, i - 1) = Prefix(v, i - 1)
    BY <2>1, <2>2, SamePrefix
  <2>4. /\ Prefix(u, i) = Base * Prefix(u, i - 1) + a[i]
        /\ Prefix(v, i) = Base * Prefix(v, i - 1) + b[i]
        /\ a[i] \in Nat /\ b[i] \in Nat
    BY Prefixes
  <2>5. Prefix(u, i - 1) \in Nat
    BY <2>2, Prefixes
  <2>6. Base * Prefix(u, i - 1) \in Nat
    BY <2>5
  <2> HIDE DEF a, b
  <2>7. Prefix(u, i) < Prefix(v, i)
    <3> DEFINE c == Base * Prefix(u, i - 1)
    <3>1. Prefix(u, i) = c + a[i] /\ Prefix(v, i) = c + b[i]
      BY <2>3, <2>4
    <3>2. c \in Nat
      BY <2>6
    <3> HIDE DEF c
    <3> QED
      BY <2>1, <2>4, <3>1, <3>2
  <2>8. ~(v <= u)
    <3> SUFFICES ASSUME v <= u PROVE FALSE
      OBVIOUS
    <3>1. Prefix(v, i) <= Prefix(u, i)
      BY <2>2, PrefixMono
    <3>2. Prefix(u, i) \in Nat /\ Prefix(v, i) \in Nat
      BY <2>2, Prefixes
    <3> QED
      BY <2>7, <3>1, <3>2
  <2> QED
    BY <1>1, <2>8
<1>3. ASSUME u < v PROVE Less(a, b)
  <2> DEFINE D == {i \in 0 .. Width : Prefix(u, i) # Prefix(v, i)}
  <2>1. D \subseteq Nat
    OBVIOUS
  <2>2. Width \in D
    <3>1. Width \in 0 .. Width
      OBVIOUS
    <3>2. Prefix(u, Width) = u /\ Prefix(v, Width) = v
      BY Prefixes
    <3> QED
      BY <1>1, <1>3, <3>1, <3>2
  <2> HIDE DEF D
  <2>3. PICK i \in D : \A j \in D : i <= j
    BY <2>1, <2>2, Least
  <2>4. i \in 0 .. Width /\ Prefix(u, i) # Prefix(v, i)
    BY DEF D
  <2>5. i # 0
    BY <2>4, Prefixes
  <2>6. ASSUME NEW j \in 0 .. i - 1 PROVE Prefix(u, j) = Prefix(v, j)
    <3>1. j \in 0 .. Width /\ j \in Nat /\ i \in Nat /\ ~(i <= j)
      BY <2>4
    <3>2. j \notin D
      BY <2>3, <3>1
    <3> QED
      BY <3>1, <3>2 DEF D
  <2>7. i \in 1 .. Width /\ i - 1 \in 0 .. i - 1 /\ i - 1 \in 0 .. Width
    BY <2>4, <2>5
  <2>8. ASSUME NEW j \in 1 .. i - 1 PROVE a[j] = b[j]
    <3>1. j \in 0 .. i - 1 /\ j \in 1 .. Width
      BY <2>7
    <3>2. Prefix(u, j) = Prefix(v, j)
      BY <2>6, <3>1
    <3>3. a[j] = Prefix(u, j) % Base /\ b[j] = Prefix(v, j) % Base
      BY <3>1, Prefixes
    <3> QED
      BY <3>2, <3>3
  <2>9. a[i] < b[i]
    <3> DEFINE c == Base * Prefix(u, i - 1)
    <3>1. Prefix(u, i - 1) = Prefix(v, i - 1) /\ Prefix(u, i - 1) \in Nat
      BY <2>6, <2>7, Prefixes
    <3>2. /\ Prefix(u, i) = c + a[i] /\ Prefix(v, i) = c + b[i]
          /\ a[i] \in Nat /\ b[i] \in Nat
      BY <2>7, <3>1, Prefixes
    <3>3. c \in Nat
      BY <3>1
    <3>4. u <= v
      BY <1>1, <1>3
    <3>5. Prefix(u, i) <= Prefix(v, i)
      BY <2>4, <3>4, PrefixMono
    <3> HIDE DEF a, b, c
    <3> QED
      BY <2>4, <3>2, <3>3, <3>5
  <2> QED
    BY <2>7, <2>8, <2>9 DEF Less
<1> QED
  BY <1>2, <1>3

=============================================================================
