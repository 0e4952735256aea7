------------------------- MODULE Instruction_proofs -------------------------
(***************************************************************************)
(* Theorems about an instruction on its way from the assembler to the      *)
(* simulators (InstrWord), for all lines and words, about the control      *)
(* store that its opcode selects rows of (MicroStore), and about the skip  *)
(* instruction (SkipCond).                                                  *)
(***************************************************************************)
EXTENDS InstrWord, SkipCond, Microcode_proofs, WellFoundedInduction

-----------------------------------------------------------------------------
\* Strings of binary digits.

\* The subsets of 1 .. n + 1 are those of 1 .. n, without and with the new element.
LEMMA PowerStep ==
    ASSUME NEW n \in Nat
    PROVE  2 ^ (n + 1) = 2 * 2 ^ n
<1> DEFINE S == SUBSET (1 .. n)
           W == {s \in SUBSET (1 .. n + 1) : n + 1 \in s}
           f == [s \in S |-> s \cup {n + 1}]
<1>1. IsFiniteSet(S) /\ Cardinality(S) = 2 ^ n
  <2>1. IsFiniteSet(1 .. n) /\ Cardinality(1 .. n) = n
    BY FS_Interval
  <2> QED  BY <2>1, FS_SUBSET
<1>2. IsFiniteSet(SUBSET (1 .. n + 1)) /\ Cardinality(SUBSET (1 .. n + 1)) = 2 ^ (n + 1)
  <2>1. IsFiniteSet(1 .. n + 1) /\ Cardinality(1 .. n + 1) = n + 1
    BY FS_Interval
  <2> QED  BY <2>1, FS_SUBSET
<1>3. f \in Bijection(S, W)
  <2>1. \A s \in S : s \cup {n + 1} \in W
    OBVIOUS
  <2>2. \A s \in S : n + 1 \notin s
    OBVIOUS
  <2>3. \A s, t \in S : f[s] = f[t] => s = t
    <3> SUFFICES ASSUME NEW s \in S, NEW t \in S, s \cup {n + 1} = t \cup {n + 1}
                 PROVE  s = t
      OBVIOUS
    <3> QED  BY <2>2
  <2>4. \A w \in W : \E s \in S : f[s] = w
    <3> SUFFICES ASSUME NEW w \in W PROVE \E s \in S : f[s] = w
      OBVIOUS
    <3>1. w \ {n + 1} \in S /\ (w \ {n + 1}) \cup {n + 1} = w
      OBVIOUS
    <3> QED  BY <3>1
  <2>5. f \in [S -> W]
    BY <2>1
  <2> HIDE DEF f, S, W
  <2> QED  BY <2>3, <2>4, <2>5 DEF Bijection, Injection, Surjection, IsInjective
<1>4. IsFiniteSet(W) /\ Cardinality(W) = Cardinality(S)
  BY <1>1, <1>3, FS_Bijection DEF ExistsBijection
<1>5. SUBSET (1 .. n + 1) = S \cup W /\ S \cap W = {}
  <2>1. \A s \in SUBSET (1 .. n + 1) : n + 1 \notin s => s \in S
    OBVIOUS
  <2>2. S \subseteq SUBSET (1 .. n + 1) /\ \A s \in S : n + 1 \notin s
    OBVIOUS
  <2> QED  BY <2>1, <2>2
<1>6. Cardinality(S \cup W) = Cardinality(S) + Cardinality(W) - Cardinality(S \cap W)
  BY <1>1, <1>4, FS_Union
<1>7. 2 ^ n \in Nat
  BY PowerOfTwo
<1> HIDE DEF S, W
<1>8. Cardinality(S \cap W) = 0
  BY <1>5, FS_EmptySet
<1>9. Cardinality(S \cup W) = 2 ^ (n + 1)
  BY <1>2, <1>5
<1>10. 2 ^ (n + 1) = 2 ^ n + 2 ^ n - 0
  BY <1>1, <1>4, <1>6, <1>8, <1>9
<1> QED  BY <1>7, <1>10

\* The powers of two that the widths of the code need.
LEMMA Powers ==
    /\ 2 ^ 0 = 1 /\ 2 ^ 1 = 2 /\ 2 ^ 2 = 4 /\ 2 ^ 3 = 8 /\ 2 ^ 4 = 16 /\ 2 ^ 5 = 32
    /\ 2 ^ 6 = 64 /\ 2 ^ 7 = 128 /\ 2 ^ 8 = 256 /\ 2 ^ 9 = 512 /\ 2 ^ 10 = 1024
    /\ 2 ^ 11 = 2048 /\ 2 ^ 12 = 4096 /\ 2 ^ 13 = 8192 /\ 2 ^ 14 = 16384
    /\ 2 ^ 15 = 32768 /\ 2 ^ 16 = 65536
<1>1. 2 ^ 0 = 1
  <2>1. IsFiniteSet({}) /\ Cardinality({}) = 0
    BY FS_EmptySet
  <2>2. Cardinality(SUBSET {}) = 2 ^ Cardinality({})
    BY <2>1, FS_SUBSET
  <2>3. SUBSET {} = {{}}
    OBVIOUS
  <2> QED  BY <2>1, <2>2, <2>3, FS_Singleton
<1>2. \A n \in Nat : 2 ^ (n + 1) = 2 * 2 ^ n
  BY PowerStep
<1>3. /\ 2 ^ (0 + 1) = 2 * 2 ^ 0 /\ 2 ^ (1 + 1) = 2 * 2 ^ 1 /\ 2 ^ (2 + 1) = 2 * 2 ^ 2
      /\ 2 ^ (3 + 1) = 2 * 2 ^ 3 /\ 2 ^ (4 + 1) = 2 * 2 ^ 4 /\ 2 ^ (5 + 1) = 2 * 2 ^ 5
      /\ 2 ^ (6 + 1) = 2 * 2 ^ 6 /\ 2 ^ (7 + 1) = 2 * 2 ^ 7 /\ 2 ^ (8 + 1) = 2 * 2 ^ 8
      /\ 2 ^ (9 + 1) = 2 * 2 ^ 9 /\ 2 ^ (10 + 1) = 2 * 2 ^ 10 /\ 2 ^ (11 + 1) = 2 * 2 ^ 11
      /\ 2 ^ (12 + 1) = 2 * 2 ^ 12 /\ 2 ^ (13 + 1) = 2 * 2 ^ 13
      /\ 2 ^ (14 + 1) = 2 * 2 ^ 14 /\ 2 ^ (15 + 1) = 2 * 2 ^ 15
  BY <1>2
<1> QED  BY <1>1, <1>3

\* A set of natural numbers has a least one.
LEMMA Least ==
    ASSUME NEW U, U \subseteq Nat, U # {}
    PROVE  \E x \in U : \A y \in U : x <= y
<1>1. PICK x \in U : \A y \in U : ~(<<y, x>> \in OpToRel(<, Nat))
  BY NatLessThanWellFounded, WFMin, Zenon
<1>2. ASSUME NEW y \in U PROVE x <= y
  <2>1. <<y, x>> \in Nat \X Nat /\ <<y, x>>[1] = y /\ <<y, x>>[2] = x
    OBVIOUS
  <2>2. ~(y < x)
    BY <1>1, <2>1 DEF OpToRel
  <2> QED  BY <2>2
<1> QED  BY <1>2

\* Induction up to a bound: what 0 has, and k + 1 if k has it, all have.
LEMMA Climb ==
    ASSUME NEW n \in Nat, NEW P, 0 \in P, \A k \in 0 .. n - 1 : k \in P => k + 1 \in P
    PROVE  \A k \in 0 .. n : k \in P
<1> SUFFICES ASSUME NEW m \in 0 .. n, m \notin P PROVE FALSE
  OBVIOUS
<1> DEFINE U == (0 .. n) \ P
<1>1. U \subseteq Nat /\ U # {}
  OBVIOUS
<1>2. PICK x \in U : \A y \in U : x <= y
  <2> HIDE DEF U
  <2> QED  BY <1>1, Least
<1>3. x # 0 /\ x - 1 \in 0 .. n - 1 /\ x - 1 \notin U
  BY <1>1, <1>2
<1>4. x - 1 \in P
  BY <1>3
<1>5. (x - 1) + 1 \in P
  BY <1>3, <1>4
<1> QED  BY <1>1, <1>5

\* g is a on 0, and step says what it is on a number by what it is before.
ByRecursion(g, n, S, a, step) ==
    /\ g \in [0 .. n -> S]
    /\ g[0] = a /\ \A i \in 1 .. n : g[i] = step[i][g[i - 1]]

\* Such a function exists.
LEMMA Recursion ==
    ASSUME NEW n \in Nat, NEW S, NEW a \in S, NEW step \in [1 .. n -> [S -> S]]
    PROVE  \E g : ByRecursion(g, n, S, a, step)
<1> DEFINE P == {k \in 0 .. n : \E g : ByRecursion(g, k, S, a, step)}
<1>1. 0 \in P
  <2> DEFINE h == [i \in 0 .. 0 |-> a]
  <2>1. ByRecursion(h, 0, S, a, step)
    BY DEF ByRecursion
  <2> HIDE DEF h
  <2> QED  BY <2>1
<1>2. ASSUME NEW k \in 0 .. n - 1, k \in P PROVE k + 1 \in P
  <2>1. PICK g : ByRecursion(g, k, S, a, step)
    BY <1>2
  <2> DEFINE h == [i \in 0 .. k + 1 |-> IF i <= k THEN g[i] ELSE step[k + 1][g[k]]]
  <2>2. h \in [0 .. k + 1 -> S]
    <3>1. step[k + 1] \in [S -> S] /\ g[k] \in S
      BY <2>1 DEF ByRecursion
    <3> QED  BY <2>1, <3>1 DEF ByRecursion
  <2>3. h[0] = a
    BY <2>1 DEF ByRecursion
  <2>4. ASSUME NEW i \in 1 .. k + 1 PROVE h[i] = step[i][h[i - 1]]
    BY <2>1 DEF ByRecursion
  <2>5. k + 1 \in 0 .. n
    OBVIOUS
  <2> HIDE DEF h
  <2>6. ByRecursion(h, k + 1, S, a, step)
    BY <2>2, <2>3, <2>4 DEF ByRecursion
  <2> QED  BY <2>5, <2>6
<1>3. \A k \in 0 .. n : k \in P
  <2> HIDE DEF P
  <2> QED  BY <1>1, <1>2, Climb
<1> QED  BY <1>3

\* A function that satisfies the equations does so on all numbers.
LEMMA Unique ==
    ASSUME NEW n \in Nat, NEW S, NEW a \in S, NEW step \in [1 .. n -> [S -> S]], NEW t,
           t = [i \in 0 .. n |-> t[i]], t[0] = a,
           \A i \in 1 .. n : t[i - 1] \in S => t[i] = step[i][t[i - 1]]
    PROVE  ByRecursion(t, n, S, a, step)
<1> DEFINE P == {k \in 0 .. n : t[k] \in S}
<1>1. 0 \in P
  OBVIOUS
<1>2. ASSUME NEW k \in 0 .. n - 1, k \in P PROVE k + 1 \in P
  <2>1. k + 1 \in 1 .. n /\ (k + 1) - 1 = k /\ t[k] \in S
    BY <1>2
  <2>2. t[k + 1] = step[k + 1][t[k]]
    BY <2>1
  <2>3. step[k + 1] \in [S -> S]
    BY <2>1
  <2> QED  BY <2>1, <2>2, <2>3
<1>3. \A k \in 0 .. n : k \in P
  <2> HIDE DEF P
  <2> QED  BY <1>1, <1>2, Climb
<1>4. t \in [0 .. n -> S]
  BY <1>3
<1>5. \A i \in 1 .. n : t[i - 1] \in S
  BY <1>3
<1> QED  BY <1>4, <1>5 DEF ByRecursion

\* Quotient and remainder are what they are defined by.
LEMMA Division ==
    ASSUME NEW b \in Nat, b > 0, NEW q \in Int, NEW r \in 0 .. b - 1
    PROVE  (b * q + r) \div b = q /\ (b * q + r) % b = r
<1> DEFINE v == b * q + r
           p == v \div b
           y == v % b
<1>1. v \in Int /\ v = b * q + r /\ b * q \in Int
  OBVIOUS
<1>2. p \in Int /\ y \in 0 .. b - 1 /\ v = b * p + y
  <2> HIDE DEF v
  <2> QED  BY <1>1
<1> HIDE DEF v, p, y
<1>3. b * p + y = b * q + r /\ b * p \in Int
  BY <1>1, <1>2
<1>4. b * (p - q) = r - y /\ p - q \in Int
  BY <1>1, <1>2, <1>3
<1>5. \A d \in Int : d >= 1 => b * d >= b
  OBVIOUS
<1>6. \A d \in Int : d <= -1 => b * d <= -b
  OBVIOUS
<1>7. r - y < b /\ r - y > -b
  BY <1>2
<1>8. p - q = 0
  BY <1>2, <1>4, <1>5, <1>6, <1>7
<1>9. r = y /\ p = q
  BY <1>2, <1>4, <1>8
<1> QED  BY <1>9 DEF p, y, v

\* To divide by a product is to divide twice.
LEMMA Nested ==
    ASSUME NEW x \in Nat, NEW a \in Nat, a > 0, NEW b \in Nat, b > 0
    PROVE  /\ x \div (a * b) = (x \div a) \div b
           /\ x % (a * b) = a * ((x \div a) % b) + (x % a)
<1> DEFINE y == x \div a
           r == x % a
           z == y \div b
           s == y % b
<1>1. y \in Nat /\ r \in 0 .. a - 1 /\ x = a * y + r
  OBVIOUS
<1>2. z \in Nat /\ s \in 0 .. b - 1 /\ y = b * z + s
  <2> HIDE DEF y
  <2> QED  BY <1>1
<1> HIDE DEF y, r, z, s
<1>3. x = (a * b) * z + (a * s + r)
  <2>1. a * (b * z + s) = (a * b) * z + a * s
    BY <1>2
  <2> QED  BY <1>1, <1>2, <2>1
<1>4. a * s + r \in 0 .. (a * b) - 1
  <2>1. s + 1 <= b /\ s \in Nat
    BY <1>2
  <2>2. a * (s + 1) <= a * b /\ 0 <= a * s
    BY <2>1
  <2>3. a * (s + 1) = a * s + a /\ a * s \in Int /\ a * b \in Int
    BY <2>1
  <2> QED  BY <1>1, <2>2, <2>3
<1>5. a * b \in Nat /\ a * b > 0
  OBVIOUS
<1> DEFINE c == a * b
           d == a * s + r
<1>6. c \in Nat /\ c > 0 /\ z \in Int /\ d \in 0 .. c - 1
  BY <1>2, <1>4, <1>5
<1>7. x = c * z + d
  BY <1>3
<1>8. x \div c = z /\ x % c = d
  <2> HIDE DEF c, d
  <2>1. (c * z + d) \div c = z /\ (c * z + d) % c = d
    BY <1>6, Division
  <2> QED  BY <1>7, <2>1
<1> QED  BY <1>8 DEF y, r, z, s

Bit == {0, 1}

\* Weighed adds up the weights from the first digit on.
LEMMA WeighedIs ==
    ASSUME NEW bin \in Seq(Bit), NEW weights, \A i \in DOMAIN bin : weights[i] \in Nat
    PROVE  \E t \in [0 .. Len(bin) -> Nat] :
              /\ t[0] = 0
              /\ \A i \in 1 .. Len(bin) :
                    t[i] = t[i - 1] + (IF bin[i] = 1 THEN weights[i] ELSE 0)
              /\ Weighed(bin, weights) = t[Len(bin)]
<1> DEFINE n == Len(bin)
           add(i) == IF bin[i] = 1 THEN weights[i] ELSE 0
           Body(g) == [i \in 0 .. n |-> IF i = 0 THEN 0 ELSE g[i - 1] + add(i)]
           step == [i \in 1 .. n |-> [x \in Nat |-> x + add(i)]]
           t == CHOOSE g : g = Body(g)
<1>1. n \in Nat /\ DOMAIN bin = 1 .. n /\ \A i \in 1 .. n : add(i) \in Nat
  OBVIOUS
<1> HIDE DEF n
<1>2. Weighed(bin, weights) = t[n]
  BY DEF Weighed, n
<1> HIDE DEF add
<1>3. /\ 0 \in Nat /\ step \in [1 .. n -> [Nat -> Nat]]
      /\ \A i \in 1 .. n, x \in Nat : step[i][x] = x + add(i)
  <2>1. \A i \in 1 .. n : [x \in Nat |-> x + add(i)] \in [Nat -> Nat]
    BY <1>1
  <2> QED  BY <2>1
<1> HIDE DEF step
<1>4. PICK g : ByRecursion(g, n, Nat, 0, step)
  BY <1>1, <1>3, Recursion
<1>5. g = Body(g)
  <2>1. ASSUME NEW i \in 0 .. n PROVE g[i] = IF i = 0 THEN 0 ELSE g[i - 1] + add(i)
    <3>1. CASE i # 0
      <4>1. i \in 1 .. n /\ i - 1 \in 0 .. n
        BY <1>1, <3>1
      <4> QED  BY <1>3, <1>4, <3>1, <4>1 DEF ByRecursion
    <3> QED  BY <1>4, <3>1 DEF ByRecursion
  <2>2. g = [i \in 0 .. n |-> g[i]]
    BY <1>4 DEF ByRecursion
  <2> QED  BY <2>1, <2>2
<1>6. t = Body(t)
  <2> HIDE DEF Body
  <2> QED  BY <1>5
<1> HIDE DEF t
<1>7. /\ t = [i \in 0 .. n |-> t[i]] /\ t[0] = 0
      /\ \A i \in 1 .. n : t[i] = t[i - 1] + add(i)
  <2>1. t = [i \in 0 .. n |-> t[i]]
    BY <1>6
  <2>2. \A i \in 0 .. n : t[i] = IF i = 0 THEN 0 ELSE t[i - 1] + add(i)
    BY <1>6
  <2> QED  BY <1>1, <2>1, <2>2
<1>8. ByRecursion(t, n, Nat, 0, step)
  BY <1>1, <1>3, <1>7, Unique
<1>9. t \in [0 .. n -> Nat]
  BY <1>8 DEF ByRecursion
<1>10. \A i \in 1 .. n : t[i] = t[i - 1] + (IF bin[i] = 1 THEN weights[i] ELSE 0)
  BY <1>7 DEF add
<1> QED  BY <1>2, <1>7, <1>9, <1>10 DEF n

\* The value of the first digits, from none to all.
Prefixes(bin, v) ==
    /\ v \in [0 .. Len(bin) -> Nat] /\ v[0] = 0
    /\ \A i \in 1 .. Len(bin) : v[i] = 2 * v[i - 1] + bin[i]

\* The values of the beginnings of a string, as bin2dec sums them up.
LEMMA PrefixesExist ==
    ASSUME NEW bin \in Seq(Bit)
    PROVE  \E v : Prefixes(bin, v)
<1> DEFINE n == Len(bin)
           step == [i \in 1 .. n |-> [x \in Nat |-> 2 * x + bin[i]]]
<1>1. n \in Nat /\ \A i \in 1 .. n : bin[i] \in Nat
  BY DEF Bit
<1>2. /\ 0 \in Nat /\ step \in [1 .. n -> [Nat -> Nat]]
      /\ \A i \in 1 .. n, x \in Nat : step[i][x] = 2 * x + bin[i]
  <2> HIDE DEF n
  <2>1. \A i \in 1 .. n : [x \in Nat |-> 2 * x + bin[i]] \in [Nat -> Nat]
    BY <1>1
  <2> QED  BY <2>1
<1> HIDE DEF n, step
<1>3. PICK v : ByRecursion(v, n, Nat, 0, step)
  BY <1>1, <1>2, Recursion
<1>4. /\ v \in [0 .. n -> Nat] /\ v[0] = 0
      /\ \A i \in 1 .. n : v[i] = step[i][v[i - 1]]
  BY <1>3 DEF ByRecursion
<1>5. ASSUME NEW i \in 1 .. n PROVE v[i] = 2 * v[i - 1] + bin[i]
  <2>1. i - 1 \in 0 .. n /\ v[i - 1] \in Nat
    BY <1>1, <1>4
  <2> QED  BY <1>2, <1>4, <2>1
<1> QED  BY <1>4, <1>5 DEF Prefixes, n

\* bin2dec adds up to the value of all digits.
LEMMA BinValue ==
    ASSUME NEW bin \in Seq(Bit), NEW v, Prefixes(bin, v)
    PROVE  Bin2dec(bin) = v[Len(bin)]
<1> DEFINE n == Len(bin)
           weights == [i \in DOMAIN bin |-> 2 ^ (Len(bin) - i)]
<1>1. n \in Nat /\ DOMAIN bin = 1 .. n /\ \A i \in 1 .. n : bin[i] \in Bit
  OBVIOUS
<1>2. \A i \in 1 .. n : weights[i] = 2 ^ (n - i)
  BY <1>1
<1>3. \A i \in 0 .. n : 2 ^ (n - i) \in Nat
  BY <1>1, PowerOfTwo
<1>4. \A i \in 1 .. n : 2 ^ (n - (i - 1)) = 2 * 2 ^ (n - i)
  <2> SUFFICES ASSUME NEW i \in 1 .. n PROVE 2 ^ (n - (i - 1)) = 2 * 2 ^ (n - i)
    OBVIOUS
  <2>1. n - i \in Nat /\ n - (i - 1) = (n - i) + 1
    BY <1>1
  <2>2. 2 ^ ((n - i) + 1) = 2 * 2 ^ (n - i)
    BY <2>1, PowerStep
  <2> QED  BY <2>1, <2>2
<1>5. Bin2dec(bin) = Weighed(bin, weights) /\ \A i \in DOMAIN bin : weights[i] \in Nat
  <2>1. \A i \in 1 .. n : 2 ^ (n - i) \in Nat
    BY <1>1, <1>3
  <2> QED  BY <1>1, <1>2, <2>1 DEF Bin2dec
<1> HIDE DEF n, weights
<1>6. PICK t \in [0 .. n -> Nat] :
              /\ t[0] = 0
              /\ \A i \in 1 .. n : t[i] = t[i - 1] + (IF bin[i] = 1 THEN weights[i] ELSE 0)
              /\ Weighed(bin, weights) = t[n]
  BY <1>5, WeighedIs DEF n
<1>7. /\ v \in [0 .. n -> Nat] /\ v[0] = 0
      /\ \A i \in 1 .. n : v[i] = 2 * v[i - 1] + bin[i]
  BY DEF Prefixes, n
<1> DEFINE P == {i \in 0 .. n : t[i] = v[i] * 2 ^ (n - i)}
<1>8. 0 \in P
  BY <1>1, <1>3, <1>6, <1>7
<1>9. ASSUME NEW k \in 0 .. n - 1, k \in P PROVE k + 1 \in P
  <2>1. k + 1 \in 1 .. n /\ (k + 1) - 1 = k /\ k \in 0 .. n /\ k + 1 \in 0 .. n
    BY <1>1
  <2> DEFINE p == 2 ^ (n - (k + 1))
             b == bin[k + 1]
             u == v[k]
  <2>2. p \in Nat /\ 2 ^ (n - k) = 2 * p
    <3>1. 2 ^ (n - ((k + 1) - 1)) = 2 * p
      BY <1>4, <2>1
    <3> QED  BY <1>3, <2>1, <3>1
  <2>3. t[k] = u * (2 * p)
    BY <1>9, <2>2
  <2>4. t[k + 1] = t[k] + (IF b = 1 THEN p ELSE 0)
    <3>1. weights[k + 1] = p
      BY <1>2, <2>1
    <3> QED  BY <1>6, <2>1, <3>1
  <2>5. v[k + 1] = 2 * u + b
    BY <1>7, <2>1
  <2>6. u \in Nat /\ b \in Bit
    BY <1>1, <1>7, <2>1
  <2> HIDE DEF p, u, b
  <2>7. (2 * u + b) * p = u * (2 * p) + (IF b = 1 THEN p ELSE 0)
    <3>1. CASE b = 1
      BY <2>2, <2>6, <3>1
    <3>2. CASE b = 0
      BY <2>2, <2>6, <3>2
    <3> QED  BY <2>6, <3>1, <3>2 DEF Bit
  <2>8. t[k + 1] = v[k + 1] * p
    BY <2>3, <2>4, <2>5, <2>7
  <2> QED  BY <2>1, <2>8 DEF p
<1>10. \A k \in 0 .. n : k \in P
  <2>1. n \in Nat
    BY <1>1
  <2> HIDE DEF P
  <2> QED  BY <1>8, <1>9, <2>1, Climb
<1>11. t[n] = v[n] * 2 ^ (n - n)
  <2>1. n \in P
    <3>1. n \in 0 .. n
      BY <1>1
    <3> HIDE DEF P
    <3> QED  BY <1>10, <3>1
  <2> QED  BY <2>1
<1>12. 2 ^ (n - n) = 1
  <2>1. n - n = 0
    BY <1>1
  <2>2. 2 ^ (n - n) = 2 ^ 0
    BY <2>1
  <2> QED  BY <2>2, Powers
<1>13. t[n] = v[n]
  BY <1>1, <1>7, <1>11, <1>12
<1> QED  BY <1>1, <1>5, <1>6, <1>7, <1>13 DEF n

\* A field of the digits of a number.
LEMMA FieldValue ==
    ASSUME NEW w \in Nat, NEW sz \in Nat, NEW from \in Nat, NEW n \in Nat, from + n <= sz
    PROVE  LET bin == Field(Dec2bin(w, sz), from, n)
           IN  /\ bin \in Seq(Bit) /\ Len(bin) = n
               /\ \A i \in 1 .. n : bin[i] = (w \div 2 ^ (sz - from - i)) % 2
               /\ Bin2dec(bin) = (w \div 2 ^ (sz - from - n)) % 2 ^ n
<1> DEFINE bin == Field(Dec2bin(w, sz), from, n)
           q(i) == w \div 2 ^ (sz - from - i)
           v == [i \in 0 .. n |-> q(i) % 2 ^ i]
<1>1. \A i \in 1 .. n : from + i \in 1 .. sz /\ sz - (from + i) = sz - from - i
  OBVIOUS
<1>2. Len(bin) = n /\ bin = [i \in 1 .. n |-> q(i) % 2]
  <2>1. Dec2bin(w, sz) = [i \in 1 .. sz |-> (w \div 2 ^ (sz - i)) % 2]
    BY DEF Dec2bin
  <2>2. bin = [i \in 1 .. n |-> Dec2bin(w, sz)[from + i]]
    <3>1. Dec2bin(w, sz) \in Seq(Int) /\ Len(Dec2bin(w, sz)) = sz
      <4> DEFINE d == [i \in 1 .. sz |-> (w \div 2 ^ (sz - i)) % 2]
      <4>1. \A i \in 1 .. sz : (w \div 2 ^ (sz - i)) % 2 \in Int
        <5> SUFFICES ASSUME NEW i \in 1 .. sz PROVE (w \div 2 ^ (sz - i)) % 2 \in Int
          OBVIOUS
        <5>1. 2 ^ (sz - i) \in Nat \ {0}
          BY PowerOfTwo
        <5>2. w \div 2 ^ (sz - i) \in Nat
          BY <5>1
        <5> QED  BY <5>2
      <4>2. d \in [1 .. sz -> Int]
        BY <4>1
      <4> QED  BY <2>1, <4>2
    <3>2. bin = SubSeq(Dec2bin(w, sz), from + 1, from + n)
      BY DEF Field
    <3> DEFINE s == Dec2bin(w, sz)
    <3> HIDE DEF s
    <3>3. SubSeq(s, from + 1, from + n) = [i \in 1 .. n |-> s[from + i]]
      <4> DEFINE u == SubSeq(s, from + 1, from + n)
      <4>1. u \in Seq(Int) /\ Len(u) = n /\ \A i \in 1 .. n : u[i] = s[from + i]
        BY <3>1 DEF s
      <4>2. u = [i \in 1 .. n |-> u[i]]
        BY <4>1
      <4> HIDE DEF u
      <4>3. u = [i \in 1 .. n |-> s[from + i]]
        BY <4>1, <4>2
      <4> QED  BY <4>3 DEF u
    <3> QED  BY <3>2, <3>3 DEF s
  <2>3. \A i \in 1 .. n : Dec2bin(w, sz)[from + i] = q(i) % 2
    BY <1>1, <2>1
  <2> QED  BY <2>2, <2>3
<1>3. \A i \in 0 .. n : 2 ^ (sz - from - i) \in Nat \ {0} /\ q(i) \in Nat
  <2> SUFFICES ASSUME NEW i \in 0 .. n
               PROVE  2 ^ (sz - from - i) \in Nat \ {0} /\ q(i) \in Nat
    OBVIOUS
  <2>1. sz - from - i \in Nat
    OBVIOUS
  <2>2. 2 ^ (sz - from - i) \in Nat \ {0}
    BY <2>1, PowerOfTwo
  <2> QED  BY <2>2, Quotient
<1>4. \A i \in 0 .. n : 2 ^ i \in Nat \ {0}
  BY PowerOfTwo
<1>5. \A i \in 1 .. n : q(i - 1) = q(i) \div 2 /\ 2 ^ i = 2 * 2 ^ (i - 1)
  <2> SUFFICES ASSUME NEW i \in 1 .. n
               PROVE  q(i - 1) = q(i) \div 2 /\ 2 ^ i = 2 * 2 ^ (i - 1)
    OBVIOUS
  <2> DEFINE a == 2 ^ (sz - from - i)
  <2>1. /\ sz - from - i \in Nat /\ sz - from - (i - 1) = (sz - from - i) + 1
        /\ i - 1 \in Nat /\ (i - 1) + 1 = i
    OBVIOUS
  <2>2. 2 ^ (sz - from - (i - 1)) = 2 * a /\ a \in Nat \ {0}
    <3>1. 2 ^ ((sz - from - i) + 1) = 2 * a
      BY <2>1, PowerStep
    <3> QED  BY <2>1, <3>1, PowerOfTwo
  <2>3. 2 ^ i = 2 * 2 ^ (i - 1)
    <3>1. 2 ^ ((i - 1) + 1) = 2 * 2 ^ (i - 1)
      BY <2>1, PowerStep
    <3> QED  BY <2>1, <3>1
  <2>4. w \div (2 * a) = (w \div a) \div 2
    <3> HIDE DEF a
    <3>1. w \div (a * 2) = (w \div a) \div 2
      BY <2>2, Nested
    <3> QED  BY <2>2, <3>1
  <2> QED  BY <2>2, <2>3, <2>4
<1> HIDE DEF q
<1>6. bin \in Seq(Bit)
  <2>1. \A i \in 1 .. n : q(i) % 2 \in Bit
    BY <1>3 DEF Bit
  <2> HIDE DEF bin
  <2> QED  BY <1>2, <2>1
<1> HIDE DEF bin
<1>7. Prefixes(bin, v)
  <2>1. \A i \in 0 .. n : q(i) % 2 ^ i \in Nat
    BY <1>3, <1>4
  <2>2. v[0] = 0
    BY <1>3, Powers
  <2>3. ASSUME NEW i \in 1 .. n PROVE v[i] = 2 * v[i - 1] + bin[i]
    <3> DEFINE p == 2 ^ (i - 1)
               x == q(i)
    <3>1. p \in Nat /\ p > 0 /\ x \in Nat /\ i - 1 \in 0 .. n /\ i \in 0 .. n
      BY <1>3, <1>4
    <3>2. v[i] = x % (2 * p) /\ v[i - 1] = (x \div 2) % p /\ bin[i] = x % 2
      BY <1>2, <1>5, <3>1
    <3> HIDE DEF p, x, v
    <3> QED  BY <3>1, <3>2, Nested
  <2> QED  BY <1>2, <2>1, <2>2, <2>3 DEF Prefixes
<1>8. Bin2dec(bin) = v[n]
  <2> HIDE DEF v
  <2> QED  BY <1>2, <1>6, <1>7, BinValue
<1>9. v[n] = q(n) % 2 ^ n
  OBVIOUS
<1> QED  BY <1>2, <1>6, <1>8, <1>9 DEF bin, q

\* dec2bin makes the last sz binary digits of a number, and bin2dec reads them back.
LEMMA Dec2binValue ==
    ASSUME NEW w \in Nat, NEW sz \in Nat
    PROVE  /\ Dec2bin(w, sz) \in Seq(Bit) /\ Len(Dec2bin(w, sz)) = sz
           /\ \A i \in 1 .. sz : Dec2bin(w, sz)[i] = (w \div 2 ^ (sz - i)) % 2
           /\ Bin2dec(Dec2bin(w, sz)) = w % 2 ^ sz
<1> DEFINE b == Dec2bin(w, sz)
           f == Field(b, 0, sz)
<1>1. /\ f \in Seq(Bit) /\ Len(f) = sz
      /\ \A i \in 1 .. sz : f[i] = (w \div 2 ^ (sz - 0 - i)) % 2
      /\ Bin2dec(f) = (w \div 2 ^ (sz - 0 - sz)) % 2 ^ sz
  <2>1. 0 \in Nat /\ 0 + sz <= sz
    OBVIOUS
  <2> QED  BY <2>1, FieldValue
<1>2. \A i \in 1 .. sz : sz - 0 - i = sz - i
  OBVIOUS
<1>3. b = [i \in 1 .. sz |-> (w \div 2 ^ (sz - i)) % 2]
  BY DEF Dec2bin
<1>4. f = [i \in 1 .. sz |-> f[i]]
  <2> HIDE DEF f
  <2> QED  BY <1>1
<1>5. f = b
  <2> HIDE DEF f, b
  <2> QED  BY <1>1, <1>2, <1>3, <1>4
<1>6. w \div 2 ^ (sz - 0 - sz) = w
  <2>1. sz - 0 - sz = 0
    OBVIOUS
  <2>2. 2 ^ (sz - 0 - sz) = 2 ^ 0
    BY <2>1
  <2>3. 2 ^ (sz - 0 - sz) = 1
    BY <2>2, Powers
  <2> QED  BY <2>3
<1> HIDE DEF f, b
<1>7. Bin2dec(b) = w % 2 ^ sz
  BY <1>1, <1>5, <1>6
<1>8. \A i \in 1 .. sz : b[i] = (w \div 2 ^ (sz - i)) % 2
  BY <1>3
<1>9. b \in Seq(Bit) /\ Len(b) = sz
  BY <1>1, <1>5
<1> QED  BY <1>7, <1>8, <1>9 DEF b

\* dec2bin gets every digit back.
LEMMA DigitsBack ==
    ASSUME NEW bin \in Seq(Bit)
    PROVE  /\ Bin2dec(bin) \in Nat /\ Bin2dec(bin) < 2 ^ Len(bin)
           /\ Dec2bin(Bin2dec(bin), Len(bin)) = bin
<1> DEFINE n == Len(bin)
           w == Bin2dec(bin)
<1>1. n \in Nat /\ bin = [i \in 1 .. n |-> bin[i]] /\ \A i \in 1 .. n : bin[i] \in 0 .. 1
  BY DEF Bit
<1>2. PICK v : Prefixes(bin, v)
  BY PrefixesExist
<1>3. w = v[n]
  BY <1>2, BinValue
<1>4. /\ v \in [0 .. n -> Nat] /\ v[0] = 0
      /\ \A i \in 1 .. n : v[i] = 2 * v[i - 1] + bin[i]
  BY <1>2 DEF Prefixes
<1> HIDE DEF n, w
<1> DEFINE P == {i \in 0 .. n : v[i] < 2 ^ i}
<1>5. \A k \in 0 .. n : k \in P
  <2>1. 0 \in P
    BY <1>1, <1>4, Powers
  <2>2. ASSUME NEW k \in 0 .. n - 1, k \in P PROVE k + 1 \in P
    <3>1. k \in 0 .. n /\ k + 1 \in 1 .. n /\ k + 1 \in 0 .. n /\ (k + 1) - 1 = k /\ k \in Nat
      BY <1>1
    <3>2. v[k + 1] = 2 * v[k] + bin[k + 1] /\ v[k] \in Nat /\ bin[k + 1] \in 0 .. 1
      BY <1>1, <1>4, <3>1
    <3>3. v[k] < 2 ^ k
      BY <2>2
    <3>4. 2 ^ (k + 1) = 2 * 2 ^ k /\ 2 ^ k \in Nat
      BY <3>1, PowerStep, PowerOfTwo
    <3>5. v[k + 1] < 2 ^ (k + 1)
      BY <3>2, <3>3, <3>4
    <3> QED  BY <3>1, <3>5
  <2> HIDE DEF P
  <2> QED  BY <1>1, <2>1, <2>2, Climb
<1>6. n \in 0 .. n
  BY <1>1
<1>7. w \in Nat /\ w < 2 ^ n
  BY <1>3, <1>4, <1>5, <1>6
<1> HIDE DEF P
<1> DEFINE Q == {k \in 0 .. n : v[n - k] = w \div 2 ^ k}
<1>8. \A k \in 0 .. n : k \in Q
  <2>1. 0 \in Q
    <3>1. n - 0 = n /\ 0 \in 0 .. n
      BY <1>1
    <3>2. w \div 2 ^ 0 = w
      BY <1>7, Powers
    <3> QED  BY <1>3, <3>1, <3>2
  <2>2. ASSUME NEW k \in 0 .. n - 1, k \in Q PROVE k + 1 \in Q
    <3> DEFINE i == n - k
               p == 2 ^ k
    <3>1. /\ k \in Nat /\ k + 1 \in 0 .. n /\ i \in 1 .. n /\ i - 1 \in 0 .. n
          /\ n - (k + 1) = i - 1 /\ i \in 0 .. n
      BY <1>1
    <3>2. v[i] = w \div p
      BY <2>2
    <3>3. v[i] = 2 * v[i - 1] + bin[i] /\ v[i - 1] \in Nat /\ bin[i] \in 0 .. 1 /\ v[i] \in Nat
      BY <1>1, <1>4, <3>1
    <3>4. p \in Nat /\ p > 0 /\ 2 ^ (k + 1) = 2 * p
      BY <3>1, PowerStep, PowerOfTwo
    <3> HIDE DEF i, p
    <3>5. w \div (p * 2) = (w \div p) \div 2
      BY <1>7, <3>4, Nested
    <3>6. v[i - 1] = (w \div p) \div 2
      BY <3>2, <3>3
    <3>7. 2 ^ (k + 1) = p * 2
      BY <3>4
    <3>8. v[i - 1] = w \div 2 ^ (k + 1)
      BY <3>5, <3>6, <3>7
    <3> QED  BY <3>1, <3>8
  <2> HIDE DEF Q
  <2> QED  BY <1>1, <2>1, <2>2, Climb
<1>9. ASSUME NEW i \in 1 .. n PROVE bin[i] = (w \div 2 ^ (n - i)) % 2
  <2>1. n - i \in 0 .. n /\ n - (n - i) = i
    BY <1>1
  <2>2. v[i] = w \div 2 ^ (n - i)
    <3>1. n - i \in Q
      <4> HIDE DEF Q
      <4> QED  BY <1>8, <2>1
    <3> QED  BY <2>1, <3>1
  <2>3. v[i] = 2 * v[i - 1] + bin[i] /\ v[i - 1] \in Nat /\ bin[i] \in 0 .. 1
    <3>1. i - 1 \in 0 .. n
      BY <1>1
    <3> QED  BY <1>1, <1>4, <3>1
  <2>4. bin[i] = v[i] % 2
    BY <2>3
  <2> QED  BY <2>2, <2>4
<1>10. Dec2bin(w, n) = bin
  <2>1. Dec2bin(w, n) = [i \in 1 .. n |-> (w \div 2 ^ (n - i)) % 2]
    BY DEF Dec2bin
  <2> QED  BY <1>1, <1>9, <2>1
<1> QED  BY <1>7, <1>10 DEF n, w

\* The first digit tells the sign.
LEMMA SbinValue ==
    ASSUME NEW bin \in Seq(Bit), NEW n \in Nat, n > 0, Len(bin) = n
    PROVE  LET x == Bin2dec(bin)
               p == 2 ^ (n - 1)
           IN  /\ p \in Nat /\ p > 0 /\ x \in 0 .. (2 * p) - 1 /\ 2 ^ n = 2 * p
               /\ Sbin2dec(bin) = IF x >= p THEN x - 2 * p ELSE x
<1> DEFINE x == Bin2dec(bin)
           p == 2 ^ (n - 1)
<1>1. n - 1 \in Nat /\ (n - 1) + 1 = n /\ 1 \in 1 .. n
  OBVIOUS
<1>2. p \in Nat /\ p > 0 /\ 2 ^ n = 2 * p
  <2>1. 2 ^ ((n - 1) + 1) = 2 * p
    BY <1>1, PowerStep
  <2> QED  BY <1>1, <2>1, PowerOfTwo
<1>3. x \in Nat /\ x < 2 ^ n /\ Dec2bin(x, n) = bin
  BY DigitsBack
<1>4. bin[1] = (x \div p) % 2
  <2> HIDE DEF x
  <2>1. \A i \in 1 .. n : Dec2bin(x, n)[i] = (x \div 2 ^ (n - i)) % 2
    BY <1>3, Dec2binValue
  <2>2. Dec2bin(x, n)[1] = (x \div 2 ^ (n - 1)) % 2
    BY <1>1, <2>1
  <2> QED  BY <1>3, <2>2
<1>5. Sbin2dec(bin) = IF bin[1] = 1 THEN -(2 ^ n - x) ELSE x
  BY DEF Sbin2dec
<1> HIDE DEF x, p
<1>6. CASE x >= p
  <2>1. x = p * 1 + (x - p) /\ x - p \in 0 .. p - 1
    BY <1>2, <1>3, <1>6
  <2>2. (p * 1 + (x - p)) \div p = 1
    BY <1>2, <2>1, Division
  <2>3. bin[1] = 1
    BY <1>4, <2>1, <2>2
  <2> QED  BY <1>2, <1>3, <1>5, <1>6, <2>3 DEF x, p
<1>7. CASE x < p
  <2>1. x = p * 0 + x /\ x \in 0 .. p - 1
    BY <1>2, <1>3, <1>7
  <2>2. (p * 0 + x) \div p = 0
    BY <1>2, <2>1, Division
  <2>3. bin[1] = 0
    BY <1>4, <2>1, <2>2
  <2> QED  BY <1>2, <1>3, <1>5, <1>7, <2>3 DEF x, p
<1> QED  BY <1>2, <1>3, <1>6, <1>7

\* The conversions for one length.

\* The conversions of one length are bin2dec.
LEMMA OneLength ==
    ASSUME NEW bin \in Seq(Bit)
    PROVE  /\ Len(bin) = 2 => Bin2ToDec(bin) = Bin2dec(bin)
           /\ Len(bin) = 3 => Bin3ToDec(bin) = Bin2dec(bin)
           /\ Len(bin) = 7 => Bin7ToDec(bin) = Bin2dec(bin)
           /\ Len(bin) = 10 => Bin10ToDec(bin) = Bin2dec(bin)
<1> DEFINE n == Len(bin)
<1>1. n \in Nat /\ DOMAIN bin = 1 .. n
  OBVIOUS
<1>2. Bin2dec(bin) = Weighed(bin, [i \in 1 .. n |-> 2 ^ (n - i)])
  BY <1>1 DEF Bin2dec
<1> HIDE DEF n
<1>3. n = 2 => [i \in 1 .. n |-> 2 ^ (n - i)] = <<2, 1>>
  BY Powers
<1>4. n = 3 => [i \in 1 .. n |-> 2 ^ (n - i)] = <<4, 2, 1>>
  BY Powers
<1>5. n = 7 => [i \in 1 .. n |-> 2 ^ (n - i)] = <<64, 32, 16, 8, 4, 2, 1>>
  BY Powers
<1>6. n = 10 => [i \in 1 .. n |-> 2 ^ (n - i)] = <<512, 256, 128, 64, 32, 16, 8, 4, 2, 1>>
  BY Powers
<1> QED  BY <1>2, <1>3, <1>4, <1>5, <1>6 DEF n, Bin2ToDec, Bin3ToDec, Bin7ToDec, Bin10ToDec

\* Weights that differ in the first only.
LEMMA FirstWeight ==
    ASSUME NEW bin \in Seq(Bit), Len(bin) > 0, NEW w, NEW u, NEW c \in Nat,
           \A i \in 1 .. Len(bin) : w[i] \in Nat /\ u[i] \in Nat,
           u[1] = w[1] + c, \A i \in 2 .. Len(bin) : u[i] = w[i]
    PROVE  /\ Weighed(bin, w) \in Nat
           /\ Weighed(bin, u) = Weighed(bin, w) + (c * bin[1])
<1> DEFINE n == Len(bin)
<1>1. n \in Nat /\ n > 0 /\ DOMAIN bin = 1 .. n /\ \A i \in 1 .. n : bin[i] \in 0 .. 1
  BY DEF Bit
<1>2. PICK t \in [0 .. n -> Nat] :
         /\ t[0] = 0
         /\ \A i \in 1 .. n : t[i] = t[i - 1] + (IF bin[i] = 1 THEN w[i] ELSE 0)
         /\ Weighed(bin, w) = t[n]
  BY <1>1, WeighedIs
<1>3. PICK s \in [0 .. n -> Nat] :
         /\ s[0] = 0
         /\ \A i \in 1 .. n : s[i] = s[i - 1] + (IF bin[i] = 1 THEN u[i] ELSE 0)
         /\ Weighed(bin, u) = s[n]
  BY <1>1, WeighedIs
<1>4. /\ \A i \in 1 .. n : w[i] \in Nat /\ u[i] \in Nat
      /\ u[1] = w[1] + c /\ \A i \in 2 .. n : u[i] = w[i]
  OBVIOUS
<1> HIDE DEF n
<1> DEFINE P == {k \in 0 .. n : k = 0 \/ s[k] = t[k] + (c * bin[1])}
<1>5. \A k \in 0 .. n : k \in P
  <2>1. 0 \in P
    BY <1>1
  <2>2. ASSUME NEW k \in 0 .. n - 1, k \in P PROVE k + 1 \in P
    <3>1. /\ k + 1 \in 1 .. n /\ (k + 1) - 1 = k /\ k \in 0 .. n
          /\ k + 1 \in 0 .. n /\ 1 \in 1 .. n
      BY <1>1
    <3>2. /\ s[k + 1] = s[k] + (IF bin[k + 1] = 1 THEN u[k + 1] ELSE 0)
          /\ t[k + 1] = t[k] + (IF bin[k + 1] = 1 THEN w[k + 1] ELSE 0)
      BY <1>2, <1>3, <3>1
    <3>3. w[k + 1] \in Nat /\ u[k + 1] \in Nat /\ s[k] \in Nat /\ t[k] \in Nat
      BY <1>4, <3>1
    <3>4. bin[1] \in 0 .. 1 /\ bin[k + 1] \in 0 .. 1
      BY <1>1, <3>1
    <3>5. CASE k = 0
      <4>1. s[k + 1] = t[k + 1] + (c * bin[1])
        <5>1. k + 1 = 1 /\ s[k] = 0 /\ t[k] = 0
          BY <1>2, <1>3, <3>5
        <5>2. CASE bin[1] = 1
          BY <1>4, <3>2, <3>3, <5>1, <5>2
        <5>3. CASE bin[1] = 0
          BY <1>4, <3>2, <3>3, <5>1, <5>3
        <5> QED  BY <3>4, <5>2, <5>3
      <4> QED  BY <3>1, <4>1
    <3>6. CASE k # 0
      <4>1. s[k] = t[k] + (c * bin[1])
        BY <2>2, <3>6
      <4>2. u[k + 1] = w[k + 1]
        <5>1. k + 1 \in 2 .. n
          BY <1>1, <3>6
        <5> QED  BY <1>4, <5>1
      <4>3. c * bin[1] \in Nat
        BY <3>4
      <4>4. s[k + 1] = t[k + 1] + (c * bin[1])
        BY <3>2, <3>3, <4>1, <4>2, <4>3
      <4> QED  BY <3>1, <4>4
    <3> QED  BY <3>5, <3>6
  <2> HIDE DEF P
  <2> QED  BY <1>1, <2>1, <2>2, Climb
<1>6. n \in P
  <2>1. n \in 0 .. n
    BY <1>1
  <2> HIDE DEF P
  <2> QED  BY <1>5, <2>1
<1>7. s[n] = t[n] + (c * bin[1])
  BY <1>1, <1>6
<1> QED  BY <1>1, <1>2, <1>3, <1>7

\* bin13_to_dec: the first weight is 100 too many.
LEMMA Bin13Value ==
    ASSUME NEW bin \in Seq(Bit), Len(bin) = 13
    PROVE  Bin13ToDec(bin) = Bin2dec(bin) + (100 * bin[1])
<1> DEFINE n == Len(bin)
           w == [i \in 1 .. n |-> 2 ^ (n - i)]
           u == <<4196, 2048, 1024, 512, 256, 128, 64, 32, 16, 8, 4, 2, 1>>
<1>1. n = 13 /\ n \in Nat /\ DOMAIN bin = 1 .. n
  OBVIOUS
<1>2. Bin2dec(bin) = Weighed(bin, w)
  BY <1>1 DEF Bin2dec
<1> HIDE DEF n
<1>3. w = <<4096, 2048, 1024, 512, 256, 128, 64, 32, 16, 8, 4, 2, 1>>
  BY <1>1, Powers
<1>4. Bin13ToDec(bin) = Weighed(bin, u)
  BY DEF Bin13ToDec
<1> HIDE DEF w
<1>5. /\ \A i \in 1 .. n : w[i] \in Nat /\ u[i] \in Nat
      /\ u[1] = w[1] + 100 /\ \A i \in 2 .. n : u[i] = w[i]
  BY <1>1, <1>3
<1> HIDE DEF u
<1> DEFINE c == 100
<1>6. c \in Nat /\ u[1] = w[1] + c
  BY <1>5
<1>7. /\ \A i \in 1 .. Len(bin) : w[i] \in Nat /\ u[i] \in Nat
      /\ \A i \in 2 .. Len(bin) : u[i] = w[i]
  BY <1>5 DEF n
<1>8. Len(bin) > 0
  OBVIOUS
<1> HIDE DEF c
<1>9. Weighed(bin, u) = Weighed(bin, w) + (c * bin[1])
  BY <1>6, <1>7, <1>8, FirstWeight
<1> QED  BY <1>2, <1>4, <1>9 DEF c

-----------------------------------------------------------------------------
\* The assembler: arguments and fields.

\* The number of a name that a table has once.
LEMMA NumberIs ==
    ASSUME NEW names, NEW i \in DOMAIN names, NEW name, names[i] = name,
           \A j \in DOMAIN names : names[j] = name => j = i
    PROVE  Number(name, names) = i - 1
  BY DEF Number

\* The numbers of the registers in REGS.
LEMMA RegisterNumbers ==
    /\ Number("r1", REGS) = 1 /\ Number("r2", REGS) = 2 /\ Number("r3", REGS) = 3
    /\ Number("r4", REGS) = 4 /\ Number("bp", REGS) = 5 /\ Number("sp", REGS) = 6
    /\ Number("pc", REGS) = 7
<1>1. DOMAIN REGS = 1 .. 8
  BY DEF REGS
<1>2. /\ REGS[1] = "r0" /\ REGS[2] = "r1" /\ REGS[3] = "r2" /\ REGS[4] = "r3"
      /\ REGS[5] = "r4" /\ REGS[6] = "bp" /\ REGS[7] = "sp" /\ REGS[8] = "pc"
  BY DEF REGS
<1>3. \A i \in 2 .. 8, j \in 1 .. 8 : REGS[j] = REGS[i] => j = i
  BY <1>2
<1>4. \A i \in 2 .. 8 : Number(REGS[i], REGS) = i - 1
  <2> HIDE DEF REGS
  <2> SUFFICES ASSUME NEW i \in 2 .. 8 PROVE Number(REGS[i], REGS) = i - 1
    OBVIOUS
  <2> QED  BY <1>1, <1>3, NumberIs
<1> QED  BY <1>2, <1>4

\* The number of a condition has three digits.
LEMMA ConditionNumbers ==
    ASSUME NEW c \in {COND[i] : i \in DOMAIN COND}
    PROVE  Number(c, COND) \in 0 .. 7
<1>1. DOMAIN COND = 1 .. 8
  BY DEF COND
<1>2. PICK i \in 1 .. 8 : COND[i] = c
  BY <1>1
<1>3. Number(c, COND) \in {j - 1 : j \in DOMAIN COND}
  BY <1>1, <1>2 DEF Number
<1> QED  BY <1>1, <1>3

\* The number of a short immediate has three digits, and leads back to it.
LEMMA ImmediateNumbers ==
    ASSUME NEW v \in {IRIMM[i] : i \in DOMAIN IRIMM}
    PROVE  Number(v, IRIMM) \in 0 .. 7 /\ IRIMM[Number(v, IRIMM) + 1] = v
<1>1. DOMAIN IRIMM = 1 .. 8
  BY DEF IRIMM
<1>2. \E i \in 1 .. 8 : IRIMM[i] = v
  BY <1>1
<1> DEFINE c == CHOOSE i \in 1 .. 8 : IRIMM[i] = v
<1>3. c \in 1 .. 8 /\ IRIMM[c] = v
  BY <1>2
<1>4. Number(v, IRIMM) = c - 1
  BY <1>1 DEF Number
<1> HIDE DEF c
<1> QED  BY <1>3, <1>4

\* The number of a register has three digits.
LEMMA RegisterType ==
    ASSUME NEW a \in Args, IsReg(a)
    PROVE  RegNumber(a) \in 0 .. 7
<1>1. \A i \in DOMAIN REGS : REGS[i] \in {"r0", "r1", "r2", "r3", "r4", "bp", "sp", "pc"}
  BY DEF REGS
<1>2. a.name \in {"", "r0", "r1", "r2", "r3", "r4", "r5", "r6", "bp", "sp", "pc"}
  BY <1>1 DEF IsReg
<1>3. CASE a.name \in {"", "r0", "r5", "r6"}
  <2>1. CASE a.name \in {"", "r0"}
    <3>1. CASE a.name = ""
      <4>1. RegNumber(a) = 0
        BY <3>1, Zenon DEF RegNumber
      <4> QED  BY <4>1
    <3>2. CASE a.name = "r0"
      BY <3>2 DEF RegNumber
    <3> QED  BY <2>1, <3>1, <3>2
  <2>2. CASE a.name = "r5"
    BY <2>2 DEF RegNumber
  <2>3. CASE a.name = "r6"
    BY <2>3 DEF RegNumber
  <2> QED  BY <1>3, <2>1, <2>2, <2>3
<1>4. CASE a.name \in {"r1", "r2", "r3", "r4", "bp", "sp", "pc"}
  <2>1. RegNumber(a) = Number(a.name, REGS)
    BY <1>4 DEF RegNumber
  <2> QED  BY <1>4, <2>1, RegisterNumbers
<1> QED  BY <1>2, <1>3, <1>4

\* Kinds of fields with an argument.
ArgumentKinds == {"reg", "imm10", "imm13br", "imm7", "imm7u", "imm4", "immir", "tgt2", "BPreg",
           "R0reg", "cond"}

Size(kind) ==
    CASE kind \in {"reg", "immir", "cond", "pad3"} -> 3
      [] kind = "imm10"   -> 10
      [] kind = "imm13br" -> 13
      [] kind \in {"imm7", "imm7u"} -> 7
      [] kind = "imm4" -> 4
      [] kind \in {"tgt2", "R0reg"} -> 2
      [] kind = "BPreg" -> 0
      [] kind = "pad6"  -> 6

\* A number in n digits and back.
LEMMA SmallNumber ==
    ASSUME NEW v \in Nat, NEW n \in Nat, v < 2 ^ n
    PROVE  Dec2bin(v, n) \in Seq(Bit) /\ Len(Dec2bin(v, n)) = n /\ Bin2dec(Dec2bin(v, n)) = v
<1>1. /\ Dec2bin(v, n) \in Seq(Bit) /\ Len(Dec2bin(v, n)) = n
      /\ Bin2dec(Dec2bin(v, n)) = v % 2 ^ n
  BY Dec2binValue
<1> DEFINE p == 2 ^ n
<1>2. p \in Nat \ {0} /\ v < p
  BY PowerOfTwo
<1>3. v % p = v
  <2> HIDE DEF p
  <2> QED  BY <1>2
<1> QED  BY <1>1, <1>3

\* A part of the digits of a number is a string of its length.
LEMMA FieldType ==
    ASSUME NEW w \in Nat, NEW sz \in Nat, NEW from \in Nat, NEW n \in Nat, from + n <= sz
    PROVE  LET bin == Field(Dec2bin(w, sz), from, n)
           IN  bin \in Seq(Bit) /\ Len(bin) = n
  BY FieldValue

\* n digits of a number, e digits from its end.
Slice(w, e, n) == (w \div 2 ^ e) % 2 ^ n

\* e digits follow the field.
LEMMA FieldNumber ==
    ASSUME NEW w \in Nat, NEW sz \in Nat, NEW from \in Nat, NEW n \in Nat, NEW e \in Nat,
           from + n + e = sz
    PROVE  Bin2dec(Field(Dec2bin(w, sz), from, n)) = Slice(w, e, n)
<1>1. Bin2dec(Field(Dec2bin(w, sz), from, n)) = (w \div 2 ^ (sz - from - n)) % 2 ^ n
  <2>1. from + n <= sz
    OBVIOUS
  <2> QED  BY <2>1, FieldValue
<1>2. sz - from - n = e
  OBVIOUS
<1> QED  BY <1>1, <1>2 DEF Slice

\* The last digits.
LowBits(w, n) == w % 2 ^ n

\* The last digits of a number are its remainder.
LEMMA LowDigits ==
    ASSUME NEW w \in Nat, NEW sz \in Nat, NEW from \in Nat, NEW n \in Nat, from + n = sz
    PROVE  LET bin == Field(Dec2bin(w, sz), from, n)
           IN  bin \in Seq(Bit) /\ Len(bin) = n /\ Bin2dec(bin) = LowBits(w, n)
<1>1. 0 \in Nat /\ from + n + 0 = sz
  OBVIOUS
<1>2. Bin2dec(Field(Dec2bin(w, sz), from, n)) = Slice(w, 0, n)
  BY <1>1, FieldNumber
<1>3. w \div 2 ^ 0 = w
  BY Powers
<1>4. Slice(w, 0, n) = LowBits(w, n)
  BY <1>3 DEF Slice, LowBits
<1> QED  BY <1>2, <1>4, FieldType

\* p is the number of the values of n bits that are not negative.
HalfRange(n, p) == p = 2 ^ (n - 1) /\ \E c \in Nat : 65536 = (2 * p) * c

\* bitsfromint: n digits of an integer of n bits, sign included.
LEMMA SignedNumber ==
    ASSUME NEW v \in Int, NEW n \in 1 .. 16, NEW p \in Nat, HalfRange(n, p), v < p, -p < v
    PROVE  LET bin == Bitsfromint(v, n)
           IN  /\ bin \in Seq(Bit) /\ Len(bin) = n
               /\ Sbin2dec(bin) = v
<1> DEFINE bin == Bitsfromint(v, n)
           x == Bin2dec(bin)
<1>0. PICK c \in Nat : p = 2 ^ (n - 1) /\ 65536 = (2 * p) * c
  BY DEF HalfRange
<1>1. p \in Nat /\ p > 0 /\ 2 ^ n = 2 * p
  <2>1. n - 1 \in Nat /\ (n - 1) + 1 = n
    OBVIOUS
  <2>2. 2 ^ ((n - 1) + 1) = 2 * 2 ^ (n - 1)
    BY <2>1, PowerStep
  <2> QED  BY <1>0, <2>1, <2>2, PowerOfTwo
<1>2. bin \in Seq(Bit) /\ Len(bin) = n /\ x = IF v < 0 THEN v + 2 * p ELSE v
  <2>1. CASE v >= 0
    <3>1. v \in Nat /\ n \in Nat /\ v < 2 ^ n
      BY <1>1, <2>1
    <3>2. bin = Dec2bin(v, n)
      BY <2>1 DEF Bitsfromint
    <3> QED  BY <2>1, <3>1, <3>2, SmallNumber
  <2>2. CASE v < 0
    <3> DEFINE u == v % 65536
    <3>1. u \in Nat /\ bin = Field(Dec2bin(u, 16), 16 - n, n)
      BY <2>2 DEF Bitsfromint
    <3>10. v > -65536
      BY <1>0, <1>1
    <3> HIDE DEF u, bin, x
    <3>3. /\ bin \in Seq(Bit) /\ Len(bin) = n
          /\ Bin2dec(bin) = LowBits(u, n)
      <4>1. 16 \in Nat /\ n \in Nat /\ 16 - n \in Nat /\ (16 - n) + n = 16
        OBVIOUS
      <4> QED  BY <3>1, <4>1, LowDigits
    <3>7. x = u % (2 * p)
      BY <1>1, <3>3 DEF x, LowBits
    <3>8. c - 1 \in Int /\ v + 2 * p \in 0 .. (2 * p) - 1
      BY <1>1, <2>2
    <3>9. u = v + 65536
      BY <2>2, <3>10 DEF u
    <3>11. u = (2 * p) * (c - 1) + (v + 2 * p)
      <4>1. (2 * p) * (c - 1) = (2 * p) * c - 2 * p
        BY <1>0, <1>1
      <4> QED  BY <1>0, <1>1, <3>9, <4>1
    <3> DEFINE b == 2 * p
               r == v + 2 * p
    <3>12. b \in Nat /\ b > 0 /\ r \in 0 .. b - 1 /\ u = b * (c - 1) + r /\ x = u % b
      BY <1>1, <3>7, <3>8, <3>11
    <3>13. x = r
      <4> HIDE DEF b, r
      <4> QED  BY <3>8, <3>12, Division
    <3> QED  BY <2>2, <3>3, <3>13
  <2> QED  BY <2>1, <2>2
<1>3. Sbin2dec(bin) = IF x >= p THEN x - 2 * p ELSE x
  <2> HIDE DEF bin
  <2> QED  BY <1>0, <1>2, SbinValue
<1>4. (IF x >= p THEN x - 2 * p ELSE x) = v
  <2> HIDE DEF bin, x
  <2> QED  BY <1>1, <1>2
<1> HIDE DEF x
<1> QED  BY <1>2, <1>3, <1>4

\* The targets of two digits.
LEMMA SmallTargets ==
    ASSUME NEW a, a.name \in {"r1", "r2", "r3", "r4"}
    PROVE  Reg2(a) \in 0 .. 3 /\ Reg2(a) + 1 = RegNumber(a)
<1>1. RegNumber(a) = Number(a.name, REGS)
  BY DEF RegNumber
<1> QED  BY <1>1, RegisterNumbers DEF Reg2

\* The ranges of the signed immediates.
LEMMA HalfRanges ==
    HalfRange(7, 64) /\ HalfRange(10, 512) /\ HalfRange(13, 4096)
<1>1. /\ 7 - 1 = 6 /\ 65536 = (2 * 64) * 512 /\ 10 - 1 = 9 /\ 65536 = (2 * 512) * 64
      /\ 13 - 1 = 12 /\ 65536 = (2 * 4096) * 8 /\ 512 \in Nat /\ 64 \in Nat /\ 8 \in Nat
  OBVIOUS
<1>2. HalfRange(7, 64)
  <2>1. 64 = 2 ^ (7 - 1)
    BY <1>1, Powers
  <2>2. \E c \in Nat : 65536 = (2 * 64) * c
    BY <1>1
  <2> QED  BY <2>1, <2>2 DEF HalfRange
<1>3. HalfRange(10, 512)
  <2>1. 512 = 2 ^ (10 - 1)
    BY <1>1, Powers
  <2>2. \E c \in Nat : 65536 = (2 * 512) * c
    BY <1>1
  <2> QED  BY <2>1, <2>2 DEF HalfRange
<1>4. HalfRange(13, 4096)
  <2>1. 4096 = 2 ^ (13 - 1)
    BY <1>1, Powers
  <2>2. \E c \in Nat : 65536 = (2 * 4096) * c
    BY <1>1
  <2> QED  BY <2>1, <2>2 DEF HalfRange
<1> QED  BY <1>2, <1>3, <1>4

\* A signed immediate is read as it was written.
LEMMA SignedImmediate ==
    ASSUME NEW a \in Args, NEW n \in {7, 10, 13}, Signed(a, n)
    PROVE  LET bin == Bitsfromint(a.val, n)
           IN  bin \in Seq(Bit) /\ Len(bin) = n /\ Sbin2dec(bin) = a.val
<1>1. PICK p \in Nat : HalfRange(n, p)
  BY HalfRanges
<1>2. n \in 1 .. 16
  OBVIOUS
<1> DEFINE v == a.val
<1>3. v \in Int
  BY DEF Args
<1>4. v \in -(p - 1) .. p - 1
  <2>1. v \in -(2 ^ (n - 1) - 1) .. 2 ^ (n - 1) - 1
    BY DEF Signed
  <2>2. p = 2 ^ (n - 1)
    BY <1>1 DEF HalfRange
  <2> HIDE DEF v
  <2> QED  BY <2>1, <2>2, Zenon
<1> HIDE DEF v
<1>5. v < p /\ -p < v
  BY <1>3, <1>4
<1>6. LET bin == Bitsfromint(v, n)
      IN  bin \in Seq(Bit) /\ Len(bin) = n /\ Sbin2dec(bin) = v
  BY <1>1, <1>2, <1>3, <1>5, SignedNumber
<1> QED  BY <1>6 DEF v

\* An unsigned immediate is read as it was written.
LEMMA UnsignedImmediate ==
    ASSUME NEW v \in Nat, NEW n \in Nat, v < 2 ^ n
    PROVE  LET bin == Bitsfromint(v, n)
           IN  bin \in Seq(Bit) /\ Len(bin) = n /\ Bin2dec(bin) = v
<1>1. Bitsfromint(v, n) = Dec2bin(v, n)
  BY DEF Bitsfromint
<1> QED  BY <1>1, SmallNumber

\* A number of three digits is read as it was written.
LEMMA ThreeDigits ==
    ASSUME NEW v \in 0 .. 7
    PROVE  /\ Digits3(v) \in Seq(Bit) /\ Len(Digits3(v)) = 3 /\ Bin2dec(Digits3(v)) = v
<1>1. v \in Nat /\ v < 2 ^ 3 /\ 3 \in Nat
  BY Powers
<1> QED  BY <1>1, SmallNumber DEF Digits3

\* What an argument becomes: digits, as many as its field has, with its value.
LEMMA EncodedValue ==
    ASSUME NEW kind \in ArgumentKinds, NEW a \in Args, Fits(kind, a)
    PROVE  LET bin == Encoded(kind, a)
           IN  /\ bin \in Seq(Bit) /\ Len(bin) = Size(kind)
               /\ kind = "reg" => Bin2dec(bin) = RegNumber(a) /\ RegNumber(a) \in 0 .. 7
               /\ kind \in {"imm10", "imm13br", "imm7"} => Sbin2dec(bin) = a.val
               /\ kind \in {"imm4", "imm7u"} => Bin2dec(bin) = a.val
               /\ kind = "immir" => Bin2dec(bin) = Number(a.val, IRIMM)
               /\ kind = "tgt2" => Bin2dec(bin) + 1 = RegNumber(a)
               /\ kind = "cond" => Bin2dec(bin) = Number(a.name, COND)
<1>0. a.val \in Int
  BY DEF Args
<1>1. CASE kind = "reg"
  <2>1. RegNumber(a) \in 0 .. 7
    BY <1>1, RegisterType DEF Fits
  <2>2. Encoded(kind, a) = Digits3(RegNumber(a)) /\ Size(kind) = 3
    BY <1>1 DEF Encoded, Size
  <2> QED  BY <1>1, <2>1, <2>2, ThreeDigits
<1>2. CASE kind \in {"imm10", "imm13br", "imm7"}
  <2> DEFINE n == Size(kind)
  <2>1. n \in {7, 10, 13} /\ Signed(a, n) /\ Encoded(kind, a) = Bitsfromint(a.val, n)
    BY <1>2 DEF Fits, Encoded, Size
  <2> HIDE DEF n
  <2>2. LET bin == Encoded(kind, a)
        IN  bin \in Seq(Bit) /\ Len(bin) = n /\ Sbin2dec(bin) = a.val
    BY <2>1, SignedImmediate
  <2> QED  BY <1>2, <2>2 DEF n
<1>3. CASE kind \in {"imm4", "imm7u"}
  <2> DEFINE n == Size(kind)
  <2>1. n \in {4, 7} /\ Encoded(kind, a) = Bitsfromint(a.val, n)
    BY <1>3 DEF Encoded, Size
  <2>2. n \in Nat /\ a.val \in Nat /\ a.val < 2 ^ n
    <3>1. kind = "imm4" => n = 4 /\ a.val \in 1 .. 15
      BY DEF Fits, Size
    <3>2. kind = "imm7u" => n = 7 /\ a.val \in 0 .. 127
      BY DEF Fits, Size
    <3> HIDE DEF n
    <3>3. CASE kind = "imm4"
      <4>1. a.val < 16 /\ 2 ^ n = 16
        BY <3>1, <3>3, Powers
      <4> QED  BY <3>1, <3>3, <4>1
    <3>4. CASE kind = "imm7u"
      <4>1. a.val < 128 /\ 2 ^ n = 128
        BY <3>2, <3>4, Powers
      <4> QED  BY <3>2, <3>4, <4>1
    <3> QED  BY <1>3, <3>3, <3>4
  <2> HIDE DEF n
  <2>3. LET bin == Encoded(kind, a)
        IN  bin \in Seq(Bit) /\ Len(bin) = n /\ Bin2dec(bin) = a.val
    BY <2>1, <2>2, UnsignedImmediate
  <2> QED  BY <1>3, <2>3 DEF n
<1>4. CASE kind = "immir"
  <2> DEFINE v == Number(a.val, IRIMM)
  <2>1. v \in 0 .. 7
    BY <1>4, ImmediateNumbers DEF Fits
  <2>2. Encoded(kind, a) = Digits3(v) /\ Size(kind) = 3
    BY <1>4 DEF Encoded, Size
  <2> QED  BY <1>4, <2>1, <2>2, ThreeDigits
<1>5. CASE kind = "tgt2"
  <2> DEFINE v == Reg2(a)
  <2>1. v \in 0 .. 3 /\ v + 1 = RegNumber(a)
    BY <1>5, SmallTargets DEF Fits
  <2>2. Encoded(kind, a) = Dec2bin(v, 2) /\ Size(kind) = 2
    BY <1>5 DEF Encoded, Size
  <2>3. v \in Nat /\ v < 2 ^ 2 /\ 2 \in Nat
    BY <2>1, Powers
  <2> HIDE DEF v
  <2>4. Dec2bin(v, 2) \in Seq(Bit) /\ Len(Dec2bin(v, 2)) = 2 /\ Bin2dec(Dec2bin(v, 2)) = v
    BY <2>3, SmallNumber
  <2>5. /\ Encoded(kind, a) \in Seq(Bit) /\ Len(Encoded(kind, a)) = Size(kind)
        /\ Bin2dec(Encoded(kind, a)) + 1 = RegNumber(a)
    BY <2>1, <2>2, <2>4
  <2> QED  BY <1>5, <2>5
<1>6. CASE kind = "cond"
  <2> DEFINE v == Number(a.name, COND)
  <2>1. v \in 0 .. 7
    BY <1>6, ConditionNumbers DEF Fits
  <2>2. Encoded(kind, a) = Digits3(v) /\ Size(kind) = 3
    BY <1>6 DEF Encoded, Size
  <2> HIDE DEF v
  <2>3. /\ Encoded(kind, a) \in Seq(Bit) /\ Len(Encoded(kind, a)) = Size(kind)
        /\ Bin2dec(Encoded(kind, a)) = v
    BY <2>1, <2>2, ThreeDigits
  <2> QED  BY <1>6, <2>3 DEF v
<1>7. CASE kind = "BPreg"
  <2>1. Encoded(kind, a) = << >> /\ Size(kind) = 0
    BY <1>7 DEF Encoded, Size
  <2>2. << >> \in Seq(Bit) /\ Len(<< >>) = 0
    OBVIOUS
  <2>3. Encoded(kind, a) \in Seq(Bit) /\ Len(Encoded(kind, a)) = Size(kind)
    BY <2>1, <2>2
  <2> QED  BY <1>7, <2>3
<1>8. CASE kind = "R0reg"
  <2>1. Encoded(kind, a) = <<0, 0>> /\ Size(kind) = 2
    BY <1>8 DEF Encoded, Size
  <2>2. <<0, 0>> \in Seq(Bit) /\ Len(<<0, 0>>) = 2
    BY DEF Bit
  <2> QED  BY <1>8, <2>1, <2>2
<1> QED  BY <1>1, <1>2, <1>3, <1>4, <1>5, <1>6, <1>7, <1>8 DEF ArgumentKinds

-----------------------------------------------------------------------------
\* The assembler: commands, templates and lines.

\* The templates, by command.
LEMMA TemplateOf ==
    ASSUME NEW cmd
    PROVE
    /\ cmd \in {"ldi", "lda"} => Template(cmd) = <<<<"imm10", 2>>, <<"reg", 1>>>>
    /\ cmd = "br" => Template(cmd) = <<<<"imm13br", 1>>>>
    /\ cmd \in {"ldw", "ldb"} =>
          Template(cmd) = <<<<"imm7", 2>>, <<"BPreg", 3>>, <<"tgt2", 1>>>>
    /\ cmd \in {"stw", "stb"} =>
          Template(cmd) = <<<<"imm7", 1>>, <<"BPreg", 2>>, <<"tgt2", 3>>>>
    /\ cmd \in {"stw0", "stb0"} =>
          Template(cmd) = <<<<"imm7", 1>>, <<"BPreg", 2>>, <<"R0reg", 3>>>>
    /\ cmd = "mov" => Template(cmd) = <<<<"reg", 2>>, <<"pad3", 0>>, <<"reg", 1>>>>
    /\ cmd = "skip" => Template(cmd) = <<<<"reg", 1>>, <<"reg", 2>>, <<"cond", 3>>>>
    /\ cmd \in AluImm \cup Addskpi =>
          Template(cmd) = <<<<"immir", 3>>, <<"reg", 2>>, <<"reg", 1>>>>
    /\ cmd \in {"stw.b", "stb.b"} =>
          Template(cmd) = <<<<"reg", 1>>, <<"reg", 2>>, <<"reg", 3>>>>
    /\ cmd = "sext" => Template(cmd) = <<<<"reg", 1>>, <<"pad3", 0>>, <<"reg", 2>>>>
    /\ cmd = "addhi" => Template(cmd) = <<<<"imm7u", 2>>, <<"tgt2", 1>>>>
    /\ cmd \in {"push", "pop", "br.r", "push.u", "pop.u", "lcr", "lcr.u", "lptb", "wivec"} =>
          Template(cmd) = <<<<"pad6", 0>>, <<"reg", 1>>>>
    /\ cmd \in {"wcr", "wcr.u", "wptb"} => Template(cmd) = <<<<"reg", 1>>, <<"pad6", 0>>>>
    /\ cmd = "wpte" => Template(cmd) = <<<<"reg", 1>>, <<"reg", 2>>, <<"pad3", 0>>>>
    /\ cmd = "lpte" => Template(cmd) = <<<<"reg", 2>>, <<"pad3", 0>>, <<"reg", 1>>>>
    /\ cmd \in {"shl", "shr"} =>
          Template(cmd) = <<<<"imm4", 3>>, <<"reg", 2>>, <<"tgt2", 1>>>>
    /\ cmd \in {"syscall", "reti", "brk", "rsi", "hlt", "nop"} => Template(cmd) = << >>
    /\ cmd \in {"add", "sub", "and", "or", "shl.r", "shr.r", "addskp.z", "addskp.nz",
                "ldw.b", "ldb.b"} =>
          Template(cmd) = <<<<"reg", 2>>, <<"reg", 3>>, <<"reg", 1>>>>
  BY DEF Template, AluImm, Addskpi

GoodField(f) ==
    \/ f[2] = 0 /\ f[1] \in {"pad3", "pad6"}
    \/ f[2] \in 1 .. 3 /\ f[1] \in ArgumentKinds

AllCommands ==
    {"ldi", "br", "ldw", "ldb", "stw", "stb", "stw0", "stb0", "add", "sub", "and", "or",
     "skip", "addskp.z", "addskp.nz", "addi", "subi", "andi", "ori", "addskpi.z",
     "addskpi.nz", "ldw.b", "ldb.b", "stw.b", "stb.b", "sext", "addhi", "push", "pop",
     "br.r", "syscall", "reti", "push.u", "brk", "lcr", "wcr", "wpte", "lpte", "wptb",
     "lptb", "wivec", "shl", "shr", "shl.r", "shr.r", "pop.u", "lcr.u", "wcr.u", "rsi",
     "lda", "mov", "hlt", "nop"}

\* The table of commands, entry by entry.
LEMMA AsmTable ==
    /\ DOMAIN AsmOps = 1 .. 53
    /\ AsmOps[1] = "ldi" /\ AsmOps[2] = "br" /\ AsmOps[3] = "" /\ AsmOps[4] = ""
    /\ AsmOps[9] = "stw0" /\ AsmOps[10] = "stb0" /\ AsmOps[11] = "add"
    /\ AsmOps[25] = "ldw.b" /\ AsmOps[26] = "ldb.b" /\ AsmOps[27] = "stw.b"
    /\ AsmOps[28] = "stb.b"
    /\ \A k \in 1 .. 53 :
          /\ AsmOps[k] \in AllCommands \cup {""}
          /\ AsmOps[k] \notin {"lda", "mov", "hlt", "nop"}
          /\ k \in 5 .. 53 => AsmOps[k] \notin {"ldi", "br"}
<1>1. DOMAIN AsmOps = 1 .. 53
  BY DEF AsmOps
<1>2. /\ AsmOps[1] = "ldi" /\ AsmOps[2] = "br" /\ AsmOps[3] = "" /\ AsmOps[4] = ""
      /\ AsmOps[5] = "ldw" /\ AsmOps[6] = "ldb" /\ AsmOps[7] = "stw" /\ AsmOps[8] = "stb"
      /\ AsmOps[9] = "stw0" /\ AsmOps[10] = "stb0" /\ AsmOps[11] = "add"
      /\ AsmOps[12] = "sub" /\ AsmOps[13] = "and" /\ AsmOps[14] = "or" /\ AsmOps[15] = "skip"
      /\ AsmOps[16] = "addskp.z" /\ AsmOps[17] = "addskp.nz" /\ AsmOps[18] = "addi"
      /\ AsmOps[19] = "subi" /\ AsmOps[20] = "andi" /\ AsmOps[21] = "ori" /\ AsmOps[22] = ""
      /\ AsmOps[23] = "addskpi.z" /\ AsmOps[24] = "addskpi.nz" /\ AsmOps[25] = "ldw.b"
      /\ AsmOps[26] = "ldb.b" /\ AsmOps[27] = "stw.b" /\ AsmOps[28] = "stb.b"
      /\ AsmOps[29] = "sext" /\ AsmOps[30] = "" /\ AsmOps[31] = "addhi"
      /\ AsmOps[32] = "push" /\ AsmOps[33] = "pop" /\ AsmOps[34] = "br.r"
      /\ AsmOps[35] = "syscall" /\ AsmOps[36] = "reti" /\ AsmOps[37] = "push.u"
      /\ AsmOps[38] = "brk" /\ AsmOps[39] = "lcr" /\ AsmOps[40] = "wcr"
      /\ AsmOps[41] = "wpte" /\ AsmOps[42] = "lpte" /\ AsmOps[43] = "wptb"
      /\ AsmOps[44] = "lptb" /\ AsmOps[45] = "wivec" /\ AsmOps[46] = "shl"
      /\ AsmOps[47] = "shr" /\ AsmOps[48] = "shl.r" /\ AsmOps[49] = "shr.r"
      /\ AsmOps[50] = "pop.u" /\ AsmOps[51] = "lcr.u" /\ AsmOps[52] = "wcr.u"
      /\ AsmOps[53] = "rsi"
  BY DEF AsmOps
<1> HIDE DEF AsmOps
<1> DEFINE Known(k) == /\ AsmOps[k] \in AllCommands \cup {""}
                       /\ AsmOps[k] \notin {"lda", "mov", "hlt", "nop"}
                       /\ k > 4 => AsmOps[k] \notin {"ldi", "br"}
<1>3. \A k \in 1 .. 4 : Known(k)
  <2>1. /\ AsmOps[1] = "ldi" /\ AsmOps[2] = "br" /\ AsmOps[3] = "" /\ AsmOps[4] = ""
    BY <1>2
  <2>6. ~(1 > 4) /\ ~(2 > 4)
    OBVIOUS
  <2>7. "ldi" \in AllCommands /\ "br" \in AllCommands
    BY DEF AllCommands
  <2>8. /\ AsmOps[1] \notin {"lda", "mov", "hlt", "nop"}
        /\ AsmOps[2] \notin {"lda", "mov", "hlt", "nop"}
    BY <2>1
  <2>4. Known(1) /\ Known(2)
    BY <2>1, <2>6, <2>7, <2>8
  <2>5. Known(3) /\ Known(4)
    BY <2>1
  <2>2. Known(1) /\ Known(2) /\ Known(3) /\ Known(4)
    BY <2>4, <2>5
  <2> HIDE DEF Known
  <2>3. \A k \in 1 .. 4 : \/ k = 1 \/ k = 2 \/ k = 3 \/ k = 4
    OBVIOUS
  <2> QED  BY <2>2, <2>3
<1>4. \A k \in 5 .. 13 : Known(k)
  <2>1. /\ AsmOps[5] = "ldw" /\ AsmOps[6] = "ldb" /\ AsmOps[7] = "stw" /\ AsmOps[8] = "stb"
        /\ AsmOps[9] = "stw0" /\ AsmOps[10] = "stb0" /\ AsmOps[11] = "add"
        /\ AsmOps[12] = "sub" /\ AsmOps[13] = "and"
    BY <1>2
  <2>2. /\ Known(5) /\ Known(6) /\ Known(7) /\ Known(8) /\ Known(9) /\ Known(10)
        /\ Known(11) /\ Known(12) /\ Known(13)
    BY <2>1 DEF AllCommands
  <2> HIDE DEF Known
  <2>3. \A k \in 5 .. 13 : \/ k = 5 \/ k = 6 \/ k = 7 \/ k = 8 \/ k = 9 \/ k = 10 \/ k = 11
                           \/ k = 12 \/ k = 13
    OBVIOUS
  <2> QED  BY <2>2, <2>3
<1>5. \A k \in 14 .. 22 : Known(k)
  <2>1. /\ AsmOps[14] = "or" /\ AsmOps[15] = "skip" /\ AsmOps[16] = "addskp.z"
        /\ AsmOps[17] = "addskp.nz" /\ AsmOps[18] = "addi" /\ AsmOps[19] = "subi"
        /\ AsmOps[20] = "andi" /\ AsmOps[21] = "ori" /\ AsmOps[22] = ""
    BY <1>2
  <2>2. /\ Known(14) /\ Known(15) /\ Known(16) /\ Known(17) /\ Known(18) /\ Known(19)
        /\ Known(20) /\ Known(21) /\ Known(22)
    BY <2>1 DEF AllCommands
  <2> HIDE DEF Known
  <2>3. \A k \in 14 .. 22 : \/ k = 14 \/ k = 15 \/ k = 16 \/ k = 17 \/ k = 18 \/ k = 19
                            \/ k = 20 \/ k = 21 \/ k = 22
    OBVIOUS
  <2> QED  BY <2>2, <2>3
<1>6. \A k \in 23 .. 31 : Known(k)
  <2>1. /\ AsmOps[23] = "addskpi.z" /\ AsmOps[24] = "addskpi.nz" /\ AsmOps[25] = "ldw.b"
        /\ AsmOps[26] = "ldb.b" /\ AsmOps[27] = "stw.b" /\ AsmOps[28] = "stb.b"
        /\ AsmOps[29] = "sext" /\ AsmOps[30] = "" /\ AsmOps[31] = "addhi"
    BY <1>2
  <2>2. /\ Known(23) /\ Known(24) /\ Known(25) /\ Known(26) /\ Known(27) /\ Known(28)
        /\ Known(29) /\ Known(30) /\ Known(31)
    BY <2>1 DEF AllCommands
  <2> HIDE DEF Known
  <2>3. \A k \in 23 .. 31 : \/ k = 23 \/ k = 24 \/ k = 25 \/ k = 26 \/ k = 27 \/ k = 28
                            \/ k = 29 \/ k = 30 \/ k = 31
    OBVIOUS
  <2> QED  BY <2>2, <2>3
<1>7. \A k \in 32 .. 40 : Known(k)
  <2>1. /\ AsmOps[32] = "push" /\ AsmOps[33] = "pop" /\ AsmOps[34] = "br.r"
        /\ AsmOps[35] = "syscall" /\ AsmOps[36] = "reti" /\ AsmOps[37] = "push.u"
        /\ AsmOps[38] = "brk" /\ AsmOps[39] = "lcr" /\ AsmOps[40] = "wcr"
    BY <1>2
  <2>2. /\ Known(32) /\ Known(33) /\ Known(34) /\ Known(35) /\ Known(36) /\ Known(37)
        /\ Known(38) /\ Known(39) /\ Known(40)
    BY <2>1 DEF AllCommands
  <2> HIDE DEF Known
  <2>3. \A k \in 32 .. 40 : \/ k = 32 \/ k = 33 \/ k = 34 \/ k = 35 \/ k = 36 \/ k = 37
                            \/ k = 38 \/ k = 39 \/ k = 40
    OBVIOUS
  <2> QED  BY <2>2, <2>3
<1>8. \A k \in 41 .. 47 : Known(k)
  <2>1. /\ AsmOps[41] = "wpte" /\ AsmOps[42] = "lpte" /\ AsmOps[43] = "wptb"
        /\ AsmOps[44] = "lptb" /\ AsmOps[45] = "wivec" /\ AsmOps[46] = "shl"
        /\ AsmOps[47] = "shr"
    BY <1>2
  <2>2. /\ Known(41) /\ Known(42) /\ Known(43) /\ Known(44) /\ Known(45) /\ Known(46)
        /\ Known(47)
    BY <2>1 DEF AllCommands
  <2> HIDE DEF Known
  <2>3. \A k \in 41 .. 47 : \/ k = 41 \/ k = 42 \/ k = 43 \/ k = 44 \/ k = 45 \/ k = 46
                            \/ k = 47
    OBVIOUS
  <2> QED  BY <2>2, <2>3
<1>9. \A k \in 48 .. 53 : Known(k)
  <2>1. /\ AsmOps[48] = "shl.r" /\ AsmOps[49] = "shr.r" /\ AsmOps[50] = "pop.u"
        /\ AsmOps[51] = "lcr.u" /\ AsmOps[52] = "wcr.u" /\ AsmOps[53] = "rsi"
    BY <1>2
  <2>2. /\ Known(48) /\ Known(49) /\ Known(50) /\ Known(51) /\ Known(52) /\ Known(53)
    BY <2>1 DEF AllCommands
  <2> HIDE DEF Known
  <2>3. \A k \in 48 .. 53 : \/ k = 48 \/ k = 49 \/ k = 50 \/ k = 51 \/ k = 52 \/ k = 53
    OBVIOUS
  <2> QED  BY <2>2, <2>3
<1> HIDE DEF Known
<1>10. \A k \in 1 .. 53 : Known(k)
  BY <1>3, <1>4, <1>5, <1>6, <1>7, <1>8, <1>9
<1>11. \A k \in 1 .. 53 : k \in 5 .. 53 => k > 4
  OBVIOUS
<1>12. \A k \in 1 .. 53 : /\ AsmOps[k] \in AllCommands \cup {""}
                          /\ AsmOps[k] \notin {"lda", "mov", "hlt", "nop"}
                          /\ k \in 5 .. 53 => AsmOps[k] \notin {"ldi", "br"}
  BY <1>10, <1>11 DEF Known
<1> QED  BY <1>1, <1>2, <1>12

\* The opcode of a command leads back to it, but for four that have no place of their own.
LEMMA Opcodes ==
    ASSUME NEW cmd \in Commands
    PROVE  /\ cmd \in AllCommands
           /\ Opcode(cmd) \in Nat
           /\ cmd \notin {"lda", "mov", "hlt", "nop"} =>
                 /\ Opcode(cmd) \in 0 .. 52 /\ AsmOps[Opcode(cmd) + 1] = cmd
                 /\ cmd \notin {"ldi", "br"} => Opcode(cmd) \in 4 .. 52
           /\ cmd \in {"ldi", "lda"} => Opcode(cmd) = 0
           /\ cmd = "br" => Opcode(cmd) = 1
           /\ cmd = "mov" => Opcode(cmd) = 10
           /\ cmd = "hlt" => Opcode(cmd) = 63
           /\ cmd = "nop" => Opcode(cmd) = 200
<1>1. CASE cmd \in {"lda", "mov", "hlt", "nop"}
  BY <1>1 DEF Opcode, AllCommands
<1>2. CASE cmd \notin {"lda", "mov", "hlt", "nop"}
  <2>1. PICK i \in 1 .. 53 : AsmOps[i] = cmd /\ cmd # ""
    BY <1>2, AsmTable DEF Commands
  <2>2. Opcode(cmd) = Number(cmd, AsmOps)
    BY <1>2 DEF Opcode
  <2> DEFINE k == CHOOSE j \in DOMAIN AsmOps : AsmOps[j] = cmd
  <2>3. k \in 1 .. 53 /\ AsmOps[k] = cmd
    BY <2>1, AsmTable
  <2>4. Opcode(cmd) = k - 1
    BY <2>2 DEF Number
  <2> HIDE DEF k
  <2>5. k \in 5 .. 53 \/ k = 1 \/ k = 2 \/ k = 3 \/ k = 4
    BY <2>3
  <2>6. k \in 5 .. 53 => AsmOps[k] \notin {"ldi", "br"}
    BY <2>3, AsmTable
  <2>7. /\ cmd = "ldi" => k = 1
        /\ cmd = "br" => k = 2
        /\ cmd \notin {"ldi", "br"} => k \in 5 .. 53
    BY <2>1, <2>3, <2>5, <2>6, AsmTable
  <2>8. cmd \in AllCommands
    BY <2>1, AsmTable
  <2> QED  BY <1>2, <2>3, <2>4, <2>7, <2>8
<1> QED  BY <1>1, <1>2

\* ldw, ldb, stw and stb stand for commands.
LEMMA CommandType ==
    ASSUME NEW l, l.cmd \in Commands
    PROVE  Command(l) \in Commands
<1>1. {"stw0", "stb0", "ldw.b", "ldb.b", "stw.b", "stb.b"} \subseteq Commands
  <2>1. /\ 9 \in 1 .. 53 /\ 10 \in 1 .. 53 /\ 25 \in 1 .. 53 /\ 26 \in 1 .. 53
        /\ 27 \in 1 .. 53 /\ 28 \in 1 .. 53
    OBVIOUS
  <2>2. ASSUME NEW k \in 1 .. 53 PROVE AsmOps[k] = "" \/ AsmOps[k] \in Commands
    BY AsmTable DEF Commands
  <2>3. /\ AsmOps[9] = "stw0" /\ AsmOps[10] = "stb0" /\ AsmOps[25] = "ldw.b"
        /\ AsmOps[26] = "ldb.b" /\ AsmOps[27] = "stw.b" /\ AsmOps[28] = "stb.b"
    BY AsmTable
  <2>4. "stw0" \in Commands /\ "stb0" \in Commands
    BY <2>1, <2>2, <2>3
  <2>5. "ldw.b" \in Commands /\ "ldb.b" \in Commands
    BY <2>1, <2>2, <2>3
  <2>6. "stw.b" \in Commands /\ "stb.b" \in Commands
    BY <2>1, <2>2, <2>3
  <2> QED  BY <2>4, <2>5, <2>6
<1> QED  BY <1>1 DEF Command, ZeroStore, Based

\* Every template consists of fields that take an argument and of padding.
LEMMA Templates ==
    ASSUME NEW cmd \in AllCommands, NEW k \in DOMAIN Template(cmd)
    PROVE  k \in 1 .. 3 /\ GoodField(Template(cmd)[k])
<1> DEFINE Good(t) == \A j \in DOMAIN t : j \in 1 .. 3 /\ GoodField(t[j])
<1>1. ASSUME NEW a, NEW b, NEW c, GoodField(a), GoodField(b), GoodField(c)
      PROVE  Good(<< >>) /\ Good(<<a>>) /\ Good(<<a, b>>) /\ Good(<<a, b, c>>)
  BY <1>1
<1>2. \A kind \in ArgumentKinds, n \in 1 .. 3 : GoodField(<<kind, n>>)
  BY DEF GoodField
<1>3. GoodField(<<"pad3", 0>>) /\ GoodField(<<"pad6", 0>>)
  BY DEF GoodField
<1>4. /\ {"reg", "imm10", "imm13br", "imm7", "imm7u", "imm4", "immir", "tgt2", "BPreg", "R0reg",
          "cond"} \subseteq ArgumentKinds
      /\ 1 \in 1 .. 3 /\ 2 \in 1 .. 3 /\ 3 \in 1 .. 3
  BY DEF ArgumentKinds
<1>5. GoodField(<<"reg", 1>>) /\ GoodField(<<"reg", 2>>) /\ GoodField(<<"reg", 3>>)
  BY <1>2, <1>4
<1> HIDE DEF Good
<1>6. CASE cmd \in {"ldi", "lda"}
  <2>1. Template(cmd) = <<<<"imm10", 2>>, <<"reg", 1>>>>
    BY <1>6, TemplateOf
  <2>2. GoodField(<<"imm10", 2>>)
    BY <1>2, <1>4
  <2>3. Good(<<<<"imm10", 2>>, <<"reg", 1>>>>)
    BY <1>1, <1>3, <1>5, <2>2
  <2> QED  BY <2>1, <2>3 DEF Good
<1>7. CASE cmd = "br"
  <2>1. Template(cmd) = <<<<"imm13br", 1>>>>
    BY <1>7, TemplateOf
  <2>2. GoodField(<<"imm13br", 1>>)
    BY <1>2, <1>4
  <2>3. Good(<<<<"imm13br", 1>>>>)
    BY <1>1, <1>3, <1>5, <2>2
  <2> QED  BY <2>1, <2>3 DEF Good
<1>8. CASE cmd \in {"ldw", "ldb"}
  <2>1. Template(cmd) = <<<<"imm7", 2>>, <<"BPreg", 3>>, <<"tgt2", 1>>>>
    BY <1>8, TemplateOf
  <2>2. GoodField(<<"imm7", 2>>) /\ GoodField(<<"BPreg", 3>>) /\ GoodField(<<"tgt2", 1>>)
    BY <1>2, <1>4
  <2>3. Good(<<<<"imm7", 2>>, <<"BPreg", 3>>, <<"tgt2", 1>>>>)
    BY <1>1, <1>3, <1>5, <2>2
  <2> QED  BY <2>1, <2>3 DEF Good
<1>9. CASE cmd \in {"stw", "stb"}
  <2>1. Template(cmd) = <<<<"imm7", 1>>, <<"BPreg", 2>>, <<"tgt2", 3>>>>
    BY <1>9, TemplateOf
  <2>2. GoodField(<<"imm7", 1>>) /\ GoodField(<<"BPreg", 2>>) /\ GoodField(<<"tgt2", 3>>)
    BY <1>2, <1>4
  <2>3. Good(<<<<"imm7", 1>>, <<"BPreg", 2>>, <<"tgt2", 3>>>>)
    BY <1>1, <1>3, <1>5, <2>2
  <2> QED  BY <2>1, <2>3 DEF Good
<1>10. CASE cmd \in {"stw0", "stb0"}
  <2>1. Template(cmd) = <<<<"imm7", 1>>, <<"BPreg", 2>>, <<"R0reg", 3>>>>
    BY <1>10, TemplateOf
  <2>2. GoodField(<<"imm7", 1>>) /\ GoodField(<<"BPreg", 2>>) /\ GoodField(<<"R0reg", 3>>)
    BY <1>2, <1>4
  <2>3. Good(<<<<"imm7", 1>>, <<"BPreg", 2>>, <<"R0reg", 3>>>>)
    BY <1>1, <1>3, <1>5, <2>2
  <2> QED  BY <2>1, <2>3 DEF Good
<1>11. CASE cmd = "mov"
  <2>1. Template(cmd) = <<<<"reg", 2>>, <<"pad3", 0>>, <<"reg", 1>>>>
    BY <1>11, TemplateOf
  <2>3. Good(<<<<"reg", 2>>, <<"pad3", 0>>, <<"reg", 1>>>>)
    BY <1>1, <1>3, <1>5
  <2> QED  BY <2>1, <2>3 DEF Good
<1>12. CASE cmd = "skip"
  <2>1. Template(cmd) = <<<<"reg", 1>>, <<"reg", 2>>, <<"cond", 3>>>>
    BY <1>12, TemplateOf
  <2>2. GoodField(<<"cond", 3>>)
    BY <1>2, <1>4
  <2>3. Good(<<<<"reg", 1>>, <<"reg", 2>>, <<"cond", 3>>>>)
    BY <1>1, <1>3, <1>5, <2>2
  <2> QED  BY <2>1, <2>3 DEF Good
<1>13. CASE cmd \in AluImm \cup Addskpi
  <2>1. Template(cmd) = <<<<"immir", 3>>, <<"reg", 2>>, <<"reg", 1>>>>
    BY <1>13, TemplateOf
  <2>2. GoodField(<<"immir", 3>>)
    BY <1>2, <1>4
  <2>3. Good(<<<<"immir", 3>>, <<"reg", 2>>, <<"reg", 1>>>>)
    BY <1>1, <1>3, <1>5, <2>2
  <2> QED  BY <2>1, <2>3 DEF Good
<1>14. CASE cmd \in {"stw.b", "stb.b"}
  <2>1. Template(cmd) = <<<<"reg", 1>>, <<"reg", 2>>, <<"reg", 3>>>>
    BY <1>14, TemplateOf
  <2>3. Good(<<<<"reg", 1>>, <<"reg", 2>>, <<"reg", 3>>>>)
    BY <1>1, <1>3, <1>5
  <2> QED  BY <2>1, <2>3 DEF Good
<1>15. CASE cmd = "sext"
  <2>1. Template(cmd) = <<<<"reg", 1>>, <<"pad3", 0>>, <<"reg", 2>>>>
    BY <1>15, TemplateOf
  <2>3. Good(<<<<"reg", 1>>, <<"pad3", 0>>, <<"reg", 2>>>>)
    BY <1>1, <1>3, <1>5
  <2> QED  BY <2>1, <2>3 DEF Good
<1>16. CASE cmd = "addhi"
  <2>1. Template(cmd) = <<<<"imm7u", 2>>, <<"tgt2", 1>>>>
    BY <1>16, TemplateOf
  <2>2. GoodField(<<"imm7u", 2>>) /\ GoodField(<<"tgt2", 1>>)
    BY <1>2, <1>4
  <2>3. Good(<<<<"imm7u", 2>>, <<"tgt2", 1>>>>)
    BY <1>1, <1>3, <1>5, <2>2
  <2> QED  BY <2>1, <2>3 DEF Good
<1>17. CASE cmd \in {"push", "pop", "br.r",
                    "push.u", "pop.u", "lcr", "lcr.u", "lptb", "wivec"}
  <2>1. Template(cmd) = <<<<"pad6", 0>>, <<"reg", 1>>>>
    BY <1>17, TemplateOf
  <2>3. Good(<<<<"pad6", 0>>, <<"reg", 1>>>>)
    BY <1>1, <1>3, <1>5
  <2> QED  BY <2>1, <2>3 DEF Good
<1>18. CASE cmd \in {"wcr", "wcr.u", "wptb"}
  <2>1. Template(cmd) = <<<<"reg", 1>>, <<"pad6", 0>>>>
    BY <1>18, TemplateOf
  <2>3. Good(<<<<"reg", 1>>, <<"pad6", 0>>>>)
    BY <1>1, <1>3, <1>5
  <2> QED  BY <2>1, <2>3 DEF Good
<1>19. CASE cmd = "wpte"
  <2>1. Template(cmd) = <<<<"reg", 1>>, <<"reg", 2>>, <<"pad3", 0>>>>
    BY <1>19, TemplateOf
  <2>3. Good(<<<<"reg", 1>>, <<"reg", 2>>, <<"pad3", 0>>>>)
    BY <1>1, <1>3, <1>5
  <2> QED  BY <2>1, <2>3 DEF Good
<1>20. CASE cmd = "lpte"
  <2>1. Template(cmd) = <<<<"reg", 2>>, <<"pad3", 0>>, <<"reg", 1>>>>
    BY <1>20, TemplateOf
  <2>3. Good(<<<<"reg", 2>>, <<"pad3", 0>>, <<"reg", 1>>>>)
    BY <1>1, <1>3, <1>5
  <2> QED  BY <2>1, <2>3 DEF Good
<1>21. CASE cmd \in {"shl", "shr"}
  <2>1. Template(cmd) = <<<<"imm4", 3>>, <<"reg", 2>>, <<"tgt2", 1>>>>
    BY <1>21, TemplateOf
  <2>2. GoodField(<<"imm4", 3>>) /\ GoodField(<<"tgt2", 1>>)
    BY <1>2, <1>4
  <2>3. Good(<<<<"imm4", 3>>, <<"reg", 2>>, <<"tgt2", 1>>>>)
    BY <1>1, <1>3, <1>5, <2>2
  <2> QED  BY <2>1, <2>3 DEF Good
<1>22. CASE cmd \in {"syscall", "reti", "brk", "rsi", "hlt", "nop"}
  <2>1. Template(cmd) = << >>
    BY <1>22, TemplateOf
  <2>3. Good(<< >>)
    BY <1>1, <1>3, <1>5
  <2> QED  BY <2>1, <2>3 DEF Good
<1>23. CASE cmd \in {"add", "sub", "and", "or", "shl.r", "shr.r",
                    "addskp.z", "addskp.nz", "ldw.b", "ldb.b"}
  <2>1. Template(cmd) = <<<<"reg", 2>>, <<"reg", 3>>, <<"reg", 1>>>>
    BY <1>23, TemplateOf
  <2>3. Good(<<<<"reg", 2>>, <<"reg", 3>>, <<"reg", 1>>>>)
    BY <1>1, <1>3, <1>5
  <2> QED  BY <2>1, <2>3 DEF Good
<1> QED  BY <1>6, <1>7, <1>8, <1>9, <1>10, <1>11, <1>12, <1>13, <1>14, <1>15, <1>16, <1>17,
           <1>18, <1>19, <1>20, <1>21, <1>22, <1>23
        DEF AllCommands, AluImm, Addskpi

\* A line has every argument that the template of its command takes.
LEMMA ArgumentPlaces ==
    ASSUME NEW l, Valid(l), l.args # << >>, NEW k \in DOMAIN Template(Command(l)),
           Template(Command(l))[k][2] # 0
    PROVE  Template(Command(l))[k][2] \in DOMAIN l.args
<1>1. l.cmd \in Commands /\ Command(l) \in Commands
  BY CommandType DEF Valid
<1>2. DOMAIN l.args = {Template(l.cmd)[j][2] : j \in DOMAIN Template(l.cmd)} \ {0}
  BY DEF Valid
<1>3. CASE l.cmd \in {"ldw", "ldb", "stw", "stb"}
  <2>1. {Template(l.cmd)[j][2] : j \in DOMAIN Template(l.cmd)} = {1, 2, 3}
    <3>1. CASE l.cmd \in {"ldw", "ldb"}
      <4>1. Template(l.cmd) = <<<<"imm7", 2>>, <<"BPreg", 3>>, <<"tgt2", 1>>>>
        BY <3>1, TemplateOf
      <4> QED  BY <4>1
    <3>2. CASE l.cmd \in {"stw", "stb"}
      <4>1. Template(l.cmd) = <<<<"imm7", 1>>, <<"BPreg", 2>>, <<"tgt2", 3>>>>
        BY <3>2, TemplateOf
      <4> QED  BY <4>1
    <3> QED  BY <1>3, <3>1, <3>2
  <2>2. GoodField(Template(Command(l))[k])
    BY <1>1, Opcodes, Templates
  <2>3. DOMAIN l.args = {1, 2, 3}
    <3>1. DOMAIN l.args = {1, 2, 3} \ {0}
      BY <1>2, <2>1, Zenon
    <3> QED  BY <3>1
  <2> DEFINE n == Template(Command(l))[k][2]
  <2>4. n = 0 \/ n \in 1 .. 3
    BY <2>2 DEF GoodField
  <2>5. n # 0
    OBVIOUS
  <2> HIDE DEF n
  <2>6. n \in DOMAIN l.args
    BY <2>3, <2>4, <2>5
  <2> QED  BY <2>6 DEF n
<1>4. CASE l.cmd \notin {"ldw", "ldb", "stw", "stb"}
  <2>1. Command(l) = l.cmd
    BY <1>4 DEF Command
  <2> QED  BY <1>2, <2>1
<1> QED  BY <1>3, <1>4

\* What a field takes of an argument is an argument.
LEMMA ArgumentType ==
    ASSUME NEW l, l.args \in Seq(Args), NEW k \in DOMAIN l.args
    PROVE  Argument(l, k) \in Args
<1> DEFINE a == l.args[k]
<1>1. a \in Args
  OBVIOUS
<1> HIDE DEF a
<1>2. a \in [name : STRING, val : Int] /\ (a.name # "" => a.val = 0)
  BY <1>1 DEF Args
<1>3. \A v \in Int : (a.name # "" => v = 0) => [a EXCEPT !.val = v] \in Args
  BY <1>2 DEF Args
<1> DEFINE lower(v) == v % 512
           upper(v) == (v % 65536) \div 512
<1>4. ASSUME NEW v \in Int
      PROVE  lower(v) \in Int /\ upper(v) \in Int /\ (v = 0 => lower(v) = 0 /\ upper(v) = 0)
  <2>1. \A x \in Int : x \div 512 \in Int /\ x % 512 \in Int /\ x % 65536 \in Int
    OBVIOUS
  <2>2. 0 % 512 = 0 /\ 0 % 65536 = 0 /\ 0 \div 512 = 0
    OBVIOUS
  <2> QED  BY <2>1, <2>2
<1>5. \/ Argument(l, k) = a
      \/ Argument(l, k) = [a EXCEPT !.val = lower(a.val)]
      \/ Argument(l, k) = [a EXCEPT !.val = upper(a.val)]
  BY DEF Argument, a
<1> HIDE DEF lower, upper
<1>6. /\ [a EXCEPT !.val = lower(a.val)] \in Args
      /\ [a EXCEPT !.val = upper(a.val)] \in Args
  BY <1>2, <1>3, <1>4
<1> QED  BY <1>1, <1>5, <1>6

FieldSize(l, k) ==
    IF k \in DOMAIN Template(Command(l)) THEN Size(Template(Command(l))[k][1]) ELSE 0

\* The digits of a field have the length of its kind.
LEMMA FieldDigitsType ==
    ASSUME NEW l, Encodable(l), l.args \in Seq(Args), l.args # << >>, NEW k \in 1 .. 3
    PROVE  FieldDigits(l, k) \in Seq(Bit) /\ Len(FieldDigits(l, k)) = FieldSize(l, k)
<1> DEFINE t == Template(Command(l))
           f == t[k]
<1>1. CASE k \notin DOMAIN t
  <2>1. FieldDigits(l, k) = << >> /\ FieldSize(l, k) = 0
    BY <1>1 DEF FieldDigits, FieldSize
  <2> QED  BY <2>1
<1>2. CASE k \in DOMAIN t
  <2>1. Valid(l) /\ Command(l) \in Commands
    BY CommandType DEF Encodable, Valid
  <2>2. GoodField(f)
    BY <1>2, <2>1, Opcodes, Templates
  <2>3. FieldSize(l, k) = Size(f[1])
    BY <1>2 DEF FieldSize
  <2>4. CASE f[2] = 0
    <3>1. FieldDigits(l, k) = Padding(f[1]) /\ f[1] \in {"pad3", "pad6"}
      BY <1>2, <2>2, <2>4 DEF FieldDigits, GoodField
    <3>2. /\ Dec2bin(0, 3) \in Seq(Bit) /\ Len(Dec2bin(0, 3)) = 3
          /\ Dec2bin(0, 6) \in Seq(Bit) /\ Len(Dec2bin(0, 6)) = 6
      <4>1. \A n \in Nat : Dec2bin(0, n) \in Seq(Bit) /\ Len(Dec2bin(0, n)) = n
        BY Dec2binValue
      <4>2. 3 \in Nat /\ 6 \in Nat
        OBVIOUS
      <4> QED  BY <4>1, <4>2
    <3>3. CASE f[1] = "pad3"
      <4>1. Padding(f[1]) = Dec2bin(0, 3) /\ Size(f[1]) = 3
        BY <3>3 DEF Padding, Size
      <4> QED  BY <2>3, <3>1, <3>2, <4>1
    <3>4. CASE f[1] = "pad6"
      <4>1. Padding(f[1]) = Dec2bin(0, 6) /\ Size(f[1]) = 6
        BY <3>4 DEF Padding, Size
      <4> QED  BY <2>3, <3>1, <3>2, <4>1
    <3> QED  BY <3>1, <3>3, <3>4
  <2>5. CASE f[2] # 0
    <3>1. f[1] \in ArgumentKinds /\ f[2] \in DOMAIN l.args
      BY <1>2, <2>1, <2>2, <2>5, ArgumentPlaces DEF GoodField
    <3>2. Argument(l, f[2]) \in Args
      BY <3>1, ArgumentType
    <3>3. Fits(f[1], Argument(l, f[2]))
      BY <1>2, <2>5 DEF Encodable
    <3>4. FieldDigits(l, k) = Encoded(f[1], Argument(l, f[2]))
      BY <1>2, <2>5 DEF FieldDigits
    <3> HIDE DEF f
    <3> QED  BY <2>3, <3>1, <3>2, <3>3, <3>4, EncodedValue
  <2> QED  BY <2>4, <2>5
<1> QED  BY <1>1, <1>2

\* An opcode has three digits, or seven, or nine.
LEMMA OpcodeDigitsType ==
    ASSUME NEW op \in Nat
    PROVE  LET bin == OpcodeDigits(op)
           IN  /\ bin \in Seq(Bit)
               /\ Len(bin) = IF op <= 3 THEN 3 ELSE IF op < 64 THEN 7 ELSE 9
<1>1. \A n \in Nat : Dec2bin(op, n) \in Seq(Bit) /\ Len(Dec2bin(op, n)) = n
  BY Dec2binValue
<1>2. <<0>> \in Seq(Bit) /\ Len(<<0>>) = 1 /\ <<1>> \in Seq(Bit) /\ Len(<<1>>) = 1
  BY DEF Bit
<1>3. CASE op <= 3
  <2>1. OpcodeDigits(op) = <<0>> \o Dec2bin(op, 2)
    BY <1>3 DEF OpcodeDigits
  <2> QED  BY <1>1, <1>2, <1>3, <2>1
<1>4. CASE op > 3
  <2> DEFINE n == IF op < 64 THEN 6 ELSE 8
  <2>1. n \in Nat /\ OpcodeDigits(op) = <<1>> \o Dec2bin(op, n)
    BY <1>4 DEF OpcodeDigits
  <2>2. OpcodeDigits(op) \in Seq(Bit) /\ Len(OpcodeDigits(op)) = 1 + n
    <3> HIDE DEF n
    <3> QED  BY <1>1, <1>2, <2>1
  <2> QED  BY <1>4, <2>2
<1> QED  BY <1>3, <1>4

\* The digits of a line.
LEMMA EncodeType ==
    ASSUME NEW l, Encodable(l), l.args \in Seq(Args)
    PROVE  Encode(l) \in Seq(Bit)
<1>1. l.cmd \in Commands /\ Command(l) \in Commands
  BY CommandType DEF Encodable, Valid
<1>2. /\ OpcodeDigits(Opcode(l.cmd)) \in Seq(Bit)
      /\ OpcodeDigits(Opcode(Command(l))) \in Seq(Bit)
  <2>1. Opcode(l.cmd) \in Nat /\ Opcode(Command(l)) \in Nat
    BY <1>1, Opcodes
  <2> QED  BY <2>1, OpcodeDigitsType
<1>3. CASE l.args = << >>
  <2>1. Dec2bin(0, 9) \in Seq(Bit)
    <3>1. 0 \in Nat /\ 9 \in Nat
      OBVIOUS
    <3> QED  BY <3>1, Dec2binValue
  <2> QED  BY <1>2, <1>3, <2>1 DEF Encode
<1>4. CASE l.args # << >>
  <2>1. /\ FieldDigits(l, 1) \in Seq(Bit) /\ FieldDigits(l, 2) \in Seq(Bit)
        /\ FieldDigits(l, 3) \in Seq(Bit)
    BY <1>4, FieldDigitsType
  <2> QED  BY <1>2, <1>4, <2>1 DEF Encode
<1> QED  BY <1>3, <1>4

-----------------------------------------------------------------------------
\* The words, and the conversions between them and their digits.

\* The word is one of 16 bits, and what was made of it, and of what line, is known.
WordInv ==
    /\ stage \in {"line", "word", "decoded", "error"}
    /\ ir \in Nat /\ ir < 65536
    /\ line = None \/ line \in SourceLines
    /\ stage = "line" => line # None
    /\ stage \in {"word", "decoded"} /\ line # None =>
          Encodable(line) /\ Len(Encode(line)) = 16 /\ ir = Bin2dec(Encode(line))
    /\ stage = "decoded" => cinstr = FsimDecode(ir) /\ instr_b = Dec2bin(ir, 16)

\* dec2bin makes strings of the length it is asked for.
LEMMA Dec2binType ==
    ASSUME NEW w \in Nat, NEW n \in Nat
    PROVE  Dec2bin(w, n) \in Seq(Bit) /\ Len(Dec2bin(w, n)) = n
  BY Dec2binValue

\* The digits of a word.
LEMMA WordDigits ==
    ASSUME NEW w \in Nat
    PROVE  Dec2bin(w, 16) \in Seq(Bit) /\ Len(Dec2bin(w, 16)) = 16
<1>1. \A n \in Nat : Dec2bin(w, n) \in Seq(Bit) /\ Len(Dec2bin(w, n)) = n
  BY Dec2binType
<1>2. 16 \in Nat
  OBVIOUS
<1> QED  BY <1>1, <1>2

\* A string of 16 digits is a word.
LEMMA SixteenDigits ==
    ASSUME NEW bin \in Seq(Bit), Len(bin) = 16
    PROVE  /\ Bin2dec(bin) \in Nat /\ Bin2dec(bin) < 65536
           /\ Dec2bin(Bin2dec(bin), 16) = bin
<1>1. 2 ^ Len(bin) = 2 ^ 16
  OBVIOUS
<1>2. Bin2dec(bin) \in Nat /\ Bin2dec(bin) < 2 ^ Len(bin) /\ Dec2bin(Bin2dec(bin), Len(bin)) = bin
  BY DigitsBack
<1> QED  BY <1>1, <1>2, Powers

\* The invariant of the assembler and the loaders.
LEMMA WordInvariant == Spec => []WordInv
<1>1. Init => WordInv
  BY SourceLinesAssumption, WordsAssumption DEF Init, WordInv
<1>2. WordInv /\ [Next]_vars => WordInv'
  <2> SUFFICES ASSUME WordInv, [Next]_vars PROVE WordInv'
    OBVIOUS
  <2> USE DEF WordInv
  <2>1. CASE Assemble
    <3>1. CASE Encodable(line) /\ Len(Encode(line)) = 16
      <4>1. line \in SourceLines /\ line.args \in Seq(Args)
        BY <2>1, SourceLinesAssumption DEF Assemble
      <4>2. stage' = "word" /\ ir' = Bin2dec(Encode(line)) /\ line' = line
        BY <2>1, <3>1 DEF Assemble
      <4>3. Encode(line) \in Seq(Bit)
        BY <3>1, <4>1, EncodeType
      <4>4. ir' \in Nat /\ ir' < 65536
        BY <3>1, <4>2, <4>3, SixteenDigits
      <4> QED  BY <3>1, <4>1, <4>2, <4>4
    <3>2. CASE ~(Encodable(line) /\ Len(Encode(line)) = 16)
      BY <2>1, <3>2 DEF Assemble
    <3> QED  BY <3>1, <3>2
  <2>2. CASE Decode
    BY <2>2 DEF Decode
  <2>3. CASE UNCHANGED vars
    BY <2>3 DEF vars
  <2> QED  BY <2>1, <2>2, <2>3 DEF Next
<1> QED  BY <1>1, <1>2, PTL DEF Spec

\* bin2dec of a part of the word.
LEMMA PartValue ==
    ASSUME NEW w \in Nat, NEW from \in Nat, NEW n \in Nat, from + n <= 16
    PROVE  LET bin == Field(Dec2bin(w, 16), from, n)
           IN  bin \in Seq(Bit) /\ Len(bin) = n
<1>1. 16 \in Nat
  OBVIOUS
<1> QED  BY <1>1, FieldType

\* The range of a signed part.
LEMMA SignedPart ==
    ASSUME NEW bin \in Seq(Bit), NEW n \in {7, 10, 13}, Len(bin) = n
    PROVE  LET v == Sbin2dec(bin)
           IN  /\ v \in -(2 ^ (n - 1)) .. 2 ^ (n - 1) - 1
               /\ v % (2 ^ n) = Bin2dec(bin)
<1> DEFINE v == Sbin2dec(bin)
           x == Bin2dec(bin)
           p == 2 ^ (n - 1)
<1>1. /\ p \in Nat /\ p > 0 /\ x \in 0 .. (2 * p) - 1 /\ 2 ^ n = 2 * p
      /\ v = IF x >= p THEN x - 2 * p ELSE x
  <2>1. n \in Nat /\ n > 0
    OBVIOUS
  <2> QED  BY <2>1, SbinValue
<1> DEFINE m == 2 ^ n
<1> HIDE DEF v, x, p, m
<1>2. m = 2 * p
  BY <1>1 DEF m
<1>3. v \in -p .. p - 1
  BY <1>1
<1>4. v % m = x
  <2>1. CASE x < p
    BY <1>1, <1>2, <2>1
  <2>2. CASE x >= p
    <3>1. v = m * (-1) + x /\ m \in Nat /\ m > 0 /\ x \in 0 .. m - 1
      BY <1>1, <1>2, <2>2
    <3>2. (m * (-1) + x) % m = x
      BY <3>1, Division
    <3> QED  BY <3>1, <3>2
  <2> QED  BY <1>1, <2>1, <2>2
<1> QED  BY <1>3, <1>4 DEF v, x, p, m

\* The conversions of common.c agree, and undo dec2bin, on every word.
THEOREM ConversionsTheorem == Spec => []ConversionsAgree
<1>1. WordInv => ConversionsAgree
  <2> SUFFICES ASSUME WordInv, stage = "decoded"
               PROVE  ConversionsAgree
    BY DEF ConversionsAgree
  <2> DEFINE Part(from, n) == Field(instr_b, from, n)
  <2>1. ir \in Nat /\ ir < 65536 /\ instr_b = Dec2bin(ir, 16)
    BY DEF WordInv
  <2>2. Bin2dec(instr_b) = ir
    <3>1. PICK n \in Nat : n = 16
      OBVIOUS
    <3>2. 2 ^ n = 65536
      BY <3>1, Powers
    <3>3. ir < 2 ^ n
      BY <2>1, <3>2
    <3>4. Bin2dec(Dec2bin(ir, n)) = ir
      BY <2>1, <3>3, SmallNumber
    <3> QED  BY <2>1, <3>1, <3>4
  <2>3. \A from, n \in Nat : from + n <= 16 =>
           Part(from, n) \in Seq(Bit) /\ Len(Part(from, n)) = n
    BY <2>1, PartValue
  <2>4. Part(3, 13)[1] = instr_b[4]
    <3>1. instr_b \in Seq(Bit) /\ Len(instr_b) = 16
      <4>1. Dec2bin(ir, 16) \in Seq(Bit) /\ Len(Dec2bin(ir, 16)) = 16
        BY <2>1, WordDigits
      <4> QED  BY <2>1, <4>1
    <3>2. Part(3, 13) = SubSeq(instr_b, 4, 16)
      BY DEF Field
    <3> HIDE DEF Part
    <3> QED  BY <3>1, <3>2
  <2> HIDE DEF Part
  <2>5. ASSUME NEW from \in 0 .. 13
        PROVE  /\ Bin3ToDec(Part(from, 3)) = Bin2dec(Part(from, 3))
               /\ Bin2ToDec(Part(from, 2)) = Bin2dec(Part(from, 2))
    <3>1. from \in Nat /\ from + 3 <= 16 /\ from + 2 <= 16 /\ 3 \in Nat /\ 2 \in Nat
      OBVIOUS
    <3> QED  BY <2>3, <3>1, OneLength
  <2>6. /\ 7 \in Nat /\ 3 \in Nat /\ 10 \in Nat /\ 13 \in Nat
        /\ 7 + 7 <= 16 /\ 3 + 10 <= 16 /\ 3 + 13 <= 16
    OBVIOUS
  <2>7. /\ Bin7ToDec(Part(7, 7)) = Bin2dec(Part(7, 7))
        /\ Bin10ToDec(Part(3, 10)) = Bin2dec(Part(3, 10))
        /\ Bin13ToDec(Part(3, 13)) = Bin2dec(Part(3, 13)) + (100 * instr_b[4])
    BY <2>3, <2>4, <2>6, OneLength, Bin13Value
  <2>8. ASSUME NEW n \in {7, 10, 13}
        PROVE  LET v == Sbin2dec(Part(3, n))
               IN  /\ v \in -(2 ^ (n - 1)) .. 2 ^ (n - 1) - 1
                   /\ v % (2 ^ n) = Bin2dec(Part(3, n))
    <3>1. 3 \in Nat /\ n \in Nat /\ 3 + n <= 16
      OBVIOUS
    <3> QED  BY <2>3, <3>1, SignedPart
  <2> QED  BY <2>2, <2>5, <2>7, <2>8 DEF ConversionsAgree, Part
<1> QED  BY <1>1, WordInvariant, PTL

-----------------------------------------------------------------------------
\* The microwords.

Starts(s, t) ==
    /\ s \in Seq(Bit) /\ t \in Seq(Bit) /\ Len(s) <= Len(t)
    /\ \A i \in 1 .. Len(s) : t[i] = s[i]

\* A string that starts with two parts starts with the first.
LEMMA StartsFurther ==
    ASSUME NEW s \in Seq(Bit), NEW a \in Seq(Bit), NEW t, Starts(s \o a, t)
    PROVE  Starts(s, t)
<1> DEFINE u == s \o a
<1>1. u \in Seq(Bit) /\ Len(s) <= Len(u) /\ \A i \in 1 .. Len(s) : u[i] = s[i]
  OBVIOUS
<1>2. t \in Seq(Bit) /\ Len(u) <= Len(t) /\ \A i \in 1 .. Len(u) : t[i] = u[i]
  BY DEF Starts
<1> HIDE DEF u
<1>3. Len(s) <= Len(t) /\ \A i \in 1 .. Len(s) : t[i] = s[i]
  BY <1>1, <1>2
<1> QED  BY <1>2, <1>3 DEF Starts

\* Strings with the same digits are the same.
LEMMA SameDigits ==
    ASSUME NEW s \in Seq(Bit), NEW t \in Seq(Bit), Len(s) = Len(t),
           \A i \in 1 .. Len(s) : s[i] = t[i]
    PROVE  s = t
<1>1. \A x \in Seq(Bit) : x = [i \in 1 .. Len(x) |-> x[i]]
  OBVIOUS
<1>2. s = [i \in 1 .. Len(s) |-> s[i]] /\ t = [i \in 1 .. Len(t) |-> t[i]]
  BY <1>1
<1>3. [i \in 1 .. Len(s) |-> s[i]] = [i \in 1 .. Len(t) |-> t[i]]
  OBVIOUS
<1> QED  BY <1>2, <1>3

\* A part stands where the ones before it end.
LEMMA PartAt ==
    ASSUME NEW s \in Seq(Bit), NEW a \in Seq(Bit), NEW t, Starts(s \o a, t),
           NEW from \in Nat, NEW n \in Nat, Len(s) = from, Len(a) = n
    PROVE  Field(t, from, n) = a
<1> DEFINE u == s \o a
<1>1. u \in Seq(Bit) /\ Len(u) = from + n /\ \A i \in 1 .. n : u[from + i] = a[i]
  OBVIOUS
<1> HIDE DEF u
<1>2. t \in Seq(Bit) /\ from + n <= Len(t) /\ \A i \in 1 .. n : t[from + i] = a[i]
  <2>1. t \in Seq(Bit) /\ Len(u) <= Len(t) /\ \A i \in 1 .. Len(u) : t[i] = u[i]
    BY DEF Starts, u
  <2> QED  BY <1>1, <2>1
<1> DEFINE f == SubSeq(t, from + 1, from + n)
<1>3. f \in Seq(Bit) /\ Len(f) = n /\ \A i \in 1 .. n : f[i] = t[from + i]
  BY <1>2
<1> HIDE DEF f
<1>4. \A i \in 1 .. n : f[i] = a[i]
  BY <1>2, <1>3
<1>5. f = a
  BY <1>3, <1>4, SameDigits
<1> QED  BY <1>5 DEF Field, f

\* The digits of a part.
LEMMA FieldIn ==
    ASSUME NEW t \in Seq(Bit), NEW from \in Nat, NEW n \in Nat, from + n <= Len(t)
    PROVE  /\ Field(t, from, n) \in Seq(Bit) /\ Len(Field(t, from, n)) = n
           /\ \A i \in 1 .. n : Field(t, from, n)[i] = t[from + i]
  BY DEF Field

\* A number that fits n digits.
InDigits(v, n) == v \in Nat /\ n \in Nat /\ v < 2 ^ n

\* Small numbers and their digits.
LEMMA SmallInDigits ==
    /\ \A v \in 0 .. 3 : InDigits(v, 2)
    /\ \A v \in 0 .. 7 : InDigits(v, 3)
    /\ \A v \in 0 .. 15 : InDigits(v, 4)
  BY Powers DEF InDigits

\* The digits of a number that has no more of them.
LEMMA DigitsOf ==
    ASSUME NEW v, NEW n, InDigits(v, n)
    PROVE  Dec2bin(v, n) \in Seq(Bit) /\ Len(Dec2bin(v, n)) = n /\ Bin2dec(Dec2bin(v, n)) = v
  BY SmallNumber DEF InDigits

\* The number of a name leads back to it.
LEMMA Chosen ==
    ASSUME NEW names, NEW name, \E i \in DOMAIN names : names[i] = name,
           NEW k \in Nat, DOMAIN names = 1 .. k
    PROVE  /\ Number(name, names) \in 0 .. k - 1
           /\ names[Number(name, names) + 1] = name
<1> DEFINE c == CHOOSE i \in DOMAIN names : names[i] = name
<1>1. c \in DOMAIN names /\ names[c] = name
  OBVIOUS
<1>2. Number(name, names) = c - 1
  BY DEF Number
<1> HIDE DEF c
<1> QED  BY <1>1, <1>2

\* A selection is cut out of the digits it was written to.
LEMMA SelectedIs ==
    ASSUME NEW word, NEW from, NEW n, NEW v, InDigits(v, n), NEW names,
           Field(word, from, n) = Dec2bin(v, n)
    PROVE  Selected(word, from, n, names) = names[v + 1]
<1>1. Bin2dec(Field(word, from, n)) = v
  BY DigitsOf
<1> QED  BY <1>1 DEF Selected

\* Every register selection has its number in the decoder of the simulators.
LEMMA RegisterSelection ==
    ASSUME NEW r \in Selections
    PROVE  InDigits(Number(r, RegsMux), 4) /\ Regfile[Number(r, RegsMux) + 1] = r
<1>1. DOMAIN RegsMux = 1 .. 16
  BY DEF RegsMux
<1>2. \E i \in 1 .. 16 : RegsMux[i] = r
  <2>1. /\ RegsMux[1] = "reg0" /\ RegsMux[6] = "bp" /\ RegsMux[7] = "sp" /\ RegsMux[8] = "pc"
        /\ RegsMux[9] = "arg0" /\ RegsMux[10] = "arg1" /\ RegsMux[11] = "tgt"
        /\ RegsMux[12] = "tgt2" /\ RegsMux[13] = "arg2"
    BY DEF RegsMux
  <2>2. {1, 6, 7, 8, 9, 10, 11, 12, 13} \subseteq 1 .. 16
    OBVIOUS
  <2> HIDE DEF RegsMux
  <2>3. r \in {"reg0", "bp", "sp", "pc", "arg0", "arg1", "tgt", "tgt2", "arg2"}
    BY DEF Selections
  <2>4. r \in {RegsMux[i] : i \in {1, 6, 7, 8, 9, 10, 11, 12, 13}}
    <3>1. {RegsMux[i] : i \in {1, 6, 7, 8, 9, 10, 11, 12, 13}} =
              {RegsMux[1], RegsMux[6], RegsMux[7], RegsMux[8], RegsMux[9], RegsMux[10],
               RegsMux[11], RegsMux[12], RegsMux[13]}
      OBVIOUS
    <3> QED  BY <2>1, <2>3, <3>1
  <2> QED  BY <2>2, <2>4
<1>3. \A i \in 1 .. 16 : RegsMux[i] \in Selections => Regfile[i] = RegsMux[i]
  <2>1. /\ Regfile[1] = RegsMux[1] /\ Regfile[2] = RegsMux[2] /\ Regfile[3] = RegsMux[3]
        /\ Regfile[4] = RegsMux[4] /\ Regfile[5] = RegsMux[5] /\ Regfile[6] = RegsMux[6]
        /\ Regfile[7] = RegsMux[7] /\ Regfile[8] = RegsMux[8] /\ Regfile[9] = RegsMux[9]
        /\ Regfile[10] = RegsMux[10] /\ Regfile[11] = RegsMux[11]
        /\ Regfile[12] = RegsMux[12] /\ Regfile[13] = RegsMux[13]
        /\ Regfile[16] = RegsMux[16]
    BY DEF RegsMux, Regfile
  <2>2. RegsMux[14] = "" /\ RegsMux[15] = ""
    BY DEF RegsMux
  <2> HIDE DEF RegsMux, Regfile
  <2>3. "" \notin Selections
    BY DEF Selections
  <2> SUFFICES ASSUME NEW i \in 1 .. 16, RegsMux[i] \in Selections
               PROVE  Regfile[i] = RegsMux[i]
    OBVIOUS
  <2> HIDE DEF Selections
  <2>4. i \notin {14, 15}
    BY <2>2, <2>3
  <2>5. CASE i \in {1, 2, 3, 4, 5}
    BY <2>1, <2>5
  <2>6. CASE i \in {6, 7, 8, 9, 10}
    BY <2>1, <2>6
  <2>7. CASE i \in {11, 12, 13, 16}
    BY <2>1, <2>7
  <2>8. i \in {1, 2, 3, 4, 5} \cup {6, 7, 8, 9, 10} \cup {11, 12, 13, 16}
    BY <2>4
  <2> QED  BY <2>5, <2>6, <2>7, <2>8
<1> DEFINE v == Number(r, RegsMux)
<1>4. v \in 0 .. 15 /\ RegsMux[v + 1] = r
  <2>1. 16 \in Nat /\ 16 - 1 = 15
    OBVIOUS
  <2> QED  BY <1>1, <1>2, <2>1, Chosen
<1> HIDE DEF v
<1>5. v + 1 \in 1 .. 16
  BY <1>4
<1> QED  BY <1>3, <1>4, <1>5, SmallInDigits DEF v

\* Every operand selection has its number.
LEMMA OperandSelection ==
    ASSUME NEW b \in {"regr0", "regr1", "mdr"}
    PROVE  /\ InDigits(Number(b, Op0Mux), 2) /\ Operands[Number(b, Op0Mux) + 1] = b
           /\ InDigits(Number(b, Op1Mux), 2) /\ Operands[Number(b, Op1Mux) + 1] = b
<1>1. ASSUME NEW mux \in {Op0Mux, Op1Mux}
      PROVE  InDigits(Number(b, mux), 2) /\ Operands[Number(b, mux) + 1] = b
  <2>1. /\ DOMAIN mux = 1 .. 4 /\ mux[1] = "regr0" /\ mux[2] = "regr1" /\ mux[3] = "mdr"
        /\ mux[4] \in {"ptb", "pte"}
        /\ Operands[1] = "regr0" /\ Operands[2] = "regr1" /\ Operands[3] = "mdr"
    BY DEF Op0Mux, Op1Mux, Operands
  <2>2. \E i \in DOMAIN mux : mux[i] = b
    BY <2>1
  <2> DEFINE v == Number(b, mux)
  <2>3. v \in 0 .. 3 /\ mux[v + 1] = b
    <3>1. 4 \in Nat /\ 4 - 1 = 3
      OBVIOUS
    <3> QED  BY <2>1, <2>2, <3>1, Chosen
  <2> HIDE DEF v
  <2>4. v = 0 \/ v = 1 \/ v = 2 \/ v = 3
    BY <2>3
  <2>5. Operands[v + 1] = b
    BY <2>1, <2>3, <2>4
  <2> QED  BY <2>3, <2>5, SmallInDigits DEF v
<1> QED  BY <1>1

\* Every source of the MDR has its number.
LEMMA MdrSelection ==
    ASSUME NEW m \in {"imm", "ram", "alu"}
    PROVE  InDigits(Number(m, MdrsMux), 2) /\ MdrsMux[Number(m, MdrsMux) + 1] = m
<1>1. DOMAIN MdrsMux = 1 .. 3 /\ \E i \in 1 .. 3 : MdrsMux[i] = m
  BY DEF MdrsMux
<1>2. 3 \in Nat /\ 3 - 1 = 2
  OBVIOUS
<1>3. Number(m, MdrsMux) \in 0 .. 2 /\ MdrsMux[Number(m, MdrsMux) + 1] = m
  BY <1>1, <1>2, Chosen
<1> QED  BY <1>3, SmallInDigits

\* Every next state has its number.
LEMMA StateSelection ==
    ASSUME NEW s \in {"READ", "EXEC", "FETCH"}
    PROVE  /\ InDigits(Number(s, SkipstateMux), 2)
           /\ AfterDecodem[Number(s, SkipstateMux) + 1] = s
<1>1. DOMAIN SkipstateMux = 1 .. 3 /\ \E i \in 1 .. 3 : SkipstateMux[i] = s
  BY DEF SkipstateMux
<1>2. 3 \in Nat /\ 3 - 1 = 2 /\ SkipstateMux = AfterDecodem
  BY DEF SkipstateMux, AfterDecodem
<1>3. Number(s, SkipstateMux) \in 0 .. 2 /\ SkipstateMux[Number(s, SkipstateMux) + 1] = s
  BY <1>1, <1>2, Chosen
<1> QED  BY <1>2, <1>3, SmallInDigits

\* Every function of the ALU has its number.
LEMMA AluSelection ==
    ASSUME NEW f \in {"add", "sub", "and", "or", "shl", "shr", "addhi"}
    PROVE  InDigits(Number(f, AluMux), 3) /\ AluCases[Number(f, AluMux) + 1] = f
<1>1. DOMAIN AluMux = 1 .. 7 /\ \E i \in 1 .. 7 : AluMux[i] = f
  BY DEF AluMux
<1>2. 7 \in Nat /\ 7 - 1 = 6 /\ AluMux = AluCases
  BY DEF AluMux, AluCases
<1>3. Number(f, AluMux) \in 0 .. 6 /\ AluMux[Number(f, AluMux) + 1] = f
  BY <1>1, <1>2, Chosen
<1> QED  BY <1>2, <1>3, SmallInDigits

Immediates == {"imm7", "imm10", "imm13", "immir", "imm7u", "imm4"}

\* Every immediate selection has its number.
LEMMA ImmediateSelection ==
    ASSUME NEW i \in Immediates
    PROVE  InDigits(Number(i, ImmsMux), 3) /\ IrImms[Number(i, ImmsMux) + 1] = i
<1>1. DOMAIN ImmsMux = 1 .. 6 /\ \E j \in 1 .. 6 : ImmsMux[j] = i
  BY DEF ImmsMux, Immediates
<1>2. 6 \in Nat /\ 6 - 1 = 5 /\ ImmsMux = IrImms
  BY DEF ImmsMux, IrImms
<1>3. Number(i, ImmsMux) \in 0 .. 5 /\ ImmsMux[Number(i, ImmsMux) + 1] = i
  BY <1>1, <1>2, Chosen
<1> QED  BY <1>2, <1>3, SmallInDigits

\* The numbers of the skip conditions.
LEMMA SkipSelection ==
    ASSUME NEW c \in {"none", "zr", "nzr", "cond"}
    PROVE  /\ c = "none" => Number(c, SkipcMux) = 0
           /\ c = "zr" => Number(c, SkipcMux) = 1
           /\ c = "nzr" => Number(c, SkipcMux) = 3
           /\ c = "cond" => Number(c, SkipcMux) = 5
<1>1. /\ DOMAIN SkipcMux = 1 .. 6 /\ SkipcMux[1] = "none" /\ SkipcMux[2] = "zr"
      /\ SkipcMux[3] = "" /\ SkipcMux[4] = "nzr" /\ SkipcMux[5] = "" /\ SkipcMux[6] = "cond"
  BY DEF SkipcMux
<1> DEFINE v == Number(c, SkipcMux)
<1>2. v \in 0 .. 5 /\ SkipcMux[v + 1] = c
  <2>1. 6 \in Nat /\ 6 - 1 = 5
    OBVIOUS
  <2>2. \E i \in DOMAIN SkipcMux : SkipcMux[i] = c
    <3>1. 1 \in 1 .. 6 /\ 2 \in 1 .. 6 /\ 4 \in 1 .. 6 /\ 6 \in 1 .. 6
      OBVIOUS
    <3> QED  BY <1>1, <3>1
  <2> QED  BY <1>1, <2>1, <2>2, Chosen
<1> HIDE DEF v
<1>3. v = 0 \/ v = 1 \/ v = 2 \/ v = 3 \/ v = 4 \/ v = 5
  BY <1>2
<1>4. /\ c = "none" => v = 0
      /\ c = "zr" => v = 1
      /\ c = "nzr" => v = 3
      /\ c = "cond" => v = 5
  <2>1. SkipcMux[v + 1] = c
    BY <1>2
  <2>2. /\ v = 0 => SkipcMux[v + 1] = "none"
        /\ v = 1 => SkipcMux[v + 1] = "zr"
        /\ v = 2 => SkipcMux[v + 1] = ""
        /\ v = 3 => SkipcMux[v + 1] = "nzr"
        /\ v = 4 => SkipcMux[v + 1] = ""
        /\ v = 5 => SkipcMux[v + 1] = "cond"
    <3> HIDE DEF SkipcMux
    <3>1. v = 0 => v + 1 = 1
      OBVIOUS
    <3>2. v = 1 => v + 1 = 2
      OBVIOUS
    <3>3. v = 2 => v + 1 = 3
      OBVIOUS
    <3>4. v = 3 => v + 1 = 4
      OBVIOUS
    <3>5. v = 4 => v + 1 = 5
      OBVIOUS
    <3>6. v = 5 => v + 1 = 6
      OBVIOUS
    <3> QED  BY <1>1, <3>1, <3>2, <3>3, <3>4, <3>5, <3>6
  <2> HIDE DEF SkipcMux
  <2> QED  BY <1>3, <2>1, <2>2
<1> QED  BY <1>4 DEF v

\* Two strings one after the other.
LEMMA Longer ==
    ASSUME NEW a \in Seq(Bit), NEW b \in Seq(Bit), NEW m \in Nat, NEW n \in Nat,
           Len(a) = m, Len(b) = n
    PROVE  a \o b \in Seq(Bit) /\ Len(a \o b) = m + n
  OBVIOUS

\* A string starts with itself.
LEMMA StartsItself ==
    ASSUME NEW s \in Seq(Bit)
    PROVE  Starts(s, s)
  BY DEF Starts

\* A part stands behind what it was appended to.
LEMMA PartIs ==
    ASSUME NEW s \in Seq(Bit), NEW a \in Seq(Bit), NEW t, Starts(s \o a, t)
    PROVE  Field(t, Len(s), Len(a)) = a
<1>1. Len(s) \in Nat /\ Len(a) \in Nat
  OBVIOUS
<1> QED  BY <1>1, PartAt

\* The parts of a word of 48 digits.
PartLengths(s) ==
    /\ s \in [1 .. 13 -> Seq(Bit)]
    /\ Len(s[1]) = 8 /\ Len(s[2]) = 4 /\ Len(s[3]) = 4 /\ Len(s[4]) = 4
    /\ Len(s[5]) = 2 /\ Len(s[6]) = 3 /\ Len(s[7]) = 2
    /\ Len(s[8]) = 2 /\ Len(s[9]) = 3 /\ Len(s[10]) = 3
    /\ Len(s[11]) = 2 /\ Len(s[12]) = 9 /\ Len(s[13]) = 2

AllParts(s) ==
    s[1] \o s[2] \o s[3] \o s[4] \o s[5] \o s[6] \o s[7] \o s[8] \o s[9] \o s[10]
    \o s[11] \o s[12] \o s[13]

\* The places of the parts of a microword.
LEMMA PartFields ==
    ASSUME NEW s, PartLengths(s)
    PROVE  LET t == AllParts(s)
           IN  /\ t \in Seq(Bit) /\ Len(t) = 48
               /\ Field(t, 0, 8) = s[1]
               /\ Field(t, 8, 4) = s[2]
               /\ Field(t, 12, 4) = s[3]
               /\ Field(t, 16, 4) = s[4]
               /\ Field(t, 20, 2) = s[5]
               /\ Field(t, 22, 3) = s[6]
               /\ Field(t, 25, 2) = s[7]
               /\ Field(t, 27, 2) = s[8]
               /\ Field(t, 29, 3) = s[9]
               /\ Field(t, 32, 3) = s[10]
               /\ Field(t, 35, 2) = s[11]
               /\ Field(t, 37, 9) = s[12]
<1> DEFINE t == AllParts(s)
           e == << >>
           p1 == e \o s[1]
           p2 == p1 \o s[2]
           p3 == p2 \o s[3]
           p4 == p3 \o s[4]
           p5 == p4 \o s[5]
           p6 == p5 \o s[6]
           p7 == p6 \o s[7]
           p8 == p7 \o s[8]
           p9 == p8 \o s[9]
           p10 == p9 \o s[10]
           p11 == p10 \o s[11]
           p12 == p11 \o s[12]
           p13 == p12 \o s[13]
<1>0. e \in Seq(Bit) /\ Len(e) = 0
  OBVIOUS
<1>s. \A k \in 1 .. 13 : s[k] \in Seq(Bit)
  BY DEF PartLengths
<1>1. p1 \in Seq(Bit) /\ Len(p1) = 8
  <2> HIDE DEF e
  <2>1. s[1] \in Seq(Bit) /\ Len(s[1]) = 8
    BY <1>s DEF PartLengths
  <2>2. 0 \in Nat /\ 8 \in Nat /\ 0 + 8 = 8
    OBVIOUS
  <2> QED  BY <1>0, <2>1, <2>2, Longer
<1>2. p2 \in Seq(Bit) /\ Len(p2) = 12
  <2> HIDE DEF p1
  <2>1. s[2] \in Seq(Bit) /\ Len(s[2]) = 4
    BY <1>s DEF PartLengths
  <2>2. 8 \in Nat /\ 4 \in Nat /\ 8 + 4 = 12
    OBVIOUS
  <2> QED  BY <1>1, <2>1, <2>2, Longer
<1>3. p3 \in Seq(Bit) /\ Len(p3) = 16
  <2> HIDE DEF p2
  <2>1. s[3] \in Seq(Bit) /\ Len(s[3]) = 4
    BY <1>s DEF PartLengths
  <2>2. 12 \in Nat /\ 4 \in Nat /\ 12 + 4 = 16
    OBVIOUS
  <2> QED  BY <1>2, <2>1, <2>2, Longer
<1>4. p4 \in Seq(Bit) /\ Len(p4) = 20
  <2> HIDE DEF p3
  <2>1. s[4] \in Seq(Bit) /\ Len(s[4]) = 4
    BY <1>s DEF PartLengths
  <2>2. 16 \in Nat /\ 4 \in Nat /\ 16 + 4 = 20
    OBVIOUS
  <2> QED  BY <1>3, <2>1, <2>2, Longer
<1>5. p5 \in Seq(Bit) /\ Len(p5) = 22
  <2> HIDE DEF p4
  <2>1. s[5] \in Seq(Bit) /\ Len(s[5]) = 2
    BY <1>s DEF PartLengths
  <2>2. 20 \in Nat /\ 2 \in Nat /\ 20 + 2 = 22
    OBVIOUS
  <2> QED  BY <1>4, <2>1, <2>2, Longer
<1>6. p6 \in Seq(Bit) /\ Len(p6) = 25
  <2> HIDE DEF p5
  <2>1. s[6] \in Seq(Bit) /\ Len(s[6]) = 3
    BY <1>s DEF PartLengths
  <2>2. 22 \in Nat /\ 3 \in Nat /\ 22 + 3 = 25
    OBVIOUS
  <2> QED  BY <1>5, <2>1, <2>2, Longer
<1>7. p7 \in Seq(Bit) /\ Len(p7) = 27
  <2> HIDE DEF p6
  <2>1. s[7] \in Seq(Bit) /\ Len(s[7]) = 2
    BY <1>s DEF PartLengths
  <2>2. 25 \in Nat /\ 2 \in Nat /\ 25 + 2 = 27
    OBVIOUS
  <2> QED  BY <1>6, <2>1, <2>2, Longer
<1>8. p8 \in Seq(Bit) /\ Len(p8) = 29
  <2> HIDE DEF p7
  <2>1. s[8] \in Seq(Bit) /\ Len(s[8]) = 2
    BY <1>s DEF PartLengths
  <2>2. 27 \in Nat /\ 2 \in Nat /\ 27 + 2 = 29
    OBVIOUS
  <2> QED  BY <1>7, <2>1, <2>2, Longer
<1>9. p9 \in Seq(Bit) /\ Len(p9) = 32
  <2> HIDE DEF p8
  <2>1. s[9] \in Seq(Bit) /\ Len(s[9]) = 3
    BY <1>s DEF PartLengths
  <2>2. 29 \in Nat /\ 3 \in Nat /\ 29 + 3 = 32
    OBVIOUS
  <2> QED  BY <1>8, <2>1, <2>2, Longer
<1>10. p10 \in Seq(Bit) /\ Len(p10) = 35
  <2> HIDE DEF p9
  <2>1. s[10] \in Seq(Bit) /\ Len(s[10]) = 3
    BY <1>s DEF PartLengths
  <2>2. 32 \in Nat /\ 3 \in Nat /\ 32 + 3 = 35
    OBVIOUS
  <2> QED  BY <1>9, <2>1, <2>2, Longer
<1>11. p11 \in Seq(Bit) /\ Len(p11) = 37
  <2> HIDE DEF p10
  <2>1. s[11] \in Seq(Bit) /\ Len(s[11]) = 2
    BY <1>s DEF PartLengths
  <2>2. 35 \in Nat /\ 2 \in Nat /\ 35 + 2 = 37
    OBVIOUS
  <2> QED  BY <1>10, <2>1, <2>2, Longer
<1>12. p12 \in Seq(Bit) /\ Len(p12) = 46
  <2> HIDE DEF p11
  <2>1. s[12] \in Seq(Bit) /\ Len(s[12]) = 9
    BY <1>s DEF PartLengths
  <2>2. 37 \in Nat /\ 9 \in Nat /\ 37 + 9 = 46
    OBVIOUS
  <2> QED  BY <1>11, <2>1, <2>2, Longer
<1>13. p13 \in Seq(Bit) /\ Len(p13) = 48
  <2> HIDE DEF p12
  <2>1. s[13] \in Seq(Bit) /\ Len(s[13]) = 2
    BY <1>s DEF PartLengths
  <2>2. 46 \in Nat /\ 2 \in Nat /\ 46 + 2 = 48
    OBVIOUS
  <2> QED  BY <1>12, <2>1, <2>2, Longer
<1>14. t = p13
  <2>1. p1 = s[1]
    BY <1>s
  <2> HIDE DEF e, p1
  <2> QED  BY <2>1 DEF AllParts
<1>15. Starts(p13, t)
  <2> HIDE DEF p13, t
  <2> QED  BY <1>13, <1>14, StartsItself
<1>16. Starts(p12, t)
  <2>1. p13 = p12 \o s[13] /\ s[13] \in Seq(Bit)
    BY <1>s
  <2> HIDE DEF p12, p13, t
  <2> QED  BY <1>12, <1>15, <2>1, StartsFurther
<1>17. Starts(p11, t)
  <2>1. p12 = p11 \o s[12] /\ s[12] \in Seq(Bit)
    BY <1>s
  <2> HIDE DEF p11, p12, t
  <2> QED  BY <1>11, <1>16, <2>1, StartsFurther
<1>18. Starts(p10, t)
  <2>1. p11 = p10 \o s[11] /\ s[11] \in Seq(Bit)
    BY <1>s
  <2> HIDE DEF p10, p11, t
  <2> QED  BY <1>10, <1>17, <2>1, StartsFurther
<1>19. Starts(p9, t)
  <2>1. p10 = p9 \o s[10] /\ s[10] \in Seq(Bit)
    BY <1>s
  <2> HIDE DEF p9, p10, t
  <2> QED  BY <1>9, <1>18, <2>1, StartsFurther
<1>20. Starts(p8, t)
  <2>1. p9 = p8 \o s[9] /\ s[9] \in Seq(Bit)
    BY <1>s
  <2> HIDE DEF p8, p9, t
  <2> QED  BY <1>8, <1>19, <2>1, StartsFurther
<1>21. Starts(p7, t)
  <2>1. p8 = p7 \o s[8] /\ s[8] \in Seq(Bit)
    BY <1>s
  <2> HIDE DEF p7, p8, t
  <2> QED  BY <1>7, <1>20, <2>1, StartsFurther
<1>22. Starts(p6, t)
  <2>1. p7 = p6 \o s[7] /\ s[7] \in Seq(Bit)
    BY <1>s
  <2> HIDE DEF p6, p7, t
  <2> QED  BY <1>6, <1>21, <2>1, StartsFurther
<1>23. Starts(p5, t)
  <2>1. p6 = p5 \o s[6] /\ s[6] \in Seq(Bit)
    BY <1>s
  <2> HIDE DEF p5, p6, t
  <2> QED  BY <1>5, <1>22, <2>1, StartsFurther
<1>24. Starts(p4, t)
  <2>1. p5 = p4 \o s[5] /\ s[5] \in Seq(Bit)
    BY <1>s
  <2> HIDE DEF p4, p5, t
  <2> QED  BY <1>4, <1>23, <2>1, StartsFurther
<1>25. Starts(p3, t)
  <2>1. p4 = p3 \o s[4] /\ s[4] \in Seq(Bit)
    BY <1>s
  <2> HIDE DEF p3, p4, t
  <2> QED  BY <1>3, <1>24, <2>1, StartsFurther
<1>26. Starts(p2, t)
  <2>1. p3 = p2 \o s[3] /\ s[3] \in Seq(Bit)
    BY <1>s
  <2> HIDE DEF p2, p3, t
  <2> QED  BY <1>2, <1>25, <2>1, StartsFurther
<1>27. Starts(p1, t)
  <2>1. p2 = p1 \o s[2] /\ s[2] \in Seq(Bit)
    BY <1>s
  <2> HIDE DEF p1, p2, t
  <2> QED  BY <1>1, <1>26, <2>1, StartsFurther
<1>28. Field(t, 0, 8) = s[1]
  <2>1. s[1] \in Seq(Bit) /\ Len(s[1]) = 8 /\ 0 \in Nat /\ 8 \in Nat
    BY <1>s DEF PartLengths
  <2>2. p1 = e \o s[1]
    OBVIOUS
  <2> HIDE DEF e, p1, t
  <2>3. Field(t, Len(e), Len(s[1])) = s[1]
    BY <1>0, <1>27, <2>1, <2>2, PartIs
  <2> QED  BY <1>0, <1>27, <2>1, <2>2, <2>3
<1>29. Field(t, 8, 4) = s[2]
  <2>1. s[2] \in Seq(Bit) /\ Len(s[2]) = 4 /\ 8 \in Nat /\ 4 \in Nat
    BY <1>s DEF PartLengths
  <2>2. p2 = p1 \o s[2]
    OBVIOUS
  <2> HIDE DEF p1, p2, t
  <2>3. Field(t, Len(p1), Len(s[2])) = s[2]
    BY <1>1, <1>26, <2>1, <2>2, PartIs
  <2> QED  BY <1>1, <1>26, <2>1, <2>2, <2>3
<1>30. Field(t, 12, 4) = s[3]
  <2>1. s[3] \in Seq(Bit) /\ Len(s[3]) = 4 /\ 12 \in Nat /\ 4 \in Nat
    BY <1>s DEF PartLengths
  <2>2. p3 = p2 \o s[3]
    OBVIOUS
  <2> HIDE DEF p2, p3, t
  <2>3. Field(t, Len(p2), Len(s[3])) = s[3]
    BY <1>2, <1>25, <2>1, <2>2, PartIs
  <2> QED  BY <1>2, <1>25, <2>1, <2>2, <2>3
<1>31. Field(t, 16, 4) = s[4]
  <2>1. s[4] \in Seq(Bit) /\ Len(s[4]) = 4 /\ 16 \in Nat /\ 4 \in Nat
    BY <1>s DEF PartLengths
  <2>2. p4 = p3 \o s[4]
    OBVIOUS
  <2> HIDE DEF p3, p4, t
  <2>3. Field(t, Len(p3), Len(s[4])) = s[4]
    BY <1>3, <1>24, <2>1, <2>2, PartIs
  <2> QED  BY <1>3, <1>24, <2>1, <2>2, <2>3
<1>32. Field(t, 20, 2) = s[5]
  <2>1. s[5] \in Seq(Bit) /\ Len(s[5]) = 2 /\ 20 \in Nat /\ 2 \in Nat
    BY <1>s DEF PartLengths
  <2>2. p5 = p4 \o s[5]
    OBVIOUS
  <2> HIDE DEF p4, p5, t
  <2>3. Field(t, Len(p4), Len(s[5])) = s[5]
    BY <1>4, <1>23, <2>1, <2>2, PartIs
  <2> QED  BY <1>4, <1>23, <2>1, <2>2, <2>3
<1>33. Field(t, 22, 3) = s[6]
  <2>1. s[6] \in Seq(Bit) /\ Len(s[6]) = 3 /\ 22 \in Nat /\ 3 \in Nat
    BY <1>s DEF PartLengths
  <2>2. p6 = p5 \o s[6]
    OBVIOUS
  <2> HIDE DEF p5, p6, t
  <2>3. Field(t, Len(p5), Len(s[6])) = s[6]
    BY <1>5, <1>22, <2>1, <2>2, PartIs
  <2> QED  BY <1>5, <1>22, <2>1, <2>2, <2>3
<1>34. Field(t, 25, 2) = s[7]
  <2>1. s[7] \in Seq(Bit) /\ Len(s[7]) = 2 /\ 25 \in Nat /\ 2 \in Nat
    BY <1>s DEF PartLengths
  <2>2. p7 = p6 \o s[7]
    OBVIOUS
  <2> HIDE DEF p6, p7, t
  <2>3. Field(t, Len(p6), Len(s[7])) = s[7]
    BY <1>6, <1>21, <2>1, <2>2, PartIs
  <2> QED  BY <1>6, <1>21, <2>1, <2>2, <2>3
<1>35. Field(t, 27, 2) = s[8]
  <2>1. s[8] \in Seq(Bit) /\ Len(s[8]) = 2 /\ 27 \in Nat /\ 2 \in Nat
    BY <1>s DEF PartLengths
  <2>2. p8 = p7 \o s[8]
    OBVIOUS
  <2> HIDE DEF p7, p8, t
  <2>3. Field(t, Len(p7), Len(s[8])) = s[8]
    BY <1>7, <1>20, <2>1, <2>2, PartIs
  <2> QED  BY <1>7, <1>20, <2>1, <2>2, <2>3
<1>36. Field(t, 29, 3) = s[9]
  <2>1. s[9] \in Seq(Bit) /\ Len(s[9]) = 3 /\ 29 \in Nat /\ 3 \in Nat
    BY <1>s DEF PartLengths
  <2>2. p9 = p8 \o s[9]
    OBVIOUS
  <2> HIDE DEF p8, p9, t
  <2>3. Field(t, Len(p8), Len(s[9])) = s[9]
    BY <1>8, <1>19, <2>1, <2>2, PartIs
  <2> QED  BY <1>8, <1>19, <2>1, <2>2, <2>3
<1>37. Field(t, 32, 3) = s[10]
  <2>1. s[10] \in Seq(Bit) /\ Len(s[10]) = 3 /\ 32 \in Nat /\ 3 \in Nat
    BY <1>s DEF PartLengths
  <2>2. p10 = p9 \o s[10]
    OBVIOUS
  <2> HIDE DEF p9, p10, t
  <2>3. Field(t, Len(p9), Len(s[10])) = s[10]
    BY <1>9, <1>18, <2>1, <2>2, PartIs
  <2> QED  BY <1>9, <1>18, <2>1, <2>2, <2>3
<1>38. Field(t, 35, 2) = s[11]
  <2>1. s[11] \in Seq(Bit) /\ Len(s[11]) = 2 /\ 35 \in Nat /\ 2 \in Nat
    BY <1>s DEF PartLengths
  <2>2. p11 = p10 \o s[11]
    OBVIOUS
  <2> HIDE DEF p10, p11, t
  <2>3. Field(t, Len(p10), Len(s[11])) = s[11]
    BY <1>10, <1>17, <2>1, <2>2, PartIs
  <2> QED  BY <1>10, <1>17, <2>1, <2>2, <2>3
<1>39. Field(t, 37, 9) = s[12]
  <2>1. s[12] \in Seq(Bit) /\ Len(s[12]) = 9 /\ 37 \in Nat /\ 9 \in Nat
    BY <1>s DEF PartLengths
  <2>2. p12 = p11 \o s[12]
    OBVIOUS
  <2> HIDE DEF p11, p12, t
  <2>3. Field(t, Len(p11), Len(s[12])) = s[12]
    BY <1>11, <1>16, <2>1, <2>2, PartIs
  <2> QED  BY <1>11, <1>16, <2>1, <2>2, <2>3
<1>40. t \in Seq(Bit) /\ Len(t) = 48
  <2> HIDE DEF p13, t
  <2> QED  BY <1>13, <1>14
<1> HIDE DEF t
<1> QED
  BY <1>28, <1>29, <1>30, <1>31, <1>32, <1>33, <1>34, <1>35, <1>36, <1>37, <1>38, <1>39, <1>40 DEF t

Piece(row, imms) ==
    << Digits(row, LeadingSignals), Dec2bin(Number(row.r0, RegsMux), 4),
       Dec2bin(Number(row.r1, RegsMux), 4), Dec2bin(Number(row.ws, RegsMux), 4),
       Dec2bin(Number(row.mdrs, MdrsMux), 2), Dec2bin(Number(imms, ImmsMux), 3),
       Dec2bin(Number(row.op0, Op0Mux), 2), Dec2bin(Number(row.op1, Op1Mux), 2),
       Dec2bin(Number(row.skipc, SkipcMux), 3), Dec2bin(Number(row.alu, AluMux), 3),
       Dec2bin(Number(row.skipstate, SkipstateMux), 2), Digits(row, TrailingSignals),
       <<0, 0>> >>

\* The digits of the signals of a row.
LEMMA SignalDigits ==
    ASSUME NEW row
    PROVE  /\ Digits(row, LeadingSignals) \in Seq(Bit) /\ Len(Digits(row, LeadingSignals)) = 8
           /\ Digits(row, TrailingSignals) \in Seq(Bit) /\ Len(Digits(row, TrailingSignals)) = 9
           /\ \A i \in 1 .. 8 :
                 Digits(row, LeadingSignals)[i] = Digit(row, LeadingSignals[i])
           /\ \A i \in 1 .. 9 :
                 Digits(row, TrailingSignals)[i] = Digit(row, TrailingSignals[i])
<1>1. \A x : Digit(row, x) \in Bit
  BY DEF Digit, Bit
<1>2. DOMAIN LeadingSignals = 1 .. 8 /\ DOMAIN TrailingSignals = 1 .. 9
  BY DEF LeadingSignals, TrailingSignals
<1> HIDE DEF LeadingSignals, TrailingSignals
<1>3. /\ Digits(row, LeadingSignals) = [i \in 1 .. 8 |-> Digit(row, LeadingSignals[i])]
      /\ Digits(row, TrailingSignals) = [i \in 1 .. 9 |-> Digit(row, TrailingSignals[i])]
  BY <1>2 DEF Digits
<1>4. ASSUME NEW n \in Nat, NEW f, f \in [1 .. n -> Bit]
      PROVE  f \in Seq(Bit) /\ Len(f) = n
  BY <1>4
<1>5. /\ Digits(row, LeadingSignals) \in [1 .. 8 -> Bit]
      /\ Digits(row, TrailingSignals) \in [1 .. 9 -> Bit]
  BY <1>1, <1>3
<1>6. 8 \in Nat /\ 9 \in Nat
  OBVIOUS
<1> QED  BY <1>3, <1>4, <1>5, <1>6

\* The parts of a microword have the lengths of their fields.
LEMMA PieceParts ==
    ASSUME NEW row \in RowFields, NEW imms \in Immediates
    PROVE  PartLengths(Piece(row, imms))
<1>1. /\ row.r0 \in Selections /\ row.r1 \in Selections /\ row.ws \in Selections
      /\ row.mdrs \in {"imm", "ram", "alu"} /\ row.op0 \in {"regr0", "regr1", "mdr"}
      /\ row.op1 \in {"regr0", "regr1", "mdr"} /\ row.skipc \in {"none", "zr", "nzr", "cond"}
      /\ row.alu \in {"add", "sub", "and", "or", "shl", "shr", "addhi"}
      /\ row.skipstate \in {"READ", "EXEC", "FETCH"}
  BY DEF RowFields
<1>2. InDigits(Number(row.skipc, SkipcMux), 3)
  <2> DEFINE v == Number(row.skipc, SkipcMux)
  <2>1. v = 0 \/ v = 1 \/ v = 3 \/ v = 5
    BY <1>1, SkipSelection
  <2> HIDE DEF v
  <2>2. v \in 0 .. 7
    BY <2>1
  <2> QED  BY <2>2, SmallInDigits DEF v
<1> DEFINE p == Piece(row, imms)
           ok(d, n) == d \in Seq(Bit) /\ Len(d) = n
<1>a. \A v, n : InDigits(v, n) => ok(Dec2bin(v, n), n)
  BY DigitsOf
<1> HIDE DEF ok
<1>3. ok(p[1], 8) /\ ok(p[12], 9)
  BY SignalDigits DEF ok, Piece
<1>4. ok(p[2], 4) /\ ok(p[3], 4) /\ ok(p[4], 4)
  BY <1>1, <1>a, RegisterSelection DEF Piece
<1>5. ok(p[5], 2)
  BY <1>1, <1>a, MdrSelection DEF Piece
<1>6. ok(p[6], 3)
  BY <1>a, ImmediateSelection DEF Piece
<1>7. ok(p[7], 2) /\ ok(p[8], 2)
  BY <1>1, <1>a, OperandSelection DEF Piece
<1>8. ok(p[9], 3)
  BY <1>2, <1>a DEF Piece
<1>9. ok(p[10], 3)
  BY <1>1, <1>a, AluSelection DEF Piece
<1>10. ok(p[11], 2)
  BY <1>1, <1>a, StateSelection DEF Piece
<1>11. ok(p[13], 2)
  <2>1. p[13] = <<0, 0>>
    BY DEF Piece
  <2>2. <<0, 0>> \in Seq(Bit) /\ Len(<<0, 0>>) = 2
    BY DEF Bit
  <2> HIDE DEF p
  <2> QED  BY <2>1, <2>2 DEF ok
<1>12. p = [k \in 1 .. 13 |-> p[k]]
  BY DEF Piece
<1> HIDE DEF p
<1>13. \A k \in 1 .. 13 : p[k] \in Seq(Bit)
  <2>1. \A k \in 1 .. 13 : \/ k = 1 \/ k = 2 \/ k = 3 \/ k = 4 \/ k = 5 \/ k = 6 \/ k = 7
                          \/ k = 8 \/ k = 9 \/ k = 10 \/ k = 11 \/ k = 12 \/ k = 13
    OBVIOUS
  <2> QED
    BY <1>3, <1>4, <1>5, <1>6, <1>7, <1>8, <1>9, <1>10, <1>11, <2>1 DEF ok
<1>14. p \in [1 .. 13 -> Seq(Bit)]
  BY <1>12, <1>13
<1>15. PartLengths(p)
  BY <1>3, <1>4, <1>5, <1>6, <1>7, <1>8, <1>9, <1>10, <1>11, <1>14 DEF PartLengths, ok
<1> QED  BY <1>15 DEF p

\* Where the parts of a row are in its word.
LEMMA WordFields ==
    ASSUME NEW row \in RowFields, NEW imms \in Immediates
    PROVE  LET t == Microword(row, imms)
           IN  /\ t \in Seq(Bit) /\ Len(t) = 48
               /\ Field(t, 0, 8) = Digits(row, LeadingSignals)
               /\ Field(t, 8, 4) = Dec2bin(Number(row.r0, RegsMux), 4)
               /\ Field(t, 12, 4) = Dec2bin(Number(row.r1, RegsMux), 4)
               /\ Field(t, 16, 4) = Dec2bin(Number(row.ws, RegsMux), 4)
               /\ Field(t, 20, 2) = Dec2bin(Number(row.mdrs, MdrsMux), 2)
               /\ Field(t, 22, 3) = Dec2bin(Number(imms, ImmsMux), 3)
               /\ Field(t, 25, 2) = Dec2bin(Number(row.op0, Op0Mux), 2)
               /\ Field(t, 27, 2) = Dec2bin(Number(row.op1, Op1Mux), 2)
               /\ Field(t, 29, 3) = Dec2bin(Number(row.skipc, SkipcMux), 3)
               /\ Field(t, 32, 3) = Dec2bin(Number(row.alu, AluMux), 3)
               /\ Field(t, 35, 2) = Dec2bin(Number(row.skipstate, SkipstateMux), 2)
               /\ Field(t, 37, 9) = Digits(row, TrailingSignals)
<1> DEFINE p == Piece(row, imms)
           t == Microword(row, imms)
<1>1. /\ p[1] = Digits(row, LeadingSignals)
      /\ p[2] = Dec2bin(Number(row.r0, RegsMux), 4)
      /\ p[3] = Dec2bin(Number(row.r1, RegsMux), 4)
      /\ p[4] = Dec2bin(Number(row.ws, RegsMux), 4)
      /\ p[5] = Dec2bin(Number(row.mdrs, MdrsMux), 2)
      /\ p[6] = Dec2bin(Number(imms, ImmsMux), 3)
      /\ p[7] = Dec2bin(Number(row.op0, Op0Mux), 2)
      /\ p[8] = Dec2bin(Number(row.op1, Op1Mux), 2)
      /\ p[9] = Dec2bin(Number(row.skipc, SkipcMux), 3)
      /\ p[10] = Dec2bin(Number(row.alu, AluMux), 3)
      /\ p[11] = Dec2bin(Number(row.skipstate, SkipstateMux), 2)
      /\ p[12] = Digits(row, TrailingSignals)
      /\ p[13] = <<0, 0>>
  BY DEF Piece
<1>2. PartLengths(p)
  BY PieceParts
<1> HIDE DEF p
<1>3. t = AllParts(p)
  BY <1>1 DEF AllParts, Microword
<1> HIDE DEF t
<1>4. /\ t \in Seq(Bit) /\ Len(t) = 48
      /\ Field(t, 0, 8) = p[1]
      /\ Field(t, 8, 4) = p[2]
      /\ Field(t, 12, 4) = p[3]
      /\ Field(t, 16, 4) = p[4]
      /\ Field(t, 20, 2) = p[5]
      /\ Field(t, 22, 3) = p[6]
      /\ Field(t, 25, 2) = p[7]
      /\ Field(t, 27, 2) = p[8]
      /\ Field(t, 29, 3) = p[9]
      /\ Field(t, 32, 3) = p[10]
      /\ Field(t, 35, 2) = p[11]
      /\ Field(t, 37, 9) = p[12]
  BY <1>2, <1>3, PartFields
<1> QED  BY <1>1, <1>4 DEF t

\* The digits of a microword that are signals.
LEMMA SignalBits ==
    ASSUME NEW row \in RowFields, NEW imms \in Immediates
    PROVE  LET t == Microword(row, imms)
           IN  /\ \A q \in 0 .. 7 : t[q + 1] = Digit(row, LeadingSignals[q + 1])
               /\ \A q \in 37 .. 45 : t[q + 1] = Digit(row, TrailingSignals[q - 36])
<1> DEFINE t == Microword(row, imms)
<1>1. /\ t \in Seq(Bit) /\ Len(t) = 48
      /\ Field(t, 0, 8) = Digits(row, LeadingSignals)
      /\ Field(t, 37, 9) = Digits(row, TrailingSignals)
  BY WordFields
<1> HIDE DEF t
<1>2. /\ \A i \in 1 .. 8 : Field(t, 0, 8)[i] = t[i]
      /\ \A i \in 1 .. 9 : Field(t, 37, 9)[i] = t[37 + i]
  BY <1>1 DEF Field
<1>3. /\ \A i \in 1 .. 8 : t[i] = Digit(row, LeadingSignals[i])
      /\ \A i \in 1 .. 9 : t[37 + i] = Digit(row, TrailingSignals[i])
  BY <1>1, <1>2, SignalDigits
<1>4. ASSUME NEW q \in 0 .. 7
      PROVE  t[q + 1] = Digit(row, LeadingSignals[q + 1])
  <2>1. q + 1 \in 1 .. 8
    OBVIOUS
  <2> QED  BY <1>3, <2>1
<1>5. ASSUME NEW q \in 37 .. 45
      PROVE  t[q + 1] = Digit(row, TrailingSignals[q - 36])
  <2>1. q - 36 \in 1 .. 9 /\ 37 + (q - 36) = q + 1
    OBVIOUS
  <2> QED  BY <1>3, <2>1
<1> QED  BY <1>4, <1>5 DEF t

SignalPlaces == (0 .. 7) \cup {37} \cup (41 .. 45)

\* The simulators name a signal as the microcode assembler does.
LEMMA SignalNames ==
    ASSUME NEW row \in RowFields, NEW imms \in Immediates, NEW q \in SignalPlaces
    PROVE  Microword(row, imms)[q + 1] = Digit(row, SignalAt(q))
<1>1. CASE q \in 0 .. 7
  <2>1. SignalAt(q) = LeadingSignals[q + 1]
    BY <1>1 DEF SignalAt
  <2> QED  BY <1>1, <2>1, SignalBits
<1>2. CASE q \in 37 .. 45
  <2>1. /\ SignalAt(37) = TrailingSignals[1] /\ SignalAt(41) = TrailingSignals[5]
        /\ SignalAt(42) = TrailingSignals[6] /\ SignalAt(43) = TrailingSignals[7]
        /\ SignalAt(44) = TrailingSignals[8] /\ SignalAt(45) = TrailingSignals[9]
    BY DEF SignalAt, TrailingSignals
  <2>2. q = 37 \/ q = 41 \/ q = 42 \/ q = 43 \/ q = 44 \/ q = 45
    BY <1>2 DEF SignalPlaces
  <2>3. SignalAt(q) = TrailingSignals[q - 36]
    <3> HIDE DEF SignalAt, TrailingSignals
    <3>1. 37 - 36 = 1 /\ 41 - 36 = 5 /\ 42 - 36 = 6 /\ 43 - 36 = 7 /\ 44 - 36 = 8 /\ 45 - 36 = 9
      OBVIOUS
    <3> QED  BY <2>1, <2>2, <3>1
  <2> QED  BY <1>2, <2>3, SignalBits
<1> QED  BY <1>1, <1>2 DEF SignalPlaces

\* The signals read at some places are those the row has there.
LEMMA SignalsOf ==
    ASSUME NEW row \in RowFields, NEW imms \in Immediates,
           NEW positions \in SUBSET SignalPlaces
    PROVE  Signals(Microword(row, imms), positions)
             = {x \in row.sig : \E q \in positions : x = SignalAt(q)}
<1> DEFINE t == Microword(row, imms)
<1>1. \A q \in SignalPlaces : t[q + 1] = 1 <=> SignalAt(q) \in row.sig
  BY SignalNames DEF Digit
<1> HIDE DEF t
<1>2. \A q \in positions : t[q + 1] = 1 <=> SignalAt(q) \in row.sig
  BY <1>1
<1>3. Signals(t, positions) = {x \in row.sig : \E q \in positions : x = SignalAt(q)}
  BY <1>2 DEF Signals
<1> QED  BY <1>3 DEF t

\* The place of every signal.
LEMMA PlacesOfSignals ==
    /\ SignalAt(0) = "mar_load" /\ SignalAt(1) = "ir_load" /\ SignalAt(2) = "mdr_load"
    /\ SignalAt(3) = "reg_load" /\ SignalAt(4) = "ram_load" /\ SignalAt(5) = "incr_pc"
    /\ SignalAt(6) = "decr_sp" /\ SignalAt(7) = "be" /\ SignalAt(37) = "incr_sp"
    /\ SignalAt(41) = "brk" /\ SignalAt(42) = "wptb" /\ SignalAt(43) = "wpte"
    /\ SignalAt(44) = "re" /\ SignalAt(45) = "sext"
  BY DEF SignalAt, LeadingSignals

\* main2.c reads all signals of a row, main.c all but the sign extension.
LEMMA RowSignalsArrive ==
    ASSUME NEW row \in RowFields, NEW imms \in Immediates
    PROVE  /\ Signals(Microword(row, imms), SignalPlaces) = row.sig
           /\ Signals(Microword(row, imms), (0 .. 7) \cup {37, 41, 44}) = row.sig \ {"sext"}
<1>1. row.sig \in SUBSET RowSignals
  BY DEF RowFields
<1>2. \A x \in RowSignals : \E q \in SignalPlaces : x = SignalAt(q)
  <2>1. {0, 1, 2, 3, 4, 5, 6, 7, 37, 41, 44, 45} \subseteq SignalPlaces
    BY DEF SignalPlaces
  <2> HIDE DEF SignalAt, SignalPlaces
  <2> QED  BY <2>1, PlacesOfSignals DEF RowSignals
<1> DEFINE old == (0 .. 7) \cup {37, 41, 44}
<1>3. old \in SUBSET SignalPlaces
  BY DEF SignalPlaces
<1>4. \A x \in RowSignals \ {"sext"} : \E q \in old : x = SignalAt(q)
  <2>1. {0, 1, 2, 3, 4, 5, 6, 7, 37, 41, 44} \subseteq old
    OBVIOUS
  <2> HIDE DEF SignalAt, old
  <2> QED  BY <2>1, PlacesOfSignals DEF RowSignals
<1>5. \A q \in old : SignalAt(q) # "sext"
  <2>1. \A q \in old : \/ q = 0 \/ q = 1 \/ q = 2 \/ q = 3 \/ q = 4 \/ q = 5 \/ q = 6 \/ q = 7
                       \/ q = 37 \/ q = 41 \/ q = 44
    OBVIOUS
  <2> HIDE DEF SignalAt, old
  <2> QED  BY <2>1, PlacesOfSignals
<1> HIDE DEF old
<1>6. Signals(Microword(row, imms), SignalPlaces) = row.sig
  <2>1. Signals(Microword(row, imms), SignalPlaces)
          = {x \in row.sig : \E q \in SignalPlaces : x = SignalAt(q)}
    BY SignalsOf
  <2> QED  BY <1>1, <1>2, <2>1
<1>7. Signals(Microword(row, imms), old) = row.sig \ {"sext"}
  <2>1. Signals(Microword(row, imms), old) = {x \in row.sig : \E q \in old : x = SignalAt(q)}
    BY <1>3, SignalsOf
  <2> QED  BY <1>1, <1>4, <1>5, <2>1
<1> QED  BY <1>6, <1>7 DEF old

\* The three digits of a skip.
LEMMA SkipDigits ==
    /\ Dec2bin(0, 3) = <<0, 0, 0>> /\ Dec2bin(1, 3) = <<0, 0, 1>>
    /\ Dec2bin(3, 3) = <<0, 1, 1>> /\ Dec2bin(5, 3) = <<1, 0, 1>>
    /\ Bin2dec(<<0, 0>>) = 0 /\ Bin2dec(<<0, 1>>) = 1 /\ Bin2dec(<<1, 0>>) = 2
<1> DEFINE d(v, w) == (v \div w) % 2
<1>1. 2 ^ (3 - 1) = 4 /\ 2 ^ (3 - 2) = 2 /\ 2 ^ (3 - 3) = 1
      /\ 2 ^ (2 - 1) = 2 /\ 2 ^ (2 - 2) = 1
  <2>1. 3 - 1 = 2 /\ 3 - 2 = 1 /\ 3 - 3 = 0 /\ 2 - 1 = 1 /\ 2 - 2 = 0
    OBVIOUS
  <2> QED  BY <2>1, Powers
<1>2. /\ d(0, 4) = 0 /\ d(0, 2) = 0 /\ d(0, 1) = 0
      /\ d(1, 4) = 0 /\ d(1, 2) = 0 /\ d(1, 1) = 1
      /\ d(3, 4) = 0 /\ d(3, 2) = 1 /\ d(3, 1) = 1
      /\ d(5, 4) = 1 /\ d(5, 2) = 0 /\ d(5, 1) = 1
      /\ d(2, 2) = 1 /\ d(2, 1) = 0
  OBVIOUS
<1>3. /\ \A v : Dec2bin(v, 3) = [i \in 1 .. 3 |-> d(v, 2 ^ (3 - i))]
      /\ \A v : Dec2bin(v, 2) = [i \in 1 .. 2 |-> d(v, 2 ^ (2 - i))]
  BY DEF Dec2bin
<1> HIDE DEF d
<1>4. \A v : Dec2bin(v, 3) = <<d(v, 4), d(v, 2), d(v, 1)>>
  <2> TAKE v
  <2> DEFINE s == <<d(v, 4), d(v, 2), d(v, 1)>>
  <2>1. s = [i \in 1 .. 3 |-> s[i]] /\ s[1] = d(v, 4) /\ s[2] = d(v, 2) /\ s[3] = d(v, 1)
    OBVIOUS
  <2> HIDE DEF s
  <2>2. \A i \in 1 .. 3 : s[i] = d(v, 2 ^ (3 - i))
    <3>1. \A i \in 1 .. 3 : i = 1 \/ i = 2 \/ i = 3
      OBVIOUS
    <3> QED  BY <1>1, <2>1, <3>1
  <2>3. Dec2bin(v, 3) = s
    BY <1>3, <2>1, <2>2
  <2> QED  BY <2>3 DEF s
<1>5. \A v : Dec2bin(v, 2) = <<d(v, 2), d(v, 1)>>
  <2> TAKE v
  <2> DEFINE s == <<d(v, 2), d(v, 1)>>
  <2>1. s = [i \in 1 .. 2 |-> s[i]] /\ s[1] = d(v, 2) /\ s[2] = d(v, 1)
    OBVIOUS
  <2> HIDE DEF s
  <2>2. \A i \in 1 .. 2 : s[i] = d(v, 2 ^ (2 - i))
    <3>1. \A i \in 1 .. 2 : i = 1 \/ i = 2
      OBVIOUS
    <3> QED  BY <1>1, <2>1, <3>1
  <2>3. Dec2bin(v, 2) = s
    BY <1>3, <2>1, <2>2
  <2> QED  BY <2>3 DEF s
<1>6. Bin2dec(Dec2bin(0, 2)) = 0 /\ Bin2dec(Dec2bin(1, 2)) = 1 /\ Bin2dec(Dec2bin(2, 2)) = 2
  BY SmallInDigits, DigitsOf
<1> QED  BY <1>2, <1>4, <1>5, <1>6

\* The skip condition of a row is read as it was written.
LEMMA SkipArrives ==
    ASSUME NEW row \in RowFields, NEW imms \in Immediates
    PROVE  Skipc(Microword(row, imms)) = row.skipc
<1> DEFINE t == Microword(row, imms)
           v == Number(row.skipc, SkipcMux)
<1>1. t \in Seq(Bit) /\ Len(t) = 48 /\ Field(t, 29, 3) = Dec2bin(v, 3)
  BY WordFields
<1>2. row.skipc \in {"none", "zr", "nzr", "cond"}
  BY DEF RowFields
<1>3. /\ row.skipc = "none" => v = 0
      /\ row.skipc = "zr" => v = 1
      /\ row.skipc = "nzr" => v = 3
      /\ row.skipc = "cond" => v = 5
  BY <1>2, SkipSelection
<1> HIDE DEF t, v
<1>4. /\ Field(t, 29, 3)[1] = t[30] /\ Field(t, 29, 3)[2] = t[31] /\ Field(t, 29, 3)[3] = t[32]
      /\ Field(t, 29, 2) = <<t[30], t[31]>>
  <2>1. 1 \in 1 .. 3 /\ 2 \in 1 .. 3 /\ 3 \in 1 .. 3 /\ 29 + 1 = 30 /\ 29 + 2 = 31 /\ 29 + 3 = 32
    OBVIOUS
  <2>2. \A i \in 1 .. 3 : Field(t, 29, 3)[i] = t[29 + i]
    BY <1>1 DEF Field
  <2> DEFINE g == Field(t, 29, 2)
  <2>3. g \in Seq(Bit) /\ Len(g) = 2 /\ g[1] = t[30] /\ g[2] = t[31]
    <3>1. g \in Seq(Bit) /\ Len(g) = 2 /\ \A i \in 1 .. 2 : g[i] = t[29 + i]
      <4>1. 29 \in Nat /\ 2 \in Nat /\ 29 + 2 <= Len(t)
        BY <1>1
      <4> QED  BY <1>1, <4>1, FieldIn
    <3> HIDE DEF g
    <3>2. 1 \in 1 .. 2 /\ 2 \in 1 .. 2
      OBVIOUS
    <3> QED  BY <2>1, <3>1, <3>2
  <2> HIDE DEF g
  <2>4. g = <<t[30], t[31]>>
    BY <2>3
  <2>5. Field(t, 29, 3)[1] = t[30] /\ Field(t, 29, 3)[2] = t[31] /\ Field(t, 29, 3)[3] = t[32]
    BY <2>1, <2>2
  <2> QED  BY <2>4, <2>5 DEF g
<1>5. t[30] = Dec2bin(v, 3)[1] /\ t[31] = Dec2bin(v, 3)[2] /\ t[32] = Dec2bin(v, 3)[3]
  BY <1>1, <1>4
<1>6. CASE row.skipc = "none"
  <2>1. t[32] = 0
    BY <1>3, <1>5, <1>6, SkipDigits
  <2> QED  BY <1>6, <2>1 DEF Skipc, t
<1>7. CASE row.skipc = "zr"
  <2>1. t[32] = 1 /\ Bin2dec(Field(t, 29, 2)) = 0
    BY <1>3, <1>4, <1>5, <1>7, SkipDigits
  <2> QED  BY <1>7, <2>1 DEF Skipc, t
<1>8. CASE row.skipc = "nzr"
  <2>1. t[32] = 1 /\ Bin2dec(Field(t, 29, 2)) = 1
    BY <1>3, <1>4, <1>5, <1>8, SkipDigits
  <2> QED  BY <1>8, <2>1 DEF Skipc, t
<1>9. CASE row.skipc = "cond"
  <2>1. t[32] = 1 /\ Bin2dec(Field(t, 29, 2)) = 2
    BY <1>3, <1>4, <1>5, <1>9, SkipDigits
  <2> QED  BY <1>9, <2>1 DEF Skipc, t
<1> QED  BY <1>2, <1>6, <1>7, <1>8, <1>9

\* Every selection of a row is read as it was written.
LEMMA SelectionsArrive ==
    ASSUME NEW row \in RowFields, NEW imms \in Immediates
    PROVE  LET t == Microword(row, imms)
           IN  /\ Selected(t, 8, 4, Regfile) = row.r0
               /\ Selected(t, 12, 4, Regfile) = row.r1
               /\ Selected(t, 16, 4, Regfile) = row.ws
               /\ Selected(t, 20, 2, <<"imm", "ram", "alu">>) = row.mdrs
               /\ Selected(t, 22, 3, IrImms) = imms
               /\ Selected(t, 25, 2, Operands) = row.op0
               /\ Selected(t, 27, 2, Operands) = row.op1
               /\ Selected(t, 32, 3, AluCases) = row.alu
               /\ Selected(t, 35, 2, AfterDecodem) = row.skipstate
<1> DEFINE t == Microword(row, imms)
<1>1. /\ row.r0 \in Selections /\ row.r1 \in Selections /\ row.ws \in Selections
      /\ row.mdrs \in {"imm", "ram", "alu"} /\ row.op0 \in {"regr0", "regr1", "mdr"}
      /\ row.op1 \in {"regr0", "regr1", "mdr"}
      /\ row.alu \in {"add", "sub", "and", "or", "shl", "shr", "addhi"}
      /\ row.skipstate \in {"READ", "EXEC", "FETCH"}
  BY DEF RowFields
<1>2. /\ Field(t, 8, 4) = Dec2bin(Number(row.r0, RegsMux), 4)
      /\ Field(t, 12, 4) = Dec2bin(Number(row.r1, RegsMux), 4)
      /\ Field(t, 16, 4) = Dec2bin(Number(row.ws, RegsMux), 4)
      /\ Field(t, 20, 2) = Dec2bin(Number(row.mdrs, MdrsMux), 2)
      /\ Field(t, 22, 3) = Dec2bin(Number(imms, ImmsMux), 3)
      /\ Field(t, 25, 2) = Dec2bin(Number(row.op0, Op0Mux), 2)
      /\ Field(t, 27, 2) = Dec2bin(Number(row.op1, Op1Mux), 2)
      /\ Field(t, 32, 3) = Dec2bin(Number(row.alu, AluMux), 3)
      /\ Field(t, 35, 2) = Dec2bin(Number(row.skipstate, SkipstateMux), 2)
  BY WordFields
<1> HIDE DEF t
<1>3. /\ Selected(t, 8, 4, Regfile) = row.r0
      /\ Selected(t, 12, 4, Regfile) = row.r1
      /\ Selected(t, 16, 4, Regfile) = row.ws
  BY <1>1, <1>2, RegisterSelection, SelectedIs
<1>4. Selected(t, 20, 2, <<"imm", "ram", "alu">>) = row.mdrs
  <2>1. Selected(t, 20, 2, MdrsMux) = row.mdrs
    BY <1>1, <1>2, MdrSelection, SelectedIs
  <2> QED  BY <2>1 DEF MdrsMux
<1>5. Selected(t, 22, 3, IrImms) = imms
  BY <1>2, ImmediateSelection, SelectedIs
<1>6. Selected(t, 25, 2, Operands) = row.op0 /\ Selected(t, 27, 2, Operands) = row.op1
  BY <1>1, <1>2, OperandSelection, SelectedIs
<1>7. Selected(t, 32, 3, AluCases) = row.alu
  BY <1>1, <1>2, AluSelection, SelectedIs
<1>8. Selected(t, 35, 2, AfterDecodem) = row.skipstate
  BY <1>1, <1>2, StateSelection, SelectedIs
<1> QED  BY <1>3, <1>4, <1>5, <1>6, <1>7, <1>8 DEF t

\* A row that is written and cut again is the same row.
LEMMA RowArrives ==
    ASSUME NEW row \in RowFields, NEW imms \in Immediates
    PROVE  /\ Fsm2Row(Microword(row, imms)) = row
           /\ OldRow(Microword(row, imms)) = [row EXCEPT !.sig = @ \ {"sext"}]
           /\ IrImm(Microword(row, imms)) = imms
<1> DEFINE t == Microword(row, imms)
<1>1. /\ Selected(t, 8, 4, Regfile) = row.r0
      /\ Selected(t, 12, 4, Regfile) = row.r1
      /\ Selected(t, 16, 4, Regfile) = row.ws
      /\ Selected(t, 20, 2, <<"imm", "ram", "alu">>) = row.mdrs
      /\ Selected(t, 22, 3, IrImms) = imms
      /\ Selected(t, 25, 2, Operands) = row.op0
      /\ Selected(t, 27, 2, Operands) = row.op1
      /\ Selected(t, 32, 3, AluCases) = row.alu
      /\ Selected(t, 35, 2, AfterDecodem) = row.skipstate
  BY SelectionsArrive
<1>2. Skipc(t) = row.skipc
  BY SkipArrives
<1>3. /\ Signals(t, SignalPlaces) = row.sig
      /\ Signals(t, (0 .. 7) \cup {37, 41, 44}) = row.sig \ {"sext"}
  BY RowSignalsArrive
<1> HIDE DEF t
<1>4. \A p : Cut(t, p) = [sig |-> Signals(t, p), r0 |-> row.r0, r1 |-> row.r1, ws |-> row.ws,
                          mdrs |-> row.mdrs, op0 |-> row.op0, op1 |-> row.op1,
                          skipc |-> row.skipc, alu |-> row.alu, skipstate |-> row.skipstate]
  BY <1>1, <1>2 DEF Cut
<1>5. row = [sig |-> row.sig, r0 |-> row.r0, r1 |-> row.r1, ws |-> row.ws,
             mdrs |-> row.mdrs, op0 |-> row.op0, op1 |-> row.op1,
             skipc |-> row.skipc, alu |-> row.alu, skipstate |-> row.skipstate]
  BY DEF RowFields
<1>6. Fsm2Row(t) = row
  BY <1>3, <1>4, <1>5 DEF Fsm2Row, SignalPlaces
<1>7. OldRow(t) = [row EXCEPT !.sig = @ \ {"sext"}]
  <2>1. [row EXCEPT !.sig = @ \ {"sext"}]
          = [sig |-> row.sig \ {"sext"}, r0 |-> row.r0, r1 |-> row.r1, ws |-> row.ws,
             mdrs |-> row.mdrs, op0 |-> row.op0, op1 |-> row.op1,
             skipc |-> row.skipc, alu |-> row.alu, skipstate |-> row.skipstate]
    BY <1>5
  <2> QED  BY <1>3, <1>4, <2>1 DEF OldRow
<1>8. IrImm(t) = imms
  BY <1>1 DEF IrImm
<1> QED  BY <1>6, <1>7, <1>8 DEF t

Joins(c, a, b) == c = a \o b

Joined(c, a, b, D) ==
    /\ c \in Seq(D) /\ Len(c) = Len(a) + Len(b)
    /\ \A i \in 1 .. Len(a) : c[i] = a[i]
    /\ \A i \in 1 .. Len(b) : c[Len(a) + i] = b[i]

-----------------------------------------------------------------------------
\* The control store.

\* The entries of a sequence made of two.
LEMMA Concat ==
    ASSUME NEW D, NEW a \in Seq(D), NEW b \in Seq(D), NEW c, Joins(c, a, b)
    PROVE  Joined(c, a, b, D)
  BY DEF Joins, Joined

\* The entries of a sequence.
LEMMA SeqElements ==
    ASSUME NEW D, NEW s \in Seq(D)
    PROVE  \A i \in DOMAIN s : s[i] \in D
  OBVIOUS

\* t[k] is a sequence of k words, built by one after the other.
Builds(t, n, w) == t = [k \in 0 .. n |-> IF k = 0 THEN <<>> ELSE t[k - 1] \o <<w[k]>>]

\* A sequence that is built entry by entry.
LEMMA Built ==
    ASSUME NEW n \in Nat, NEW D, NEW w \in [1 .. n -> D], NEW t, Builds(t, n, w)
    PROVE  /\ t[n] \in Seq(D) /\ Len(t[n]) = n /\ DOMAIN t[n] = 1 .. n
           /\ \A i \in 1 .. n : t[n][i] = w[i]
<1>1. t[0] = <<>> /\ \A k \in 1 .. n : t[k] = t[k - 1] \o <<w[k]>>
  <2> DEFINE f(k) == IF k = 0 THEN <<>> ELSE t[k - 1] \o <<w[k]>>
             u == [k \in 0 .. n |-> f(k)]
  <2>1. t = u
    BY DEF Builds
  <2>2. \A k \in 0 .. n : u[k] = f(k)
    <3> HIDE DEF f
    <3> QED  OBVIOUS
  <2>3. (\A k \in 1 .. n : k \in 0 .. n /\ k # 0) /\ 0 \in 0 .. n
    OBVIOUS
  <2>4. f(0) = <<>> /\ \A k \in 1 .. n : f(k) = t[k - 1] \o <<w[k]>>
    BY <2>3
  <2> HIDE DEF u, f
  <2>5. u[0] = <<>> /\ \A k \in 1 .. n : u[k] = t[k - 1] \o <<w[k]>>
    BY <2>2, <2>3, <2>4
  <2>6. \A k \in 1 .. n : t[k] = t[k - 1] \o <<w[k]>>
    BY <2>1, <2>5
  <2> QED  BY <2>1, <2>5, <2>6
<1> DEFINE Filled(k) ==
        t[k] \in Seq(D) /\ Len(t[k]) = k /\ \A i \in 1 .. k : t[k][i] = w[i]
           P == {k \in 0 .. n : Filled(k)}
<1>2. 0 \in P
  <2>1. <<>> \in Seq(D) /\ Len(<<>>) = 0 /\ 0 \in 0 .. n /\ 1 .. 0 = {}
    OBVIOUS
  <2>2. Filled(0)
    BY <1>1, <2>1
  <2> QED  BY <2>1, <2>2
<1>3. ASSUME NEW k \in 0 .. n - 1, k \in P PROVE k + 1 \in P
  <2>1. k + 1 \in 1 .. n /\ (k + 1) - 1 = k /\ w[k + 1] \in D /\ k \in Nat
    OBVIOUS
  <2> DEFINE a == t[k]
             x == w[k + 1]
             b == t[k + 1]
  <2>2. b = a \o <<x>>
    BY <1>1, <2>1
  <2>3. a \in Seq(D) /\ Len(a) = k /\ (\A i \in 1 .. k : a[i] = w[i]) /\ x \in D
    BY <1>3, <2>1
  <2>4. b \in Seq(D) /\ Len(b) = k + 1 /\ b[k + 1] = x /\ \A i \in 1 .. k : b[i] = a[i]
    <3> HIDE DEF a, x, b
    <3> DEFINE c == <<x>>
    <3>1. c \in Seq(D) /\ Len(c) = 1 /\ c[1] = x /\ 1 \in 1 .. 1
      BY <2>3
    <3>2. Joins(b, a, c)
      BY <2>2 DEF Joins
    <3> HIDE DEF c
    <3>3. /\ b \in Seq(D) /\ Len(b) = Len(a) + Len(c)
          /\ \A i \in 1 .. Len(a) : b[i] = a[i]
          /\ \A i \in 1 .. Len(c) : b[Len(a) + i] = c[i]
      <4>1. Joined(b, a, c, D)
        BY <2>3, <3>1, <3>2, Concat
      <4> QED  BY <4>1 DEF Joined
    <3> QED  BY <2>3, <3>1, <3>3
  <2>5. \A i \in 1 .. k + 1 : i \in 1 .. k \/ i = k + 1
    BY <2>1
  <2>6. Filled(k + 1)
    <3>1. \A i \in 1 .. k + 1 : b[i] = w[i]
      BY <2>3, <2>4, <2>5
    <3> QED  BY <2>4, <3>1
  <2>7. k + 1 \in 0 .. n
    OBVIOUS
  <2> QED  BY <2>6, <2>7
<1>4. \A k \in 0 .. n : k \in P
  <2> HIDE DEF P
  <2> QED  BY <1>2, <1>3, Climb
<1>5. Filled(n)
  <2>1. n \in 0 .. n
    OBVIOUS
  <2> HIDE DEF Filled
  <2> QED  BY <1>4, <2>1
<1> QED  BY <1>5

\* A sequence can be built entry by entry.
LEMMA BuiltExists ==
    ASSUME NEW n \in Nat, NEW D, NEW w \in [1 .. n -> D]
    PROVE  \E t : Builds(t, n, w)
<1> DEFINE g == [k \in 0 .. n |-> [i \in 1 .. k |-> w[i]]]
           f(k) == IF k = 0 THEN <<>> ELSE g[k - 1] \o <<w[k]>>
<1>1. ASSUME NEW k \in 0 .. n PROVE g[k] = f(k)
  <2>1. CASE k = 0
    BY <2>1
  <2>2. CASE k # 0
    <3> DEFINE a == [i \in 1 .. k - 1 |-> w[i]]
               b == [i \in 1 .. k |-> w[i]]
               c == a \o <<w[k]>>
    <3>1. k - 1 \in Nat /\ k - 1 \in 0 .. n /\ w[k] \in D /\ k \in Nat
      BY <2>2
    <3>2. a \in Seq(D) /\ Len(a) = k - 1 /\ \A i \in 1 .. k - 1 : a[i] = w[i]
      BY <3>1
    <3>3. b \in Seq(D) /\ Len(b) = k /\ \A i \in 1 .. k : b[i] = w[i]
      BY <3>1
    <3>4. c \in Seq(D) /\ Len(c) = k /\ c[k] = w[k] /\ \A i \in 1 .. k - 1 : c[i] = a[i]
      <4> HIDE DEF a
      <4> QED  BY <3>1, <3>2
    <3>5. \A i \in 1 .. k : i \in 1 .. k - 1 \/ i = k
      BY <3>1
    <3>6. b = c
      <4>1. \A i \in 1 .. k : b[i] = c[i]
        <5> HIDE DEF a, b, c
        <5> QED  BY <3>2, <3>3, <3>4, <3>5
      <4> HIDE DEF a, b, c
      <4> QED  BY <3>1, <3>3, <3>4, <4>1
    <3>7. g[k] = b /\ g[k - 1] = a
      BY <3>1
    <3> QED  BY <2>2, <3>6, <3>7
  <2> QED  BY <2>1, <2>2
<1>2. g = [k \in 0 .. n |-> g[k]]
  OBVIOUS
<1>3. g = [k \in 0 .. n |-> f(k)]
  <2> HIDE DEF f, g
  <2> QED  BY <1>1, <1>2
<1>4. g = [k \in 0 .. n |-> IF k = 0 THEN <<>> ELSE g[k - 1] \o <<w[k]>>]
  BY <1>3
<1>5. Builds(g, n, w)
  BY <1>4 DEF Builds
<1> HIDE DEF g
<1> QED  BY <1>5

\* The word of a line in a pass.
WordOf(op, cycle) == IF op = "" THEN Zeros ELSE Microword(RowOf(op, cycle), ImmsOf(op, cycle))

\* micro.mx has 52 lines in every pass.
LEMMA Lines == Len(MxOps) = 52 /\ DOMAIN MxOps = 1 .. 52
  BY DEF MxOps

AllWords == {WordOf(op, cycle) : op \in {MxOps[i] : i \in 1 .. 52},
                                 cycle \in {"DECODE", "READ", "EXEC"}} \cup {Zeros}

\* A function on the first numbers is a sequence.
LEMMA FunctionIsSeq ==
    ASSUME NEW D, NEW n \in Nat, NEW f \in [1 .. n -> D]
    PROVE  f \in Seq(D) /\ Len(f) = n
  OBVIOUS

\* A pass of the microcode assembler is 64 words, the first 52 those of its lines.
LEMMA PassIs ==
    ASSUME NEW cycle \in {"DECODE", "READ", "EXEC"}
    PROVE  /\ Pass(cycle) \in Seq(AllWords) /\ Len(Pass(cycle)) = 64
           /\ \A i \in 1 .. 52 : Pass(cycle)[i] = WordOf(MxOps[i], cycle)
<1> DEFINE D == AllWords
           w == [i \in 1 .. 52 |-> WordOf(MxOps[i], cycle)]
           Body(g) == [k \in 0 .. Len(MxOps) |->
                          IF k = 0 THEN <<>> ELSE g[k - 1] \o Written(MxOps[k], cycle)]
           t == CHOOSE g : g = Body(g)
           all == t[52]
<1>1. w \in [1 .. 52 -> D] /\ 52 \in Nat
  BY DEF AllWords
<1>2. \A i \in 1 .. 52 : w[i] = WordOf(MxOps[i], cycle)
  OBVIOUS
<1>3. \A k \in 1 .. 52 : Written(MxOps[k], cycle) = <<w[k]>>
  BY DEF Written, WordOf
<1>4. Pass(cycle) = [i \in 1 .. 64 |-> IF i \in DOMAIN all THEN all[i] ELSE Zeros]
  BY Lines DEF Pass, Entries
<1> HIDE DEF D, w
<1>5. ASSUME NEW g
      PROVE  Body(g) = [k \in 0 .. 52 |-> IF k = 0 THEN <<>> ELSE g[k - 1] \o <<w[k]>>]
  <2> DEFINE f(k) == IF k = 0 THEN <<>> ELSE g[k - 1] \o Written(MxOps[k], cycle)
             h(k) == IF k = 0 THEN <<>> ELSE g[k - 1] \o <<w[k]>>
  <2>1. \A k \in 0 .. 52 : f(k) = h(k)
    <3>1. \A k \in 0 .. 52 : k = 0 \/ k \in 1 .. 52
      OBVIOUS
    <3> QED  BY <1>3, <3>1
  <2>2. Body(g) = [k \in 0 .. 52 |-> f(k)]
    BY Lines
  <2> HIDE DEF f, h, Body
  <2>3. Body(g) = [k \in 0 .. 52 |-> h(k)]
    BY <2>1, <2>2
  <2> QED  BY <2>3 DEF h
<1> HIDE DEF Body
<1>6. \E g : g = Body(g)
  <2>1. PICK g : Builds(g, 52, w)
    BY <1>1, BuiltExists
  <2>2. g = Body(g)
    BY <1>5, <2>1 DEF Builds
  <2> QED  BY <2>2
<1>7. t = Body(t)
  BY <1>6
<1> HIDE DEF t
<1>8. Builds(t, 52, w)
  BY <1>5, <1>7 DEF Builds
<1>9. all \in Seq(D) /\ Len(all) = 52 /\ DOMAIN all = 1 .. 52 /\ \A i \in 1 .. 52 : all[i] = w[i]
  <2>1. PICK n \in Nat : n = 52
    OBVIOUS
  <2>2. w \in [1 .. n -> D] /\ Builds(t, n, w)
    BY <1>1, <1>8, <2>1
  <2>3. t[n] \in Seq(D) /\ Len(t[n]) = n /\ DOMAIN t[n] = 1 .. n /\ \A i \in 1 .. n : t[n][i] = w[i]
    BY <2>2, Built
  <2> QED  BY <2>1, <2>3
<1> HIDE DEF all
<1>10. \A i \in 1 .. 64 : (IF i \in DOMAIN all THEN all[i] ELSE Zeros) \in D
  <2>1. Zeros \in D
    BY DEF D, AllWords
  <2>2. \A i \in DOMAIN all : all[i] \in D
    <3> HIDE DEF all
    <3> QED  BY <1>9, SeqElements
  <2> QED  BY <2>1, <2>2
<1>11. Pass(cycle) \in [1 .. 64 -> D]
  BY <1>4, <1>10
<1>12. Pass(cycle) \in Seq(D) /\ Len(Pass(cycle)) = 64
  <2>1. 64 \in Nat
    OBVIOUS
  <2> QED  BY <1>11, <2>1, FunctionIsSeq
<1>13. ASSUME NEW i \in 1 .. 52 PROVE Pass(cycle)[i] = w[i]
  <2> DEFINE p == Pass(cycle)
  <2>1. i \in 1 .. 64
    OBVIOUS
  <2>2. p = [k \in 1 .. 64 |-> IF k \in DOMAIN all THEN all[k] ELSE Zeros]
    BY <1>4
  <2> HIDE DEF p
  <2>3. p[i] = IF i \in DOMAIN all THEN all[i] ELSE Zeros
    BY <2>1, <2>2
  <2> QED  BY <1>9, <2>3 DEF p
<1> QED  BY <1>2, <1>12, <1>13 DEF D

JoinsThree(all, a, b, c) == all = a \o b \o c
Thirds(all, a, b, c, n, i) == all[i] = a[i] /\ all[n + i] = b[i] /\ all[(n + n) + i] = c[i]

\* The entries of the three passes one after the other.
LEMMA JoinedThree ==
    ASSUME NEW D, NEW a \in Seq(D), NEW b \in Seq(D), NEW c \in Seq(D), NEW n \in Nat,
           Len(a) = n, Len(b) = n, Len(c) = n, NEW i \in 1 .. n, NEW all, JoinsThree(all, a, b, c)
    PROVE  Thirds(all, a, b, c, n, i)
<1> DEFINE d == a \o b
           e == d \o c
<1>1. d \in Seq(D) /\ Len(d) = n + n /\ d[i] = a[i] /\ d[n + i] = b[i]
  <2>1. /\ d \in Seq(D) /\ Len(d) = Len(a) + Len(b)
        /\ \A k \in 1 .. Len(a) : d[k] = a[k]
        /\ \A k \in 1 .. Len(b) : d[Len(a) + k] = b[k]
    <3>1. Joins(d, a, b)
      BY DEF Joins
    <3> HIDE DEF d
    <3>2. Joined(d, a, b, D)
      BY <3>1, Concat
    <3> QED  BY <3>2 DEF Joined
  <2> HIDE DEF d
  <2> QED  BY <2>1
<1>2. i \in 1 .. n + n /\ n + i \in 1 .. n + n
  OBVIOUS
<1> HIDE DEF d
<1>3. /\ \A k \in 1 .. Len(d) : e[k] = d[k]
      /\ \A k \in 1 .. Len(c) : e[Len(d) + k] = c[k]
  <2>1. Joins(e, d, c)
    BY DEF Joins
  <2> HIDE DEF e
  <2>2. Joined(e, d, c, D)
    BY <1>1, <2>1, Concat
  <2> QED  BY <2>2 DEF Joined
<1>5. all = e
  BY DEF d, JoinsThree
<1> HIDE DEF e
<1>4. e[i] = d[i] /\ e[n + i] = d[n + i] /\ e[(n + n) + i] = c[i]
  BY <1>1, <1>2, <1>3
<1> QED  BY <1>1, <1>4, <1>5 DEF Thirds

\* The word of an operation in a cycle, wherever the simulators look it up.
LEMMA MicroIs ==
    ASSUME NEW o \in 0 .. 51, NEW cycle \in {"DECODE", "READ", "EXEC"}
    PROVE  /\ Idx(o, cycle) \in DOMAIN Micro
           /\ Micro[Idx(o, cycle)] = WordOf(MxOps[o + 1], cycle)
<1>1. Micro = [idx \in 0 .. 191 |-> Hexish[idx + 1]] /\ DOMAIN Micro = 0 .. 191
  BY DEF Micro, Entries
<1>2. /\ Idx(o, "DECODE") = o /\ Idx(o, "READ") = 64 + o /\ Idx(o, "EXEC") = 128 + o
  BY DEF Idx
<1> DEFINE a == Pass("DECODE")
           b == Pass("READ")
           c == Pass("EXEC")
<1>3. /\ a \in Seq(AllWords) /\ Len(a) = 64 /\ b \in Seq(AllWords) /\ Len(b) = 64
      /\ c \in Seq(AllWords) /\ Len(c) = 64
      /\ \A i \in 1 .. 52 : /\ a[i] = WordOf(MxOps[i], "DECODE")
                            /\ b[i] = WordOf(MxOps[i], "READ")
                            /\ c[i] = WordOf(MxOps[i], "EXEC")
  BY PassIs
<1>4. JoinsThree(Hexish, a, b, c)
  BY DEF Hexish, JoinsThree
<1> HIDE DEF a, b, c
<1>5. o + 1 \in 1 .. 52 /\ o + 1 \in 1 .. 64 /\ 64 \in Nat
  OBVIOUS
<1>6. /\ Hexish[o + 1] = a[o + 1] /\ Hexish[64 + (o + 1)] = b[o + 1]
      /\ Hexish[(64 + 64) + (o + 1)] = c[o + 1]
  <2>1. PICK n \in Nat : n = 64
    OBVIOUS
  <2>2. PICK i \in 1 .. n : i = o + 1
    BY <1>5, <2>1
  <2>3. Len(a) = n /\ Len(b) = n /\ Len(c) = n
    BY <1>3, <2>1
  <2>4. /\ Hexish[i] = a[i] /\ Hexish[n + i] = b[i] /\ Hexish[(n + n) + i] = c[i]
    <3>1. Thirds(Hexish, a, b, c, n, i)
      BY <1>3, <1>4, <2>3, JoinedThree
    <3> QED  BY <3>1 DEF Thirds
  <2> QED  BY <2>1, <2>2, <2>4
<1>7. /\ o \in 0 .. 191 /\ 64 + o \in 0 .. 191 /\ 128 + o \in 0 .. 191
      /\ 64 + (o + 1) = (64 + o) + 1 /\ (64 + 64) + (o + 1) = (128 + o) + 1
  OBVIOUS
<1>8. /\ Micro[o] = Hexish[o + 1] /\ Micro[64 + o] = Hexish[(64 + o) + 1]
      /\ Micro[128 + o] = Hexish[(128 + o) + 1]
  BY <1>1, <1>7
<1>9. CASE cycle = "DECODE"
  BY <1>1, <1>2, <1>3, <1>5, <1>6, <1>7, <1>8, <1>9
<1>10. CASE cycle = "READ"
  BY <1>1, <1>2, <1>3, <1>5, <1>6, <1>7, <1>8, <1>10
<1>11. CASE cycle = "EXEC"
  BY <1>1, <1>2, <1>3, <1>5, <1>6, <1>7, <1>8, <1>11
<1> QED  BY <1>9, <1>10, <1>11

\* The microcode has its rows in the order of the assembler's opcodes.
LEMMA MxTable ==
    \A k \in 1 .. 52 : k # 3 => MxOps[k] = AsmOps[k]
<1> DEFINE Same(k) == MxOps[k] = AsmOps[k]
<1>1. \A k \in 1 .. 10 : k # 3 => Same(k)
  <2>1. /\ Same(1) /\ Same(2) /\ Same(4) /\ Same(5) /\ Same(6) /\ Same(7) /\ Same(8)
        /\ Same(9) /\ Same(10)
    BY DEF MxOps, AsmOps
  <2> HIDE DEF Same
  <2>2. \A k \in 1 .. 10 : \/ k = 1 \/ k = 2 \/ k = 3 \/ k = 4 \/ k = 5 \/ k = 6 \/ k = 7
                           \/ k = 8 \/ k = 9 \/ k = 10
    OBVIOUS
  <2> QED  BY <2>1, <2>2
<1>2. \A k \in 11 .. 19 : k # 3 => Same(k)
  <2>1. /\ Same(11) /\ Same(12) /\ Same(13) /\ Same(14) /\ Same(15) /\ Same(16) /\ Same(17)
        /\ Same(18) /\ Same(19)
    BY DEF MxOps, AsmOps
  <2> HIDE DEF Same
  <2>2. \A k \in 11 .. 19 : \/ k = 11 \/ k = 12 \/ k = 13 \/ k = 14 \/ k = 15 \/ k = 16
                            \/ k = 17 \/ k = 18 \/ k = 19
    OBVIOUS
  <2> QED  BY <2>1, <2>2
<1>3. \A k \in 20 .. 28 : k # 3 => Same(k)
  <2>1. /\ Same(20) /\ Same(21) /\ Same(22) /\ Same(23) /\ Same(24) /\ Same(25) /\ Same(26)
        /\ Same(27) /\ Same(28)
    BY DEF MxOps, AsmOps
  <2> HIDE DEF Same
  <2>2. \A k \in 20 .. 28 : \/ k = 20 \/ k = 21 \/ k = 22 \/ k = 23 \/ k = 24 \/ k = 25
                            \/ k = 26 \/ k = 27 \/ k = 28
    OBVIOUS
  <2> QED  BY <2>1, <2>2
<1>4. \A k \in 29 .. 37 : k # 3 => Same(k)
  <2>1. /\ Same(29) /\ Same(30) /\ Same(31) /\ Same(32) /\ Same(33) /\ Same(34) /\ Same(35)
        /\ Same(36) /\ Same(37)
    BY DEF MxOps, AsmOps
  <2> HIDE DEF Same
  <2>2. \A k \in 29 .. 37 : \/ k = 29 \/ k = 30 \/ k = 31 \/ k = 32 \/ k = 33 \/ k = 34
                            \/ k = 35 \/ k = 36 \/ k = 37
    OBVIOUS
  <2> QED  BY <2>1, <2>2
<1>5. \A k \in 38 .. 46 : k # 3 => Same(k)
  <2>1. /\ Same(38) /\ Same(39) /\ Same(40) /\ Same(41) /\ Same(42) /\ Same(43) /\ Same(44)
        /\ Same(45) /\ Same(46)
    BY DEF MxOps, AsmOps
  <2> HIDE DEF Same
  <2>2. \A k \in 38 .. 46 : \/ k = 38 \/ k = 39 \/ k = 40 \/ k = 41 \/ k = 42 \/ k = 43
                            \/ k = 44 \/ k = 45 \/ k = 46
    OBVIOUS
  <2> QED  BY <2>1, <2>2
<1>6. \A k \in 47 .. 52 : k # 3 => Same(k)
  <2>1. /\ Same(47) /\ Same(48) /\ Same(49) /\ Same(50) /\ Same(51) /\ Same(52)
    BY DEF MxOps, AsmOps
  <2> HIDE DEF Same
  <2>2. \A k \in 47 .. 52 : \/ k = 47 \/ k = 48 \/ k = 49 \/ k = 50 \/ k = 51 \/ k = 52
    OBVIOUS
  <2> QED  BY <2>1, <2>2
<1> HIDE DEF Same
<1>7. \A k \in 1 .. 52 : k # 3 => Same(k)
  <2>1. \A k \in 1 .. 52 : \/ k \in 1 .. 10 \/ k \in 11 .. 19 \/ k \in 20 .. 28
                           \/ k \in 29 .. 37 \/ k \in 38 .. 46 \/ k \in 47 .. 52
    OBVIOUS
  <2> QED  BY <2>1, <1>1, <1>2, <1>3, <1>4, <1>5, <1>6
<1> QED  BY <1>7 DEF Same

\* The cases of fsim are in the same order.
LEMMA FsimTable ==
    \A k \in 1 .. 53 : k # 44 => FsimCases[k] = AsmOps[k]
<1> DEFINE Same(k) == FsimCases[k] = AsmOps[k]
<1>1. \A k \in 1 .. 9 : k # 44 => Same(k)
  <2>1. /\ Same(1) /\ Same(2) /\ Same(3) /\ Same(4) /\ Same(5) /\ Same(6) /\ Same(7)
        /\ Same(8) /\ Same(9)
    BY DEF FsimCases, AsmOps
  <2> HIDE DEF Same
  <2>2. \A k \in 1 .. 9 : \/ k = 1 \/ k = 2 \/ k = 3 \/ k = 4 \/ k = 5 \/ k = 6 \/ k = 7
                          \/ k = 8 \/ k = 9
    OBVIOUS
  <2> QED  BY <2>1, <2>2
<1>2. \A k \in 10 .. 18 : k # 44 => Same(k)
  <2>1. /\ Same(10) /\ Same(11) /\ Same(12) /\ Same(13) /\ Same(14) /\ Same(15) /\ Same(16)
        /\ Same(17) /\ Same(18)
    BY DEF FsimCases, AsmOps
  <2> HIDE DEF Same
  <2>2. \A k \in 10 .. 18 : \/ k = 10 \/ k = 11 \/ k = 12 \/ k = 13 \/ k = 14 \/ k = 15
                            \/ k = 16 \/ k = 17 \/ k = 18
    OBVIOUS
  <2> QED  BY <2>1, <2>2
<1>3. \A k \in 19 .. 27 : k # 44 => Same(k)
  <2>1. /\ Same(19) /\ Same(20) /\ Same(21) /\ Same(22) /\ Same(23) /\ Same(24) /\ Same(25)
        /\ Same(26) /\ Same(27)
    BY DEF FsimCases, AsmOps
  <2> HIDE DEF Same
  <2>2. \A k \in 19 .. 27 : \/ k = 19 \/ k = 20 \/ k = 21 \/ k = 22 \/ k = 23 \/ k = 24
                            \/ k = 25 \/ k = 26 \/ k = 27
    OBVIOUS
  <2> QED  BY <2>1, <2>2
<1>4. \A k \in 28 .. 36 : k # 44 => Same(k)
  <2>1. /\ Same(28) /\ Same(29) /\ Same(30) /\ Same(31) /\ Same(32) /\ Same(33) /\ Same(34)
        /\ Same(35) /\ Same(36)
    BY DEF FsimCases, AsmOps
  <2> HIDE DEF Same
  <2>2. \A k \in 28 .. 36 : \/ k = 28 \/ k = 29 \/ k = 30 \/ k = 31 \/ k = 32 \/ k = 33
                            \/ k = 34 \/ k = 35 \/ k = 36
    OBVIOUS
  <2> QED  BY <2>1, <2>2
<1>5. \A k \in 37 .. 46 : k # 44 => Same(k)
  <2>1. /\ Same(37) /\ Same(38) /\ Same(39) /\ Same(40) /\ Same(41) /\ Same(42) /\ Same(43)
        /\ Same(45) /\ Same(46)
    BY DEF FsimCases, AsmOps
  <2> HIDE DEF Same
  <2>2. \A k \in 37 .. 46 : \/ k = 37 \/ k = 38 \/ k = 39 \/ k = 40 \/ k = 41 \/ k = 42
                            \/ k = 43 \/ k = 44 \/ k = 45 \/ k = 46
    OBVIOUS
  <2> QED  BY <2>1, <2>2
<1>6. \A k \in 47 .. 53 : k # 44 => Same(k)
  <2>1. /\ Same(47) /\ Same(48) /\ Same(49) /\ Same(50) /\ Same(51) /\ Same(52) /\ Same(53)
    BY DEF FsimCases, AsmOps
  <2> HIDE DEF Same
  <2>2. \A k \in 47 .. 53 : \/ k = 47 \/ k = 48 \/ k = 49 \/ k = 50 \/ k = 51 \/ k = 52
                            \/ k = 53
    OBVIOUS
  <2> QED  BY <2>1, <2>2
<1> HIDE DEF Same
<1>7. \A k \in 1 .. 53 : k # 44 => Same(k)
  <2>1. \A k \in 1 .. 53 : \/ k \in 1 .. 9 \/ k \in 10 .. 18 \/ k \in 19 .. 27
                           \/ k \in 28 .. 36 \/ k \in 37 .. 46 \/ k \in 47 .. 53
    OBVIOUS
  <2> QED  BY <2>1, <1>1, <1>2, <1>3, <1>4, <1>5, <1>6
<1> QED  BY <1>7 DEF Same

\* The entries in which the tables of operations differ.
LEMMA OtherEntries ==
    /\ DOMAIN MxOps = 1 .. 52 /\ DOMAIN FsimCases = 1 .. 53
    /\ MxOps[3] = "fetch" /\ AsmOps[3] = "" /\ FsimCases[3] = ""
    /\ FsimCases[44] = "" /\ AsmOps[44] = "lptb"
    /\ FsimCases[53] = "rsi" /\ AsmOps[53] = "rsi"
  BY DEF MxOps, FsimCases, AsmOps

\* No operation is the default or the fetch.
LEMMA OpNames ==
    /\ "" \notin Op /\ "fetch" \notin Op
    /\ WithImm \subseteq Op \ {"hlt"}
  BY DEF Op, WithImm, Alu3, AluImm, Addskp, Addskpi, BaseBP, Indexed

\* An operation of the microcode simulators has a row of its own.
LEMMA MicroOps ==
    ASSUME NEW o \in Nat, o + 1 \in DOMAIN MxOps, MxOps[o + 1] \in Op
    PROVE  o \in 0 .. 51 /\ o # 2 /\ MxOps[o + 1] = AsmOps[o + 1] /\ MxOps[o + 1] # "hlt"
<1>1. o + 1 \in 1 .. 52
  BY OtherEntries
<1>2. o \in 0 .. 51 /\ o + 1 \in 1 .. 53
  BY <1>1
<1>3. o # 2
  <2>1. o = 2 => o + 1 = 3
    OBVIOUS
  <2> QED  BY <2>1, OtherEntries, OpNames
<1>4. o + 1 # 3
  BY <1>2, <1>3
<1>5. MxOps[o + 1] = AsmOps[o + 1]
  BY <1>1, <1>4, MxTable
<1>6. AsmOps[o + 1] # "hlt"
  BY <1>2, AsmTable
<1> QED  BY <1>2, <1>3, <1>5, <1>6

\* Every line selects one of the immediates, or none.
LEMMA ImmsTypes ==
    \A op, cycle : ImmsOf(op, cycle) \in Immediates
  BY DEF ImmsOf, Immediates

\* The digits of the word, as a number.
LEMMA MicroOpcodeType ==
    ASSUME NEW w \in Nat
    PROVE  MicroOpcode(Dec2bin(w, 16)) \in Nat
<1>1. \A n \in Nat : 1 + n <= 16 =>
         Bin2dec(Field(Dec2bin(w, 16), 1, n)) = Slice(w, 15 - n, n)
  <2> SUFFICES ASSUME NEW n \in Nat, 1 + n <= 16
               PROVE  Bin2dec(Field(Dec2bin(w, 16), 1, n)) = Slice(w, 15 - n, n)
    OBVIOUS
  <2>1. 1 \in Nat /\ 16 \in Nat /\ 15 - n \in Nat /\ 1 + n + (15 - n) = 16
    OBVIOUS
  <2> QED  BY <2>1, FieldNumber
<1>2. \A e, n \in Nat : Slice(w, e, n) \in Nat
  <2> SUFFICES ASSUME NEW e \in Nat, NEW n \in Nat PROVE Slice(w, e, n) \in Nat
    OBVIOUS
  <2> DEFINE p == 2 ^ e
             q == 2 ^ n
  <2>1. p \in Nat \ {0} /\ q \in Nat \ {0}
    BY PowerOfTwo
  <2> HIDE DEF p, q
  <2>2. w \div p \in Nat
    BY <2>1
  <2>3. (w \div p) % q \in Nat
    BY <2>1, <2>2
  <2> QED  BY <2>3 DEF Slice, p, q
<1>3. 2 \in Nat /\ 6 \in Nat /\ 1 + 2 <= 16 /\ 1 + 6 <= 16 /\ 15 - 2 \in Nat /\ 15 - 6 \in Nat
  OBVIOUS
<1>4. Bin2dec(Field(Dec2bin(w, 16), 1, 2)) \in Nat /\ Bin2dec(Field(Dec2bin(w, 16), 1, 6)) \in Nat
  BY <1>1, <1>2, <1>3
<1> QED  BY <1>4 DEF MicroOpcode

\* Every word that the simulators look up is the row that micro.mx has.
LEMMA RowFound ==
    ASSUME NEW o \in 0 .. 51, NEW cycle \in {"DECODE", "READ", "EXEC"},
           RowOf(MxOps[o + 1], cycle) \in RowFields, MxOps[o + 1] # ""
    PROVE  LET idx == Idx(o, cycle)
               row == RowOf(MxOps[o + 1], cycle)
           IN  /\ Fsm2Rows[idx] = row
               /\ OldRows[idx] = [row EXCEPT !.sig = @ \ {"sext"}]
               /\ IrImmSelections[idx] = ImmsOf(MxOps[o + 1], cycle)
<1> DEFINE idx == Idx(o, cycle)
           row == RowOf(MxOps[o + 1], cycle)
           imms == ImmsOf(MxOps[o + 1], cycle)
<1>1. idx \in DOMAIN Micro /\ Micro[idx] = Microword(row, imms)
  BY MicroIs DEF WordOf
<1>2. row \in RowFields /\ imms \in Immediates
  BY ImmsTypes
<1> HIDE DEF idx, row, imms
<1>3. /\ Fsm2Row(Micro[idx]) = row /\ OldRow(Micro[idx]) = [row EXCEPT !.sig = @ \ {"sext"}]
      /\ IrImm(Micro[idx]) = imms
  BY <1>1, <1>2, RowArrives
<1>4. /\ Fsm2Rows[idx] = Fsm2Row(Micro[idx]) /\ OldRows[idx] = OldRow(Micro[idx])
      /\ IrImmSelections[idx] = IrImm(Micro[idx])
  BY <1>1 DEF Fsm2Rows, OldRows, IrImmSelections
<1> QED  BY <1>3, <1>4 DEF idx, row, imms

\* What the simulators look up for an operation is what micro.mx says of it.
THEOREM RowsTheorem == Spec => []RowsReachSimulators
<1>1. WordInv => RowsReachSimulators
  <2> SUFFICES ASSUME WordInv, stage = "decoded", MicroOp(instr_b) \in Op,
                      NEW cycle \in {"FETCH", "DECODE", "READ", "EXEC"}
               PROVE  LET idx == Idx(MicroOpcode(instr_b), cycle)
                          row == IF cycle = "FETCH" THEN FetchRow
                                 ELSE RowOf(MicroOp(instr_b), cycle)
                      IN  /\ Fsm2Rows[idx] = row
                          /\ OldRows[idx] = [row EXCEPT !.sig = @ \ {"sext"}]
    BY DEF RowsReachSimulators
  <2> DEFINE o == MicroOpcode(instr_b)
  <2>1. o \in Nat
    BY MicroOpcodeType DEF WordInv
  <2> HIDE DEF o
  <2>2. o + 1 \in DOMAIN MxOps /\ MicroOp(instr_b) = MxOps[o + 1]
    BY OpNames DEF MicroOp, o
  <2>3. o \in 0 .. 51 /\ MxOps[o + 1] # "hlt"
    BY <2>1, <2>2, MicroOps
  <2>4. CASE cycle = "FETCH"
    <3>1. Idx(o, "FETCH") = 2 /\ Idx(2, "DECODE") = 2
      BY DEF Idx
    <3>2. PICK two \in 0 .. 51 : two = 2
      OBVIOUS
    <3>3. MxOps[two + 1] = "fetch"
      <4>1. two + 1 = 3
        BY <3>2
      <4> QED  BY <4>1, OtherEntries
    <3>4. RowOf("fetch", "DECODE") = FetchRow
      BY OpNames, Zenon DEF RowOf
    <3>5. /\ Fsm2Rows[Idx(two, "DECODE")] = FetchRow
          /\ OldRows[Idx(two, "DECODE")] = [FetchRow EXCEPT !.sig = @ \ {"sext"}]
      BY <3>3, <3>4, RowTypes, RowFound
    <3> QED  BY <2>4, <3>1, <3>2, <3>5 DEF o
  <2>5. CASE cycle # "FETCH"
    <3> DEFINE op == MxOps[o + 1]
    <3>1. op \in Op /\ op # "hlt" /\ op # "" /\ op # "fetch"
      BY <2>2, <2>3, OpNames
    <3> HIDE DEF op
    <3>2. RowOf(op, cycle) \in RowFields
      <4>1. CASE cycle = "DECODE"
        <5>1. RowOf(op, cycle) = DecodeRow(op)
          BY <3>1, <4>1 DEF RowOf
        <5> QED  BY <3>1, <5>1, RowTypes
      <4>2. CASE cycle = "READ"
        <5>1. RowOf(op, cycle) = ReadRow(op)
          BY <3>1, <4>2 DEF RowOf
        <5> QED  BY <3>1, <5>1, RowTypes
      <4>3. CASE cycle = "EXEC"
        <5>1. RowOf(op, cycle) = ExecRow(op)
          BY <3>1, <4>3 DEF RowOf
        <5> QED  BY <3>1, <5>1, RowTypes
      <4> QED  BY <2>5, <4>1, <4>2, <4>3
    <3>3. cycle \in {"DECODE", "READ", "EXEC"}
      BY <2>5
    <3>4. /\ Fsm2Rows[Idx(o, cycle)] = RowOf(op, cycle)
          /\ OldRows[Idx(o, cycle)] = [RowOf(op, cycle) EXCEPT !.sig = @ \ {"sext"}]
      BY <2>3, <3>1, <3>2, <3>3, RowFound DEF op
    <3> QED  BY <2>2, <2>5, <3>4 DEF o, op
  <2> QED  BY <2>4, <2>5
<1> QED  BY <1>1, WordInvariant, PTL

\* The digits of w of the weights a, 2 a, .. below m a.
Cut_(w, a, m) == (w \div a) % m

Weight(e) == 2 ^ e

-----------------------------------------------------------------------------
\* The two ways to take a word apart.

\* The powers of two by name.
LEMMA Weights ==
    /\ Weight(0) = 1 /\ Weight(2) = 4 /\ Weight(3) = 8 /\ Weight(4) = 16 /\ Weight(5) = 32
    /\ Weight(6) = 64 /\ Weight(7) = 128 /\ Weight(9) = 512 /\ Weight(10) = 1024
    /\ Weight(13) = 8192 /\ Weight(1) = 2 /\ Weight(12) = 4096
  BY Powers DEF Weight

\* n digits from position from on, which e digits follow.
Place(from, n, e) == from \in Nat /\ n \in Nat /\ e \in Nat /\ from + n + e = 16

\* The positions that the simulators cut at, from the other end.
LEMMA Places ==
    /\ Place(1, 2, 13) /\ Place(1, 6, 9) /\ Place(7, 3, 6) /\ Place(10, 3, 3)
    /\ Place(11, 3, 2) /\ Place(13, 3, 0) /\ Place(14, 2, 0) /\ Place(7, 7, 2)
    /\ Place(7, 4, 5) /\ Place(3, 10, 3) /\ Place(3, 13, 0)
  BY DEF Place

PartIsCut(w, from, n, a, m) ==
    LET bin == Field(Dec2bin(w, 16), from, n)
    IN  bin \in Seq(Bit) /\ Len(bin) = n /\ Bin2dec(bin) = Cut_(w, a, m)

\* A part of the digits of a word is a quotient's remainder.
LEMMA PartNumber ==
    ASSUME NEW w \in Nat, NEW from, NEW n, NEW e, Place(from, n, e)
    PROVE  PartIsCut(w, from, n, Weight(e), Weight(n))
<1>2. from \in Nat /\ n \in Nat /\ e \in Nat /\ 16 \in Nat /\ from + n <= 16 /\ from + n + e = 16
  BY DEF Place
<1>3. Bin2dec(Field(Dec2bin(w, 16), from, n)) = Slice(w, e, n)
  <2>1. ASSUME NEW f \in Nat, NEW k \in Nat, NEW d \in Nat, f + k + d = 16
        PROVE  Bin2dec(Field(Dec2bin(w, 16), f, k)) = Slice(w, d, k)
    <3>1. 16 \in Nat
      OBVIOUS
    <3> QED  BY <2>1, <3>1, FieldNumber
  <2> QED  BY <1>2, <2>1
<1>4. Slice(w, e, n) = Cut_(w, Weight(e), Weight(n))
  BY DEF Slice, Cut_, Weight
<1>5. LET bin == Field(Dec2bin(w, 16), from, n) IN bin \in Seq(Bit) /\ Len(bin) = n
  BY <1>2, PartValue
<1> QED  BY <1>3, <1>4, <1>5 DEF PartIsCut

\* Every part of a word that a simulator cuts out.
LEMMA PartsOfWord ==
    ASSUME NEW w \in Nat
    PROVE  /\ PartIsCut(w, 1, 2, 8192, 4) /\ PartIsCut(w, 1, 6, 512, 64)
           /\ PartIsCut(w, 7, 3, 64, 8) /\ PartIsCut(w, 10, 3, 8, 8)
           /\ PartIsCut(w, 11, 3, 4, 8) /\ PartIsCut(w, 13, 3, 1, 8)
           /\ PartIsCut(w, 14, 2, 1, 4) /\ PartIsCut(w, 7, 7, 4, 128)
           /\ PartIsCut(w, 7, 4, 32, 16) /\ PartIsCut(w, 3, 10, 8, 1024)
           /\ PartIsCut(w, 3, 13, 1, 8192)
<1> DEFINE ok(from, n, a, m) == PartIsCut(w, from, n, a, m)
<1>1. \A from, n, e : Place(from, n, e) => ok(from, n, Weight(e), Weight(n))
  BY PartNumber
<1> HIDE DEF ok
<1>2. /\ ok(1, 2, Weight(13), Weight(2)) /\ ok(1, 6, Weight(9), Weight(6))
      /\ ok(7, 3, Weight(6), Weight(3)) /\ ok(10, 3, Weight(3), Weight(3))
      /\ ok(11, 3, Weight(2), Weight(3)) /\ ok(13, 3, Weight(0), Weight(3))
      /\ ok(14, 2, Weight(0), Weight(2)) /\ ok(7, 7, Weight(2), Weight(7))
      /\ ok(7, 4, Weight(5), Weight(4)) /\ ok(3, 10, Weight(3), Weight(10))
      /\ ok(3, 13, Weight(0), Weight(13))
  BY <1>1, Places
<1>3. /\ ok(1, 2, 8192, 4) /\ ok(1, 6, 512, 64) /\ ok(7, 3, 64, 8) /\ ok(10, 3, 8, 8)
      /\ ok(11, 3, 4, 8) /\ ok(13, 3, 1, 8) /\ ok(14, 2, 1, 4) /\ ok(7, 7, 4, 128)
      /\ ok(7, 4, 32, 16) /\ ok(3, 10, 8, 1024) /\ ok(3, 13, 1, 8192)
  BY <1>2, Weights
<1> QED  BY <1>3 DEF ok

\* A number of n bits whose upper half is negative.
TwosComplement(x, p) == IF x >= p THEN x - 2 * p ELSE x

\* sbin2dec is two's complement.
LEMMA SbinIs ==
    ASSUME NEW bin \in Seq(Bit), NEW n \in Nat, n > 0, Len(bin) = n
    PROVE  Sbin2dec(bin) = TwosComplement(Bin2dec(bin), Weight(n - 1))
  BY SbinValue DEF TwosComplement, Weight

\* What the microcode simulators read out of the digits of a word.
LEMMA MicroReads ==
    ASSUME NEW w \in Nat
    PROVE  LET b == Dec2bin(w, 16)
           IN  /\ Bin2dec(Field(b, 1, 2)) = Cut_(w, 8192, 4)
               /\ Bin2dec(Field(b, 1, 6)) = Cut_(w, 512, 64)
               /\ Bin3ToDec(Field(b, 7, 3)) = Cut_(w, 64, 8)
               /\ Bin3ToDec(Field(b, 10, 3)) = Cut_(w, 8, 8)
               /\ Bin3ToDec(Field(b, 11, 3)) = Cut_(w, 4, 8)
               /\ Bin3ToDec(Field(b, 13, 3)) = Cut_(w, 1, 8)
               /\ Bin2dec(Field(b, 14, 2)) = Cut_(w, 1, 4)
               /\ Bin2dec(Field(b, 7, 7)) = Cut_(w, 4, 128)
               /\ Bin2dec(Field(b, 7, 4)) = Cut_(w, 32, 16)
               /\ Sbin2dec(Field(b, 7, 7)) = TwosComplement(Cut_(w, 4, 128), 64)
               /\ Sbin2dec(Field(b, 3, 10)) = TwosComplement(Cut_(w, 8, 1024), 512)
               /\ Sbin2dec(Field(b, 3, 13)) = TwosComplement(Cut_(w, 1, 8192), 4096)
<1> DEFINE part(from, n) == Field(Dec2bin(w, 16), from, n)
           number(x, n, v) == x \in Seq(Bit) /\ Len(x) = n /\ Bin2dec(x) = v
<1>1. \A from, n, a, m : PartIsCut(w, from, n, a, m) => number(part(from, n), n, Cut_(w, a, m))
  BY DEF PartIsCut
<1>2. ASSUME NEW x, NEW v
      PROVE  /\ number(x, 3, v) => Bin3ToDec(x) = v
             /\ number(x, 7, v) => Sbin2dec(x) = TwosComplement(v, 64)
             /\ number(x, 10, v) => Sbin2dec(x) = TwosComplement(v, 512)
             /\ number(x, 13, v) => Sbin2dec(x) = TwosComplement(v, 4096)
  <2>1. number(x, 3, v) => Bin3ToDec(x) = v
    BY OneLength
  <2>2. \A n \in Nat : n > 0 /\ number(x, n, v) => Sbin2dec(x) = TwosComplement(v, Weight(n - 1))
    BY SbinIs
  <2>3. 7 \in Nat /\ 10 \in Nat /\ 13 \in Nat /\ 7 > 0 /\ 10 > 0 /\ 13 > 0
        /\ 7 - 1 = 6 /\ 10 - 1 = 9 /\ 13 - 1 = 12
    OBVIOUS
  <2> HIDE DEF number
  <2> QED  BY <2>1, <2>2, <2>3, Weights
<1>3. \A x, n, v : number(x, n, v) => Bin2dec(x) = v
  OBVIOUS
<1> HIDE DEF number
<1>4. /\ number(part(1, 2), 2, Cut_(w, 8192, 4)) /\ number(part(1, 6), 6, Cut_(w, 512, 64))
      /\ number(part(7, 3), 3, Cut_(w, 64, 8)) /\ number(part(10, 3), 3, Cut_(w, 8, 8))
      /\ number(part(11, 3), 3, Cut_(w, 4, 8)) /\ number(part(13, 3), 3, Cut_(w, 1, 8))
      /\ number(part(14, 2), 2, Cut_(w, 1, 4)) /\ number(part(7, 7), 7, Cut_(w, 4, 128))
      /\ number(part(7, 4), 4, Cut_(w, 32, 16)) /\ number(part(3, 10), 10, Cut_(w, 8, 1024))
      /\ number(part(3, 13), 13, Cut_(w, 1, 8192))
  <2> HIDE DEF part
  <2> QED  BY <1>1, PartsOfWord
<1> HIDE DEF part
<1>5. /\ Bin2dec(part(1, 2)) = Cut_(w, 8192, 4)
      /\ Bin2dec(part(1, 6)) = Cut_(w, 512, 64)
      /\ Bin2dec(part(14, 2)) = Cut_(w, 1, 4)
      /\ Bin2dec(part(7, 7)) = Cut_(w, 4, 128)
      /\ Bin2dec(part(7, 4)) = Cut_(w, 32, 16)
  BY <1>3, <1>4
<1>6. /\ Bin3ToDec(part(7, 3)) = Cut_(w, 64, 8)
      /\ Bin3ToDec(part(10, 3)) = Cut_(w, 8, 8)
      /\ Bin3ToDec(part(11, 3)) = Cut_(w, 4, 8)
      /\ Bin3ToDec(part(13, 3)) = Cut_(w, 1, 8)
      /\ Sbin2dec(part(7, 7)) = TwosComplement(Cut_(w, 4, 128), 64)
      /\ Sbin2dec(part(3, 10)) = TwosComplement(Cut_(w, 8, 1024), 512)
      /\ Sbin2dec(part(3, 13)) = TwosComplement(Cut_(w, 1, 8192), 4096)
  BY <1>2, <1>4
<1> QED  BY <1>5, <1>6 DEF part

CutsInRange(w) ==
    /\ Cut_(w, 64, 8) \in 0 .. 7 /\ Cut_(w, 8, 8) \in 0 .. 7 /\ Cut_(w, 4, 8) \in 0 .. 7
    /\ Cut_(w, 1, 8) \in 0 .. 7 /\ Cut_(w, 1, 4) \in 0 .. 3
    /\ Cut_(w, 4, 128) \in 0 .. 127 /\ Cut_(w, 32, 16) \in 0 .. 15
    /\ Cut_(w, 8, 1024) \in 0 .. 1023 /\ Cut_(w, 1, 8192) \in 0 .. 8191

\* The ranges of the parts of a word.
LEMMA CutType ==
    ASSUME NEW w \in Nat
    PROVE  CutsInRange(w)
  BY DEF CutsInRange, Cut_

\* What the shifts and masks of fsim read.
LEMMA FsimReads ==
    ASSUME NEW w \in Nat, w < 65536
    PROVE  LET p == FsimDecode(w)
           IN  /\ p.full = w /\ p.opcode = FsimOpcode(w \div 512)
               /\ p.arg0 = Cut_(w, 64, 8) /\ p.arg1 = Cut_(w, 8, 8)
               /\ Masked(p.full, 2, 3) \div 4 = Cut_(w, 4, 8)
               /\ p.tgt = Cut_(w, 1, 8) /\ p.tgt2 = Cut_(w, 1, 4) + 1
<1>1. (w % 512) \div 64 = (w \div 64) % 8
  OBVIOUS
<1>2. ((w % 512) \div 8) % 8 = (w \div 8) % 8
  OBVIOUS
<1>3. (((w \div 4) % 8) * 4) \div 4 = (w \div 4) % 8
  OBVIOUS
<1>4. (w % 512) % 8 = w % 8 /\ (w % 512) % 4 = w % 4 /\ w \div 1 = w
  OBVIOUS
<1>5. Masked(w, 2, 3) = ((w \div 4) % 8) * 4
  BY Powers DEF Masked
<1>6. /\ FsimDecode(w).full = w /\ FsimDecode(w).opcode = FsimOpcode(w \div 512)
      /\ FsimDecode(w).arg0 = (w % 512) \div 64
      /\ FsimDecode(w).arg1 = ((w % 512) \div 8) % 8
      /\ FsimDecode(w).tgt = (w % 512) % 8 /\ FsimDecode(w).tgt2 = ((w % 512) % 4) + 1
  BY DEF FsimDecode, FsimArg1
<1> QED  BY <1>1, <1>2, <1>3, <1>4, <1>5, <1>6 DEF Cut_

\* fsim's opcode is main2.c's, but for the reserved words.
LEMMA OpcodesAgree ==
    ASSUME NEW w \in Nat, w < 65536, ~Reserved(w)
    PROVE  FsimOpcode(w \div 512) = MicroOpcode(Dec2bin(w, 16))
<1> DEFINE i == w \div 512
           b == Dec2bin(w, 16)
<1>1. i \in 0 .. 127 /\ (i < 64 \/ i >= 67)
  BY DEF Reserved
<1>2. b[1] = (w \div 32768) % 2
  <2>1. b[1] = (w \div 2 ^ (16 - 1)) % 2
    BY DEF Dec2bin
  <2>2. 16 - 1 = 15
    OBVIOUS
  <2> QED  BY <2>1, <2>2, Powers
<1>3. /\ Bin2dec(Field(b, 1, 2)) = (w \div 8192) % 4 /\ Bin2dec(Field(b, 1, 6)) = i % 64
  BY MicroReads DEF Cut_
<1>4. CASE i < 64
  <2>1. (w \div 32768) % 2 = 0 /\ (w \div 8192) % 4 = i \div 16 /\ ~(i > 66)
    BY <1>4
  <2> HIDE DEF i, b
  <2> QED  BY <1>2, <1>3, <2>1 DEF FsimOpcode, MicroOpcode, b, i
<1>5. CASE i >= 67
  <2>1. (w \div 32768) % 2 = 1 /\ i > 66
    BY <1>5
  <2> HIDE DEF i, b
  <2> QED  BY <1>2, <1>3, <2>1 DEF FsimOpcode, MicroOpcode, b, i
<1> QED  BY <1>1, <1>4, <1>5

\* A number x below 2 p is moved up to the sign bit of an int16_t, and back.
ShiftsBack(x, k, p) == Int16(x * k) \div k = TwosComplement(x, p)
ShiftsBack13(x) == ShiftsBack(x, 8, 4096)
Range13 == 0 .. 8191

\* Shifting a field to the upper end of 16 bits and back extends its sign.
LEMMA ShiftedBack ==
    /\ \A x \in 0 .. 127 : ShiftsBack(x, 512, 64)
    /\ \A x \in 0 .. 1023 : ShiftsBack(x, 64, 512)
    /\ \A x \in Range13 : ShiftsBack13(x)
<1> USE DEF ShiftsBack, ShiftsBack13, Range13
<1>1. ASSUME NEW x \in 0 .. 127 PROVE Int16(x * 512) \div 512 = TwosComplement(x, 64)
  BY DEF Int16, TwosComplement
<1>2. ASSUME NEW x \in 0 .. 1023 PROVE Int16(x * 64) \div 64 = TwosComplement(x, 512)
  BY DEF Int16, TwosComplement
<1>3. ASSUME NEW x \in 0 .. 8191 PROVE Int16(x * 8) \div 8 = TwosComplement(x, 4096)
  <2>1. CASE x >= 4096
    <3>1. Int16(x * 8) = x * 8 - 65536
      BY <2>1 DEF Int16
    <3>2. (x * 8 - 65536) \div 8 = x - 8192
      OBVIOUS
    <3> QED  BY <2>1, <3>1, <3>2 DEF TwosComplement
  <2>2. CASE x < 4096
    <3>1. Int16(x * 8) = x * 8
      BY <2>2 DEF Int16
    <3>2. (x * 8) \div 8 = x
      OBVIOUS
    <3> QED  BY <2>2, <3>1, <3>2 DEF TwosComplement
  <2> QED  BY <2>1, <2>2
<1> QED  BY <1>1, <1>2, <1>3

\* The immediates of fsim, by the fields that main2.c reads.
LEMMA FsimImmediates ==
    ASSUME NEW w \in Nat, w < 65536, NEW op
    PROVE  LET imm == FsimImm(FsimDecode(w), op)
           IN  /\ op = "ldi" => imm = TwosComplement(Cut_(w, 8, 1024), 512)
               /\ op = "br" => imm = TwosComplement(Cut_(w, 1, 8192), 4096)
               /\ op \in BaseBP => imm = TwosComplement(Cut_(w, 4, 128), 64)
               /\ op \in AluImm \cup Addskpi => imm = IRtable[Cut_(w, 64, 8) + 1]
               /\ op = "addhi" => imm = Cut_(w, 4, 128) * 512
               /\ op \in {"shl", "shr"} => imm = Cut_(w, 32, 16)
               /\ op \notin WithImm => imm = 0
<1> DEFINE p == FsimDecode(w)
<1>1. p.full = w /\ p.arg0 = Cut_(w, 64, 8)
  BY FsimReads
<1> HIDE DEF p
<1>0. /\ Cut_(w, 4, 128) \in 0 .. 127 /\ Cut_(w, 32, 16) \in 0 .. 15
      /\ Cut_(w, 8, 1024) \in 0 .. 1023 /\ Cut_(w, 1, 8192) \in 0 .. 8191
  <2>1. CutsInRange(w)
    BY CutType
  <2> QED  BY <2>1 DEF CutsInRange
<1>2. /\ Masked(w, 3, 10) = Cut_(w, 8, 1024) * 8
      /\ Masked(w, 0, 13) = Cut_(w, 1, 8192)
      /\ Masked(w, 2, 7) = Cut_(w, 4, 128) * 4
      /\ Masked(w, 5, 4) = Cut_(w, 32, 16) * 32
  <2>1. Masked(w, 3, 10) = Cut_(w, 8, 1024) * 8
    BY Powers DEF Masked, Cut_
  <2>2. Masked(w, 0, 13) = Cut_(w, 1, 8192)
    BY Powers DEF Masked, Cut_
  <2>3. Masked(w, 2, 7) = Cut_(w, 4, 128) * 4
    BY Powers DEF Masked, Cut_
  <2>4. Masked(w, 5, 4) = Cut_(w, 32, 16) * 32
    BY Powers DEF Masked, Cut_
  <2> QED  BY <2>1, <2>2, <2>3, <2>4
<1>3. CASE op = "ldi"
  <2>1. FsimImm(p, op) = Int16(Masked(w, 3, 10) * 8) \div 64
    BY <1>1, <1>3 DEF FsimImm, BaseBP, AluImm, Addskpi
  <2> DEFINE x == Cut_(w, 8, 1024)
  <2>2. x \in 0 .. 1023
    BY <1>0
  <2> HIDE DEF x
  <2>3. (x * 8) * 8 = x * 64
    BY <2>2
  <2>4. FsimImm(p, op) = TwosComplement(x, 512)
    <3>1. Masked(w, 3, 10) = x * 8
      BY <1>2 DEF x
    <3>2. Int16(x * 64) \div 64 = TwosComplement(x, 512)
      BY <2>2, ShiftedBack DEF ShiftsBack
    <3> QED  BY <2>1, <2>3, <3>1, <3>2
  <2> QED  BY <1>3, <2>4 DEF WithImm, BaseBP, AluImm, Addskpi, p, x
<1>4. CASE op = "br"
  <2>1. FsimImm(p, op) = Int16(Masked(w, 0, 13) * 8) \div 8
    BY <1>1, <1>4 DEF FsimImm, BaseBP, AluImm, Addskpi
  <2> DEFINE x == Cut_(w, 1, 8192)
  <2>2. x \in 0 .. 8191
    BY <1>0
  <2> HIDE DEF x
  <2>4. FsimImm(p, op) = TwosComplement(x, 4096)
    <3>1. Masked(w, 0, 13) = x
      BY <1>2 DEF x
    <3>3. x \in Range13
      BY <2>2 DEF Range13
    <3>2. ShiftsBack13(x)
      BY <3>3, ShiftedBack
    <3> QED  BY <2>1, <3>1, <3>2 DEF ShiftsBack, ShiftsBack13
  <2> QED  BY <1>4, <2>4 DEF WithImm, BaseBP, AluImm, Addskpi, p, x
<1>5. CASE op \in BaseBP
  <2>1. FsimImm(p, op) = Int16(Masked(w, 2, 7) * 128) \div 512
    BY <1>1, <1>5 DEF FsimImm, BaseBP, AluImm, Addskpi
  <2> DEFINE x == Cut_(w, 4, 128)
  <2>2. x \in 0 .. 127
    BY <1>0
  <2> HIDE DEF x
  <2>3. (x * 4) * 128 = x * 512
    BY <2>2
  <2>4. FsimImm(p, op) = TwosComplement(x, 64)
    BY <1>2, <2>1, <2>2, <2>3, ShiftedBack DEF ShiftsBack, x
  <2> QED  BY <1>5, <2>4 DEF WithImm, BaseBP, AluImm, Addskpi, p, x
<1>6. CASE op \in AluImm \cup Addskpi
  <2>1. FsimImm(p, op) = IRtable[Cut_(w, 64, 8) + 1]
    BY <1>1, <1>6 DEF FsimImm, BaseBP, AluImm, Addskpi
  <2> QED  BY <1>6, <2>1 DEF WithImm, BaseBP, AluImm, Addskpi, p
<1>7. CASE op = "addhi"
  <2>1. FsimImm(p, op) = Masked(w, 2, 7) * 128
    BY <1>1, <1>7 DEF FsimImm, BaseBP, AluImm, Addskpi
  <2> DEFINE x == Cut_(w, 4, 128)
  <2>2. x \in 0 .. 127
    BY <1>0
  <2> HIDE DEF x
  <2>3. (x * 4) * 128 = x * 512
    BY <2>2
  <2>4. FsimImm(p, op) = x * 512
    BY <1>2, <2>1, <2>3 DEF x
  <2> QED  BY <1>7, <2>4 DEF WithImm, BaseBP, AluImm, Addskpi, p, x
<1>8. CASE op \in {"shl", "shr"}
  <2>1. FsimImm(p, op) = Masked(w, 5, 4) \div 32
    BY <1>1, <1>8 DEF FsimImm, BaseBP, AluImm, Addskpi
  <2> DEFINE x == Cut_(w, 32, 16)
  <2>2. x \in 0 .. 15
    BY <1>0
  <2> HIDE DEF x
  <2>3. (x * 32) \div 32 = x
    BY <2>2
  <2>4. FsimImm(p, op) = x
    BY <1>2, <2>1, <2>3 DEF x
  <2> QED  BY <1>8, <2>4 DEF WithImm, BaseBP, AluImm, Addskpi, p, x
<1>9. CASE op \notin WithImm
  <2>1. FsimImm(p, op) = 0
    BY <1>9 DEF FsimImm, WithImm, BaseBP, AluImm, Addskpi
  <2> QED  BY <1>9, <2>1 DEF WithImm, BaseBP, AluImm, Addskpi, p
<1> QED  BY <1>3, <1>4, <1>5, <1>6, <1>7, <1>8, <1>9 DEF WithImm

\* The two lists of operations are the same where a simulator executes something.
OpOfFsim(o) == IF o = 63 THEN "hlt" ELSE IF o + 1 \in DOMAIN FsimCases THEN FsimCases[o + 1] ELSE ""
OpOfMicro(o) == IF o + 1 \in DOMAIN MxOps THEN MxOps[o + 1] ELSE ""
SameOp(f, m) == /\ f \in Op \ {"hlt"} \/ m \in Op => f = m
                /\ f \in WithImm \/ m \in WithImm => f = m

\* The operations of an opcode in both lists.
LEMMA ListsAgree ==
    ASSUME NEW o \in Nat
    PROVE  SameOp(OpOfFsim(o), OpOfMicro(o))
<1> DEFINE f == OpOfFsim(o)
           m == OpOfMicro(o)
<1>3. "lptb" \notin Op /\ "rsi" \notin Op
  BY DEF Op, Alu3, AluImm, Addskp, Addskpi, BaseBP, Indexed
<1>4. ASSUME m \in Op PROVE f = m
  <2>1. o + 1 \in DOMAIN MxOps /\ m = MxOps[o + 1]
    BY <1>4, OpNames DEF OpOfMicro
  <2>2. o \in 0 .. 51 /\ o # 2 /\ m = AsmOps[o + 1]
    BY <1>4, <2>1, MicroOps
  <2>3. o # 63 /\ o + 1 \in 1 .. 53
    BY <2>2
  <2>4. o + 1 # 44
    BY <1>3, <1>4, <2>2, OtherEntries
  <2>5. FsimCases[o + 1] = AsmOps[o + 1]
    BY <2>3, <2>4, FsimTable
  <2>6. f = FsimCases[o + 1]
    BY <2>3, OtherEntries DEF OpOfFsim
  <2> QED  BY <2>2, <2>5, <2>6
<1>5. ASSUME f \in Op \ {"hlt"} PROVE f = m
  <2>1. o # 63 /\ o + 1 \in DOMAIN FsimCases /\ f = FsimCases[o + 1]
    BY <1>5, OpNames DEF OpOfFsim
  <2>2. o + 1 \in 1 .. 53
    BY <2>1, OtherEntries
  <2>7. FsimCases[44] \notin Op /\ FsimCases[53] \notin Op /\ FsimCases[3] \notin Op
    BY <1>3, OpNames, OtherEntries
  <2>8. FsimCases[o + 1] \in Op
    BY <1>5, <2>1
  <2>3. o + 1 # 44 /\ o + 1 # 53 /\ o + 1 # 3
    BY <2>7, <2>8
  <2>4. o + 1 \in 1 .. 52
    BY <2>2, <2>3
  <2>5. f = AsmOps[o + 1]
    BY <2>1, <2>2, <2>3, FsimTable
  <2>6. m = MxOps[o + 1] /\ MxOps[o + 1] = AsmOps[o + 1]
    BY <2>3, <2>4, OtherEntries, MxTable DEF OpOfMicro
  <2> QED  BY <2>5, <2>6
<1> HIDE DEF f, m
<1> QED  BY <1>4, <1>5, OpNames DEF SameOp, f, m

\* The operations of a word in both simulators.
LEMMA OperationsAgree ==
    ASSUME NEW w \in Nat, w < 65536, ~Reserved(w)
    PROVE  SameOp(FsimOp(FsimDecode(w)), MicroOp(Dec2bin(w, 16)))
<1> DEFINE o == MicroOpcode(Dec2bin(w, 16))
<1>1. o \in Nat /\ FsimDecode(w).opcode = o
  BY MicroOpcodeType, OpcodesAgree, FsimReads
<1>2. FsimOp(FsimDecode(w)) = OpOfFsim(o) /\ MicroOp(Dec2bin(w, 16)) = OpOfMicro(o)
  BY <1>1 DEF FsimOp, MicroOp, OpOfFsim, OpOfMicro
<1> QED  BY <1>1, <1>2, ListsAgree

\* The rows of an operation are rows.
LEMMA OpRows ==
    ASSUME NEW op \in Op, op # "hlt", NEW cycle \in {"DECODE", "READ", "EXEC"}
    PROVE  RowOf(op, cycle) \in RowFields
<1>1. op # "fetch"
  BY OpNames
<1>2. CASE cycle = "DECODE"
  <2>1. RowOf(op, cycle) = DecodeRow(op)
    BY <1>1, <1>2 DEF RowOf
  <2> QED  BY <2>1, RowTypes
<1>3. CASE cycle = "READ"
  <2>1. RowOf(op, cycle) = ReadRow(op)
    BY <1>1, <1>3 DEF RowOf
  <2> QED  BY <2>1, RowTypes
<1>4. CASE cycle = "EXEC"
  <2>1. RowOf(op, cycle) = ExecRow(op)
    BY <1>1, <1>4 DEF RowOf
  <2> QED  BY <2>1, RowTypes
<1> QED  BY <1>2, <1>3, <1>4

\* The immediate that the microcode selects, by the operation.
LEMMA MicroImmediates ==
    ASSUME NEW w \in Nat, NEW op, op = MicroOp(Dec2bin(w, 16)), op \in Op
    PROVE  LET imm == MicroImm(Dec2bin(w, 16))
           IN  /\ op = "ldi" => imm = TwosComplement(Cut_(w, 8, 1024), 512)
               /\ op = "br" => imm = TwosComplement(Cut_(w, 1, 8192), 4096)
               /\ op \in BaseBP => imm = TwosComplement(Cut_(w, 4, 128), 64)
               /\ op \in AluImm \cup Addskpi => imm = IRtable[Cut_(w, 64, 8) + 1]
               /\ op = "addhi" => imm = Cut_(w, 4, 128) * 512
               /\ op \in {"shl", "shr"} => imm = Cut_(w, 32, 16)
<1> DEFINE b == Dec2bin(w, 16)
           o == MicroOpcode(b)
           sel == IrImmSelections[Idx(o, "DECODE")]
<1>1. o \in Nat
  BY MicroOpcodeType
<1>2. /\ Bin3ToDec(Field(b, 7, 3)) = Cut_(w, 64, 8)
      /\ Bin2dec(Field(b, 7, 7)) = Cut_(w, 4, 128)
      /\ Bin2dec(Field(b, 7, 4)) = Cut_(w, 32, 16)
      /\ Sbin2dec(Field(b, 7, 7)) = TwosComplement(Cut_(w, 4, 128), 64)
      /\ Sbin2dec(Field(b, 3, 10)) = TwosComplement(Cut_(w, 8, 1024), 512)
      /\ Sbin2dec(Field(b, 3, 13)) = TwosComplement(Cut_(w, 1, 8192), 4096)
  BY MicroReads
<1>3. o + 1 \in DOMAIN MxOps /\ op = MxOps[o + 1]
  BY OpNames DEF MicroOp
<1> HIDE DEF b, o
<1>4. o \in 0 .. 51 /\ op # "hlt" /\ op # ""
  BY <1>1, <1>3, MicroOps, OpNames
<1>5. sel = ImmsOf(op, "DECODE")
  <2>1. RowOf(op, "DECODE") \in RowFields
    BY <1>4, OpRows
  <2> QED  BY <1>3, <1>4, <2>1, RowFound
<1>6. MicroImm(b) = CASE sel = "imm7"  -> Sbin2dec(Field(b, 7, 7))
          [] sel = "imm10" -> Sbin2dec(Field(b, 3, 10))
          [] sel = "imm13" -> Sbin2dec(Field(b, 3, 13))
          [] sel = "immir" -> IRtable[Arg0(b) + 1]
          [] sel = "imm7u" -> Bin2dec(Field(b, 7, 7)) * 512
          [] sel = "imm4"  -> Bin2dec(Field(b, 7, 4))
  BY DEF MicroImm, o
<1> HIDE DEF sel
<1>7. /\ sel = "imm7" => MicroImm(b) = Sbin2dec(Field(b, 7, 7))
      /\ sel = "imm10" => MicroImm(b) = Sbin2dec(Field(b, 3, 10))
      /\ sel = "imm13" => MicroImm(b) = Sbin2dec(Field(b, 3, 13))
      /\ sel = "immir" => MicroImm(b) = IRtable[Arg0(b) + 1]
      /\ sel = "imm7u" => MicroImm(b) = Bin2dec(Field(b, 7, 7)) * 512
      /\ sel = "imm4" => MicroImm(b) = Bin2dec(Field(b, 7, 4))
  BY <1>6
<1>8. /\ op = "ldi" => sel = "imm10"
      /\ op = "br" => sel = "imm13"
      /\ op \in BaseBP => sel = "imm7"
      /\ op \in AluImm \cup Addskpi => sel = "immir"
      /\ op = "addhi" => sel = "imm7u"
      /\ op \in {"shl", "shr"} => sel = "imm4"
  BY <1>5 DEF ImmsOf, BaseBP, AluImm, Addskpi
<1> QED  BY <1>2, <1>7, <1>8 DEF Arg0, b

\* What has an immediate is an operation.
LEMMA ImmediateOps == \A op \in WithImm : op \in Op
  BY OpNames

\* What a simulator reads out of the word w for the operation op.
View(op, w) ==
    [op |-> op, arg0 |-> Cut_(w, 64, 8), arg1 |-> Cut_(w, 8, 8), arg2 |-> Cut_(w, 4, 8),
     tgt |-> Cut_(w, 1, 8), tgt2 |-> Cut_(w, 1, 4) + 1,
     imm |-> FsimImm(FsimDecode(w), op) % 65536]

\* The immediate that the microcode selects is the one of fsim.
LEMMA ImmediatesAgree ==
    ASSUME NEW w \in Nat, w < 65536, NEW op \in WithImm, op = MicroOp(Dec2bin(w, 16))
    PROVE  MicroImm(Dec2bin(w, 16)) = FsimImm(FsimDecode(w), op)
<1> DEFINE x == FsimImm(FsimDecode(w), op)
           y == MicroImm(Dec2bin(w, 16))
<1>1. op \in Op
  BY ImmediateOps
<1>2. /\ op = "ldi" => x = TwosComplement(Cut_(w, 8, 1024), 512)
      /\ op = "br" => x = TwosComplement(Cut_(w, 1, 8192), 4096)
      /\ op \in BaseBP => x = TwosComplement(Cut_(w, 4, 128), 64)
      /\ op \in AluImm \cup Addskpi => x = IRtable[Cut_(w, 64, 8) + 1]
      /\ op = "addhi" => x = Cut_(w, 4, 128) * 512
      /\ op \in {"shl", "shr"} => x = Cut_(w, 32, 16)
  BY FsimImmediates
<1>3. /\ op = "ldi" => y = TwosComplement(Cut_(w, 8, 1024), 512)
      /\ op = "br" => y = TwosComplement(Cut_(w, 1, 8192), 4096)
      /\ op \in BaseBP => y = TwosComplement(Cut_(w, 4, 128), 64)
      /\ op \in AluImm \cup Addskpi => y = IRtable[Cut_(w, 64, 8) + 1]
      /\ op = "addhi" => y = Cut_(w, 4, 128) * 512
      /\ op \in {"shl", "shr"} => y = Cut_(w, 32, 16)
  BY <1>1, MicroImmediates
<1> HIDE DEF x, y
<1>4. x = y
  BY <1>2, <1>3 DEF WithImm
<1> QED  BY <1>4 DEF x, y

\* What fsim and main2.c read out of a word are the same parts of it.
LEMMA Views ==
    ASSUME NEW w \in Nat, w < 65536
    PROVE  /\ FsimView(FsimDecode(w)) = View(FsimOp(FsimDecode(w)), w)
           /\ MicroView(Dec2bin(w, 16)) = View(MicroOp(Dec2bin(w, 16)), w)
<1> DEFINE p == FsimDecode(w)
           b == Dec2bin(w, 16)
<1>1. /\ p.full = w /\ p.arg0 = Cut_(w, 64, 8) /\ p.arg1 = Cut_(w, 8, 8)
      /\ Masked(p.full, 2, 3) \div 4 = Cut_(w, 4, 8)
      /\ p.tgt = Cut_(w, 1, 8) /\ p.tgt2 = Cut_(w, 1, 4) + 1
  BY FsimReads
<1>2. /\ Bin3ToDec(Field(b, 7, 3)) = Cut_(w, 64, 8)
      /\ Bin3ToDec(Field(b, 10, 3)) = Cut_(w, 8, 8)
      /\ Bin3ToDec(Field(b, 11, 3)) = Cut_(w, 4, 8)
      /\ Bin3ToDec(Field(b, 13, 3)) = Cut_(w, 1, 8)
      /\ Bin2dec(Field(b, 14, 2)) = Cut_(w, 1, 4)
  BY MicroReads
<1>3. (IF MicroOp(b) \in WithImm THEN MicroImm(b) % 65536 ELSE 0)
        = FsimImm(p, MicroOp(b)) % 65536
  <2>1. ASSUME MicroOp(b) \in WithImm PROVE MicroImm(b) = FsimImm(p, MicroOp(b))
    BY <2>1, ImmediatesAgree
  <2>2. ASSUME MicroOp(b) \notin WithImm PROVE FsimImm(p, MicroOp(b)) = 0
    BY <2>2, FsimImmediates
  <2>3. 0 % 65536 = 0
    OBVIOUS
  <2> HIDE DEF p, b
  <2> QED  BY <2>1, <2>2, <2>3
<1> HIDE DEF p, b
<1> DEFINE fimm == FsimImm(p, FsimOp(p)) % 65536
           mimm == FsimImm(p, MicroOp(b)) % 65536
<1>4. FsimView(p) = [op |-> FsimOp(p), arg0 |-> Cut_(w, 64, 8), arg1 |-> Cut_(w, 8, 8),
           arg2 |-> Cut_(w, 4, 8), tgt |-> Cut_(w, 1, 8), tgt2 |-> Cut_(w, 1, 4) + 1,
           imm |-> fimm]
  BY <1>1 DEF FsimView
<1>5. MicroView(b) = [op |-> MicroOp(b), arg0 |-> Cut_(w, 64, 8), arg1 |-> Cut_(w, 8, 8),
           arg2 |-> Cut_(w, 4, 8), tgt |-> Cut_(w, 1, 8), tgt2 |-> Cut_(w, 1, 4) + 1,
           imm |-> mimm]
  BY <1>2, <1>3 DEF MicroView, Arg0, Arg2
<1> QED  BY <1>4, <1>5 DEF View, p, b

\* The two simulators read the same operands.
LEMMA ViewsAgree ==
    ASSUME NEW w \in Nat, w < 65536, ~Reserved(w)
    PROVE  LET f == FsimView(FsimDecode(w))
               m == MicroView(Dec2bin(w, 16))
           IN  f = [m EXCEPT !.op = f.op]
<1> DEFINE f == FsimOp(FsimDecode(w))
           m == MicroOp(Dec2bin(w, 16))
<1>1. FsimImm(FsimDecode(w), f) = FsimImm(FsimDecode(w), m)
  <2>1. f \in WithImm \/ m \in WithImm => f = m
    BY OperationsAgree DEF SameOp
  <2>2. \A op : op \notin WithImm => FsimImm(FsimDecode(w), op) = 0
    BY FsimImmediates
  <2> HIDE DEF f, m
  <2> QED  BY <2>1, <2>2
<1>2. FsimView(FsimDecode(w)) = View(f, w) /\ MicroView(Dec2bin(w, 16)) = View(m, w)
  BY Views
<1> HIDE DEF f, m
<1>3. View(f, w) = [View(m, w) EXCEPT !.op = f] /\ View(f, w).op = f
  BY <1>1 DEF View
<1> QED  BY <1>2, <1>3

\* fsim and main2.c read the same instruction out of every word.
THEOREM SimulatorsTheorem == Spec => []SimulatorsReadAlike
<1>1. WordInv => SimulatorsReadAlike
  <2> SUFFICES ASSUME WordInv, stage = "decoded", ~Reserved(ir)
               PROVE  LET f == FsimView(cinstr)
                          m == MicroView(instr_b)
                      IN  /\ cinstr.opcode = MicroOpcode(instr_b)
                          /\ f = [m EXCEPT !.op = f.op]
                          /\ f.op \in Op \ {"hlt"} \/ m.op \in Op => f.op = m.op
    BY DEF SimulatorsReadAlike
  <2>1. ir \in Nat /\ ir < 65536 /\ cinstr = FsimDecode(ir) /\ instr_b = Dec2bin(ir, 16)
    BY DEF WordInv
  <2>2. cinstr.opcode = MicroOpcode(instr_b)
    BY <2>1, FsimReads, OpcodesAgree
  <2>3. FsimView(cinstr) = [MicroView(instr_b) EXCEPT !.op = FsimView(cinstr).op]
    BY <2>1, ViewsAgree
  <2>4. FsimView(cinstr).op = FsimOp(cinstr) /\ MicroView(instr_b).op = MicroOp(instr_b)
    BY DEF FsimView, MicroView
  <2>5. FsimOp(cinstr) \in Op \ {"hlt"} \/ MicroOp(instr_b) \in Op
          => FsimOp(cinstr) = MicroOp(instr_b)
    BY <2>1, OperationsAgree DEF SameOp
  <2> QED  BY <2>2, <2>3, <2>4, <2>5
<1> QED  BY <1>1, WordInvariant, PTL

-----------------------------------------------------------------------------
\* A line, its word and what is read of it.

\* Two strings one after the other, and their lengths.
LEMMA Appended ==
    ASSUME NEW a \in Seq(Bit), NEW b \in Seq(Bit)
    PROVE  a \o b \in Seq(Bit) /\ Len(a \o b) = Len(a) + Len(b)
  OBVIOUS

\* Four strings one after the other, and where they begin.
Row(t, h, a, b, c) == t = h \o a \o b \o c

Laid(t, h, a, b, c) ==
    /\ Starts(h, t) /\ Len(t) = Len(h) + Len(a) + Len(b) + Len(c)
    /\ Field(t, Len(h), Len(a)) = a
    /\ Field(t, Len(h) + Len(a), Len(b)) = b
    /\ Field(t, Len(h) + Len(a) + Len(b), Len(c)) = c

\* Where four strings one after the other begin.
LEMMA FourParts ==
    ASSUME NEW h \in Seq(Bit), NEW a \in Seq(Bit), NEW b \in Seq(Bit), NEW c \in Seq(Bit),
           NEW s, Row(s, h, a, b, c)
    PROVE  Laid(s, h, a, b, c)
<1> DEFINE p == h \o a
           q == p \o b
           t == q \o c
<1>1. p \in Seq(Bit) /\ Len(p) = Len(h) + Len(a)
  OBVIOUS
<1> HIDE DEF p
<1>2. q \in Seq(Bit) /\ Len(q) = Len(p) + Len(b)
  BY <1>1, Appended
<1> HIDE DEF q
<1>3. t \in Seq(Bit) /\ Len(t) = Len(q) + Len(c)
  BY <1>2, Appended
<1>4. Starts(t, t)
  <2> HIDE DEF t
  <2> QED  BY <1>3, StartsItself
<1>5. Starts(q, t) /\ Field(t, Len(q), Len(c)) = c
  <2>1. Starts(q \o c, t)
    BY <1>4
  <2> HIDE DEF t
  <2> QED  BY <1>2, <2>1, StartsFurther, PartIs
<1>6. Starts(p, t) /\ Field(t, Len(p), Len(b)) = b
  <2>1. Starts(p \o b, t)
    BY <1>5 DEF q
  <2> HIDE DEF t
  <2> QED  BY <1>1, <2>1, StartsFurther, PartIs
<1>7. Starts(h, t) /\ Field(t, Len(h), Len(a)) = a
  <2>1. Starts(h \o a, t)
    BY <1>6 DEF p
  <2> HIDE DEF t
  <2> QED  BY <2>1, StartsFurther, PartIs
<1>8. Len(t) = Len(h) + Len(a) + Len(b) + Len(c)
  BY <1>1, <1>2, <1>3
<1> HIDE DEF t
<1>9. /\ Field(t, Len(h) + Len(a), Len(b)) = b
      /\ Field(t, Len(h) + Len(a) + Len(b), Len(c)) = c
  BY <1>1, <1>2, <1>5, <1>6
<1> QED  BY <1>7, <1>8, <1>9 DEF t, q, p, Row, Laid

\* A word of one of the assembler's opcodes is read as that opcode.
LEMMA OpcodeArrives ==
    ASSUME NEW w \in Nat, w < 65536, NEW op \in Nat, op < 64,
           Starts(OpcodeDigits(op), Dec2bin(w, 16))
    PROVE  MicroOpcode(Dec2bin(w, 16)) = op /\ ~Reserved(w)
<1> DEFINE b == Dec2bin(w, 16)
<1>1. b[1] = (w \div 32768) % 2
  <2>1. b[1] = (w \div 2 ^ (16 - 1)) % 2
    BY DEF Dec2bin
  <2>2. 16 - 1 = 15
    OBVIOUS
  <2> QED  BY <2>1, <2>2, Powers
<1>2. Bin2dec(Field(b, 1, 6)) = (w \div 512) % 64
  BY MicroReads DEF Cut_
<1> HIDE DEF b
<1>3. ASSUME NEW d \in Bit, NEW n, InDigits(op, n), OpcodeDigits(op) = <<d>> \o Dec2bin(op, n)
      PROVE  b[1] = d /\ Bin2dec(Field(b, 1, n)) = op
  <2> DEFINE h == <<d>>
             a == Dec2bin(op, n)
  <2>1. h \in Seq(Bit) /\ Len(h) = 1 /\ h[1] = d
    OBVIOUS
  <2>2. a \in Seq(Bit) /\ Len(a) = n /\ Bin2dec(a) = op
    BY <1>3, DigitsOf
  <2>3. Starts(h \o a, b)
    BY <1>3 DEF b
  <2> HIDE DEF h, a
  <2>6. h \in Seq(Bit) /\ a \in Seq(Bit)
    BY <2>1, <2>2
  <2>7. Starts(h, b)
    BY <2>3, <2>6, StartsFurther
  <2>8. Field(b, Len(h), Len(a)) = a
    BY <2>3, <2>6, PartIs
  <2>4. Starts(h, b) /\ Field(b, 1, n) = a
    BY <2>1, <2>2, <2>7, <2>8
  <2>5. b[1] = d
    BY <2>1, <2>4 DEF Starts
  <2> QED  BY <2>2, <2>4, <2>5
<1>4. CASE op <= 3
  <2>1. OpcodeDigits(op) = <<0>> \o Dec2bin(op, 2) /\ InDigits(op, 2) /\ 0 \in Bit
    BY <1>4, SmallInDigits DEF OpcodeDigits, Bit
  <2>2. b[1] = 0 /\ Bin2dec(Field(b, 1, 2)) = op
    BY <1>3, <2>1
  <2>3. ~(w \div 512 \in 64 .. 66)
    BY <1>1, <2>2
  <2> QED  BY <2>2, <2>3 DEF MicroOpcode, Reserved, b
<1>5. CASE op > 3
  <2>1. OpcodeDigits(op) = <<1>> \o Dec2bin(op, 6) /\ 1 \in Bit
    BY <1>5 DEF OpcodeDigits, Bit
  <2>2. InDigits(op, 6)
    BY Powers DEF InDigits
  <2>3. b[1] = 1 /\ Bin2dec(Field(b, 1, 6)) = op
    BY <1>3, <2>1, <2>2
  <2>4. ~(w \div 512 \in 64 .. 66)
    BY <1>2, <1>5, <2>3
  <2> QED  BY <2>3, <2>4 DEF MicroOpcode, Reserved, b
<1> QED  BY <1>4, <1>5

\* The digits of an argument stand in a word from a position on.
Arrived(kind, from, w, a) ==
    /\ kind \in ArgumentKinds /\ a \in Args /\ Fits(kind, a)
    /\ Field(Dec2bin(w, 16), from, Size(kind)) = Encoded(kind, a)

\* The digits of an argument are read as it was written.
LEMMA ArgumentDigits ==
    ASSUME NEW kind, NEW from, NEW w, NEW a, Arrived(kind, from, w, a)
    PROVE  LET bin == Field(Dec2bin(w, 16), from, Size(kind))
           IN  /\ kind = "reg" => Bin2dec(bin) = RegNumber(a)
               /\ kind \in {"imm10", "imm13br", "imm7"} => Sbin2dec(bin) = a.val
               /\ kind \in {"imm4", "imm7u"} => Bin2dec(bin) = a.val
               /\ kind = "immir" => Bin2dec(bin) = Number(a.val, IRIMM)
               /\ kind = "tgt2" => Bin2dec(bin) + 1 = RegNumber(a)
               /\ kind = "cond" => Bin2dec(bin) = Number(a.name, COND)
<1>1. kind \in ArgumentKinds /\ a \in Args /\ Fits(kind, a)
      /\ Field(Dec2bin(w, 16), from, Size(kind)) = Encoded(kind, a)
  BY DEF Arrived
<1> QED  BY <1>1, EncodedValue

\* The sizes of the kinds of fields.
LEMMA SizeOf ==
    /\ Size("reg") = 3 /\ Size("immir") = 3 /\ Size("cond") = 3 /\ Size("pad3") = 3
    /\ Size("imm10") = 10 /\ Size("imm13br") = 13 /\ Size("imm7") = 7 /\ Size("imm7u") = 7
    /\ Size("imm4") = 4 /\ Size("tgt2") = 2 /\ Size("R0reg") = 2 /\ Size("BPreg") = 0
    /\ Size("pad6") = 6
<1>1. \A kind \in {"reg", "immir", "cond", "pad3"} : Size(kind) = 3
  BY DEF Size
<1>2. \A kind \in {"imm10"} : Size(kind) = 10
  BY DEF Size
<1>3. \A kind \in {"imm13br"} : Size(kind) = 13
  BY DEF Size
<1>4. \A kind \in {"imm7", "imm7u"} : Size(kind) = 7
  BY DEF Size
<1>5. \A kind \in {"imm4"} : Size(kind) = 4
  BY DEF Size
<1>6. \A kind \in {"tgt2", "R0reg"} : Size(kind) = 2
  BY DEF Size
<1>7. \A kind \in {"BPreg"} : Size(kind) = 0
  BY DEF Size
<1>8. \A kind \in {"pad6"} : Size(kind) = 6
  BY DEF Size
<1> QED  BY <1>1, <1>2, <1>3, <1>4, <1>5, <1>6, <1>7, <1>8

\* What is read where an argument has been written.
LEMMA ArgumentRead ==
    ASSUME NEW w \in Nat, NEW a
    PROVE  /\ Arrived("reg", 7, w, a) => Cut_(w, 64, 8) = RegNumber(a)
           /\ Arrived("reg", 10, w, a) => Cut_(w, 8, 8) = RegNumber(a)
           /\ Arrived("reg", 11, w, a) => Cut_(w, 4, 8) = RegNumber(a)
           /\ Arrived("reg", 13, w, a) => Cut_(w, 1, 8) = RegNumber(a)
           /\ Arrived("cond", 13, w, a) => Cut_(w, 1, 8) = Number(a.name, COND)
           /\ Arrived("immir", 7, w, a) => Cut_(w, 64, 8) = Number(a.val, IRIMM)
           /\ Arrived("tgt2", 14, w, a) => Cut_(w, 1, 4) + 1 = RegNumber(a)
           /\ Arrived("imm4", 7, w, a) => Cut_(w, 32, 16) = a.val
           /\ Arrived("imm7u", 7, w, a) => Cut_(w, 4, 128) = a.val
           /\ Arrived("imm7", 7, w, a) => TwosComplement(Cut_(w, 4, 128), 64) = a.val
           /\ Arrived("imm10", 3, w, a) => TwosComplement(Cut_(w, 8, 1024), 512) = a.val
           /\ Arrived("imm13br", 3, w, a) => TwosComplement(Cut_(w, 1, 8192), 4096) = a.val
<1> DEFINE part(from, n) == Field(Dec2bin(w, 16), from, n)
<1>1. /\ Bin2dec(part(14, 2)) = Cut_(w, 1, 4)
      /\ Bin2dec(part(7, 7)) = Cut_(w, 4, 128)
      /\ Bin2dec(part(7, 4)) = Cut_(w, 32, 16)
      /\ Sbin2dec(part(7, 7)) = TwosComplement(Cut_(w, 4, 128), 64)
      /\ Sbin2dec(part(3, 10)) = TwosComplement(Cut_(w, 8, 1024), 512)
      /\ Sbin2dec(part(3, 13)) = TwosComplement(Cut_(w, 1, 8192), 4096)
  BY MicroReads
<1>2. /\ Bin2dec(part(7, 3)) = Cut_(w, 64, 8) /\ Bin2dec(part(10, 3)) = Cut_(w, 8, 8)
      /\ Bin2dec(part(11, 3)) = Cut_(w, 4, 8) /\ Bin2dec(part(13, 3)) = Cut_(w, 1, 8)
  BY PartsOfWord DEF PartIsCut
<1>3. \A kind, from, n : Arrived(kind, from, w, a) /\ Size(kind) = n =>
          /\ kind = "reg" => Bin2dec(part(from, n)) = RegNumber(a)
          /\ kind \in {"imm10", "imm13br", "imm7"} => Sbin2dec(part(from, n)) = a.val
          /\ kind \in {"imm4", "imm7u"} => Bin2dec(part(from, n)) = a.val
          /\ kind = "immir" => Bin2dec(part(from, n)) = Number(a.val, IRIMM)
          /\ kind = "tgt2" => Bin2dec(part(from, n)) + 1 = RegNumber(a)
          /\ kind = "cond" => Bin2dec(part(from, n)) = Number(a.name, COND)
  BY ArgumentDigits
<1> HIDE DEF part
<1>4. \A from : Arrived("reg", from, w, a) => Bin2dec(part(from, 3)) = RegNumber(a)
  BY <1>3, SizeOf
<1>5. \A from : Arrived("cond", from, w, a) => Bin2dec(part(from, 3)) = Number(a.name, COND)
  BY <1>3, SizeOf
<1>6. \A from : Arrived("immir", from, w, a) => Bin2dec(part(from, 3)) = Number(a.val, IRIMM)
  BY <1>3, SizeOf
<1>7. \A from : Arrived("tgt2", from, w, a) => Bin2dec(part(from, 2)) + 1 = RegNumber(a)
  BY <1>3, SizeOf
<1>8. \A from : Arrived("imm4", from, w, a) => Bin2dec(part(from, 4)) = a.val
  BY <1>3, SizeOf
<1>9. \A from : Arrived("imm7u", from, w, a) => Bin2dec(part(from, 7)) = a.val
  BY <1>3, SizeOf
<1>10. \A from : Arrived("imm7", from, w, a) => Sbin2dec(part(from, 7)) = a.val
  BY <1>3, SizeOf
<1>11. \A from : Arrived("imm10", from, w, a) => Sbin2dec(part(from, 10)) = a.val
  BY <1>3, SizeOf
<1>12. \A from : Arrived("imm13br", from, w, a) => Sbin2dec(part(from, 13)) = a.val
  BY <1>3, SizeOf
<1> QED  BY <1>1, <1>2, <1>4, <1>5, <1>6, <1>7, <1>8, <1>9, <1>10, <1>11, <1>12

\* A line with arguments whose digits are those of the word w.
WrittenAs(l, w) ==
    /\ Encodable(l) /\ l.args \in Seq(Args) /\ l.args # << >> /\ Len(Encode(l)) = 16
    /\ w \in Nat /\ w < 65536 /\ Dec2bin(w, 16) = Encode(l)

HeadLength(cmd) == IF Opcode(cmd) <= 3 THEN 3 ELSE 7

\* The position of the k-th field.
Offset(l, k) ==
    IF k = 1 THEN HeadLength(Command(l))
    ELSE IF k = 2 THEN HeadLength(Command(l)) + FieldSize(l, 1)
    ELSE HeadLength(Command(l)) + FieldSize(l, 1) + FieldSize(l, 2)

\* A line with arguments has none of the commands that stand alone.
LEMMA WithArguments ==
    ASSUME NEW l, Valid(l), l.args \in Seq(Args), l.args # << >>
    PROVE  /\ l.cmd \in Commands /\ Command(l) \in Commands /\ Command(l) # "nop"
           /\ l.cmd \notin {"nop", "hlt", "syscall", "reti", "brk", "rsi"}
           /\ Opcode(Command(l)) \in Nat /\ Opcode(Command(l)) < 64
<1>1. l.cmd \in Commands /\ Command(l) \in Commands
  BY CommandType DEF Valid
<1>2. l.cmd \notin {"nop", "hlt", "syscall", "reti", "brk", "rsi"}
  <2> SUFFICES ASSUME l.cmd \in {"nop", "hlt", "syscall", "reti", "brk", "rsi"} PROVE FALSE
    OBVIOUS
  <2>1. Template(l.cmd) = << >>
    BY TemplateOf
  <2>2. DOMAIN l.args = {Template(l.cmd)[k][2] : k \in DOMAIN Template(l.cmd)} \ {0}
    BY DEF Valid
  <2>3. DOMAIN l.args = {}
    BY <2>1, <2>2
  <2>4. \A s \in Seq(Args) : DOMAIN s = {} => s = << >>
    OBVIOUS
  <2> QED  BY <2>3, <2>4
<1>3. Command(l) # "nop"
  BY <1>2 DEF Command, ZeroStore, Based
<1>4. Opcode(Command(l)) \in Nat /\ Opcode(Command(l)) < 64
  <2> DEFINE cmd == Command(l)
  <2>1. cmd \in Commands /\ cmd # "nop"
    BY <1>1, <1>3
  <2> HIDE DEF cmd
  <2>2. ASSUME cmd \in {"lda", "mov", "hlt"} PROVE Opcode(cmd) \in Nat /\ Opcode(cmd) < 64
    BY <2>1, <2>2, Opcodes
  <2>3. ASSUME cmd \notin {"lda", "mov", "hlt"} PROVE Opcode(cmd) \in Nat /\ Opcode(cmd) < 64
    <3>1. cmd \notin {"lda", "mov", "hlt", "nop"}
      BY <2>1, <2>3
    <3>2. Opcode(cmd) \in 0 .. 52
      BY <2>1, <3>1, Opcodes
    <3>3. \A n \in 0 .. 52 : n \in Nat /\ n < 64
      OBVIOUS
    <3> QED  BY <3>2, <3>3
  <2> QED  BY <2>2, <2>3 DEF cmd
<1> QED  BY <1>1, <1>2, <1>3, <1>4

\* The opcode and the fields of a line stand in the word one after the other.
LEMMA LineArrives ==
    ASSUME NEW l, NEW w, WrittenAs(l, w)
    PROVE  /\ MicroOpcode(Dec2bin(w, 16)) = Opcode(Command(l)) /\ ~Reserved(w)
           /\ \A k \in 1 .. 3 :
                 Field(Dec2bin(w, 16), Offset(l, k), FieldSize(l, k)) = FieldDigits(l, k)
<1> DEFINE op == Opcode(Command(l))
           h == OpcodeDigits(op)
           b == Dec2bin(w, 16)
<1>1. /\ Encodable(l) /\ Valid(l) /\ l.args \in Seq(Args) /\ l.args # << >>
      /\ w \in Nat /\ w < 65536
  BY DEF WrittenAs, Encodable
<1>2. op \in Nat /\ op < 64
  BY <1>1, WithArguments
<1>3. h \in Seq(Bit) /\ Len(h) = HeadLength(Command(l))
  <2> HIDE DEF op
  <2>1. h \in Seq(Bit) /\ Len(h) = IF op <= 3 THEN 3 ELSE IF op < 64 THEN 7 ELSE 9
    BY <1>2, OpcodeDigitsType
  <2> QED  BY <1>2, <2>1 DEF HeadLength, op
<1>4. /\ FieldDigits(l, 1) \in Seq(Bit) /\ Len(FieldDigits(l, 1)) = FieldSize(l, 1)
      /\ FieldDigits(l, 2) \in Seq(Bit) /\ Len(FieldDigits(l, 2)) = FieldSize(l, 2)
      /\ FieldDigits(l, 3) \in Seq(Bit) /\ Len(FieldDigits(l, 3)) = FieldSize(l, 3)
  BY <1>1, FieldDigitsType
<1>5. b = h \o FieldDigits(l, 1) \o FieldDigits(l, 2) \o FieldDigits(l, 3)
  BY <1>1 DEF WrittenAs, Encode
<1> HIDE DEF b, h
<1>9. Laid(b, h, FieldDigits(l, 1), FieldDigits(l, 2), FieldDigits(l, 3))
  <2>1. Row(b, h, FieldDigits(l, 1), FieldDigits(l, 2), FieldDigits(l, 3))
    BY <1>5 DEF Row
  <2> QED  BY <1>3, <1>4, <2>1, FourParts
<1>6. /\ Starts(h, b)
      /\ Field(b, Len(h), Len(FieldDigits(l, 1))) = FieldDigits(l, 1)
      /\ Field(b, Len(h) + Len(FieldDigits(l, 1)), Len(FieldDigits(l, 2))) = FieldDigits(l, 2)
      /\ Field(b, Len(h) + Len(FieldDigits(l, 1)) + Len(FieldDigits(l, 2)),
               Len(FieldDigits(l, 3))) = FieldDigits(l, 3)
  BY <1>9 DEF Laid
<1>7. \A k \in 1 .. 3 : Field(b, Offset(l, k), FieldSize(l, k)) = FieldDigits(l, k)
  <2>1. Offset(l, 1) = Len(h) /\ Offset(l, 2) = Len(h) + FieldSize(l, 1)
        /\ Offset(l, 3) = Len(h) + FieldSize(l, 1) + FieldSize(l, 2)
    BY <1>3 DEF Offset
  <2>2. \A k \in 1 .. 3 : k = 1 \/ k = 2 \/ k = 3
    OBVIOUS
  <2> QED  BY <1>4, <1>6, <2>1, <2>2
<1>8. MicroOpcode(b) = op /\ ~Reserved(w)
  BY <1>1, <1>2, <1>6, OpcodeArrives DEF b, h
<1> QED  BY <1>7, <1>8 DEF b

\* Every argument of a line stands in the word, at the place that its template gives it.
LEMMA ArgumentArrives ==
    ASSUME NEW l, NEW w, WrittenAs(l, w),
           NEW k \in DOMAIN Template(Command(l)), Template(Command(l))[k][2] # 0
    PROVE  LET f == Template(Command(l))[k]
           IN  f[2] \in DOMAIN l.args /\ Arrived(f[1], Offset(l, k), w, Argument(l, f[2]))
<1> DEFINE f == Template(Command(l))[k]
<1>1. /\ Encodable(l) /\ Valid(l) /\ l.args \in Seq(Args) /\ l.args # << >>
  BY DEF WrittenAs, Encodable
<1>2. Command(l) \in Commands
  BY <1>1, WithArguments
<1>3. k \in 1 .. 3 /\ GoodField(f)
  BY <1>2, Opcodes, Templates
<1>4. f[1] \in ArgumentKinds /\ f[2] \in DOMAIN l.args
  BY <1>1, <1>3, ArgumentPlaces DEF GoodField
<1>5. Argument(l, f[2]) \in Args
  BY <1>1, <1>4, ArgumentType
<1>6. Fits(f[1], Argument(l, f[2]))
  BY <1>1 DEF Encodable
<1>7. FieldDigits(l, k) = Encoded(f[1], Argument(l, f[2])) /\ FieldSize(l, k) = Size(f[1])
  BY DEF FieldDigits, FieldSize
<1>8. Field(Dec2bin(w, 16), Offset(l, k), FieldSize(l, k)) = FieldDigits(l, k)
  BY <1>3, LineArrives
<1> HIDE DEF f
<1> QED  BY <1>4, <1>5, <1>6, <1>7, <1>8 DEF Arrived, f

\* Three commands have an opcode of three digits.
LEMMA HeadIs ==
    ASSUME NEW cmd \in Commands, cmd # "nop"
    PROVE  HeadLength(cmd) = IF cmd \in {"ldi", "lda", "br"} THEN 3 ELSE 7
<1>1. CASE cmd \in {"ldi", "lda", "br"}
  <2>1. Opcode(cmd) <= 3
    BY <1>1, Opcodes
  <2> QED  BY <1>1, <2>1 DEF HeadLength
<1>2. CASE cmd \in {"mov", "hlt"}
  <2>1. Opcode(cmd) = 10 \/ Opcode(cmd) = 63
    BY <1>2, Opcodes
  <2>2. ~(Opcode(cmd) <= 3)
    BY <2>1
  <2> QED  BY <1>2, <2>2 DEF HeadLength
<1>3. CASE cmd \notin {"ldi", "lda", "br", "mov", "hlt"}
  <2>1. cmd \notin {"lda", "mov", "hlt", "nop"} /\ cmd \notin {"ldi", "br"}
    BY <1>3
  <2>2. Opcode(cmd) \in 4 .. 52
    BY <2>1, Opcodes
  <2>3. \A n \in 4 .. 52 : ~(n <= 3)
    OBVIOUS
  <2> QED  BY <1>3, <2>2, <2>3 DEF HeadLength
<1> QED  BY <1>1, <1>2, <1>3

OpKnown(o, name) ==
    /\ OpOfFsim(o) \in {"", name} /\ OpOfMicro(o) \in {"", name}
    /\ OpOfFsim(o) # "" \/ OpOfMicro(o) # ""

\* Indexes of the tables.
LEMMA TableIndexes ==
    /\ \A n \in 0 .. 52 : n # 63 /\ n + 1 \in 1 .. 53
    /\ \A k \in 1 .. 53 : IF k = 53 THEN k # 44 /\ k \notin 1 .. 52 ELSE k \in 1 .. 52
<1>1. ASSUME NEW n \in 0 .. 52 PROVE n # 63 /\ n + 1 \in 1 .. 53
  OBVIOUS
<1>2. ASSUME NEW k \in 1 .. 53, k = 53 PROVE k # 44 /\ k \notin 1 .. 52
  BY <1>2
<1>3. ASSUME NEW k \in 1 .. 53, k # 53 PROVE k \in 1 .. 52
  BY <1>3
<1> QED  BY <1>1, <1>2, <1>3

\* An opcode of the assembler means its command to every simulator that has the opcode.
LEMMA TableEntry ==
    ASSUME NEW o \in 0 .. 52, AsmOps[o + 1] # ""
    PROVE  OpKnown(o, AsmOps[o + 1])
<1> DEFINE name == AsmOps[o + 1]
<1>1. o # 63 /\ o + 1 \in 1 .. 53
  BY TableIndexes
<1>2. o + 1 # 3
  BY OtherEntries
<1>3. OpOfFsim(o) = FsimCases[o + 1]
  BY <1>1, OtherEntries DEF OpOfFsim
<1>4. CASE o + 1 = 53
  <2>1. o + 1 # 44 /\ o + 1 \notin 1 .. 52
    BY TableIndexes, <1>1, <1>4
  <2>2. OpOfMicro(o) = ""
    BY <2>1, OtherEntries DEF OpOfMicro
  <2>3. FsimCases[o + 1] = name
    BY <1>1, <2>1, FsimTable
  <2> QED  BY <1>3, <2>2, <2>3 DEF OpKnown
<1>5. CASE o + 1 # 53
  <2>1. o + 1 \in 1 .. 52
    BY TableIndexes, <1>1, <1>5
  <2>2. OpOfMicro(o) = name
    BY <1>2, <2>1, OtherEntries, MxTable DEF OpOfMicro
  <2>3. FsimCases[o + 1] \in {"", name}
    BY <1>1, FsimTable, OtherEntries
  <2> QED  BY <1>3, <2>2, <2>3 DEF OpKnown
<1> QED  BY <1>4, <1>5

\* The opcode of a command means its operation to every simulator that has the opcode.
LEMMA OperationArrives ==
    ASSUME NEW cmd \in Commands, cmd # "nop"
    PROVE  OpKnown(Opcode(cmd), NameOf(cmd))
<1>1. CASE cmd = "hlt"
  <2>1. Opcode(cmd) = 63 /\ NameOf(cmd) = "hlt"
    BY <1>1, Opcodes DEF NameOf
  <2>2. OpOfFsim(63) = "hlt"
    BY DEF OpOfFsim
  <2>3. OpOfMicro(63) = ""
    <3>1. 63 + 1 \notin 1 .. 52
      OBVIOUS
    <3> QED  BY <3>1, OtherEntries DEF OpOfMicro
  <2> QED  BY <2>1, <2>2, <2>3 DEF OpKnown
<1>2. CASE cmd \in {"lda", "mov"}
  <2>1. PICK o \in 0 .. 52 : Opcode(cmd) = o /\ AsmOps[o + 1] = NameOf(cmd)
    <3>1. CASE cmd = "lda"
      <4>1. Opcode(cmd) = 0 /\ NameOf(cmd) = "ldi"
        BY <3>1, Opcodes DEF NameOf
      <4>2. 0 + 1 = 1 /\ 0 \in 0 .. 52
        OBVIOUS
      <4> QED  BY <4>1, <4>2, AsmTable
    <3>2. CASE cmd = "mov"
      <4>1. Opcode(cmd) = 10 /\ NameOf(cmd) = "add"
        BY <3>2, Opcodes DEF NameOf
      <4>2. 10 + 1 = 11 /\ 10 \in 0 .. 52
        OBVIOUS
      <4> QED  BY <4>1, <4>2, AsmTable
    <3> QED  BY <1>2, <3>1, <3>2
  <2>2. NameOf(cmd) # ""
    BY <1>2 DEF NameOf
  <2> QED  BY <2>1, <2>2, TableEntry
<1>3. CASE cmd \notin {"hlt", "lda", "mov"}
  <2>1. cmd \notin {"lda", "mov", "hlt", "nop"} /\ NameOf(cmd) = cmd
    BY <1>3 DEF NameOf
  <2>2. Opcode(cmd) \in 0 .. 52 /\ AsmOps[Opcode(cmd) + 1] = cmd
    BY <2>1, Opcodes
  <2>3. cmd # ""
    BY DEF Commands
  <2> QED  BY <2>1, <2>2, <2>3, TableEntry
<1> QED  BY <1>1, <1>2, <1>3

\* Templates of one, two and three fields.
StandsAt(l, w, kind, n, from) ==
    n # 0 => n \in DOMAIN l.args /\ Arrived(kind, from, w, Argument(l, n))

\* The argument of one field of a template.
LEMMA FieldArrives ==
    ASSUME NEW l, NEW w, WrittenAs(l, w), NEW k \in DOMAIN Template(Command(l)),
           NEW kind, NEW n, Template(Command(l))[k] = <<kind, n>>
    PROVE  StandsAt(l, w, kind, n, Offset(l, k)) /\ FieldSize(l, k) = Size(kind)
<1>1. Template(Command(l))[k][1] = kind /\ Template(Command(l))[k][2] = n
  OBVIOUS
<1>2. FieldSize(l, k) = Size(kind)
  BY <1>1 DEF FieldSize
<1>3. n # 0 => n \in DOMAIN l.args /\ Arrived(kind, Offset(l, k), w, Argument(l, n))
  BY <1>1, ArgumentArrives
<1> QED  BY <1>2, <1>3 DEF StandsAt

\* Templates of one field.
LEMMA OneField ==
    ASSUME NEW l, NEW w, WrittenAs(l, w), NEW k1, NEW n1,
           Template(Command(l)) = <<<<k1, n1>>>>
    PROVE  StandsAt(l, w, k1, n1, HeadLength(Command(l)))
<1>1. 1 \in DOMAIN Template(Command(l)) /\ Template(Command(l))[1] = <<k1, n1>>
  OBVIOUS
<1>2. StandsAt(l, w, k1, n1, Offset(l, 1))
  BY <1>1, FieldArrives
<1> QED  BY <1>2 DEF Offset

\* Templates of two fields.
LEMMA TwoFields ==
    ASSUME NEW l, NEW w, WrittenAs(l, w), NEW k1, NEW n1, NEW k2, NEW n2,
           Template(Command(l)) = <<<<k1, n1>>, <<k2, n2>>>>
    PROVE  /\ StandsAt(l, w, k1, n1, HeadLength(Command(l)))
           /\ StandsAt(l, w, k2, n2, HeadLength(Command(l)) + Size(k1))
<1>1. /\ 1 \in DOMAIN Template(Command(l)) /\ Template(Command(l))[1] = <<k1, n1>>
      /\ 2 \in DOMAIN Template(Command(l)) /\ Template(Command(l))[2] = <<k2, n2>>
  OBVIOUS
<1>2. StandsAt(l, w, k1, n1, Offset(l, 1)) /\ FieldSize(l, 1) = Size(k1)
  BY <1>1, FieldArrives
<1>3. StandsAt(l, w, k2, n2, Offset(l, 2))
  BY <1>1, FieldArrives
<1> QED  BY <1>2, <1>3 DEF Offset

\* Templates of three fields.
LEMMA ThreeFields ==
    ASSUME NEW l, NEW w, WrittenAs(l, w), NEW k1, NEW n1, NEW k2, NEW n2, NEW k3, NEW n3,
           Template(Command(l)) = <<<<k1, n1>>, <<k2, n2>>, <<k3, n3>>>>
    PROVE  /\ StandsAt(l, w, k1, n1, HeadLength(Command(l)))
           /\ StandsAt(l, w, k2, n2, HeadLength(Command(l)) + Size(k1))
           /\ StandsAt(l, w, k3, n3, HeadLength(Command(l)) + Size(k1) + Size(k2))
<1>1. /\ 1 \in DOMAIN Template(Command(l)) /\ Template(Command(l))[1] = <<k1, n1>>
      /\ 2 \in DOMAIN Template(Command(l)) /\ Template(Command(l))[2] = <<k2, n2>>
      /\ 3 \in DOMAIN Template(Command(l)) /\ Template(Command(l))[3] = <<k3, n3>>
  OBVIOUS
<1>2. StandsAt(l, w, k1, n1, Offset(l, 1)) /\ FieldSize(l, 1) = Size(k1)
  BY <1>1, FieldArrives
<1>3. StandsAt(l, w, k2, n2, Offset(l, 2)) /\ FieldSize(l, 2) = Size(k2)
  BY <1>1, FieldArrives
<1>4. StandsAt(l, w, k3, n3, Offset(l, 3))
  BY <1>1, FieldArrives
<1> QED  BY <1>2, <1>3, <1>4 DEF Offset

\* What is read of the field at a position, by the number of the argument.
LEMMA LaidRead ==
    ASSUME NEW l, NEW w \in Nat, NEW n \in 1 .. 3
    PROVE  LET a == Argument(l, n)
               Laid_(kind, from) == StandsAt(l, w, kind, n, from)
           IN  /\ Laid_("reg", 7) => Cut_(w, 64, 8) = RegNumber(a)
               /\ Laid_("reg", 10) => Cut_(w, 8, 8) = RegNumber(a)
               /\ Laid_("reg", 11) => Cut_(w, 4, 8) = RegNumber(a)
               /\ Laid_("reg", 13) => Cut_(w, 1, 8) = RegNumber(a)
               /\ Laid_("cond", 13) => Cut_(w, 1, 8) = Number(a.name, COND)
               /\ Laid_("immir", 7) => IRtable[Cut_(w, 64, 8) + 1] = a.val
               /\ Laid_("tgt2", 14) => Cut_(w, 1, 4) + 1 = RegNumber(a)
               /\ Laid_("imm4", 7) => Cut_(w, 32, 16) = a.val
               /\ Laid_("imm7u", 7) => Cut_(w, 4, 128) = a.val
               /\ Laid_("imm7", 7) => TwosComplement(Cut_(w, 4, 128), 64) = a.val
               /\ Laid_("imm10", 3) => TwosComplement(Cut_(w, 8, 1024), 512) = a.val
               /\ Laid_("imm13br", 3) => TwosComplement(Cut_(w, 1, 8192), 4096) = a.val
<1> DEFINE a == Argument(l, n)
<1>1. n # 0
  OBVIOUS
<1>2. \A kind, from : StandsAt(l, w, kind, n, from) => Arrived(kind, from, w, a)
  BY <1>1 DEF StandsAt
<1>3. Arrived("immir", 7, w, a) => IRtable[Cut_(w, 64, 8) + 1] = a.val
  <2> SUFFICES ASSUME Arrived("immir", 7, w, a) PROVE IRtable[Cut_(w, 64, 8) + 1] = a.val
    OBVIOUS
  <2>1. Cut_(w, 64, 8) = Number(a.val, IRIMM)
    BY ArgumentRead
  <2>2. a.val \in {IRIMM[i] : i \in DOMAIN IRIMM}
    <3>1. Fits("immir", a)
      BY DEF Arrived
    <3>2. ASSUME NEW kind, kind = "immir", Fits(kind, a)
          PROVE  a.val \in {IRIMM[i] : i \in DOMAIN IRIMM}
      BY <3>2 DEF Fits
    <3> QED  BY <3>1, <3>2
  <2>3. IRIMM[Number(a.val, IRIMM) + 1] = a.val
    BY <2>2, ImmediateNumbers
  <2>4. IRIMM = IRtable
    BY DEF IRIMM, IRtable
  <2> QED  BY <2>1, <2>3, <2>4
<1> HIDE DEF a
<1>4. /\ Arrived("reg", 7, w, a) => Cut_(w, 64, 8) = RegNumber(a)
      /\ Arrived("reg", 10, w, a) => Cut_(w, 8, 8) = RegNumber(a)
      /\ Arrived("reg", 11, w, a) => Cut_(w, 4, 8) = RegNumber(a)
      /\ Arrived("reg", 13, w, a) => Cut_(w, 1, 8) = RegNumber(a)
      /\ Arrived("cond", 13, w, a) => Cut_(w, 1, 8) = Number(a.name, COND)
      /\ Arrived("tgt2", 14, w, a) => Cut_(w, 1, 4) + 1 = RegNumber(a)
      /\ Arrived("imm4", 7, w, a) => Cut_(w, 32, 16) = a.val
      /\ Arrived("imm7u", 7, w, a) => Cut_(w, 4, 128) = a.val
      /\ Arrived("imm7", 7, w, a) => TwosComplement(Cut_(w, 4, 128), 64) = a.val
      /\ Arrived("imm10", 3, w, a) => TwosComplement(Cut_(w, 8, 1024), 512) = a.val
      /\ Arrived("imm13br", 3, w, a) => TwosComplement(Cut_(w, 1, 8192), 4096) = a.val
  BY ArgumentRead
<1>5. \A kind, from : StandsAt(l, w, kind, n, from) => Arrived(kind, from, w, a)
  BY <1>2 DEF a
<1> QED  BY <1>3, <1>4, <1>5 DEF a

\* Only lda and addhi take a part of their argument.
LEMMA PlainArgument ==
    ASSUME NEW l, NEW n, n # 2 \/ l.cmd \notin {"lda", "addhi"}
    PROVE  Argument(l, n) = l.args[n]
  BY DEF Argument

\* The operands of a word are those of a meaning.
Carries(view, meaning) == \A f \in DOMAIN meaning : view[f] = meaning[f]

ThreeRegisters == {"add", "sub", "and", "or", "shl.r", "shr.r", "addskp.z", "addskp.nz",
                   "ldw.b", "ldb.b"}
OneTarget == {"push", "pop", "br.r", "push.u", "pop.u", "lcr", "lcr.u", "lptb", "wivec"}
OneSource == {"wcr", "wcr.u", "wptb"}

\* The meaning of a load, by the operation that its arguments select.
LEMMA LoadMeaning ==
    ASSUME NEW l, l.cmd \in {"ldw", "ldb"}
    PROVE  LET cmd == Command(l)
           IN  \/ /\ cmd \in {"ldw", "ldb"}
                  /\ OperandsOf(l) = [op |-> cmd, tgt2 |-> Reg(l, 1), imm |-> Value(l, 2)]
               \/ cmd \in {"ldw.b", "ldb.b"} /\ OperandsOf(l) = Three(cmd, l)
<1>1. Command(l) = IF HasOffset(l, 2) THEN l.cmd ELSE Based[l.cmd]
  BY DEF Command
<1>2. Based[l.cmd] \in {"ldw.b", "ldb.b"}
  BY DEF Based
<1>3. OperandsOf(l) = IF HasOffset(l, 2)
                      THEN [op |-> l.cmd, tgt2 |-> Reg(l, 1), imm |-> Value(l, 2)]
                      ELSE Three(Based[l.cmd], l)
  BY DEF OperandsOf, AluImm, Addskpi
<1> QED  BY <1>1, <1>2, <1>3

\* The meaning of a store, by the operation that its arguments select.
LEMMA StoreMeaning ==
    ASSUME NEW l, l.cmd \in {"stw", "stb"}
    PROVE  LET cmd == Command(l)
           IN  \/ /\ cmd \in {"stw0", "stb0"}
                  /\ OperandsOf(l) = [op |-> cmd, imm |-> Value(l, 1)]
               \/ /\ cmd \in {"stw", "stb"}
                  /\ OperandsOf(l) = [op |-> cmd, tgt2 |-> Reg(l, 3), imm |-> Value(l, 1)]
               \/ cmd \in {"stw.b", "stb.b"} /\ OperandsOf(l) = Stored(cmd, l)
<1>1. Command(l) = IF StoresZero(l) THEN ZeroStore[l.cmd]
                   ELSE IF HasOffset(l, 1) THEN l.cmd ELSE Based[l.cmd]
  BY DEF Command
<1>2. Based[l.cmd] \in {"stw.b", "stb.b"} /\ ZeroStore[l.cmd] \in {"stw0", "stb0"}
  BY DEF Based, ZeroStore
<1>3. OperandsOf(l) =
         IF StoresZero(l) THEN [op |-> ZeroStore[l.cmd], imm |-> Value(l, 1)]
         ELSE IF HasOffset(l, 1)
              THEN [op |-> l.cmd, tgt2 |-> Reg(l, 3), imm |-> Value(l, 1)]
         ELSE Stored(Based[l.cmd], l)
  BY DEF OperandsOf, AluImm, Addskpi
<1> QED  BY <1>1, <1>2, <1>3

\* Where the arguments of a line stand, by its command.
LEMMA Layout ==
    ASSUME NEW l, NEW w, WrittenAs(l, w)
    PROVE  LET cmd == Command(l)
               At(kind, n, from) == StandsAt(l, w, kind, n, from)
           IN
           /\ cmd \in {"ldi", "lda"} =>
                 At("imm10", 2, 3) /\ At("reg", 1, 13)
           /\ cmd \in {"br"} =>
                 At("imm13br", 1, 3)
           /\ cmd \in {"ldw", "ldb"} =>
                 At("imm7", 2, 7) /\ At("tgt2", 1, 14)
           /\ cmd \in {"stw", "stb"} =>
                 At("imm7", 1, 7) /\ At("tgt2", 3, 14)
           /\ cmd \in {"stw0", "stb0"} =>
                 At("imm7", 1, 7)
           /\ cmd \in {"mov"} =>
                 At("reg", 2, 7) /\ At("reg", 1, 13)
           /\ cmd \in {"skip"} =>
                 At("reg", 1, 7) /\ At("reg", 2, 10) /\ At("cond", 3, 13)
           /\ cmd \in AluImm \cup Addskpi =>
                 At("immir", 3, 7) /\ At("reg", 2, 10) /\ At("reg", 1, 13)
           /\ cmd \in {"stw.b", "stb.b"} =>
                 At("reg", 1, 7) /\ At("reg", 2, 10) /\ At("reg", 3, 13)
           /\ cmd \in {"sext"} =>
                 At("reg", 1, 7) /\ At("reg", 2, 13)
           /\ cmd \in {"addhi"} =>
                 At("imm7u", 2, 7) /\ At("tgt2", 1, 14)
           /\ cmd \in OneTarget =>
                 At("reg", 1, 13)
           /\ cmd \in OneSource =>
                 At("reg", 1, 7)
           /\ cmd \in {"wpte"} =>
                 At("reg", 1, 7) /\ At("reg", 2, 10)
           /\ cmd \in {"lpte"} =>
                 At("reg", 2, 7) /\ At("reg", 1, 13)
           /\ cmd \in {"shl", "shr"} =>
                 At("imm4", 3, 7) /\ At("reg", 2, 11) /\ At("tgt2", 1, 14)
           /\ cmd \in ThreeRegisters =>
                 At("reg", 2, 7) /\ At("reg", 3, 10) /\ At("reg", 1, 13)
<1> DEFINE cmd == Command(l)
           At(kind, n, from) == StandsAt(l, w, kind, n, from)
<1>1. cmd \in Commands /\ cmd # "nop"
  <2>1. Valid(l) /\ l.args \in Seq(Args) /\ l.args # << >>
    BY DEF WrittenAs, Encodable
  <2> QED  BY <2>1, WithArguments
<1>2. /\ \A k1, n1 : Template(cmd) = <<<<k1, n1>>>> => At(k1, n1, HeadLength(cmd))
      /\ \A k1, n1, k2, n2 : Template(cmd) = <<<<k1, n1>>, <<k2, n2>>>> =>
            At(k1, n1, HeadLength(cmd)) /\ At(k2, n2, HeadLength(cmd) + Size(k1))
      /\ \A k1, n1, k2, n2, k3, n3 :
            Template(cmd) = <<<<k1, n1>>, <<k2, n2>>, <<k3, n3>>>> =>
               /\ At(k1, n1, HeadLength(cmd)) /\ At(k2, n2, HeadLength(cmd) + Size(k1))
               /\ At(k3, n3, HeadLength(cmd) + Size(k1) + Size(k2))
  <2>1. \A k1, n1 : Template(cmd) = <<<<k1, n1>>>> => At(k1, n1, HeadLength(cmd))
    BY OneField
  <2>2. \A k1, n1, k2, n2 : Template(cmd) = <<<<k1, n1>>, <<k2, n2>>>> =>
            At(k1, n1, HeadLength(cmd)) /\ At(k2, n2, HeadLength(cmd) + Size(k1))
    BY TwoFields
  <2>3. \A k1, n1, k2, n2, k3, n3 :
            Template(cmd) = <<<<k1, n1>>, <<k2, n2>>, <<k3, n3>>>> =>
               /\ At(k1, n1, HeadLength(cmd)) /\ At(k2, n2, HeadLength(cmd) + Size(k1))
               /\ At(k3, n3, HeadLength(cmd) + Size(k1) + Size(k2))
    BY ThreeFields
  <2> QED  BY <2>1, <2>2, <2>3
<1> HIDE DEF cmd, At
<1>3. ASSUME cmd \in {"ldi", "lda"}
      PROVE  At("imm10", 2, 3) /\ At("reg", 1, 13)
  <2>1. Template(cmd) = <<<<"imm10", 2>>, <<"reg", 1>>>>
    BY <1>3, TemplateOf
  <2>2. HeadLength(cmd) = 3
    BY <1>1, <1>3, HeadIs
  <2>3. At("imm10", 2, HeadLength(cmd)) /\ At("reg", 1, HeadLength(cmd) + Size("imm10"))
    BY <1>2, <2>1
  <2>4. HeadLength(cmd) + Size("imm10") = 13
    BY <2>2, SizeOf
  <2> QED  BY <2>2, <2>3, <2>4
<1>4. ASSUME cmd \in {"br"}
      PROVE  At("imm13br", 1, 3)
  <2>1. Template(cmd) = <<<<"imm13br", 1>>>>
    BY <1>4, TemplateOf
  <2>2. HeadLength(cmd) = 3
    BY <1>1, <1>4, HeadIs
  <2> QED  BY <1>2, <2>1, <2>2
<1>5. ASSUME cmd \in {"ldw", "ldb"}
      PROVE  At("imm7", 2, 7) /\ At("tgt2", 1, 14)
  <2>1. Template(cmd) = <<<<"imm7", 2>>, <<"BPreg", 3>>, <<"tgt2", 1>>>>
    BY <1>5, TemplateOf
  <2>2. HeadLength(cmd) = 7
    BY <1>1, <1>5, HeadIs
  <2>3. /\ At("imm7", 2, HeadLength(cmd)) /\ At("BPreg", 3, HeadLength(cmd) + Size("imm7"))
        /\ At("tgt2", 1, HeadLength(cmd) + Size("imm7") + Size("BPreg"))
    BY <1>2, <2>1
  <2>4. HeadLength(cmd) + Size("imm7") = 14 /\ HeadLength(cmd) + Size("imm7") + Size("BPreg") = 14
    BY <2>2, SizeOf
  <2> QED  BY <2>2, <2>3, <2>4
<1>6. ASSUME cmd \in {"stw", "stb"}
      PROVE  At("imm7", 1, 7) /\ At("tgt2", 3, 14)
  <2>1. Template(cmd) = <<<<"imm7", 1>>, <<"BPreg", 2>>, <<"tgt2", 3>>>>
    BY <1>6, TemplateOf
  <2>2. HeadLength(cmd) = 7
    BY <1>1, <1>6, HeadIs
  <2>3. /\ At("imm7", 1, HeadLength(cmd)) /\ At("BPreg", 2, HeadLength(cmd) + Size("imm7"))
        /\ At("tgt2", 3, HeadLength(cmd) + Size("imm7") + Size("BPreg"))
    BY <1>2, <2>1
  <2>4. HeadLength(cmd) + Size("imm7") = 14 /\ HeadLength(cmd) + Size("imm7") + Size("BPreg") = 14
    BY <2>2, SizeOf
  <2> QED  BY <2>2, <2>3, <2>4
<1>7. ASSUME cmd \in {"stw0", "stb0"}
      PROVE  At("imm7", 1, 7)
  <2>1. Template(cmd) = <<<<"imm7", 1>>, <<"BPreg", 2>>, <<"R0reg", 3>>>>
    BY <1>7, TemplateOf
  <2>2. HeadLength(cmd) = 7
    BY <1>1, <1>7, HeadIs
  <2>3. /\ At("imm7", 1, HeadLength(cmd)) /\ At("BPreg", 2, HeadLength(cmd) + Size("imm7"))
        /\ At("R0reg", 3, HeadLength(cmd) + Size("imm7") + Size("BPreg"))
    BY <1>2, <2>1
  <2>4. HeadLength(cmd) + Size("imm7") = 14 /\ HeadLength(cmd) + Size("imm7") + Size("BPreg") = 14
    BY <2>2, SizeOf
  <2> QED  BY <2>2, <2>3, <2>4
<1>8. ASSUME cmd \in {"mov"}
      PROVE  At("reg", 2, 7) /\ At("reg", 1, 13)
  <2>1. Template(cmd) = <<<<"reg", 2>>, <<"pad3", 0>>, <<"reg", 1>>>>
    BY <1>8, TemplateOf
  <2>2. HeadLength(cmd) = 7
    BY <1>1, <1>8, HeadIs
  <2>3. /\ At("reg", 2, HeadLength(cmd)) /\ At("pad3", 0, HeadLength(cmd) + Size("reg"))
        /\ At("reg", 1, HeadLength(cmd) + Size("reg") + Size("pad3"))
    BY <1>2, <2>1
  <2>4. HeadLength(cmd) + Size("reg") = 10 /\ HeadLength(cmd) + Size("reg") + Size("pad3") = 13
    BY <2>2, SizeOf
  <2> QED  BY <2>2, <2>3, <2>4
<1>9. ASSUME cmd \in {"skip"}
      PROVE  At("reg", 1, 7) /\ At("reg", 2, 10) /\ At("cond", 3, 13)
  <2>1. Template(cmd) = <<<<"reg", 1>>, <<"reg", 2>>, <<"cond", 3>>>>
    BY <1>9, TemplateOf
  <2>2. HeadLength(cmd) = 7
    BY <1>1, <1>9, HeadIs
  <2>3. /\ At("reg", 1, HeadLength(cmd)) /\ At("reg", 2, HeadLength(cmd) + Size("reg"))
        /\ At("cond", 3, HeadLength(cmd) + Size("reg") + Size("reg"))
    BY <1>2, <2>1
  <2>4. HeadLength(cmd) + Size("reg") = 10 /\ HeadLength(cmd) + Size("reg") + Size("reg") = 13
    BY <2>2, SizeOf
  <2> QED  BY <2>2, <2>3, <2>4
<1>10. ASSUME cmd \in AluImm \cup Addskpi
      PROVE  At("immir", 3, 7) /\ At("reg", 2, 10) /\ At("reg", 1, 13)
  <2>1. Template(cmd) = <<<<"immir", 3>>, <<"reg", 2>>, <<"reg", 1>>>>
    BY <1>10, TemplateOf
  <2>2. HeadLength(cmd) = 7
    BY <1>1, <1>10, HeadIs DEF AluImm, Addskpi
  <2>3. /\ At("immir", 3, HeadLength(cmd)) /\ At("reg", 2, HeadLength(cmd) + Size("immir"))
        /\ At("reg", 1, HeadLength(cmd) + Size("immir") + Size("reg"))
    BY <1>2, <2>1
  <2>4. HeadLength(cmd) + Size("immir") = 10 /\ HeadLength(cmd) + Size("immir") + Size("reg") = 13
    BY <2>2, SizeOf
  <2> QED  BY <2>2, <2>3, <2>4
<1>11. ASSUME cmd \in {"stw.b", "stb.b"}
      PROVE  At("reg", 1, 7) /\ At("reg", 2, 10) /\ At("reg", 3, 13)
  <2>1. Template(cmd) = <<<<"reg", 1>>, <<"reg", 2>>, <<"reg", 3>>>>
    BY <1>11, TemplateOf
  <2>2. HeadLength(cmd) = 7
    BY <1>1, <1>11, HeadIs
  <2>3. /\ At("reg", 1, HeadLength(cmd)) /\ At("reg", 2, HeadLength(cmd) + Size("reg"))
        /\ At("reg", 3, HeadLength(cmd) + Size("reg") + Size("reg"))
    BY <1>2, <2>1
  <2>4. HeadLength(cmd) + Size("reg") = 10 /\ HeadLength(cmd) + Size("reg") + Size("reg") = 13
    BY <2>2, SizeOf
  <2> QED  BY <2>2, <2>3, <2>4
<1>12. ASSUME cmd \in {"sext"}
      PROVE  At("reg", 1, 7) /\ At("reg", 2, 13)
  <2>1. Template(cmd) = <<<<"reg", 1>>, <<"pad3", 0>>, <<"reg", 2>>>>
    BY <1>12, TemplateOf
  <2>2. HeadLength(cmd) = 7
    BY <1>1, <1>12, HeadIs
  <2>3. /\ At("reg", 1, HeadLength(cmd)) /\ At("pad3", 0, HeadLength(cmd) + Size("reg"))
        /\ At("reg", 2, HeadLength(cmd) + Size("reg") + Size("pad3"))
    BY <1>2, <2>1
  <2>4. HeadLength(cmd) + Size("reg") = 10 /\ HeadLength(cmd) + Size("reg") + Size("pad3") = 13
    BY <2>2, SizeOf
  <2> QED  BY <2>2, <2>3, <2>4
<1>13. ASSUME cmd \in {"addhi"}
      PROVE  At("imm7u", 2, 7) /\ At("tgt2", 1, 14)
  <2>1. Template(cmd) = <<<<"imm7u", 2>>, <<"tgt2", 1>>>>
    BY <1>13, TemplateOf
  <2>2. HeadLength(cmd) = 7
    BY <1>1, <1>13, HeadIs
  <2>3. At("imm7u", 2, HeadLength(cmd)) /\ At("tgt2", 1, HeadLength(cmd) + Size("imm7u"))
    BY <1>2, <2>1
  <2>4. HeadLength(cmd) + Size("imm7u") = 14
    BY <2>2, SizeOf
  <2> QED  BY <2>2, <2>3, <2>4
<1>14. ASSUME cmd \in OneTarget
      PROVE  At("reg", 1, 13)
  <2>1. Template(cmd) = <<<<"pad6", 0>>, <<"reg", 1>>>>
    BY <1>14, TemplateOf DEF OneTarget
  <2>2. HeadLength(cmd) = 7
    BY <1>1, <1>14, HeadIs DEF OneTarget
  <2>3. At("pad6", 0, HeadLength(cmd)) /\ At("reg", 1, HeadLength(cmd) + Size("pad6"))
    BY <1>2, <2>1
  <2>4. HeadLength(cmd) + Size("pad6") = 13
    BY <2>2, SizeOf
  <2> QED  BY <2>2, <2>3, <2>4
<1>15. ASSUME cmd \in OneSource
      PROVE  At("reg", 1, 7)
  <2>1. Template(cmd) = <<<<"reg", 1>>, <<"pad6", 0>>>>
    BY <1>15, TemplateOf DEF OneSource
  <2>2. HeadLength(cmd) = 7
    BY <1>1, <1>15, HeadIs DEF OneSource
  <2>3. At("reg", 1, HeadLength(cmd)) /\ At("pad6", 0, HeadLength(cmd) + Size("reg"))
    BY <1>2, <2>1
  <2>4. HeadLength(cmd) + Size("reg") = 10
    BY <2>2, SizeOf
  <2> QED  BY <2>2, <2>3, <2>4
<1>16. ASSUME cmd \in {"wpte"}
      PROVE  At("reg", 1, 7) /\ At("reg", 2, 10)
  <2>1. Template(cmd) = <<<<"reg", 1>>, <<"reg", 2>>, <<"pad3", 0>>>>
    BY <1>16, TemplateOf
  <2>2. HeadLength(cmd) = 7
    BY <1>1, <1>16, HeadIs
  <2>3. /\ At("reg", 1, HeadLength(cmd)) /\ At("reg", 2, HeadLength(cmd) + Size("reg"))
        /\ At("pad3", 0, HeadLength(cmd) + Size("reg") + Size("reg"))
    BY <1>2, <2>1
  <2>4. HeadLength(cmd) + Size("reg") = 10 /\ HeadLength(cmd) + Size("reg") + Size("reg") = 13
    BY <2>2, SizeOf
  <2> QED  BY <2>2, <2>3, <2>4
<1>17. ASSUME cmd \in {"lpte"}
      PROVE  At("reg", 2, 7) /\ At("reg", 1, 13)
  <2>1. Template(cmd) = <<<<"reg", 2>>, <<"pad3", 0>>, <<"reg", 1>>>>
    BY <1>17, TemplateOf
  <2>2. HeadLength(cmd) = 7
    BY <1>1, <1>17, HeadIs
  <2>3. /\ At("reg", 2, HeadLength(cmd)) /\ At("pad3", 0, HeadLength(cmd) + Size("reg"))
        /\ At("reg", 1, HeadLength(cmd) + Size("reg") + Size("pad3"))
    BY <1>2, <2>1
  <2>4. HeadLength(cmd) + Size("reg") = 10 /\ HeadLength(cmd) + Size("reg") + Size("pad3") = 13
    BY <2>2, SizeOf
  <2> QED  BY <2>2, <2>3, <2>4
<1>18. ASSUME cmd \in {"shl", "shr"}
      PROVE  At("imm4", 3, 7) /\ At("reg", 2, 11) /\ At("tgt2", 1, 14)
  <2>1. Template(cmd) = <<<<"imm4", 3>>, <<"reg", 2>>, <<"tgt2", 1>>>>
    BY <1>18, TemplateOf
  <2>2. HeadLength(cmd) = 7
    BY <1>1, <1>18, HeadIs
  <2>3. /\ At("imm4", 3, HeadLength(cmd)) /\ At("reg", 2, HeadLength(cmd) + Size("imm4"))
        /\ At("tgt2", 1, HeadLength(cmd) + Size("imm4") + Size("reg"))
    BY <1>2, <2>1
  <2>4. HeadLength(cmd) + Size("imm4") = 11 /\ HeadLength(cmd) + Size("imm4") + Size("reg") = 14
    BY <2>2, SizeOf
  <2> QED  BY <2>2, <2>3, <2>4
<1>19. ASSUME cmd \in ThreeRegisters
      PROVE  At("reg", 2, 7) /\ At("reg", 3, 10) /\ At("reg", 1, 13)
  <2>1. Template(cmd) = <<<<"reg", 2>>, <<"reg", 3>>, <<"reg", 1>>>>
    BY <1>19, TemplateOf DEF ThreeRegisters
  <2>2. HeadLength(cmd) = 7
    BY <1>1, <1>19, HeadIs DEF ThreeRegisters
  <2>3. /\ At("reg", 2, HeadLength(cmd)) /\ At("reg", 3, HeadLength(cmd) + Size("reg"))
        /\ At("reg", 1, HeadLength(cmd) + Size("reg") + Size("reg"))
    BY <1>2, <2>1
  <2>4. HeadLength(cmd) + Size("reg") = 10 /\ HeadLength(cmd) + Size("reg") + Size("reg") = 13
    BY <2>2, SizeOf
  <2> QED  BY <2>2, <2>3, <2>4
<1> QED  BY <1>3, <1>4, <1>5, <1>6, <1>7, <1>8, <1>9, <1>10, <1>11, <1>12, <1>13, <1>14, <1>15,
           <1>16, <1>17, <1>18, <1>19 DEF cmd, At

\* The meaning of every other command.
LEMMA OtherMeanings ==
    ASSUME NEW l
    PROVE  /\ l.cmd = "ldi" =>
                 OperandsOf(l) = [op |-> "ldi", tgt |-> Reg(l, 1), imm |-> Value(l, 2)]
           /\ l.cmd = "lda" =>
                 OperandsOf(l) =
                    [op |-> "ldi", tgt |-> Reg(l, 1),
                     imm |-> IF l.part = "la16" THEN Value(l, 2) % 512 ELSE Value(l, 2)]
           /\ l.cmd = "addhi" =>
                 OperandsOf(l) =
                    [op |-> "addhi", tgt2 |-> Reg(l, 1),
                     imm |-> IF l.part = "la16" THEN (Value(l, 2) \div 512) * 512
                             ELSE Value(l, 2) * 512]
           /\ l.cmd = "br" => OperandsOf(l) = [op |-> "br", imm |-> Value(l, 1)]
           /\ l.cmd \in {"stw0", "stb0"} => OperandsOf(l) = [op |-> l.cmd, imm |-> Value(l, 1)]
           /\ l.cmd \in {"stw.b", "stb.b"} => OperandsOf(l) = Stored(l.cmd, l)
           /\ l.cmd = "mov" =>
                 OperandsOf(l) = [op |-> "add", tgt |-> Reg(l, 1), arg0 |-> Reg(l, 2), arg1 |-> 0]
           /\ l.cmd = "skip" =>
                 OperandsOf(l) = [op |-> "skip", arg0 |-> Reg(l, 1), arg1 |-> Reg(l, 2),
                                  tgt |-> Number(l.args[3].name, COND)]
           /\ l.cmd \in AluImm \cup Addskpi =>
                 OperandsOf(l) = [op |-> l.cmd, tgt |-> Reg(l, 1), arg1 |-> Reg(l, 2),
                                  imm |-> Value(l, 3)]
           /\ l.cmd = "sext" =>
                 OperandsOf(l) = [op |-> "sext", arg0 |-> Reg(l, 1), tgt |-> Reg(l, 2)]
           /\ l.cmd \in OneSource => OperandsOf(l) = [op |-> l.cmd, arg0 |-> Reg(l, 1)]
           /\ l.cmd \in OneTarget => OperandsOf(l) = [op |-> l.cmd, tgt |-> Reg(l, 1)]
           /\ l.cmd = "wpte" =>
                 OperandsOf(l) = [op |-> "wpte", arg0 |-> Reg(l, 1), arg1 |-> Reg(l, 2)]
           /\ l.cmd = "lpte" =>
                 OperandsOf(l) = [op |-> "lpte", arg0 |-> Reg(l, 2), tgt |-> Reg(l, 1)]
           /\ l.cmd \in {"shl", "shr"} =>
                 OperandsOf(l) = [op |-> l.cmd, tgt2 |-> Reg(l, 1), arg2 |-> Reg(l, 2),
                                  imm |-> Value(l, 3)]
           /\ l.cmd \in ThreeRegisters => OperandsOf(l) = Three(l.cmd, l)
<1> USE DEF AluImm, Addskpi, OneSource, OneTarget, ThreeRegisters
<1>1. ASSUME l.cmd \in {"ldi", "lda", "addhi", "br"}
      PROVE  OperandsOf(l) =
                CASE l.cmd = "ldi" -> [op |-> "ldi", tgt |-> Reg(l, 1), imm |-> Value(l, 2)]
                  [] l.cmd = "lda" ->
                       [op |-> "ldi", tgt |-> Reg(l, 1),
                        imm |-> IF l.part = "la16" THEN Value(l, 2) % 512 ELSE Value(l, 2)]
                  [] l.cmd = "addhi" ->
                       [op |-> "addhi", tgt2 |-> Reg(l, 1),
                        imm |-> IF l.part = "la16" THEN (Value(l, 2) \div 512) * 512
                                ELSE Value(l, 2) * 512]
                  [] l.cmd = "br" -> [op |-> "br", imm |-> Value(l, 1)]
  BY <1>1 DEF OperandsOf
<1>2. ASSUME l.cmd \in {"stw0", "stb0"} PROVE OperandsOf(l) = [op |-> l.cmd, imm |-> Value(l, 1)]
  BY <1>2 DEF OperandsOf
<1>3. ASSUME l.cmd \in {"stw.b", "stb.b"} PROVE OperandsOf(l) = Stored(l.cmd, l)
  BY <1>3 DEF OperandsOf
<1>4. ASSUME l.cmd = "mov"
      PROVE  OperandsOf(l) = [op |-> "add", tgt |-> Reg(l, 1), arg0 |-> Reg(l, 2), arg1 |-> 0]
  BY <1>4 DEF OperandsOf
<1>5. ASSUME l.cmd = "skip"
      PROVE  OperandsOf(l) = [op |-> "skip", arg0 |-> Reg(l, 1), arg1 |-> Reg(l, 2),
                              tgt |-> Number(l.args[3].name, COND)]
  BY <1>5 DEF OperandsOf
<1>6. ASSUME l.cmd \in AluImm \cup Addskpi
      PROVE  OperandsOf(l) = [op |-> l.cmd, tgt |-> Reg(l, 1), arg1 |-> Reg(l, 2),
                              imm |-> Value(l, 3)]
  BY <1>6 DEF OperandsOf
<1>7. ASSUME l.cmd = "sext"
      PROVE  OperandsOf(l) = [op |-> "sext", arg0 |-> Reg(l, 1), tgt |-> Reg(l, 2)]
  BY <1>7 DEF OperandsOf
<1>8. ASSUME l.cmd \in OneSource PROVE OperandsOf(l) = [op |-> l.cmd, arg0 |-> Reg(l, 1)]
  BY <1>8 DEF OperandsOf
<1>9. ASSUME l.cmd \in OneTarget PROVE OperandsOf(l) = [op |-> l.cmd, tgt |-> Reg(l, 1)]
  BY <1>9 DEF OperandsOf
<1>10. ASSUME l.cmd = "wpte"
       PROVE  OperandsOf(l) = [op |-> "wpte", arg0 |-> Reg(l, 1), arg1 |-> Reg(l, 2)]
  BY <1>10 DEF OperandsOf
<1>11. ASSUME l.cmd = "lpte"
       PROVE  OperandsOf(l) = [op |-> "lpte", arg0 |-> Reg(l, 2), tgt |-> Reg(l, 1)]
  BY <1>11 DEF OperandsOf
<1>12. ASSUME l.cmd \in {"shl", "shr"}
       PROVE  OperandsOf(l) = [op |-> l.cmd, tgt2 |-> Reg(l, 1), arg2 |-> Reg(l, 2),
                               imm |-> Value(l, 3)]
  BY <1>12 DEF OperandsOf
<1>13. ASSUME l.cmd \in ThreeRegisters PROVE OperandsOf(l) = Three(l.cmd, l)
  BY <1>13 DEF OperandsOf
<1> QED  BY <1>1, <1>2, <1>3, <1>4, <1>5, <1>6, <1>7, <1>8, <1>9, <1>10, <1>11, <1>12, <1>13

\* The immediate in the view of an operation.
LEMMA ViewImmediates ==
    ASSUME NEW w \in Nat, w < 65536, NEW op
    PROVE  LET imm == View(op, w).imm
           IN  /\ op = "ldi" => imm = TwosComplement(Cut_(w, 8, 1024), 512) % 65536
               /\ op = "br" => imm = TwosComplement(Cut_(w, 1, 8192), 4096) % 65536
               /\ op \in BaseBP => imm = TwosComplement(Cut_(w, 4, 128), 64) % 65536
               /\ op \in AluImm \cup Addskpi => imm = IRtable[Cut_(w, 64, 8) + 1] % 65536
               /\ op = "addhi" => imm = (Cut_(w, 4, 128) * 512) % 65536
               /\ op \in {"shl", "shr"} => imm = Cut_(w, 32, 16) % 65536
<1>1. View(op, w).imm = FsimImm(FsimDecode(w), op) % 65536
  BY DEF View
<1> QED  BY <1>1, FsimImmediates

\* The operands in the view of an operation.
LEMMA ViewOperands ==
    ASSUME NEW w, NEW op
    PROVE  /\ View(op, w).op = op /\ View(op, w).arg0 = Cut_(w, 64, 8)
           /\ View(op, w).arg1 = Cut_(w, 8, 8) /\ View(op, w).arg2 = Cut_(w, 4, 8)
           /\ View(op, w).tgt = Cut_(w, 1, 8) /\ View(op, w).tgt2 = Cut_(w, 1, 4) + 1
  BY DEF View

\* An argument that is written as it stands is what the view of the word has
\* where the template of the command puts it.
LEMMA ArgumentSeen ==
    ASSUME NEW l, NEW w \in Nat, w < 65536, NEW op, NEW n \in 1 .. 3,
           n # 2 \/ l.cmd \notin {"lda", "addhi"}
    PROVE  LET v == View(op, w)
               At(kind, from) == StandsAt(l, w, kind, n, from)
           IN  /\ At("reg", 7) => v.arg0 = Reg(l, n)
               /\ At("reg", 10) => v.arg1 = Reg(l, n)
               /\ At("reg", 11) => v.arg2 = Reg(l, n)
               /\ At("reg", 13) => v.tgt = Reg(l, n)
               /\ At("cond", 13) => v.tgt = Number(l.args[n].name, COND)
               /\ At("tgt2", 14) => v.tgt2 = Reg(l, n)
               /\ At("immir", 7) /\ op \in AluImm \cup Addskpi => v.imm = Value(l, n)
               /\ At("imm4", 7) /\ op \in {"shl", "shr"} => v.imm = Value(l, n)
               /\ At("imm7", 7) /\ op \in BaseBP => v.imm = Value(l, n)
               /\ At("imm10", 3) /\ op = "ldi" => v.imm = Value(l, n)
               /\ At("imm13br", 3) /\ op = "br" => v.imm = Value(l, n)
<1> DEFINE v == View(op, w)
           At(kind, from) == StandsAt(l, w, kind, n, from)
           a == l.args[n]
<1>1. Argument(l, n) = a
  BY PlainArgument
<1>2. Reg(l, n) = RegNumber(a) /\ Value(l, n) = a.val % 65536
  BY DEF Reg, Value
<1>3. /\ At("reg", 7) => Cut_(w, 64, 8) = RegNumber(a)
      /\ At("reg", 10) => Cut_(w, 8, 8) = RegNumber(a)
      /\ At("reg", 11) => Cut_(w, 4, 8) = RegNumber(a)
      /\ At("reg", 13) => Cut_(w, 1, 8) = RegNumber(a)
      /\ At("cond", 13) => Cut_(w, 1, 8) = Number(a.name, COND)
      /\ At("immir", 7) => IRtable[Cut_(w, 64, 8) + 1] = a.val
      /\ At("tgt2", 14) => Cut_(w, 1, 4) + 1 = RegNumber(a)
      /\ At("imm4", 7) => Cut_(w, 32, 16) = a.val
      /\ At("imm7", 7) => TwosComplement(Cut_(w, 4, 128), 64) = a.val
      /\ At("imm10", 3) => TwosComplement(Cut_(w, 8, 1024), 512) = a.val
      /\ At("imm13br", 3) => TwosComplement(Cut_(w, 1, 8192), 4096) = a.val
  BY <1>1, LaidRead
<1> HIDE DEF a
<1>4. /\ op = "ldi" => v.imm = TwosComplement(Cut_(w, 8, 1024), 512) % 65536
      /\ op = "br" => v.imm = TwosComplement(Cut_(w, 1, 8192), 4096) % 65536
      /\ op \in BaseBP => v.imm = TwosComplement(Cut_(w, 4, 128), 64) % 65536
      /\ op \in AluImm \cup Addskpi => v.imm = IRtable[Cut_(w, 64, 8) + 1] % 65536
      /\ op \in {"shl", "shr"} => v.imm = Cut_(w, 32, 16) % 65536
  BY ViewImmediates
<1>5. /\ v.arg0 = Cut_(w, 64, 8) /\ v.arg1 = Cut_(w, 8, 8) /\ v.arg2 = Cut_(w, 4, 8)
      /\ v.tgt = Cut_(w, 1, 8) /\ v.tgt2 = Cut_(w, 1, 4) + 1
  BY ViewOperands
<1> HIDE DEF v, At
<1>6. /\ At("reg", 7) => v.arg0 = Reg(l, n)
      /\ At("reg", 10) => v.arg1 = Reg(l, n)
      /\ At("reg", 11) => v.arg2 = Reg(l, n)
      /\ At("reg", 13) => v.tgt = Reg(l, n)
      /\ At("cond", 13) => v.tgt = Number(l.args[n].name, COND)
      /\ At("tgt2", 14) => v.tgt2 = Reg(l, n)
  BY <1>2, <1>3, <1>5 DEF a
<1>7. At("immir", 7) /\ op \in AluImm \cup Addskpi => v.imm = Value(l, n)
  BY <1>2, <1>3, <1>4
<1>8. At("imm4", 7) /\ op \in {"shl", "shr"} => v.imm = Value(l, n)
  BY <1>2, <1>3, <1>4
<1>9. At("imm7", 7) /\ op \in BaseBP => v.imm = Value(l, n)
  BY <1>2, <1>3, <1>4
<1>10. At("imm10", 3) /\ op = "ldi" => v.imm = Value(l, n)
  BY <1>2, <1>3, <1>4
<1>11. At("imm13br", 3) /\ op = "br" => v.imm = Value(l, n)
  BY <1>2, <1>3, <1>4
<1> QED  BY <1>6, <1>7, <1>8, <1>9, <1>10, <1>11 DEF v, At

\* The commands by what they do with their arguments.
LEMMA AlmostAllCommands ==
    ASSUME NEW cmd \in AllCommands
    PROVE  \/ cmd \in {"ldi", "br", "ldw", "ldb", "stw", "stb", "stw0", "stb0", "stw.b", "stb.b",
                       "skip", "sext", "wpte", "lpte", "shl", "shr", "lda", "mov", "addhi"}
           \/ cmd \in AluImm \cup Addskpi \/ cmd \in OneSource \/ cmd \in OneTarget
           \/ cmd \in ThreeRegisters
           \/ cmd \in {"nop", "hlt", "syscall", "reti", "brk", "rsi"}
  BY DEF AllCommands, AluImm, Addskpi, OneSource, OneTarget, ThreeRegisters

\* Other commands than loads and stores stand for themselves.
LEMMA SameCommand ==
    ASSUME NEW l, l.cmd \notin {"ldw", "ldb", "stw", "stb"}
    PROVE  Command(l) = l.cmd
  BY DEF Command

\* Other commands than lda and mov are operations.
LEMMA SameName ==
    ASSUME NEW cmd, cmd \notin {"lda", "mov"}
    PROVE  NameOf(cmd) = cmd
  BY DEF NameOf

\* The operands of a command with nothing special arrive.
LEMMA PlainMeanings ==
    ASSUME NEW l, NEW w, WrittenAs(l, w), l.cmd \notin {"ldw", "ldb", "stw", "stb"}
    PROVE  LET seen == Carries(View(NameOf(Command(l)), w), OperandsOf(l))
           IN
           /\ l.cmd = "ldi" => seen
           /\ l.cmd = "br" => seen
           /\ l.cmd \in {"stw0", "stb0"} => seen
           /\ l.cmd \in {"stw.b", "stb.b"} => seen
           /\ l.cmd = "skip" => seen
           /\ l.cmd \in AluImm \cup Addskpi => seen
           /\ l.cmd = "sext" => seen
           /\ l.cmd \in OneSource => seen
           /\ l.cmd \in OneTarget => seen
           /\ l.cmd = "wpte" => seen
           /\ l.cmd = "lpte" => seen
           /\ l.cmd \in {"shl", "shr"} => seen
           /\ l.cmd \in ThreeRegisters => seen
<1> DEFINE op == l.cmd
           v == View(op, w)
           At(kind, n, from) == StandsAt(l, w, kind, n, from)
<1>1. w \in Nat /\ w < 65536
  BY DEF WrittenAs
<1>2. Command(l) = op
  BY SameCommand
<1>3. v.op = op
  BY ViewOperands
<1>4. ASSUME NEW n \in 1 .. 3, op \notin {"lda", "addhi"}
      PROVE  /\ At("reg", n, 7) => v.arg0 = Reg(l, n)
             /\ At("reg", n, 10) => v.arg1 = Reg(l, n)
             /\ At("reg", n, 11) => v.arg2 = Reg(l, n)
             /\ At("reg", n, 13) => v.tgt = Reg(l, n)
             /\ At("cond", n, 13) => v.tgt = Number(l.args[n].name, COND)
             /\ At("tgt2", n, 14) => v.tgt2 = Reg(l, n)
             /\ At("immir", n, 7) /\ op \in AluImm \cup Addskpi => v.imm = Value(l, n)
             /\ At("imm4", n, 7) /\ op \in {"shl", "shr"} => v.imm = Value(l, n)
             /\ At("imm7", n, 7) /\ op \in BaseBP => v.imm = Value(l, n)
             /\ At("imm10", n, 3) /\ op = "ldi" => v.imm = Value(l, n)
             /\ At("imm13br", n, 3) /\ op = "br" => v.imm = Value(l, n)
  BY <1>1, <1>4, ArgumentSeen
<1>5. 1 \in 1 .. 3 /\ 2 \in 1 .. 3 /\ 3 \in 1 .. 3
  OBVIOUS
<1> HIDE DEF v, At
<1>6. /\ op = "ldi" => At("reg", 1, 13) /\ At("imm10", 2, 3)
      /\ op = "br" => At("imm13br", 1, 3)
      /\ op \in {"stw0", "stb0"} => At("imm7", 1, 7)
      /\ op \in {"stw.b", "stb.b"} => At("reg", 1, 7) /\ At("reg", 2, 10) /\ At("reg", 3, 13)
      /\ op = "skip" => At("reg", 1, 7) /\ At("reg", 2, 10) /\ At("cond", 3, 13)
      /\ op \in AluImm \cup Addskpi => At("reg", 1, 13) /\ At("reg", 2, 10) /\ At("immir", 3, 7)
      /\ op = "sext" => At("reg", 1, 7) /\ At("reg", 2, 13)
      /\ op \in OneSource => At("reg", 1, 7)
      /\ op \in OneTarget => At("reg", 1, 13)
      /\ op = "wpte" => At("reg", 1, 7) /\ At("reg", 2, 10)
      /\ op = "lpte" => At("reg", 2, 7) /\ At("reg", 1, 13)
      /\ op \in {"shl", "shr"} => At("tgt2", 1, 14) /\ At("reg", 2, 11) /\ At("imm4", 3, 7)
      /\ op \in ThreeRegisters => At("reg", 1, 13) /\ At("reg", 2, 7) /\ At("reg", 3, 10)
  BY <1>2, Layout DEF At
<1>7. ASSUME op = "ldi" PROVE Carries(v, OperandsOf(l)) /\ NameOf(op) = op
  <2>1. op \notin {"lda", "mov", "addhi"}
    BY <1>7
  <2>2. v.tgt = Reg(l, 1) /\ v.imm = Value(l, 2)
    BY <1>5, <1>6, <1>4, <2>1, <1>7
  <2>3. OperandsOf(l) = [op |-> op, tgt |-> Reg(l, 1), imm |-> Value(l, 2)]
    BY <1>7, OtherMeanings
  <2>4. Carries(v, OperandsOf(l))
    BY <1>3, <2>2, <2>3 DEF Carries
  <2> QED  BY <2>1, <2>4, SameName
<1>8. ASSUME op = "br" PROVE Carries(v, OperandsOf(l)) /\ NameOf(op) = op
  <2>1. op \notin {"lda", "mov", "addhi"}
    BY <1>8
  <2>2. v.imm = Value(l, 1)
    BY <1>5, <1>6, <1>4, <2>1, <1>8
  <2>3. OperandsOf(l) = [op |-> op, imm |-> Value(l, 1)]
    BY <1>8, OtherMeanings
  <2>4. Carries(v, OperandsOf(l))
    BY <1>3, <2>2, <2>3 DEF Carries
  <2> QED  BY <2>1, <2>4, SameName
<1>9. ASSUME op \in {"stw0", "stb0"} PROVE Carries(v, OperandsOf(l)) /\ NameOf(op) = op
  <2>1. op \notin {"lda", "mov", "addhi"}
    BY <1>9 DEF BaseBP
  <2>2. v.imm = Value(l, 1)
    BY <1>5, <1>6, <1>4, <2>1, <1>9 DEF BaseBP
  <2>3. OperandsOf(l) = [op |-> op, imm |-> Value(l, 1)]
    BY <1>9, OtherMeanings
  <2>4. Carries(v, OperandsOf(l))
    BY <1>3, <2>2, <2>3 DEF Carries
  <2> QED  BY <2>1, <2>4, SameName
<1>10. ASSUME op \in {"stw.b", "stb.b"} PROVE Carries(v, OperandsOf(l)) /\ NameOf(op) = op
  <2>1. op \notin {"lda", "mov", "addhi"}
    BY <1>10
  <2>2. v.arg0 = Reg(l, 1) /\ v.arg1 = Reg(l, 2) /\ v.tgt = Reg(l, 3)
    BY <1>5, <1>6, <1>4, <2>1, <1>10
  <2>3. OperandsOf(l) = [op |-> op, arg0 |-> Reg(l, 1), arg1 |-> Reg(l, 2), tgt |-> Reg(l, 3)]
    BY <1>10, OtherMeanings DEF Stored
  <2>4. Carries(v, OperandsOf(l))
    BY <1>3, <2>2, <2>3 DEF Carries
  <2> QED  BY <2>1, <2>4, SameName
<1>11. ASSUME op = "skip" PROVE Carries(v, OperandsOf(l)) /\ NameOf(op) = op
  <2>1. op \notin {"lda", "mov", "addhi"}
    BY <1>11
  <2>2. v.arg0 = Reg(l, 1) /\ v.arg1 = Reg(l, 2) /\ v.tgt = Number(l.args[3].name, COND)
    BY <1>5, <1>6, <1>4, <2>1, <1>11
  <2>3. OperandsOf(l) = [op |-> op, arg0 |-> Reg(l, 1), arg1 |-> Reg(l, 2),
                        tgt |-> Number(l.args[3].name, COND)]
    BY <1>11, OtherMeanings
  <2>4. Carries(v, OperandsOf(l))
    BY <1>3, <2>2, <2>3 DEF Carries
  <2> QED  BY <2>1, <2>4, SameName
<1>12. ASSUME op \in AluImm \cup Addskpi PROVE Carries(v, OperandsOf(l)) /\ NameOf(op) = op
  <2>1. op \notin {"lda", "mov", "addhi"}
    BY <1>12 DEF AluImm, Addskpi
  <2>2. v.tgt = Reg(l, 1) /\ v.arg1 = Reg(l, 2) /\ v.imm = Value(l, 3)
    BY <1>5, <1>6, <1>4, <2>1, <1>12
  <2>3. OperandsOf(l) = [op |-> op, tgt |-> Reg(l, 1), arg1 |-> Reg(l, 2), imm |-> Value(l, 3)]
    BY <1>12, OtherMeanings
  <2>4. Carries(v, OperandsOf(l))
    BY <1>3, <2>2, <2>3 DEF Carries
  <2> QED  BY <2>1, <2>4, SameName
<1>13. ASSUME op = "sext" PROVE Carries(v, OperandsOf(l)) /\ NameOf(op) = op
  <2>1. op \notin {"lda", "mov", "addhi"}
    BY <1>13
  <2>2. v.arg0 = Reg(l, 1) /\ v.tgt = Reg(l, 2)
    BY <1>5, <1>6, <1>4, <2>1, <1>13
  <2>3. OperandsOf(l) = [op |-> op, arg0 |-> Reg(l, 1), tgt |-> Reg(l, 2)]
    BY <1>13, OtherMeanings
  <2>4. Carries(v, OperandsOf(l))
    BY <1>3, <2>2, <2>3 DEF Carries
  <2> QED  BY <2>1, <2>4, SameName
<1>14. ASSUME op \in OneSource PROVE Carries(v, OperandsOf(l)) /\ NameOf(op) = op
  <2>1. op \notin {"lda", "mov", "addhi"}
    BY <1>14 DEF OneSource
  <2>2. v.arg0 = Reg(l, 1)
    BY <1>5, <1>6, <1>4, <2>1, <1>14
  <2>3. OperandsOf(l) = [op |-> op, arg0 |-> Reg(l, 1)]
    BY <1>14, OtherMeanings
  <2>4. Carries(v, OperandsOf(l))
    BY <1>3, <2>2, <2>3 DEF Carries
  <2> QED  BY <2>1, <2>4, SameName
<1>15. ASSUME op \in OneTarget PROVE Carries(v, OperandsOf(l)) /\ NameOf(op) = op
  <2>1. op \notin {"lda", "mov", "addhi"}
    BY <1>15 DEF OneTarget
  <2>2. v.tgt = Reg(l, 1)
    BY <1>5, <1>6, <1>4, <2>1, <1>15
  <2>3. OperandsOf(l) = [op |-> op, tgt |-> Reg(l, 1)]
    BY <1>15, OtherMeanings
  <2>4. Carries(v, OperandsOf(l))
    BY <1>3, <2>2, <2>3 DEF Carries
  <2> QED  BY <2>1, <2>4, SameName
<1>16. ASSUME op = "wpte" PROVE Carries(v, OperandsOf(l)) /\ NameOf(op) = op
  <2>1. op \notin {"lda", "mov", "addhi"}
    BY <1>16
  <2>2. v.arg0 = Reg(l, 1) /\ v.arg1 = Reg(l, 2)
    BY <1>5, <1>6, <1>4, <2>1, <1>16
  <2>3. OperandsOf(l) = [op |-> op, arg0 |-> Reg(l, 1), arg1 |-> Reg(l, 2)]
    BY <1>16, OtherMeanings
  <2>4. Carries(v, OperandsOf(l))
    BY <1>3, <2>2, <2>3 DEF Carries
  <2> QED  BY <2>1, <2>4, SameName
<1>17. ASSUME op = "lpte" PROVE Carries(v, OperandsOf(l)) /\ NameOf(op) = op
  <2>1. op \notin {"lda", "mov", "addhi"}
    BY <1>17
  <2>2. v.arg0 = Reg(l, 2) /\ v.tgt = Reg(l, 1)
    BY <1>5, <1>6, <1>4, <2>1, <1>17
  <2>3. OperandsOf(l) = [op |-> op, arg0 |-> Reg(l, 2), tgt |-> Reg(l, 1)]
    BY <1>17, OtherMeanings
  <2>4. Carries(v, OperandsOf(l))
    BY <1>3, <2>2, <2>3 DEF Carries
  <2> QED  BY <2>1, <2>4, SameName
<1>18. ASSUME op \in {"shl", "shr"} PROVE Carries(v, OperandsOf(l)) /\ NameOf(op) = op
  <2>1. op \notin {"lda", "mov", "addhi"}
    BY <1>18
  <2>2. v.tgt2 = Reg(l, 1) /\ v.arg2 = Reg(l, 2) /\ v.imm = Value(l, 3)
    BY <1>5, <1>6, <1>4, <2>1, <1>18
  <2>3. OperandsOf(l) = [op |-> op, tgt2 |-> Reg(l, 1), arg2 |-> Reg(l, 2), imm |-> Value(l, 3)]
    BY <1>18, OtherMeanings
  <2>4. Carries(v, OperandsOf(l))
    BY <1>3, <2>2, <2>3 DEF Carries
  <2> QED  BY <2>1, <2>4, SameName
<1>19. ASSUME op \in ThreeRegisters PROVE Carries(v, OperandsOf(l)) /\ NameOf(op) = op
  <2>1. op \notin {"lda", "mov", "addhi"}
    BY <1>19 DEF ThreeRegisters
  <2>2. v.tgt = Reg(l, 1) /\ v.arg0 = Reg(l, 2) /\ v.arg1 = Reg(l, 3)
    BY <1>5, <1>6, <1>4, <2>1, <1>19
  <2>3. OperandsOf(l) = [op |-> op, tgt |-> Reg(l, 1), arg0 |-> Reg(l, 2), arg1 |-> Reg(l, 3)]
    BY <1>19, OtherMeanings DEF Three
  <2>4. Carries(v, OperandsOf(l))
    BY <1>3, <2>2, <2>3 DEF Carries
  <2> QED  BY <2>1, <2>4, SameName
<1> QED  BY <1>2, <1>7, <1>8, <1>9, <1>10, <1>11, <1>12, <1>13, <1>14, <1>15, <1>16, <1>17, <1>18,
           <1>19 DEF v

\* The operands of a load arrive.
LEMMA LoadArrives ==
    ASSUME NEW l, NEW w, WrittenAs(l, w), l.cmd \in {"ldw", "ldb"}
    PROVE  Carries(View(NameOf(Command(l)), w), OperandsOf(l))
<1> DEFINE op == Command(l)
           v == View(op, w)
           At(kind, n, from) == StandsAt(l, w, kind, n, from)
<1>1. w \in Nat /\ w < 65536
  BY DEF WrittenAs
<1>2. v.op = op
  BY ViewOperands
<1>3. ASSUME NEW n \in 1 .. 3
      PROVE  /\ At("reg", n, 7) => v.arg0 = Reg(l, n)
             /\ At("reg", n, 10) => v.arg1 = Reg(l, n)
             /\ At("reg", n, 13) => v.tgt = Reg(l, n)
             /\ At("tgt2", n, 14) => v.tgt2 = Reg(l, n)
             /\ At("imm7", n, 7) /\ op \in BaseBP => v.imm = Value(l, n)
  <2>1. l.cmd \notin {"lda", "addhi"}
    OBVIOUS
  <2> QED  BY <1>1, <2>1, ArgumentSeen
<1>4. 1 \in 1 .. 3 /\ 2 \in 1 .. 3 /\ 3 \in 1 .. 3
  OBVIOUS
<1>5. /\ op \in {"ldw", "ldb"} => At("imm7", 2, 7) /\ At("tgt2", 1, 14)
      /\ op \in ThreeRegisters => At("reg", 2, 7) /\ At("reg", 3, 10) /\ At("reg", 1, 13)
  BY Layout
<1>6. \/ /\ op \in {"ldw", "ldb"}
         /\ OperandsOf(l) = [op |-> op, tgt2 |-> Reg(l, 1), imm |-> Value(l, 2)]
      \/ op \in {"ldw.b", "ldb.b"} /\ OperandsOf(l) = Three(op, l)
  BY LoadMeaning
<1> HIDE DEF v, At, op
<1>7. ASSUME op \in {"ldw", "ldb"},
             OperandsOf(l) = [op |-> op, tgt2 |-> Reg(l, 1), imm |-> Value(l, 2)]
      PROVE  Carries(v, OperandsOf(l))
  <2>1. op \in BaseBP
    BY <1>7 DEF BaseBP
  <2>2. v.tgt2 = Reg(l, 1) /\ v.imm = Value(l, 2)
    BY <1>3, <1>4, <1>5, <1>7, <2>1
  <2> QED  BY <1>2, <1>7, <2>2 DEF Carries
<1>8. ASSUME op \in {"ldw.b", "ldb.b"}, OperandsOf(l) = Three(op, l)
      PROVE  Carries(v, OperandsOf(l))
  <2>1. op \in ThreeRegisters
    BY <1>8 DEF ThreeRegisters
  <2>2. v.arg0 = Reg(l, 2) /\ v.arg1 = Reg(l, 3) /\ v.tgt = Reg(l, 1)
    BY <1>3, <1>4, <1>5, <2>1
  <2>3. OperandsOf(l) = [op |-> op, tgt |-> Reg(l, 1), arg0 |-> Reg(l, 2), arg1 |-> Reg(l, 3)]
    BY <1>8 DEF Three
  <2> QED  BY <1>2, <2>2, <2>3 DEF Carries
<1>9. NameOf(op) = op
  <2>1. op \notin {"lda", "mov"}
    BY <1>6
  <2> QED  BY <2>1, SameName
<1> QED  BY <1>6, <1>7, <1>8, <1>9 DEF v, op

\* The operands of a store arrive.
LEMMA StoreArrives ==
    ASSUME NEW l, NEW w, WrittenAs(l, w), l.cmd \in {"stw", "stb"}
    PROVE  Carries(View(NameOf(Command(l)), w), OperandsOf(l))
<1> DEFINE op == Command(l)
           v == View(op, w)
           At(kind, n, from) == StandsAt(l, w, kind, n, from)
<1>1. w \in Nat /\ w < 65536
  BY DEF WrittenAs
<1>2. v.op = op
  BY ViewOperands
<1>3. ASSUME NEW n \in 1 .. 3
      PROVE  /\ At("reg", n, 7) => v.arg0 = Reg(l, n)
             /\ At("reg", n, 10) => v.arg1 = Reg(l, n)
             /\ At("reg", n, 13) => v.tgt = Reg(l, n)
             /\ At("tgt2", n, 14) => v.tgt2 = Reg(l, n)
             /\ At("imm7", n, 7) /\ op \in BaseBP => v.imm = Value(l, n)
  <2>1. l.cmd \notin {"lda", "addhi"}
    OBVIOUS
  <2> QED  BY <1>1, <2>1, ArgumentSeen
<1>4. 1 \in 1 .. 3 /\ 2 \in 1 .. 3 /\ 3 \in 1 .. 3
  OBVIOUS
<1>5. /\ op \in {"stw", "stb"} => At("imm7", 1, 7) /\ At("tgt2", 3, 14)
      /\ op \in {"stw0", "stb0"} => At("imm7", 1, 7)
      /\ op \in {"stw.b", "stb.b"} => At("reg", 1, 7) /\ At("reg", 2, 10) /\ At("reg", 3, 13)
  BY Layout
<1>6. \/ op \in {"stw0", "stb0"} /\ OperandsOf(l) = [op |-> op, imm |-> Value(l, 1)]
      \/ /\ op \in {"stw", "stb"}
         /\ OperandsOf(l) = [op |-> op, tgt2 |-> Reg(l, 3), imm |-> Value(l, 1)]
      \/ op \in {"stw.b", "stb.b"} /\ OperandsOf(l) = Stored(op, l)
  BY StoreMeaning
<1> HIDE DEF v, At, op
<1>7. ASSUME op \in {"stw0", "stb0"}, OperandsOf(l) = [op |-> op, imm |-> Value(l, 1)]
      PROVE  Carries(v, OperandsOf(l))
  <2>1. op \in BaseBP
    BY <1>7 DEF BaseBP
  <2>2. v.imm = Value(l, 1)
    BY <1>3, <1>4, <1>5, <1>7, <2>1
  <2> QED  BY <1>2, <1>7, <2>2 DEF Carries
<1>8. ASSUME op \in {"stw", "stb"},
             OperandsOf(l) = [op |-> op, tgt2 |-> Reg(l, 3), imm |-> Value(l, 1)]
      PROVE  Carries(v, OperandsOf(l))
  <2>1. op \in BaseBP
    BY <1>8 DEF BaseBP
  <2>2. v.tgt2 = Reg(l, 3) /\ v.imm = Value(l, 1)
    BY <1>3, <1>4, <1>5, <1>8, <2>1
  <2> QED  BY <1>2, <1>8, <2>2 DEF Carries
<1>9. ASSUME op \in {"stw.b", "stb.b"}, OperandsOf(l) = Stored(op, l)
      PROVE  Carries(v, OperandsOf(l))
  <2>1. v.arg0 = Reg(l, 1) /\ v.arg1 = Reg(l, 2) /\ v.tgt = Reg(l, 3)
    BY <1>3, <1>4, <1>5, <1>9
  <2>2. OperandsOf(l) = [op |-> op, arg0 |-> Reg(l, 1), arg1 |-> Reg(l, 2), tgt |-> Reg(l, 3)]
    BY <1>9 DEF Stored
  <2> QED  BY <1>2, <2>1, <2>2 DEF Carries
<1>10. NameOf(op) = op
  <2>1. op \notin {"lda", "mov"}
    BY <1>6
  <2> QED  BY <2>1, SameName
<1> QED  BY <1>6, <1>7, <1>8, <1>9, <1>10 DEF v, op

\* A mov is an addition of r0, whose number is the padding.
LEMMA MovArrives ==
    ASSUME NEW l, NEW w, WrittenAs(l, w), l.cmd = "mov"
    PROVE  Carries(View(NameOf(Command(l)), w), OperandsOf(l))
<1> DEFINE v == View("add", w)
<1>1. w \in Nat /\ w < 65536
  BY DEF WrittenAs
<1>2. Command(l) = "mov" /\ NameOf("mov") = "add"
  BY SameCommand DEF NameOf
<1>3. v.op = "add" /\ v.arg1 = Cut_(w, 8, 8)
  BY ViewOperands
<1>4. StandsAt(l, w, "reg", 2, 7) /\ StandsAt(l, w, "reg", 1, 13)
  BY <1>2, Layout
<1>5. 1 \in 1 .. 3 /\ 2 \in 1 .. 3 /\ l.cmd \notin {"lda", "addhi"}
  OBVIOUS
<1>6. v.arg0 = Reg(l, 2) /\ v.tgt = Reg(l, 1)
  BY <1>1, <1>4, <1>5, ArgumentSeen
<1>7. Cut_(w, 8, 8) = 0
  <2> DEFINE t == Template(Command(l))
  <2>1. t = <<<<"reg", 2>>, <<"pad3", 0>>, <<"reg", 1>>>>
    BY <1>2, TemplateOf
  <2>2. 1 \in DOMAIN t /\ 2 \in DOMAIN t /\ t[1][1] = "reg" /\ t[2][1] = "pad3" /\ t[2][2] = 0
    BY <2>1
  <2> HIDE DEF t
  <2>3. FieldSize(l, 1) = 3 /\ FieldSize(l, 2) = 3
    BY <2>2, SizeOf DEF FieldSize, t
  <2>4. FieldDigits(l, 2) = Dec2bin(0, 3)
    BY <2>2 DEF FieldDigits, Padding, t
  <2>5. HeadLength("mov") = 7
    <3>1. "mov" \in Commands
      BY DEF Commands
    <3> QED  BY <3>1, HeadIs
  <2>6. Offset(l, 2) = 10
    BY <1>2, <2>3, <2>5 DEF Offset
  <2>7. Field(Dec2bin(w, 16), Offset(l, 2), FieldSize(l, 2)) = FieldDigits(l, 2)
    BY <1>5, LineArrives
  <2>8. Field(Dec2bin(w, 16), 10, 3) = Dec2bin(0, 3)
    BY <2>3, <2>4, <2>6, <2>7
  <2>9. Bin2dec(Dec2bin(0, 3)) = 0
    <3>1. InDigits(0, 3)
      <4>1. 0 \in 0 .. 7
        OBVIOUS
      <4> QED  BY <4>1, SmallInDigits
    <3> QED  BY <3>1, DigitsOf
  <2>10. Bin2dec(Field(Dec2bin(w, 16), 10, 3)) = Cut_(w, 8, 8)
    BY <1>1, PartsOfWord DEF PartIsCut
  <2> QED  BY <2>8, <2>9, <2>10
<1>8. OperandsOf(l) = [op |-> "add", tgt |-> Reg(l, 1), arg0 |-> Reg(l, 2), arg1 |-> 0]
  BY OtherMeanings
<1> HIDE DEF v
<1>9. Carries(v, OperandsOf(l))
  BY <1>3, <1>6, <1>7, <1>8 DEF Carries
<1> QED  BY <1>2, <1>9 DEF v

\* Parts of an address.
LEMMA AddressParts ==
    /\ \A x \in Int : (x % 512) % 65536 = (x % 65536) % 512
    /\ \A x \in Int : x % 65536 \in Int /\ (x % 65536) \div 512 \in 0 .. 127
    /\ \A x \in 0 .. 127 : (x * 512) % 65536 = x * 512 /\ x % 65536 = x
<1>1. ASSUME NEW x \in Int PROVE (x % 512) % 65536 = (x % 65536) % 512
  OBVIOUS
<1>2. ASSUME NEW x \in Int PROVE x % 65536 \in Int /\ (x % 65536) \div 512 \in 0 .. 127
  OBVIOUS
<1>3. ASSUME NEW x \in 0 .. 127 PROVE (x * 512) % 65536 = x * 512 /\ x % 65536 = x
  OBVIOUS
<1> QED  BY <1>1, <1>2, <1>3

\* The second argument of a command for a part of an address.
LEMMA AddressArgument ==
    ASSUME NEW l, l.args \in Seq(Args), 2 \in DOMAIN l.args
    PROVE  /\ l.args[2].val \in Int /\ Value(l, 2) = l.args[2].val % 65536
           /\ l.cmd = "lda" /\ l.part # "ld16" => Argument(l, 2).val = l.args[2].val % 512
           /\ l.cmd = "addhi" /\ l.part # "ld16" => Argument(l, 2).val = Value(l, 2) \div 512
           /\ l.cmd = "addhi" /\ l.part = "ld16" => Argument(l, 2).val = l.args[2].val
<1> DEFINE a == l.args[2]
           lower(v) == v % 512
           upper(v) == (v % 65536) \div 512
<1>1. a \in [name : STRING, val : Int]
  <2>1. \A s \in Seq(Args) : \A k \in DOMAIN s : s[k] \in Args
    OBVIOUS
  <2>2. a \in Args
    BY <2>1
  <2> QED  BY <2>2 DEF Args
<1>2. Value(l, 2) = l.args[2].val % 65536
  BY DEF Value
<1>3. l.cmd = "lda" /\ l.part # "ld16" => Argument(l, 2) = [a EXCEPT !.val = lower(a.val)]
  BY DEF Argument
<1>4. l.cmd = "addhi" /\ l.part # "ld16" => Argument(l, 2) = [a EXCEPT !.val = upper(a.val)]
  BY DEF Argument
<1>5. l.cmd = "addhi" /\ l.part = "ld16" => Argument(l, 2) = a
  BY DEF Argument
<1> HIDE DEF lower, upper
<1>6. [a EXCEPT !.val = lower(a.val)].val = lower(a.val)
      /\ [a EXCEPT !.val = upper(a.val)].val = upper(a.val)
  BY <1>1
<1>7. /\ l.cmd = "lda" /\ l.part # "ld16" => Argument(l, 2).val = lower(a.val)
      /\ l.cmd = "addhi" /\ l.part # "ld16" => Argument(l, 2).val = upper(a.val)
  BY <1>3, <1>4, <1>6
<1> QED  BY <1>1, <1>2, <1>5, <1>7 DEF lower, upper

\* What a line with arguments means is read, when the operands arrive.
LEMMA CarriedIsRead ==
    ASSUME NEW l, NEW view, l.args # << >>, Carries(view, OperandsOf(l))
    PROVE  Reads(view, l)
  BY DEF Reads, Carries, Meaning

\* The lower part of an address arrives; of another lda the operation and the register.
LEMMA LdaArrives ==
    ASSUME NEW l, NEW w, WrittenAs(l, w), l.cmd = "lda", l.part \in {"whole", "la16"}
    PROVE  Reads(View(NameOf(Command(l)), w), l)
<1> DEFINE v == View("ldi", w)
           x == l.args[2].val
           imm == IF l.part = "la16" THEN Value(l, 2) % 512 ELSE Value(l, 2)
<1>1. w \in Nat /\ w < 65536 /\ l.args \in Seq(Args) /\ l.args # << >>
  BY DEF WrittenAs
<1>2. Command(l) = "lda" /\ NameOf("lda") = "ldi"
  BY SameCommand DEF NameOf
<1>3. v.op = "ldi" /\ v.tgt = Cut_(w, 1, 8)
  BY ViewOperands
<1>4. StandsAt(l, w, "imm10", 2, 3) /\ StandsAt(l, w, "reg", 1, 13)
  BY <1>2, Layout
<1>5. 1 \in 1 .. 3 /\ 2 \in 1 .. 3 /\ 1 # 2 /\ 2 # 0
  OBVIOUS
<1>6. v.tgt = Reg(l, 1)
  BY <1>1, <1>4, <1>5, ArgumentSeen
<1>7. 2 \in DOMAIN l.args
  BY <1>4, <1>5 DEF StandsAt
<1>8. x \in Int /\ Value(l, 2) = x % 65536 /\ Argument(l, 2).val = x % 512
  BY <1>1, <1>7, AddressArgument
<1>9. TwosComplement(Cut_(w, 8, 1024), 512) = Argument(l, 2).val
  BY <1>1, <1>4, <1>5, LaidRead
<1>10. v.imm = TwosComplement(Cut_(w, 8, 1024), 512) % 65536
  BY <1>1, ViewImmediates
<1>11. OperandsOf(l) = [op |-> "ldi", tgt |-> Reg(l, 1), imm |-> imm]
  BY OtherMeanings
<1>12. Meaning(l) = OperandsOf(l)
  BY <1>1 DEF Meaning
<1> HIDE DEF v, x
<1>13. v.imm = Value(l, 2) % 512
  BY <1>8, <1>9, <1>10, AddressParts
<1>14. ASSUME l.part = "la16" PROVE Reads(v, l)
  <2>1. imm = Value(l, 2) % 512
    BY <1>14
  <2> HIDE DEF imm
  <2> QED  BY <1>3, <1>6, <1>11, <1>12, <1>13, <2>1 DEF Reads
<1>15. ASSUME l.part = "whole" PROVE Reads(v, l)
  <2>1. TakenForParts(l)
    BY <1>15 DEF TakenForParts
  <2> HIDE DEF imm
  <2> QED  BY <1>3, <1>6, <1>11, <1>12, <2>1 DEF Reads
<1>16. Reads(v, l)
  BY <1>14, <1>15
<1> QED  BY <1>2, <1>16 DEF v

\* The upper part of an address, or the one of an ld16, arrives; of another addhi the
\* operation and the register.
LEMMA AddhiArrives ==
    ASSUME NEW l, NEW w, WrittenAs(l, w), l.cmd = "addhi", l.part \in Parts
    PROVE  Reads(View(NameOf(Command(l)), w), l)
<1> DEFINE v == View("addhi", w)
           x == l.args[2].val
           c == Cut_(w, 4, 128)
           imm == IF l.part = "la16" THEN (Value(l, 2) \div 512) * 512 ELSE Value(l, 2) * 512
<1>1. w \in Nat /\ w < 65536 /\ l.args \in Seq(Args) /\ l.args # << >>
  BY DEF WrittenAs
<1>2. Command(l) = "addhi" /\ NameOf("addhi") = "addhi"
  BY SameCommand, SameName
<1>3. v.op = "addhi" /\ v.tgt2 = Cut_(w, 1, 4) + 1
  BY ViewOperands
<1>4. StandsAt(l, w, "imm7u", 2, 7) /\ StandsAt(l, w, "tgt2", 1, 14)
  BY <1>2, Layout
<1>5. 1 \in 1 .. 3 /\ 2 \in 1 .. 3 /\ 1 # 2 /\ 2 # 0
  OBVIOUS
<1>6. v.tgt2 = Reg(l, 1)
  BY <1>1, <1>4, <1>5, ArgumentSeen
<1>7. 2 \in DOMAIN l.args
  BY <1>4, <1>5 DEF StandsAt
<1>8. /\ x \in Int /\ Value(l, 2) = x % 65536
      /\ l.part # "ld16" => Argument(l, 2).val = Value(l, 2) \div 512
      /\ l.part = "ld16" => Argument(l, 2).val = x
  BY <1>1, <1>7, AddressArgument
<1>9. c = Argument(l, 2).val
  BY <1>1, <1>4, <1>5, LaidRead
<1>10. v.imm = (c * 512) % 65536
  BY <1>1, ViewImmediates
<1>11. OperandsOf(l) = [op |-> "addhi", tgt2 |-> Reg(l, 1), imm |-> imm]
  BY OtherMeanings
<1>12. c \in 0 .. 127
  BY <1>1, CutType DEF CutsInRange
<1>13. Meaning(l) = OperandsOf(l)
  BY <1>1 DEF Meaning
<1> HIDE DEF v, x, c
<1>14. v.imm = c * 512
  BY <1>10, <1>12, AddressParts
<1>15. ASSUME l.part = "ld16" PROVE Reads(v, l)
  <2>1. x = c
    BY <1>8, <1>9, <1>15
  <2>2. Value(l, 2) = c
    BY <1>8, <1>12, <2>1, AddressParts
  <2>3. imm = c * 512
    BY <1>15, <2>2
  <2> HIDE DEF imm
  <2> QED  BY <1>3, <1>6, <1>11, <1>13, <1>14, <2>3 DEF Reads
<1>16. ASSUME l.part = "la16" PROVE Reads(v, l)
  <2>1. Value(l, 2) \div 512 = c
    BY <1>8, <1>9, <1>16
  <2>2. imm = c * 512
    BY <1>16, <2>1
  <2> HIDE DEF imm
  <2> QED  BY <1>3, <1>6, <1>11, <1>13, <1>14, <2>2 DEF Reads
<1>17. ASSUME l.part = "whole" PROVE Reads(v, l)
  <2>1. TakenForParts(l)
    BY <1>17 DEF TakenForParts
  <2> HIDE DEF imm
  <2> QED  BY <1>3, <1>6, <1>11, <1>13, <2>1 DEF Reads
<1>18. Reads(v, l)
  BY <1>15, <1>16, <1>17 DEF Parts
<1> QED  BY <1>2, <1>18 DEF v

\* The operands of every line with arguments arrive.
LEMMA OperandsArrive ==
    ASSUME NEW l, NEW w, WrittenAs(l, w), l.part \in Parts,
           l.part = "ld16" => l.cmd \in {"ldi", "addhi"}
    PROVE  Reads(View(NameOf(Command(l)), w), l)
<1> DEFINE seen == Reads(View(NameOf(Command(l)), w), l)
<1>0. Carries(View(NameOf(Command(l)), w), OperandsOf(l)) => seen
  BY CarriedIsRead DEF WrittenAs
<1>1. l.cmd \in Commands /\ l.cmd \notin {"nop", "hlt", "syscall", "reti", "brk", "rsi"}
  <2>1. Valid(l) /\ l.args \in Seq(Args) /\ l.args # << >>
    BY DEF WrittenAs, Encodable
  <2> QED  BY <2>1, WithArguments
<1>2. l.cmd \in AllCommands
  BY <1>1, Opcodes
<1>3. ASSUME l.cmd \in {"ldw", "ldb"} PROVE seen
  BY <1>0, <1>3, LoadArrives
<1>4. ASSUME l.cmd \in {"stw", "stb"} PROVE seen
  BY <1>0, <1>4, StoreArrives
<1>5. ASSUME l.cmd = "mov" PROVE seen
  BY <1>0, <1>5, MovArrives
<1>6. ASSUME l.cmd = "lda" PROVE seen
  <2>1. l.part \in {"whole", "la16"}
    BY <1>6 DEF Parts
  <2> QED  BY <1>6, <2>1, LdaArrives
<1>7. ASSUME l.cmd = "addhi" PROVE seen
  BY <1>7, AddhiArrives
<1>8. ASSUME l.cmd \notin {"ldw", "ldb", "stw", "stb"},
             \/ l.cmd \in {"ldi", "br", "stw0", "stb0", "stw.b", "stb.b", "skip", "sext", "wpte",
                           "lpte", "shl", "shr"}
             \/ l.cmd \in AluImm \cup Addskpi \/ l.cmd \in OneSource \/ l.cmd \in OneTarget
             \/ l.cmd \in ThreeRegisters
      PROVE  seen
  <2> DEFINE carried == Carries(View(NameOf(Command(l)), w), OperandsOf(l))
  <2> HIDE DEF seen, carried
  <2>1. /\ (l.cmd = "ldi" => carried) /\ (l.cmd = "br" => carried)
        /\ (l.cmd \in {"stw0", "stb0"} => carried) /\ (l.cmd \in {"stw.b", "stb.b"} => carried)
        /\ (l.cmd = "skip" => carried) /\ (l.cmd \in AluImm \cup Addskpi => carried)
        /\ (l.cmd = "sext" => carried) /\ (l.cmd \in OneSource => carried)
        /\ (l.cmd \in OneTarget => carried) /\ (l.cmd = "wpte" => carried)
        /\ (l.cmd = "lpte" => carried) /\ (l.cmd \in {"shl", "shr"} => carried)
        /\ (l.cmd \in ThreeRegisters => carried)
    BY <1>8, PlainMeanings DEF carried
  <2>2. carried
    BY <1>8, <2>1
  <2> QED  BY <1>0, <2>2 DEF carried
<1> HIDE DEF seen
<1>9. \/ l.cmd \in {"ldi", "br", "ldw", "ldb", "stw", "stb", "stw0", "stb0", "stw.b", "stb.b",
                    "skip", "sext", "wpte", "lpte", "shl", "shr", "lda", "mov", "addhi"}
      \/ l.cmd \in AluImm \cup Addskpi \/ l.cmd \in OneSource \/ l.cmd \in OneTarget
      \/ l.cmd \in ThreeRegisters
  BY <1>1, <1>2, AlmostAllCommands
<1> QED  BY <1>3, <1>4, <1>5, <1>6, <1>7, <1>8, <1>9 DEF seen

\* A word is executed as its line says: the simulators that know its opcode read
\* the operation and its operands.
Knows(x) == x # ""

Executed(w, l) ==
    LET f == FsimOp(FsimDecode(w))
        m == MicroOp(Dec2bin(w, 16))
    IN  /\ ~Reserved(w)
        /\ Knows(f) \/ Knows(m)
        /\ Knows(f) => Reads(FsimView(FsimDecode(w)), l)
        /\ Knows(m) => Reads(MicroView(Dec2bin(w, 16)), l)

\* A simulator that knows an opcode of the assembler knows it by the command's name.
LEMMA KnownBoth ==
    ASSUME NEW o, NEW cmd, OpKnown(o, cmd)
    PROVE  /\ Knows(OpOfFsim(o)) => OpOfFsim(o) = cmd
           /\ Knows(OpOfMicro(o)) => OpOfMicro(o) = cmd
           /\ Knows(OpOfFsim(o)) \/ Knows(OpOfMicro(o))
<1>1. \A x : x \in {"", cmd} /\ x # "" => x = cmd
  OBVIOUS
<1>2. /\ OpOfFsim(o) \in {"", cmd} /\ OpOfMicro(o) \in {"", cmd}
      /\ OpOfFsim(o) # "" \/ OpOfMicro(o) # ""
  BY DEF OpKnown
<1> QED  BY <1>1, <1>2 DEF Knows

\* The operation of a word is that of its opcode.
LEMMA SameOperations ==
    ASSUME NEW w \in Nat, w < 65536, ~Reserved(w)
    PROVE  LET o == MicroOpcode(Dec2bin(w, 16))
           IN  FsimOp(FsimDecode(w)) = OpOfFsim(o) /\ MicroOp(Dec2bin(w, 16)) = OpOfMicro(o)
<1> DEFINE o == MicroOpcode(Dec2bin(w, 16))
<1>1. o \in Nat /\ FsimDecode(w).opcode = o
  BY MicroOpcodeType, OpcodesAgree, FsimReads
<1> QED  BY <1>1 DEF FsimOp, MicroOp, OpOfFsim, OpOfMicro

\* A word is executed as written when its opcode is the command's and its operands arrive.
LEMMA Execution ==
    ASSUME NEW w \in Nat, w < 65536, ~Reserved(w), NEW cmd, NEW l,
           OpKnown(MicroOpcode(Dec2bin(w, 16)), cmd), Reads(View(cmd, w), l)
    PROVE  Executed(w, l)
<1> DEFINE x == FsimOp(FsimDecode(w))
           y == MicroOp(Dec2bin(w, 16))
<1>1. (Knows(x) => x = cmd) /\ (Knows(y) => y = cmd) /\ (Knows(x) \/ Knows(y))
  BY SameOperations, KnownBoth
<1>2. FsimView(FsimDecode(w)) = View(x, w) /\ MicroView(Dec2bin(w, 16)) = View(y, w)
  BY Views
<1> HIDE DEF x, y
<1>3. Knows(x) => Reads(FsimView(FsimDecode(w)), l)
  BY <1>1, <1>2
<1>4. Knows(y) => Reads(MicroView(Dec2bin(w, 16)), l)
  BY <1>1, <1>2
<1> QED  BY <1>1, <1>3, <1>4 DEF Executed, x, y

\* A command that stands alone, whose digits are those of the word w.
AloneAs(l, w) ==
    /\ l.cmd \in Commands /\ l.args = << >> /\ Len(Encode(l)) = 16
    /\ w \in Nat /\ w < 65536 /\ Dec2bin(w, 16) = Encode(l)

\* A command that stands alone arrives.
LEMMA CommandArrives ==
    ASSUME NEW l, NEW w, AloneAs(l, w)
    PROVE  MicroOpcode(Dec2bin(w, 16)) = Opcode(l.cmd) /\ ~Reserved(w) /\ l.cmd # "nop"
<1> DEFINE op == Opcode(l.cmd)
           h == OpcodeDigits(op)
           z == Dec2bin(0, 9)
           b == Dec2bin(w, 16)
<1>0. w \in Nat /\ w < 65536
  BY DEF AloneAs
<1>1. op \in Nat /\ (l.cmd = "nop" => op = 200)
  BY Opcodes DEF AloneAs
<1>2. z \in Seq(Bit) /\ Len(z) = 9
  <2>1. \A n \in Nat : Dec2bin(0, n) \in Seq(Bit) /\ Len(Dec2bin(0, n)) = n
    BY Dec2binType
  <2>2. 9 \in Nat
    OBVIOUS
  <2> QED  BY <2>1, <2>2
<1>3. b = h \o z /\ Len(b) = 16
  <2>1. Encode(l) = h \o z
    BY DEF Encode, AloneAs
  <2> HIDE DEF h, z, b
  <2>2. Len(Encode(l)) = 16 /\ b = Encode(l)
    BY DEF AloneAs, b
  <2> QED  BY <2>1, <2>2
<1> HIDE DEF op, z
<1>4. h \in Seq(Bit) /\ Len(h) = IF op <= 3 THEN 3 ELSE IF op < 64 THEN 7 ELSE 9
  BY <1>1, OpcodeDigitsType
<1> HIDE DEF h, b
<1>5. Len(b) = Len(h) + Len(z) /\ b \in Seq(Bit)
  <2>1. h \o z \in Seq(Bit) /\ Len(h \o z) = Len(h) + Len(z)
    BY <1>2, <1>4, Appended
  <2> QED  BY <1>3, <2>1
<1>6. op < 64
  BY <1>1, <1>2, <1>3, <1>4, <1>5
<1>7. Starts(h, b)
  <2>2. Starts(b, b)
    BY <1>5, StartsItself
  <2>3. Starts(h \o z, b)
    BY <1>3, <2>2
  <2> QED  BY <1>2, <1>4, <2>3, StartsFurther
<1>8. MicroOpcode(b) = op /\ ~Reserved(w)
  BY <1>0, <1>1, <1>6, <1>7, OpcodeArrives DEF b, h
<1>9. l.cmd # "nop"
  BY <1>1, <1>6
<1> QED  BY <1>8, <1>9 DEF b, op

\* A line that the assembler accepts is executed as it was written.
LEMMA LineExecuted ==
    ASSUME NEW l, NEW w \in Nat, w < 65536, Encodable(l), l.args \in Seq(Args),
           Len(Encode(l)) = 16, Dec2bin(w, 16) = Encode(l),
           l.part \in Parts, l.part = "ld16" => l.cmd \in {"ldi", "addhi"}
    PROVE  Executed(w, l)
<1>1. CASE l.args = << >>
  <2>1. l.cmd \in Commands
    BY DEF Encodable, Valid
  <2>2. MicroOpcode(Dec2bin(w, 16)) = Opcode(l.cmd) /\ ~Reserved(w) /\ l.cmd # "nop"
    <3>1. AloneAs(l, w)
      BY <1>1, <2>1 DEF AloneAs
    <3> QED  BY <3>1, CommandArrives
  <2>3. OpKnown(MicroOpcode(Dec2bin(w, 16)), NameOf(l.cmd))
    BY <2>1, <2>2, OperationArrives
  <2>4. Meaning(l) = [op |-> NameOf(l.cmd)] /\ View(NameOf(l.cmd), w).op = NameOf(l.cmd)
    BY <1>1, ViewOperands DEF Meaning
  <2>5. Reads(View(NameOf(l.cmd), w), l)
    BY <2>4 DEF Reads
  <2> QED  BY <2>2, <2>3, <2>5, Execution
<1>2. CASE l.args # << >>
  <2>1. WrittenAs(l, w)
    BY <1>2 DEF WrittenAs
  <2>2. MicroOpcode(Dec2bin(w, 16)) = Opcode(Command(l)) /\ ~Reserved(w)
    BY <2>1, LineArrives
  <2>3. Command(l) \in Commands /\ Command(l) # "nop"
    BY <1>2, WithArguments DEF Encodable
  <2>4. OpKnown(MicroOpcode(Dec2bin(w, 16)), NameOf(Command(l)))
    BY <2>2, <2>3, OperationArrives
  <2>5. Reads(View(NameOf(Command(l)), w), l)
    BY <2>1, OperandsArrive
  <2> QED  BY <2>2, <2>4, <2>5, Execution
<1> QED  BY <1>1, <1>2

\* Whatever lines there are to assemble, and however their arguments are chosen, the
\* simulators execute what was written, but for the number of a lda or an addhi that
\* belongs to no la16 or ld16: of those, the operation and the register arrive.
THEOREM LinesTheorem == Spec => []LinesKeepTheirMeaning
<1>1. WordInv => LinesKeepTheirMeaning
  <2> SUFFICES ASSUME WordInv, stage = "decoded", line # None
               PROVE  /\ ~Reserved(ir)
                      /\ FsimOp(cinstr) # "" \/ MicroOp(instr_b) # ""
                      /\ FsimOp(cinstr) # "" => Reads(FsimView(cinstr), line)
                      /\ MicroOp(instr_b) # "" => Reads(MicroView(instr_b), line)
    BY DEF LinesKeepTheirMeaning
  <2>1. /\ ir \in Nat /\ ir < 65536 /\ cinstr = FsimDecode(ir) /\ instr_b = Dec2bin(ir, 16)
        /\ line \in SourceLines /\ Encodable(line) /\ Len(Encode(line)) = 16
        /\ ir = Bin2dec(Encode(line))
    BY DEF WordInv
  <2>2. /\ line.args \in Seq(Args) /\ line.part \in Parts
        /\ line.part = "ld16" => line.cmd \in {"ldi", "addhi"}
    BY <2>1, SourceLinesAssumption
  <2>3. Encode(line) \in Seq(Bit)
    BY <2>1, <2>2, EncodeType
  <2>4. Dec2bin(ir, 16) = Encode(line)
    BY <2>1, <2>3, SixteenDigits
  <2>5. Executed(ir, line)
    BY <2>1, <2>2, <2>4, LineExecuted
  <2>6. /\ ~Reserved(ir)
        /\ Knows(FsimOp(cinstr)) \/ Knows(MicroOp(instr_b))
        /\ Knows(FsimOp(cinstr)) => Reads(FsimView(cinstr), line)
        /\ Knows(MicroOp(instr_b)) => Reads(MicroView(instr_b), line)
    BY <2>1, <2>5 DEF Executed
  <2> QED  BY <2>6 DEF Knows
<1> QED  BY <1>1, WordInvariant, PTL

-----------------------------------------------------------------------------
\* Skips, for every word size and every set of registers.

USE HalfAssumption

\* Sums and differences are words again.
LEMMA ArithType ==
    ASSUME NEW x \in Word, NEW y \in Word
    PROVE  Sum(x, y) \in Word /\ Diff(x, y) \in Word
  BY DEF Sum, Diff, Word, N

\* main2's decision is the meaning of the condition, for the unsigned
\* conditions and equality always, for the signed ones without overflow.
LEMMA MicroRight ==
    ASSUME NEW x \in Word, NEW y \in Word, NEW cond \in Cond,
           cond \in Unsigned \/ DifferenceFits(x, y) \/ cond \in {"EQ", "NEQ"}
    PROVE  MicroDecides(cond, Diff(x, y), Borrow(x, y)) <=> Means(cond, x, y)
<1> DEFINE d == Diff(x, y)
<1>1. d = 0 <=> x = y
  BY DEF Diff, Word, N
<1>2. DifferenceFits(x, y) => (Negative(d) <=> SignedValue(x) < SignedValue(y))
  BY DEF DifferenceFits, Negative, SignedValue, Diff, Word, N
<1>3. DifferenceFits(x, y) => (SignedValue(x) = SignedValue(y) <=> x = y)
  BY DEF SignedValue, Negative, Word, N
<1>4. SignedValue(x) \in Int /\ SignedValue(y) \in Int /\ d \in Int
  BY DEF SignedValue, Negative, Diff, Word, N
<1>5. ~Negative(0)
  BY DEF Negative
<1>a. CASE cond = "EQ"
  BY <1>a, <1>1 DEF MicroDecides, Means
<1>b. CASE cond = "NEQ"
  BY <1>b, <1>1, <1>5 DEF MicroDecides, Means
<1>c. CASE cond = "LT"
  BY <1>c, <1>2 DEF MicroDecides, Means, Unsigned
<1>d. CASE cond = "LTE"
  BY <1>d, <1>1, <1>2, <1>3, <1>4 DEF MicroDecides, Means, Unsigned
<1>e. CASE cond = "GT"
  BY <1>e, <1>1, <1>2, <1>3, <1>4 DEF MicroDecides, Means, Unsigned
<1>f. CASE cond = "GTE"
  BY <1>f, <1>1, <1>2, <1>3, <1>4, <1>5 DEF MicroDecides, Means, Unsigned
<1>g. CASE cond = "ULT"
  BY <1>g, <1>1 DEF MicroDecides, Means, Borrow, Word
<1>h. CASE cond = "ULTE"
  BY <1>h, <1>1 DEF MicroDecides, Means, Borrow, Word
<1> QED
  BY <1>a, <1>b, <1>c, <1>d, <1>e, <1>f, <1>g, <1>h DEF Cond

\* fsim decides as main2 does when the flag it tests is that of its own
\* subtraction, or when the condition is not an unsigned one.
LEMMA FsimAgrees ==
    ASSUME NEW x \in Word, NEW y \in Word, NEW cond \in Cond, NEW c \in BOOLEAN,
           (c <=> Borrow(x, y)) \/ cond \notin Unsigned
    PROVE  FsimDecides(cond, Diff(x, y), c)
             <=> MicroDecides(cond, Diff(x, y), Borrow(x, y))
<1>1. Diff(x, y) = 0 => ~Borrow(x, y) /\ ~Negative(Diff(x, y))
  BY DEF Diff, Word, N, Borrow, Negative
<1>2. CASE Diff(x, y) = 0
  BY <1>1, <1>2 DEF FsimDecides, MicroDecides, Cond, Unsigned
<1>3. CASE Diff(x, y) # 0
  BY <1>3 DEF FsimDecides, MicroDecides, Cond, Unsigned
<1> QED
  BY <1>2, <1>3

\* A flag that is set without a borrow can only make fsim skip.
LEMMA FsimSkipsToo ==
    ASSUME NEW x \in Word, NEW y \in Word, NEW cond \in Unsigned, NEW c \in BOOLEAN,
           Borrow(x, y) => c, MicroDecides(cond, Diff(x, y), Borrow(x, y))
    PROVE  FsimDecides(cond, Diff(x, y), c)
<1>1. Diff(x, y) = 0 => ~Borrow(x, y)
  BY DEF Diff, Word, N, Borrow
<1>2. CASE Diff(x, y) = 0
  BY <1>1, <1>2 DEF FsimDecides, MicroDecides, Unsigned
<1>3. CASE Diff(x, y) # 0
  BY <1>3 DEF FsimDecides, MicroDecides, Unsigned
<1> QED
  BY <1>2, <1>3

LEMMA FsimBoolean ==
    ASSUME NEW cond, NEW d, NEW c
    PROVE  FsimDecides(cond, d, c) \in BOOLEAN
<1>1. CASE d = 0
  BY <1>1 DEF FsimDecides
<1>2. CASE d # 0
  BY <1>2 DEF FsimDecides
<1> QED
  BY <1>1, <1>2

\* The flag is the carry or borrow of the last instruction, whatever the program did
\* earlier.
CarryIsOfLast ==
    CASE last.op = "none" -> ~carry
      [] last.op = "add"  -> ~last.stale => (carry <=> last.x + last.y >= N)
      [] last.op = "sub"  -> ~last.stale => (carry <=> last.x < last.y)
      [] last.op = "skip" -> carry <=> last.x < last.y

SkipInv == TypeOK /\ VerdictsRight /\ CarryIsOfLast

LastType == [op : {"none", "add", "sub", "skip"}, cond : Cond, x : Word, y : Word,
             stale : BOOLEAN, fsim : BOOLEAN, micro : BOOLEAN]

LEMMA NoResultType == NoResult \in LastType /\ NoResult.op = "none" /\ ~NoResult.stale
<1>1. 0 \in Word
  BY DEF Word, N
<1> QED
  BY <1>1 DEF NoResult, LastType, Cond

LEMMA InitSkipInv == SkipInit => SkipInv
<1> SUFFICES ASSUME SkipInit PROVE SkipInv
  OBVIOUS
<1>1. TypeOK
  <2>1. 0 \in Word
    BY DEF Word, N
  <2> QED
    BY <2>1, NoResultType DEF SkipInit, TypeOK, LastType
<1> QED
  BY <1>1, NoResultType DEF SkipInit, SkipInv, VerdictsRight, CarryIsOfLast

\* An instruction that is not a skip.c decides nothing.
LEMMA StepOther ==
    ASSUME TypeOK, reg' \in [Registers -> Word], carry' \in BOOLEAN,
           last' \in LastType, last'.op # "skip", CarryIsOfLast'
    PROVE  SkipInv'
  BY DEF SkipInv, TypeOK, VerdictsRight, LastType

\* A third register leaves the operands, from which the flag is computed after
\* the result is written, as they were.
LEMMA StepAdd ==
    ASSUME TypeOK, NEW a \in Registers, NEW b \in Registers, NEW t \in Registers, Add(a, b, t)
    PROVE  SkipInv'
<1>1. reg[a] \in Word /\ reg[b] \in Word
  BY DEF TypeOK
<1>2. reg' \in [Registers -> Word] /\ reg' = [reg EXCEPT ![t] = Sum(reg[a], reg[b])]
  BY <1>1, ArithType DEF Add, TypeOK
<1>3. reg'[a] \in Word /\ reg'[b] \in Word
  BY <1>2
<1>4. carry' = (reg'[a] + reg'[b] >= N) /\ carry' \in BOOLEAN
  BY <1>3 DEF Add, CarryOut, Word, N
<1>5. /\ last' \in LastType /\ last'.op = "add"
      /\ last'.x = reg[a] /\ last'.y = reg[b] /\ last'.stale = (t \in {a, b})
  <2>1. (t \in {a, b}) \in BOOLEAN /\ "EQ" \in Cond
    BY DEF Cond
  <2> QED
    BY <1>1, <2>1 DEF Add, Result, LastType
<1>6. t \notin {a, b} => reg'[a] = reg[a] /\ reg'[b] = reg[b]
  BY <1>2 DEF TypeOK
<1>7. CarryIsOfLast'
  BY <1>4, <1>5, <1>6 DEF CarryIsOfLast
<1> QED
  BY <1>2, <1>4, <1>5, <1>7, StepOther

LEMMA StepSub ==
    ASSUME TypeOK, NEW a \in Registers, NEW b \in Registers, NEW t \in Registers, Sub(a, b, t)
    PROVE  SkipInv'
<1>1. reg[a] \in Word /\ reg[b] \in Word
  BY DEF TypeOK
<1>2. reg' \in [Registers -> Word] /\ reg' = [reg EXCEPT ![t] = Diff(reg[a], reg[b])]
  BY <1>1, ArithType DEF Sub, TypeOK
<1>3. reg'[a] \in Word /\ reg'[b] \in Word
  BY <1>2
<1>4. carry' = (reg'[a] < reg'[b]) /\ carry' \in BOOLEAN
  BY <1>3 DEF Sub, Borrow, Word, N
<1>5. /\ last' \in LastType /\ last'.op = "sub"
      /\ last'.x = reg[a] /\ last'.y = reg[b] /\ last'.stale = (t \in {a, b})
  <2>1. (t \in {a, b}) \in BOOLEAN /\ "EQ" \in Cond
    BY DEF Cond
  <2> QED
    BY <1>1, <2>1 DEF Sub, Result, LastType
<1>6. t \notin {a, b} => reg'[a] = reg[a] /\ reg'[b] = reg[b]
  BY <1>2 DEF TypeOK
<1>7. CarryIsOfLast'
  BY <1>4, <1>5, <1>6 DEF CarryIsOfLast
<1> QED
  BY <1>2, <1>4, <1>5, <1>7, StepOther

LEMMA StepSkip ==
    ASSUME TypeOK, NEW a \in Registers, NEW b \in Registers, NEW cond \in Cond, Skip(a, b, cond)
    PROVE  SkipInv'
<1> DEFINE x == reg[a]
           y == reg[b]
<1>1. x \in Word /\ y \in Word /\ carry \in BOOLEAN
  BY DEF TypeOK
<1>2. /\ last'.op = "skip" /\ last'.cond = cond /\ last'.x = x /\ last'.y = y
      /\ last'.stale = (carry /\ ~Borrow(x, y))
      /\ last'.fsim = FsimDecides(cond, Diff(x, y), carry \/ Borrow(x, y))
      /\ last'.micro = MicroDecides(cond, Diff(x, y), Borrow(x, y))
      /\ carry' = Borrow(x, y) /\ reg' = reg
  BY DEF Skip
<1>3. FsimDecides(cond, Diff(x, y), carry \/ Borrow(x, y)) \in BOOLEAN
  BY FsimBoolean
<1>4. MicroDecides(cond, Diff(x, y), Borrow(x, y)) \in BOOLEAN
  BY DEF MicroDecides
<1>5. Borrow(x, y) \in BOOLEAN
  BY <1>1 DEF Borrow, Word
<1>6. last' \in LastType
  BY <1>1, <1>3, <1>4, <1>5 DEF Skip, LastType
<1>7. TypeOK'
  BY <1>2, <1>5, <1>6 DEF TypeOK, LastType
<1>8. VerdictsRight'
  <2>1. cond \in Unsigned \/ DifferenceFits(x, y) \/ cond \in {"EQ", "NEQ"}
          => (last'.micro <=> Means(cond, x, y))
    BY <1>1, <1>2, MicroRight
  <2>2. ~last'.stale \/ cond \notin Unsigned => (last'.fsim <=> last'.micro)
    BY <1>1, <1>2, <1>5, FsimAgrees
  <2> QED
    BY <1>2, <2>1, <2>2 DEF VerdictsRight
<1>9. CarryIsOfLast'
  BY <1>2 DEF CarryIsOfLast, Borrow
<1> QED
  BY <1>7, <1>8, <1>9 DEF SkipInv

LEMMA StepSkipInv == SkipInv /\ [SkipNext]_skipVars => SkipInv'
<1> SUFFICES ASSUME SkipInv, [SkipNext]_skipVars PROVE SkipInv'
  OBVIOUS
<1> USE DEF SkipInv
<1>1. CASE \E t \in Registers, v \in Word : Load(t, v)
  BY <1>1, NoResultType, StepOther DEF Load, TypeOK, CarryIsOfLast
<1>2. CASE \E a, b, t \in Registers : Add(a, b, t)
  BY <1>2, StepAdd
<1>3. CASE \E a, b, t \in Registers : Sub(a, b, t)
  BY <1>3, StepSub
<1>4. CASE \E a, b \in Registers, cond \in Cond : Skip(a, b, cond)
  BY <1>4, StepSkip
<1>5. CASE UNCHANGED skipVars
  BY <1>5 DEF skipVars, TypeOK, VerdictsRight, CarryIsOfLast
<1> QED
  BY <1>1, <1>2, <1>3, <1>4, <1>5 DEF SkipNext

\* Registers hold words and the flag a bit, after any instruction.
THEOREM TypeCorrect == SkipSpec => []TypeOK
  BY InitSkipInv, StepSkipInv, PTL DEF SkipSpec, SkipInv

\* Where the simulators part, fsim skips, the condition is an unsigned one, and the
\* instruction directly before has left a carry.
THEOREM PartByNeighbourOnlyHolds == SkipSpec => PartByNeighbourOnly
<1> DEFINE Parts_ == last'.op = "skip" /\ last'.fsim # last'.micro
<1>1. SkipInv /\ [SkipNext]_skipVars
        => [Parts_ => last'.fsim /\ last'.cond \in Unsigned /\ LeftCarry(last)]_skipVars
  <2> SUFFICES ASSUME SkipInv, SkipNext, Parts_
               PROVE  last'.fsim /\ last'.cond \in Unsigned /\ LeftCarry(last)
    OBVIOUS
  <2>1. PICK a \in Registers, b \in Registers, cond \in Cond : Skip(a, b, cond)
    BY DEF SkipNext, Load, Add, Sub, NoResult, Result
  <2>2. TypeOK' /\ VerdictsRight'
    BY StepSkipInv DEF SkipInv
  <2>3. last'.fsim \in BOOLEAN /\ last'.micro \in BOOLEAN
    BY <2>2 DEF TypeOK
  <2>4. last'.stale /\ last'.cond \in Unsigned
    BY <2>2, <2>3 DEF VerdictsRight
  <2>5. carry
    BY <2>1, <2>4 DEF Skip
  <2>6. last'.fsim
    <3>1. /\ reg[a] \in Word /\ reg[b] \in Word /\ cond \in Unsigned
          /\ last'.fsim = FsimDecides(cond, Diff(reg[a], reg[b]), carry \/ Borrow(reg[a], reg[b]))
          /\ last'.micro = MicroDecides(cond, Diff(reg[a], reg[b]), Borrow(reg[a], reg[b]))
      BY <2>1, <2>4 DEF Skip, SkipInv, TypeOK
    <3>2. (carry \/ Borrow(reg[a], reg[b])) = TRUE
      BY <2>5
    <3>3. last'.micro => FsimDecides(cond, Diff(reg[a], reg[b]), TRUE)
      BY <3>1, FsimSkipsToo
    <3> QED
      BY <2>3, <3>1, <3>2, <3>3
  <2>7. last.op \in {"none", "add", "sub", "skip"}
    BY DEF SkipInv, TypeOK
  <2> QED
    BY <2>4, <2>5, <2>6, <2>7 DEF SkipInv, CarryIsOfLast, LeftCarry, CarryOut, Borrow
<1> QED
  BY <1>1, InitSkipInv, StepSkipInv, PTL DEF SkipSpec, PartByNeighbourOnly

\* Whatever the program has computed before, both simulators decide a skip.c
\* as its condition means, but for overflow and fsim's stale carry.
THEOREM VerdictsRightHolds == SkipSpec => []VerdictsRight
  BY InitSkipInv, StepSkipInv, PTL DEF SkipSpec, SkipInv
=============================================================================
