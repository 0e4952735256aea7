-------------------------- MODULE Assembler_proofs --------------------------
(***************************************************************************)
(* The assembler for any set of lines and programs of any length. First     *)
(* what the recursive helpers compute, by induction on a length (Climb);    *)
(* then the labels and the guard of the parser, and the types of the tables *)
(* through all passes. The rest follows a line through the passes: which    *)
(* items of the tables are its own (Listed), where they are placed          *)
(* (Placing, ItemsPlaced), what its names resolve to (Pointed, Resolved),   *)
(* what is encoded (Entry, LineBuilt), and where the image has it (AtIs).   *)
(* AInv says which of this holds before each pass; the three properties of  *)
(* an assembled program and the refinement of Layout follow from it.        *)
(***************************************************************************)
EXTENDS Assembler, WellFoundedInduction, TLAPS

LEMMA Least ==
    ASSUME NEW U, U \subseteq Nat, U # {}
    PROVE  \E x \in U : \A y \in U : x <= y
<1>1. PICK x \in U : \A y \in U : ~(<<y, x>> \in OpToRel(<, Nat))
  BY NatLessThanWellFounded, WFMin, Zenon
<1>2. ASSUME NEW y \in U PROVE x <= y
  <2>1. <<y, x>> \in Nat \X Nat /\ <<y, x>>[1] = y /\ <<y, x>>[2] = x
    OBVIOUS
  <2>2. ~(y < x)
    BY <1>1, <2>1 DEF OpToRel
  <2> QED  BY <2>2
<1> QED  BY <1>2

\* Induction up to a bound: what 0 has, and k + 1 if k has it, all have.
LEMMA Climb ==
    ASSUME NEW n \in Nat, NEW P, 0 \in P, \A k \in 0 .. n - 1 : k \in P => k + 1 \in P
    PROVE  \A k \in 0 .. n : k \in P
<1> SUFFICES ASSUME NEW m \in 0 .. n, m \notin P PROVE FALSE
  OBVIOUS
<1> DEFINE U == (0 .. n) \ P
<1>1. U \subseteq Nat /\ U # {}
  OBVIOUS
<1>2. PICK x \in U : \A y \in U : x <= y
  <2> HIDE DEF U
  <2> QED  BY <1>1, Least
<1>3. x # 0 /\ x - 1 \in 0 .. n - 1 /\ x - 1 \notin U
  BY <1>1, <1>2
<1>4. x - 1 \in P
  BY <1>3
<1>5. (x - 1) + 1 \in P
  BY <1>3, <1>4
<1> QED  BY <1>1, <1>5

\* The last of some places.
LEMMA Greatest ==
    ASSUME NEW n \in Nat, NEW U, U \subseteq 1 .. n, U # {}
    PROVE  \E x \in U : \A y \in U : y <= x
<1> DEFINE V == {n - x : x \in U}
<1>1. V \subseteq Nat /\ V # {}
  <2>1. \A x \in U : x \in Nat /\ n - x \in Nat
    OBVIOUS
  <2>2. PICK x : x \in U
    OBVIOUS
  <2>3. n - x \in V
    BY <2>2
  <2> QED  BY <2>1, <2>3
<1>2. PICK v \in V : \A w \in V : v <= w
  <2> HIDE DEF V
  <2> QED  BY <1>1, Least
<1>3. PICK x \in U : v = n - x
  BY <1>2
<1>4. \A y \in U : n - x <= n - y
  BY <1>2, <1>3
<1> QED  BY <1>4

\* g is a on 0, and step says what it is on a number by what it is before.
ByRecursion(g, n, S, a, step) ==
    /\ g \in [0 .. n -> S]
    /\ g[0] = a /\ \A i \in 1 .. n : g[i] = step[i][g[i - 1]]

\* Such a function exists.
LEMMA Recursion ==
    ASSUME NEW n \in Nat, NEW S, NEW a \in S, NEW step \in [1 .. n -> [S -> S]]
    PROVE  \E g : ByRecursion(g, n, S, a, step)
<1> DEFINE P == {k \in 0 .. n : \E g : ByRecursion(g, k, S, a, step)}
<1>1. 0 \in P
  <2> DEFINE h == [i \in 0 .. 0 |-> a]
  <2>1. ByRecursion(h, 0, S, a, step)
    BY DEF ByRecursion
  <2> HIDE DEF h
  <2> QED  BY <2>1
<1>2. ASSUME NEW k \in 0 .. n - 1, k \in P PROVE k + 1 \in P
  <2>1. PICK g : ByRecursion(g, k, S, a, step)
    BY <1>2
  <2> DEFINE h == [i \in 0 .. k + 1 |-> IF i <= k THEN g[i] ELSE step[k + 1][g[k]]]
  <2>2. h \in [0 .. k + 1 -> S]
    <3>1. step[k + 1] \in [S -> S] /\ g[k] \in S
      BY <2>1 DEF ByRecursion
    <3> QED  BY <2>1, <3>1 DEF ByRecursion
  <2>3. h[0] = a
    BY <2>1 DEF ByRecursion
  <2>4. ASSUME NEW i \in 1 .. k + 1 PROVE h[i] = step[i][h[i - 1]]
    BY <2>1 DEF ByRecursion
  <2>5. k + 1 \in 0 .. n
    OBVIOUS
  <2> HIDE DEF h
  <2>6. ByRecursion(h, k + 1, S, a, step)
    BY <2>2, <2>3, <2>4 DEF ByRecursion
  <2> QED  BY <2>5, <2>6
<1>3. \A k \in 0 .. n : k \in P
  <2> HIDE DEF P
  <2> QED  BY <1>1, <1>2, Climb
<1> QED  BY <1>3

\* A function that satisfies the equations does so on all numbers.
LEMMA Unique ==
    ASSUME NEW n \in Nat, NEW S, NEW a \in S, NEW step \in [1 .. n -> [S -> S]], NEW t,
           t = [i \in 0 .. n |-> t[i]], t[0] = a,
           \A i \in 1 .. n : t[i - 1] \in S => t[i] = step[i][t[i - 1]]
    PROVE  ByRecursion(t, n, S, a, step)
<1> DEFINE P == {k \in 0 .. n : t[k] \in S}
<1>1. 0 \in P
  OBVIOUS
<1>2. ASSUME NEW k \in 0 .. n - 1, k \in P PROVE k + 1 \in P
  <2>1. k + 1 \in 1 .. n /\ (k + 1) - 1 = k /\ t[k] \in S
    BY <1>2
  <2>2. t[k + 1] = step[k + 1][t[k]]
    BY <2>1
  <2>3. step[k + 1] \in [S -> S]
    BY <2>1
  <2> QED  BY <2>1, <2>2, <2>3
<1>3. \A k \in 0 .. n : k \in P
  <2> HIDE DEF P
  <2> QED  BY <1>1, <1>2, Climb
<1>4. t \in [0 .. n -> S]
  BY <1>3
<1>5. \A i \in 1 .. n : t[i - 1] \in S
  BY <1>3
<1> QED  BY <1>4, <1>5 DEF ByRecursion

LEMMA Totalled ==
    ASSUME NEW f \in Seq(Nat)
    PROVE  /\ Totals(f) \in [0 .. Len(f) -> Nat]
           /\ Totals(f)[0] = 0
           /\ \A i \in 1 .. Len(f) : Totals(f)[i] = Totals(f)[i - 1] + f[i]
<1> DEFINE n == Len(f)
           Body(g) == [i \in 0 .. n |-> IF i = 0 THEN 0 ELSE g[i - 1] + f[i]]
           step == [i \in 1 .. n |-> [x \in Nat |-> x + f[i]]]
           t == Totals(f)
<1>1. n \in Nat /\ \A i \in 1 .. n : f[i] \in Nat
  OBVIOUS
<1>2. /\ 0 \in Nat /\ step \in [1 .. n -> [Nat -> Nat]]
      /\ \A i \in 1 .. n, x \in Nat : step[i][x] = x + f[i]
  <2> HIDE DEF n
  <2>1. \A i \in 1 .. n : [x \in Nat |-> x + f[i]] \in [Nat -> Nat]
    BY <1>1
  <2> QED  BY <2>1
<1> HIDE DEF n, step
<1>3. PICK g : ByRecursion(g, n, Nat, 0, step)
  BY <1>1, <1>2, Recursion
<1>4. g = Body(g)
  <2>1. ASSUME NEW i \in 0 .. n PROVE g[i] = IF i = 0 THEN 0 ELSE g[i - 1] + f[i]
    <3>1. CASE i # 0
      <4>1. i \in 1 .. n /\ i - 1 \in 0 .. n
        BY <1>1, <3>1
      <4> QED  BY <1>2, <1>3, <3>1, <4>1 DEF ByRecursion
    <3> QED  BY <1>3, <3>1 DEF ByRecursion
  <2>2. g = [i \in 0 .. n |-> g[i]]
    BY <1>3 DEF ByRecursion
  <2> QED  BY <2>1, <2>2
<1>5. t = Body(t)
  <2>1. t = CHOOSE h : h = Body(h)
    BY DEF Totals, n
  <2> HIDE DEF t, Body
  <2> QED  BY <1>4, <2>1
<1> HIDE DEF t
<1>6. t = [i \in 0 .. n |-> t[i]] /\ t[0] = 0 /\ \A i \in 1 .. n : t[i] = t[i - 1] + f[i]
  <2>1. t = [i \in 0 .. n |-> t[i]]
    BY <1>5
  <2>2. \A i \in 0 .. n : t[i] = IF i = 0 THEN 0 ELSE t[i - 1] + f[i]
    BY <1>5
  <2> QED  BY <1>1, <2>1, <2>2
<1>7. ByRecursion(t, n, Nat, 0, step)
  BY <1>1, <1>2, <1>6, Unique
<1> QED  BY <1>6, <1>7 DEF ByRecursion, t, n

\* The places in set among the first of a list, of none to all of it.
Rank(list, set) == Totals([i \in DOMAIN list |-> IF i \in set THEN 1 ELSE 0])

LEMMA Ranked ==
    ASSUME NEW S, NEW list \in Seq(S), NEW set
    PROVE  /\ Rank(list, set) \in [0 .. Len(list) -> Nat]
           /\ Rank(list, set)[0] = 0
           /\ \A i \in 1 .. Len(list) :
                Rank(list, set)[i] = Rank(list, set)[i - 1] + IF i \in set THEN 1 ELSE 0
<1> DEFINE f == [i \in DOMAIN list |-> IF i \in set THEN 1 ELSE 0]
<1>1. f \in Seq(Nat) /\ Len(f) = Len(list)
  <2>1. f = [i \in 1 .. Len(list) |-> f[i]] /\ \A i \in 1 .. Len(list) : f[i] \in Nat
    OBVIOUS
  <2> QED  BY <2>1
<1>2. \A i \in 1 .. Len(list) : f[i] = IF i \in set THEN 1 ELSE 0
  OBVIOUS
<1>3. Rank(list, set) = Totals(f)
  BY DEF Rank
<1> HIDE DEF f
<1> QED  BY <1>1, <1>2, <1>3, Totalled

\* Those is a list of these members, each at the place that its rank says.
LEMMA ThoseAre ==
    ASSUME NEW S, NEW list \in Seq(S), NEW set
    PROVE  LET rank == Rank(list, set)
               those == Those(list, set)
           IN  /\ those \in Seq(S) /\ Len(those) = rank[Len(list)]
               /\ \A i \in DOMAIN list : i \in set =>
                    rank[i] \in DOMAIN those /\ those[rank[i]] = list[i]
               /\ \A k \in DOMAIN those : \E i \in DOMAIN list :
                    i \in set /\ rank[i] = k
<1> DEFINE n == Len(list)
           Body(g) == [i \in 0 .. n |->
                IF i = 0 THEN <<>>
                ELSE IF i \in set THEN Append(g[i - 1], list[i]) ELSE g[i - 1]]
           step == [i \in 1 .. n |->
                    [x \in Seq(S) |-> IF i \in set THEN Append(x, list[i]) ELSE x]]
           t == CHOOSE h : h = Body(h)
           rank == Rank(list, set)
<1>1. n \in Nat /\ DOMAIN list = 1 .. n /\ \A i \in 1 .. n : list[i] \in S
  OBVIOUS
<1>2. /\ <<>> \in Seq(S) /\ step \in [1 .. n -> [Seq(S) -> Seq(S)]]
      /\ \A i \in 1 .. n, x \in Seq(S) :
            step[i][x] = IF i \in set THEN Append(x, list[i]) ELSE x
  <2> HIDE DEF n
  <2>1. \A i \in 1 .. n, x \in Seq(S) : Append(x, list[i]) \in Seq(S)
    BY <1>1
  <2>2. \A i \in 1 .. n :
            [x \in Seq(S) |-> IF i \in set THEN Append(x, list[i]) ELSE x]
                \in [Seq(S) -> Seq(S)]
    BY <2>1
  <2> QED  BY <2>2
<1>3. /\ rank \in [0 .. n -> Nat] /\ rank[0] = 0
      /\ \A i \in 1 .. n : rank[i] = rank[i - 1] + IF i \in set THEN 1 ELSE 0
  BY Ranked
<1>4. Those(list, set) = t[n]
  BY DEF Those
<1> HIDE DEF n, step, rank
<1>5. PICK g : ByRecursion(g, n, Seq(S), <<>>, step)
  BY <1>1, <1>2, Recursion
<1>6. g = Body(g)
  <2>1. ASSUME NEW i \in 0 .. n
        PROVE  g[i] = IF i = 0 THEN <<>>
                      ELSE IF i \in set THEN Append(g[i - 1], list[i]) ELSE g[i - 1]
    <3>1. CASE i # 0
      <4>1. i \in 1 .. n /\ i - 1 \in 0 .. n
        BY <1>1, <3>1
      <4> QED  BY <1>2, <1>5, <3>1, <4>1 DEF ByRecursion
    <3> QED  BY <1>5, <3>1 DEF ByRecursion
  <2>2. g = [i \in 0 .. n |-> g[i]]
    BY <1>5 DEF ByRecursion
  <2> QED  BY <2>1, <2>2
<1>7. t = Body(t)
  <2> HIDE DEF Body
  <2> QED  BY <1>6
<1> HIDE DEF t
<1>8. /\ t = [i \in 0 .. n |-> t[i]] /\ t[0] = <<>>
      /\ \A i \in 1 .. n : t[i] = IF i \in set THEN Append(t[i - 1], list[i]) ELSE t[i - 1]
  <2>1. t = [i \in 0 .. n |-> t[i]]
    BY <1>7
  <2>2. \A i \in 0 .. n :
            t[i] = IF i = 0 THEN <<>>
                   ELSE IF i \in set THEN Append(t[i - 1], list[i]) ELSE t[i - 1]
    BY <1>7
  <2> QED  BY <1>1, <2>1, <2>2
<1>9. ByRecursion(t, n, Seq(S), <<>>, step)
  BY <1>1, <1>2, <1>8, Unique
<1> DEFINE Good(k) ==
                /\ t[k] \in Seq(S) /\ Len(t[k]) = rank[k]
                /\ \A i \in 1 .. k : i \in set =>
                        rank[i] \in 1 .. rank[k] /\ t[k][rank[i]] = list[i]
                /\ \A j \in 1 .. rank[k] : \E i \in 1 .. k : i \in set /\ rank[i] = j
           P == {k \in 0 .. n : Good(k)}
<1>10. 0 \in P
  BY <1>1, <1>3, <1>8
<1>11. ASSUME NEW k \in 0 .. n - 1, k \in P PROVE k + 1 \in P
  <2>1. /\ k \in 0 .. n /\ k + 1 \in 1 .. n /\ k + 1 \in 0 .. n /\ (k + 1) - 1 = k
        /\ k \in Nat /\ \A i \in 1 .. k + 1 : i = k + 1 \/ i \in 1 .. k
    BY <1>1
  <2>2. Good(k) /\ rank[k] \in Nat
    BY <1>3, <1>11, <2>1
  <2>3. CASE k + 1 \in set
    <3>1. /\ rank[k + 1] = rank[k] + 1
          /\ t[k + 1] = Append(t[k], list[k + 1]) /\ list[k + 1] \in S
      BY <1>1, <1>3, <1>8, <2>1, <2>3
    <3>2. /\ t[k + 1] \in Seq(S) /\ Len(t[k + 1]) = rank[k + 1]
          /\ t[k + 1][rank[k] + 1] = list[k + 1]
          /\ \A j \in 1 .. rank[k] : t[k + 1][j] = t[k][j]
      BY <2>2, <3>1
    <3>3. \A i \in 1 .. k + 1 : i \in set =>
                rank[i] \in 1 .. rank[k + 1] /\ t[k + 1][rank[i]] = list[i]
      BY <2>1, <2>2, <3>1, <3>2
    <3>4. \A j \in 1 .. rank[k + 1] : \E i \in 1 .. k + 1 : i \in set /\ rank[i] = j
      <4>1. \A j \in 1 .. rank[k + 1] : j \in 1 .. rank[k] \/ j = rank[k + 1]
        BY <2>2, <3>1
      <4> QED  BY <2>1, <2>2, <2>3, <4>1
    <3> QED  BY <2>1, <3>2, <3>3, <3>4
  <2>4. CASE k + 1 \notin set
    <3>1. rank[k + 1] = rank[k] /\ t[k + 1] = t[k]
      <4>1. rank[k + 1] = rank[k] + 0
        BY <1>3, <2>1, <2>4
      <4>2. t[k + 1] = t[k]
        BY <1>8, <2>1, <2>4
      <4> QED  BY <2>2, <4>1, <4>2
    <3>2. Good(k + 1)
      BY <2>1, <2>2, <2>4, <3>1
    <3> QED  BY <2>1, <3>2
  <2> QED  BY <2>3, <2>4
<1>12. Good(n)
  <2>1. n \in P
    <3> HIDE DEF P
    <3> QED  BY <1>1, <1>10, <1>11, Climb
  <2> QED  BY <2>1
<1>13. /\ t[n] \in Seq(S) /\ Len(t[n]) = rank[n] /\ DOMAIN t[n] = 1 .. rank[n]
       /\ \A i \in 1 .. n : i \in set => rank[i] \in 1 .. rank[n] /\ t[n][rank[i]] = list[i]
       /\ \A j \in 1 .. rank[n] : \E i \in 1 .. n : i \in set /\ rank[i] = j
  BY <1>12
<1> QED  BY <1>1, <1>4, <1>13 DEF n, rank

-----------------------------------------------------------------------------
Roles == {"single", "first", "second"}

\* What Role says of a list: an item's role follows from that of the item before.
LEMMA RoleIs ==
    ASSUME NEW list \in Seq(Item)
    PROVE  LET role == Role(list)
               pair(i) == list[i].byte /\ i < Len(list) /\ list[i + 1].byte
           IN  /\ role \in [0 .. Len(list) -> Roles] /\ role[0] = "single"
               /\ \A i \in 1 .. Len(list) :
                    role[i] = IF role[i - 1] = "first" THEN "second"
                              ELSE IF pair(i) THEN "first" ELSE "single"
<1> DEFINE n == Len(list)
           Pair(i) == list[i].byte /\ i < n /\ list[i + 1].byte
           After(x, i) == IF x = "first" THEN "second"
                         ELSE IF Pair(i) THEN "first" ELSE "single"
           Body(g) == [i \in 0 .. n |-> IF i = 0 THEN "single" ELSE After(g[i - 1], i)]
           step == [i \in 1 .. n |-> [x \in Roles |-> After(x, i)]]
           t == Role(list)
<1>1. n \in Nat
  OBVIOUS
<1>2. \A x, i : After(x, i) \in Roles
  BY DEF Roles
<1>3. t = CHOOSE h : h = Body(h)
  BY DEF Role
<1> HIDE DEF n, After
<1>4. /\ "single" \in Roles /\ step \in [1 .. n -> [Roles -> Roles]]
      /\ \A i \in 1 .. n, x \in Roles : step[i][x] = After(x, i)
  <2>1. \A i \in 1 .. n : [x \in Roles |-> After(x, i)] \in [Roles -> Roles]
    BY <1>2
  <2>2. "single" \in Roles
    BY DEF Roles
  <2> QED  BY <2>1, <2>2
<1> HIDE DEF t, step
<1>5. PICK g : ByRecursion(g, n, Roles, "single", step)
  BY <1>1, <1>4, Recursion
<1>6. g = Body(g)
  <2>1. ASSUME NEW i \in 0 .. n PROVE g[i] = IF i = 0 THEN "single" ELSE After(g[i - 1], i)
    <3>1. CASE i # 0
      <4>1. i \in 1 .. n /\ i - 1 \in 0 .. n
        BY <1>1, <3>1
      <4> QED  BY <1>4, <1>5, <3>1, <4>1 DEF ByRecursion
    <3> QED  BY <1>5, <3>1 DEF ByRecursion
  <2>2. g = [i \in 0 .. n |-> g[i]]
    BY <1>5 DEF ByRecursion
  <2> QED  BY <2>1, <2>2
<1>7. t = Body(t)
  <2> HIDE DEF Body
  <2> QED  BY <1>3, <1>6
<1>8. /\ t = [i \in 0 .. n |-> t[i]] /\ t[0] = "single"
      /\ \A i \in 1 .. n : t[i] = After(t[i - 1], i)
  <2>1. t = [i \in 0 .. n |-> t[i]]
    BY <1>7
  <2>2. \A i \in 0 .. n : t[i] = IF i = 0 THEN "single" ELSE After(t[i - 1], i)
    BY <1>7
  <2> QED  BY <1>1, <2>1, <2>2
<1>9. ByRecursion(t, n, Roles, "single", step)
  BY <1>1, <1>4, <1>8, Unique
<1>10. t \in [0 .. n -> Roles]
  BY <1>9 DEF ByRecursion
<1> QED  BY <1>8, <1>10 DEF t, n, After

\* Bytes come in pairs or alone.
LEMMA Pairs ==
    ASSUME NEW list \in Seq(Item), NEW i \in DOMAIN list
    PROVE  LET role == Role(list)
           IN  /\ role[i] \in Roles
               /\ role[i] = "first" => /\ i < Len(list) /\ list[i].byte /\ list[i + 1].byte
                                       /\ role[i + 1] = "second"
               /\ role[i] = "second" => i > 1 /\ role[i - 1] = "first"
               /\ role[i] = "single" => \/ ~list[i].byte \/ i = Len(list)
                                        \/ ~list[i + 1].byte
<1> DEFINE role == Role(list)
<1>1. /\ Len(list) \in Nat /\ i \in 1 .. Len(list) /\ role[0] = "single"
      /\ \A j \in 0 .. Len(list) : role[j] \in Roles
      /\ \A j \in 1 .. Len(list) :
            role[j] = IF role[j - 1] = "first" THEN "second"
                      ELSE IF list[j].byte /\ j < Len(list) /\ list[j + 1].byte
                           THEN "first" ELSE "single"
  BY RoleIs
<1> HIDE DEF role
<1>2. role[i] = "first" => i < Len(list) /\ list[i].byte /\ list[i + 1].byte
  BY <1>1
<1>3. role[i] = "first" => role[i + 1] = "second"
  <2>1. i < Len(list) => i + 1 \in 1 .. Len(list) /\ (i + 1) - 1 = i
    BY <1>1
  <2> QED  BY <1>1, <1>2, <2>1
<1>4. role[i] = "second" => i > 1 /\ role[i - 1] = "first"
  BY <1>1
<1> QED  BY <1>1, <1>2, <1>3, <1>4 DEF role

LEMMA PlacementIs ==
    ASSUME NEW list \in Seq(Item), NEW a \in Nat
    PROVE  LET ptr == Placement(list, a)
           IN  /\ ptr \in [1 .. Len(list) + 1 -> Nat] /\ ptr[1] = a
               /\ \A i \in DOMAIN list :
                    ptr[i + 1] = ptr[i] + IF Role(list)[i] = "single" THEN 2 ELSE 1
<1> DEFINE f == Sizes(list)
           total == Totals(f)
           ptr == Placement(list, a)
<1>1. /\ f \in Seq(Nat) /\ Len(f) = Len(list) /\ Len(list) \in Nat
      /\ \A i \in DOMAIN list : f[i] = IF Role(list)[i] = "single" THEN 2 ELSE 1
  <2>1. f = [i \in 1 .. Len(list) |-> f[i]] /\ \A i \in 1 .. Len(list) : f[i] \in Nat
    BY DEF Sizes
  <2>2. \A i \in DOMAIN list : f[i] = IF Role(list)[i] = "single" THEN 2 ELSE 1
    BY DEF Sizes
  <2> HIDE DEF f
  <2>3. Len(list) \in Nat
    OBVIOUS
  <2>4. f \in Seq(Nat)
    BY <2>1, <2>3
  <2>5. Len(f) = Len(list)
    BY <2>1, <2>3
  <2> QED  BY <2>2, <2>3, <2>4, <2>5
<1>2. ptr = [i \in 1 .. Len(list) + 1 |-> a + total[i - 1]]
  BY DEF Placement
<1> HIDE DEF f, total, ptr
<1>3. /\ total \in [0 .. Len(list) -> Nat] /\ total[0] = 0
      /\ \A i \in 1 .. Len(list) : total[i] = total[i - 1] + f[i]
  BY <1>1, Totalled DEF total
<1>4. /\ \A i \in 1 .. Len(list) + 1 : i - 1 \in 0 .. Len(list)
      /\ \A i \in 1 .. Len(list) : i \in 1 .. Len(list) + 1 /\ i + 1 \in 1 .. Len(list) + 1
                                   /\ (i + 1) - 1 = i /\ i - 1 \in 0 .. Len(list)
  BY <1>1
<1>5. \A i \in 1 .. Len(list) + 1 : ptr[i] \in Nat
  BY <1>2, <1>3, <1>4
<1>6. \A i \in 1 .. Len(list) : ptr[i + 1] = ptr[i] + f[i]
  <2> SUFFICES ASSUME NEW i \in 1 .. Len(list) PROVE ptr[i + 1] = ptr[i] + f[i]
    OBVIOUS
  <2>1. ptr[i + 1] = a + total[i] /\ ptr[i] = a + total[i - 1]
    BY <1>2, <1>4
  <2>2. total[i] = total[i - 1] + f[i] /\ total[i - 1] \in Nat /\ f[i] \in Nat
    BY <1>1, <1>3, <1>4
  <2> QED  BY <2>1, <2>2
<1>7. ptr[1] = a
  BY <1>1, <1>2, <1>3
<1>8. ptr \in [1 .. Len(list) + 1 -> Nat]
  BY <1>2, <1>5
<1>9. \A i \in DOMAIN list : i \in 1 .. Len(list)
  OBVIOUS
<1> QED  BY <1>1, <1>6, <1>7, <1>8, <1>9 DEF ptr

-----------------------------------------------------------------------------
\* The numbers that labels have.
Nrs == {labels[i].nr : i \in DOMAIN labels}

\* The numbers of the labels that the guard counts.
Row == instrNr - guard .. instrNr - 1

Label == [name : Names, nr : Nat, ptr : Nat]

IInv ==
    /\ instrNr \in Nat /\ guard \in 0 .. instrNr
    /\ labels \in Seq(Label)
    /\ Row \subseteq Nrs
    /\ \A i \in DOMAIN labels :
        /\ labels[i].nr < instrNr
        /\ labels[i].ptr > labels[i].nr /\ labels[i].ptr \notin Nrs
        /\ labels[i].nr + 1 .. labels[i].ptr - 1 \subseteq Nrs
        /\ labels[i].ptr <= instrNr
        /\ labels[i].nr \in Row <=> labels[i].ptr = instrNr

-----------------------------------------------------------------------------
LEMMA SourceTypes ==
    /\ NoName \notin Names /\ Lines \subseteq Line
    /\ Low \in Nat /\ Low > 0 /\ High \in Nat /\ High > 0
BY AsmSourceAssumption, LinesAssumption DEF Line

\* An item as the parser appends it.
Fresh == {t \in Item : t.addr = NoNr /\ t.code = NoNr /\ ~t.byte2}

LEMMA InstructionType ==
    ASSUME NEW op \in ItemOps, NEW name \in Names \cup {NoName},
           NEW v \in Int
    PROVE  /\ Instruction(op, name, v) \in Fresh
           /\ [Instruction(op, name, v) EXCEPT !.ld16 = TRUE] \in Fresh
           /\ [Instruction(op, name, v) EXCEPT !.byte = TRUE] \in Fresh
           /\ [Instruction(op, name, v) EXCEPT !.bss = TRUE] \in Fresh
<1>1. NoNr \in Int
  BY DEF NoNr
<1>2. Instruction(op, name, v) \in Fresh
  BY <1>1 DEF Instruction, Item, Fresh
<1>3. \A t \in Fresh : /\ [t EXCEPT !.ld16 = TRUE] \in Fresh
                     /\ [t EXCEPT !.byte = TRUE] \in Fresh
                     /\ [t EXCEPT !.bss = TRUE] \in Fresh
  BY DEF Item, Fresh
<1> QED  BY <1>2, <1>3

\* Whatever a line stands for, it is a sequence of items.
LEMMA ItemsType == ASSUME NEW l \in Lines, l.op \notin Directives \cup {"label"}
                   PROVE  Items(l) \in Seq(Fresh)
<1> USE SourceTypes
<1>1. /\ l.op \in LineOps /\ l.name \in Names \cup {NoName} /\ l.val \in Int
      /\ l.chars \in Seq(Int)
  BY DEF Line
<1>2. NoName \in Names \cup {NoName} /\ 0 \in Int
  OBVIOUS
<1>3. ASSUME NEW v \in Int PROVE Byte(v) \in Fresh
  BY <1>2, <1>3, InstructionType DEF Byte, LineOps, ItemOps
<1>4. CASE l.op = "ld16"
  <2>1. Instruction("ldi", NoName, l.val) \in Fresh
    BY <1>1, <1>2, InstructionType DEF LineOps, ItemOps
  <2>2. l.val % Low \in Int /\ (l.val \div Low) % High \in Int
    BY <1>1, SMT
  <2>3. /\ [Instruction("ldi", NoName, l.val % Low) EXCEPT !.ld16 = TRUE] \in Fresh
        /\ [Instruction("addhi", NoName, (l.val \div Low) % High)
                EXCEPT !.ld16 = TRUE] \in Fresh
    BY <1>2, <2>2, InstructionType DEF LineOps, ItemOps
  <2>4. Ld16(l.val) \in Seq(Fresh)
    BY <2>1, <2>3 DEF Ld16
  <2> QED  BY <1>4, <2>4 DEF Items
<1>5. CASE l.op = "la16"
  <2>1. Instruction("lda", l.name, l.val) \in Fresh /\ Instruction("addhi", l.name, l.val) \in Fresh
    BY <1>1, InstructionType DEF ItemOps
  <2> QED  BY <1>5, <2>1 DEF Items
<1>6. CASE l.op = "defstr"
  <2>1. Len(l.chars) \in Nat
    BY <1>1
  <2>2. \A i \in 1 .. Len(l.chars) + 1 :
            (IF i > Len(l.chars) THEN 0 ELSE l.chars[i]) \in Int
    BY <1>1
  <2>3. \A i \in 1 .. Len(l.chars) + 1 :
            Byte(IF i > Len(l.chars) THEN 0 ELSE l.chars[i]) \in Fresh
    BY <1>3, <2>2
  <2>4. [i \in 1 .. Len(l.chars) + 1 |-> Byte(IF i > Len(l.chars) THEN 0 ELSE l.chars[i])]
            \in Seq(Fresh)
    BY <2>1, <2>3
  <2> QED  BY <1>6, <2>4 DEF Items
<1>7. CASE l.op = "defs"
  <2> DEFINE word == [Instruction("defw", NoName, 0) EXCEPT !.bss = TRUE]
  <2>1. word \in Fresh
    BY <1>2, InstructionType DEF LineOps, ItemOps
  <2>2. l.val \div 2 \in Nat
    BY <1>1, <1>7, LinesAssumption, SMT
  <2>3. Items(l) = [i \in 1 .. l.val \div 2 |-> word]
    BY <1>7 DEF Items
  <2> HIDE DEF word
  <2> QED  BY <2>1, <2>2, <2>3
<1>8. CASE l.op = "defb"
  BY <1>1, <1>3, <1>8 DEF Items
<1>9. CASE l.op \notin {"ld16", "la16", "defstr", "defs", "defb"}
  <2>1. Instruction(l.op, l.name, l.val) \in Fresh
    BY <1>1, InstructionType DEF ItemOps
  <2> QED  BY <1>9, <2>1 DEF Items
<1> QED  BY <1>4, <1>5, <1>6, <1>7, <1>8, <1>9

-----------------------------------------------------------------------------
LEMMA LabelTypes ==
    ASSUME IInv
    PROVE  /\ Len(labels) \in Nat /\ DOMAIN labels = 1 .. Len(labels)
           /\ \A i \in DOMAIN labels :
                labels[i] \in Label /\ labels[i].nr \in Nat /\ labels[i].ptr \in Nat
           /\ \A n \in Nrs : n \in Nat /\ n < instrNr
<1>1. labels \in Seq(Label)
  BY DEF IInv
<1>2. Len(labels) \in Nat /\ DOMAIN labels = 1 .. Len(labels)
  BY <1>1
<1>3. \A i \in DOMAIN labels : labels[i] \in Label
  BY <1>1
<1>4. \A i \in DOMAIN labels : labels[i].nr \in Nat /\ labels[i].ptr \in Nat
  BY <1>3 DEF Label
<1>5. \A i \in DOMAIN labels : labels[i].nr < instrNr
  BY DEF IInv
<1> QED  BY <1>2, <1>3, <1>4, <1>5 DEF Nrs

\* A label joins the row, and the labels of the row move on.
LEMMA LabelStep == ASSUME IInv, NEW l \in Lines, ParseLabel(l) PROVE IInv'
<1> DEFINE new == [name |-> l.name, nr |-> instrNr, ptr |-> instrNr + 1]
<1> USE DEF Row
<1>1. /\ instrNr' = instrNr + 1 /\ guard' = guard + 1
      /\ labels' = Append(MovedOn, new)
  BY DEF ParseLabel
<1>2. new \in Label
  BY LinesAssumption DEF ParseLabel, IInv, Label
<1>3. /\ MovedOn \in Seq(Label) /\ Len(MovedOn) = Len(labels)
      /\ DOMAIN labels = 1 .. Len(labels)
      /\ \A i \in DOMAIN labels :
            /\ MovedOn[i].nr = labels[i].nr
            /\ MovedOn[i].ptr = IF labels[i].nr \in Row THEN instrNr + 1 ELSE labels[i].ptr
  <2>1. \A i \in DOMAIN labels : labels[i] \in Label /\ labels[i].ptr \in Nat
    BY LabelTypes
  <2>2. \A i \in DOMAIN labels :
            /\ MovedOn[i] \in Label /\ MovedOn[i].nr = labels[i].nr
            /\ MovedOn[i].ptr = IF labels[i].nr \in Row THEN labels[i].ptr + 1 ELSE labels[i].ptr
    BY <2>1 DEF MovedOn, Label
  <2>3. DOMAIN labels = 1 .. Len(labels) /\ Len(labels) \in Nat
    BY LabelTypes
  <2>4. MovedOn \in Seq(Label) /\ Len(MovedOn) = Len(labels)
    <3>1. MovedOn = [i \in 1 .. Len(labels) |-> MovedOn[i]]
      BY <2>3 DEF MovedOn
    <3> QED  BY <2>2, <2>3, <3>1
  <2> QED  BY <2>2, <2>3, <2>4 DEF IInv
<1> HIDE DEF new
<1>4. new.nr = instrNr /\ new.ptr = instrNr + 1
  BY DEF new
<1>5. /\ labels' \in Seq(Label) /\ DOMAIN labels' = 1 .. Len(labels) + 1
      /\ labels'[Len(labels) + 1] = new
      /\ \A i \in DOMAIN labels : labels'[i] = MovedOn[i]
  BY <1>1, <1>2, <1>3, LabelTypes
<1>6. Nrs' = Nrs \cup {instrNr}
  <2>1. \A i \in DOMAIN labels : i \in DOMAIN labels' /\ labels'[i].nr = labels[i].nr
    BY <1>3, <1>5, LabelTypes
  <2>2. \A i \in DOMAIN labels' : i \in DOMAIN labels \/ labels'[i].nr = instrNr
    <3>1. \A i \in 1 .. Len(labels) + 1 : i \in 1 .. Len(labels) \/ i = Len(labels) + 1
      BY LabelTypes
    <3> QED  BY <1>4, <1>5, <3>1, LabelTypes
  <2>3. Len(labels) + 1 \in DOMAIN labels'
    BY <1>5, LabelTypes
  <2>4. Nrs' \subseteq Nrs \cup {instrNr}
    BY <2>1, <2>2 DEF Nrs
  <2>5. Nrs \cup {instrNr} \subseteq Nrs'
    BY <1>4, <1>5, <2>1, <2>3 DEF Nrs
  <2> QED  BY <2>4, <2>5
<1>7. Row' = Row \cup {instrNr}
  BY <1>1 DEF IInv
<1>8. \A n \in Nrs : n \in Nat /\ n < instrNr
  BY LabelTypes
<1>9. ASSUME NEW i \in DOMAIN labels'
      PROVE  /\ labels'[i].nr < instrNr'
             /\ labels'[i].ptr > labels'[i].nr /\ labels'[i].ptr \notin Nrs'
             /\ labels'[i].nr + 1 .. labels'[i].ptr - 1 \subseteq Nrs'
             /\ labels'[i].ptr <= instrNr'
             /\ labels'[i].nr \in Row' <=> labels'[i].ptr = instrNr'
  <2>1. CASE i = Len(labels) + 1
    BY <1>1, <1>4, <1>5, <1>6, <1>7, <1>8, <2>1 DEF IInv
  <2>2. CASE i # Len(labels) + 1
    <3>0. i \in DOMAIN labels
      BY <1>5, <2>2, LabelTypes
    <3>1. /\ i \in DOMAIN labels /\ labels[i].nr \in Nat /\ labels[i].ptr \in Nat
          /\ labels'[i].nr = labels[i].nr
          /\ labels'[i].ptr = IF labels[i].nr \in Row THEN instrNr + 1 ELSE labels[i].ptr
      BY <1>3, <1>5, <3>0, LabelTypes
    <3>2. CASE labels[i].nr \in Row
      <4>1. labels[i].ptr = instrNr
        BY <3>1, <3>2 DEF IInv
      <4>2. labels'[i].nr + 1 .. labels'[i].ptr - 1
                \subseteq (labels[i].nr + 1 .. labels[i].ptr - 1) \cup {instrNr}
        BY <3>1, <3>2, <4>1 DEF IInv
      <4> QED  BY <1>1, <1>6, <1>7, <1>8, <3>1, <3>2, <4>1, <4>2 DEF IInv
    <3>3. CASE labels[i].nr \notin Row
      BY <1>1, <1>6, <1>7, <1>8, <3>1, <3>3 DEF IInv
    <3> QED  BY <3>2, <3>3
  <2> QED  BY <2>1, <2>2
<1>10. Row' \subseteq Nrs'
  BY <1>6, <1>7 DEF IInv
<1> QED  BY <1>1, <1>5, <1>9, <1>10 DEF IInv

\* Items end the row; a line that stands for none changes nothing.
LEMMA ItemsStep == ASSUME IInv, NEW l \in Lines, ParseItems(l) PROVE IInv'
<1> USE DEF Row
<1>1. Items(l) \in Seq(Fresh)
  BY ItemsType DEF ParseItems
<1>2. /\ instrNr' = instrNr + Len(Items(l))
      /\ guard' = IF Items(l) = <<>> THEN guard ELSE 0
      /\ labels' = labels
  BY DEF ParseItems, GuardAfter
<1>3. Nrs' = Nrs
  BY <1>2 DEF Nrs
<1>4. CASE Items(l) = <<>>
  <2>1. instrNr' = instrNr /\ guard' = guard
    BY <1>2, <1>4 DEF IInv
  <2> QED  BY <1>2, <1>3, <2>1 DEF IInv
<1>5. CASE Items(l) # <<>>
  <2>1. Len(Items(l)) \in Nat /\ Len(Items(l)) > 0
    BY <1>1, <1>5
  <2>2. \A i \in DOMAIN labels : labels[i].nr \in Nat /\ labels[i].ptr \in Nat
    BY LabelTypes
  <2>3. /\ instrNr' \in Nat /\ instrNr' > instrNr /\ guard' = 0
    BY <1>2, <1>5, <2>1 DEF IInv
  <2>4. \A n : n \notin Row'
    BY <2>3
  <2> QED  BY <1>2, <1>3, <2>2, <2>3, <2>4 DEF IInv
<1> QED  BY <1>4, <1>5

LEMMA Initially == Init => IInv
BY DEF Init, IInv, Nrs, Row

LEMMA Inductive == IInv /\ [Next]_vars => IInv'
<1> SUFFICES ASSUME IInv, [Next]_vars PROVE IInv'
  OBVIOUS
<1>1. CASE ParseLine
  <2>1. PICK l \in Lines : ParseLabel(l) \/ ParseItems(l) \/ ParseCode(l) \/ ParseData(l)
    BY <1>1 DEF ParseLine
  <2>2. CASE ParseLabel(l)
    BY <2>2, LabelStep
  <2>3. CASE ParseItems(l)
    BY <2>3, ItemsStep
  <2>4. CASE ParseCode(l) \/ ParseData(l)
    BY <2>4 DEF ParseCode, ParseData, tables, IInv, Nrs, Row
  <2> QED  BY <2>1, <2>2, <2>3, <2>4
<1>2. CASE \/ EndOfFile \/ Idsymbols \/ Placeinstr \/ Placemem
           \/ Resolveptrs \/ Build \/ Write \/ UNCHANGED vars
  <2>1. UNCHANGED <<instrNr, guard, labels>>
    BY <1>2 DEF EndOfFile, Idsymbols, Placeinstr, Placemem, Resolveptrs, Build, Write,
                vars, tables
  <2> QED  BY <2>1 DEF IInv, Nrs, Row
<1> QED  BY <1>1, <1>2 DEF Next

\* In every program, of any length, each label points to the first number
\* behind it that is not the number of a label.
THEOREM LabelsCorrect == Spec => []LabelsNameNextItem
<1>1. IInv => LabelsNameNextItem
  BY DEF IInv, Nrs, LabelsNameNextItem
<1> QED  BY <1>1, Initially, Inductive, PTL DEF Spec

-----------------------------------------------------------------------------
\* Items whose field fits a word, if they are encoded already.
Coded == {t \in Item : t.code \in NoNr .. Words - 1}

TypeInv ==
    /\ TypeOK
    /\ mem \in Seq(Coded) /\ instructions \in Seq(Coded)
    /\ pc \in {"parse", "idsymbols", "placeinstr", "placemem"} => mem \in Seq(Fresh)
    /\ pc = "write" => \A i \in DOMAIN instructions :
                            instructions[i].byte2 \/ instructions[i].code # NoNr

LEMMA WordsType == /\ Words \in Nat /\ Words >= 65536 /\ BrSpan \in Nat /\ BrSpan <= Words
                   /\ 2 * Low \in Nat /\ 2 * Low <= Words /\ High <= Words
<1>1. Low \in Nat /\ High \in Nat /\ Low >= 1 /\ High >= 2
  BY AsmSourceAssumption
<1>2. Words >= 65536 /\ BrSpan \in 1 .. Words
  BY AsmSourceAssumption
<1>3. Low * High \in Nat /\ 2 * Low <= Low * High /\ High <= Low * High
  BY <1>1, SMT
<1> QED  BY <1>1, <1>2, <1>3 DEF Words

LEMMA FreshIsCoded == Fresh \subseteq Coded
BY WordsType DEF Fresh, Coded, NoNr

LEMMA SeqsWiden == ASSUME NEW S, NEW T, S \subseteq T PROVE Seq(S) \subseteq Seq(T)
<1> SUFFICES ASSUME NEW s \in Seq(S) PROVE s \in Seq(T)
  OBVIOUS
<1>1. Len(s) \in Nat /\ s = [i \in 1 .. Len(s) |-> s[i]] /\ \A i \in 1 .. Len(s) : s[i] \in T
  OBVIOUS
<1> QED  BY <1>1

LEMMA NumberedIs ==
    ASSUME NEW items \in Seq(Fresh), instrNr \in Nat
    PROVE  /\ Numbered(items) \in Seq(Fresh) /\ Len(Numbered(items)) = Len(items)
           /\ \A k \in 1 .. Len(items) :
                Numbered(items)[k] = [items[k] EXCEPT !.nr = instrNr + k - 1]
<1>1. Len(items) \in Nat /\ DOMAIN items = 1 .. Len(items)
      /\ \A k \in 1 .. Len(items) : items[k] \in Fresh
  OBVIOUS
<1>2. \A k \in 1 .. Len(items) : instrNr + k - 1 \in Int
  OBVIOUS
<1>3. \A t \in Fresh, m \in Int : [t EXCEPT !.nr = m] \in Fresh
  BY DEF Fresh, Item
<1>4. \A k \in 1 .. Len(items) : /\ Numbered(items)[k] \in Fresh
                                 /\ Numbered(items)[k] = [items[k] EXCEPT !.nr = instrNr + k - 1]
  BY <1>1, <1>2, <1>3 DEF Numbered
<1>5. Numbered(items) = [k \in 1 .. Len(items) |-> Numbered(items)[k]]
  BY <1>1 DEF Numbered
<1>6. Numbered(items) \in Seq(Fresh)
  BY <1>1, <1>4, <1>5
<1>7. Len(Numbered(items)) = Len(items)
  BY <1>1, <1>5
<1> QED  BY <1>4, <1>6, <1>7

LEMMA ParseTypes == ASSUME TypeInv, ParseLine PROVE TypeInv'
<1>1. PICK l \in Lines : /\ source' = Append(source, l)
                         /\ ParseLabel(l) \/ ParseItems(l) \/ ParseCode(l) \/ ParseData(l)
  BY DEF ParseLine
<1>2. /\ pc = "parse" /\ Len(source) < MaxLines /\ MaxLines \in Nat
      /\ UNCHANGED results
  BY AsmSourceAssumption DEF ParseLine
<1>3. source' \in Seq(Lines) /\ Len(source') <= MaxLines
  BY <1>1, <1>2 DEF TypeInv, TypeOK
<1>4. /\ instrNr \in Nat /\ guard \in 0 .. instrNr /\ codePtr \in Nat
      /\ labels \in Seq(Label)
      /\ instructions \in Seq(Coded) /\ mem \in Seq(Coded) /\ mem \in Seq(Fresh)
  BY <1>2 DEF TypeInv, TypeOK, Label
<1>5. /\ lastAddr' \in Nat /\ lastMemAddr' \in Nat
      /\ \A n \in DOMAIN symbols' : symbols'[n] \in [ptr : Int, addr : Int]
      /\ image' \in Seq([op : ItemOps, code : 0 .. Words - 1])
  BY <1>2 DEF TypeInv, TypeOK, results
<1>6. /\ pc' \in {"parse", "error"}
      /\ instrNr' \in Nat /\ guard' \in 0 .. instrNr' /\ codePtr' \in Nat
      /\ labels' \in Seq(Label)
      /\ instructions' \in Seq(Coded) /\ mem' \in Seq(Fresh)
  <2>1. CASE ParseLabel(l)
    <3>1. l.name \in Names
      BY <2>1, LinesAssumption DEF ParseLabel
    <3>2. MovedOn \in Seq(Label)
      <4>1. /\ Len(labels) \in Nat /\ DOMAIN labels = 1 .. Len(labels)
            /\ \A i \in DOMAIN labels : labels[i] \in Label
        <5>1. labels \in Seq(Label)
          BY <1>4
        <5> QED  BY <5>1
      <4>2. \A i \in DOMAIN labels : MovedOn[i] \in Label
        BY <4>1 DEF MovedOn, Label
      <4>3. MovedOn = [i \in 1 .. Len(labels) |-> MovedOn[i]]
        BY <4>1 DEF MovedOn
      <4> QED  BY <4>1, <4>2, <4>3
    <3>3. [name |-> l.name, nr |-> instrNr, ptr |-> instrNr + 1]
                \in Label
      BY <1>4, <3>1 DEF Label
    <3> QED  BY <1>2, <1>4, <2>1, <3>2, <3>3 DEF ParseLabel
  <2>2. CASE ParseItems(l)
    <3>1. Items(l) \in Seq(Fresh)
      BY <2>2, ItemsType DEF ParseItems
    <3>2. Numbered(Items(l)) \in Seq(Fresh) /\ Numbered(Items(l)) \in Seq(Coded)
      BY <1>4, <3>1, NumberedIs, FreshIsCoded, SeqsWiden
    <3>3. instrNr' = instrNr + Len(Items(l)) /\ guard' \in {guard, 0}
          /\ instructions' \in {instructions, instructions \o Numbered(Items(l))}
          /\ mem' \in {mem, mem \o Numbered(Items(l))} /\ UNCHANGED <<pc, codePtr, labels>>
      BY <2>2 DEF ParseItems, GuardAfter
    <3>4. Len(Items(l)) \in Nat
      BY <3>1
    <3>5. instructions' \in Seq(Coded)
      <4>1. instructions \o Numbered(Items(l)) \in Seq(Coded)
        BY <1>4, <3>2
      <4> QED  BY <1>4, <3>3, <4>1
    <3>6. mem' \in Seq(Fresh)
      <4>1. mem \o Numbered(Items(l)) \in Seq(Fresh)
        BY <1>4, <3>2
      <4> QED  BY <1>4, <3>3, <4>1
    <3> QED  BY <1>2, <1>4, <3>3, <3>4, <3>5, <3>6
  <2>3. CASE ParseCode(l)
    <3>1. l.val \in Nat
      BY <2>3, LinesAssumption DEF ParseCode, Line
    <3> QED  BY <1>2, <1>4, <2>3, <3>1 DEF ParseCode
  <2>4. CASE ParseData(l)
    BY <1>2, <1>4, <2>4 DEF ParseData, tables
  <2> QED  BY <1>1, <2>1, <2>2, <2>3, <2>4
<1>7. mem' \in Seq(Coded) /\ mem' \in Seq(Item) /\ instructions' \in Seq(Item)
  BY <1>6, FreshIsCoded, SeqsWiden DEF Coded
<1>8. \A i \in DOMAIN instructions' : instructions'[i].code \in NoNr .. Words - 1
  BY <1>6 DEF Coded
<1> QED  BY <1>3, <1>5, <1>6, <1>7, <1>8 DEF TypeInv, TypeOK, Passes, Label

\* The last label of a name exists.
LEMMA PtrOfIs ==
    ASSUME labels \in Seq(Label), NEW n \in LabelNames
    PROVE  \E i \in DOMAIN labels :
                /\ labels[i].name = n /\ PtrOf(n) = labels[i].ptr
                /\ \A j \in DOMAIN labels : labels[j].name = n => j <= i
<1> DEFINE U == {i \in DOMAIN labels : labels[i].name = n}
           IsLast(i) == /\ labels[i].name = n
                        /\ \A j \in i + 1 .. Len(labels) : labels[j].name # n
<1>1. Len(labels) \in Nat /\ DOMAIN labels = 1 .. Len(labels)
  OBVIOUS
<1>2. U \subseteq 1 .. Len(labels) /\ U # {}
  BY <1>1 DEF LabelNames
<1>3. PICK x \in U : \A y \in U : y <= x
  <2> HIDE DEF U
  <2> QED  BY <1>1, <1>2, Greatest
<1>4. x \in DOMAIN labels /\ IsLast(x)
  BY <1>1, <1>3
<1>5. PtrOf(n) = labels[CHOOSE i \in DOMAIN labels : IsLast(i)].ptr
  BY DEF PtrOf
<1> DEFINE c == CHOOSE i \in DOMAIN labels : IsLast(i)
<1>6. c \in DOMAIN labels /\ IsLast(c)
  <2> HIDE DEF IsLast
  <2> QED  BY <1>4
<1> HIDE DEF c
<1>7. \A j \in DOMAIN labels : labels[j].name = n => j <= c
  <2> SUFFICES ASSUME NEW j \in DOMAIN labels, labels[j].name = n, ~(j <= c) PROVE FALSE
    OBVIOUS
  <2>1. j \in c + 1 .. Len(labels)
    BY <1>1, <1>6
  <2> QED  BY <1>6, <2>1
<1> QED  BY <1>5, <1>6, <1>7 DEF c

LEMMA IdsymbolsTypes == ASSUME TypeInv, Idsymbols PROVE TypeInv'
<1>1. \A n \in LabelNames : PtrOf(n) \in Int
  <2> SUFFICES ASSUME NEW n \in LabelNames PROVE PtrOf(n) \in Int
    OBVIOUS
  <2>1. labels \in Seq(Label)
    BY DEF TypeInv, TypeOK, Label
  <2>2. PICK i \in DOMAIN labels : PtrOf(n) = labels[i].ptr
    BY <2>1, PtrOfIs
  <2>3. labels[i] \in Label
    BY <2>1
  <2> QED  BY <2>2, <2>3 DEF Label
<1> DEFINE entries == [n \in LabelNames \cup UsedNames |->
                        [ptr |-> IF n \in LabelNames THEN PtrOf(n) ELSE NoNr, addr |-> NoNr]]
<1>2. /\ (pc' = "placeinstr" /\ symbols' = entries) \/ (pc' = "error" /\ symbols' = symbols)
      /\ pc = "idsymbols"
      /\ UNCHANGED <<source, instrNr, guard, codePtr, labels, instructions, mem,
                     lastAddr, lastMemAddr, image>>
  BY DEF Idsymbols, tables
<1>3. \A n \in DOMAIN entries : entries[n] \in [ptr : Int, addr : Int]
  <2>1. \A n \in LabelNames \cup UsedNames :
            (IF n \in LabelNames THEN PtrOf(n) ELSE NoNr) \in Int /\ NoNr \in Int
    BY <1>1 DEF NoNr
  <2> QED  BY <2>1
<1> HIDE DEF entries
<1>4. \A n \in DOMAIN symbols' : symbols'[n] \in [ptr : Int, addr : Int]
  BY <1>2, <1>3 DEF TypeInv, TypeOK
<1>5. pc' \in Passes \cup {"done", "error"}
  BY <1>2 DEF Passes
<1> QED  BY <1>2, <1>4, <1>5 DEF TypeInv, TypeOK

LEMMA PlaceinstrTypes == ASSUME TypeInv, Placeinstr PROVE TypeInv'
<1>1. /\ instructions \in Seq(Coded) /\ codePtr \in Nat /\ Len(instructions) \in Nat
      /\ DOMAIN instructions = 1 .. Len(instructions)
  BY DEF TypeInv, TypeOK
<1>2. /\ instructions' = [i \in DOMAIN instructions |->
                            [instructions[i] EXCEPT !.addr = codePtr + 2 * (i - 1)]]
      /\ lastAddr' = codePtr + 2 * Len(instructions)
      /\ pc' = "placemem" /\ pc = "placeinstr"
      /\ UNCHANGED <<source, instrNr, guard, codePtr, labels, mem, lastMemAddr,
                     symbols, image>>
  BY DEF Placeinstr
<1>3. \A i \in 1 .. Len(instructions) : instructions'[i] \in Coded
  <2>1. \A t \in Coded, m \in Int : [t EXCEPT !.addr = m] \in Coded
    BY DEF Coded, Item
  <2>2. \A i \in 1 .. Len(instructions) : codePtr + 2 * (i - 1) \in Int
    BY <1>1
  <2> QED  BY <1>1, <1>2, <2>1, <2>2
<1>4. instructions' = [i \in 1 .. Len(instructions) |-> instructions'[i]]
  BY <1>1, <1>2
<1>5. instructions' \in Seq(Coded)
  BY <1>1, <1>3, <1>4
<1>6. instructions' \in Seq(Item)
      /\ \A i \in DOMAIN instructions' : instructions'[i].code \in NoNr .. Words - 1
  BY <1>5, SeqsWiden DEF Coded
<1>7. lastAddr' \in Nat
  BY <1>1, <1>2
<1> QED  BY <1>2, <1>5, <1>6, <1>7 DEF TypeInv, TypeOK, Passes

LEMMA BssLastIs ==
    ASSUME NEW S, mem \in Seq(S)
    PROVE  BssLast \in Seq(S) /\ Len(BssLast) = Len(mem)
<1> DEFINE n == Len(mem)
           bss == {i \in DOMAIN mem : mem[i].bss}
           init == DOMAIN mem \ bss
           r1 == Rank(mem, init)
           r2 == Rank(mem, bss)
<1>1. n \in Nat /\ DOMAIN mem = 1 .. n /\ bss \subseteq 1 .. n /\ init = (1 .. n) \ bss
  OBVIOUS
<1>2. BssLast = Those(mem, init) \o Those(mem, bss)
  BY DEF BssLast
<1> HIDE DEF n, bss, init
<1>3. /\ Those(mem, init) \in Seq(S) /\ Len(Those(mem, init)) = r1[n]
      /\ Those(mem, bss) \in Seq(S) /\ Len(Those(mem, bss)) = r2[n]
  BY ThoseAre DEF n
<1>4. /\ r1 \in [0 .. n -> Nat] /\ r1[0] = 0
      /\ \A i \in 1 .. n : r1[i] = r1[i - 1] + IF i \in init THEN 1 ELSE 0
      /\ r2 \in [0 .. n -> Nat] /\ r2[0] = 0
      /\ \A i \in 1 .. n : r2[i] = r2[i - 1] + IF i \in bss THEN 1 ELSE 0
  BY Ranked DEF n
<1> HIDE DEF r1, r2
<1> DEFINE P == {k \in 0 .. n : r1[k] + r2[k] = k}
<1>5. 0 \in P
  BY <1>1, <1>4
<1>6. ASSUME NEW k \in 0 .. n - 1, k \in P PROVE k + 1 \in P
  <2>1. k \in 0 .. n /\ k + 1 \in 1 .. n /\ (k + 1) - 1 = k /\ k + 1 \in 0 .. n
    BY <1>1
  <2>2. /\ r1[k + 1] = r1[k] + IF k + 1 \in init THEN 1 ELSE 0
        /\ r2[k + 1] = r2[k] + IF k + 1 \in bss THEN 1 ELSE 0
        /\ r1[k] \in Nat /\ r2[k] \in Nat /\ r1[k] + r2[k] = k
    BY <1>4, <1>6, <2>1
  <2>3. k + 1 \in init <=> k + 1 \notin bss
    BY <1>1, <2>1
  <2> QED  BY <2>1, <2>2, <2>3
<1>7. n \in P
  <2> HIDE DEF P
  <2> QED  BY <1>1, <1>5, <1>6, Climb
<1>8. r1[n] + r2[n] = n
  BY <1>7
<1>9. BssLast \in Seq(S)
  BY <1>2, <1>3
<1>10. Len(BssLast) = r1[n] + r2[n]
  BY <1>2, <1>3
<1> QED  BY <1>8, <1>9, <1>10 DEF n

LEMMA PlacedIs ==
    ASSUME NEW list \in Seq(Fresh), NEW a \in Nat
    PROVE  /\ Placed(list, a) \in Seq(Coded) /\ Len(Placed(list, a)) = Len(list)
           /\ \A i \in DOMAIN list :
                Placed(list, a)[i] =
                    [list[i] EXCEPT
                        !.addr = Placement(list, a)[i],
                        !.byte2 = (Role(list)[i] = "second"),
                        !.val = IF Role(list)[i] = "first" THEN Merged(@, list[i + 1].val)
                                ELSE @]
<1>1. list \in Seq(Item)
  BY SeqsWiden DEF Fresh
<1>2. Len(list) \in Nat /\ DOMAIN list = 1 .. Len(list)
      /\ \A i \in 1 .. Len(list) : list[i] \in Fresh
  OBVIOUS
<1>3. \A i \in 1 .. Len(list) : Placement(list, a)[i] \in Int
  <2>1. Placement(list, a) \in [1 .. Len(list) + 1 -> Nat]
    BY <1>1, PlacementIs
  <2>2. \A i \in 1 .. Len(list) : i \in 1 .. Len(list) + 1
    BY <1>2
  <2> QED  BY <2>1, <2>2
<1>4. \A i \in 1 .. Len(list) :
        Role(list)[i] = "first" => Merged(list[i].val, list[i + 1].val) \in Int
  <2> SUFFICES ASSUME NEW i \in 1 .. Len(list), Role(list)[i] = "first"
               PROVE  Merged(list[i].val, list[i + 1].val) \in Int
    OBVIOUS
  <2>1. i + 1 \in 1 .. Len(list)
    BY <1>1, <1>2, Pairs
  <2>2. list[i].val \in Int /\ list[i + 1].val \in Int
    BY <1>2, <2>1 DEF Fresh, Item
  <2> QED  BY <2>2 DEF Merged
<1> DEFINE value(i) == IF Role(list)[i] = "first" THEN Merged(list[i].val, list[i + 1].val)
                       ELSE list[i].val
<1>5. \A i \in 1 .. Len(list) : value(i) \in Int
  BY <1>2, <1>4 DEF Fresh, Item
<1> DEFINE Put(t, m, b, v) == [t EXCEPT !.addr = m, !.byte2 = b, !.val = v]
<1>6. ASSUME NEW t \in Fresh, NEW m \in Int, NEW v \in Int, NEW b \in BOOLEAN
      PROVE  Put(t, m, b, v) \in Coded
  <2>1. t \in Coded
    BY FreshIsCoded
  <2>2. \A u \in Coded : [u EXCEPT !.addr = m] \in Coded /\ [u EXCEPT !.val = v] \in Coded
    BY DEF Coded, Item
  <2>3. \A u \in Coded : [u EXCEPT !.byte2 = b] \in Coded
    BY DEF Coded, Item
  <2>4. Put(t, m, b, v)
            = [[[t EXCEPT !.addr = m] EXCEPT !.byte2 = b] EXCEPT !.val = v]
    OBVIOUS
  <2> HIDE DEF Put
  <2> QED  BY <2>1, <2>2, <2>3, <2>4
<1>7. \A i \in DOMAIN list :
            Placed(list, a)[i] =
                [list[i] EXCEPT
                    !.addr = Placement(list, a)[i],
                    !.byte2 = (Role(list)[i] = "second"),
                    !.val = IF Role(list)[i] = "first" THEN Merged(@, list[i + 1].val)
                            ELSE @]
  BY DEF Placed
<1>8. \A i \in 1 .. Len(list) : Placed(list, a)[i] \in Coded
  <2> SUFFICES ASSUME NEW i \in 1 .. Len(list) PROVE Placed(list, a)[i] \in Coded
    OBVIOUS
  <2> DEFINE t == list[i]
             m == Placement(list, a)[i]
             b == (Role(list)[i] = "second")
             v == value(i)
  <2>1. Placed(list, a)[i] = Put(t, m, b, v)
    BY <1>2, <1>7
  <2>2. t \in Fresh /\ m \in Int /\ v \in Int /\ b \in BOOLEAN
    BY <1>2, <1>3, <1>5
  <2> HIDE DEF t, m, b, v, Put
  <2> QED  BY <1>6, <2>1, <2>2
<1>9. Placed(list, a) = [i \in 1 .. Len(list) |-> Placed(list, a)[i]]
  BY <1>2 DEF Placed
<1>10. Placed(list, a) \in Seq(Coded)
  BY <1>2, <1>8, <1>9
<1>11. Len(Placed(list, a)) = Len(list)
  BY <1>2, <1>9
<1> QED  BY <1>7, <1>10, <1>11

LEMMA PlacememTypes == ASSUME TypeInv, Placemem PROVE TypeInv'
<1>1. /\ instructions \in Seq(Coded) /\ mem \in Seq(Fresh) /\ lastAddr \in Nat
      /\ Len(mem) \in Nat
  BY DEF TypeInv, TypeOK, Placemem
<1>2. /\ mem' = Placed(BssLast, lastAddr) /\ instructions' = instructions \o mem'
      /\ lastMemAddr' = Placement(BssLast, lastAddr)[Len(mem) + 1]
      /\ pc' = "resolveptrs" /\ pc = "placemem"
      /\ UNCHANGED <<source, instrNr, guard, codePtr, labels, lastAddr, symbols, image>>
  BY DEF Placemem
<1>3. BssLast \in Seq(Fresh) /\ Len(BssLast) = Len(mem) /\ BssLast \in Seq(Item)
  BY <1>1, BssLastIs, SeqsWiden DEF Fresh
<1>4. mem' \in Seq(Coded)
  BY <1>1, <1>2, <1>3, PlacedIs
<1>5. instructions' \in Seq(Coded)
  BY <1>1, <1>2, <1>4
<1>6. lastMemAddr' \in Nat
  <2>1. Placement(BssLast, lastAddr) \in [1 .. Len(BssLast) + 1 -> Nat]
    BY <1>1, <1>3, PlacementIs
  <2>2. Len(mem) + 1 \in 1 .. Len(BssLast) + 1
    BY <1>1, <1>3
  <2> QED  BY <1>2, <2>1, <2>2
<1>7. /\ instructions' \in Seq(Item) /\ mem' \in Seq(Item)
      /\ \A i \in DOMAIN instructions' : instructions'[i].code \in NoNr .. Words - 1
  BY <1>4, <1>5, SeqsWiden DEF Coded
<1> QED  BY <1>2, <1>4, <1>5, <1>6, <1>7 DEF TypeInv, TypeOK, Passes

LEMMA ResolveptrsTypes == ASSUME TypeInv, Resolveptrs PROVE TypeInv'
<1>1. /\ pc = "resolveptrs" /\ pc' \in {"build", "error"}
      /\ UNCHANGED <<source, instrNr, guard, codePtr, labels, instructions, mem,
                     lastAddr, lastMemAddr, image>>
  BY DEF Resolveptrs, tables
<1>2. \A n \in DOMAIN symbols' : symbols'[n] \in [ptr : Int, addr : Int]
  <2>1. CASE symbols' = symbols
    BY <2>1 DEF TypeInv, TypeOK
  <2>2. CASE symbols' # symbols
    <3>1. /\ \A n \in DOMAIN symbols : Found(symbols[n].ptr) # {}
          /\ symbols' = [n \in DOMAIN symbols |->
                [symbols[n] EXCEPT !.addr =
                    instructions[CHOOSE i \in Found(symbols[n].ptr) : TRUE].addr]]
      BY <2>2 DEF Resolveptrs
    <3>2. \A i \in DOMAIN instructions : instructions[i].addr \in Int
      <4>1. instructions \in Seq(Item)
        BY DEF TypeInv, TypeOK
      <4>2. \A i \in DOMAIN instructions : instructions[i] \in Item
        BY <4>1
      <4> QED  BY <4>2 DEF Item
    <3>3. ASSUME NEW n \in DOMAIN symbols
          PROVE  [symbols[n] EXCEPT !.addr =
                    instructions[CHOOSE i \in Found(symbols[n].ptr) : TRUE].addr]
                    \in [ptr : Int, addr : Int]
      <4> DEFINE i == CHOOSE i \in Found(symbols[n].ptr) : TRUE
      <4>1. i \in Found(symbols[n].ptr)
        BY <3>1
      <4>2. instructions[i].addr \in Int
        BY <3>2, <4>1 DEF Found
      <4>3. symbols[n] \in [ptr : Int, addr : Int]
        BY DEF TypeInv, TypeOK
      <4> HIDE DEF i
      <4>4. [symbols[n] EXCEPT !.addr = instructions[i].addr] \in [ptr : Int, addr : Int]
        BY <4>2, <4>3
      <4> QED  BY <4>4 DEF i
    <3> QED  BY <3>1, <3>3
  <2> QED  BY <2>1, <2>2
<1> QED  BY <1>1, <1>2 DEF TypeInv, TypeOK, Passes

\* What a field holds is less than its values, and they are no more than a word's.
LEMMA EncodedType ==
    ASSUME NEW t \in Item, ~Unresolved(t),
           \A n \in DOMAIN symbols : symbols[n] \in [ptr : Int, addr : Int]
    PROVE  /\ Arg(t) \in Int /\ Encoded(t) \in NoNr .. Words - 1
<1>1. t.val \in Int /\ t.name \in DOMAIN symbols \cup {NoName} /\ t.addr \in Int
      /\ t.ld16 \in BOOLEAN
  BY DEF Unresolved, Item
<1>2. Arg(t) \in Int
  BY <1>1 DEF Arg
<1>3. /\ Words \in Nat /\ Words >= 65536 /\ BrSpan \in Nat /\ BrSpan <= Words /\ BrSpan > 0
      /\ Low \in Nat /\ Low > 0 /\ 2 * Low <= Words /\ High \in Nat /\ High > 0
      /\ High <= Words
  BY WordsType, AsmSourceAssumption
<1>4. \A v \in Int, span \in Nat : span > 0 /\ span <= Words =>
             /\ Signedbits(v, span) \in NoNr .. Words - 1
             /\ Unsignedbits(v, span) \in NoNr .. Words - 1
  <2> SUFFICES ASSUME NEW v \in Int, NEW span \in Nat, span > 0, span <= Words
               PROVE  /\ Signedbits(v, span) \in NoNr .. Words - 1
                      /\ Unsignedbits(v, span) \in NoNr .. Words - 1
    OBVIOUS
  <2>1. v % span \in 0 .. span - 1
    OBVIOUS
  <2> QED  BY <1>3, <2>1 DEF Signedbits, Unsignedbits, NoNr
<1>5. Offset(t) \in Int
  BY <1>1, <1>2 DEF Offset
<1>6. LowPart(t) \in Int /\ HighPart(t) \in Int
  <2>1. Arg(t) % Low \in Int /\ (Arg(t) \div Low) % High \in Int
    BY <1>2, <1>3, SMT
  <2> QED  BY <1>2, <2>1 DEF LowPart, HighPart
<1>7. 2 * Low \in Nat /\ 2 * Low > 0
  BY <1>3
<1>8. 0 \in NoNr .. Words - 1
  BY <1>3 DEF NoNr
<1>9. /\ Signedbits(Offset(t), BrSpan) \in NoNr .. Words - 1
      /\ Signedbits(Arg(t), 2 * Low) \in NoNr .. Words - 1
      /\ Signedbits(LowPart(t), 2 * Low) \in NoNr .. Words - 1
      /\ Unsignedbits(HighPart(t), High) \in NoNr .. Words - 1
      /\ Unsignedbits(Arg(t), Words) \in NoNr .. Words - 1
  <2>1. Signedbits(Offset(t), BrSpan) \in NoNr .. Words - 1
    BY <1>3, <1>4, <1>5
  <2>2. Signedbits(Arg(t), 2 * Low) \in NoNr .. Words - 1
    BY <1>2, <1>3, <1>4, <1>7
  <2>3. Signedbits(LowPart(t), 2 * Low) \in NoNr .. Words - 1
    BY <1>3, <1>4, <1>6, <1>7
  <2>4. Unsignedbits(HighPart(t), High) \in NoNr .. Words - 1
    <3> DEFINE h == HighPart(t)
    <3>1. h \in Int /\ High \in Nat /\ High > 0 /\ High <= Words
      BY <1>3, <1>6
    <3> HIDE DEF h
    <3>2. Unsignedbits(h, High) \in NoNr .. Words - 1
      BY <1>4, <3>1
    <3> QED  BY <3>2 DEF h
  <2>5. Words > 0
    BY <1>3
  <2>6. Unsignedbits(Arg(t), Words) \in NoNr .. Words - 1
    BY <1>2, <1>3, <1>4, <2>5
  <2> QED  BY <2>1, <2>2, <2>3, <2>4, <2>6
<1> QED  BY <1>2, <1>8, <1>9 DEF Encoded

LEMMA BuildTypes == ASSUME TypeInv, Build PROVE TypeInv'
<1>1. /\ pc = "build" /\ pc' \in {"write", "error"}
      /\ UNCHANGED <<source, instrNr, guard, codePtr, labels, mem, lastAddr, lastMemAddr,
                     symbols, image>>
  BY DEF Build, results
<1>2. instructions' \in Seq(Coded)
      /\ (pc' = "write" => \A i \in DOMAIN instructions' :
                instructions'[i].byte2 \/ instructions'[i].code # NoNr)
  <2>1. CASE ~(\A i \in DOMAIN instructions : Encodable(instructions[i]))
    BY <2>1 DEF Build, TypeInv
  <2>2. CASE \A i \in DOMAIN instructions : Encodable(instructions[i])
    <3>1. instructions' = [i \in DOMAIN instructions |->
                    IF instructions[i].byte2 THEN instructions[i]
                    ELSE [instructions[i] EXCEPT !.code = Encoded(instructions[i])]]
      BY <2>2 DEF Build
    <3>2. /\ Len(instructions) \in Nat /\ DOMAIN instructions = 1 .. Len(instructions)
          /\ \A i \in DOMAIN instructions : instructions[i] \in Coded
      <4>1. instructions \in Seq(Coded)
        BY DEF TypeInv
      <4> QED  BY <4>1
    <3>3. ASSUME NEW i \in DOMAIN instructions
          PROVE  /\ instructions'[i] \in Coded
                 /\ instructions'[i].byte2 \/ instructions'[i].code # NoNr
      <4>1. CASE instructions[i].byte2
        BY <3>1, <3>2, <4>1
      <4>2. CASE ~instructions[i].byte2
        <5>1. ~Unresolved(instructions[i]) /\ Encoded(instructions[i]) # NoNr
          BY <2>2, <4>2 DEF Encodable
        <5>2. Encoded(instructions[i]) \in NoNr .. Words - 1
          BY <3>2, <5>1, EncodedType DEF Coded, TypeInv, TypeOK
        <5>3. \A t \in Coded, c \in NoNr .. Words - 1 :
                    [t EXCEPT !.code = c] \in Coded /\ [t EXCEPT !.code = c].code = c
          BY WordsType DEF Coded, Item, NoNr
        <5> QED  BY <3>1, <3>2, <4>2, <5>1, <5>2, <5>3
      <4> QED  BY <4>1, <4>2
    <3>4. instructions' = [i \in 1 .. Len(instructions) |-> instructions'[i]]
      BY <3>1, <3>2
    <3>5. instructions' \in Seq(Coded)
      BY <3>2, <3>3, <3>4
    <3> QED  BY <3>1, <3>3, <3>5
  <2> QED  BY <2>1, <2>2
<1>3. instructions' \in Seq(Item)
      /\ \A i \in DOMAIN instructions' : instructions'[i].code \in NoNr .. Words - 1
  BY <1>2, SeqsWiden DEF Coded
<1> QED  BY <1>1, <1>2, <1>3 DEF TypeInv, TypeOK, Passes

Digits == [op : ItemOps, code : 0 .. Words - 1]

LEMMA WriteTypes == ASSUME TypeInv, Write PROVE TypeInv'
<1> DEFINE kept == {i \in DOMAIN instructions : ~instructions[i].byte2}
           rank == Rank(instructions, kept)
<1>1. /\ pc = "write" /\ pc' = "done"
      /\ image' = [i \in DOMAIN Written |-> [op |-> Written[i].op, code |-> Written[i].code]]
      /\ UNCHANGED <<source, instrNr, guard, codePtr, labels, instructions, mem,
                     lastAddr, lastMemAddr, symbols>>
  BY DEF Write, tables
<1>2. instructions \in Seq(Coded)
  BY DEF TypeInv
<1>3. Written = Those(instructions, kept)
  BY DEF Written
<1> HIDE DEF kept, rank
<1>4. /\ Written \in Seq(Coded)
      /\ \A i \in DOMAIN instructions : i \in kept =>
                rank[i] \in DOMAIN Written /\ Written[rank[i]] = instructions[i]
      /\ \A k \in DOMAIN Written : \E i \in DOMAIN instructions : i \in kept /\ rank[i] = k
  BY <1>2, <1>3, ThoseAre DEF rank
<1>5. ASSUME NEW k \in DOMAIN Written
      PROVE  image'[k] \in Digits
  <2>1. PICK i \in DOMAIN instructions : i \in kept /\ rank[i] = k
    BY <1>4
  <2>2. Written[k] = instructions[i] /\ instructions[i].code # NoNr
    BY <1>1, <1>4, <2>1 DEF TypeInv, kept
  <2>3. instructions[i] \in Coded
    BY <1>2
  <2>4. instructions[i].op \in ItemOps /\ instructions[i].code \in 0 .. Words - 1
    <3>1. instructions[i].op \in ItemOps /\ instructions[i].code \in NoNr .. Words - 1
      BY <2>3 DEF Coded, Item
    <3> QED  BY <2>2, <3>1, WordsType DEF NoNr
  <2> QED  BY <1>1, <2>2, <2>4 DEF Digits
<1>6. image' \in Seq(Digits)
  <2>1. DOMAIN Written = 1 .. Len(Written) /\ Len(Written) \in Nat
    BY <1>4
  <2>2. image' = [k \in 1 .. Len(Written) |-> image'[k]]
    BY <1>1, <2>1
  <2> QED  BY <1>5, <2>1, <2>2
<1> QED  BY <1>1, <1>6 DEF TypeInv, TypeOK, Passes, Digits

LEMMA InitTypeInv == Init => TypeInv
BY AsmSourceAssumption DEF Init, TypeInv, TypeOK, Passes

LEMMA StepTypeInv == TypeInv /\ [Next]_vars => TypeInv'
<1> SUFFICES ASSUME TypeInv, [Next]_vars PROVE TypeInv'
  OBVIOUS
<1>1. CASE EndOfFile
  BY <1>1 DEF EndOfFile, tables, results, TypeInv, TypeOK, Passes
<1>2. CASE UNCHANGED vars
  BY <1>2 DEF vars, tables, results, TypeInv, TypeOK
<1> QED  BY <1>1, <1>2, ParseTypes, IdsymbolsTypes, PlaceinstrTypes, PlacememTypes,
            ResolveptrsTypes, BuildTypes, WriteTypes DEF Next

\* Every variable of the assembler keeps its type, in programs of any length and
\* for fields of any width.
THEOREM TypeCorrect == Spec => []TypeOK
<1>1. TypeInv => TypeOK
  BY DEF TypeInv
<1> QED  BY <1>1, InitTypeInv, StepTypeInv, PTL DEF Spec

-----------------------------------------------------------------------------
\* What the instructions of fsim/main.c make of a field.

\* What a field decodes to.
LEMMA SignedInverts ==
    ASSUME NEW v \in Int, NEW span \in Nat, span > 0, span % 2 = 0,
           v \in -(span \div 2 - 1) .. span \div 2 - 1
    PROVE  Signedbits(v, span) = v % span /\ v % span # NoNr /\ Signed(v % span, span) = v
<1>1. span = 2 * (span \div 2) /\ span \div 2 \in Nat
  OBVIOUS
<1>2. -span < 2 * v /\ 2 * v < span
  BY <1>1
<1>3. v % span = IF v >= 0 THEN v ELSE v + span
  BY <1>2
<1> QED  BY <1>1, <1>2, <1>3 DEF Signedbits, Signed, NoNr

LEMMA LdiLoads ==
    ASSUME NEW v \in Int, v \in -(Low - 1) .. Low - 1
    PROVE  /\ Signedbits(v, 2 * Low) = v % (2 * Low) /\ v % (2 * Low) # NoNr
           /\ Ldi(v % (2 * Low)) = v % Words
<1>1. 2 * Low \in Nat /\ 2 * Low > 0 /\ (2 * Low) % 2 = 0 /\ (2 * Low) \div 2 = Low
      /\ Low \in Nat
  BY AsmSourceAssumption
<1>2. v \in -((2 * Low) \div 2 - 1) .. (2 * Low) \div 2 - 1
  BY <1>1
<1> QED  BY <1>1, <1>2, SignedInverts DEF Ldi

LEMMA BranchGoes ==
    ASSUME NEW a \in Int, NEW v \in Int,
           v - (a + 2) \in -(BrSpan \div 2 - 1) .. BrSpan \div 2 - 1
    PROVE  /\ Signedbits(v - (a + 2), BrSpan) = (v - (a + 2)) % BrSpan
           /\ (v - (a + 2)) % BrSpan # NoNr
           /\ \A c \in Int : BranchTarget(a - c, (v - (a + 2)) % BrSpan) = (v - c) % Words
<1>1. BrSpan \in Nat /\ BrSpan > 0 /\ BrSpan % 2 = 0
  BY WordsType, AsmSourceAssumption
<1> DEFINE d == v - (a + 2)
<1>2. d \in Int /\ a + 2 + d = v
  OBVIOUS
<1>3. d \in -(BrSpan \div 2 - 1) .. BrSpan \div 2 - 1
  OBVIOUS
<1> HIDE DEF d
<1>4. /\ Signedbits(d, BrSpan) = d % BrSpan /\ d % BrSpan # NoNr
      /\ Signed(d % BrSpan, BrSpan) = d
  BY <1>1, <1>2, <1>3, SignedInverts
<1>5. \A c \in Int : (a - c) + 2 + d = v - c
  BY <1>2
<1>6. \A c \in Int : BranchTarget(a - c, d % BrSpan) = (v - c) % Words
  BY <1>4, <1>5 DEF BranchTarget
<1> QED  BY <1>4, <1>6 DEF d

LEMMA Remainder ==
    ASSUME NEW w \in Nat, w > 0, NEW q \in Int, NEW x \in 0 .. w - 1
    PROVE  (w * q + x) % w = x
<1> DEFINE v == w * q + x
           p == v \div w
           y == v % w
<1>1. v \in Int /\ v = w * q + x /\ w * q \in Int
  OBVIOUS
<1>2. p \in Int /\ y \in 0 .. w - 1 /\ v = w * p + y
  <2> HIDE DEF v
  <2> QED  BY <1>1
<1> HIDE DEF v, p, y
<1>3. w * p + y = w * q + x /\ w * p \in Int
  BY <1>1, <1>2
<1>4. w * (p - q) = x - y /\ p - q \in Int
  BY <1>1, <1>2, <1>3
<1>5. \A d \in Int : d >= 1 => w * d >= w
  OBVIOUS
<1>6. \A d \in Int : d <= -1 => w * d <= -w
  OBVIOUS
<1>7. x - y < w /\ x - y > -w
  BY <1>2
<1>8. p - q = 0
  BY <1>2, <1>4, <1>5, <1>6, <1>7
<1>9. x = y
  BY <1>2, <1>4, <1>8
<1> QED  BY <1>9 DEF y, v

LEMMA PairLoads ==
    ASSUME NEW v \in Int
    PROVE  /\ v % Low \in 0 .. Low - 1 /\ (v \div Low) % High \in 0 .. High - 1
           /\ Ldi(v % Low) = v % Low
           /\ AddHi((v \div Low) % High, v % Low) = v % Words
<1>1. Low \in Nat /\ Low > 0 /\ High \in Nat /\ High > 0 /\ Words = Low * High
      /\ 2 * Low <= Words /\ Words \in Nat
  BY WordsType, AsmSourceAssumption DEF Words
<1>2. v % Low \in 0 .. Low - 1 /\ (v \div Low) \in Int /\ v = Low * (v \div Low) + (v % Low)
  BY <1>1
<1> DEFINE d == v \div Low
           h == d % High
           e == d \div High
           r == v % Low
<1>3. h \in 0 .. High - 1 /\ e \in Int /\ d = High * e + h
  BY <1>1, <1>2
<1>4. r \in 0 .. Low - 1 /\ v = Low * d + r /\ d \in Int
  BY <1>2
<1> HIDE DEF d, h, e, r
<1>5. v = Low * (High * e + h) + r
  BY <1>3, <1>4
<1>6. v = (Low * High) * e + (Low * h + r)
  BY <1>1, <1>3, <1>4, <1>5
<1>7. Low * h + r \in 0 .. (Low * High) - 1
  <2>1. h + 1 <= High /\ h \in Nat
    BY <1>1, <1>3
  <2>2. Low * (h + 1) <= Low * High /\ 0 <= Low * h
    BY <1>1, <2>1
  <2>3. Low * (h + 1) = Low * h + Low /\ Low * h \in Int /\ Low * High \in Int
    BY <1>1, <2>1
  <2> QED  BY <1>1, <1>4, <2>2, <2>3
<1>8. v % Words = Low * h + r
  <2>1. /\ Low * High \in Nat /\ Low * High > 0 /\ e \in Int
        /\ Low * h + r \in 0 .. (Low * High) - 1
    BY <1>1, <1>3, <1>7
  <2>2. ((Low * High) * e + (Low * h + r)) % (Low * High) = Low * h + r
    BY <2>1, Remainder
  <2> QED  BY <1>1, <1>6, <2>2
<1>9. r % Low = r
  BY <1>1, <1>4
<1>10. Ldi(r) = r
  BY <1>1, <1>4 DEF Ldi, Signed
<1>11. AddHi(h, r) = h * Low + r /\ h * Low = Low * h
  BY <1>1, <1>3, <1>9 DEF AddHi
<1> QED  BY <1>3, <1>4, <1>8, <1>10, <1>11 DEF d, h, r

-----------------------------------------------------------------------------
\* Totals of longer sequences, joined sequences, and Those of them.

\* The totals of a longer sequence begin with those of a shorter one.
LEMMA TotalsExtend ==
    ASSUME NEW f \in Seq(Nat), NEW g \in Seq(Nat), Len(f) <= Len(g),
           \A i \in 1 .. Len(f) : g[i] = f[i]
    PROVE  \A i \in 0 .. Len(f) : Totals(g)[i] = Totals(f)[i]
<1> DEFINE n == Len(f)
           t == Totals(f)
           u == Totals(g)
           P == {i \in 0 .. n : u[i] = t[i]}
<1>1. n \in Nat /\ Len(g) \in Nat /\ n <= Len(g)
  OBVIOUS
<1>2. /\ t[0] = 0 /\ \A i \in 1 .. n : t[i] = t[i - 1] + f[i]
      /\ u[0] = 0 /\ \A i \in 1 .. n : u[i] = u[i - 1] + f[i]
  <2>1. \A i \in 1 .. n : i \in 1 .. Len(g)
    BY <1>1
  <2> QED  BY <2>1, Totalled
<1> HIDE DEF n, t, u
<1>3. 0 \in P
  BY <1>1, <1>2
<1>4. ASSUME NEW k \in 0 .. n - 1, k \in P PROVE k + 1 \in P
  <2>1. k + 1 \in 1 .. n /\ (k + 1) - 1 = k /\ k + 1 \in 0 .. n
    BY <1>1
  <2>2. u[k + 1] = u[k] + f[k + 1] /\ t[k + 1] = t[k] + f[k + 1]
    BY <1>2, <2>1
  <2> QED  BY <1>4, <2>1, <2>2
<1>5. \A k \in 0 .. n : k \in P
  <2> HIDE DEF P
  <2> QED  BY <1>1, <1>3, <1>4, Climb
<1> QED  BY <1>5 DEF n, t, u

LEMMA TotalsMonotone ==
    ASSUME NEW f \in Seq(Nat)
    PROVE  \A j \in 0 .. Len(f) : \A i \in 0 .. j : Totals(f)[i] <= Totals(f)[j]
<1> DEFINE n == Len(f)
           t == Totals(f)
           P == {j \in 0 .. n : \A i \in 0 .. j : t[i] <= t[j]}
<1>1. n \in Nat
  OBVIOUS
<1>2. /\ t \in [0 .. n -> Nat] /\ \A i \in 1 .. n : t[i] = t[i - 1] + f[i] /\ f[i] \in Nat
  BY Totalled
<1> HIDE DEF n, t
<1>3. 0 \in P
  BY <1>1, <1>2
<1>4. ASSUME NEW k \in 0 .. n - 1, k \in P PROVE k + 1 \in P
  <2>1. k + 1 \in 1 .. n /\ (k + 1) - 1 = k /\ k + 1 \in 0 .. n /\ k \in 0 .. n
    BY <1>1
  <2>2. t[k + 1] = t[k] + f[k + 1] /\ f[k + 1] \in Nat /\ t[k] \in Nat /\ t[k + 1] \in Nat
    BY <1>2, <2>1
  <2>3. ASSUME NEW i \in 0 .. k + 1 PROVE t[i] <= t[k + 1]
    <3>1. CASE i = k + 1
      BY <2>2, <3>1
    <3>2. CASE i # k + 1
      <4>1. i \in 0 .. k /\ i \in 0 .. n
        BY <1>1, <2>1, <3>2
      <4>2. t[i] <= t[k] /\ t[i] \in Nat
        BY <1>2, <1>4, <4>1
      <4> QED  BY <2>2, <4>2
    <3> QED  BY <3>1, <3>2
  <2> QED  BY <2>1, <2>3
<1>5. \A k \in 0 .. n : k \in P
  <2> HIDE DEF P
  <2> QED  BY <1>1, <1>3, <1>4, Climb
<1> QED  BY <1>5 DEF n, t

\* What is counted in all belongs to one of the numbers.
LEMMA TotalsCover ==
    ASSUME NEW f \in Seq(Nat), NEW p \in 1 .. Totals(f)[Len(f)]
    PROVE  \E i \in 1 .. Len(f) : p - Totals(f)[i - 1] \in 1 .. f[i]
<1> DEFINE n == Len(f)
           t == Totals(f)
           P == {j \in 0 .. n : p <= t[j] => \E i \in 1 .. j : p - t[i - 1] \in 1 .. f[i]}
<1>1. n \in Nat
  OBVIOUS
<1>2. /\ t \in [0 .. n -> Nat] /\ t[0] = 0
      /\ \A i \in 1 .. n : t[i] = t[i - 1] + f[i] /\ f[i] \in Nat
  BY Totalled
<1>3. p \in 1 .. t[n] /\ p \in Nat /\ p >= 1
  BY <1>1, <1>2
<1> HIDE DEF n, t
<1>4. 0 \in P
  BY <1>1, <1>2, <1>3
<1>5. ASSUME NEW k \in 0 .. n - 1, k \in P PROVE k + 1 \in P
  <2>1. k + 1 \in 1 .. n /\ (k + 1) - 1 = k /\ k + 1 \in 0 .. n /\ k \in 0 .. n
        /\ \A i \in 1 .. k : i \in 1 .. k + 1
    BY <1>1
  <2>2. t[k + 1] = t[k] + f[k + 1] /\ f[k + 1] \in Nat /\ t[k] \in Nat
    BY <1>2, <2>1
  <2> SUFFICES ASSUME p <= t[k + 1] PROVE \E i \in 1 .. k + 1 : p - t[i - 1] \in 1 .. f[i]
    BY <2>1
  <2>3. CASE p <= t[k]
    BY <1>5, <2>1, <2>3
  <2>4. CASE ~(p <= t[k])
    <3>1. p - t[k] \in 1 .. f[k + 1]
      BY <1>3, <2>2, <2>4
    <3>2. k + 1 \in 1 .. k + 1
      BY <2>1
    <3> QED  BY <2>1, <3>1, <3>2
  <2> QED  BY <2>3, <2>4
<1>6. n \in P
  <2>1. \A k \in 0 .. n : k \in P
    <3> HIDE DEF P
    <3> QED  BY <1>1, <1>4, <1>5, Climb
  <2>2. n \in 0 .. n
    BY <1>1
  <2> QED  BY <2>1, <2>2
<1>7. \E i \in 1 .. n : p - t[i - 1] \in 1 .. f[i]
  BY <1>3, <1>6
<1> QED  BY <1>7 DEF n, t

AreJoined(z, x, u, S) ==
    /\ z \in Seq(S) /\ Len(z) = Len(x) + Len(u)
    /\ \A k \in 1 .. Len(x) : z[k] = x[k]
    /\ \A k \in 1 .. Len(u) : z[Len(x) + k] = u[k]

LEMMA Joined ==
    ASSUME NEW S, NEW x \in Seq(S), NEW u \in Seq(S)
    PROVE  AreJoined(x \o u, x, u, S)
BY DEF AreJoined

LEMMA SameSeq ==
    ASSUME NEW S, NEW x \in Seq(S), NEW y \in Seq(S), Len(x) = Len(y),
           \A k \in 1 .. Len(x) : x[k] = y[k]
    PROVE  x = y
<1>1. x = [k \in 1 .. Len(x) |-> x[k]] /\ y = [k \in 1 .. Len(y) |-> y[k]]
  OBVIOUS
<1> QED  BY <1>1

IsRank(r, n, set) ==
    /\ r \in [0 .. n -> Nat] /\ r[0] = 0
    /\ \A i \in 1 .. n : r[i] = r[i - 1] + IF i \in set THEN 1 ELSE 0

AreThose(x, r, S, list, n, set) ==
    /\ x \in Seq(S) /\ Len(x) = r[n]
    /\ \A i \in 1 .. n : i \in set => r[i] \in DOMAIN x /\ x[r[i]] = list[i]
    /\ \A k \in DOMAIN x : \E i \in 1 .. n : i \in set /\ r[i] = k

\* Ranked and ThoseAre for a list of n members.
LEMMA ThoseOf ==
    ASSUME NEW S, NEW list \in Seq(S), NEW n, n = Len(list), NEW set
    PROVE  /\ IsRank(Rank(list, set), n, set)
           /\ AreThose(Those(list, set), Rank(list, set), S, list, n, set)
<1>1. IsRank(Rank(list, set), Len(list), set)
  BY Ranked DEF IsRank
<1>2. AreThose(Those(list, set), Rank(list, set), S, list, Len(list), set)
  <2>1. DOMAIN list = 1 .. Len(list)
    OBVIOUS
  <2> DEFINE x == Those(list, set)
             r == Rank(list, set)
  <2>2. /\ x \in Seq(S) /\ Len(x) = r[Len(list)]
        /\ \A i \in DOMAIN list : i \in set => r[i] \in DOMAIN x /\ x[r[i]] = list[i]
        /\ \A k \in DOMAIN x : \E i \in DOMAIN list : i \in set /\ r[i] = k
    BY ThoseAre
  <2> HIDE DEF x, r
  <2>3. AreThose(x, r, S, list, Len(list), set)
    BY <2>1, <2>2 DEF AreThose
  <2> QED  BY <2>3 DEF x, r
<1> QED  BY <1>1, <1>2

\* C goes on after the first n places of A with the next m ones, or none of them.
GoesOn(A, C, n, m, all) ==
    /\ \A i \in 1 .. n : i \in C <=> i \in A
    /\ \A i \in 1 .. m : n + i \in C <=> all

\* Items at the end of a list, all of them in the set or none.
LEMMA ThoseLonger ==
    ASSUME NEW S, NEW s \in Seq(S), NEW u \in Seq(S), NEW A, NEW C,
           NEW all \in BOOLEAN, GoesOn(A, C, Len(s), Len(u), all)
    PROVE  Those(s \o u, C) = IF all THEN Those(s, A) \o u ELSE Those(s, A)
<1> DEFINE n == Len(s)
           m == Len(u)
           w == s \o u
           r == Rank(s, A)
           q == Rank(w, C)
           x == Those(s, A)
           y == Those(w, C)
           d == IF all THEN 1 ELSE 0
<1>1. /\ n \in Nat /\ m \in Nat /\ w \in Seq(S) /\ Len(w) = n + m
      /\ \A i \in 1 .. n : w[i] = s[i]
      /\ \A i \in 1 .. m : w[n + i] = u[i]
  OBVIOUS
<1>2. /\ r \in [0 .. n -> Nat] /\ r[0] = 0
      /\ \A i \in 1 .. n : r[i] = r[i - 1] + IF i \in A THEN 1 ELSE 0
  <2>1. IsRank(r, n, A)
    BY ThoseOf
  <2> HIDE DEF r
  <2> QED  BY <2>1 DEF IsRank
<1>3. /\ q \in [0 .. n + m -> Nat] /\ q[0] = 0
      /\ \A i \in 1 .. n + m : q[i] = q[i - 1] + IF i \in C THEN 1 ELSE 0
  <2>1. IsRank(q, n + m, C)
    <3> HIDE DEF w, n, m
    <3> QED  BY <1>1, ThoseOf
  <2> HIDE DEF q
  <2> QED  BY <2>1 DEF IsRank
<1>4. /\ x \in Seq(S) /\ Len(x) = r[n]
      /\ \A i \in 1 .. n : i \in A => r[i] \in DOMAIN x /\ x[r[i]] = s[i]
      /\ \A k \in DOMAIN x : \E i \in 1 .. n : i \in A /\ r[i] = k
  <2>1. AreThose(x, r, S, s, n, A)
    BY ThoseOf
  <2> HIDE DEF x, r
  <2> QED  BY <2>1 DEF AreThose
<1>5. /\ y \in Seq(S) /\ Len(y) = q[n + m]
      /\ \A i \in 1 .. n + m : i \in C => q[i] \in DOMAIN y /\ y[q[i]] = w[i]
      /\ \A k \in DOMAIN y : \E i \in 1 .. n + m : i \in C /\ q[i] = k
  <2>1. AreThose(y, q, S, w, n + m, C)
    <3> HIDE DEF w, n, m
    <3> QED  BY <1>1, ThoseOf
  <2> HIDE DEF y, q
  <2> QED  BY <2>1 DEF AreThose
<1>6. /\ \A i \in 1 .. n : i \in C <=> i \in A
      /\ \A i \in 1 .. m : n + i \in C <=> all
  BY DEF GoesOn
<1> HIDE DEF n, m, w, r, q, x, y
<1>7. \A k \in 0 .. n : q[k] = r[k]
  <2> DEFINE P == {k \in 0 .. n : q[k] = r[k]}
  <2>1. 0 \in P
    BY <1>1, <1>2, <1>3
  <2>2. ASSUME NEW k \in 0 .. n - 1, k \in P PROVE k + 1 \in P
    <3>1. k + 1 \in 1 .. n /\ k + 1 \in 1 .. n + m /\ (k + 1) - 1 = k /\ k + 1 \in 0 .. n
      BY <1>1
    <3>2. /\ q[k + 1] = q[k] + IF k + 1 \in C THEN 1 ELSE 0
          /\ r[k + 1] = r[k] + IF k + 1 \in A THEN 1 ELSE 0
      BY <1>2, <1>3, <3>1
    <3> QED  BY <1>6, <2>2, <3>1, <3>2
  <2>3. \A k \in 0 .. n : k \in P
    <3> HIDE DEF P
    <3> QED  BY <1>1, <2>1, <2>2, Climb
  <2> QED  BY <2>3
<1>8. \A k \in 0 .. m : q[n + k] = r[n] + k * d
  <2> DEFINE P == {k \in 0 .. m : q[n + k] = r[n] + k * d}
  <2>0. r[n] \in Nat /\ d \in {0, 1}
    BY <1>1, <1>2
  <2>1. 0 \in P
    BY <1>1, <1>7, <2>0
  <2>2. ASSUME NEW k \in 0 .. m - 1, k \in P PROVE k + 1 \in P
    <3>1. /\ k + 1 \in 1 .. m /\ n + (k + 1) \in 1 .. n + m /\ (n + (k + 1)) - 1 = n + k
          /\ k + 1 \in 0 .. m /\ k \in Nat
      BY <1>1
    <3>2. q[n + (k + 1)] = q[n + k] + IF n + (k + 1) \in C THEN 1 ELSE 0
      BY <1>3, <3>1
    <3>3. q[n + (k + 1)] = q[n + k] + d
      BY <1>6, <3>1, <3>2
    <3>4. q[n + k] = r[n] + k * d
      BY <2>2
    <3>5. (k + 1) * d = k * d + d
      BY <2>0, <3>1
    <3> QED  BY <2>0, <3>1, <3>3, <3>4, <3>5
  <2>3. \A k \in 0 .. m : k \in P
    <3> HIDE DEF P
    <3> QED  BY <1>1, <2>1, <2>2, Climb
  <2> QED  BY <2>3
<1>9. r[n] \in Nat /\ DOMAIN x = 1 .. r[n] /\ Len(y) = r[n] + m * d
  BY <1>1, <1>2, <1>4, <1>5, <1>8
<1>10. \A k \in 1 .. r[n] : k \in DOMAIN y /\ y[k] = x[k]
  <2> SUFFICES ASSUME NEW k \in 1 .. r[n] PROVE k \in DOMAIN y /\ y[k] = x[k]
    OBVIOUS
  <2>1. PICK i \in 1 .. n : i \in A /\ r[i] = k
    BY <1>4, <1>9
  <2>2. i \in 1 .. n + m /\ i \in C /\ q[i] = k /\ w[i] = s[i]
    BY <1>1, <1>6, <1>7, <2>1
  <2> QED  BY <1>4, <1>5, <2>1, <2>2
<1>11. CASE all
  <2>1. d = 1 /\ Len(y) = r[n] + m
    BY <1>1, <1>9, <1>11
  <2>2. \A k \in 1 .. m : y[r[n] + k] = u[k]
    <3> SUFFICES ASSUME NEW k \in 1 .. m PROVE y[r[n] + k] = u[k]
      OBVIOUS
    <3>1. k \in 0 .. m /\ n + k \in 1 .. n + m /\ n + k \in C
      BY <1>1, <1>6, <1>11
    <3>2. q[n + k] = r[n] + k
      BY <1>8, <1>9, <2>1, <3>1
    <3> QED  BY <1>1, <1>5, <3>1, <3>2
  <2> DEFINE z == x \o u
  <2>3. /\ z \in Seq(S) /\ Len(z) = r[n] + m
        /\ \A k \in 1 .. r[n] : z[k] = x[k]
        /\ \A k \in 1 .. m : z[r[n] + k] = u[k]
    <3>1. u \in Seq(S) /\ Len(u) = m /\ Len(x) = r[n] /\ x \in Seq(S)
      BY <1>4 DEF m
    <3>2. AreJoined(z, x, u, S)
      BY <3>1, Joined
    <3> HIDE DEF z
    <3> QED  BY <3>1, <3>2 DEF AreJoined
  <2> HIDE DEF z
  <2>4. \A k \in 1 .. r[n] + m : k \in 1 .. r[n] \/ (k - r[n] \in 1 .. m /\ k = r[n] + (k - r[n]))
    BY <1>1, <1>9
  <2>5. \A k \in 1 .. r[n] + m : y[k] = z[k]
    BY <1>10, <2>2, <2>3, <2>4
  <2>6. y = z
    BY <1>5, <2>1, <2>3, <2>5, SameSeq
  <2> QED  BY <1>11, <2>6 DEF x, y, w, z
<1>12. CASE ~all
  <2>1. Len(y) = r[n]
    BY <1>1, <1>9, <1>12
  <2>2. /\ x \in Seq(S) /\ y \in Seq(S) /\ Len(x) = Len(y)
        /\ \A k \in 1 .. Len(x) : x[k] = y[k]
    BY <1>4, <1>5, <1>10, <2>1
  <2>3. x = y
    BY <2>2, SameSeq
  <2> QED  BY <1>12, <2>3 DEF x, y, w
<1> QED  BY <1>11, <1>12

-----------------------------------------------------------------------------
\* Listed: which items of a table belong to a line.

\* The table that a line's items go to.
Kind(l) == IF l.op = "label" THEN "label"
           ELSE IF l.op \in Directives THEN "none"
           ELSE IF l.op = "defs" THEN "bss"
           ELSE IF l.op \in MemOps THEN "data" ELSE "code"

\* The numbers that a line takes.
Size(l) == IF Kind(l) = "label" THEN 1
           ELSE IF Kind(l) = "none" THEN 0 ELSE Len(Items(l))

\* The numbers that the lines of some kinds take, before each line.
Sized(src, kinds) ==
    [i \in DOMAIN src |-> IF Kind(src[i]) \in kinds THEN Size(src[i]) ELSE 0]

Places(src, kinds) == Totals(Sized(src, kinds))

AllKinds == {"label", "none", "code", "data", "bss"}
ItemKinds == {"code", "data", "bss"}

Numbers(src) == Places(src, AllKinds)

\* Item k of line i.
ItemOf(src, i, k) ==
    IF Kind(src[i]) = "label"
    THEN [name |-> src[i].name, nr |-> Numbers(src)[i - 1]]
    ELSE [Items(src[i])[k] EXCEPT !.nr = Numbers(src)[i - 1] + k - 1]

\* t holds the items of the lines of a kind, in the order of the source.
Listed(t, src, kind) ==
    /\ Len(t) = Places(src, {kind})[Len(src)]
    /\ \A i \in DOMAIN src : Kind(src[i]) = kind =>
        \A k \in 1 .. Size(src[i]) :
            t[Places(src, {kind})[i - 1] + k] = ItemOf(src, i, k)

-----------------------------------------------------------------------------
LEMMA KindIs == ASSUME NEW l \in Lines
                PROVE  /\ l \in Line /\ l.op \in LineOps /\ l.val \in Int
                       /\ l.chars \in Seq(Int) /\ l.name \in Names \cup {NoName}
                       /\ Kind(l) \in AllKinds /\ Size(l) \in Nat
                       /\ Kind(l) \in ItemKinds =>
                            /\ Items(l) \in Seq(Fresh) /\ Size(l) = Len(Items(l))
                            /\ l.op \notin Directives \cup {"label"}
<1>1. l \in Line
  BY SourceTypes
<1>2. /\ l.op \in LineOps /\ l.val \in Int
      /\ l.chars \in Seq(Int) /\ l.name \in Names \cup {NoName}
  BY <1>1 DEF Line
<1>3. Kind(l) \in AllKinds
  BY DEF Kind, AllKinds
<1>4. Kind(l) \in ItemKinds => l.op \notin Directives \cup {"label"}
  BY DEF Kind, ItemKinds
<1>5. Kind(l) \in ItemKinds => Items(l) \in Seq(Fresh) /\ Size(l) = Len(Items(l))
  BY <1>4, ItemsType DEF Size, ItemKinds
<1>6. Size(l) \in Nat
  <2>1. CASE Kind(l) \in ItemKinds
    BY <1>5, <2>1
  <2>2. CASE Kind(l) \notin ItemKinds
    BY <1>3, <2>2 DEF Size, AllKinds, ItemKinds
  <2> QED  BY <2>1, <2>2
<1> QED  BY <1>1, <1>2, <1>3, <1>4, <1>5, <1>6

LEMMA SizedType ==
    ASSUME NEW src \in Seq(Lines), NEW kinds
    PROVE  /\ Sized(src, kinds) \in Seq(Nat) /\ Len(Sized(src, kinds)) = Len(src)
           /\ \A i \in 1 .. Len(src) :
                Sized(src, kinds)[i] = IF Kind(src[i]) \in kinds THEN Size(src[i]) ELSE 0
<1>1. /\ Len(src) \in Nat /\ DOMAIN src = 1 .. Len(src)
      /\ \A i \in 1 .. Len(src) : src[i] \in Lines
  OBVIOUS
<1>2. \A i \in 1 .. Len(src) : Size(src[i]) \in Nat
  BY <1>1, KindIs
<1>3. Sized(src, kinds) = [i \in 1 .. Len(src) |-> Sized(src, kinds)[i]]
  BY <1>1 DEF Sized
<1>4. \A i \in 1 .. Len(src) :
         Sized(src, kinds)[i] = IF Kind(src[i]) \in kinds THEN Size(src[i]) ELSE 0
  BY <1>1 DEF Sized
<1>5. \A i \in 1 .. Len(src) : Sized(src, kinds)[i] \in Nat
  BY <1>2, <1>4
<1>6. Sized(src, kinds) \in Seq(Nat)
  BY <1>1, <1>3, <1>5
<1>7. Len(Sized(src, kinds)) = Len(src)
  BY <1>1, <1>3
<1> QED  BY <1>4, <1>6, <1>7

LEMMA PlacesAre ==
    ASSUME NEW src \in Seq(Lines), NEW kinds
    PROVE  /\ Places(src, kinds) \in [0 .. Len(src) -> Nat]
           /\ Places(src, kinds)[0] = 0
           /\ \A i \in 1 .. Len(src) :
                Places(src, kinds)[i] = Places(src, kinds)[i - 1]
                    + IF Kind(src[i]) \in kinds THEN Size(src[i]) ELSE 0
<1> DEFINE f == Sized(src, kinds)
<1>1. /\ f \in Seq(Nat) /\ Len(f) = Len(src)
      /\ \A i \in 1 .. Len(src) :
                f[i] = IF Kind(src[i]) \in kinds THEN Size(src[i]) ELSE 0
  BY SizedType
<1>2. Places(src, kinds) = Totals(f)
  BY DEF Places
<1> HIDE DEF f
<1>3. /\ Totals(f) \in [0 .. Len(f) -> Nat] /\ Totals(f)[0] = 0
      /\ \A i \in 1 .. Len(f) : Totals(f)[i] = Totals(f)[i - 1] + f[i]
  BY <1>1, Totalled
<1> QED  BY <1>1, <1>2, <1>3

LEMMA Appended ==
    ASSUME NEW S, NEW s \in Seq(S), NEW x \in S
    PROVE  /\ Append(s, x) \in Seq(S) /\ Len(Append(s, x)) = Len(s) + 1
           /\ Append(s, x)[Len(s) + 1] = x
           /\ \A i \in 1 .. Len(s) : Append(s, x)[i] = s[i]
           /\ DOMAIN s = 1 .. Len(s) /\ DOMAIN Append(s, x) = 1 .. Len(s) + 1
           /\ Len(s) \in Nat
OBVIOUS

LEMMA PlacesGrow ==
    ASSUME NEW src \in Seq(Lines), NEW l \in Lines, NEW kinds
    PROVE  /\ \A i \in 0 .. Len(src) :
                Places(Append(src, l), kinds)[i] = Places(src, kinds)[i]
           /\ Places(Append(src, l), kinds)[Len(src) + 1] =
                Places(src, kinds)[Len(src)] + IF Kind(l) \in kinds THEN Size(l) ELSE 0
<1> DEFINE s == Append(src, l)
           f == Sized(src, kinds)
           g == Sized(s, kinds)
<1>1. /\ s \in Seq(Lines) /\ Len(s) = Len(src) + 1 /\ s[Len(src) + 1] = l
      /\ \A i \in 1 .. Len(src) : s[i] = src[i]
      /\ Len(src) \in Nat
  BY Appended
<1> HIDE DEF s
<1>2. /\ f \in Seq(Nat) /\ Len(f) = Len(src)
      /\ \A i \in 1 .. Len(src) :
            f[i] = IF Kind(src[i]) \in kinds THEN Size(src[i]) ELSE 0
      /\ g \in Seq(Nat) /\ Len(g) = Len(src) + 1
      /\ \A i \in 1 .. Len(src) + 1 :
            g[i] = IF Kind(s[i]) \in kinds THEN Size(s[i]) ELSE 0
  BY <1>1, SizedType
<1>3. Places(src, kinds) = Totals(f) /\ Places(s, kinds) = Totals(g)
  BY DEF Places
<1> HIDE DEF f, g
<1>4. Len(f) <= Len(g) /\ \A i \in 1 .. Len(f) : g[i] = f[i]
  <2>1. \A i \in 1 .. Len(src) : i \in 1 .. Len(src) + 1
    BY <1>1
  <2> QED  BY <1>1, <1>2, <2>1
<1>5. \A i \in 0 .. Len(f) : Totals(g)[i] = Totals(f)[i]
  BY <1>2, <1>4, TotalsExtend
<1>6. Totals(g)[Len(src) + 1] = Totals(g)[Len(src)] + g[Len(src) + 1]
  <2>1. /\ Len(src) + 1 \in 1 .. Len(g) /\ (Len(src) + 1) - 1 = Len(src)
    BY <1>1, <1>2
  <2>2. \A i \in 1 .. Len(g) : Totals(g)[i] = Totals(g)[i - 1] + g[i]
    BY <1>2, Totalled
  <2> QED  BY <2>1, <2>2
<1>7. g[Len(src) + 1] = IF Kind(l) \in kinds THEN Size(l) ELSE 0
  BY <1>1, <1>2
<1>8. Len(src) \in 0 .. Len(f)
  BY <1>1, <1>2
<1> QED  BY <1>2, <1>3, <1>5, <1>6, <1>7, <1>8 DEF s

\* Lines of other kinds do not matter; a line of the kind adds its items.
LEMMA ListedGrows ==
    ASSUME NEW S, NEW t \in Seq(S), NEW src \in Seq(Lines), NEW l \in Lines, NEW kind,
           Listed(t, src, kind)
    PROVE  /\ Kind(l) # kind => Listed(t, Append(src, l), kind)
           /\ \A u \in Seq(S) :
                /\ Kind(l) = kind /\ Len(u) = Size(l)
                /\ \A k \in 1 .. Size(l) : u[k] = ItemOf(Append(src, l), Len(src) + 1, k)
                => Listed(t \o u, Append(src, l), kind)
<1> DEFINE s == Append(src, l)
           n == Len(src)
           p == Places(src, {kind})
           q == Places(s, {kind})
<1>1. /\ s \in Seq(Lines) /\ Len(s) = n + 1 /\ s[n + 1] = l
      /\ \A i \in 1 .. n : s[i] = src[i]
      /\ n \in Nat /\ DOMAIN src = 1 .. n /\ DOMAIN s = 1 .. n + 1
      /\ \A i \in 1 .. n + 1 : i \in 1 .. n \/ i = n + 1
      /\ \A i \in 1 .. n : i - 1 \in 0 .. n /\ i \in 0 .. n
      /\ n \in 0 .. n
  BY Appended
<1> HIDE DEF s
<1>2. /\ \A i \in 0 .. n : q[i] = p[i]
      /\ q[n + 1] = p[n] + IF Kind(l) = kind THEN Size(l) ELSE 0
  <2>1. /\ \A i \in 0 .. n : q[i] = p[i]
        /\ q[n + 1] = p[n] + IF Kind(l) \in {kind} THEN Size(l) ELSE 0
    BY PlacesGrow DEF s
  <2> QED  BY <2>1
<1>3. \A i \in 0 .. n : Numbers(s)[i] = Numbers(src)[i]
  BY PlacesGrow DEF s, Numbers
<1>4. \A i \in 1 .. n : \A k : ItemOf(s, i, k) = ItemOf(src, i, k)
  BY <1>1, <1>3 DEF ItemOf
<1>5. /\ \A i \in 0 .. n : p[i] \in Nat
      /\ \A i \in 1 .. n : p[i] = p[i - 1] + IF Kind(src[i]) = kind THEN Size(src[i]) ELSE 0
      /\ \A i \in 1 .. n : p[i] <= p[n]
  <2>1. /\ p \in [0 .. n -> Nat]
        /\ \A i \in 1 .. n : p[i] = p[i - 1] + IF Kind(src[i]) \in {kind} THEN Size(src[i]) ELSE 0
    BY PlacesAre
  <2>2. \A i \in 1 .. n : p[i] <= p[n]
    <3> DEFINE f == Sized(src, {kind})
    <3>1. f \in Seq(Nat) /\ Len(f) = n
      BY SizedType
    <3>2. p = Totals(f)
      BY DEF Places
    <3> HIDE DEF f, p
    <3>3. \A j \in 0 .. n : \A i \in 0 .. j : p[i] <= p[j]
      BY <3>1, <3>2, TotalsMonotone
    <3> QED  BY <1>1, <3>3
  <2> HIDE DEF p, n
  <2> QED  BY <2>1, <2>2
<1>6. /\ Len(t) = p[n]
      /\ \A i \in 1 .. n : Kind(src[i]) = kind =>
            \A k \in 1 .. Size(src[i]) : t[p[i - 1] + k] = ItemOf(src, i, k)
  BY <1>1 DEF Listed
<1> HIDE DEF n, p, q
<1>7. ASSUME Kind(l) # kind PROVE Listed(t, s, kind)
  <2>1. q[n + 1] = p[n]
    BY <1>1, <1>2, <1>5, <1>7
  <2>2. \A i \in 1 .. n + 1 : Kind(s[i]) = kind =>
            \A k \in 1 .. Size(s[i]) : t[q[i - 1] + k] = ItemOf(s, i, k)
    BY <1>1, <1>2, <1>4, <1>6, <1>7
  <2> QED  BY <1>1, <1>6, <2>1, <2>2 DEF Listed, q
<1>8. ASSUME NEW u \in Seq(S), Kind(l) = kind, Len(u) = Size(l),
             \A k \in 1 .. Size(l) : u[k] = ItemOf(s, n + 1, k)
      PROVE  Listed(t \o u, s, kind)
  <2> DEFINE z == t \o u
  <2>1. AreJoined(z, t, u, S)
    BY Joined
  <2>2. /\ Len(z) = Len(t) + Len(u)
        /\ \A k \in 1 .. Len(t) : z[k] = t[k]
        /\ \A k \in 1 .. Len(u) : z[Len(t) + k] = u[k]
    BY <2>1 DEF AreJoined
  <2> HIDE DEF z
  <2>3. Len(z) = q[n + 1]
    BY <1>2, <1>6, <1>8, <2>2
  <2>4. ASSUME NEW i \in 1 .. n, Kind(s[i]) = kind, NEW k \in 1 .. Size(s[i])
        PROVE  z[q[i - 1] + k] = ItemOf(s, i, k)
    <3>1. q[i - 1] = p[i - 1] /\ s[i] = src[i] /\ i \in 0 .. n /\ i - 1 \in 0 .. n
      BY <1>1, <1>2
    <3>2. p[i - 1] + k \in 1 .. Len(t)
      <4>1. p[i] = p[i - 1] + Size(s[i]) /\ p[i] <= p[n] /\ p[i - 1] \in Nat /\ p[i] \in Nat
        BY <1>5, <2>4, <3>1
      <4>2. p[n] \in Nat
        BY <1>1, <1>5
      <4>3. Size(s[i]) \in Nat
        BY <1>1, KindIs
      <4> QED  BY <1>6, <4>1, <4>2, <4>3
    <3>3. t[p[i - 1] + k] = ItemOf(s, i, k)
      BY <1>4, <1>6, <2>4, <3>1
    <3> QED  BY <2>2, <3>1, <3>2, <3>3
  <2>5. ASSUME NEW k \in 1 .. Size(s[n + 1])
        PROVE  z[q[(n + 1) - 1] + k] = ItemOf(s, n + 1, k)
    <3>1. (n + 1) - 1 = n /\ q[n] = p[n]
      BY <1>1, <1>2
    <3> QED  BY <1>1, <1>6, <1>8, <2>2, <3>1
  <2>6. \A i \in 1 .. n + 1 : Kind(s[i]) = kind =>
            \A k \in 1 .. Size(s[i]) : z[q[i - 1] + k] = ItemOf(s, i, k)
    BY <1>1, <2>4, <2>5
  <2>7. Listed(z, s, kind)
    BY <1>1, <2>3, <2>6 DEF Listed, q
  <2> QED  BY <2>7 DEF z
<1> QED  BY <1>7, <1>8 DEF s, n

\* Every place of a list is that of an item.
LEMMA ListedCovers ==
    ASSUME NEW t, NEW src \in Seq(Lines), NEW kind, Listed(t, src, kind),
           NEW j \in 1 .. Len(t)
    PROVE  \E i \in DOMAIN src : \E k \in 1 .. Size(src[i]) :
                /\ Kind(src[i]) = kind /\ j = Places(src, {kind})[i - 1] + k
                /\ t[j] = ItemOf(src, i, k)
<1> DEFINE n == Len(src)
           f == Sized(src, {kind})
           p == Places(src, {kind})
<1>1. /\ n \in Nat /\ DOMAIN src = 1 .. n /\ f \in Seq(Nat) /\ Len(f) = n
      /\ \A i \in 1 .. n : f[i] = IF Kind(src[i]) \in {kind} THEN Size(src[i]) ELSE 0
  BY SizedType
<1>2. p = Totals(f) /\ p \in [0 .. n -> Nat]
  BY PlacesAre DEF Places
<1>3. Len(t) = p[n]
  BY DEF Listed
<1> HIDE DEF n, f
<1>4. PICK i \in 1 .. n : j - p[i - 1] \in 1 .. f[i]
  <2> HIDE DEF p
  <2>1. j \in 1 .. Totals(f)[Len(f)]
    BY <1>1, <1>2, <1>3
  <2> QED  BY <1>1, <1>2, <2>1, TotalsCover
<1> DEFINE k == j - p[i - 1]
<1>5. Kind(src[i]) = kind /\ f[i] = Size(src[i]) /\ k \in 1 .. Size(src[i])
  BY <1>1, <1>4
<1>6. p[i - 1] \in Nat /\ j \in Nat
  BY <1>1, <1>2, <1>3
<1>7. j = p[i - 1] + k
  BY <1>6
<1>8. t[j] = ItemOf(src, i, k)
  <2> HIDE DEF k
  <2> QED  BY <1>1, <1>5, <1>7 DEF Listed
<1> HIDE DEF k, p
<1> QED  BY <1>1, <1>5, <1>7, <1>8 DEF p

\* What the assembler takes for a line is what Layout says.
LEMMA SizesAgree ==
    ASSUME NEW l \in Lines
    PROVE  /\ L!CodeSize(l) = IF Kind(l) = "code" THEN 2 * Size(l) ELSE 0
           /\ L!BssSize(l) = IF Kind(l) = "bss" THEN 2 * Size(l) ELSE 0
           /\ L!DataSize(l) = IF Kind(l) # "data" THEN 0
                              ELSE IF l.op = "defw" THEN 2 ELSE Size(l)
           /\ Kind(l) = "data" => Size(l) >= 1 /\ (l.op = "defw" => Size(l) = 1)
           /\ Kind(l) = "code" => Size(l) >= 1
           /\ L!TakesMemory(l) <=> Kind(l) \in ItemKinds /\ Size(l) > 0
<1>1. /\ l.op \in LineOps /\ l.val \in Int /\ l.chars \in Seq(Int) /\ Size(l) \in Nat
      /\ Kind(l) \in AllKinds
  BY KindIs
<1>2. Len(l.chars) \in Nat
  BY <1>1
<1>3. Low \in Nat /\ Low > 0
  BY SourceTypes
<1>4. CASE l.op \in {"label", "code", "data"}
  <2>1. Kind(l) = "label" \/ (Kind(l) = "none" /\ Size(l) = 0)
    BY <1>4 DEF Kind, Size, Directives
  <2>2. L!CodeSize(l) = 0 /\ L!DataSize(l) = 0 /\ L!BssSize(l) = 0
    BY <1>4 DEF L!CodeSize, L!DataSize, L!BssSize
  <2> QED  BY <1>1, <2>1, <2>2 DEF L!TakesMemory, ItemKinds
<1>5. CASE l.op \in {"plain", "br", "ldi", "ld16", "la16"}
  <2>1. Kind(l) = "code" /\ Size(l) = Len(Items(l))
    BY <1>5 DEF Kind, Size, Directives, MemOps
  <2>2. Size(l) = IF l.op = "la16" \/ (l.op = "ld16" /\ l.val >= Low) THEN 2 ELSE 1
    <3>1. CASE l.op = "ld16"
      <4>1. Items(l) = Ld16(l.val)
        BY <3>1 DEF Items
      <4>2. l.val >= Low => Len(Ld16(l.val)) = 2
        BY <1>1, <1>3 DEF Ld16, LastLoads
      <4>3. ~(l.val >= Low) => Len(Ld16(l.val)) = 1
        BY <1>1, <1>3 DEF Ld16, LastLoads
      <4> QED  BY <2>1, <3>1, <4>1, <4>2, <4>3
    <3>2. CASE l.op # "ld16"
      BY <1>5, <2>1, <3>2 DEF Items
    <3> QED  BY <3>1, <3>2
  <2>3. L!CodeSize(l) = IF l.op = "la16" \/ (l.op = "ld16" /\ l.val >= Low) THEN 4 ELSE 2
    BY <1>1, <1>3, <1>5 DEF L!CodeSize
  <2>4. L!DataSize(l) = 0 /\ L!BssSize(l) = 0
    BY <1>5 DEF L!DataSize, L!BssSize
  <2> QED  BY <1>1, <2>1, <2>2, <2>3, <2>4 DEF L!TakesMemory, ItemKinds
<1>6. CASE l.op \in {"defw", "defb", "defstr"}
  <2>1. Kind(l) = "data" /\ Size(l) = Len(Items(l))
    BY <1>6 DEF Kind, Size, Directives, MemOps
  <2>2. Size(l) = IF l.op = "defstr" THEN Len(l.chars) + 1 ELSE 1
    <3>1. CASE l.op = "defstr"
      <4>1. Items(l) = [i \in 1 .. Len(l.chars) + 1 |->
                            Byte(IF i > Len(l.chars) THEN 0 ELSE l.chars[i])]
        BY <3>1 DEF Items
      <4> QED  BY <1>2, <2>1, <3>1, <4>1
    <3>2. CASE l.op # "defstr"
      BY <1>6, <2>1, <3>2 DEF Items
    <3> QED  BY <3>1, <3>2
  <2>3. L!CodeSize(l) = 0 /\ L!BssSize(l) = 0
    BY <1>6 DEF L!CodeSize, L!BssSize
  <2>4. L!DataSize(l) = IF l.op = "defw" THEN 2 ELSE Size(l)
    BY <1>6, <2>2 DEF L!DataSize
  <2> QED  BY <1>1, <1>2, <1>6, <2>1, <2>2, <2>3, <2>4 DEF L!TakesMemory, ItemKinds
<1>7. CASE l.op = "defs"
  <2>1. Kind(l) = "bss" /\ Size(l) = Len(Items(l))
    BY <1>7 DEF Kind, Size, Directives
  <2>2. Size(l) = l.val \div 2
    <3> DEFINE word == [Instruction("defw", NoName, 0) EXCEPT !.bss = TRUE]
    <3>1. Items(l) = [i \in 1 .. l.val \div 2 |-> word]
      BY <1>7 DEF Items
    <3> HIDE DEF word
    <3>2. l.val \div 2 \in Nat
      BY <1>1, <1>7, LinesAssumption, SMT
    <3> QED  BY <2>1, <3>1, <3>2
  <2>3. L!CodeSize(l) = 0 /\ L!DataSize(l) = 0 /\ L!BssSize(l) = 2 * Size(l)
    BY <1>7, <2>2 DEF L!CodeSize, L!DataSize, L!BssSize
  <2> QED  BY <1>1, <2>1, <2>3 DEF L!TakesMemory, ItemKinds
<1> QED  BY <1>1, <1>4, <1>5, <1>6, <1>7 DEF LineOps

\* What defs reserves is marked, and nothing else; bytes hold a byte.
LEMMA ItemMarks ==
    ASSUME NEW l \in Lines, Kind(l) \in ItemKinds, NEW k \in 1 .. Size(l)
    PROVE  /\ Items(l)[k].bss <=> Kind(l) = "bss"
           /\ Items(l)[k].byte <=> Kind(l) = "data" /\ l.op # "defw"
           /\ Items(l)[k].byte => /\ Items(l)[k].val \in 0 .. 255
                                  /\ Items(l)[k].op = "defb" /\ Items(l)[k].name = NoName
<1>1. /\ l.op \in LineOps /\ l.val \in Int /\ l.chars \in Seq(Int)
      /\ l.op \notin Directives \cup {"label"} /\ Size(l) = Len(Items(l))
      /\ Size(l) \in Nat
  BY KindIs
<1>2. CASE l.op \in {"plain", "br", "ldi", "la16", "defw"}
  <2>1. k \in {1, 2} /\ (l.op # "la16" => k = 1)
    BY <1>1, <1>2 DEF Items
  <2>2. ~Items(l)[k].bss /\ ~Items(l)[k].byte
    BY <1>2, <2>1 DEF Items, Instruction
  <2>3. Kind(l) # "bss" /\ (Kind(l) = "data" => l.op = "defw")
    BY <1>2 DEF Kind, MemOps
  <2> QED  BY <2>2, <2>3
<1>3. CASE l.op = "ld16"
  <2>1. Items(l) = Ld16(l.val)
    BY <1>3 DEF Items
  <2>2. CASE l.val <= LastLoads
    <3>1. k = 1 /\ Items(l)[1] = Instruction("ldi", NoName, l.val)
      BY <1>1, <2>1, <2>2 DEF Ld16
    <3> QED  BY <1>3, <3>1 DEF Instruction, Kind, MemOps
  <2>3. CASE ~(l.val <= LastLoads)
    <3>1. /\ k \in {1, 2}
          /\ Items(l)[1] = [Instruction("ldi", NoName, l.val % Low) EXCEPT !.ld16 = TRUE]
          /\ Items(l)[2] = [Instruction("addhi", NoName, (l.val \div Low) % High)
                                EXCEPT !.ld16 = TRUE]
      BY <1>1, <2>1, <2>3 DEF Ld16
    <3>2. /\ ~Items(l)[1].bss /\ ~Items(l)[1].byte
          /\ ~Items(l)[2].bss /\ ~Items(l)[2].byte
      BY <3>1 DEF Instruction
    <3> QED  BY <1>3, <3>1, <3>2 DEF Kind, MemOps
  <2> QED  BY <2>2, <2>3
<1>4. CASE l.op = "defs"
  <2> DEFINE word == [Instruction("defw", NoName, 0) EXCEPT !.bss = TRUE]
  <2>1. Items(l) = [i \in 1 .. l.val \div 2 |-> word]
    BY <1>4 DEF Items
  <2>2. word.bss /\ ~word.byte
    BY DEF Instruction
  <2> HIDE DEF word
  <2>3. l.val \div 2 \in Nat
    BY <1>1, <1>4, LinesAssumption, SMT
  <2>4. Items(l)[k] = word
    BY <1>1, <2>1, <2>3
  <2> QED  BY <1>4, <2>2, <2>4 DEF Kind, Directives
<1>5. \A v : /\ Byte(v).byte /\ ~Byte(v).bss /\ Byte(v).val = v
             /\ Byte(v).op = "defb" /\ Byte(v).name = NoName
  BY DEF Byte, Instruction
<1>6. CASE l.op = "defb"
  <2>1. k = 1 /\ Items(l)[1] = Byte(l.val) /\ l.val \in 0 .. 255
    BY <1>1, <1>6, LinesAssumption DEF Items
  <2> QED  BY <1>5, <1>6, <2>1 DEF Kind, MemOps, Directives
<1>7. CASE l.op = "defstr"
  <2>1. Items(l) = [i \in 1 .. Len(l.chars) + 1 |->
                        Byte(IF i > Len(l.chars) THEN 0 ELSE l.chars[i])]
    BY <1>7 DEF Items
  <2>2. Len(l.chars) \in Nat /\ DOMAIN l.chars = 1 .. Len(l.chars)
    BY <1>1
  <2>3. k \in 1 .. Len(l.chars) + 1
    BY <1>1, <2>1, <2>2
  <2> DEFINE v == IF k > Len(l.chars) THEN 0 ELSE l.chars[k]
  <2>4. Items(l)[k] = Byte(v)
    BY <2>1, <2>3
  <2>5. v \in 0 .. 255
    <3>1. \A i \in DOMAIN l.chars : l.chars[i] \in 1 .. 255
      BY LinesAssumption
    <3>2. k \in DOMAIN l.chars \/ v = 0
      BY <2>2, <2>3
    <3>3. \A n \in 1 .. 255 : n \in 0 .. 255
      OBVIOUS
    <3>4. k \in DOMAIN l.chars => v = l.chars[k]
      BY <2>2, <2>3
    <3> QED  BY <3>1, <3>2, <3>3, <3>4
  <2> HIDE DEF v
  <2> QED  BY <1>5, <1>7, <2>4, <2>5 DEF Kind, MemOps, Directives
<1> QED  BY <1>1, <1>2, <1>3, <1>4, <1>6, <1>7 DEF LineOps, Directives

-----------------------------------------------------------------------------
\* Relocation: the base of the code.

\* The largest and the smallest of some places, as Layout takes them.
LEMMA MaxIs ==
    ASSUME NEW n \in Nat, NEW U, U \subseteq 1 .. n, U # {}
    PROVE  L!Max(U) \in U /\ \A y \in U : y <= L!Max(U)
<1>1. PICK x \in U : \A y \in U : y <= x
  BY Greatest
<1>2. \A y \in U : x >= y
  BY <1>1
<1>3. L!Max(U) = CHOOSE z \in U : \A y \in U : z >= y
  BY DEF L!Max
<1>4. L!Max(U) \in U /\ \A y \in U : L!Max(U) >= y
  BY <1>1, <1>2, <1>3
<1> QED  BY <1>4

LEMMA MinIs ==
    ASSUME NEW n \in Nat, NEW U, U \subseteq 1 .. n, U # {}
    PROVE  L!Min(U) \in U /\ \A y \in U : L!Min(U) <= y
<1>1. U \subseteq Nat
  OBVIOUS
<1>2. PICK x \in U : \A y \in U : x <= y
  BY <1>1, Least
<1>3. L!Min(U) = CHOOSE z \in U : \A y \in U : z <= y
  BY DEF L!Min
<1>4. L!Min(U) \in U /\ \A y \in U : L!Min(U) <= y
  BY <1>2, <1>3
<1> QED  BY <1>4

LEMMA BaseGrows ==
    ASSUME NEW src \in Seq(Lines), NEW l \in Lines
    PROVE  L!Base(Append(src, l)) = IF l.op = "code" THEN l.val ELSE L!Base(src)
<1> DEFINE s == Append(src, l)
           n == Len(src)
           U == {i \in DOMAIN src : src[i].op = "code"}
           V == {i \in DOMAIN s : s[i].op = "code"}
<1>1. /\ s \in Seq(Lines) /\ Len(s) = n + 1 /\ s[n + 1] = l
      /\ \A i \in 1 .. n : s[i] = src[i]
      /\ n \in Nat /\ DOMAIN src = 1 .. n /\ DOMAIN s = 1 .. n + 1
      /\ \A i \in 1 .. n + 1 : i \in 1 .. n \/ i = n + 1
  BY Appended
<1>2. /\ L!Base(src) = IF U = {} THEN 0 ELSE src[L!Max(U)].val
      /\ L!Base(s) = IF V = {} THEN 0 ELSE s[L!Max(V)].val
  BY DEF L!Base
<1> HIDE DEF s, n
<1>3. U \subseteq 1 .. n /\ V \subseteq 1 .. n + 1
  BY <1>1
<1>4. CASE l.op = "code"
  <2>1. n + 1 \in V
    BY <1>1, <1>4
  <2>2. L!Max(V) \in V /\ n + 1 <= L!Max(V)
    <3>1. n + 1 \in Nat /\ V \subseteq 1 .. n + 1 /\ V # {}
      BY <1>1, <1>3, <2>1
    <3> HIDE DEF V
    <3>2. L!Max(V) \in V /\ \A y \in V : y <= L!Max(V)
      BY <3>1, MaxIs
    <3> QED  BY <2>1, <3>2
  <2>3. L!Max(V) = n + 1
    BY <1>1, <1>3, <2>2
  <2> QED  BY <1>1, <1>2, <1>4, <2>1, <2>3 DEF s
<1>5. CASE l.op # "code"
  <2>1. U = V
    BY <1>1, <1>5
  <2>2. U # {} => L!Max(U) \in 1 .. n
    <3> HIDE DEF U, V
    <3> QED  BY <1>1, <1>3, MaxIs
  <2> HIDE DEF U, V
  <2> QED  BY <1>1, <1>2, <1>5, <2>1, <2>2 DEF s
<1> QED  BY <1>4, <1>5

\* No numbers are taken iff no line takes any.
LEMMA NumbersZero ==
    ASSUME NEW src \in Seq(Lines)
    PROVE  Numbers(src)[Len(src)] = 0 <=> \A i \in 1 .. Len(src) : Size(src[i]) = 0
<1> DEFINE n == Len(src)
           p == Numbers(src)
<1>1. /\ n \in Nat /\ p \in [0 .. n -> Nat] /\ p[0] = 0
      /\ \A i \in 1 .. n : p[i] = p[i - 1] + Size(src[i])
      /\ \A i \in 1 .. n : Size(src[i]) \in Nat
  <2>1. \A i \in 1 .. n : src[i] \in Lines
    OBVIOUS
  <2>2. \A i \in 1 .. n : Kind(src[i]) \in AllKinds /\ Size(src[i]) \in Nat
    BY <2>1, KindIs
  <2>3. /\ Places(src, AllKinds) \in [0 .. n -> Nat] /\ Places(src, AllKinds)[0] = 0
        /\ \A i \in 1 .. n :
            Places(src, AllKinds)[i] = Places(src, AllKinds)[i - 1]
                + IF Kind(src[i]) \in AllKinds THEN Size(src[i]) ELSE 0
    BY PlacesAre
  <2>4. \A i \in 1 .. n : p[i] = p[i - 1] + Size(src[i])
    BY <2>2, <2>3 DEF Numbers
  <2> QED  BY <2>2, <2>3, <2>4 DEF Numbers
<1>2. \A j \in 0 .. n : \A i \in 0 .. j : p[i] <= p[j]
  <2> DEFINE f == Sized(src, AllKinds)
  <2>1. f \in Seq(Nat) /\ Len(f) = n
    BY SizedType
  <2>2. p = Totals(f)
    BY DEF Numbers, Places
  <2> HIDE DEF f, p, n
  <2> QED  BY <2>1, <2>2, TotalsMonotone
<1> HIDE DEF n, p
<1>3. ASSUME p[n] = 0, NEW i \in 1 .. n PROVE Size(src[i]) = 0
  <2>1. i \in 0 .. n /\ i - 1 \in 0 .. n /\ n \in 0 .. n /\ i \in 0 .. n /\ i - 1 \in 0 .. n
    BY <1>1
  <2>2. p[i] <= p[n] /\ p[i] \in Nat /\ p[i - 1] \in Nat
    BY <1>1, <1>2, <2>1
  <2> QED  BY <1>1, <1>3, <2>2
<1>4. ASSUME \A i \in 1 .. n : Size(src[i]) = 0 PROVE p[n] = 0
  <2> DEFINE P == {k \in 0 .. n : p[k] = 0}
  <2>1. 0 \in P
    BY <1>1
  <2>2. \A k \in 0 .. n - 1 : k \in P => k + 1 \in P
    <3> SUFFICES ASSUME NEW k \in 0 .. n - 1, k \in P PROVE k + 1 \in P
      OBVIOUS
    <3>1. k + 1 \in 1 .. n /\ (k + 1) - 1 = k /\ k + 1 \in 0 .. n /\ p[k] = 0
      BY <1>1
    <3>2. p[k + 1] = p[k] + Size(src[k + 1]) /\ Size(src[k + 1]) = 0
      BY <1>1, <1>4, <3>1
    <3> QED  BY <3>1, <3>2
  <2>3. \A k \in 0 .. n : k \in P
    <3> HIDE DEF P
    <3> QED  BY <1>1, <2>1, <2>2, Climb
  <2>4. n \in 0 .. n
    BY <1>1
  <2> QED  BY <2>3, <2>4
<1> QED  BY <1>3, <1>4 DEF n, p

\* Code may be placed as long as no line has taken a number.
LEMMA RelocatableGrows ==
    ASSUME NEW src \in Seq(Lines), NEW l \in Lines
    PROVE  L!Relocatable(Append(src, l)) <=>
                /\ L!Relocatable(src)
                /\ l.op = "code" => Numbers(src)[Len(src)] = 0
<1> DEFINE s == Append(src, l)
           n == Len(src)
           Takes(x) == x.op = "label" \/ L!TakesMemory(x)
<1>1. /\ s \in Seq(Lines) /\ Len(s) = n + 1 /\ s[n + 1] = l
      /\ \A i \in 1 .. n : s[i] = src[i] /\ src[i] \in Lines
      /\ n \in Nat /\ DOMAIN src = 1 .. n /\ DOMAIN s = 1 .. n + 1
      /\ \A i \in 1 .. n + 1 : i \in 1 .. n \/ i = n + 1
      /\ \A i \in 1 .. n : \A j \in 1 .. i - 1 : j \in 1 .. n
      /\ n + 1 \in 1 .. n + 1 /\ (n + 1) - 1 = n
  BY Appended
<1>2. \A x \in Lines : Takes(x) <=> Size(x) # 0
  <2> SUFFICES ASSUME NEW x \in Lines PROVE Takes(x) <=> Size(x) # 0
    OBVIOUS
  <2>1. Size(x) \in Nat /\ Kind(x) \in AllKinds
    BY KindIs
  <2>2. L!TakesMemory(x) <=> Kind(x) \in ItemKinds /\ Size(x) > 0
    BY SizesAgree
  <2>3. x.op = "label" <=> Kind(x) = "label"
    BY DEF Kind, Directives
  <2> QED  BY <2>1, <2>2, <2>3 DEF Size, AllKinds, ItemKinds
<1>3. /\ L!Relocatable(src) <=> \A i \in 1 .. n : src[i].op = "code" =>
                                    \A j \in 1 .. i - 1 : ~Takes(src[j])
      /\ L!Relocatable(s) <=> \A i \in 1 .. n + 1 : s[i].op = "code" =>
                                    \A j \in 1 .. i - 1 : ~Takes(s[j])
  BY <1>1 DEF L!Relocatable
<1>4. Numbers(src)[n] = 0 <=> \A i \in 1 .. n : Size(src[i]) = 0
  BY NumbersZero
<1> HIDE DEF s, n, Takes
<1>5. L!Relocatable(s) <=> /\ L!Relocatable(src)
                           /\ l.op = "code" => \A j \in 1 .. n : ~Takes(src[j])
  <2>1. ASSUME L!Relocatable(s) PROVE L!Relocatable(src)
    <3>1. \A i \in 1 .. n : i \in 1 .. n + 1
      BY <1>1
    <3> QED  BY <1>1, <1>3, <2>1, <3>1
  <2>2. ASSUME L!Relocatable(s), l.op = "code", NEW j \in 1 .. n PROVE ~Takes(src[j])
    BY <1>1, <1>3, <2>2
  <2>3. ASSUME L!Relocatable(src), l.op = "code" => \A j \in 1 .. n : ~Takes(src[j])
        PROVE  L!Relocatable(s)
    BY <1>1, <1>3, <2>3
  <2> QED  BY <2>1, <2>2, <2>3
<1> QED  BY <1>1, <1>2, <1>4, <1>5 DEF s, n

-----------------------------------------------------------------------------
\* The parser lists every line in the table of its kind.

NamedLabels == [i \in DOMAIN labels |-> [name |-> labels[i].name, nr |-> labels[i].nr]]

Reserved == {i \in DOMAIN mem : mem[i].bss}

\* What the parser has of the lines read.
Parsed ==
    /\ instrNr = Numbers(source)[Len(source)]
    /\ codePtr = L!Base(source)
    /\ L!Relocatable(source)
    /\ Listed(NamedLabels, source, "label")
    /\ Listed(instructions, source, "code")
    /\ Listed(Those(mem, DOMAIN mem \ Reserved), source, "data")
    /\ Listed(Those(mem, Reserved), source, "bss")

Named == [name : Names, nr : Nat]

LEMMA ListedTypes ==
    ASSUME TypeInv
    PROVE  /\ NamedLabels \in Seq(Named) /\ Len(NamedLabels) = Len(labels)
           /\ \A i \in 1 .. Len(labels) :
                NamedLabels[i] = [name |-> labels[i].name, nr |-> labels[i].nr]
           /\ source \in Seq(Lines) /\ instructions \in Seq(Coded)
           /\ labels \in Seq(Label) /\ mem \in Seq(Coded)
           /\ Those(mem, DOMAIN mem \ Reserved) \in Seq(Coded)
           /\ Those(mem, Reserved) \in Seq(Coded)
<1>1. labels \in Seq(Label) /\ source \in Seq(Lines) /\ instructions \in Seq(Coded)
      /\ mem \in Seq(Coded)
  BY DEF TypeInv, TypeOK, Label
<1>2. DOMAIN labels = 1 .. Len(labels) /\ Len(labels) \in Nat
      /\ \A i \in 1 .. Len(labels) : labels[i] \in Label
  BY <1>1
<1>3. \A i \in 1 .. Len(labels) :
        /\ NamedLabels[i] = [name |-> labels[i].name, nr |-> labels[i].nr]
        /\ NamedLabels[i] \in Named
  BY <1>2 DEF NamedLabels, Label, Named
<1>4. NamedLabels = [i \in 1 .. Len(labels) |-> NamedLabels[i]]
  BY <1>2 DEF NamedLabels
<1>5. NamedLabels \in Seq(Named) /\ Len(NamedLabels) = Len(labels)
  <2>1. NamedLabels \in Seq(Named)
    BY <1>2, <1>3, <1>4
  <2>2. Len(NamedLabels) = Len(labels)
    BY <1>2, <1>4
  <2> QED  BY <2>1, <2>2
<1>6. Those(mem, DOMAIN mem \ Reserved) \in Seq(Coded) /\ Those(mem, Reserved) \in Seq(Coded)
  BY <1>1, ThoseAre
<1> QED  BY <1>1, <1>3, <1>5, <1>6

LEMMA NumbersGrow ==
    ASSUME NEW src \in Seq(Lines), NEW l \in Lines
    PROVE  LET s == Append(src, l)
           IN  /\ Numbers(s)[Len(s)] = Numbers(src)[Len(src)] + Size(l)
               /\ s[Len(src) + 1] = l
               /\ Numbers(s)[(Len(src) + 1) - 1] = Numbers(src)[Len(src)]
<1> DEFINE s == Append(src, l)
<1>1. Len(s) = Len(src) + 1 /\ s[Len(src) + 1] = l /\ Len(src) \in Nat
  BY Appended
<1>2. Kind(l) \in AllKinds
  BY KindIs
<1>3. /\ Places(s, AllKinds)[Len(src)] = Places(src, AllKinds)[Len(src)]
      /\ Places(s, AllKinds)[Len(src) + 1] = Places(src, AllKinds)[Len(src)] + Size(l)
  <2>1. Len(src) \in 0 .. Len(src)
    BY <1>1
  <2> QED  BY <1>2, <2>1, PlacesGrow
<1>4. (Len(src) + 1) - 1 = Len(src)
  BY <1>1
<1> QED  BY <1>1, <1>3, <1>4 DEF Numbers

LEMMA LabelListed ==
    ASSUME TypeInv, Parsed, NEW l \in Lines, source' = Append(source, l), ParseLabel(l),
           mem' = mem
    PROVE  Parsed'
<1> DEFINE s == Append(source, l)
           x == [name |-> l.name, nr |-> instrNr]
<1>1. /\ l.op = "label" /\ labels' = Append(MovedOn, [name |-> l.name, nr |-> instrNr,
                                                      ptr |-> instrNr + 1])
      /\ instrNr' = instrNr + 1
      /\ codePtr' = codePtr /\ instructions' = instructions /\ mem' = mem
  BY DEF ParseLabel
<1>2. /\ NamedLabels \in Seq(Named) /\ Len(NamedLabels) = Len(labels)
      /\ \A i \in 1 .. Len(labels) :
            NamedLabels[i] = [name |-> labels[i].name, nr |-> labels[i].nr]
      /\ source \in Seq(Lines) /\ instructions \in Seq(Coded)
      /\ labels \in Seq(Label)
      /\ Those(mem, DOMAIN mem \ Reserved) \in Seq(Coded)
      /\ Those(mem, Reserved) \in Seq(Coded)
  BY ListedTypes
<1>3. Kind(l) = "label" /\ Size(l) = 1
  BY <1>1 DEF Kind, Size
<1>4. /\ Listed(instructions, s, "code")
      /\ Listed(Those(mem, DOMAIN mem \ Reserved), s, "data")
      /\ Listed(Those(mem, Reserved), s, "bss")
  BY <1>2, <1>3, ListedGrows DEF Parsed
<1>5. x \in Named /\ instrNr \in Nat
  BY <1>1, LinesAssumption DEF Named, TypeInv, TypeOK
<1>6. /\ Numbers(s)[Len(s)] = Numbers(source)[Len(source)] + 1
      /\ s[Len(source) + 1] = l
      /\ Numbers(s)[(Len(source) + 1) - 1] = Numbers(source)[Len(source)]
  BY <1>2, <1>3, NumbersGrow
<1>7. Listed(NamedLabels \o <<x>>, s, "label")
  <2>1. ItemOf(s, Len(source) + 1, 1) = x
    BY <1>1, <1>3, <1>6 DEF ItemOf, Parsed
  <2>2. <<x>> \in Seq(Named) /\ Len(<<x>>) = 1 /\ <<x>>[1] = x
    BY <1>5
  <2>3. \A k \in 1 .. Size(l) : <<x>>[k] = ItemOf(s, Len(source) + 1, k)
    BY <1>3, <2>1, <2>2
  <2> QED  BY <1>2, <1>3, <2>2, <2>3, ListedGrows DEF Parsed
<1>8. NamedLabels' = NamedLabels \o <<x>>
  <2> DEFINE y == [name |-> l.name, nr |-> instrNr, ptr |-> instrNr + 1]
             ls == Append(MovedOn, y)
  <2>1. /\ Len(labels) \in Nat /\ DOMAIN labels = 1 .. Len(labels)
        /\ \A i \in 1 .. Len(labels) : labels[i] \in Label
    BY <1>2
  <2>2. y \in Label
    BY <1>1, <1>5, LinesAssumption DEF Label
  <2>3. /\ MovedOn \in Seq(Label) /\ Len(MovedOn) = Len(labels)
        /\ \A i \in 1 .. Len(labels) : /\ MovedOn[i].name = labels[i].name
                                       /\ MovedOn[i].nr = labels[i].nr
    <3>1. \A i \in 1 .. Len(labels) :
            /\ MovedOn[i] \in Label
            /\ MovedOn[i].name = labels[i].name /\ MovedOn[i].nr = labels[i].nr
      BY <2>1 DEF MovedOn, Label
    <3>2. MovedOn = [i \in 1 .. Len(labels) |-> MovedOn[i]]
      BY <2>1 DEF MovedOn
    <3>3. MovedOn \in Seq(Label)
      BY <2>1, <3>1, <3>2
    <3>4. Len(MovedOn) = Len(labels)
      BY <2>1, <3>2
    <3> QED  BY <3>1, <3>3, <3>4
  <2>4. /\ ls \in Seq(Label) /\ Len(ls) = Len(labels) + 1 /\ ls[Len(labels) + 1] = y
        /\ \A i \in 1 .. Len(labels) : ls[i] = MovedOn[i]
        /\ DOMAIN ls = 1 .. Len(labels) + 1
    <3> HIDE DEF y
    <3> QED  BY <2>2, <2>3, Appended
  <2>5. labels' = ls /\ y.name = l.name /\ y.nr = instrNr
    BY <1>1
  <2> HIDE DEF ls, y
  <2> DEFINE z == NamedLabels \o <<x>>
             w == NamedLabels'
  <2>6. /\ z \in Seq(Named) /\ Len(z) = Len(labels) + 1 /\ z[Len(labels) + 1] = x
        /\ \A i \in 1 .. Len(labels) : z[i] = NamedLabels[i]
    <3>1. <<x>> \in Seq(Named) /\ Len(<<x>>) = 1 /\ <<x>>[1] = x
      BY <1>5
    <3>2. AreJoined(z, NamedLabels, <<x>>, Named)
      BY <1>2, <3>1, Joined
    <3> HIDE DEF z
    <3> QED  BY <1>2, <3>1, <3>2 DEF AreJoined
  <2>7. w = [i \in 1 .. Len(labels) + 1 |-> [name |-> ls[i].name, nr |-> ls[i].nr]]
    BY <2>4, <2>5 DEF NamedLabels
  <2> HIDE DEF z, w
  <2>8. \A i \in 1 .. Len(labels) + 1 : w[i] = z[i]
    <3>1. \A i \in 1 .. Len(labels) + 1 : i \in 1 .. Len(labels) \/ i = Len(labels) + 1
      BY <2>1
    <3>2. \A i \in 1 .. Len(labels) : w[i] = z[i]
      <4>1. \A i \in 1 .. Len(labels) : i \in 1 .. Len(labels) + 1
        BY <2>1
      <4>2. \A i \in 1 .. Len(labels) :
                /\ w[i] = [name |-> ls[i].name, nr |-> ls[i].nr]
                /\ ls[i].name = labels[i].name /\ ls[i].nr = labels[i].nr
        BY <2>3, <2>4, <2>7, <4>1
      <4> QED  BY <1>2, <2>6, <4>2
    <3>3. w[Len(labels) + 1] = z[Len(labels) + 1]
      BY <2>1, <2>4, <2>5, <2>6, <2>7
    <3> QED  BY <3>1, <3>2, <3>3
  <2>9. z = [i \in 1 .. Len(labels) + 1 |-> z[i]]
    BY <2>6
  <2>10. w = z
    BY <2>7, <2>8, <2>9
  <2> QED  BY <2>10 DEF w, z
<1>9. L!Base(s) = codePtr
  BY <1>1, <1>2, BaseGrows DEF Parsed
<1>10. L!Relocatable(s)
  BY <1>1, <1>2, RelocatableGrows DEF Parsed
<1>11. Reserved' = Reserved
  BY <1>1 DEF Reserved
<1>12. instrNr' = Numbers(s)[Len(s)]
  BY <1>1, <1>6 DEF Parsed
<1> HIDE DEF s, x
<1>13. source' = s
  BY DEF s
<1> QED  BY <1>1, <1>4, <1>7, <1>8, <1>9, <1>10, <1>11, <1>12, <1>13 DEF Parsed

LEMMA ItemsListed ==
    ASSUME TypeInv, Parsed, NEW l \in Lines, source' = Append(source, l), ParseItems(l),
           pc = "parse"
    PROVE  Parsed'
<1> DEFINE s == Append(source, l)
           u == Numbered(Items(l))
           init == DOMAIN mem \ Reserved
           init2 == DOMAIN mem' \ Reserved'
<1>1. /\ l.op \notin Directives \cup {"label"}
      /\ instrNr' = instrNr + Len(Items(l))
      /\ l.op \in MemOps => mem' = mem \o u /\ instructions' = instructions
      /\ l.op \notin MemOps => instructions' = instructions \o u /\ mem' = mem
      /\ codePtr' = codePtr /\ labels' = labels
  BY DEF ParseItems
<1>2. /\ NamedLabels \in Seq(Named)
      /\ source \in Seq(Lines) /\ instructions \in Seq(Coded) /\ mem \in Seq(Coded)
      /\ Those(mem, init) \in Seq(Coded)
      /\ Those(mem, Reserved) \in Seq(Coded)
  BY ListedTypes
<1>3. /\ Kind(l) \in ItemKinds /\ Size(l) = Len(Items(l)) /\ Size(l) \in Nat
      /\ Items(l) \in Seq(Fresh)
      /\ l.op \in MemOps <=> Kind(l) # "code"
      /\ l.op \in MemOps => Kind(l) \in {"data", "bss"}
  <2>1. Kind(l) \in ItemKinds
    BY <1>1 DEF Kind, ItemKinds, Directives
  <2>2. l.op \in MemOps => Kind(l) \in {"data", "bss"}
    BY <1>1 DEF Kind
  <2>3. l.op \notin MemOps => Kind(l) = "code"
    BY <1>1 DEF Kind, MemOps
  <2> QED  BY <2>1, <2>2, <2>3, KindIs
<1>4. instrNr \in Nat
  BY DEF TypeInv, TypeOK
<1>5. /\ u \in Seq(Fresh) /\ Len(u) = Size(l) /\ u \in Seq(Coded)
      /\ \A k \in 1 .. Size(l) : u[k] = [Items(l)[k] EXCEPT !.nr = instrNr + k - 1]
  BY <1>3, <1>4, NumberedIs, FreshIsCoded, SeqsWiden
<1>6. /\ Numbers(s)[Len(s)] = Numbers(source)[Len(source)] + Size(l)
      /\ s[Len(source) + 1] = l
      /\ Numbers(s)[(Len(source) + 1) - 1] = Numbers(source)[Len(source)]
  BY <1>2, NumbersGrow
<1>7. instrNr' = Numbers(s)[Len(s)]
  BY <1>1, <1>3, <1>6 DEF Parsed
<1>8. \A k \in 1 .. Size(l) : u[k] = ItemOf(s, Len(source) + 1, k)
  <2>1. Kind(l) # "label"
    BY <1>3 DEF ItemKinds
  <2> HIDE DEF u, s
  <2> QED  BY <1>5, <1>6, <2>1 DEF ItemOf, Parsed
<1>9. L!Base(s) = codePtr /\ L!Relocatable(s)
  <2>1. l.op # "code"
    BY <1>1 DEF Directives
  <2> QED  BY <1>2, <2>1, BaseGrows, RelocatableGrows DEF Parsed
<1>10. Listed(NamedLabels, s, "label") /\ NamedLabels' = NamedLabels
  <2>1. Kind(l) # "label"
    BY <1>3 DEF ItemKinds
  <2> QED  BY <1>1, <1>2, <2>1, ListedGrows DEF Parsed, NamedLabels
<1>11. Listed(instructions', s, "code")
  <2>1. CASE Kind(l) = "code"
    <3> HIDE DEF u, s
    <3>1. Listed(instructions \o u, Append(source, l), "code")
      BY <1>2, <1>5, <1>8, <2>1, ListedGrows DEF Parsed, s
    <3> QED  BY <1>1, <1>3, <2>1, <3>1 DEF s
  <2>2. CASE Kind(l) # "code"
    BY <1>1, <1>2, <1>3, <2>2, ListedGrows DEF Parsed
  <2> QED  BY <2>1, <2>2
<1>12. /\ Listed(Those(mem', init2), s, "data")
       /\ Listed(Those(mem', Reserved'), s, "bss")
  <2>1. CASE Kind(l) = "code"
    <3>1. Reserved' = Reserved /\ mem' = mem
      BY <1>1, <1>3, <2>1 DEF Reserved
    <3>2. Listed(Those(mem, init), s, "data") /\ Listed(Those(mem, Reserved), s, "bss")
      BY <1>2, <2>1, ListedGrows DEF Parsed
    <3> QED  BY <3>1, <3>2
  <2>2. CASE Kind(l) # "code"
    <3>1. mem' = mem \o u /\ Kind(l) \in {"data", "bss"}
      BY <1>1, <1>3, <2>2
    <3>2. /\ mem' \in Seq(Coded) /\ Len(mem') = Len(mem) + Len(u)
          /\ \A i \in 1 .. Len(mem) : mem'[i] = mem[i]
          /\ \A i \in 1 .. Len(u) : mem'[Len(mem) + i] = u[i]
      <4>1. AreJoined(mem', mem, u, Coded)
        BY <1>2, <1>5, <3>1, Joined
      <4> QED  BY <4>1 DEF AreJoined
    <3>3. /\ Len(mem) \in Nat /\ Len(u) \in Nat /\ DOMAIN mem = 1 .. Len(mem)
          /\ DOMAIN mem' = 1 .. Len(mem) + Len(u)
      BY <1>2, <1>5, <3>2
    <3>4. \A i \in 1 .. Len(u) : u[i].bss <=> Kind(l) = "bss"
      <4>1. \A k \in 1 .. Size(l) : Items(l)[k].bss <=> Kind(l) = "bss"
        BY <1>3, ItemMarks
      <4>2. \A k \in 1 .. Size(l) : Items(l)[k] \in Item
        BY <1>3 DEF Fresh
      <4> HIDE DEF u
      <4> SUFFICES ASSUME NEW i \in 1 .. Size(l) PROVE u[i].bss <=> Kind(l) = "bss"
        BY <1>5
      <4>3. u[i] = [Items(l)[i] EXCEPT !.nr = instrNr + i - 1]
        BY <1>5
      <4>4. Items(l)[i] \in Item /\ (Items(l)[i].bss <=> Kind(l) = "bss")
        BY <4>1, <4>2
      <4> QED  BY <4>3, <4>4 DEF Item
    <3> DEFINE all == Kind(l) = "bss"
    <3>5. /\ \A i \in 1 .. Len(mem) : i \in Reserved' <=> i \in Reserved
          /\ \A i \in 1 .. Len(u) : Len(mem) + i \in Reserved' <=> all
          /\ \A i \in 1 .. Len(mem) : i \in init2 <=> i \in init
          /\ \A i \in 1 .. Len(u) : Len(mem) + i \in init2 <=> ~all
      <4>1. \A i \in 1 .. Len(mem) : i \in DOMAIN mem /\ i \in DOMAIN mem'
        BY <3>3
      <4>2. \A i \in 1 .. Len(u) : Len(mem) + i \in DOMAIN mem'
        BY <3>3
      <4> HIDE DEF u
      <4> QED  BY <3>2, <3>4, <4>1, <4>2 DEF Reserved
    <3>6. all \in BOOLEAN /\ (~all) \in BOOLEAN
      OBVIOUS
    <3>7. /\ Those(mem', Reserved')
                = IF all THEN Those(mem, Reserved) \o u ELSE Those(mem, Reserved)
          /\ Those(mem', init2) = IF ~all THEN Those(mem, init) \o u ELSE Those(mem, init)
      <4> DEFINE notall == ~all
                 bss2 == Reserved'
      <4> HIDE DEF u, all, init, init2, bss2, notall
      <4>1. /\ GoesOn(Reserved, bss2, Len(mem), Len(u), all)
            /\ GoesOn(init, init2, Len(mem), Len(u), notall)
        BY <3>5 DEF GoesOn, notall, bss2
      <4>2. all \in BOOLEAN /\ notall \in BOOLEAN
        BY DEF all, notall
      <4>3. Those(mem \o u, bss2)
                = IF all THEN Those(mem, Reserved) \o u ELSE Those(mem, Reserved)
        BY <1>2, <1>5, <4>1, <4>2, ThoseLonger
      <4>4. Those(mem \o u, init2) = IF notall THEN Those(mem, init) \o u ELSE Those(mem, init)
        BY <1>2, <1>5, <4>1, <4>2, ThoseLonger
      <4> QED  BY <3>1, <4>3, <4>4 DEF notall, bss2
    <3>8. CASE Kind(l) = "bss"
      <4>1. Those(mem', Reserved') = Those(mem, Reserved) \o u /\ Those(mem', init2) = Those(mem, init)
        BY <3>7, <3>8
      <4> HIDE DEF u, init, init2
      <4>2. Listed(Those(mem, Reserved) \o u, Append(source, l), "bss")
        BY <1>2, <1>5, <1>8, <3>8, ListedGrows DEF Parsed, s
      <4>3. Listed(Those(mem, init), Append(source, l), "data")
        BY <1>2, <3>8, ListedGrows DEF Parsed, init
      <4> QED  BY <4>1, <4>2, <4>3 DEF s
    <3>9. CASE Kind(l) = "data"
      <4>1. Those(mem', Reserved') = Those(mem, Reserved) /\ Those(mem', init2) = Those(mem, init) \o u
        BY <3>7, <3>9
      <4> HIDE DEF u, init, init2
      <4>2. Listed(Those(mem, init) \o u, Append(source, l), "data")
        BY <1>2, <1>5, <1>8, <3>9, ListedGrows DEF Parsed, s, init
      <4>3. Listed(Those(mem, Reserved), Append(source, l), "bss")
        BY <1>2, <3>9, ListedGrows DEF Parsed
      <4> QED  BY <4>1, <4>2, <4>3 DEF s
    <3> QED  BY <3>1, <3>8, <3>9
  <2> QED  BY <2>1, <2>2
<1> HIDE DEF s, u, init
<1>13. source' = s
  BY DEF s
<1> QED  BY <1>1, <1>7, <1>9, <1>10, <1>11, <1>12, <1>13 DEF Parsed

\* A line is added to what has been parsed, or the program cannot be relocated.
LEMMA ParseKeeps ==
    ASSUME TypeInv, Parsed, ParseLine
    PROVE  (pc' = "parse" /\ Parsed') \/ (pc' = "error" /\ ~L!Relocatable(source'))
<1>1. PICK l \in Lines : /\ source' = Append(source, l)
                         /\ ParseLabel(l) \/ ParseItems(l) \/ ParseCode(l) \/ ParseData(l)
  BY DEF ParseLine
<1>2. pc = "parse" /\ source \in Seq(Lines)
  BY DEF ParseLine, TypeInv, TypeOK
<1>3. CASE ParseLabel(l)
  BY <1>1, <1>2, <1>3, LabelListed DEF ParseLabel
<1>4. CASE ParseItems(l)
  BY <1>1, <1>2, <1>4, ItemsListed DEF ParseItems
<1>5. CASE ParseCode(l) \/ ParseData(l)
  <2> DEFINE s == Append(source, l)
  <2>1. Kind(l) = "none" /\ Size(l) = 0 /\ (l.op = "code" <=> ParseCode(l))
    BY <1>5 DEF ParseCode, ParseData, Kind, Size, Directives
  <2>2. UNCHANGED <<instrNr, labels, instructions, mem>>
    BY <1>5 DEF ParseCode, ParseData, tables
  <2>3. CASE pc' = "error"
    <3>1. l.op = "code" /\ instrNr # 0
      BY <1>2, <1>5, <2>3 DEF ParseCode, ParseData
    <3> QED  BY <1>1, <1>2, <2>3, <3>1, RelocatableGrows DEF Parsed
  <2>4. CASE pc' # "error"
    <3>1. /\ pc' = "parse" /\ codePtr' = IF l.op = "code" THEN l.val ELSE codePtr
          /\ l.op = "code" => instrNr = 0
      BY <1>2, <1>5, <2>4 DEF ParseCode, ParseData, tables
    <3>2. L!Base(s) = codePtr' /\ L!Relocatable(s)
      BY <1>2, <3>1, BaseGrows, RelocatableGrows DEF Parsed
    <3>3. /\ Listed(NamedLabels, s, "label") /\ Listed(instructions, s, "code")
          /\ Listed(Those(mem, DOMAIN mem \ Reserved), s, "data")
          /\ Listed(Those(mem, Reserved), s, "bss")
      BY <2>1, ListedTypes, ListedGrows DEF Parsed
    <3>4. instrNr = Numbers(s)[Len(s)]
      <4>1. Numbers(s)[Len(s)] = Numbers(source)[Len(source)] + 0
        BY <1>2, <2>1, NumbersGrow
      <4>2. instrNr \in Nat /\ instrNr = Numbers(source)[Len(source)]
        BY DEF TypeInv, TypeOK, Parsed
      <4> QED  BY <4>1, <4>2
    <3>5. Reserved' = Reserved /\ NamedLabels' = NamedLabels
      BY <2>2 DEF Reserved, NamedLabels
    <3> HIDE DEF s
    <3>6. source' = s
      BY <1>1 DEF s
    <3>7. Parsed'
      BY <2>2, <3>2, <3>3, <3>4, <3>5, <3>6 DEF Parsed
    <3> QED  BY <3>1, <3>7
  <2> QED  BY <2>3, <2>4
<1> QED  BY <1>1, <1>3, <1>4, <1>5

LEMMA InitParsed == Init => Parsed
<1> SUFFICES ASSUME Init PROVE Parsed
  OBVIOUS
<1>1. /\ source = <<>> /\ instrNr = 0 /\ codePtr = 0 /\ labels = <<>>
      /\ instructions = <<>> /\ mem = <<>>
  BY DEF Init
<1>2. \A kinds : Places(source, kinds)[Len(source)] = 0
  <2>1. source \in Seq(Lines) /\ Len(source) = 0
    BY <1>1
  <2> QED  BY <2>1, PlacesAre
<1>3. \A t, kind : Len(t) = 0 => Listed(t, source, kind)
  BY <1>1, <1>2 DEF Listed
<1>4. Len(NamedLabels) = 0 /\ Len(instructions) = 0
  <2>1. NamedLabels = <<>>
    BY <1>1 DEF NamedLabels
  <2> QED  BY <1>1, <2>1
<1>5. \A set : Len(Those(mem, set)) = 0
  <2> SUFFICES ASSUME NEW set PROVE Len(Those(mem, set)) = 0
    OBVIOUS
  <2>1. mem \in Seq(Coded) /\ Len(mem) = 0
    BY <1>1
  <2>2. Rank(mem, set)[Len(mem)] = 0
    <3>1. IsRank(Rank(mem, set), 0, set)
      BY <2>1, ThoseOf
    <3> QED  BY <2>1, <3>1 DEF IsRank
  <2> QED  BY <2>1, <2>2, ThoseAre
<1>6. L!Base(source) = 0 /\ L!Relocatable(source)
  BY <1>1 DEF L!Base, L!Relocatable
<1> QED  BY <1>1, <1>2, <1>3, <1>4, <1>5, <1>6 DEF Parsed, Numbers

-----------------------------------------------------------------------------
\* Numbers, and the labels that carry them.

\* Places grow with the lines, and each place belongs to a line.
LEMMA PlacesOrder ==
    ASSUME NEW src \in Seq(Lines), NEW kinds
    PROVE  /\ \A i \in 0 .. Len(src) : Places(src, kinds)[i] \in Nat
           /\ \A i \in 1 .. Len(src) : Kind(src[i]) \in kinds =>
                    Places(src, kinds)[i] = Places(src, kinds)[i - 1] + Size(src[i])
           /\ \A j \in 0 .. Len(src) : \A i \in 0 .. j :
                    Places(src, kinds)[i] <= Places(src, kinds)[j]
           /\ \A p \in Nat : p < Places(src, kinds)[Len(src)] =>
                \E i \in 1 .. Len(src) :
                    /\ Kind(src[i]) \in kinds
                    /\ p - Places(src, kinds)[i - 1] \in 0 .. Size(src[i]) - 1
<1> DEFINE n == Len(src)
           f == Sized(src, kinds)
           t == Places(src, kinds)
<1>1. /\ f \in Seq(Nat) /\ Len(f) = n
      /\ \A i \in 1 .. n : f[i] = IF Kind(src[i]) \in kinds THEN Size(src[i]) ELSE 0
  BY SizedType
<1>2. t = Totals(f)
  BY DEF Places
<1>3. /\ t \in [0 .. n -> Nat]
      /\ \A i \in 1 .. n : t[i] = t[i - 1] + IF Kind(src[i]) \in kinds THEN Size(src[i]) ELSE 0
      /\ \A i \in 1 .. n : Size(src[i]) \in Nat /\ n \in Nat
  <2>1. \A i \in 1 .. n : src[i] \in Lines
    OBVIOUS
  <2> QED  BY <2>1, PlacesAre, KindIs
<1> HIDE DEF f, t, n
<1>4. \A j \in 0 .. n : \A i \in 0 .. j : t[i] <= t[j]
  BY <1>1, <1>2, TotalsMonotone
<1>5. ASSUME NEW p \in Nat, p < t[n]
      PROVE  \E i \in 1 .. n : Kind(src[i]) \in kinds /\ p - t[i - 1] \in 0 .. Size(src[i]) - 1
  <2>1. n \in Nat /\ t[n] \in Nat
    BY <1>3 DEF n
  <2>2. p + 1 \in 1 .. Totals(f)[Len(f)]
    BY <1>1, <1>2, <1>5, <2>1
  <2>3. PICK i \in 1 .. n : (p + 1) - t[i - 1] \in 1 .. f[i]
    BY <1>1, <1>2, <2>2, TotalsCover
  <2>4. /\ f[i] = IF Kind(src[i]) \in kinds THEN Size(src[i]) ELSE 0
        /\ Size(src[i]) \in Nat /\ t[i - 1] \in Nat
    BY <1>1, <1>3, <2>1
  <2>5. Kind(src[i]) \in kinds
    BY <2>3, <2>4
  <2>6. p - t[i - 1] \in 0 .. Size(src[i]) - 1
    BY <2>3, <2>4, <2>5
  <2> QED  BY <2>5, <2>6
<1>6. /\ \A i \in 0 .. n : t[i] \in Nat
      /\ \A i \in 1 .. n : Kind(src[i]) \in kinds => t[i] = t[i - 1] + Size(src[i])
  BY <1>3
<1> QED  BY <1>4, <1>5, <1>6 DEF n, t

\* The numbers of different lines are different.
LEMMA NumbersOrder ==
    ASSUME NEW src \in Seq(Lines)
    PROVE  /\ Len(src) \in Nat /\ \A i \in 1 .. Len(src) : src[i] \in Lines
           /\ \A i \in 0 .. Len(src) : Numbers(src)[i] \in Nat
           /\ \A i \in 1 .. Len(src) :
                /\ Numbers(src)[i] = Numbers(src)[i - 1] + Size(src[i])
                /\ Size(src[i]) \in Nat /\ Numbers(src)[i - 1] \in Nat
           /\ \A j \in 0 .. Len(src) : \A i \in 0 .. j : Numbers(src)[i] <= Numbers(src)[j]
           /\ \A p \in Nat : p < Numbers(src)[Len(src)] =>
                \E i \in 1 .. Len(src) : p - Numbers(src)[i - 1] \in 0 .. Size(src[i]) - 1
<1>1. Len(src) \in Nat /\ \A i \in 1 .. Len(src) : src[i] \in Lines
  OBVIOUS
<1>2. \A i \in 1 .. Len(src) : Kind(src[i]) \in AllKinds /\ Size(src[i]) \in Nat
  BY <1>1, KindIs
<1> DEFINE t == Places(src, AllKinds)
<1>3. /\ \A i \in 0 .. Len(src) : t[i] \in Nat
      /\ \A i \in 1 .. Len(src) : Kind(src[i]) \in AllKinds => t[i] = t[i - 1] + Size(src[i])
      /\ \A j \in 0 .. Len(src) : \A i \in 0 .. j : t[i] <= t[j]
      /\ \A p \in Nat : p < t[Len(src)] =>
            \E i \in 1 .. Len(src) : p - t[i - 1] \in 0 .. Size(src[i]) - 1
  BY PlacesOrder
<1>4. Numbers(src) = t
  BY DEF Numbers
<1> HIDE DEF t
<1>5. \A i \in 1 .. Len(src) : i - 1 \in 0 .. Len(src)
  BY <1>1
<1>6. \A i \in 1 .. Len(src) : t[i] = t[i - 1] + Size(src[i]) /\ t[i - 1] \in Nat
  BY <1>2, <1>3, <1>5
<1> QED  BY <1>1, <1>2, <1>3, <1>4, <1>6

\* A line's item comes before those of later lines.
LEMMA NumbersApart ==
    ASSUME NEW src \in Seq(Lines), NEW i \in 1 .. Len(src), NEW j \in 1 .. Len(src), i < j
    PROVE  Numbers(src)[i - 1] + Size(src[i]) <= Numbers(src)[j - 1]
<1>1. Len(src) \in Nat /\ j - 1 \in 0 .. Len(src) /\ i \in 0 .. j - 1
  OBVIOUS
<1>2. Numbers(src)[i] <= Numbers(src)[j - 1]
  BY <1>1, NumbersOrder
<1>3. Numbers(src)[i] = Numbers(src)[i - 1] + Size(src[i])
  BY NumbersOrder
<1> QED  BY <1>2, <1>3

\* Every item carries the name of its line.
LEMMA ItemNames ==
    ASSUME NEW l \in Lines, Kind(l) \in ItemKinds, NEW k \in 1 .. Size(l)
    PROVE  Items(l)[k].name = l.name
<1>1. /\ l.op \in LineOps /\ l.val \in Int /\ l.chars \in Seq(Int)
      /\ l.op \notin Directives \cup {"label"} /\ Size(l) = Len(Items(l))
      /\ Size(l) \in Nat
  BY KindIs
<1>2. CASE l.op \in {"plain", "br", "ldi", "la16", "defw"}
  <2>1. k \in {1, 2} /\ (l.op # "la16" => k = 1)
    BY <1>1, <1>2 DEF Items
  <2> QED  BY <1>2, <2>1 DEF Items, Instruction
<1>3. CASE l.op \in {"ld16", "defs", "defb", "defstr"}
  <2>1. l.name = NoName
    BY <1>3, LinesAssumption
  <2>2. \A v : Byte(v).name = NoName
    BY DEF Byte, Instruction
  <2>3. CASE l.op = "ld16"
    <3>1. Items(l) = Ld16(l.val)
      BY <2>3 DEF Items
    <3>2. CASE l.val <= LastLoads
      <4>1. k = 1 /\ Items(l)[1] = Instruction("ldi", NoName, l.val)
        BY <1>1, <3>1, <3>2 DEF Ld16
      <4> QED  BY <2>1, <4>1 DEF Instruction
    <3>3. CASE ~(l.val <= LastLoads)
      <4>1. /\ k \in {1, 2}
            /\ Items(l)[1] = [Instruction("ldi", NoName, l.val % Low) EXCEPT !.ld16 = TRUE]
            /\ Items(l)[2] = [Instruction("addhi", NoName, (l.val \div Low) % High)
                                  EXCEPT !.ld16 = TRUE]
        BY <1>1, <3>1, <3>3 DEF Ld16
      <4>2. Items(l)[1].name = NoName /\ Items(l)[2].name = NoName
        BY <4>1 DEF Instruction
      <4> QED  BY <2>1, <4>1, <4>2
    <3> QED  BY <3>2, <3>3
  <2>4. CASE l.op = "defs"
    <3> DEFINE word == [Instruction("defw", NoName, 0) EXCEPT !.bss = TRUE]
    <3>1. Items(l) = [i \in 1 .. l.val \div 2 |-> word]
      BY <2>4 DEF Items
    <3>2. word.name = NoName
      BY DEF Instruction
    <3> HIDE DEF word
    <3>3. l.val \div 2 \in Nat
      BY <1>1, <2>4, LinesAssumption, SMT
    <3>4. Items(l)[k] = word
      BY <1>1, <3>1, <3>3
    <3> QED  BY <2>1, <3>2, <3>4
  <2>5. CASE l.op = "defb"
    <3>1. k = 1 /\ Items(l)[1] = Byte(l.val)
      BY <1>1, <2>5 DEF Items
    <3> QED  BY <2>1, <2>2, <3>1
  <2>6. CASE l.op = "defstr"
    <3>1. Items(l) = [i \in 1 .. Len(l.chars) + 1 |->
                          Byte(IF i > Len(l.chars) THEN 0 ELSE l.chars[i])]
      BY <2>6 DEF Items
    <3>2. Len(l.chars) \in Nat
      BY <1>1
    <3>3. k \in 1 .. Len(l.chars) + 1
      BY <1>1, <3>1, <3>2
    <3>4. \E v : Items(l)[k] = Byte(v)
      BY <3>1, <3>3
    <3> QED  BY <2>1, <2>2, <3>4
  <2> QED  BY <1>3, <2>3, <2>4, <2>5, <2>6
<1> QED  BY <1>1, <1>2, <1>3 DEF LineOps, Directives

\* The labels of the table and the lines that define them.
LEMMA LabelLines ==
    ASSUME TypeInv, Parsed
    PROVE  /\ \A i \in 1 .. Len(source) : source[i].op = "label" =>
                LET j == Places(source, {"label"})[i - 1] + 1
                IN  /\ j \in DOMAIN labels /\ labels[j].name = source[i].name
                    /\ labels[j].nr = Numbers(source)[i - 1]
           /\ \A j \in DOMAIN labels : \E i \in 1 .. Len(source) :
                    /\ source[i].op = "label" /\ j = Places(source, {"label"})[i - 1] + 1
                    /\ labels[j].name = source[i].name
                    /\ labels[j].nr = Numbers(source)[i - 1]
<1> DEFINE p == Places(source, {"label"})
           t == NamedLabels
<1>1. /\ t \in Seq(Named) /\ Len(t) = Len(labels)
      /\ \A i \in 1 .. Len(labels) : t[i] = [name |-> labels[i].name, nr |-> labels[i].nr]
      /\ source \in Seq(Lines) /\ labels \in Seq(Label)
  BY ListedTypes
<1>2. /\ DOMAIN labels = 1 .. Len(labels) /\ DOMAIN source = 1 .. Len(source)
      /\ Len(source) \in Nat /\ Len(labels) \in Nat
      /\ \A i \in 1 .. Len(source) : i - 1 \in 0 .. Len(source) /\ i \in 0 .. Len(source)
  BY <1>1
<1>3. Listed(t, source, "label")
  BY DEF Parsed
<1>4. \A i \in 1 .. Len(source) :
            /\ Kind(source[i]) = "label" <=> source[i].op = "label"
            /\ Kind(source[i]) = "label" => Size(source[i]) = 1
  BY DEF Kind, Size, Directives
<1>5. /\ \A i \in 0 .. Len(source) : p[i] \in Nat
      /\ \A i \in 1 .. Len(source) : Kind(source[i]) = "label" =>
            p[i] = p[i - 1] + Size(source[i])
      /\ \A i \in 1 .. Len(source) : p[i] <= p[Len(source)]
  <2>1. /\ \A i \in 0 .. Len(source) : p[i] \in Nat
        /\ \A i \in 1 .. Len(source) : Kind(source[i]) \in {"label"} =>
              p[i] = p[i - 1] + Size(source[i])
        /\ \A j \in 0 .. Len(source) : \A i \in 0 .. j : p[i] <= p[j]
    BY <1>1, PlacesOrder
  <2>2. Len(source) \in 0 .. Len(source)
    BY <1>2
  <2> HIDE DEF p
  <2> QED  BY <1>2, <2>1, <2>2
<1>6. ASSUME NEW i \in 1 .. Len(source), source[i].op = "label"
      PROVE  LET j == p[i - 1] + 1
             IN  /\ j \in DOMAIN labels /\ labels[j].name = source[i].name
                 /\ labels[j].nr = Numbers(source)[i - 1]
  <2> DEFINE j == p[i - 1] + 1
  <2>1. Kind(source[i]) = "label" /\ Size(source[i]) = 1
    BY <1>4, <1>6
  <2>2. Len(t) = p[Len(source)] /\ t[j] = ItemOf(source, i, 1)
    BY <1>2, <1>3, <2>1 DEF Listed
  <2> HIDE DEF p
  <2>3. j \in 1 .. Len(labels)
    BY <1>1, <1>2, <1>5, <2>1, <2>2
  <2> HIDE DEF j
  <2>4. t[j] = [name |-> source[i].name, nr |-> Numbers(source)[i - 1]]
    BY <2>1, <2>2 DEF ItemOf
  <2>5. t[j] = [name |-> labels[j].name, nr |-> labels[j].nr]
    BY <1>1, <2>3
  <2>6. labels[j].name = source[i].name /\ labels[j].nr = Numbers(source)[i - 1]
    BY <2>4, <2>5
  <2> QED  BY <1>2, <2>3, <2>6 DEF j
<1>7. ASSUME NEW j \in DOMAIN labels
      PROVE  \E i \in 1 .. Len(source) :
                /\ source[i].op = "label" /\ j = p[i - 1] + 1
                /\ labels[j].name = source[i].name
                /\ labels[j].nr = Numbers(source)[i - 1]
  <2>1. j \in 1 .. Len(t)
    BY <1>1, <1>2
  <2>2. PICK i \in 1 .. Len(source) : \E k \in 1 .. Size(source[i]) :
            /\ Kind(source[i]) = "label" /\ j = p[i - 1] + k
            /\ t[j] = ItemOf(source, i, k)
    <3>1. \E i \in DOMAIN source : \E k \in 1 .. Size(source[i]) :
                /\ Kind(source[i]) = "label" /\ j = Places(source, {"label"})[i - 1] + k
                /\ t[j] = ItemOf(source, i, k)
      <4> HIDE DEF t, p
      <4>1. source \in Seq(Lines)
        BY <1>1
      <4>2. Listed(t, source, "label")
        BY <1>3
      <4> QED  BY <2>1, <4>1, <4>2, ListedCovers
    <3> HIDE DEF t
    <3> QED  BY <1>2, <3>1
  <2>3. Kind(source[i]) = "label" /\ source[i].op = "label" /\ j = p[i - 1] + 1
    BY <1>4, <2>2
  <2>4. t[j] = [name |-> source[i].name, nr |-> Numbers(source)[i - 1]]
    BY <2>2 DEF ItemOf
  <2>5. t[j] = [name |-> labels[j].name, nr |-> labels[j].nr]
    BY <1>1, <1>2
  <2>6. labels[j].name = source[i].name /\ labels[j].nr = Numbers(source)[i - 1]
    BY <2>4, <2>5
  <2> QED  BY <2>3, <2>6
<1> HIDE DEF p
<1>8. \A i \in 1 .. Len(source) : source[i].op = "label" =>
                LET j == p[i - 1] + 1
                IN  /\ j \in DOMAIN labels /\ labels[j].name = source[i].name
                    /\ labels[j].nr = Numbers(source)[i - 1]
  BY <1>6
<1> QED  BY <1>7, <1>8 DEF p

\* The last line that defines a name.
LEMMA DefinitionIs ==
    ASSUME NEW src \in Seq(Lines), NEW n \in L!Defined(src)
    PROVE  LET d == L!Definition(src, n)
           IN  /\ d \in 1 .. Len(src) /\ src[d].op = "label" /\ src[d].name = n
               /\ \A i \in 1 .. Len(src) : src[i].op = "label" /\ src[i].name = n => i <= d
<1> DEFINE U == {i \in DOMAIN src : src[i].op = "label" /\ src[i].name = n}
<1>1. Len(src) \in Nat /\ DOMAIN src = 1 .. Len(src)
  OBVIOUS
<1>2. U \subseteq 1 .. Len(src) /\ U # {}
  BY <1>1 DEF L!Defined
<1>3. L!Definition(src, n) = L!Max(U)
  BY DEF L!Definition
<1>4. L!Max(U) \in U /\ \A y \in U : y <= L!Max(U)
  <2> HIDE DEF U
  <2> QED  BY <1>1, <1>2, MaxIs
<1>5. \A i \in 1 .. Len(src) : src[i].op = "label" /\ src[i].name = n => i \in U
  BY <1>1
<1>6. \A i \in U : i \in 1 .. Len(src) /\ src[i].op = "label" /\ src[i].name = n
  BY <1>1
<1> HIDE DEF U
<1> QED  BY <1>3, <1>4, <1>5, <1>6

\* The line a label denotes: the first that takes memory.
Denoted(src, n) == L!Min(L!Behind(src, L!Definition(src, n)))

LEMMA BehindIs ==
    ASSUME NEW src \in Seq(Lines), NEW d \in 1 .. Len(src), L!Behind(src, d) # {}
    PROVE  LET m == L!Min(L!Behind(src, d))
           IN  /\ m \in 1 .. Len(src) /\ m >= d /\ L!TakesMemory(src[m])
               /\ \A i \in d .. m - 1 : ~L!TakesMemory(src[i])
<1> DEFINE U == L!Behind(src, d)
           m == L!Min(U)
<1>1. Len(src) \in Nat
  OBVIOUS
<1>2. U = {j \in d .. Len(src) : L!TakesMemory(src[j])}
  BY DEF L!Behind
<1>3. U \subseteq 1 .. Len(src) /\ U # {}
  BY <1>1, <1>2
<1> HIDE DEF U
<1>4. m \in U /\ \A y \in U : m <= y
  BY <1>1, <1>3, MinIs
<1> HIDE DEF m
<1>5. m \in 1 .. Len(src) /\ m >= d /\ L!TakesMemory(src[m])
  BY <1>1, <1>2, <1>4
<1>6. \A i \in d .. m - 1 : ~L!TakesMemory(src[i])
  <2> SUFFICES ASSUME NEW i \in d .. m - 1, L!TakesMemory(src[i]) PROVE FALSE
    OBVIOUS
  <2>1. i \in d .. Len(src)
    BY <1>1, <1>5
  <2>2. i \in U /\ ~(m <= i)
    BY <1>1, <1>2, <1>5, <2>1
  <2> QED  BY <1>4, <2>2
<1> QED  BY <1>5, <1>6 DEF m, U

\* What a name's symbol points to: the number of the line the label denotes, no item's
\* number if there is none, and nothing if the name is not defined.
PointsTo(n, ptr) ==
    IF n \in L!Defined(source)
    THEN IF L!Behind(source, L!Definition(source, n)) # {}
         THEN ptr = Numbers(source)[Denoted(source, n) - 1]
         ELSE ptr >= Numbers(source)[Len(source)]
    ELSE ptr = NoNr

LEMMA PtrPointsTo ==
    ASSUME TypeInv, IInv, Parsed, NEW n \in LabelNames
    PROVE  n \in L!Defined(source) /\ PtrOf(n) \in Nat /\ PointsTo(n, PtrOf(n))
<1> DEFINE d == L!Definition(source, n)
           B == L!Behind(source, d)
           p == Places(source, {"label"})
           nr == Numbers(source)
           len == Len(source)
<1>1. source \in Seq(Lines) /\ labels \in Seq(Label)
      /\ len \in Nat /\ DOMAIN source = 1 .. len
  <2>1. source \in Seq(Lines) /\ labels \in Seq(Label)
    BY ListedTypes
  <2> QED  BY <2>1
<1>2. /\ \A i \in 1 .. len : source[i].op = "label" =>
                LET j == p[i - 1] + 1
                IN  /\ j \in DOMAIN labels /\ labels[j].name = source[i].name
                    /\ labels[j].nr = nr[i - 1]
      /\ \A j \in DOMAIN labels : \E i \in 1 .. len :
                    /\ source[i].op = "label" /\ j = p[i - 1] + 1
                    /\ labels[j].name = source[i].name
                    /\ labels[j].nr = nr[i - 1]
  BY LabelLines
<1>3. PICK c \in DOMAIN labels :
                /\ labels[c].name = n /\ PtrOf(n) = labels[c].ptr
                /\ \A j \in DOMAIN labels : labels[j].name = n => j <= c
  BY <1>1, PtrOfIs
<1>4. PICK a \in 1 .. len : /\ source[a].op = "label" /\ c = p[a - 1] + 1
                            /\ labels[c].name = source[a].name
                            /\ labels[c].nr = nr[a - 1]
  BY <1>2
<1>5. n \in L!Defined(source)
  BY <1>1, <1>3, <1>4 DEF L!Defined
<1>6. /\ d \in 1 .. len /\ source[d].op = "label" /\ source[d].name = n
      /\ \A i \in 1 .. len : source[i].op = "label" /\ source[i].name = n => i <= d
  BY <1>1, <1>5, DefinitionIs
<1>7. /\ \A i \in 0 .. len : nr[i] \in Nat
      /\ \A i \in 1 .. len : nr[i] = nr[i - 1] + Size(source[i])
                             /\ Size(source[i]) \in Nat /\ nr[i - 1] \in Nat
      /\ \A j \in 0 .. len : \A i \in 0 .. j : nr[i] <= nr[j]
      /\ \A q \in Nat : q < nr[len] =>
            \E i \in 1 .. len : q - nr[i - 1] \in 0 .. Size(source[i]) - 1
  BY <1>1, NumbersOrder
<1>8. \A i \in 1 .. len : source[i].op = "label" =>
            Kind(source[i]) = "label" /\ Size(source[i]) = 1 /\ ~L!TakesMemory(source[i])
  <2> SUFFICES ASSUME NEW i \in 1 .. len, source[i].op = "label"
               PROVE  Kind(source[i]) = "label" /\ Size(source[i]) = 1
                      /\ ~L!TakesMemory(source[i])
    OBVIOUS
  <2>1. source[i] \in Lines /\ Kind(source[i]) = "label" /\ Size(source[i]) = 1
    BY <1>1 DEF Kind, Size
  <2> QED  BY <2>1, SizesAgree DEF ItemKinds
<1>9. /\ \A i \in 0 .. len : p[i] \in Nat
      /\ \A i \in 1 .. len : source[i].op = "label" => p[i] = p[i - 1] + 1
      /\ \A j \in 0 .. len : \A i \in 0 .. j : p[i] <= p[j]
  <2>1. /\ \A i \in 0 .. len : p[i] \in Nat
        /\ \A i \in 1 .. len : Kind(source[i]) \in {"label"} =>
              p[i] = p[i - 1] + Size(source[i])
        /\ \A j \in 0 .. len : \A i \in 0 .. j : p[i] <= p[j]
    BY <1>1, PlacesOrder
  <2> HIDE DEF p
  <2> QED  BY <1>8, <2>1
<1>10. /\ labels[c].ptr \in Nat /\ labels[c].nr \in Nat
       /\ labels[c].ptr > labels[c].nr /\ labels[c].ptr \notin Nrs
       /\ labels[c].nr + 1 .. labels[c].ptr - 1 \subseteq Nrs
  BY LabelTypes DEF IInv
<1>11. Nrs = {nr[i - 1] : i \in {j \in 1 .. len : source[j].op = "label"}}
  <2> HIDE DEF nr, p, len
  <2>1. \A i \in 1 .. len : source[i].op = "label" =>
            \E j \in DOMAIN labels : labels[j].nr = nr[i - 1]
    BY <1>2
  <2>2. \A j \in DOMAIN labels : \E i \in 1 .. len :
            source[i].op = "label" /\ labels[j].nr = nr[i - 1]
    BY <1>2
  <2> QED  BY <2>1, <2>2 DEF Nrs
<1> HIDE DEF p, nr, len, d, B
<1>12. a = d
  <2>1. a <= d
    BY <1>3, <1>4, <1>6
  <2>2. CASE a < d
    <3>1. p[d - 1] + 1 <= c
      BY <1>2, <1>3, <1>6
    <3>2. a \in 0 .. d - 1 /\ d - 1 \in 0 .. len /\ a - 1 \in 0 .. len
      BY <1>1, <1>6, <2>2
    <3>3. p[a] <= p[d - 1] /\ p[a] = p[a - 1] + 1
      BY <1>4, <1>9, <3>2
    <3>4. p[d - 1] \in Nat /\ p[a - 1] \in Nat
      BY <1>9, <3>2
    <3> QED  BY <1>4, <3>1, <3>3, <3>4
  <2> QED  BY <1>6, <2>1, <2>2
<1>13. labels[c].nr = nr[d - 1] /\ nr[d] = nr[d - 1] + 1 /\ nr[d - 1] \in Nat
  BY <1>4, <1>6, <1>7, <1>8, <1>12
<1> DEFINE ptr == labels[c].ptr
<1>14. ASSUME NEW z \in d .. len, \A i \in d .. z : ~L!TakesMemory(source[i])
       PROVE  ptr >= nr[z]
  <2> SUFFICES ASSUME ptr < nr[z] PROVE FALSE
    BY <1>7, <1>10, <1>6, <1>1
  <2>0. z \in 0 .. len /\ len \in 0 .. len /\ z \in 0 .. z
    BY <1>1, <1>6
  <2>1. ptr < nr[len]
    <3>1. nr[z] <= nr[len] /\ nr[z] \in Nat /\ nr[len] \in Nat
      BY <1>7, <2>0, <1>1
    <3> QED  BY <1>10, <3>1
  <2>2. PICK i \in 1 .. len : ptr - nr[i - 1] \in 0 .. Size(source[i]) - 1
    BY <1>7, <1>10, <2>1
  <2>3. nr[i] = nr[i - 1] + Size(source[i]) /\ Size(source[i]) \in Nat /\ nr[i - 1] \in Nat
        /\ nr[i - 1] <= ptr /\ ptr < nr[i] /\ Size(source[i]) > 0
    <3>1. nr[i] = nr[i - 1] + Size(source[i]) /\ Size(source[i]) \in Nat /\ nr[i - 1] \in Nat
      BY <1>7
    <3> QED  BY <1>10, <2>2, <3>1
  <2>4. i >= d
    <3> SUFFICES ASSUME i < d PROVE FALSE
      BY <1>6
    <3>1. i \in 0 .. d /\ d \in 0 .. len
      BY <1>1, <1>6
    <3>2. nr[i] <= nr[d] /\ i \in 0 .. d - 1 /\ d - 1 \in 0 .. len
      BY <1>1, <1>6, <1>7, <3>1
    <3>3. nr[i] <= nr[d - 1] /\ nr[i] \in Nat
      BY <1>7, <2>3, <3>2
    <3> QED  BY <1>10, <1>13, <2>3, <3>3
  <2>5. i <= z
    <3> SUFFICES ASSUME z < i PROVE FALSE
      BY <1>6, <1>1
    <3>1. z \in 0 .. i - 1 /\ i - 1 \in 0 .. len
      BY <1>1, <2>0
    <3>2. nr[z] <= nr[i - 1]
      BY <1>7, <3>1
    <3>3. nr[z] \in Nat
      BY <1>7, <2>0
    <3> QED  BY <1>10, <2>3, <3>2, <3>3
  <2>6. ~L!TakesMemory(source[i])
    BY <1>1, <1>6, <1>14, <2>4, <2>5
  <2>7. source[i].op = "label"
    <3>1. source[i] \in Lines
      BY <1>1 DEF len
    <3>2. Kind(source[i]) \in AllKinds /\ Kind(source[i]) \notin ItemKinds
      BY <2>3, <2>6, <3>1, KindIs, SizesAgree
    <3>3. Kind(source[i]) # "none"
      BY <2>3 DEF Size
    <3>4. Kind(source[i]) = "label"
      BY <3>2, <3>3 DEF AllKinds, ItemKinds
    <3> QED  BY <3>4 DEF Kind
  <2>8. ptr = nr[i - 1]
    BY <1>8, <1>10, <2>3, <2>7
  <2>9. ptr \in Nrs
    BY <1>11, <2>7, <2>8
  <2> QED  BY <1>10, <2>9
<1>15. CASE B # {}
  <2> DEFINE m == L!Min(B)
  <2>1. /\ m \in 1 .. len /\ m >= d /\ L!TakesMemory(source[m])
        /\ \A i \in d .. m - 1 : ~L!TakesMemory(source[i])
    <3>1. source \in Seq(Lines) /\ d \in 1 .. Len(source) /\ L!Behind(source, d) # {}
      BY <1>1, <1>6, <1>15 DEF B, len
    <3>2. LET x == L!Min(L!Behind(source, d))
          IN  /\ x \in 1 .. Len(source) /\ x >= d /\ L!TakesMemory(source[x])
              /\ \A i \in d .. x - 1 : ~L!TakesMemory(source[i])
      BY <3>1, BehindIs
    <3> QED  BY <3>2 DEF B, len
  <2> HIDE DEF m
  <2>2. m > d
    <3>1. m # d
      BY <1>6, <1>8, <2>1
    <3> QED  BY <1>6, <2>1, <3>1
  <2>3. ptr >= nr[m - 1]
    <3>1. m - 1 \in d .. len
      BY <1>1, <1>6, <2>1, <2>2
    <3> QED  BY <1>14, <2>1, <3>1
  <2>4. nr[m - 1] \in Nat /\ nr[m - 1] > labels[c].nr
    <3>1. m - 1 \in 0 .. len /\ d \in 0 .. m - 1
      BY <1>1, <1>6, <2>1, <2>2
    <3>2. nr[d] <= nr[m - 1] /\ nr[m - 1] \in Nat
      BY <1>7, <3>1
    <3> QED  BY <1>13, <3>2
  <2>5. nr[m - 1] \notin Nrs
    <3> SUFFICES ASSUME NEW i \in 1 .. len, source[i].op = "label", nr[m - 1] = nr[i - 1]
                 PROVE  FALSE
      BY <1>11
    <3>1. /\ nr[i] = nr[i - 1] + 1 /\ nr[i - 1] \in Nat
          /\ nr[m] = nr[m - 1] + Size(source[m]) /\ Size(source[m]) > 0
          /\ Size(source[m]) \in Nat
      <4>1. source[m] \in Lines
        BY <1>1, <2>1 DEF len
      <4> QED  BY <1>7, <1>8, <2>1, <4>1, SizesAgree
    <3>2. i # m
      BY <1>8, <2>1
    <3>3. CASE i < m
      <4>1. i \in 0 .. m - 1 /\ m - 1 \in 0 .. len
        BY <1>1, <2>1, <3>3
      <4>2. nr[i] <= nr[m - 1]
        BY <1>7, <4>1
      <4> QED  BY <3>1, <4>2
    <3>4. CASE m < i
      <4>1. m \in 0 .. i - 1 /\ i - 1 \in 0 .. len
        BY <1>1, <2>1, <3>4
      <4>2. nr[m] <= nr[i - 1]
        BY <1>7, <4>1
      <4> QED  BY <3>1, <4>2
    <3> QED  BY <1>1, <2>1, <3>2, <3>3, <3>4
  <2>6. ~(ptr > nr[m - 1])
    BY <1>10, <2>4, <2>5
  <2>7. ptr = nr[m - 1]
    BY <1>10, <2>3, <2>4, <2>6
  <2> QED  BY <1>3, <1>5, <1>10, <1>15, <2>7 DEF PointsTo, Denoted, m, B, d, nr
<1>16. CASE B = {}
  <2>1. \A i \in d .. len : ~L!TakesMemory(source[i])
    BY <1>16 DEF B, L!Behind, len
  <2>2. ptr >= nr[len]
    <3>1. len \in d .. len
      BY <1>1, <1>6
    <3> QED  BY <1>14, <2>1, <3>1
  <2> QED  BY <1>3, <1>5, <1>10, <1>16, <2>2 DEF PointsTo, B, d, nr, len
<1> QED  BY <1>15, <1>16

-----------------------------------------------------------------------------
\* The symbol table before the items are placed.

CodeNames(src) ==
    {src[i].name : i \in {j \in DOMAIN src : Kind(src[j]) = "code"}} \ {NoName}

\* What the symbol table has of the source.
Pointed ==
    /\ DOMAIN symbols = L!Defined(source) \cup CodeNames(source)
    /\ \A n \in DOMAIN symbols : PointsTo(n, symbols[n].ptr)

\* The instructions are the items of the lines that stand for code.
LEMMA CodeItems ==
    ASSUME TypeInv, IInv, Parsed
    PROVE  /\ \A j \in 1 .. Len(instructions) : \E i \in 1 .. Len(source) :
                \E k \in 1 .. Size(source[i]) :
                    Kind(source[i]) = "code" /\ instructions[j] = ItemOf(source, i, k)
           /\ \A i \in 1 .. Len(source) : Kind(source[i]) = "code" =>
                /\ 1 \in 1 .. Size(source[i])
                /\ \E j \in 1 .. Len(instructions) : instructions[j] = ItemOf(source, i, 1)
<1> DEFINE p == Places(source, {"code"})
<1>1. /\ source \in Seq(Lines) /\ instructions \in Seq(Coded)
  BY ListedTypes
<1>2. DOMAIN source = 1 .. Len(source) /\ DOMAIN instructions = 1 .. Len(instructions)
      /\ Len(source) \in Nat /\ Len(instructions) \in Nat
      /\ \A i \in 1 .. Len(source) : source[i] \in Lines
  BY <1>1
<1>5. Listed(instructions, source, "code")
  BY DEF Parsed
<1>6. ASSUME NEW j \in 1 .. Len(instructions)
      PROVE  \E i \in 1 .. Len(source) : \E k \in 1 .. Size(source[i]) :
                Kind(source[i]) = "code" /\ instructions[j] = ItemOf(source, i, k)
  <2>1. PICK i \in DOMAIN source : \E k \in 1 .. Size(source[i]) :
            /\ Kind(source[i]) = "code" /\ j = p[i - 1] + k
            /\ instructions[j] = ItemOf(source, i, k)
    BY <1>1, <1>5, ListedCovers
  <2> QED  BY <1>2, <2>1
<1>7. ASSUME NEW i \in 1 .. Len(source), Kind(source[i]) = "code"
      PROVE  /\ 1 \in 1 .. Size(source[i])
             /\ \E j \in 1 .. Len(instructions) : instructions[j] = ItemOf(source, i, 1)
  <2>1. Size(source[i]) >= 1 /\ Size(source[i]) \in Nat /\ 1 \in 1 .. Size(source[i])
    BY <1>2, <1>7, SizesAgree, KindIs
  <2>2. instructions[p[i - 1] + 1] = ItemOf(source, i, 1) /\ Len(instructions) = p[Len(source)]
    BY <1>2, <1>5, <1>7, <2>1 DEF Listed
  <2>3. p[i - 1] + 1 \in 1 .. Len(instructions)
    <3>1. /\ \A k \in 0 .. Len(source) : p[k] \in Nat
          /\ \A k \in 1 .. Len(source) : Kind(source[k]) \in {"code"} =>
                p[k] = p[k - 1] + Size(source[k])
          /\ \A x \in 0 .. Len(source) : \A k \in 0 .. x : p[k] <= p[x]
      BY <1>1, PlacesOrder
    <3> HIDE DEF p
    <3>2. i \in 0 .. Len(source) /\ i - 1 \in 0 .. Len(source)
          /\ Len(source) \in 0 .. Len(source)
      BY <1>2
    <3>3. p[i] = p[i - 1] + Size(source[i]) /\ p[i] <= p[Len(source)]
          /\ p[i - 1] \in Nat /\ p[Len(source)] \in Nat
      BY <1>2, <1>7, <3>1, <3>2
    <3> QED  BY <1>2, <2>1, <2>2, <3>3
  <2> HIDE DEF p
  <2> QED  BY <2>1, <2>2, <2>3
<1> QED  BY <1>6, <1>7

LEMMA NamesAre ==
    ASSUME TypeInv, IInv, Parsed
    PROVE  LabelNames = L!Defined(source) /\ UsedNames = CodeNames(source)
<1>1. /\ source \in Seq(Lines) /\ instructions \in Seq(Coded)
  BY ListedTypes
<1>2. DOMAIN source = 1 .. Len(source) /\ DOMAIN instructions = 1 .. Len(instructions)
      /\ Len(source) \in Nat /\ Len(instructions) \in Nat
      /\ \A i \in 1 .. Len(source) : source[i] \in Lines
  BY <1>1
<1>3. LabelNames = L!Defined(source)
  <2>1. \A n \in LabelNames : n \in L!Defined(source)
    BY PtrPointsTo
  <2>2. ASSUME NEW i \in 1 .. Len(source), source[i].op = "label"
        PROVE  source[i].name \in LabelNames
    <3>1. LET j == Places(source, {"label"})[i - 1] + 1
          IN  j \in DOMAIN labels /\ labels[j].name = source[i].name
      BY <2>2, LabelLines
    <3> QED  BY <3>1 DEF LabelNames
  <2>3. \A n \in L!Defined(source) : n \in LabelNames
    BY <1>2, <2>2 DEF L!Defined
  <2> QED  BY <2>1, <2>3
<1>4. ASSUME NEW i \in 1 .. Len(source), Kind(source[i]) = "code",
             NEW k \in 1 .. Size(source[i])
      PROVE  ItemOf(source, i, k).name = source[i].name
  <2>1. Items(source[i])[k] \in Item /\ Items(source[i])[k].name = source[i].name
    <3>1. Kind(source[i]) \in ItemKinds
      BY <1>4 DEF ItemKinds
    <3>2. Items(source[i]) \in Seq(Fresh) /\ Size(source[i]) = Len(Items(source[i]))
      BY <1>2, <3>1, KindIs
    <3>3. Items(source[i])[k] \in Fresh
      BY <3>2
    <3> QED  BY <1>2, <3>1, <3>3, ItemNames DEF Fresh
  <2> QED  BY <1>4, <2>1 DEF ItemOf, Item
<1>6. ASSUME NEW j \in 1 .. Len(instructions)
      PROVE  \E i \in 1 .. Len(source) :
                Kind(source[i]) = "code" /\ instructions[j].name = source[i].name
  BY <1>4, CodeItems
<1>7. ASSUME NEW i \in 1 .. Len(source), Kind(source[i]) = "code"
      PROVE  \E j \in 1 .. Len(instructions) : instructions[j].name = source[i].name
  <2>1. 1 \in 1 .. Size(source[i])
        /\ \E j \in 1 .. Len(instructions) : instructions[j] = ItemOf(source, i, 1)
    BY <1>7, CodeItems
  <2> QED  BY <1>4, <1>7, <2>1
<1>8. UsedNames = CodeNames(source)
  BY <1>2, <1>6, <1>7 DEF UsedNames, CodeNames
<1> QED  BY <1>3, <1>8

LEMMA IdsymbolsPoint ==
    ASSUME TypeInv, IInv, Parsed, Idsymbols, pc' = "placeinstr"
    PROVE  Pointed'
<1>1. LabelNames = L!Defined(source) /\ UsedNames = CodeNames(source)
  BY NamesAre
<1>2. source' = source
      /\ symbols' = [n \in LabelNames \cup UsedNames |->
                        [ptr |-> IF n \in LabelNames THEN PtrOf(n) ELSE NoNr, addr |-> NoNr]]
  BY DEF Idsymbols
<1>3. DOMAIN symbols' = L!Defined(source) \cup CodeNames(source)
  BY <1>1, <1>2
<1>4. ASSUME NEW n \in DOMAIN symbols' PROVE PointsTo(n, symbols'[n].ptr)
  <2>1. symbols'[n].ptr = IF n \in LabelNames THEN PtrOf(n) ELSE NoNr
    BY <1>1, <1>2, <1>3
  <2>2. CASE n \in LabelNames
    BY <2>1, <2>2, PtrPointsTo
  <2>3. CASE n \notin LabelNames
    BY <1>1, <2>1, <2>3 DEF PointsTo
  <2> QED  BY <2>2, <2>3
<1> QED  BY <1>2, <1>3, <1>4 DEF Pointed, PointsTo, Denoted

-----------------------------------------------------------------------------
\* Placing: bytes in pairs, words at even addresses.

\* What Role and Placement say of a list, in one place.
Placing(list, a, role, ptr) ==
    /\ role \in [0 .. Len(list) -> Roles] /\ role[0] = "single"
    /\ \A i \in 1 .. Len(list) :
        role[i] = IF role[i - 1] = "first" THEN "second"
                  ELSE IF list[i].byte /\ i < Len(list) /\ list[i + 1].byte
                       THEN "first" ELSE "single"
    /\ \A i \in 1 .. Len(list) :
        role[i] = "first" => i < Len(list) /\ list[i].byte /\ list[i + 1].byte
    /\ ptr \in [1 .. Len(list) + 1 -> Nat] /\ ptr[1] = a
    /\ \A i \in 1 .. Len(list) : ptr[i + 1] = ptr[i] + IF role[i] = "single" THEN 2 ELSE 1

LEMMA PlacingIs ==
    ASSUME NEW list \in Seq(Fresh), NEW a \in Nat
    PROVE  Placing(list, a, Role(list), Placement(list, a))
<1>1. list \in Seq(Item)
  BY SeqsWiden DEF Fresh
<1>2. DOMAIN list = 1 .. Len(list)
  OBVIOUS
<1> DEFINE role == Role(list)
           ptr == Placement(list, a)
<1>3. /\ role \in [0 .. Len(list) -> Roles] /\ role[0] = "single"
      /\ \A i \in 1 .. Len(list) :
            role[i] = IF role[i - 1] = "first" THEN "second"
                      ELSE IF list[i].byte /\ i < Len(list) /\ list[i + 1].byte
                           THEN "first" ELSE "single"
  BY <1>1, RoleIs
<1>4. \A i \in DOMAIN list :
        role[i] = "first" => i < Len(list) /\ list[i].byte /\ list[i + 1].byte
  BY <1>1, Pairs
<1>5. /\ ptr \in [1 .. Len(list) + 1 -> Nat] /\ ptr[1] = a
      /\ \A i \in DOMAIN list : ptr[i + 1] = ptr[i] + IF role[i] = "single" THEN 2 ELSE 1
  BY <1>1, PlacementIs
<1> HIDE DEF role, ptr
<1>6. Placing(list, a, role, ptr)
  BY <1>2, <1>3, <1>4, <1>5 DEF Placing
<1> QED  BY <1>6 DEF role, ptr

\* An address is odd exactly between the two bytes of a pair.
LEMMA PlacingParity ==
    ASSUME NEW S, NEW list \in Seq(S), NEW a \in Nat, a % 2 = 0, NEW role, NEW ptr,
           Placing(list, a, role, ptr)
    PROVE  \A j \in 0 .. Len(list) : ptr[j + 1] % 2 = IF role[j] = "first" THEN 1 ELSE 0
<1> DEFINE n == Len(list)
           P == {j \in 0 .. n : ptr[j + 1] % 2 = IF role[j] = "first" THEN 1 ELSE 0}
<1>1. n \in Nat
  OBVIOUS
<1>2. /\ role[0] = "single" /\ ptr[1] = a
      /\ \A i \in 1 .. n + 1 : ptr[i] \in Nat
      /\ \A i \in 1 .. n : role[i] = "second" \/ role[i] = "first" \/ role[i] = "single"
      /\ \A i \in 1 .. n : (role[i] = "second") <=> (role[i - 1] = "first")
      /\ \A i \in 1 .. n : ptr[i + 1] = ptr[i] + IF role[i] = "single" THEN 2 ELSE 1
  BY DEF Placing
<1> HIDE DEF n
<1>3. 0 \in P
  BY <1>1, <1>2
<1>4. \A k \in 0 .. n - 1 : k \in P => k + 1 \in P
  <2> SUFFICES ASSUME NEW k \in 0 .. n - 1, k \in P PROVE k + 1 \in P
    OBVIOUS
  <2>1. k + 1 \in 1 .. n /\ (k + 1) - 1 = k /\ k + 1 \in 0 .. n /\ k + 1 \in 1 .. n + 1
    BY <1>1
  <2>2. /\ ptr[(k + 1) + 1] = ptr[k + 1] + IF role[k + 1] = "single" THEN 2 ELSE 1
        /\ ptr[k + 1] \in Nat
        /\ (role[k + 1] = "second") <=> (role[k] = "first")
        /\ role[k + 1] = "second" \/ role[k + 1] = "first" \/ role[k + 1] = "single"
        /\ ptr[k + 1] % 2 = IF role[k] = "first" THEN 1 ELSE 0
    BY <1>2, <2>1
  <2> DEFINE x == ptr[k + 1]
             y == ptr[(k + 1) + 1]
  <2>3. /\ x \in Nat /\ y = x + IF role[k + 1] = "single" THEN 2 ELSE 1
        /\ x % 2 = IF role[k] = "first" THEN 1 ELSE 0
    BY <2>2
  <2> HIDE DEF x, y
  <2>4. CASE role[k + 1] = "second"
    <3>1. y = x + 1 /\ x % 2 = 1
      BY <2>2, <2>3, <2>4
    <3>2. y % 2 = 0
      BY <2>3, <3>1
    <3> QED  BY <2>1, <2>4, <3>2 DEF y
  <2>5. CASE role[k + 1] = "first"
    <3>1. y = x + 1 /\ x % 2 = 0
      BY <2>2, <2>3, <2>5
    <3>2. y % 2 = 1
      BY <2>3, <3>1
    <3> QED  BY <2>1, <2>5, <3>2 DEF y
  <2>6. CASE role[k + 1] = "single"
    <3>1. y = x + 2 /\ x % 2 = 0
      BY <2>2, <2>3, <2>6
    <3>2. y % 2 = 0
      BY <2>3, <3>1
    <3> QED  BY <2>1, <2>6, <3>2 DEF y
  <2> QED  BY <2>2, <2>4, <2>5, <2>6
<1>5. \A k \in 0 .. n : k \in P
  <2> HIDE DEF P
  <2> QED  BY <1>1, <1>3, <1>4, Climb
<1> QED  BY <1>5 DEF n

\* Items are packed: with r of the first j items not second bytes, their end is r words
\* on, or a byte less behind a first byte.
LEMMA PlacingPacks ==
    ASSUME NEW S, NEW list \in Seq(S), NEW a \in Nat, NEW role, NEW ptr,
           Placing(list, a, role, ptr), NEW kept, NEW r, IsRank(r, Len(list), kept),
           \A i \in 1 .. Len(list) : i \in kept <=> role[i] # "second"
    PROVE  \A j \in 0 .. Len(list) :
                ptr[j + 1] = a + 2 * r[j] - IF role[j] = "first" THEN 1 ELSE 0
<1> DEFINE n == Len(list)
           P == {j \in 0 .. n : ptr[j + 1] = a + 2 * r[j] - IF role[j] = "first" THEN 1 ELSE 0}
<1>1. n \in Nat
  OBVIOUS
<1>2. /\ role[0] = "single" /\ ptr[1] = a
      /\ \A i \in 1 .. n : role[i] = "second" \/ role[i] = "first" \/ role[i] = "single"
      /\ \A i \in 1 .. n : (role[i] = "second") <=> (role[i - 1] = "first")
      /\ \A i \in 1 .. n : ptr[i + 1] = ptr[i] + IF role[i] = "single" THEN 2 ELSE 1
  BY DEF Placing
<1>3. /\ r[0] = 0 /\ \A i \in 0 .. n : r[i] \in Nat
      /\ \A i \in 1 .. n : r[i] = r[i - 1] + IF i \in kept THEN 1 ELSE 0
      /\ \A i \in 1 .. n : i \in kept <=> role[i] # "second"
  BY DEF IsRank
<1> HIDE DEF n
<1>4. 0 \in P
  <2>1. 0 \in 0 .. n /\ 0 + 1 = 1 /\ a + 2 * 0 - 0 = a
    BY <1>1
  <2> QED  BY <1>2, <1>3, <2>1
<1>5. \A k \in 0 .. n - 1 : k \in P => k + 1 \in P
  <2> SUFFICES ASSUME NEW k \in 0 .. n - 1, k \in P PROVE k + 1 \in P
    OBVIOUS
  <2>1. k + 1 \in 1 .. n /\ (k + 1) - 1 = k /\ k + 1 \in 0 .. n /\ k \in 0 .. n
    BY <1>1
  <2>2. /\ ptr[(k + 1) + 1] = ptr[k + 1] + IF role[k + 1] = "single" THEN 2 ELSE 1
        /\ (role[k + 1] = "second") <=> (role[k] = "first")
        /\ role[k + 1] = "second" \/ role[k + 1] = "first" \/ role[k + 1] = "single"
        /\ ptr[k + 1] = a + 2 * r[k] - IF role[k] = "first" THEN 1 ELSE 0
        /\ r[k + 1] = r[k] + IF role[k + 1] # "second" THEN 1 ELSE 0
        /\ r[k] \in Nat
    BY <1>2, <1>3, <2>1
  <2>3. ptr[(k + 1) + 1] = a + 2 * r[k + 1] - IF role[k + 1] = "first" THEN 1 ELSE 0
    BY <2>2
  <2> QED  BY <2>1, <2>3
<1>6. \A k \in 0 .. n : k \in P
  <2> HIDE DEF P
  <2> QED  BY <1>1, <1>4, <1>5, Climb
<1> QED  BY <1>6 DEF n

NoBytes(list, first, last) == \A i \in first .. last : ~list[i].byte

Bytes(list, q, m) == \A k \in 0 .. m - 1 : list[q + k].byte

\* Bytes that follow each other have addresses that follow each other.
LEMMA BytesRun ==
    ASSUME NEW S, NEW list \in Seq(S), NEW a \in Nat, NEW role, NEW ptr,
           Placing(list, a, role, ptr), NEW q \in Nat, q >= 1, NEW m \in Nat, m >= 1,
           q + m - 1 <= Len(list), Bytes(list, q, m)
    PROVE  \A k \in 0 .. m - 1 : ptr[q + k] = ptr[q] + k
<1> DEFINE n == Len(list)
           P == {k \in 0 .. m - 1 : ptr[q + k] = ptr[q] + k}
<1>1. n \in Nat /\ q + m - 1 <= n
  OBVIOUS
<1>2. /\ \A i \in 1 .. n + 1 : ptr[i] \in Nat
      /\ \A i \in 1 .. n : role[i] = "single" => ~(list[i].byte /\ i < n /\ list[i + 1].byte)
      /\ \A i \in 1 .. n : ptr[i + 1] = ptr[i] + IF role[i] = "single" THEN 2 ELSE 1
  BY DEF Placing
<1> HIDE DEF n
<1>3. 0 \in P
  <2>1. q \in 1 .. n + 1 /\ q + 0 = q
    BY <1>1
  <2>2. ptr[q] \in Nat
    BY <1>2, <2>1
  <2> QED  BY <2>1, <2>2
<1>4. \A k \in 0 .. (m - 1) - 1 : k \in P => k + 1 \in P
  <2> SUFFICES ASSUME NEW k \in 0 .. (m - 1) - 1, k \in P PROVE k + 1 \in P
    OBVIOUS
  <2>1. /\ q + k \in 1 .. n /\ q + k < n /\ (q + k) + 1 = q + (k + 1)
        /\ k \in 0 .. m - 1 /\ k + 1 \in 0 .. m - 1 /\ q \in 1 .. n + 1
    BY <1>1
  <2>2. list[q + k].byte /\ list[q + (k + 1)].byte
    BY <2>1 DEF Bytes
  <2>3. role[q + k] # "single"
    BY <1>2, <2>1, <2>2
  <2>4. ptr[(q + k) + 1] = ptr[q + k] + 1
    BY <1>2, <2>1, <2>3
  <2>5. ptr[q + k] = ptr[q] + k /\ ptr[q] \in Nat
    BY <1>2, <2>1
  <2>6. ptr[q + (k + 1)] = ptr[q] + (k + 1)
    BY <2>1, <2>4, <2>5
  <2> QED  BY <2>1, <2>6
<1>5. \A k \in 0 .. m - 1 : k \in P
  <2> HIDE DEF P
  <2>1. m - 1 \in Nat
    OBVIOUS
  <2> QED  BY <1>3, <1>4, <2>1, Climb
<1> QED  BY <1>5

\* What has no bytes is words from one place on.
LEMMA WordsRun ==
    ASSUME NEW S, NEW list \in Seq(S), NEW a \in Nat, NEW role, NEW ptr,
           Placing(list, a, role, ptr), NEW q \in Nat, q <= Len(list),
           NoBytes(list, q + 1, Len(list))
    PROVE  /\ role[q] # "first"
           /\ \A k \in 0 .. Len(list) - q : ptr[q + 1 + k] = ptr[q + 1] + 2 * k
           /\ \A i \in q + 1 .. Len(list) : role[i] = "single"
<1> DEFINE n == Len(list)
           P == {k \in 0 .. n - q : role[q + k] # "first" /\ ptr[q + 1 + k] = ptr[q + 1] + 2 * k}
<1>1. n \in Nat /\ q \in 0 .. n
  OBVIOUS
<1>2. /\ \A i \in 1 .. n + 1 : ptr[i] \in Nat
      /\ role[0] = "single"
      /\ \A i \in 1 .. n : role[i] = "first" => i < n /\ list[i + 1].byte
      /\ \A i \in 1 .. n : role[i] = IF role[i - 1] = "first" THEN "second"
                  ELSE IF list[i].byte /\ i < n /\ list[i + 1].byte
                       THEN "first" ELSE "single"
      /\ \A i \in 1 .. n : ptr[i + 1] = ptr[i] + IF role[i] = "single" THEN 2 ELSE 1
  BY DEF Placing
<1>3. \A i \in q + 1 .. n : ~list[i].byte
  BY DEF NoBytes
<1> HIDE DEF n
<1>4. role[q] # "first"
  <2>1. CASE q = 0
    BY <1>2, <2>1
  <2>2. CASE q # 0
    <3> SUFFICES ASSUME role[q] = "first" PROVE FALSE
      OBVIOUS
    <3>1. q \in 1 .. n
      BY <1>1, <2>2
    <3>2. q < n /\ list[q + 1].byte
      BY <1>2, <3>1
    <3>3. q + 1 \in q + 1 .. n
      BY <1>1, <3>2
    <3> QED  BY <1>3, <3>2, <3>3
  <2> QED  BY <2>1, <2>2
<1>5. 0 \in P
  <2>1. q + 1 \in 1 .. n + 1 /\ q + 1 + 0 = q + 1 /\ q + 0 = q
    BY <1>1
  <2>2. ptr[q + 1] \in Nat
    BY <1>2, <2>1
  <2> QED  BY <1>1, <1>4, <2>1, <2>2
<1>6. \A k \in 0 .. (n - q) - 1 : k \in P => k + 1 \in P
  <2> SUFFICES ASSUME NEW k \in 0 .. (n - q) - 1, k \in P PROVE k + 1 \in P
    OBVIOUS
  <2>1. /\ q + (k + 1) \in 1 .. n /\ (q + (k + 1)) - 1 = q + k
        /\ q + (k + 1) \in q + 1 .. n /\ k + 1 \in 0 .. n - q
        /\ q + 1 + k = q + (k + 1) /\ q + 1 + (k + 1) = (q + (k + 1)) + 1
        /\ q + 1 \in 1 .. n + 1
    BY <1>1
  <2>2. role[q + (k + 1)] = "single"
    BY <1>2, <1>3, <2>1
  <2>3. ptr[(q + (k + 1)) + 1] = ptr[q + (k + 1)] + 2
    BY <1>2, <2>1, <2>2
  <2>4. ptr[q + 1 + k] = ptr[q + 1] + 2 * k /\ ptr[q + 1] \in Nat
    BY <1>2, <2>1
  <2>5. ptr[q + 1 + (k + 1)] = ptr[q + 1] + 2 * (k + 1)
    BY <2>1, <2>3, <2>4
  <2> QED  BY <2>1, <2>2, <2>5
<1>7. \A k \in 0 .. n - q : k \in P
  <2> HIDE DEF P
  <2>1. n - q \in Nat
    BY <1>1
  <2> QED  BY <1>5, <1>6, <2>1, Climb
<1>8. \A i \in q + 1 .. n : role[i] = "single"
  <2> SUFFICES ASSUME NEW i \in q + 1 .. n PROVE role[i] = "single"
    OBVIOUS
  <2>1. i \in 1 .. n /\ (i - 1) - q \in 0 .. n - q /\ q + ((i - 1) - q) = i - 1
    BY <1>1
  <2>2. role[i - 1] # "first"
    BY <1>7, <2>1
  <2> QED  BY <1>2, <1>3, <2>1, <2>2
<1> QED  BY <1>4, <1>7, <1>8 DEF n

\* No two items have the same address.
LEMMA PlacingApart ==
    ASSUME NEW S, NEW list \in Seq(S), NEW a \in Nat, NEW role, NEW ptr,
           Placing(list, a, role, ptr)
    PROVE  \A j \in 0 .. Len(list) : \A i \in 1 .. j : ptr[i] < ptr[j + 1]
<1> DEFINE n == Len(list)
           P == {j \in 0 .. n : \A i \in 1 .. j : ptr[i] < ptr[j + 1]}
<1>1. n \in Nat
  OBVIOUS
<1>2. /\ \A i \in 1 .. n + 1 : ptr[i] \in Nat
      /\ \A i \in 1 .. n : ptr[i + 1] = ptr[i] + IF role[i] = "single" THEN 2 ELSE 1
  BY DEF Placing
<1> HIDE DEF n
<1>3. 0 \in P
  BY <1>1
<1>4. \A k \in 0 .. n - 1 : k \in P => k + 1 \in P
  <2> SUFFICES ASSUME NEW k \in 0 .. n - 1, k \in P PROVE k + 1 \in P
    OBVIOUS
  <2>1. /\ k + 1 \in 1 .. n /\ k + 1 \in 0 .. n /\ k + 1 \in 1 .. n + 1
        /\ \A i \in 1 .. k + 1 : i \in 1 .. n + 1 /\ (i \in 1 .. k \/ i = k + 1)
    BY <1>1
  <2>2. /\ ptr[(k + 1) + 1] = ptr[k + 1] + IF role[k + 1] = "single" THEN 2 ELSE 1
        /\ ptr[k + 1] \in Nat /\ \A i \in 1 .. k : ptr[i] < ptr[k + 1]
    BY <1>2, <2>1
  <2>3. ptr[(k + 1) + 1] > ptr[k + 1] /\ ptr[(k + 1) + 1] \in Nat
    BY <2>2
  <2>4. ASSUME NEW i \in 1 .. k + 1 PROVE ptr[i] < ptr[(k + 1) + 1]
    <3>1. ptr[i] \in Nat
      BY <1>2, <2>1
    <3>2. ptr[i] <= ptr[k + 1]
      BY <2>1, <2>2, <3>1
    <3> QED  BY <2>2, <2>3, <3>1, <3>2
  <2> QED  BY <2>1, <2>4
<1>5. \A k \in 0 .. n : k \in P
  <2> HIDE DEF P
  <2> QED  BY <1>1, <1>3, <1>4, Climb
<1> QED  BY <1>5 DEF n

-----------------------------------------------------------------------------
\* The sums of Layout in terms of the places of the tables.

LEMMA TotalsDouble ==
    ASSUME NEW f \in Seq(Nat), NEW g \in Seq(Nat), Len(g) = Len(f),
           \A i \in 1 .. Len(f) : g[i] = 2 * f[i]
    PROVE  \A i \in 0 .. Len(f) : Totals(g)[i] = 2 * Totals(f)[i]
<1> DEFINE n == Len(f)
           t == Totals(f)
           u == Totals(g)
           P == {i \in 0 .. n : u[i] = 2 * t[i]}
<1>1. n \in Nat /\ Len(g) = n /\ \A i \in 1 .. n : f[i] \in Nat /\ g[i] = 2 * f[i]
  OBVIOUS
<1>2. /\ t[0] = 0 /\ \A i \in 1 .. n : t[i] = t[i - 1] + f[i]
      /\ u[0] = 0 /\ \A i \in 1 .. n : u[i] = u[i - 1] + g[i]
      /\ \A i \in 0 .. n : t[i] \in Nat
  <2>1. /\ t \in [0 .. n -> Nat] /\ t[0] = 0 /\ \A i \in 1 .. n : t[i] = t[i - 1] + f[i]
    BY Totalled
  <2>2. /\ u[0] = 0 /\ \A i \in 1 .. Len(g) : u[i] = u[i - 1] + g[i]
    BY Totalled
  <2> QED  BY <1>1, <2>1, <2>2
<1> HIDE DEF n, t, u
<1>3. 0 \in P
  BY <1>1, <1>2
<1>4. ASSUME NEW k \in 0 .. n - 1, k \in P PROVE k + 1 \in P
  <2>1. k + 1 \in 1 .. n /\ (k + 1) - 1 = k /\ k + 1 \in 0 .. n /\ k \in 0 .. n
    BY <1>1
  <2>2. /\ t[k + 1] = t[k] + f[k + 1] /\ u[k + 1] = u[k] + g[k + 1] /\ u[k] = 2 * t[k]
        /\ g[k + 1] = 2 * f[k + 1] /\ f[k + 1] \in Nat /\ t[k] \in Nat
    BY <1>1, <1>2, <1>4, <2>1
  <2>3. u[k + 1] = 2 * t[k + 1]
    BY <2>2
  <2> QED  BY <2>1, <2>3
<1>5. \A k \in 0 .. n : k \in P
  <2> HIDE DEF P
  <2> QED  BY <1>1, <1>3, <1>4, Climb
<1> QED  BY <1>5 DEF n, t, u

LEMMA LayoutTotals == ASSUME NEW f PROVE L!Totals(f) = Totals(f)
BY DEF L!Totals, Totals

\* What the lines of a kind take in memory is twice their number of items.
LEMMA WordsOfKind ==
    ASSUME NEW src \in Seq(Lines), NEW kind, NEW g,
           g = [i \in DOMAIN src |-> IF Kind(src[i]) = kind THEN 2 * Size(src[i]) ELSE 0]
    PROVE  \A i \in 0 .. Len(src) : L!Totals(g)[i] = 2 * Places(src, {kind})[i]
<1> DEFINE f == Sized(src, {kind})
           n == Len(src)
<1>1. /\ n \in Nat /\ DOMAIN src = 1 .. n /\ f \in Seq(Nat) /\ Len(f) = n
      /\ \A i \in 1 .. n : f[i] = IF Kind(src[i]) = kind THEN Size(src[i]) ELSE 0
      /\ \A i \in 1 .. n : Size(src[i]) \in Nat
  <2>1. f \in Seq(Nat) /\ Len(f) = n
        /\ \A i \in 1 .. n : f[i] = IF Kind(src[i]) \in {kind} THEN Size(src[i]) ELSE 0
    BY SizedType
  <2>2. n \in Nat /\ DOMAIN src = 1 .. n /\ \A i \in 1 .. n : src[i] \in Lines
    OBVIOUS
  <2>3. \A i \in 1 .. n : Size(src[i]) \in Nat
    BY <2>2, KindIs
  <2> HIDE DEF f, n
  <2> QED  BY <2>1, <2>2, <2>3
<1>2. Places(src, {kind}) = Totals(f)
  BY DEF Places
<1> HIDE DEF f, n
<1>3. \A i \in 1 .. n : g[i] \in Nat /\ g[i] = 2 * f[i]
  BY <1>1
<1>4. g \in Seq(Nat) /\ Len(g) = n
  <2>1. g = [i \in 1 .. n |-> g[i]]
    BY <1>1
  <2> QED  BY <1>1, <1>3, <2>1
<1>5. \A i \in 0 .. n : Totals(g)[i] = 2 * Totals(f)[i]
  BY <1>1, <1>3, <1>4, TotalsDouble
<1> QED  BY <1>2, <1>5, LayoutTotals DEF n

\* The addresses of Layout in terms of the places of the tables.
Ends(src, e) ==
    /\ e = L!DataEnd(src) /\ e \in [0 .. Len(src) -> Nat]
    /\ e[0] = L!Base(src) + 2 * Places(src, {"code"})[Len(src)]
    /\ \A i \in 1 .. Len(src) : e[i] = L!DataStart(src[i], e[i - 1]) + L!DataSize(src[i])

LEMMA CodeAddressIs ==
    ASSUME NEW src \in Seq(Lines), NEW i \in 1 .. Len(src) + 1
    PROVE  L!CodeAddress(src, i) = L!Base(src) + 2 * Places(src, {"code"})[i - 1]
<1> DEFINE g == [j \in DOMAIN src |-> L!CodeSize(src[j])]
<1>1. Len(src) \in Nat /\ i - 1 \in 0 .. Len(src) /\ \A j \in DOMAIN src : src[j] \in Lines
  OBVIOUS
<1>2. g = [j \in DOMAIN src |-> IF Kind(src[j]) = "code" THEN 2 * Size(src[j]) ELSE 0]
  BY <1>1, SizesAgree
<1>3. L!CodeAddress(src, i) = L!Base(src) + L!Totals(g)[i - 1]
  BY DEF L!CodeAddress
<1> HIDE DEF g
<1>4. \A j \in 0 .. Len(src) : L!Totals(g)[j] = 2 * Places(src, {"code"})[j]
  BY <1>2, WordsOfKind
<1> QED  BY <1>1, <1>3, <1>4

LEMMA BssAddressIs ==
    ASSUME NEW src \in Seq(Lines), NEW i \in 1 .. Len(src)
    PROVE  L!BssAddress(src, i) =
                L!Aligned(L!DataEnd(src)[Len(src)]) + 2 * Places(src, {"bss"})[i - 1]
<1> DEFINE g == [j \in DOMAIN src |-> L!BssSize(src[j])]
<1>1. Len(src) \in Nat /\ i - 1 \in 0 .. Len(src) /\ \A j \in DOMAIN src : src[j] \in Lines
  OBVIOUS
<1>2. g = [j \in DOMAIN src |-> IF Kind(src[j]) = "bss" THEN 2 * Size(src[j]) ELSE 0]
  BY <1>1, SizesAgree
<1>3. L!BssAddress(src, i) = L!Aligned(L!DataEnd(src)[Len(src)]) + L!Totals(g)[i - 1]
  BY DEF L!BssAddress
<1> HIDE DEF g
<1>4. \A j \in 0 .. Len(src) : L!Totals(g)[j] = 2 * Places(src, {"bss"})[j]
  BY <1>2, WordsOfKind
<1> QED  BY <1>1, <1>3, <1>4

LEMMA DataSizeIs ==
    ASSUME NEW l \in Lines, NEW x \in Nat
    PROVE  /\ L!DataSize(l) \in Nat /\ L!DataStart(l, x) \in Nat
           /\ L!Aligned(x) \in Nat /\ (L!Aligned(x) % 2) = 0
           /\ L!Aligned(x) = IF x % 2 = 0 THEN x ELSE x + 1
<1>1. Size(l) \in Nat
  BY KindIs
<1>2. L!DataSize(l) \in Nat
  BY <1>1, SizesAgree
<1>3. L!Aligned(x) \in Nat /\ (L!Aligned(x) % 2) = 0
      /\ L!Aligned(x) = IF x % 2 = 0 THEN x ELSE x + 1
  BY DEF L!Aligned
<1> QED  BY <1>2, <1>3 DEF L!DataStart

LEMMA DataEndIs ==
    ASSUME NEW src \in Seq(Lines), L!Base(src) \in Nat
    PROVE  Ends(src, L!DataEnd(src))
<1> DEFINE n == Len(src)
           a == L!CodeAddress(src, n + 1)
           After(x, i) == L!DataStart(src[i], x) + L!DataSize(src[i])
           Body(g) == [i \in 0 .. n |-> IF i = 0 THEN a ELSE After(g[i - 1], i)]
           step == [i \in 1 .. n |-> [x \in Nat |-> After(x, i)]]
           t == L!DataEnd(src)
<1>1. n \in Nat /\ n + 1 \in 1 .. n + 1 /\ (n + 1) - 1 = n /\ n \in 0 .. n
      /\ \A i \in 1 .. n : src[i] \in Lines
  OBVIOUS
<1>2. a \in Nat /\ a = L!Base(src) + 2 * Places(src, {"code"})[n]
  <2>1. Places(src, {"code"})[n] \in Nat
    BY <1>1, PlacesAre
  <2>2. a = L!Base(src) + 2 * Places(src, {"code"})[n]
    BY <1>1, CodeAddressIs
  <2> HIDE DEF a
  <2> QED  BY <2>1, <2>2
<1>3. \A i \in 1 .. n, x \in Nat : After(x, i) \in Nat
  <2> SUFFICES ASSUME NEW i \in 1 .. n, NEW x \in Nat PROVE After(x, i) \in Nat
    OBVIOUS
  <2>1. L!DataStart(src[i], x) \in Nat /\ L!DataSize(src[i]) \in Nat
    BY <1>1, DataSizeIs
  <2> QED  BY <2>1
<1>4. t = CHOOSE h : h = Body(h)
  BY DEF L!DataEnd
<1> HIDE DEF n, a, After
<1>5. /\ step \in [1 .. n -> [Nat -> Nat]]
      /\ \A i \in 1 .. n, x \in Nat : step[i][x] = After(x, i)
  BY <1>3
<1> HIDE DEF t, step
<1>6. PICK g : ByRecursion(g, n, Nat, a, step)
  BY <1>1, <1>2, <1>5, Recursion
<1>7. g = Body(g)
  <2>1. g = [i \in 0 .. n |-> g[i]]
    BY <1>6 DEF ByRecursion
  <2>2. \A i \in 0 .. n : g[i] = IF i = 0 THEN a ELSE After(g[i - 1], i)
    <3> SUFFICES ASSUME NEW i \in 0 .. n
        PROVE  g[i] = IF i = 0 THEN a ELSE After(g[i - 1], i)
      OBVIOUS
    <3>1. CASE i = 0
      BY <1>6, <3>1 DEF ByRecursion
    <3>2. CASE i # 0
      <4>1. i \in 1 .. n /\ i - 1 \in 0 .. n
        BY <1>1, <3>2
      <4>2. g[i] = step[i][g[i - 1]] /\ g[i - 1] \in Nat
        BY <1>6, <4>1 DEF ByRecursion
      <4> QED  BY <1>5, <3>2, <4>1, <4>2
    <3> QED  BY <3>1, <3>2
  <2> QED  BY <2>1, <2>2
<1>8. t = Body(t)
  <2> HIDE DEF Body
  <2> QED  BY <1>4, <1>7
<1>9. /\ t = [i \in 0 .. n |-> t[i]] /\ t[0] = a
      /\ \A i \in 1 .. n : t[i] = After(t[i - 1], i)
  <2>1. \A i \in 0 .. n : t[i] = IF i = 0 THEN a ELSE After(t[i - 1], i)
    BY <1>8
  <2>2. t = [i \in 0 .. n |-> t[i]]
    BY <1>8
  <2>3. \A i \in 1 .. n : i \in 0 .. n /\ i # 0
    BY <1>1
  <2>4. 0 \in 0 .. n
    BY <1>1
  <2> QED  BY <2>1, <2>2, <2>3, <2>4
<1>10. ByRecursion(t, n, Nat, a, step)
  <2>1. \A i \in 1 .. n : t[i - 1] \in Nat => t[i] = step[i][t[i - 1]]
    BY <1>5, <1>9
  <2> QED  BY <1>1, <1>2, <1>5, <1>9, <2>1, Unique
<1>11. t \in [0 .. n -> Nat]
  BY <1>10 DEF ByRecursion
<1> QED  BY <1>2, <1>9, <1>11 DEF Ends, t, n, After

-----------------------------------------------------------------------------
\* Laid: the table of all items, code, data and what is reserved.

LEMMA BaseEven ==
    ASSUME NEW src \in Seq(Lines)
    PROVE  L!Base(src) \in Nat /\ (L!Base(src) % 2) = 0
<1> DEFINE U == {i \in DOMAIN src : src[i].op = "code"}
<1>1. Len(src) \in Nat /\ DOMAIN src = 1 .. Len(src) /\ \A i \in 1 .. Len(src) : src[i] \in Lines
  OBVIOUS
<1>2. L!Base(src) = IF U = {} THEN 0 ELSE src[L!Max(U)].val
  BY DEF L!Base
<1>3. U \subseteq 1 .. Len(src) /\ \A i \in U : src[i].op = "code"
  BY <1>1
<1> HIDE DEF U
<1>4. CASE U = {}
  BY <1>2, <1>4
<1>5. CASE U # {}
  <2>1. L!Max(U) \in U
    BY <1>1, <1>3, <1>5, MaxIs
  <2> DEFINE v == src[L!Max(U)].val
  <2>2. v \in Int /\ v >= 0 /\ (v % 2) = 0
    <3>1. src[L!Max(U)] \in Lines /\ src[L!Max(U)].op = "code"
      BY <1>1, <1>3, <2>1
    <3> QED  BY <3>1, KindIs, LinesAssumption
  <2>3. L!Base(src) = v
    BY <1>2, <1>5
  <2> HIDE DEF v
  <2> QED  BY <2>2, <2>3
<1> QED  BY <1>4, <1>5

\* Where item k of line i is in the table of all items.
Index(src, i, k) ==
    LET c == Places(src, {"code"})
        d == Places(src, {"data"})
        b == Places(src, {"bss"})
    IN  IF Kind(src[i]) = "code" THEN c[i - 1] + k
        ELSE IF Kind(src[i]) = "data" THEN c[Len(src)] + d[i - 1] + k
        ELSE c[Len(src)] + d[Len(src)] + b[i - 1] + k

\* u holds the items of all lines: code, then data, then what is reserved.
Laid(u, src) ==
    /\ Len(u) = Places(src, {"code"})[Len(src)] + Places(src, {"data"})[Len(src)]
                    + Places(src, {"bss"})[Len(src)]
    /\ \A i \in 1 .. Len(src) : Kind(src[i]) \in ItemKinds =>
        \A k \in 1 .. Size(src[i]) :
            Index(src, i, k) \in 1 .. Len(u) /\ u[Index(src, i, k)] = ItemOf(src, i, k)

\* A place of a line's item among those of its kind.
LEMMA PlaceRange ==
    ASSUME NEW src \in Seq(Lines), NEW i \in 1 .. Len(src), NEW k \in 1 .. Size(src[i])
    PROVE  /\ k \in Nat /\ Places(src, {Kind(src[i])})[i - 1] \in Nat
           /\ Places(src, {Kind(src[i])})[i - 1] + k
                \in 1 .. Places(src, {Kind(src[i])})[Len(src)]
<1> DEFINE p == Places(src, {Kind(src[i])})
           n == Len(src)
<1>1. n \in Nat /\ i - 1 \in 0 .. n /\ i \in 0 .. n /\ n \in 0 .. n /\ src[i] \in Lines
  OBVIOUS
<1>2. Size(src[i]) \in Nat
  BY <1>1, KindIs
<1>3. /\ \A j \in 0 .. n : p[j] \in Nat
      /\ p[i] = p[i - 1] + Size(src[i])
      /\ \A j \in 0 .. n : \A m \in 0 .. j : p[m] <= p[j]
  BY PlacesOrder
<1>4. \A m \in 0 .. n : p[m] <= p[n]
  BY <1>1, <1>3
<1>5. p[i] <= p[n] /\ p[i - 1] \in Nat /\ p[n] \in Nat
  BY <1>1, <1>3, <1>4
<1> QED  BY <1>1, <1>2, <1>3, <1>5

LEMMA TotalsOfKinds ==
    ASSUME NEW src \in Seq(Lines)
    PROVE  /\ Places(src, {"code"})[Len(src)] \in Nat
           /\ Places(src, {"data"})[Len(src)] \in Nat
           /\ Places(src, {"bss"})[Len(src)] \in Nat
<1>1. Len(src) \in 0 .. Len(src)
  OBVIOUS
<1> QED  BY <1>1, PlacesOrder

LEMMA LaidOut ==
    ASSUME NEW S, NEW src \in Seq(Lines), NEW t, NEW x, NEW y, NEW z, NEW u,
           Listed(t, src, "code"), Listed(x, src, "data"), Listed(y, src, "bss"),
           AreJoined(z, x, y, S), AreJoined(u, t, z, S)
    PROVE  Laid(u, src)
<1> DEFINE n == Len(src)
           c == Places(src, {"code"})
           d == Places(src, {"data"})
           b == Places(src, {"bss"})
<1>1. /\ Len(t) = c[n] /\ Len(x) = d[n] /\ Len(y) = b[n]
      /\ c[n] \in Nat /\ d[n] \in Nat /\ b[n] \in Nat
  BY TotalsOfKinds DEF Listed
<1>2. DOMAIN src = 1 .. n
  OBVIOUS
<1>3. /\ Len(z) = d[n] + b[n] /\ Len(u) = c[n] + (d[n] + b[n])
      /\ \A k \in 1 .. d[n] : z[k] = x[k]
      /\ \A k \in 1 .. b[n] : z[d[n] + k] = y[k]
      /\ \A k \in 1 .. c[n] : u[k] = t[k]
      /\ \A k \in 1 .. d[n] + b[n] : u[c[n] + k] = z[k]
  BY <1>1 DEF AreJoined
<1> HIDE DEF n, c, d, b
<1>4. ASSUME NEW i \in 1 .. n, Kind(src[i]) \in ItemKinds, NEW k \in 1 .. Size(src[i])
      PROVE  Index(src, i, k) \in 1 .. Len(u) /\ u[Index(src, i, k)] = ItemOf(src, i, k)
  <2>1. CASE Kind(src[i]) = "code"
    <3>1. k \in Nat /\ c[i - 1] \in Nat /\ c[i - 1] + k \in 1 .. c[n]
      BY <2>1, PlaceRange DEF c, n
    <3>2. Index(src, i, k) = c[i - 1] + k
      BY <2>1 DEF Index, c
    <3>3. t[c[i - 1] + k] = ItemOf(src, i, k)
      BY <1>2, <1>4, <2>1 DEF Listed, c, n
    <3>4. c[i - 1] + k \in 1 .. Len(u)
      BY <1>1, <1>3, <3>1
    <3> QED  BY <1>3, <3>1, <3>2, <3>3, <3>4
  <2>2. CASE Kind(src[i]) = "data"
    <3>1. k \in Nat /\ d[i - 1] \in Nat /\ d[i - 1] + k \in 1 .. d[n]
      BY <2>2, PlaceRange DEF d, n
    <3>2. Index(src, i, k) = c[n] + d[i - 1] + k
      BY <2>2 DEF Index, c, d, n
    <3>3. x[d[i - 1] + k] = ItemOf(src, i, k)
      BY <1>2, <1>4, <2>2 DEF Listed, d, n
    <3>4. c[n] + d[i - 1] + k = c[n] + (d[i - 1] + k) /\ d[i - 1] + k \in 1 .. d[n] + b[n]
          /\ c[n] + d[i - 1] + k \in 1 .. Len(u)
      <4> DEFINE p == d[i - 1]
      <4>1. p \in Nat /\ p + k \in 1 .. d[n] /\ k \in Nat
        BY <3>1
      <4> HIDE DEF p
      <4>2. /\ c[n] + p + k = c[n] + (p + k) /\ p + k \in 1 .. d[n] + b[n]
            /\ c[n] + p + k \in 1 .. c[n] + (d[n] + b[n])
        BY <1>1, <4>1
      <4> QED  BY <1>3, <4>2 DEF p
    <3>5. u[Index(src, i, k)] = z[d[i - 1] + k]
      BY <1>3, <3>2, <3>4
    <3> QED  BY <1>3, <3>1, <3>2, <3>3, <3>4, <3>5
  <2>3. CASE Kind(src[i]) = "bss"
    <3>1. k \in Nat /\ b[i - 1] \in Nat /\ b[i - 1] + k \in 1 .. b[n]
      BY <2>3, PlaceRange DEF b, n
    <3>2. Index(src, i, k) = c[n] + d[n] + b[i - 1] + k
      BY <2>3 DEF Index, c, d, b, n
    <3>3. y[b[i - 1] + k] = ItemOf(src, i, k)
      BY <1>2, <1>4, <2>3 DEF Listed, b, n
    <3>4. c[n] + d[n] + b[i - 1] + k = c[n] + (d[n] + (b[i - 1] + k))
          /\ d[n] + (b[i - 1] + k) \in 1 .. d[n] + b[n]
          /\ c[n] + d[n] + b[i - 1] + k \in 1 .. Len(u)
      <4> DEFINE p == b[i - 1]
      <4>1. p \in Nat /\ p + k \in 1 .. b[n] /\ k \in Nat
        BY <3>1
      <4> HIDE DEF p
      <4>2. /\ c[n] + d[n] + p + k = c[n] + (d[n] + (p + k))
            /\ d[n] + (p + k) \in 1 .. d[n] + b[n]
            /\ c[n] + d[n] + p + k \in 1 .. c[n] + (d[n] + b[n])
        <5> DEFINE v == c[n]
                   w == d[n]
                   e == b[n]
        <5>1. v \in Nat /\ w \in Nat /\ e \in Nat /\ p \in Nat /\ k \in Nat
              /\ p + k \in 1 .. e
          BY <1>1, <4>1
        <5> HIDE DEF v, w, e
        <5>2. /\ v + w + p + k = v + (w + (p + k))
              /\ w + (p + k) \in 1 .. w + e
              /\ v + w + p + k \in 1 .. v + (w + e)
          BY <5>1
        <5> QED  BY <5>2 DEF v, w, e
      <4> QED  BY <1>3, <4>2 DEF p
    <3>5. u[Index(src, i, k)] = z[d[n] + (b[i - 1] + k)]
      BY <1>3, <3>2, <3>4
    <3> QED  BY <1>3, <3>1, <3>2, <3>3, <3>4, <3>5
  <2> QED  BY <1>4, <2>1, <2>2, <2>3 DEF ItemKinds
<1>5. Len(u) = c[n] + d[n] + b[n]
  BY <1>1, <1>3
<1> QED  BY <1>4, <1>5 DEF Laid, n, c, d, b

\* Every place of the table is that of an item.
LEMMA LaidCovers ==
    ASSUME NEW src \in Seq(Lines), NEW u, Laid(u, src), NEW j \in 1 .. Len(u)
    PROVE  \E i \in 1 .. Len(src) : \E k \in 1 .. Size(src[i]) :
                Kind(src[i]) \in ItemKinds /\ j = Index(src, i, k)
<1> DEFINE n == Len(src)
           c == Places(src, {"code"})
           d == Places(src, {"data"})
           b == Places(src, {"bss"})
           Within(kind, p) ==
                p >= 0 /\ p < Places(src, {kind})[n] =>
                    \E i \in 1 .. n : \E k \in 1 .. Size(src[i]) :
                        Kind(src[i]) = kind /\ p + 1 = Places(src, {kind})[i - 1] + k
<1>1. c[n] \in Nat /\ d[n] \in Nat /\ b[n] \in Nat /\ Len(u) = c[n] + d[n] + b[n]
  BY TotalsOfKinds DEF Laid
<1>2. \A kind : \A p \in Int : Within(kind, p)
  <2> SUFFICES ASSUME NEW kind, NEW p \in Int, p >= 0, p < Places(src, {kind})[n]
      PROVE  \E i \in 1 .. n : \E k \in 1 .. Size(src[i]) :
                Kind(src[i]) = kind /\ p + 1 = Places(src, {kind})[i - 1] + k
    OBVIOUS
  <2>1. p \in Nat
    OBVIOUS
  <2>2. PICK i \in 1 .. n : Kind(src[i]) \in {kind}
                            /\ p - Places(src, {kind})[i - 1] \in 0 .. Size(src[i]) - 1
    BY <2>1, PlacesOrder
  <2> DEFINE q == Places(src, {kind})[i - 1]
             k == p - q + 1
  <2>3. q \in Nat
    <3>1. i - 1 \in 0 .. n
      OBVIOUS
    <3> QED  BY <3>1, PlacesOrder
  <2>4. src[i] \in Lines
    OBVIOUS
  <2>5. Size(src[i]) \in Nat
    BY <2>4, KindIs
  <2>6. p - q \in 0 .. Size(src[i]) - 1
    BY <2>2
  <2> HIDE DEF q
  <2>7. k \in 1 .. Size(src[i]) /\ p + 1 = q + k
    BY <2>1, <2>3, <2>5, <2>6
  <2> HIDE DEF k
  <2> QED  BY <2>2, <2>7 DEF q
<1>3. j \in Nat /\ j >= 1 /\ j <= c[n] + d[n] + b[n]
  BY <1>1
<1> HIDE DEF Within
<1>4. CASE j <= c[n]
  <2>1. Within("code", j - 1) /\ j - 1 >= 0 /\ j - 1 < c[n] /\ (j - 1) + 1 = j
    BY <1>1, <1>2, <1>3, <1>4
  <2>2. PICK i \in 1 .. n : \E k \in 1 .. Size(src[i]) :
                Kind(src[i]) = "code" /\ j = c[i - 1] + k
    BY <2>1 DEF Within
  <2> QED  BY <2>2 DEF Index, ItemKinds
<1>5. CASE j > c[n] /\ j <= c[n] + d[n]
  <2> DEFINE p == j - c[n] - 1
  <2>1. p \in Int /\ p >= 0 /\ p < d[n] /\ j = c[n] + (p + 1)
    BY <1>1, <1>3, <1>5
  <2> HIDE DEF p
  <2>2. Within("data", p)
    BY <1>2, <2>1
  <2>3. PICK i \in 1 .. n : \E k \in 1 .. Size(src[i]) :
                Kind(src[i]) = "data" /\ p + 1 = d[i - 1] + k
    BY <2>1, <2>2 DEF Within
  <2>4. d[i - 1] \in Nat /\ \A k \in 1 .. Size(src[i]) : k \in Int
    <3>1. i - 1 \in 0 .. n
      OBVIOUS
    <3> QED  BY <3>1, PlacesOrder
  <2>5. PICK k \in 1 .. Size(src[i]) : Kind(src[i]) = "data" /\ p + 1 = d[i - 1] + k
    BY <2>3
  <2>6. j = c[n] + d[i - 1] + k
    BY <1>1, <2>1, <2>4, <2>5
  <2>7. j = Index(src, i, k)
    BY <2>5, <2>6 DEF Index
  <2> QED  BY <2>5, <2>7 DEF ItemKinds
<1>6. CASE j > c[n] + d[n]
  <2> DEFINE p == j - c[n] - d[n] - 1
  <2>1. p \in Int /\ p >= 0 /\ p < b[n] /\ j = c[n] + d[n] + (p + 1)
    BY <1>1, <1>3, <1>6
  <2> HIDE DEF p
  <2>2. Within("bss", p)
    BY <1>2, <2>1
  <2>3. PICK i \in 1 .. n : \E k \in 1 .. Size(src[i]) :
                Kind(src[i]) = "bss" /\ p + 1 = b[i - 1] + k
    BY <2>1, <2>2 DEF Within
  <2>4. b[i - 1] \in Nat /\ \A k \in 1 .. Size(src[i]) : k \in Int
    <3>1. i - 1 \in 0 .. n
      OBVIOUS
    <3> QED  BY <3>1, PlacesOrder
  <2>5. PICK k \in 1 .. Size(src[i]) : Kind(src[i]) = "bss" /\ p + 1 = b[i - 1] + k
    BY <2>3
  <2>6. j = c[n] + d[n] + b[i - 1] + k
    BY <1>1, <2>1, <2>4, <2>5
  <2>7. j = Index(src, i, k)
    BY <2>5, <2>6 DEF Index
  <2> QED  BY <2>5, <2>7 DEF ItemKinds
<1> QED  BY <1>1, <1>3, <1>4, <1>5, <1>6

-----------------------------------------------------------------------------
\* Placed data behind the code, line by line as in Layout.

\* A placed list behind c words from a on.
RoleBehind(role, c, m) == [j \in 0 .. c + m |-> IF j <= c THEN "single" ELSE role[j - c]]
PtrBehind(ptr, a, c, m) ==
    [j \in 1 .. c + m + 1 |-> IF j <= c THEN a + 2 * (j - 1) ELSE ptr[j - c]]

LEMMA PlacingJoined ==
    ASSUME NEW S, NEW t \in Seq(S), NEW list \in Seq(S), NEW u, AreJoined(u, t, list, S),
           NEW a \in Nat, NoBytes(t, 1, Len(t)), NEW role, NEW ptr,
           Placing(list, a + 2 * Len(t), role, ptr)
    PROVE  Placing(u, a, RoleBehind(role, Len(t), Len(list)),
                   PtrBehind(ptr, a, Len(t), Len(list)))
<1> DEFINE c == Len(t)
           m == Len(list)
           R == RoleBehind(role, c, m)
           Q == PtrBehind(ptr, a, c, m)
<1>1. c \in Nat /\ m \in Nat
  OBVIOUS
<1>2. /\ Len(u) = c + m
      /\ \A k \in 1 .. c : ~u[k].byte
      /\ \A k \in 1 .. m : u[c + k] = list[k]
  BY DEF AreJoined, NoBytes
<1>3. /\ \A i \in 0 .. m : role[i] \in Roles
      /\ role[0] = "single"
      /\ \A i \in 1 .. m :
            role[i] = IF role[i - 1] = "first" THEN "second"
                      ELSE IF list[i].byte /\ i < m /\ list[i + 1].byte
                           THEN "first" ELSE "single"
      /\ \A i \in 1 .. m :
            role[i] = "first" => i < m /\ list[i].byte /\ list[i + 1].byte
      /\ \A i \in 1 .. m + 1 : ptr[i] \in Nat
      /\ ptr[1] = a + 2 * c
      /\ \A i \in 1 .. m : ptr[i + 1] = ptr[i] + IF role[i] = "single" THEN 2 ELSE 1
  BY DEF Placing
<1>4. /\ \A j \in 0 .. c + m : R[j] = IF j <= c THEN "single" ELSE role[j - c]
      /\ R = [j \in 0 .. c + m |-> R[j]]
  BY DEF RoleBehind
<1>5. /\ \A j \in 1 .. c + m + 1 : Q[j] = IF j <= c THEN a + 2 * (j - 1) ELSE ptr[j - c]
      /\ Q = [j \in 1 .. c + m + 1 |-> Q[j]]
  BY DEF PtrBehind
<1> HIDE DEF c, m, R, Q
<1>6. /\ R \in [0 .. c + m -> Roles] /\ R[0] = "single"
  <2>1. \A j \in 0 .. c + m : R[j] \in Roles
    <3> SUFFICES ASSUME NEW j \in 0 .. c + m PROVE R[j] \in Roles
      OBVIOUS
    <3>1. CASE j <= c
      BY <1>4, <3>1 DEF Roles
    <3>2. CASE ~(j <= c)
      <4>1. j - c \in 0 .. m
        BY <1>1, <3>2
      <4>2. R[j] = role[j - c]
        BY <1>4, <3>2
      <4> QED  BY <1>3, <4>1, <4>2
    <3> QED  BY <3>1, <3>2
  <2>2. 0 \in 0 .. c + m /\ 0 <= c
    BY <1>1
  <2> QED  BY <1>4, <2>1, <2>2
<1>7. Q \in [1 .. c + m + 1 -> Nat] /\ Q[1] = a
  <2>1. \A j \in 1 .. c + m + 1 : Q[j] \in Nat
    <3> SUFFICES ASSUME NEW j \in 1 .. c + m + 1 PROVE Q[j] \in Nat
      OBVIOUS
    <3>1. CASE j <= c
      <4>1. a + 2 * (j - 1) \in Nat
        BY <1>1
      <4> QED  BY <1>5, <3>1, <4>1
    <3>2. CASE ~(j <= c)
      <4>1. j - c \in 1 .. m + 1
        BY <1>1, <3>2
      <4> QED  BY <1>3, <1>5, <3>2, <4>1
    <3> QED  BY <3>1, <3>2
  <2>2. 1 \in 1 .. c + m + 1
    BY <1>1
  <2>3. CASE c = 0
    <3>1. Q[1] = ptr[1 - c] /\ 1 - c = 1 /\ ptr[1] = a
      BY <1>3, <1>5, <2>2, <2>3
    <3> QED  BY <1>5, <2>1, <3>1
  <2>4. CASE c # 0
    <3>1. 1 <= c /\ a + 2 * (1 - 1) = a
      BY <1>1, <2>4
    <3> QED  BY <1>5, <2>1, <2>2, <3>1
  <2> QED  BY <2>3, <2>4
<1>8. ASSUME NEW i \in 1 .. c + m
      PROVE  /\ R[i] = IF R[i - 1] = "first" THEN "second"
                       ELSE IF u[i].byte /\ i < c + m /\ u[i + 1].byte
                            THEN "first" ELSE "single"
             /\ R[i] = "first" => i < c + m /\ u[i].byte /\ u[i + 1].byte
             /\ Q[i + 1] = Q[i] + IF R[i] = "single" THEN 2 ELSE 1
  <2>1. CASE i <= c
    <3>1. /\ i \in 0 .. c + m /\ i - 1 \in 0 .. c + m /\ i - 1 <= c /\ i \in 1 .. c
          /\ i \in 1 .. c + m + 1 /\ i + 1 \in 1 .. c + m + 1
      BY <1>1, <2>1
    <3>2. R[i] = "single" /\ R[i - 1] = "single" /\ ~u[i].byte
      BY <1>2, <1>4, <2>1, <3>1
    <3>3. Q[i] = a + 2 * (i - 1)
      BY <1>5, <2>1, <3>1
    <3>4. Q[i + 1] = a + 2 * i
      <4>1. CASE i < c
        <5>1. i + 1 <= c /\ (i + 1) - 1 = i
          BY <1>1, <4>1
        <5> QED  BY <1>5, <3>1, <5>1
      <4>2. CASE i = c
        <5>1. ~(i + 1 <= c) /\ (i + 1) - c = 1
          BY <1>1, <4>2
        <5> QED  BY <1>3, <1>5, <3>1, <4>2, <5>1
      <4> QED  BY <1>1, <2>1, <4>1, <4>2
    <3>5. a + 2 * i = (a + 2 * (i - 1)) + 2
      OBVIOUS
    <3> QED  BY <3>2, <3>3, <3>4, <3>5
  <2>2. CASE i > c
    <3> DEFINE k == i - c
    <3>1. /\ k \in 1 .. m /\ i = c + k /\ i \in 0 .. c + m /\ i - 1 \in 0 .. c + m
          /\ i \in 1 .. c + m + 1 /\ i + 1 \in 1 .. c + m + 1 /\ ~(i <= c) /\ ~(i + 1 <= c)
          /\ (i + 1) - c = k + 1 /\ (i - 1) - c = k - 1 /\ (i < c + m <=> k < m)
      BY <1>1, <2>2
    <3>2. R[i] = role[k]
      BY <1>4, <3>1
    <3>3. R[i - 1] = role[k - 1]
      <4>1. CASE k = 1
        <5>1. i - 1 <= c /\ k - 1 = 0
          BY <1>1, <3>1, <4>1
        <5> QED  BY <1>3, <1>4, <3>1, <5>1
      <4>2. CASE k # 1
        <5>1. ~(i - 1 <= c)
          BY <1>1, <3>1, <4>2
        <5> QED  BY <1>4, <3>1, <5>1
      <4> QED  BY <4>1, <4>2
    <3>4. Q[i] = ptr[k] /\ Q[i + 1] = ptr[k + 1]
      BY <1>5, <3>1
    <3>5. u[i] = list[k] /\ (k < m => u[i + 1] = list[k + 1])
      <4>1. k < m => k + 1 \in 1 .. m /\ i + 1 = c + (k + 1)
        BY <1>1, <3>1
      <4> QED  BY <1>2, <3>1, <4>1
    <3>6. /\ role[k] = IF role[k - 1] = "first" THEN "second"
                       ELSE IF list[k].byte /\ k < m /\ list[k + 1].byte
                            THEN "first" ELSE "single"
          /\ role[k] = "first" => k < m /\ list[k].byte /\ list[k + 1].byte
          /\ ptr[k + 1] = ptr[k] + IF role[k] = "single" THEN 2 ELSE 1
      BY <1>3, <3>1
    <3> HIDE DEF k
    <3> QED  BY <3>1, <3>2, <3>3, <3>4, <3>5, <3>6
  <2> QED  BY <1>1, <2>1, <2>2
<1> HIDE DEF Roles
<1>9. Placing(u, a, R, Q)
  BY <1>2, <1>6, <1>7, <1>8 DEF Placing
<1> QED  BY <1>9 DEF R, Q, c, m

\* The role of an item that is no byte, and what its neighbours say of a byte's.
LEMMA PlacingRoles ==
    ASSUME NEW S, NEW list \in Seq(S), NEW a, NEW role, NEW ptr,
           Placing(list, a, role, ptr), NEW i \in 1 .. Len(list)
    PROVE  /\ role[i] = "single" \/ role[i] = "first" \/ role[i] = "second"
           /\ role[i - 1] = "single" \/ role[i - 1] = "first" \/ role[i - 1] = "second"
           /\ (role[i] = "second") <=> (role[i - 1] = "first")
           /\ role[i] = "second" => i > 1 /\ i - 1 \in 1 .. Len(list) /\ list[i].byte
                                    /\ list[i - 1].byte
           /\ role[i] = "first" => i < Len(list) /\ i + 1 \in 1 .. Len(list)
                                   /\ list[i].byte /\ list[i + 1].byte
                                   /\ role[i + 1] = "second"
           /\ ~list[i].byte => role[i] = "single"
           /\ list[i].byte /\ i < Len(list) /\ list[i + 1].byte => role[i] # "single"
<1> DEFINE n == Len(list)
<1>1. n \in Nat /\ i \in 1 .. n /\ i - 1 \in 0 .. n /\ i \in 0 .. n
      /\ (i < n => i + 1 \in 1 .. n /\ (i + 1) - 1 = i)
      /\ (i # 1 => i - 1 \in 1 .. n /\ i > 1) /\ (i - 1) + 1 = i
  OBVIOUS
<1>2. /\ \A j \in 0 .. n : role[j] = "single" \/ role[j] = "first" \/ role[j] = "second"
      /\ role[0] = "single"
      /\ \A j \in 1 .. n :
            role[j] = IF role[j - 1] = "first" THEN "second"
                      ELSE IF list[j].byte /\ j < n /\ list[j + 1].byte
                           THEN "first" ELSE "single"
      /\ \A j \in 1 .. n :
            role[j] = "first" => j < n /\ list[j].byte /\ list[j + 1].byte
  BY DEF Placing, Roles
<1> HIDE DEF n
<1>3. (role[i] = "second") <=> (role[i - 1] = "first")
  BY <1>1, <1>2
<1>4. role[i] = "second" => i > 1 /\ i - 1 \in 1 .. n /\ list[i].byte /\ list[i - 1].byte
  <2> SUFFICES ASSUME role[i] = "second"
      PROVE  i > 1 /\ i - 1 \in 1 .. n /\ list[i].byte /\ list[i - 1].byte
    OBVIOUS
  <2>1. role[i - 1] = "first"
    BY <1>3
  <2>2. i # 1
    BY <1>2, <2>1
  <2>3. i - 1 < n /\ list[i - 1].byte /\ list[(i - 1) + 1].byte
    BY <1>1, <1>2, <2>1, <2>2
  <2> QED  BY <1>1, <2>2, <2>3
<1>5. role[i] = "first" => i < n /\ i + 1 \in 1 .. n /\ list[i].byte /\ list[i + 1].byte
                           /\ role[i + 1] = "second"
  BY <1>1, <1>2
<1>6. ~list[i].byte => role[i] = "single"
  BY <1>1, <1>2, <1>4
<1>7. list[i].byte /\ i < n /\ list[i + 1].byte => role[i] # "single"
  BY <1>1, <1>2
<1> QED  BY <1>1, <1>2, <1>3, <1>4, <1>5, <1>6, <1>7 DEF n

\* A byte on its own fills a word: the end of the first q items is that far behind it.
Gap(list, role, q) == IF q >= 1 /\ role[q] = "single" /\ list[q].byte THEN 1 ELSE 0

LEMMA Evened ==
    ASSUME NEW S, NEW list \in Seq(S), NEW a \in Nat, a % 2 = 0, NEW role, NEW ptr,
           Placing(list, a, role, ptr), NEW q \in 0 .. Len(list), role[q] # "first"
    PROVE  /\ ptr[q + 1] \in Nat /\ ptr[q + 1] - Gap(list, role, q) \in Nat
           /\ L!Aligned(ptr[q + 1] - Gap(list, role, q)) = ptr[q + 1]
<1> DEFINE w == ptr[q + 1]
           g == Gap(list, role, q)
<1>1. w % 2 = 0
  BY PlacingParity
<1>2. w \in Nat
  <2>1. q + 1 \in 1 .. Len(list) + 1
    OBVIOUS
  <2> QED  BY <2>1 DEF Placing
<1>3. g = 0 \/ (g = 1 /\ w >= 2)
  <2> SUFFICES ASSUME g # 0 PROVE g = 1 /\ w >= 2
    OBVIOUS
  <2>1. q >= 1 /\ role[q] = "single" /\ g = 1
    BY DEF Gap
  <2>2. q \in 1 .. Len(list) /\ q \in 1 .. Len(list) + 1
    BY <2>1
  <2>3. ptr[q] \in Nat /\ ptr[q + 1] = ptr[q] + 2
    BY <2>1, <2>2 DEF Placing
  <2> QED  BY <2>1, <2>3
<1> HIDE DEF w, g
<1>4. w - g \in Nat /\ L!Aligned(w - g) = w
  BY <1>1, <1>2, <1>3 DEF L!Aligned
<1> QED  BY <1>2, <1>4 DEF w, g

LEMMA WordBehind ==
    ASSUME NEW S, NEW list \in Seq(S), NEW a \in Nat, a % 2 = 0, NEW role, NEW ptr,
           Placing(list, a, role, ptr), NEW q \in Nat, q + 1 <= Len(list),
           ~list[q + 1].byte
    PROVE  /\ ptr[q + 1] \in Nat
           /\ L!Aligned(ptr[q + 1] - Gap(list, role, q)) = ptr[q + 1]
           /\ ptr[(q + 1) + 1] = ptr[q + 1] + 2
           /\ Gap(list, role, q + 1) = 0
<1>1. q \in 0 .. Len(list) /\ q + 1 \in 1 .. Len(list) /\ (q + 1) - 1 = q
  OBVIOUS
<1>2. role[q + 1] = "single" /\ role[q] # "first"
  <2>1. role[q + 1] = "single"
    BY <1>1, PlacingRoles
  <2>2. (role[q + 1] = "second") <=> (role[(q + 1) - 1] = "first")
    BY <1>1, PlacingRoles
  <2> QED  BY <1>1, <2>1, <2>2
<1>3. ptr[(q + 1) + 1] = ptr[q + 1] + 2
  BY <1>1, <1>2 DEF Placing
<1>4. Gap(list, role, q + 1) = 0
  BY DEF Gap
<1> QED  BY <1>1, <1>2, <1>3, <1>4, Evened

LEMMA BytesBehind ==
    ASSUME NEW S, NEW list \in Seq(S), NEW a \in Nat, NEW role, NEW ptr,
           Placing(list, a, role, ptr), NEW q \in Nat, NEW m \in Nat, m >= 1,
           q + m <= Len(list), Bytes(list, q + 1, m)
    PROVE  /\ Gap(list, role, q) = 0 /\ ptr[q + 1] \in Nat
           /\ \A k \in 1 .. m : ptr[q + k] = ptr[q + 1] + (k - 1)
           /\ ptr[(q + m) + 1] - Gap(list, role, q + m) = ptr[q + 1] + m
<1> DEFINE n == Len(list)
<1>1. n \in Nat /\ q + 1 \in 1 .. n /\ q + m \in 1 .. n /\ q + m <= n
  OBVIOUS
<1>2. list[q + 1].byte /\ list[q + m].byte
  <2>1. /\ 0 \in 0 .. m - 1 /\ m - 1 \in 0 .. m - 1
        /\ (q + 1) + 0 = q + 1 /\ (q + 1) + (m - 1) = q + m
    OBVIOUS
  <2>2. list[(q + 1) + 0].byte /\ list[(q + 1) + (m - 1)].byte
    BY <2>1 DEF Bytes
  <2> QED  BY <2>1, <2>2
<1>3. Gap(list, role, q) = 0
  <2>1. CASE q >= 1
    <3>1. q \in 1 .. n /\ q < n
      BY <1>1, <2>1
    <3>2. list[q].byte => role[q] # "single"
      BY <1>2, <3>1, PlacingRoles
    <3> QED  BY <3>2 DEF Gap
  <2> QED  BY <2>1 DEF Gap
<1>4. /\ ptr[q + 1] \in Nat
      /\ ptr[(q + m) + 1] = ptr[q + m] + IF role[q + m] = "single" THEN 2 ELSE 1
  <2>1. q + 1 \in 1 .. n + 1
    BY <1>1
  <2> QED  BY <1>1, <2>1 DEF Placing
<1>5. \A k \in 1 .. m : ptr[q + k] = ptr[q + 1] + (k - 1)
  <2> DEFINE q1 == q + 1
  <2>1. /\ q1 \in Nat /\ q1 >= 1 /\ q1 + m - 1 <= n
        /\ \A k \in 0 .. m - 1 : q1 + k = q + (k + 1) /\ k + 1 \in 1 .. m
        /\ \A k \in 1 .. m : k - 1 \in 0 .. m - 1 /\ q1 + (k - 1) = q + k
    BY <1>1
  <2>2. Bytes(list, q1, m)
    OBVIOUS
  <2> HIDE DEF q1
  <2>3. \A k \in 0 .. m - 1 : ptr[q1 + k] = ptr[q1] + k
    <3>1. q1 + m - 1 <= Len(list)
      BY <2>1
    <3> QED  BY <2>1, <2>2, <3>1, BytesRun
  <2> QED  BY <2>1, <2>3 DEF q1
<1>6. ptr[q + m] = ptr[q + 1] + (m - 1)
  BY <1>5
<1>7. Gap(list, role, q + m) = IF role[q + m] = "single" THEN 1 ELSE 0
  BY <1>1, <1>2 DEF Gap
<1> DEFINE w == ptr[q + 1]
           v == ptr[(q + m) + 1]
           g == Gap(list, role, q + m)
<1>8. v = (w + (m - 1)) + (g + 1) /\ w \in Nat /\ (g = 0 \/ g = 1)
  BY <1>4, <1>6, <1>7
<1> HIDE DEF w, v, g
<1>9. v - g = w + m
  BY <1>8
<1> QED  BY <1>3, <1>4, <1>5, <1>9 DEF w, v, g

LEMMA WordsFirst ==
    ASSUME NEW S, NEW list \in Seq(S), NEW a \in Nat, NEW role, NEW ptr,
           Placing(list, a, role, ptr), NEW c \in 0 .. Len(list),
           NoBytes(list, 1, c)
    PROVE  \A k \in 0 .. c : ptr[k + 1] = a + 2 * k
<1> DEFINE P == {k \in 0 .. c : ptr[k + 1] = a + 2 * k}
<1>1. 0 \in P
  <2>1. 0 \in 0 .. c /\ 0 + 1 = 1 /\ a + 2 * 0 = a
    OBVIOUS
  <2>2. ptr[1] = a
    BY DEF Placing
  <2> QED  BY <2>1, <2>2
<1>2. \A k \in 0 .. c - 1 : k \in P => k + 1 \in P
  <2> SUFFICES ASSUME NEW k \in 0 .. c - 1, k \in P PROVE k + 1 \in P
    OBVIOUS
  <2>1. k + 1 \in 1 .. Len(list) /\ k + 1 \in 1 .. c /\ k + 1 \in 0 .. c
    OBVIOUS
  <2>2. role[k + 1] = "single"
    BY <2>1, PlacingRoles DEF NoBytes
  <2>3. ptr[(k + 1) + 1] = ptr[k + 1] + 2
    BY <2>1, <2>2 DEF Placing
  <2>4. ptr[k + 1] = a + 2 * k
    OBVIOUS
  <2>5. ptr[(k + 1) + 1] = a + 2 * (k + 1)
    BY <2>3, <2>4
  <2> QED  BY <2>1, <2>5
<1>3. \A k \in 0 .. c : k \in P
  <2> HIDE DEF P
  <2>1. c \in Nat
    OBVIOUS
  <2> QED  BY <1>1, <1>2, <2>1, Climb
<1> QED  BY <1>3

LEMMA IndexRange ==
    ASSUME NEW src \in Seq(Lines), NEW i \in 1 .. Len(src), NEW k \in 1 .. Size(src[i])
    PROVE  LET c == Places(src, {"code"})[Len(src)]
               d == Places(src, {"data"})[Len(src)]
           IN  /\ k \in Nat
               /\ Kind(src[i]) = "code" => Index(src, i, k) \in 1 .. c
               /\ Kind(src[i]) = "data" => Index(src, i, k) \in c + 1 .. c + d
               /\ Kind(src[i]) = "bss" => Index(src, i, k) > c + d
<1> DEFINE n == Len(src)
           p == Places(src, {Kind(src[i])})
           c == Places(src, {"code"})[n]
           d == Places(src, {"data"})[n]
<1>1. k \in Nat /\ p[i - 1] \in Nat /\ p[i - 1] + k \in 1 .. p[n] /\ c \in Nat /\ d \in Nat
      /\ p[n] \in Nat
  <2>1. c \in Nat /\ d \in Nat
    BY TotalsOfKinds
  <2>2. n \in 0 .. n
    OBVIOUS
  <2>3. p[n] \in Nat
    BY <2>2, PlacesOrder
  <2> QED  BY <2>1, <2>3, PlaceRange
<1> HIDE DEF n, c, d
<1> DEFINE q == p[i - 1]
           m == p[n]
<1>2. q \in Nat /\ q + k \in 1 .. m /\ m \in Nat
  BY <1>1
<1>3. CASE Kind(src[i]) = "code"
  <2>1. Index(src, i, k) = q + k /\ m = c
    BY <1>3 DEF Index, c, n
  <2> HIDE DEF p, q, m
  <2> QED  BY <1>1, <1>2, <1>3, <2>1 DEF c, d, n
<1>4. CASE Kind(src[i]) = "data"
  <2>1. Index(src, i, k) = c + q + k /\ m = d
    BY <1>4 DEF Index, c, d, n
  <2> HIDE DEF p, q, m
  <2>2. c + q + k \in c + 1 .. c + d
    BY <1>1, <1>2, <2>1
  <2> QED  BY <1>1, <1>4, <2>1, <2>2 DEF c, d, n
<1>5. CASE Kind(src[i]) = "bss"
  <2>1. Index(src, i, k) = c + d + q + k
    BY <1>5 DEF Index, c, d, n
  <2> HIDE DEF p, q, m
  <2>2. c + d + q + k > c + d
    BY <1>1, <1>2
  <2> QED  BY <1>1, <1>5, <2>1, <2>2 DEF c, d, n
<1> QED  BY <1>1, <1>3, <1>4, <1>5 DEF c, d, n

\* Bytes are items of data lines other than defw.
LEMMA LaidBytes ==
    ASSUME NEW src \in Seq(Lines), NEW u, Laid(u, src)
    PROVE  /\ \A i \in 1 .. Len(src) : Kind(src[i]) \in ItemKinds =>
                \A k \in 1 .. Size(src[i]) :
                    u[Index(src, i, k)].byte <=> Kind(src[i]) = "data" /\ src[i].op # "defw"
           /\ NoBytes(u, 1, Places(src, {"code"})[Len(src)])
           /\ NoBytes(u, Places(src, {"code"})[Len(src)] + Places(src, {"data"})[Len(src)] + 1,
                      Len(u))
<1> DEFINE n == Len(src)
           c == Places(src, {"code"})[n]
           d == Places(src, {"data"})[n]
           b == Places(src, {"bss"})[n]
<1>1. c \in Nat /\ d \in Nat /\ b \in Nat /\ Len(u) = c + d + b
  BY TotalsOfKinds DEF Laid
<1>2. ASSUME NEW i \in 1 .. n, Kind(src[i]) \in ItemKinds, NEW k \in 1 .. Size(src[i])
      PROVE  u[Index(src, i, k)].byte <=> Kind(src[i]) = "data" /\ src[i].op # "defw"
  <2>1. src[i] \in Lines
    OBVIOUS
  <2>2. u[Index(src, i, k)] = ItemOf(src, i, k)
    BY <1>2 DEF Laid
  <2>3. ItemOf(src, i, k) = [Items(src[i])[k] EXCEPT !.nr = Numbers(src)[i - 1] + k - 1]
    BY <1>2 DEF ItemOf, ItemKinds
  <2>4. Items(src[i])[k].byte <=> Kind(src[i]) = "data" /\ src[i].op # "defw"
    BY <1>2, <2>1, ItemMarks
  <2>5. Items(src[i])[k] \in Item
    <3>1. Items(src[i]) \in Seq(Fresh) /\ Size(src[i]) = Len(Items(src[i]))
      BY <1>2, <2>1, KindIs
    <3>2. Items(src[i])[k] \in Fresh
      BY <3>1
    <3> QED  BY <3>2 DEF Fresh
  <2>6. ItemOf(src, i, k).byte = Items(src[i])[k].byte
    BY <2>3, <2>5 DEF Item
  <2> QED  BY <2>2, <2>4, <2>6
<1>3. ASSUME NEW j \in 1 .. Len(u), j <= c \/ j > c + d PROVE ~u[j].byte
  <2>1. PICK i \in 1 .. n : \E k \in 1 .. Size(src[i]) :
                Kind(src[i]) \in ItemKinds /\ j = Index(src, i, k)
    BY LaidCovers
  <2>2. PICK k \in 1 .. Size(src[i]) : Kind(src[i]) \in ItemKinds /\ j = Index(src, i, k)
    BY <2>1
  <2>3. Kind(src[i]) = "data" => Index(src, i, k) \in c + 1 .. c + d
    BY IndexRange
  <2>4. j \in Int
    OBVIOUS
  <2> HIDE DEF c, d
  <2>5. Kind(src[i]) # "data"
    BY <1>1, <1>3, <2>2, <2>3, <2>4
  <2> QED  BY <1>2, <2>2, <2>5
<1> HIDE DEF c, d, b
<1>4. \A j \in 1 .. c : ~u[j].byte
  <2> SUFFICES ASSUME NEW j \in 1 .. c PROVE ~u[j].byte
    OBVIOUS
  <2>1. j \in 1 .. Len(u) /\ j <= c
    BY <1>1
  <2> QED  BY <1>3, <2>1
<1>5. \A j \in c + d + 1 .. Len(u) : ~u[j].byte
  <2> SUFFICES ASSUME NEW j \in c + d + 1 .. Len(u) PROVE ~u[j].byte
    OBVIOUS
  <2>1. j \in 1 .. Len(u) /\ j > c + d
    BY <1>1
  <2> QED  BY <1>3, <2>1
<1> QED  BY <1>2, <1>4, <1>5 DEF NoBytes, n, c, d

\* q items are code or data of the first i lines.
Ended(src, i, q) ==
    q = Places(src, {"code"})[Len(src)] + Places(src, {"data"})[i]

Meets(src, e, u, role, ptr, i, q) ==
    Ended(src, i, q) /\ e[i] = ptr[q + 1] - Gap(u, role, q)

\* The end of the data of a line is where Layout says, if that of the line before is.
LEMMA LinePlaced ==
    ASSUME NEW src \in Seq(Lines), NEW S, NEW u \in Seq(S), Laid(u, src),
           NEW a \in Nat, a % 2 = 0, NEW role, NEW ptr, Placing(u, a, role, ptr),
           NEW e, Ends(src, e), NEW i \in 1 .. Len(src),
           NEW q, NEW r, Meets(src, e, u, role, ptr, i - 1, q), Ended(src, i, r)
    PROVE  /\ Meets(src, e, u, role, ptr, i, r)
           /\ Kind(src[i]) = "data" => \A k \in 1 .. Size(src[i]) :
                ptr[Index(src, i, k)] = L!DataStart(src[i], e[i - 1]) + (k - 1)
<1> DEFINE l == src[i]
           x == e[i - 1]
           n == Len(src)
           c == Places(src, {"code"})[n]
           d == Places(src, {"data"})
<1>1. /\ l \in Lines /\ n \in Nat /\ i - 1 \in 0 .. n /\ i \in 0 .. n
      /\ n \in 0 .. n
  OBVIOUS
<1>0. Ended(src, i - 1, q) /\ x = ptr[q + 1] - Gap(u, role, q)
  BY DEF Meets
<1>2. /\ x \in Nat /\ e[i] = L!DataStart(l, x) + L!DataSize(l)
  BY <1>1 DEF Ends
<1>3. /\ c \in Nat /\ d[i - 1] \in Nat /\ d[i] \in Nat /\ Size(l) \in Nat /\ q \in Nat
      /\ d[i] <= d[n] /\ d[n] \in Nat
  <2>1. \A j \in 0 .. n : d[j] \in Nat
    BY PlacesOrder
  <2>2. d[i - 1] \in Nat /\ d[i] \in Nat /\ d[n] \in Nat
    BY <1>1, <2>1
  <2>3. \A j \in 0 .. n : \A z \in 0 .. j : d[z] <= d[j]
    BY PlacesOrder
  <2>4. d[i] <= d[n]
    BY <1>1, <2>3
  <2>5. c \in Nat
    BY TotalsOfKinds
  <2> HIDE DEF c, d
  <2>6. q = c + d[i - 1]
    BY <1>0 DEF Ended, c, d
  <2>7. Size(l) \in Nat
    BY <1>1, KindIs
  <2> QED  BY <2>2, <2>4, <2>5, <2>6, <2>7
<1>4. CASE Kind(l) # "data"
  <2>1. d[i] = d[i - 1] + 0
    <3>1. d[i] = d[i - 1] + IF Kind(l) \in {"data"} THEN Size(l) ELSE 0
      BY PlacesAre
    <3> QED  BY <1>4, <3>1
  <2>2. r = q
    <3> HIDE DEF c, d
    <3>1. r = c + d[i] /\ q = c + d[i - 1]
      BY <1>0 DEF Ended, c, d
    <3> QED  BY <1>3, <2>1, <3>1
  <2>3. L!DataSize(l) = 0
    BY <1>1, <1>4, SizesAgree
  <2>4. L!DataStart(l, x) = x
    <3>1. l.op # "defw"
      BY <1>4 DEF Kind, Directives, MemOps
    <3> QED  BY <3>1 DEF L!DataStart
  <2>5. e[i] = x
    BY <1>2, <2>3, <2>4
  <2> QED  BY <1>0, <1>4, <2>2, <2>5 DEF Meets
<1>5. CASE Kind(l) = "data"
  <2>1. d[i] = d[i - 1] + Size(l) /\ Size(l) >= 1
    <3>1. d[i] = d[i - 1] + IF Kind(l) \in {"data"} THEN Size(l) ELSE 0
      BY PlacesAre
    <3> QED  BY <1>1, <1>5, <3>1, SizesAgree
  <2>2. r = q + Size(l) /\ r <= Len(u) /\ q + 1 <= Len(u)
    <3> HIDE DEF c, d
    <3>1. r = c + d[i] /\ q = c + d[i - 1]
      BY <1>0 DEF Ended, c, d
    <3>2. Len(u) = c + d[n] + Places(src, {"bss"})[n] /\ Places(src, {"bss"})[n] \in Nat
      BY TotalsOfKinds DEF Laid, c, d
    <3>3. r = q + Size(l)
      BY <1>3, <2>1, <3>1
    <3>4. r <= Len(u)
      BY <1>3, <3>1, <3>2
    <3>5. Size(l) >= 1
      BY <2>1
    <3>6. q + 1 <= q + Size(l)
      BY <1>3, <3>5
    <3> QED  BY <1>3, <3>2, <3>3, <3>4, <3>6
  <2>3. \A k \in 1 .. Size(l) : Index(src, i, k) = q + k
    BY <1>0, <1>5 DEF Index, Ended
  <2>4. \A k \in 1 .. Size(l) : u[q + k].byte <=> l.op # "defw"
    BY <1>5, <2>3, LaidBytes DEF ItemKinds
  <2> HIDE DEF c, d, n
  <2>5. CASE l.op = "defw"
    <3>1. Size(l) = 1 /\ L!DataSize(l) = 2
      BY <1>1, <1>5, <2>5, SizesAgree
    <3>2. ~u[q + 1].byte
      BY <2>4, <2>5, <3>1
    <3>3. /\ ptr[q + 1] \in Nat
          /\ L!Aligned(ptr[q + 1] - Gap(u, role, q)) = ptr[q + 1]
          /\ ptr[(q + 1) + 1] = ptr[q + 1] + 2
          /\ Gap(u, role, q + 1) = 0
      <4>1. q \in Nat /\ q + 1 <= Len(u)
        BY <1>3, <2>2
      <4> QED  BY <3>2, <4>1, WordBehind
    <3>4. L!DataStart(l, x) = ptr[q + 1]
      BY <1>0, <2>5, <3>3 DEF L!DataStart
    <3>5. e[i] = ptr[r + 1] - Gap(u, role, r)
      <4>1. r = q + 1
        BY <2>2, <3>1
      <4>2. e[i] = ptr[q + 1] + 2
        BY <1>2, <3>1, <3>4
      <4> QED  BY <3>3, <4>1, <4>2
    <3>6. \A k \in 1 .. Size(l) : ptr[Index(src, i, k)] = L!DataStart(l, x) + (k - 1)
      <4> SUFFICES ASSUME NEW k \in 1 .. Size(l)
          PROVE  ptr[Index(src, i, k)] = L!DataStart(l, x) + (k - 1)
        OBVIOUS
      <4>1. k = 1 /\ Index(src, i, k) = q + 1
        BY <2>3, <3>1
      <4> QED  BY <3>3, <3>4, <4>1
    <3> QED  BY <3>5, <3>6 DEF Meets
  <2>6. CASE l.op # "defw"
    <3>1. L!DataSize(l) = Size(l)
      BY <1>1, <1>5, <2>6, SizesAgree
    <3> DEFINE m == Size(l)
    <3>2. \A k \in 1 .. m : u[q + k].byte
      BY <2>4, <2>6
    <3>3. m \in Nat /\ m >= 1 /\ q + m <= Len(u) /\ r = q + m /\ q \in Nat
      BY <1>3, <2>1, <2>2
    <3> HIDE DEF m
    <3>4. /\ Gap(u, role, q) = 0 /\ ptr[q + 1] \in Nat
          /\ \A k \in 1 .. m : ptr[q + k] = ptr[q + 1] + (k - 1)
          /\ ptr[(q + m) + 1] - Gap(u, role, q + m) = ptr[q + 1] + m
      <4>1. \A k \in 0 .. m - 1 : k + 1 \in 1 .. m /\ (q + 1) + k = q + (k + 1)
        BY <3>3
      <4>2. Bytes(u, q + 1, m)
        BY <3>2, <4>1 DEF Bytes
      <4> QED  BY <3>3, <4>2, BytesBehind
    <3>5. L!DataStart(l, x) = x /\ x = ptr[q + 1]
      BY <1>0, <2>6, <3>4 DEF L!DataStart
    <3>6. e[i] = ptr[r + 1] - Gap(u, role, r)
      BY <1>2, <3>1, <3>3, <3>4, <3>5 DEF m
    <3>7. \A k \in 1 .. m : ptr[Index(src, i, k)] = L!DataStart(l, x) + (k - 1)
      BY <2>3, <3>4, <3>5 DEF m
    <3> QED  BY <3>6, <3>7 DEF m, Meets
  <2> QED  BY <2>5, <2>6
<1> QED  BY <1>4, <1>5

\* Where item k of line i is in memory.
AddressOf(src, i, k) ==
    IF Kind(src[i]) = "data" THEN L!Address(src, i) + (k - 1)
    ELSE L!Address(src, i) + 2 * (k - 1)

LEMMA LinesPlaced ==
    ASSUME NEW src \in Seq(Lines), NEW S, NEW u \in Seq(S), Laid(u, src),
           L!Base(src) \in Nat, L!Base(src) % 2 = 0, NEW role, NEW ptr,
           Placing(u, L!Base(src), role, ptr), NEW e, Ends(src, e)
    PROVE  \A i \in 0 .. Len(src) :
                \E q : Meets(src, e, u, role, ptr, i, q)
<1> DEFINE a == L!Base(src)
           n == Len(src)
           Good(i) == \E q : Meets(src, e, u, role, ptr, i, q)
           P == {i \in 0 .. n : Good(i)}
           c == Places(src, {"code"})[n]
           d == Places(src, {"data"})
<1>1. n \in Nat /\ a \in Nat /\ a % 2 = 0 /\ Placing(u, a, role, ptr)
  OBVIOUS
<1>2. c \in Nat /\ d[0] = 0 /\ c \in 0 .. Len(u)
  <2>1. Places(src, {"data"})[n] \in Nat /\ Places(src, {"bss"})[n] \in Nat /\ c \in Nat
    BY TotalsOfKinds
  <2>2. Len(u) = c + Places(src, {"data"})[n] + Places(src, {"bss"})[n]
    BY DEF Laid
  <2>3. d[0] = 0
    BY PlacesAre
  <2> QED  BY <2>1, <2>2, <2>3
<1>3. 0 \in P
  <2>1. Ended(src, 0, c)
    <3>1. c + 0 = c
      BY <1>2
    <3> QED  BY <1>2, <3>1 DEF Ended
  <2>2. e[0] = a + 2 * c
    BY DEF Ends
  <2> HIDE DEF a
  <2>3. NoBytes(u, 1, c)
    BY LaidBytes
  <2>4. ptr[c + 1] = a + 2 * c
    <3>1. c \in 0 .. c
      BY <1>2
    <3> HIDE DEF c
    <3>2. \A k \in 0 .. c : ptr[k + 1] = a + 2 * k
      BY <1>1, <1>2, <2>3, WordsFirst
    <3> QED  BY <3>1, <3>2
  <2>5. Gap(u, role, c) = 0
    <3>1. c >= 1 => c \in 1 .. c
      BY <1>2
    <3> QED  BY <2>3, <3>1 DEF Gap, NoBytes
  <2> HIDE DEF c
  <2>6. e[0] = ptr[c + 1] - Gap(u, role, c)
    BY <1>1, <1>2, <2>2, <2>4, <2>5
  <2> QED  BY <1>1, <2>1, <2>6 DEF Meets
<1>4. ASSUME NEW k \in 0 .. n - 1, k \in P PROVE k + 1 \in P
  <2>1. k + 1 \in 1 .. Len(src) /\ (k + 1) - 1 = k /\ k + 1 \in 0 .. n
    BY <1>1
  <2>2. PICK q : Meets(src, e, u, role, ptr, k, q)
    BY <1>4
  <2> DEFINE r == c + d[k + 1]
             i == k + 1
  <2>3. Ended(src, i, r)
    BY DEF Ended
  <2>4. i \in 1 .. Len(src) /\ i - 1 = k /\ i \in 0 .. n
    BY <2>1
  <2> HIDE DEF r, i, c, d, a
  <2>5. Meets(src, e, u, role, ptr, i - 1, q)
    BY <2>2, <2>4
  <2>6. Meets(src, e, u, role, ptr, i, r)
    BY <1>1, <2>3, <2>4, <2>5, LinePlaced
  <2> QED  BY <2>3, <2>4, <2>6 DEF i
<1>5. \A k \in 0 .. n : k \in P
  <2> HIDE DEF P
  <2> QED  BY <1>1, <1>3, <1>4, Climb
<1> QED  BY <1>5

\* Every item is at the address that Layout gives its line.
LEMMA ItemsPlaced ==
    ASSUME NEW src \in Seq(Lines), NEW S, NEW u \in Seq(S), Laid(u, src),
           NEW role, NEW ptr, Placing(u, L!Base(src), role, ptr)
    PROVE  \A i \in 1 .. Len(src) : Kind(src[i]) \in ItemKinds =>
                \A k \in 1 .. Size(src[i]) : ptr[Index(src, i, k)] = AddressOf(src, i, k)
<1> DEFINE a == L!Base(src)
           e == L!DataEnd(src)
           n == Len(src)
           c == Places(src, {"code"})
           d == Places(src, {"data"})
           b == Places(src, {"bss"})
<1>1. a \in Nat /\ a % 2 = 0
  BY BaseEven
<1>2. Ends(src, e)
  BY <1>1, DataEndIs
<1> HIDE DEF a, e
<1>3. Placing(u, a, role, ptr) /\ a = L!Base(src)
  BY DEF a
<1>4. \A i \in 0 .. n : \E q : Meets(src, e, u, role, ptr, i, q)
  BY <1>1, <1>2, LinesPlaced DEF a
<1>5. n \in Nat /\ n \in 0 .. n /\ \A i \in 1 .. n : src[i] \in Lines /\ i - 1 \in 0 .. n
  OBVIOUS
<1>6. c[n] \in Nat /\ d[n] \in Nat /\ b[n] \in Nat /\ Len(u) = c[n] + d[n] + b[n]
  BY TotalsOfKinds DEF Laid
<1>7. ASSUME NEW i \in 1 .. n, Kind(src[i]) \in ItemKinds, NEW k \in 1 .. Size(src[i])
      PROVE  ptr[Index(src, i, k)] = AddressOf(src, i, k)
  <2>1. src[i] \in Lines /\ i - 1 \in 0 .. n /\ k \in Nat /\ k >= 1 /\ Size(src[i]) \in Nat
    BY <1>5, KindIs
  <2>2. CASE Kind(src[i]) = "code"
    <3>1. L!CodeSize(src[i]) > 0 /\ ~(L!DataSize(src[i]) > 0)
      BY <2>1, <2>2, SizesAgree
    <3>2. L!Address(src, i) = L!CodeAddress(src, i)
      BY <3>1 DEF L!Address
    <3>3. L!CodeAddress(src, i) = L!Base(src) + 2 * c[i - 1]
      <4>1. i \in 1 .. Len(src) + 1
        BY <1>5
      <4> QED  BY <4>1, CodeAddressIs
    <3> DEFINE q == c[i - 1]
    <3>4. q \in Nat /\ q + k \in 1 .. c[n]
      BY <2>2, PlaceRange
    <3>5. Index(src, i, k) = q + k
      BY <2>2 DEF Index
    <3>6. NoBytes(u, 1, c[n])
      BY LaidBytes
    <3>7. L!Address(src, i) = a + 2 * q
      BY <3>2, <3>3 DEF a
    <3> DEFINE m == c[n]
    <3>8. m \in 0 .. Len(u) /\ NoBytes(u, 1, m)
      BY <1>6, <3>6
    <3>9. m \in Nat /\ q + k \in 1 .. m /\ q \in Nat
      BY <1>6, <3>4
    <3> HIDE DEF m, q, c, d, b
    <3>10. \A j \in 0 .. m : ptr[j + 1] = a + 2 * j
      BY <1>1, <1>3, <3>8, WordsFirst
    <3>11. (q + k) - 1 \in 0 .. m /\ ((q + k) - 1) + 1 = q + k
      BY <2>1, <3>9
    <3>12. ptr[q + k] = a + 2 * ((q + k) - 1)
      BY <3>10, <3>11
    <3>13. a + 2 * ((q + k) - 1) = (a + 2 * q) + 2 * (k - 1)
      BY <1>1, <2>1, <3>9
    <3> QED  BY <2>2, <3>5, <3>7, <3>12, <3>13 DEF AddressOf
  <2>3. CASE Kind(src[i]) = "data"
    <3>1. L!CodeSize(src[i]) = 0 /\ L!DataSize(src[i]) > 0
      BY <2>1, <2>3, SizesAgree
    <3>2. L!Address(src, i) = L!DataStart(src[i], e[i - 1])
      BY <3>1 DEF L!Address, e
    <3>3. PICK q : Meets(src, e, u, role, ptr, i - 1, q)
      BY <1>4, <2>1
    <3> DEFINE r == c[n] + d[i]
    <3>4. Ended(src, i, r)
      BY DEF Ended
    <3> HIDE DEF r, c, d, b
    <3>5. \A j \in 1 .. Size(src[i]) :
                ptr[Index(src, i, j)] = L!DataStart(src[i], e[i - 1]) + (j - 1)
      <4>1. i \in 1 .. Len(src) /\ a \in Nat /\ a % 2 = 0
        BY <1>1
      <4>2. Placing(u, a, role, ptr)
        BY <1>3
      <4> HIDE DEF n
      <4>3. Meets(src, e, u, role, ptr, i, r) /\ (Kind(src[i]) = "data" =>
                \A j \in 1 .. Size(src[i]) :
                    ptr[Index(src, i, j)] = L!DataStart(src[i], e[i - 1]) + (j - 1))
        BY <1>2, <3>3, <3>4, <4>1, <4>2, LinePlaced
      <4> QED  BY <2>3, <4>3
    <3> QED  BY <2>3, <3>2, <3>5 DEF AddressOf
  <2>4. CASE Kind(src[i]) = "bss"
    <3>1. L!CodeSize(src[i]) = 0 /\ L!DataSize(src[i]) = 0
      BY <2>1, <2>4, SizesAgree
    <3>2. L!Address(src, i) = L!BssAddress(src, i)
      BY <3>1 DEF L!Address
    <3>3. L!BssAddress(src, i) = L!Aligned(e[n]) + 2 * b[i - 1]
      BY BssAddressIs DEF e
    <3>4. PICK q : Meets(src, e, u, role, ptr, n, q)
      BY <1>4, <1>5
    <3> DEFINE v == c[n]
               w == d[n]
               z == b[n]
    <3>5. q = v + w /\ v \in Nat /\ w \in Nat /\ z \in Nat /\ Len(u) = v + w + z
      BY <1>6, <3>4 DEF Meets, Ended
    <3>6. NoBytes(u, q + 1, Len(u))
      BY <3>5, LaidBytes
    <3>7. q \in Nat /\ q <= Len(u) /\ q \in 0 .. Len(u) /\ Len(u) - q = b[n]
      <4> HIDE DEF v, w, z
      <4>1. q \in Nat /\ q <= Len(u) /\ q \in 0 .. Len(u) /\ Len(u) - q = z
        BY <3>5
      <4> QED  BY <4>1 DEF z
    <3>8. role[q] # "first" /\ \A j \in 0 .. Len(u) - q : ptr[q + 1 + j] = ptr[q + 1] + 2 * j
      <4>1. role[q] # "first"
        BY <1>1, <1>3, <3>6, <3>7, WordsRun
      <4>2. \A j \in 0 .. Len(u) - q : ptr[q + 1 + j] = ptr[q + 1] + 2 * j
        BY <1>1, <1>3, <3>6, <3>7, WordsRun
      <4> QED  BY <4>1, <4>2
    <3>9. ptr[q + 1] \in Nat /\ L!Aligned(ptr[q + 1] - Gap(u, role, q)) = ptr[q + 1]
      BY <1>1, <1>3, <3>7, <3>8, Evened
    <3> DEFINE p == b[i - 1]
    <3>10. p \in Nat /\ p + k \in 1 .. b[n]
      BY <2>4, PlaceRange
    <3>11. Index(src, i, k) = q + p + k
      BY <2>4, <3>5 DEF Index
    <3>12. L!Address(src, i) = ptr[q + 1] + 2 * p
      BY <3>2, <3>3, <3>4, <3>9 DEF Meets
    <3> HIDE DEF p, b
    <3>13. (p + k) - 1 \in 0 .. Len(u) - q /\ q + 1 + ((p + k) - 1) = q + p + k
      BY <2>1, <3>7, <3>10
    <3>14. ptr[q + p + k] = ptr[q + 1] + 2 * ((p + k) - 1)
      BY <3>8, <3>13
    <3>15. ptr[q + 1] + 2 * ((p + k) - 1) = (ptr[q + 1] + 2 * p) + 2 * (k - 1)
      BY <2>1, <3>9, <3>10
    <3> QED  BY <2>4, <3>11, <3>12, <3>14, <3>15 DEF AddressOf
  <2> QED  BY <1>7, <2>2, <2>3, <2>4 DEF ItemKinds
<1> QED  BY <1>7

-----------------------------------------------------------------------------
\* From the table of instructions to the table of all items.

\* x is made of item j of a list.
Made(x, list, role, ptr, j) ==
    /\ x.op = list[j].op /\ x.name = list[j].name /\ x.ld16 = list[j].ld16
    /\ x.nr = list[j].nr /\ x.addr = ptr[j] /\ (x.byte2 <=> role[j] = "second")
    /\ x.val = IF role[j] = "first" THEN Merged(list[j].val, list[j + 1].val)
               ELSE list[j].val

\* The table of all items, in the order of memory.
Table(u, role, ptr) ==
    /\ u \in Seq(Fresh) /\ Laid(u, source) /\ Placing(u, L!Base(source), role, ptr)
    /\ Len(instructions) = Len(u)
    /\ \A j \in 1 .. Len(u) : Made(instructions[j], u, role, ptr, j)
    /\ lastMemAddr = ptr[Len(u) + 1]

Tabled == \E u, role, ptr : Table(u, role, ptr)

\* The instructions alone.
CodeTable(t) ==
    /\ t \in Seq(Coded) /\ Listed(t, source, "code")
    /\ Len(instructions) = Len(t)
    /\ \A j \in 1 .. Len(t) : instructions[j] = [t[j] EXCEPT !.addr = codePtr + 2 * (j - 1)]
    /\ lastAddr = codePtr + 2 * Len(t)

CodeReady ==
    /\ \E t : CodeTable(t)
    /\ Listed(Those(mem, DOMAIN mem \ Reserved), source, "data")
    /\ Listed(Those(mem, Reserved), source, "bss")

LEMMA PlaceinstrReady == ASSUME TypeInv, Parsed, Placeinstr PROVE CodeReady'
<1> DEFINE t == instructions
<1>1. /\ instructions' = [i \in DOMAIN instructions |->
                            [instructions[i] EXCEPT !.addr = codePtr + 2 * (i - 1)]]
      /\ lastAddr' = codePtr + 2 * Len(instructions)
      /\ UNCHANGED <<source, codePtr, mem>>
  BY DEF Placeinstr
<1>2. t \in Seq(Coded) /\ Listed(t, source, "code")
  BY ListedTypes DEF Parsed
<1>3. DOMAIN t = 1 .. Len(t) /\ Len(t) \in Nat
  BY <1>2
<1>4. Len(instructions') = Len(t)
  BY <1>1, <1>3
<1>5. \A j \in 1 .. Len(t) : instructions'[j] = [t[j] EXCEPT !.addr = codePtr + 2 * (j - 1)]
  BY <1>1, <1>3
<1> HIDE DEF t
<1>6. lastAddr' = codePtr + 2 * Len(t)
  BY <1>1 DEF t
<1>7. /\ t \in Seq(Coded) /\ Listed(t, source', "code")
      /\ Len(instructions') = Len(t)
      /\ \A j \in 1 .. Len(t) :
            instructions'[j] = [t[j] EXCEPT !.addr = codePtr' + 2 * (j - 1)]
      /\ lastAddr' = codePtr' + 2 * Len(t)
  BY <1>1, <1>2, <1>4, <1>5, <1>6
<1>8. Reserved' = Reserved /\ mem' = mem /\ source' = source
  BY <1>1 DEF Reserved
<1>9. /\ Listed(Those(mem, DOMAIN mem \ Reserved), source, "data")
      /\ Listed(Those(mem, Reserved), source, "bss")
  BY DEF Parsed
<1> QED  BY <1>7, <1>8, <1>9 DEF CodeReady, CodeTable

LEMMA LaidFresh ==
    ASSUME NEW src \in Seq(Lines), NEW S, NEW u \in Seq(S), Laid(u, src)
    PROVE  /\ u \in Seq(Fresh)
           /\ \A i \in 1 .. Len(src) : Kind(src[i]) \in ItemKinds =>
                \A k \in 1 .. Size(src[i]) :
                    /\ Index(src, i, k) \in 1 .. Len(u) /\ Items(src[i])[k] \in Fresh
                    /\ u[Index(src, i, k)] = ItemOf(src, i, k)
<1>1. ASSUME NEW i \in 1 .. Len(src), Kind(src[i]) \in ItemKinds, NEW k \in 1 .. Size(src[i])
      PROVE  /\ Index(src, i, k) \in 1 .. Len(u) /\ Items(src[i])[k] \in Fresh
             /\ u[Index(src, i, k)] = ItemOf(src, i, k)
             /\ u[Index(src, i, k)] \in Fresh
  <2>1. src[i] \in Lines
    OBVIOUS
  <2>2. Items(src[i]) \in Seq(Fresh) /\ Size(src[i]) = Len(Items(src[i]))
    BY <1>1, <2>1, KindIs
  <2>3. Items(src[i])[k] \in Fresh
    BY <2>2
  <2>4. Index(src, i, k) \in 1 .. Len(u) /\ u[Index(src, i, k)] = ItemOf(src, i, k)
    BY <1>1 DEF Laid
  <2>5. ItemOf(src, i, k) = [Items(src[i])[k] EXCEPT !.nr = Numbers(src)[i - 1] + k - 1]
    BY <1>1 DEF ItemOf, ItemKinds
  <2>6. Numbers(src)[i - 1] + k - 1 \in Int
    <3>1. Numbers(src)[i - 1] \in Nat /\ Size(src[i]) \in Nat
      BY NumbersOrder
    <3> QED  BY <3>1
  <2>7. \A x \in Fresh, m \in Int : [x EXCEPT !.nr = m] \in Fresh
    BY DEF Fresh, Item
  <2>8. ItemOf(src, i, k) \in Fresh
    BY <2>3, <2>5, <2>6, <2>7
  <2> QED  BY <2>3, <2>4, <2>5, <2>8
<1>2. \A j \in 1 .. Len(u) : u[j] \in Fresh
  <2> SUFFICES ASSUME NEW j \in 1 .. Len(u) PROVE u[j] \in Fresh
    OBVIOUS
  <2>1. PICK i \in 1 .. Len(src) : \E k \in 1 .. Size(src[i]) :
                Kind(src[i]) \in ItemKinds /\ j = Index(src, i, k)
    BY LaidCovers
  <2> QED  BY <1>1, <2>1
<1>3. u \in Seq(Fresh)
  <2>1. Len(u) \in Nat /\ u = [j \in 1 .. Len(u) |-> u[j]]
    OBVIOUS
  <2> QED  BY <1>2, <2>1
<1> QED  BY <1>1, <1>3

LEMMA PlacememTables ==
    ASSUME TypeInv, CodeReady, codePtr = L!Base(source), Placemem
    PROVE  Tabled'
<1> DEFINE x == Those(mem, DOMAIN mem \ Reserved)
           y == Those(mem, Reserved)
           z == BssLast
           a == codePtr
<1>1. PICK t : CodeTable(t)
  BY DEF CodeReady
<1> DEFINE u == t \o z
           c == Len(t)
           m == Len(z)
           rz == Role(z)
           pz == Placement(z, lastAddr)
           role == RoleBehind(rz, c, m)
           ptr == PtrBehind(pz, a, c, m)
<1>2. /\ source \in Seq(Lines) /\ x \in Seq(Coded) /\ y \in Seq(Coded)
      /\ mem \in Seq(Fresh) /\ lastAddr \in Nat /\ a \in Nat
      /\ instructions \in Seq(Coded) /\ a % 2 = 0
  <2>1. mem \in Seq(Fresh) /\ lastAddr \in Nat /\ a \in Nat
    BY DEF TypeInv, TypeOK, Placemem
  <2>2. source \in Seq(Lines) /\ x \in Seq(Coded) /\ y \in Seq(Coded)
        /\ instructions \in Seq(Coded)
    BY ListedTypes
  <2> QED  BY <2>1, <2>2, BaseEven
<1>3. /\ t \in Seq(Coded) /\ Listed(t, source, "code") /\ Len(instructions) = Len(t)
      /\ \A j \in 1 .. Len(t) : instructions[j] = [t[j] EXCEPT !.addr = a + 2 * (j - 1)]
      /\ lastAddr = a + 2 * Len(t)
  BY <1>1 DEF CodeTable
<1>4. z = x \o y
  BY DEF BssLast, Reserved
<1>5. z \in Seq(Fresh) /\ z \in Seq(Coded) /\ Len(z) = Len(mem)
  <2>1. z \in Seq(Fresh) /\ Len(z) = Len(mem)
    BY <1>2, BssLastIs
  <2> HIDE DEF z
  <2> QED  BY <2>1, FreshIsCoded, SeqsWiden
<1>6. /\ mem' = Placed(z, lastAddr) /\ instructions' = instructions \o mem'
      /\ lastMemAddr' = pz[Len(mem) + 1] /\ source' = source
  BY DEF Placemem
<1>7. Listed(x, source, "data") /\ Listed(y, source, "bss")
  BY DEF CodeReady
<1> HIDE DEF x, y
<1>8. AreJoined(z, x, y, Coded)
  BY <1>2, <1>4, Joined
<1> HIDE DEF z
<1>9. AreJoined(u, t, z, Coded)
  BY <1>3, <1>5, Joined
<1> HIDE DEF u
<1>10. Laid(u, source)
  BY <1>2, <1>3, <1>7, <1>8, <1>9, LaidOut
<1>11. /\ u \in Seq(Coded) /\ Len(u) = c + m /\ c \in Nat /\ m \in Nat
       /\ \A k \in 1 .. c : u[k] = t[k]
       /\ \A k \in 1 .. m : u[c + k] = z[k]
  BY <1>3, <1>5, <1>9 DEF AreJoined
<1>12. u \in Seq(Fresh)
  BY <1>2, <1>10, <1>11, LaidFresh
<1>13. NoBytes(t, 1, c)
  <2>1. NoBytes(u, 1, Places(source, {"code"})[Len(source)])
    BY <1>2, <1>10, LaidBytes
  <2>2. c = Places(source, {"code"})[Len(source)]
    BY <1>3 DEF Listed
  <2> QED  BY <1>11, <2>1, <2>2 DEF NoBytes
<1>14. Placing(z, lastAddr, rz, pz)
  BY <1>2, <1>5, PlacingIs
<1> HIDE DEF rz, pz
<1>15. Placing(u, a, role, ptr)
  <2>1. Placing(z, a + 2 * Len(t), rz, pz)
    BY <1>3, <1>14
  <2> QED  BY <1>2, <1>3, <1>5, <1>9, <1>13, <2>1, PlacingJoined
<1>16. /\ \A j \in 1 .. c : role[j] = "single" /\ ptr[j] = a + 2 * (j - 1)
       /\ \A k \in 1 .. m : role[c + k] = rz[k] /\ ptr[c + k] = pz[k]
       /\ ptr[c + m + 1] = pz[m + 1]
  <2>1. \A j \in 1 .. c : j \in 0 .. c + m /\ j \in 1 .. c + m + 1 /\ j <= c
    BY <1>11
  <2>2. \A k \in 1 .. m : c + k \in 0 .. c + m /\ c + k \in 1 .. c + m + 1 /\ ~(c + k <= c)
                          /\ (c + k) - c = k
    BY <1>11
  <2>3. c + m + 1 \in 1 .. c + m + 1 /\ ~(c + m + 1 <= c) /\ (c + m + 1) - c = m + 1
    BY <1>11
  <2> HIDE DEF c, m
  <2> QED  BY <2>1, <2>2, <2>3 DEF RoleBehind, PtrBehind
<1> HIDE DEF role, ptr
<1>17. /\ mem' \in Seq(Coded) /\ Len(mem') = m
       /\ \A k \in 1 .. m :
            mem'[k] = [z[k] EXCEPT !.addr = pz[k], !.byte2 = (rz[k] = "second"),
                                   !.val = IF rz[k] = "first" THEN Merged(@, z[k + 1].val)
                                           ELSE @]
  <2>1. DOMAIN z = 1 .. m
    BY <1>5
  <2>2. /\ Placed(z, lastAddr) \in Seq(Coded) /\ Len(Placed(z, lastAddr)) = Len(z)
        /\ \A k \in DOMAIN z :
             Placed(z, lastAddr)[k] =
                 [z[k] EXCEPT !.addr = Placement(z, lastAddr)[k],
                              !.byte2 = (Role(z)[k] = "second"),
                              !.val = IF Role(z)[k] = "first" THEN Merged(@, z[k + 1].val)
                                      ELSE @]
    BY <1>2, <1>5, PlacedIs
  <2>3. rz = Role(z) /\ pz = Placement(z, lastAddr)
    BY DEF rz, pz
  <2> QED  BY <1>6, <2>1, <2>2, <2>3
<1>18. AreJoined(instructions', instructions, mem', Coded)
  BY <1>2, <1>6, <1>17, Joined
<1>19. /\ Len(instructions') = Len(u)
       /\ \A k \in 1 .. c : instructions'[k] = instructions[k]
       /\ \A k \in 1 .. m : instructions'[c + k] = mem'[k]
  BY <1>3, <1>11, <1>17, <1>18 DEF AreJoined
<1>a. /\ \A k \in 1 .. m : rz[k] = "first" => k < m
      /\ Len(t) = c /\ Len(z) = m
  BY <1>14 DEF Placing
<1>b. \A j \in 1 .. c : instructions[j] = [t[j] EXCEPT !.addr = a + 2 * (j - 1)]
  BY <1>3
<1> HIDE DEF c, m
<1>20. ASSUME NEW j \in 1 .. Len(u) PROVE Made(instructions'[j], u, role, ptr, j)
  <2>1. CASE j <= c
    <3>1. j \in 1 .. c
      BY <1>11, <2>1
    <3>2. instructions'[j] = [u[j] EXCEPT !.addr = ptr[j]] /\ role[j] = "single"
      <4>1. instructions'[j] = instructions[j] /\ u[j] = t[j] /\ role[j] = "single"
            /\ ptr[j] = a + 2 * (j - 1)
        BY <1>11, <1>16, <1>19, <3>1
      <4>2. instructions[j] = [t[j] EXCEPT !.addr = a + 2 * (j - 1)]
        BY <1>b, <3>1
      <4> QED  BY <4>1, <4>2
    <3>3. u[j] \in Fresh
      BY <1>12
    <3> DEFINE X == instructions'[j]
               v == u[j]
               p == ptr[j]
    <3>4. X = [v EXCEPT !.addr = p] /\ v \in Item /\ ~v.byte2
      BY <3>2, <3>3 DEF Fresh
    <3> HIDE DEF X, v, p
    <3>5. /\ X.op = v.op /\ X.name = v.name /\ X.ld16 = v.ld16
          /\ X.nr = v.nr /\ X.addr = p /\ ~X.byte2 /\ X.val = v.val
      BY <3>4 DEF Item
    <3> QED  BY <3>2, <3>5 DEF Made, X, v, p
  <2>2. CASE j > c
    <3> DEFINE k == j - c
    <3>1. k \in 1 .. m /\ j = c + k
      BY <1>11, <2>2
    <3> HIDE DEF k
    <3>2. /\ instructions'[j] = mem'[k] /\ u[j] = z[k] /\ role[j] = rz[k] /\ ptr[j] = pz[k]
      <4>1. /\ instructions'[c + k] = mem'[k] /\ u[c + k] = z[k]
            /\ role[c + k] = rz[k] /\ ptr[c + k] = pz[k]
        <5>1. instructions'[c + k] = mem'[k]
          BY <1>19, <3>1
        <5>2. u[c + k] = z[k]
          BY <1>11, <3>1
        <5>3. role[c + k] = rz[k] /\ ptr[c + k] = pz[k]
          BY <1>16, <3>1
        <5> QED  BY <5>1, <5>2, <5>3
      <4> QED  BY <3>1, <4>1
    <3>3. rz[k] = "first" => z[k + 1] = u[j + 1]
      <4> SUFFICES ASSUME rz[k] = "first" PROVE z[k + 1] = u[j + 1]
        OBVIOUS
      <4>1. k < m
        BY <1>a, <3>1
      <4>2. k + 1 \in 1 .. m /\ c + (k + 1) = j + 1
        BY <1>11, <3>1, <4>1
      <4>3. u[c + (k + 1)] = z[k + 1]
        BY <1>11, <4>2
      <4> QED  BY <4>2, <4>3
    <3>4. u[j] \in Fresh
      BY <1>12
    <3> DEFINE v == u[j]
               w == u[j + 1].val
    <3>5. instructions'[j] =
            [v EXCEPT !.addr = ptr[j], !.byte2 = (role[j] = "second"),
                      !.val = IF role[j] = "first" THEN Merged(v.val, w) ELSE v.val]
      <4>1. mem'[k] =
              [z[k] EXCEPT !.addr = pz[k], !.byte2 = (rz[k] = "second"),
                           !.val = IF rz[k] = "first" THEN Merged(z[k].val, z[k + 1].val)
                                   ELSE z[k].val]
        BY <1>17, <3>1
      <4>2. CASE rz[k] = "first"
        BY <3>2, <3>3, <4>1, <4>2
      <4>3. CASE rz[k] # "first"
        BY <3>2, <4>1, <4>3
      <4> QED  BY <4>2, <4>3
    <3>6. v \in Fresh
      BY <3>4
    <3> HIDE DEF v, w
    <3>7. v \in Item
      BY <3>6 DEF Fresh
    <3> DEFINE X == instructions'[j]
    <3>8. /\ X.op = v.op /\ X.name = v.name /\ X.ld16 = v.ld16
          /\ X.nr = v.nr /\ X.addr = ptr[j] /\ (X.byte2 <=> role[j] = "second")
          /\ X.val = IF role[j] = "first" THEN Merged(v.val, w) ELSE v.val
      BY <3>5, <3>7 DEF Item
    <3> HIDE DEF X
    <3> QED  BY <3>8 DEF Made, X, v, w
  <2> QED  BY <1>11, <2>1, <2>2
<1>21. lastMemAddr' = ptr[Len(u) + 1]
  BY <1>5, <1>6, <1>11, <1>16, <1>a
<1>22. /\ u \in Seq(Fresh) /\ Laid(u, source') /\ Placing(u, L!Base(source'), role, ptr)
       /\ Len(instructions') = Len(u)
       /\ \A j \in 1 .. Len(u) : Made(instructions'[j], u, role, ptr, j)
       /\ lastMemAddr' = ptr[Len(u) + 1]
  BY <1>6, <1>10, <1>12, <1>15, <1>19, <1>20, <1>21
<1> QED  BY <1>22 DEF Tabled, Table

-----------------------------------------------------------------------------
\* Resolving the symbols.

\* What the table of all items has of item k of line i.
Entry(u, role, i, k) ==
    LET j == Index(source, i, k)
        x == instructions[j]
        y == Items(source[i])[k]
    IN  /\ j \in 1 .. Len(instructions) /\ y \in Fresh
        /\ x.op = y.op /\ x.name = source[i].name /\ x.ld16 = y.ld16
        /\ x.nr = Numbers(source)[i - 1] + k - 1 /\ x.addr = AddressOf(source, i, k)
        /\ x.byte2 <=> role[j] = "second"
        /\ x.val = IF role[j] = "first" THEN Merged(y.val, u[j + 1].val) ELSE y.val
        /\ ~y.byte => role[j] = "single"

LEMMA Entries ==
    ASSUME TypeInv, NEW u, NEW role, NEW ptr, Table(u, role, ptr)
    PROVE  \A i \in 1 .. Len(source) : Kind(source[i]) \in ItemKinds =>
                \A k \in 1 .. Size(source[i]) : Entry(u, role, i, k)
<1> SUFFICES ASSUME NEW i \in 1 .. Len(source), Kind(source[i]) \in ItemKinds,
                    NEW k \in 1 .. Size(source[i])
             PROVE  Entry(u, role, i, k)
  OBVIOUS
<1>1. source \in Seq(Lines) /\ source[i] \in Lines
  BY ListedTypes
<1>2. /\ u \in Seq(Fresh) /\ Laid(u, source) /\ Placing(u, L!Base(source), role, ptr)
      /\ Len(instructions) = Len(u)
      /\ \A j \in 1 .. Len(u) : Made(instructions[j], u, role, ptr, j)
  BY DEF Table
<1> DEFINE j == Index(source, i, k)
           x == instructions[j]
           y == Items(source[i])[k]
           nr == Numbers(source)[i - 1] + k - 1
<1>3. j \in 1 .. Len(u) /\ y \in Fresh /\ u[j] = [y EXCEPT !.nr = nr]
  <2>1. j \in 1 .. Len(u) /\ y \in Fresh /\ u[j] = ItemOf(source, i, k)
    BY <1>1, <1>2, LaidFresh
  <2>2. ItemOf(source, i, k) = [y EXCEPT !.nr = nr]
    BY DEF ItemOf, ItemKinds
  <2> QED  BY <2>1, <2>2
<1>4. y.name = source[i].name
  BY <1>1, ItemNames
<1>5. ptr[j] = AddressOf(source, i, k)
  BY <1>1, <1>2, ItemsPlaced
<1>6. Made(x, u, role, ptr, j)
  BY <1>2, <1>3
<1>7. ~u[j].byte => role[j] = "single"
  BY <1>2, <1>3, PlacingRoles
<1> HIDE DEF j, x, y, nr
<1> DEFINE v == u[j]
<1>8. v = [y EXCEPT !.nr = nr] /\ y \in Item
  BY <1>3 DEF Fresh
<1> HIDE DEF v
<1>9. /\ v.op = y.op /\ v.name = y.name /\ v.ld16 = y.ld16 /\ v.nr = nr /\ v.val = y.val
      /\ v.byte = y.byte
  BY <1>8 DEF Item
<1>10. /\ x.op = y.op /\ x.name = y.name /\ x.ld16 = y.ld16 /\ x.nr = nr /\ x.addr = ptr[j]
       /\ x.byte2 <=> role[j] = "second"
       /\ x.val = IF role[j] = "first" THEN Merged(y.val, u[j + 1].val) ELSE y.val
       /\ ~y.byte => role[j] = "single"
  BY <1>6, <1>7, <1>9 DEF Made, v
<1>11. j \in 1 .. Len(instructions)
  BY <1>2, <1>3
<1> QED  BY <1>3, <1>4, <1>5, <1>10, <1>11 DEF Entry, j, x, y, nr

\* A number that a line's item has belongs to that item alone.
LEMMA NumberedOnce ==
    ASSUME NEW src \in Seq(Lines), NEW i \in 1 .. Len(src), NEW k \in 1 .. Size(src[i]),
           NEW h \in 1 .. Len(src), NEW g \in 1 .. Size(src[h]),
           Numbers(src)[i - 1] + k - 1 = Numbers(src)[h - 1] + g - 1
    PROVE  i = h /\ k = g
<1>1. /\ Numbers(src)[i - 1] \in Nat /\ Numbers(src)[h - 1] \in Nat
      /\ Size(src[i]) \in Nat /\ Size(src[h]) \in Nat
  BY NumbersOrder
<1>2. ~(i < h)
  <2> SUFFICES ASSUME i < h PROVE FALSE
    OBVIOUS
  <2>1. Numbers(src)[i - 1] + Size(src[i]) <= Numbers(src)[h - 1]
    BY NumbersApart
  <2> QED  BY <1>1, <2>1
<1>3. ~(h < i)
  <2> SUFFICES ASSUME h < i PROVE FALSE
    OBVIOUS
  <2>1. Numbers(src)[h - 1] + Size(src[h]) <= Numbers(src)[i - 1]
    BY NumbersApart
  <2> QED  BY <1>1, <2>1
<1>4. i = h
  BY <1>2, <1>3
<1> QED  BY <1>1, <1>4

LEMMA FoundIs ==
    ASSUME TypeInv, NEW u, NEW role, NEW ptr, Table(u, role, ptr)
    PROVE  /\ \A i \in 1 .. Len(source) : Kind(source[i]) \in ItemKinds =>
                \A k \in 1 .. Size(source[i]) :
                    Found(Numbers(source)[i - 1] + k - 1) = {Index(source, i, k)}
           /\ \A nr : nr = NoNr \/ (nr \in Nat /\ nr >= Numbers(source)[Len(source)])
                        => Found(nr) = {}
<1>1. source \in Seq(Lines) /\ instructions \in Seq(Coded)
  BY ListedTypes
<1>2. Laid(u, source) /\ Len(instructions) = Len(u)
  BY DEF Table
<1>3. DOMAIN instructions = 1 .. Len(u)
  BY <1>1, <1>2
<1>4. ASSUME NEW j \in DOMAIN instructions
      PROVE  \E i \in 1 .. Len(source) : \E k \in 1 .. Size(source[i]) :
                /\ Kind(source[i]) \in ItemKinds /\ j = Index(source, i, k)
                /\ instructions[j].nr = Numbers(source)[i - 1] + k - 1
  <2>1. PICK i \in 1 .. Len(source) : \E k \in 1 .. Size(source[i]) :
                Kind(source[i]) \in ItemKinds /\ j = Index(source, i, k)
    BY <1>1, <1>2, <1>3, LaidCovers
  <2>2. PICK k \in 1 .. Size(source[i]) :
                Kind(source[i]) \in ItemKinds /\ j = Index(source, i, k)
    BY <2>1
  <2>3. Entry(u, role, i, k)
    BY <2>2, Entries
  <2>4. instructions[j].nr = Numbers(source)[i - 1] + k - 1
    BY <2>2, <2>3 DEF Entry
  <2> QED  BY <2>2, <2>4
<1>5. ASSUME NEW i \in 1 .. Len(source), Kind(source[i]) \in ItemKinds,
             NEW k \in 1 .. Size(source[i])
      PROVE  Found(Numbers(source)[i - 1] + k - 1) = {Index(source, i, k)}
  <2>1. Entry(u, role, i, k)
    BY <1>5, Entries
  <2>2. Index(source, i, k) \in Found(Numbers(source)[i - 1] + k - 1)
    BY <1>2, <1>3, <2>1 DEF Entry, Found
  <2>3. ASSUME NEW j \in Found(Numbers(source)[i - 1] + k - 1)
        PROVE  j = Index(source, i, k)
    <3>1. j \in DOMAIN instructions /\ instructions[j].nr = Numbers(source)[i - 1] + k - 1
      BY DEF Found
    <3>2. PICK h \in 1 .. Len(source) : \E g \in 1 .. Size(source[h]) :
                /\ Kind(source[h]) \in ItemKinds /\ j = Index(source, h, g)
                /\ instructions[j].nr = Numbers(source)[h - 1] + g - 1
      BY <1>4, <3>1
    <3>3. PICK g \in 1 .. Size(source[h]) :
                /\ j = Index(source, h, g)
                /\ instructions[j].nr = Numbers(source)[h - 1] + g - 1
      BY <3>2
    <3>4. i = h /\ k = g
      BY <1>1, <3>1, <3>3, NumberedOnce
    <3> QED  BY <3>3, <3>4
  <2> QED  BY <2>2, <2>3
<1>6. ASSUME NEW nr, nr = NoNr \/ (nr \in Nat /\ nr >= Numbers(source)[Len(source)])
      PROVE  Found(nr) = {}
  <2> SUFFICES ASSUME NEW j \in DOMAIN instructions, instructions[j].nr = nr PROVE FALSE
    BY DEF Found
  <2>1. PICK i \in 1 .. Len(source) : \E k \in 1 .. Size(source[i]) :
                instructions[j].nr = Numbers(source)[i - 1] + k - 1
    BY <1>4
  <2>2. PICK k \in 1 .. Size(source[i]) : nr = Numbers(source)[i - 1] + k - 1
    BY <2>1
  <2>3. /\ Numbers(source)[i - 1] \in Nat /\ Size(source[i]) \in Nat
        /\ Numbers(source)[i] = Numbers(source)[i - 1] + Size(source[i])
    BY <1>1, NumbersOrder
  <2>4. Numbers(source)[i] <= Numbers(source)[Len(source)]
        /\ Numbers(source)[Len(source)] \in Nat
    <3>1. Len(source) \in 0 .. Len(source) /\ i \in 0 .. Len(source)
      BY <1>1
    <3> QED  BY <1>1, <3>1, NumbersOrder
  <2> QED  BY <1>6, <2>2, <2>3, <2>4 DEF NoNr
<1> QED  BY <1>5, <1>6

\* A symbol's number is found exactly if its label is defined and something follows.
Followed(n) == n \in L!Defined(source) /\ L!Behind(source, L!Definition(source, n)) # {}

LEMMA AddressType ==
    ASSUME NEW src \in Seq(Lines), NEW i \in 1 .. Len(src)
    PROVE  L!Address(src, i) \in Nat
<1> DEFINE n == Len(src)
           e == L!DataEnd(src)
<1>1. n \in Nat /\ i - 1 \in 0 .. n /\ n \in 0 .. n /\ i \in 1 .. n + 1 /\ src[i] \in Lines
  OBVIOUS
<1>2. L!Base(src) \in Nat
  BY BaseEven
<1>3. e[i - 1] \in Nat /\ e[n] \in Nat
  BY <1>1, <1>2, DataEndIs DEF Ends
<1>4. Places(src, {"code"})[i - 1] \in Nat /\ Places(src, {"bss"})[i - 1] \in Nat
  BY <1>1, PlacesOrder
<1>5. L!CodeAddress(src, i) \in Nat
  BY <1>1, <1>2, <1>4, CodeAddressIs
<1>6. L!DataStart(src[i], e[i - 1]) \in Nat
  BY <1>1, <1>3, DataSizeIs
<1>7. L!BssAddress(src, i) \in Nat
  <2>1. L!Aligned(e[n]) \in Nat
    BY <1>1, <1>3, DataSizeIs
  <2> QED  BY <1>4, <2>1, BssAddressIs
<1> QED  BY <1>5, <1>6, <1>7 DEF L!Address

LEMMA WhereIs ==
    ASSUME NEW src \in Seq(Lines), NEW n \in L!Defined(src)
    PROVE  L!Where(src)[n] = L!Address(src, Denoted(src, n))
BY DEF L!Where, Denoted

LEMMA SymbolFound ==
    ASSUME TypeInv, NEW u, NEW role, NEW ptr, Table(u, role, ptr), NEW n, NEW p \in Int,
           PointsTo(n, p)
    PROVE  /\ Found(p) # {} <=> Followed(n)
           /\ Followed(n) => \A j \in Found(p) :
                j \in DOMAIN instructions /\ instructions[j].addr = L!Where(source)[n]
<1>1. source \in Seq(Lines) /\ instructions \in Seq(Coded)
  BY ListedTypes
<1>2. CASE Followed(n)
  <2> DEFINE d == L!Definition(source, n)
             m == Denoted(source, n)
  <2>1. d \in 1 .. Len(source) /\ L!Behind(source, d) # {} /\ n \in L!Defined(source)
    BY <1>1, <1>2, DefinitionIs DEF Followed
  <2>2. m \in 1 .. Len(source) /\ L!TakesMemory(source[m])
    BY <1>1, <2>1, BehindIs DEF Denoted
  <2>3. p = Numbers(source)[m - 1]
    BY <1>2, <2>1 DEF PointsTo
  <2> HIDE DEF d, m
  <2>4. source[m] \in Lines
    BY <1>1, <2>2
  <2>5. Kind(source[m]) \in ItemKinds /\ Size(source[m]) > 0 /\ Size(source[m]) \in Nat
    BY <2>2, <2>4, SizesAgree, KindIs
  <2>6. 1 \in 1 .. Size(source[m]) /\ Numbers(source)[m - 1] \in Nat
    BY <1>1, <2>2, <2>5, NumbersOrder
  <2>7. Found(Numbers(source)[m - 1] + 1 - 1) = {Index(source, m, 1)}
    BY <2>2, <2>5, <2>6, FoundIs
  <2>8. Found(p) = {Index(source, m, 1)}
    BY <2>3, <2>6, <2>7
  <2>9. Entry(u, role, m, 1)
    BY <2>2, <2>5, <2>6, Entries
  <2>10. /\ Index(source, m, 1) \in DOMAIN instructions
         /\ instructions[Index(source, m, 1)].addr = AddressOf(source, m, 1)
    BY <1>1, <2>9 DEF Entry
  <2>11. L!Where(source)[n] = L!Address(source, m)
    BY <1>1, <2>1, WhereIs DEF m
  <2>12. instructions[Index(source, m, 1)].addr \in Int
    BY <1>1, <2>10 DEF Coded, Item
  <2>13. L!Address(source, m) \in Int => AddressOf(source, m, 1) = L!Address(source, m)
    BY DEF AddressOf
  <2>14. L!Address(source, m) \in Int
    BY <1>1, <2>2, <2>4, <2>5, AddressType
  <2> QED  BY <1>2, <2>8, <2>10, <2>11, <2>13, <2>14
<1>3. CASE ~Followed(n)
  <2>1. p = NoNr \/ (p \in Nat /\ p >= Numbers(source)[Len(source)])
    <3>1. Numbers(source)[Len(source)] \in Nat
      <4>1. Len(source) \in 0 .. Len(source)
        BY <1>1
      <4> QED  BY <1>1, <4>1, NumbersOrder
    <3> QED  BY <1>3, <3>1 DEF PointsTo, Followed
  <2>2. Found(p) = {}
    BY <2>1, FoundIs
  <2> QED  BY <1>3, <2>2
<1> QED  BY <1>2, <1>3

\* The symbols, when every one of them has an address.
Resolved ==
    /\ DOMAIN symbols = L!Defined(source)
    /\ \A n \in L!Defined(source) : Followed(n) /\ symbols[n].addr = L!Where(source)[n]

LEMMA ResolveptrsResolve ==
    ASSUME TypeInv, Tabled, Pointed, Resolveptrs
    PROVE  (pc' = "build" /\ Resolved') \/ (pc' = "error" /\ ~L!Acceptable(source))
<1>1. PICK u, role, ptr : Table(u, role, ptr)
  BY DEF Tabled
<1>2. source \in Seq(Lines)
  BY ListedTypes
<1>3. ASSUME NEW n \in DOMAIN symbols
      PROVE  /\ Found(symbols[n].ptr) # {} <=> Followed(n)
             /\ Followed(n) => \A j \in Found(symbols[n].ptr) :
                  instructions[j].addr = L!Where(source)[n]
  <2>1. symbols[n] \in [ptr : Int, addr : Int] /\ PointsTo(n, symbols[n].ptr)
    BY DEF TypeInv, TypeOK, Pointed
  <2>2. symbols[n].ptr \in Int
    BY <2>1
  <2> QED  BY <1>1, <2>1, <2>2, SymbolFound
<1>4. CASE \A n \in DOMAIN symbols : Found(symbols[n].ptr) # {}
  <2>1. /\ pc' = "build" /\ source' = source
        /\ symbols' = [n \in DOMAIN symbols |->
                [symbols[n] EXCEPT !.addr =
                    instructions[CHOOSE i \in Found(symbols[n].ptr) : TRUE].addr]]
    BY <1>4 DEF Resolveptrs
  <2>2. \A n \in DOMAIN symbols : Followed(n)
    BY <1>3, <1>4
  <2>3. DOMAIN symbols = L!Defined(source)
    BY <2>2 DEF Pointed, Followed
  <2>4. ASSUME NEW n \in DOMAIN symbols PROVE symbols'[n].addr = L!Where(source)[n]
    <3> DEFINE i == CHOOSE i \in Found(symbols[n].ptr) : TRUE
    <3>1. i \in Found(symbols[n].ptr)
      BY <1>4
    <3>2. symbols[n] \in [ptr : Int, addr : Int]
      BY DEF TypeInv, TypeOK
    <3>3. symbols'[n] = [symbols[n] EXCEPT !.addr = instructions[i].addr]
      BY <2>1
    <3> HIDE DEF i
    <3>4. symbols'[n].addr = instructions[i].addr
      BY <3>2, <3>3
    <3> QED  BY <1>3, <2>2, <3>1, <3>4
  <2>5. DOMAIN symbols' = DOMAIN symbols
    BY <2>1
  <2>6. \A n : Followed(n)' <=> Followed(n)
    BY <2>1 DEF Followed
  <2>7. L!Defined(source') = L!Defined(source) /\ L!Where(source') = L!Where(source)
    BY <2>1
  <2>8. \A n \in L!Defined(source') :
            Followed(n)' /\ symbols'[n].addr = L!Where(source')[n]
    BY <2>2, <2>3, <2>4, <2>6, <2>7
  <2>9. Resolved'
    BY <2>3, <2>5, <2>7, <2>8 DEF Resolved
  <2> QED  BY <2>1, <2>9
<1>5. CASE ~(\A n \in DOMAIN symbols : Found(symbols[n].ptr) # {})
  <2>1. pc' = "error"
    BY <1>5 DEF Resolveptrs
  <2>2. PICK n \in DOMAIN symbols : ~Followed(n)
    BY <1>3, <1>5
  <2>3. CASE n \in L!Defined(source)
    BY <2>1, <2>2, <2>3 DEF Followed, L!Acceptable
  <2>4. CASE n \notin L!Defined(source)
    <3>1. n \in CodeNames(source)
      BY <2>4 DEF Pointed
    <3>2. PICK i \in DOMAIN source : source[i].name = n /\ n # NoName
      BY <3>1 DEF CodeNames
    <3> QED  BY <2>1, <2>4, <3>2 DEF L!Acceptable
  <2> QED  BY <2>3, <2>4
<1> QED  BY <1>4, <1>5

-----------------------------------------------------------------------------
\* What each kind of item is encoded to.

\* x is an item of line i that is no byte.
Is(x, i, op, v, ld16, a) ==
    /\ x.op = op /\ x.name = source[i].name /\ x.val = v /\ x.ld16 = ld16 /\ x.addr = a
    /\ ~x.byte2

Known(i) == source[i].name \in L!Defined(source) \cup {NoName}

\* What the label of line i adds to its number.
Value(i) == IF source[i].name = NoName THEN 0 ELSE L!Where(source)[source[i].name]

LEMMA OperandIs ==
    ASSUME NEW i PROVE Operand(source[i], L!Where(source)) = source[i].val + Value(i)
BY DEF Operand, Value

LEMMA AnyArgIs ==
    ASSUME TypeInv, Resolved, NEW i, NEW x, NEW op, NEW v, NEW ld16, NEW a,
           Is(x, i, op, v, ld16, a)
    PROVE  /\ Encodable(x) <=> /\ Known(i) /\ Encoded(x) # NoNr
                               /\ op = "defw" => source[i].name = NoName \/ v = 0
           /\ Known(i) => Value(i) \in Int /\ Arg(x) = v + Value(i)
<1>1. x.name = source[i].name /\ x.val = v /\ ~x.byte2 /\ x.op = op
  BY DEF Is
<1>2. Unresolved(x) <=> ~(Known(i) /\ (op = "defw" => source[i].name = NoName \/ v = 0))
  BY <1>1 DEF Unresolved, Known, Resolved, Calculated
<1>3. Known(i) /\ source[i].name # NoName =>
            /\ symbols[source[i].name].addr = L!Where(source)[source[i].name]
            /\ symbols[source[i].name].addr \in Int
  <2> SUFFICES ASSUME Known(i), source[i].name # NoName
               PROVE  /\ symbols[source[i].name].addr = L!Where(source)[source[i].name]
                      /\ symbols[source[i].name].addr \in Int
    OBVIOUS
  <2>1. source[i].name \in L!Defined(source) /\ source[i].name \in DOMAIN symbols
    BY DEF Known, Resolved
  <2>2. symbols[source[i].name] \in [ptr : Int, addr : Int]
    BY <2>1 DEF TypeInv, TypeOK
  <2> QED  BY <2>1, <2>2 DEF Resolved
<1>4. Known(i) => Value(i) \in Int /\ Arg(x) = v + Value(i)
  BY <1>1, <1>3 DEF Arg, Value
<1> QED  BY <1>1, <1>2, <1>4 DEF Encodable

LEMMA ArgIs ==
    ASSUME TypeInv, Resolved, NEW i, NEW x, NEW op, NEW v, NEW ld16, NEW a,
           Is(x, i, op, v, ld16, a), op # "defw"
    PROVE  /\ Encodable(x) <=> Known(i) /\ Encoded(x) # NoNr
           /\ Known(i) => Value(i) \in Int /\ Arg(x) = v + Value(i)
BY AnyArgIs

LEMMA WordEntry ==
    ASSUME TypeInv, NEW u, NEW role, NEW ptr, Table(u, role, ptr),
           NEW i \in 1 .. Len(source), Kind(source[i]) \in ItemKinds,
           NEW k \in 1 .. Size(source[i]), ~Items(source[i])[k].byte
    PROVE  LET y == Items(source[i])[k]
           IN  Is(instructions[Index(source, i, k)], i, y.op, y.val, y.ld16,
                  AddressOf(source, i, k))
<1>1. Entry(u, role, i, k)
  BY Entries
<1>2. role[Index(source, i, k)] = "single"
  BY <1>1 DEF Entry
<1> QED  BY <1>1, <1>2 DEF Entry, Is

LEMMA SignedbitsIs ==
    ASSUME NEW v \in Int, NEW span \in Nat, span > 0, span % 2 = 0
    PROVE  (Signedbits(v, span) # NoNr) <=> v \in -(span \div 2 - 1) .. span \div 2 - 1
<1>1. CASE v \in -(span \div 2 - 1) .. span \div 2 - 1
  BY <1>1, SignedInverts
<1>2. CASE v \notin -(span \div 2 - 1) .. span \div 2 - 1
  BY <1>2 DEF Signedbits
<1> QED  BY <1>1, <1>2

LEMMA SpansAre ==
    /\ Low \in Nat /\ Low > 0 /\ High \in Nat /\ High > 0
    /\ BrSpan \in Nat /\ BrSpan > 0 /\ BrSpan % 2 = 0
    /\ 2 * Low \in Nat /\ 2 * Low > 0 /\ (2 * Low) % 2 = 0 /\ (2 * Low) \div 2 = Low
    /\ Words \in Nat /\ Words >= 65536
<1>1. BrSpan \in Nat /\ BrSpan > 0 /\ BrSpan % 2 = 0
  BY WordsType, AsmSourceAssumption
<1>2. Low \in Nat /\ Low > 0 /\ High \in Nat /\ High > 0
  BY SourceTypes
<1>3. 2 * Low \in Nat /\ 2 * Low > 0 /\ (2 * Low) % 2 = 0 /\ (2 * Low) \div 2 = Low
  BY <1>2
<1> QED  BY <1>1, <1>2, <1>3, WordsType

\* The line is accepted, in the words of the layout.
LineFits(i) == Known(i) /\ L!Fits(source, i)

\* The line is no word of data with an expression.
Plain(i) == source[i].op = "defw" => source[i].name = NoName \/ source[i].val = 0

\* A br, and where it goes.
LEMMA BrEntry ==
    ASSUME TypeInv, Resolved, NEW i \in 1 .. Len(source), source[i] \in Lines,
           source[i].op = "br", NEW x, NEW ld16,
           Is(x, i, "br", source[i].val, ld16, L!Address(source, i))
    PROVE  /\ Encodable(x) <=> LineFits(i)
           /\ Encodable(x) => BranchTarget(LoadedAt(L!Address(source, i)), Encoded(x))
                                = LoadedAt(Operand(source[i], L!Where(source))) % Words
<1> DEFINE v == Operand(source[i], L!Where(source))
           a == L!Address(source, i)
<1>1. source[i].val \in Int /\ source \in Seq(Lines) /\ a \in Int
  BY KindIs, ListedTypes, AddressType
<1>2. /\ Encodable(x) <=> Known(i) /\ Encoded(x) # NoNr
      /\ Known(i) => v \in Int /\ Arg(x) = v
  BY <1>1, ArgIs, OperandIs
<1>3. /\ Encoded(x) = Signedbits(Offset(x), BrSpan) /\ x.addr = a
      /\ Offset(x) = Arg(x) - (a + 2)
  BY DEF Encoded, Is, Offset
<1>4. L!Fits(source, i) <=> v - (a + 2) \in -(BrSpan \div 2 - 1) .. BrSpan \div 2 - 1
  BY DEF L!Fits, L!Operand, Operand
<1> HIDE DEF v, a
<1>5. Known(i) => ((Encoded(x) # NoNr) <=> L!Fits(source, i))
  BY <1>1, <1>2, <1>3, <1>4, SignedbitsIs, SpansAre
<1>6. ASSUME Known(i), L!Fits(source, i)
      PROVE  BranchTarget(LoadedAt(a), Encoded(x)) = LoadedAt(v) % Words
  <2>1. v \in Int /\ Encoded(x) = Signedbits(v - (a + 2), BrSpan)
        /\ v - (a + 2) \in -(BrSpan \div 2 - 1) .. BrSpan \div 2 - 1
    BY <1>2, <1>3, <1>4, <1>6
  <2>2. codePtr \in Int
    BY DEF TypeInv, TypeOK
  <2>3. /\ Signedbits(v - (a + 2), BrSpan) = (v - (a + 2)) % BrSpan
        /\ BranchTarget(a - codePtr, (v - (a + 2)) % BrSpan) = (v - codePtr) % Words
    BY <1>1, <2>1, <2>2, BranchGoes
  <2> QED  BY <2>1, <2>3 DEF LoadedAt
<1> QED  BY <1>2, <1>5, <1>6 DEF LineFits, v, a

\* An ldi, and what it loads.
LEMMA LdiEntry ==
    ASSUME TypeInv, Resolved, NEW i, NEW v \in Int, NEW x, NEW ld16, NEW a,
           Is(x, i, "ldi", v, ld16, a)
    PROVE  /\ Encodable(x) <=> Known(i) /\ v + Value(i) \in -(Low - 1) .. Low - 1
           /\ Encodable(x) => Ldi(Encoded(x)) = (v + Value(i)) % Words
<1> DEFINE w == v + Value(i)
<1>1. /\ Encodable(x) <=> Known(i) /\ Encoded(x) # NoNr
      /\ Known(i) => w \in Int /\ Arg(x) = w
  BY ArgIs
<1>2. Encoded(x) = Signedbits(Arg(x), 2 * Low)
  BY DEF Encoded, Is
<1> HIDE DEF w
<1>3. Known(i) => ((Encoded(x) # NoNr) <=> w \in -(Low - 1) .. Low - 1)
  BY <1>1, <1>2, SignedbitsIs, SpansAre
<1>4. Known(i) /\ w \in -(Low - 1) .. Low - 1 => Ldi(Encoded(x)) = w % Words
  BY <1>1, <1>2, LdiLoads
<1> QED  BY <1>1, <1>3, <1>4 DEF w

\* The two instructions that load a word.
LEMMA LowEntry ==
    ASSUME TypeInv, Resolved, NEW i, NEW v \in Int, NEW x, NEW ld16, NEW a,
           Is(x, i, "lda", v, ld16, a)
    PROVE  /\ Encodable(x) <=> Known(i)
           /\ Known(i) => Encoded(x) = (v + Value(i)) % Low
<1> DEFINE w == v + Value(i)
           p == w % Low
<1>1. /\ Encodable(x) <=> Known(i) /\ Encoded(x) # NoNr
      /\ Known(i) => w \in Int /\ Arg(x) = w
  BY ArgIs
<1>2. Encoded(x) = Signedbits(Arg(x) % Low, 2 * Low)
  BY DEF Encoded, Is, LowPart
<1>3. Known(i) => p \in 0 .. Low - 1
  BY <1>1, PairLoads
<1>4. Known(i) => Encoded(x) = Signedbits(p, 2 * Low)
  BY <1>1, <1>2
<1> HIDE DEF p, w
<1>5. ASSUME Known(i) PROVE Encoded(x) = p /\ Encoded(x) # NoNr
  <2>1. p \in Int /\ p \in -((2 * Low) \div 2 - 1) .. (2 * Low) \div 2 - 1
    BY <1>3, <1>5, SpansAre
  <2>2. Signedbits(p, 2 * Low) = p % (2 * Low)
    BY <2>1, SpansAre, SignedInverts
  <2>3. p % (2 * Low) = p
    BY <1>3, <1>5, SpansAre
  <2> QED  BY <1>3, <1>4, <1>5, <2>2, <2>3 DEF NoNr
<1> QED  BY <1>1, <1>5 DEF p, w

LEMMA HighEntry ==
    ASSUME TypeInv, Resolved, NEW i, NEW v \in Int, NEW x, NEW ld16, NEW a,
           Is(x, i, "addhi", v, ld16, a), ld16 \in BOOLEAN
    PROVE  /\ ~ld16 => /\ Encodable(x) <=> Known(i)
                       /\ Known(i) => Encoded(x) = ((v + Value(i)) \div Low) % High
           /\ ld16 /\ source[i].name = NoName /\ v \in 0 .. High - 1 =>
                Encodable(x) /\ Encoded(x) = v
<1> DEFINE w == v + Value(i)
           p == (w \div Low) % High
<1>1. /\ Encodable(x) <=> Known(i) /\ Encoded(x) # NoNr
      /\ Known(i) => w \in Int /\ Arg(x) = w
  BY ArgIs
<1>2. Encoded(x) = Unsignedbits(IF ld16 THEN Arg(x) ELSE (Arg(x) \div Low) % High, High)
  BY DEF Encoded, Is, HighPart
<1>3. Known(i) => p \in 0 .. High - 1
  BY <1>1, PairLoads
<1>4. ~ld16 /\ Known(i) => Encoded(x) = Unsignedbits(p, High)
  BY <1>1, <1>2
<1>5. ld16 /\ Known(i) => Encoded(x) = Unsignedbits(w, High)
  BY <1>1, <1>2
<1> HIDE DEF p
<1>6. ~ld16 /\ Known(i) => Encoded(x) = p /\ Encoded(x) # NoNr
  BY <1>3, <1>4, SpansAre DEF Unsignedbits, NoNr
<1>7. ASSUME ld16, source[i].name = NoName, v \in 0 .. High - 1
      PROVE  Encodable(x) /\ Encoded(x) = v
  <2>1. Known(i) /\ w = v
    BY <1>7 DEF Known, Value
  <2>2. Encoded(x) = Unsignedbits(v, High)
    BY <1>5, <1>7, <2>1
  <2>3. Encoded(x) = v /\ Encoded(x) # NoNr
    BY <1>7, <2>2, SpansAre DEF Unsignedbits, NoNr
  <2> QED  BY <1>1, <2>1, <2>3
<1>8. Encodable(x) <=> Known(i) /\ Encoded(x) # NoNr
  BY <1>1
<1> HIDE DEF w
<1> QED  BY <1>6, <1>7, <1>8 DEF p, w

\* A word of data.
LEMMA DefwEntry ==
    ASSUME TypeInv, Resolved, NEW i, NEW v \in Int, NEW x, NEW ld16, NEW a,
           Is(x, i, "defw", v, ld16, a)
    PROVE  /\ Encodable(x) <=> /\ Known(i) /\ v + Value(i) \in 0 .. Words - 1
                               /\ source[i].name = NoName \/ v = 0
           /\ Encodable(x) => Encoded(x) = v + Value(i)
<1> DEFINE w == v + Value(i)
<1>1. /\ Encodable(x) <=> /\ Known(i) /\ Encoded(x) # NoNr
                          /\ source[i].name = NoName \/ v = 0
      /\ Known(i) => w \in Int /\ Arg(x) = w
  BY AnyArgIs
<1>2. Encoded(x) = Unsignedbits(Arg(x), Words)
  BY DEF Encoded, Is
<1> HIDE DEF w
<1>3. Known(i) => ((Encoded(x) # NoNr) <=> w \in 0 .. Words - 1)
  BY <1>1, <1>2, SpansAre DEF Unsignedbits, NoNr
<1>4. Known(i) /\ w \in 0 .. Words - 1 => Encoded(x) = w
  BY <1>1, <1>2 DEF Unsignedbits
<1> QED  BY <1>1, <1>3, <1>4 DEF w

-----------------------------------------------------------------------------
\* What each kind of line stands for.

\* An item that is no byte.
Shape(y, op, v, ld16) == y.op = op /\ y.val = v /\ y.ld16 = ld16 /\ ~y.byte

LEMMA InstructionShape ==
    ASSUME NEW op \in ItemOps, NEW name \in Names \cup {NoName}, NEW v \in Int
    PROVE  /\ Shape(Instruction(op, name, v), op, v, FALSE)
           /\ Shape([Instruction(op, name, v) EXCEPT !.ld16 = TRUE], op, v, TRUE)
           /\ Shape([Instruction(op, name, v) EXCEPT !.bss = TRUE], op, v, FALSE)
BY DEF Shape, Instruction

\* What a line stands for.
LEMMA Single ==
    ASSUME NEW l \in Lines, l.op \in {"plain", "br", "ldi", "defw"}
    PROVE  /\ Kind(l) = IF l.op = "defw" THEN "data" ELSE "code"
           /\ Size(l) = 1 /\ Shape(Items(l)[1], l.op, l.val, FALSE)
<1>1. l.val \in Int /\ l.name \in Names \cup {NoName} /\ l.op \in ItemOps
  BY KindIs DEF ItemOps
<1>2. Items(l) = <<Instruction(l.op, l.name, l.val)>>
  BY DEF Items
<1>3. Kind(l) = IF l.op = "defw" THEN "data" ELSE "code"
  BY DEF Kind, Directives, MemOps
<1>4. Size(l) = Len(Items(l))
  BY <1>3, KindIs DEF ItemKinds
<1>5. Shape(Instruction(l.op, l.name, l.val), l.op, l.val, FALSE)
  BY <1>1, InstructionShape
<1> DEFINE x == Instruction(l.op, l.name, l.val)
<1>6. Items(l) = <<x>> /\ Shape(x, l.op, l.val, FALSE)
  BY <1>2, <1>5
<1> HIDE DEF x
<1>7. Len(Items(l)) = 1 /\ Items(l)[1] = x
  BY <1>6
<1> QED  BY <1>3, <1>4, <1>6, <1>7

LEMMA La16Items ==
    ASSUME NEW l \in Lines, l.op = "la16"
    PROVE  /\ Kind(l) = "code" /\ Size(l) = 2
           /\ Shape(Items(l)[1], "lda", l.val, FALSE)
           /\ Shape(Items(l)[2], "addhi", l.val, FALSE)
<1>1. l.val \in Int /\ l.name \in Names \cup {NoName}
  BY KindIs
<1>2. Items(l) = <<Instruction("lda", l.name, l.val), Instruction("addhi", l.name, l.val)>>
  BY DEF Items
<1>3. Kind(l) = "code"
  BY DEF Kind, Directives, MemOps
<1>4. Size(l) = Len(Items(l))
  BY <1>3, KindIs DEF ItemKinds
<1>5. /\ Shape(Instruction("lda", l.name, l.val), "lda", l.val, FALSE)
      /\ Shape(Instruction("addhi", l.name, l.val), "addhi", l.val, FALSE)
  BY <1>1, InstructionShape DEF ItemOps
<1> DEFINE x == Instruction("lda", l.name, l.val)
           y == Instruction("addhi", l.name, l.val)
<1>6. Items(l) = <<x, y>> /\ Shape(x, "lda", l.val, FALSE) /\ Shape(y, "addhi", l.val, FALSE)
  BY <1>2, <1>5
<1> HIDE DEF x, y
<1>7. Len(Items(l)) = 2 /\ Items(l)[1] = x /\ Items(l)[2] = y
  BY <1>6
<1> QED  BY <1>3, <1>4, <1>6, <1>7

LEMMA Ld16Items ==
    ASSUME NEW l \in Lines, l.op = "ld16"
    PROVE  /\ Kind(l) = "code" /\ l.val \in Int /\ l.name = NoName
           /\ l.val <= Low - 1 => Size(l) = 1 /\ Shape(Items(l)[1], "ldi", l.val, FALSE)
           /\ ~(l.val <= Low - 1) =>
                /\ Size(l) = 2 /\ Shape(Items(l)[1], "ldi", l.val % Low, TRUE)
                /\ Shape(Items(l)[2], "addhi", (l.val \div Low) % High, TRUE)
<1>1. l.val \in Int /\ NoName \in Names \cup {NoName}
  BY KindIs
<1>2. Items(l) = Ld16(l.val)
  BY DEF Items
<1>3. Kind(l) = "code"
  BY DEF Kind, Directives, MemOps
<1>4. Size(l) = Len(Items(l))
  BY <1>3, KindIs DEF ItemKinds
<1>5. l.name = NoName
  BY LinesAssumption
<1> DEFINE v == l.val
           p == v % Low
           q == (v \div Low) % High
<1>6. p \in Int /\ q \in Int
  BY <1>1, PairLoads
<1>7. v <= Low - 1 => Items(l) = <<Instruction("ldi", NoName, v)>>
  BY <1>2 DEF Ld16, LastLoads
<1>8. ~(v <= Low - 1) =>
        Items(l) = << [Instruction("ldi", NoName, p) EXCEPT !.ld16 = TRUE],
                      [Instruction("addhi", NoName, q) EXCEPT !.ld16 = TRUE] >>
  BY <1>2 DEF Ld16, LastLoads
<1>9. v \in Int
  BY <1>1
<1> HIDE DEF p, q, v
<1>10. /\ Shape(Instruction("ldi", NoName, v), "ldi", v, FALSE)
       /\ Shape([Instruction("ldi", NoName, p) EXCEPT !.ld16 = TRUE], "ldi", p, TRUE)
       /\ Shape([Instruction("addhi", NoName, q) EXCEPT !.ld16 = TRUE], "addhi", q, TRUE)
  BY <1>1, <1>6, <1>9, InstructionShape DEF ItemOps, LineOps
<1> DEFINE x == Instruction("ldi", NoName, v)
           y == [Instruction("ldi", NoName, p) EXCEPT !.ld16 = TRUE]
           z == [Instruction("addhi", NoName, q) EXCEPT !.ld16 = TRUE]
<1>a. /\ Shape(x, "ldi", v, FALSE) /\ Shape(y, "ldi", p, TRUE) /\ Shape(z, "addhi", q, TRUE)
      /\ v <= Low - 1 => Items(l) = <<x>>
      /\ ~(v <= Low - 1) => Items(l) = <<y, z>>
  BY <1>7, <1>8, <1>10
<1> HIDE DEF x, y, z
<1>b. /\ v <= Low - 1 => Len(Items(l)) = 1 /\ Items(l)[1] = x
      /\ ~(v <= Low - 1) => Len(Items(l)) = 2 /\ Items(l)[1] = y /\ Items(l)[2] = z
  BY <1>a
<1>11. /\ v <= Low - 1 => Size(l) = 1 /\ Shape(Items(l)[1], "ldi", v, FALSE)
       /\ ~(v <= Low - 1) => /\ Size(l) = 2 /\ Shape(Items(l)[1], "ldi", p, TRUE)
                             /\ Shape(Items(l)[2], "addhi", q, TRUE)
  BY <1>4, <1>a, <1>b
<1> QED  BY <1>1, <1>3, <1>5, <1>11 DEF v, p, q

\* An item has an expression that only la16 may have if its line has one.
LEMMA ItemCalculated ==
    ASSUME NEW l \in Lines, Kind(l) = "code", NEW k \in 1 .. Size(l)
    PROVE  LET y == Items(l)[k]
           IN  (Calculated(y) => y.op \in {"lda", "addhi"})
                    <=> (Calculated(l) => l.op = "la16")
<1> DEFINE y == Items(l)[k]
<1>1. y.name = l.name
  <2>1. Kind(l) \in ItemKinds
    BY DEF ItemKinds
  <2>2. Items(l) \in Seq(Fresh) /\ Size(l) = Len(Items(l))
    BY <2>1, KindIs
  <2>3. y \in Fresh
    BY <2>2
  <2> QED  BY <2>1, ItemNames
<1>2. l.op \in {"plain", "br", "ldi", "ld16", "la16"}
  <2>1. l.op \in LineOps
    BY KindIs
  <2> QED  BY <2>1 DEF LineOps, Kind, MemOps, Directives
<1>3. CASE l.op \in {"plain", "br", "ldi"}
  <2>1. Size(l) = 1 /\ Shape(Items(l)[1], l.op, l.val, FALSE)
    BY <1>3, Single
  <2>2. y.op = l.op /\ y.val = l.val
    BY <2>1 DEF Shape
  <2> HIDE DEF y
  <2>3. Calculated(y) <=> Calculated(l)
    BY <1>1, <2>2 DEF Calculated
  <2> QED  BY <1>3, <2>2, <2>3 DEF y
<1>4. CASE l.op = "la16"
  <2>1. /\ Size(l) = 2 /\ Shape(Items(l)[1], "lda", l.val, FALSE)
        /\ Shape(Items(l)[2], "addhi", l.val, FALSE)
    BY <1>4, La16Items
  <2>2. k = 1 \/ k = 2
    BY <2>1
  <2>3. y.op \in {"lda", "addhi"}
    BY <2>1, <2>2 DEF Shape
  <2> QED  BY <1>4, <2>3
<1>5. CASE l.op = "ld16"
  <2>1. l.name = NoName
    BY <1>5, Ld16Items
  <2> QED  BY <1>1, <2>1 DEF Calculated
<1> QED  BY <1>2, <1>3, <1>4, <1>5

\* The lines that idsymbols lets through.
Passed ==
    \A i \in DOMAIN source : Calculated(source[i]) => source[i].op \in {"la16", "defw"}

\* It stops at an expression in an instruction, and at no other.
LEMMA IdsymbolsChecks ==
    ASSUME TypeInv, IInv, Parsed
    PROVE  (\A j \in DOMAIN instructions :
                Calculated(instructions[j]) => instructions[j].op \in {"lda", "addhi"})
                <=> Passed
<1>1. /\ source \in Seq(Lines) /\ instructions \in Seq(Coded)
  BY ListedTypes
<1>2. DOMAIN source = 1 .. Len(source) /\ DOMAIN instructions = 1 .. Len(instructions)
      /\ \A i \in 1 .. Len(source) : source[i] \in Lines
  BY <1>1
<1>3. ASSUME NEW i \in 1 .. Len(source), Kind(source[i]) = "code",
             NEW k \in 1 .. Size(source[i])
      PROVE  LET y == ItemOf(source, i, k)
             IN  (Calculated(y) => y.op \in {"lda", "addhi"})
                    <=> (Calculated(source[i]) => source[i].op = "la16")
  <2> DEFINE x == Items(source[i])[k]
             y == ItemOf(source, i, k)
  <2>1. x \in Item
    <3>1. Kind(source[i]) \in ItemKinds
      BY <1>3 DEF ItemKinds
    <3>2. Items(source[i]) \in Seq(Fresh) /\ Size(source[i]) = Len(Items(source[i]))
      BY <1>2, <3>1, KindIs
    <3>3. x \in Fresh
      BY <3>2
    <3> QED  BY <3>3 DEF Fresh
  <2>2. y = [x EXCEPT !.nr = Numbers(source)[i - 1] + k - 1]
    BY <1>3 DEF ItemOf
  <2>3. (Calculated(x) => x.op \in {"lda", "addhi"})
            <=> (Calculated(source[i]) => source[i].op = "la16")
    BY <1>2, <1>3, ItemCalculated
  <2> HIDE DEF x, y
  <2>4. y.name = x.name /\ y.val = x.val /\ y.op = x.op
    BY <2>1, <2>2 DEF Item
  <2>5. Calculated(y) <=> Calculated(x)
    BY <2>4 DEF Calculated
  <2> QED  BY <2>3, <2>4, <2>5 DEF y
<1>4. ASSUME NEW i \in 1 .. Len(source), Kind(source[i]) # "code", Calculated(source[i])
      PROVE  source[i].op = "defw"
  <2>1. source[i].name # NoName /\ source[i].val # 0
    BY <1>4 DEF Calculated
  <2>2. source[i].op \in {"br", "plain", "ldi", "la16", "defw"}
    BY <1>2, <2>1, LinesAssumption
  <2>3. Kind(source[i]) = "code" \/ source[i].op = "defw"
    BY <2>2 DEF Kind, MemOps, Directives
  <2> QED  BY <1>4, <2>3
<1>5. ASSUME Passed, NEW j \in 1 .. Len(instructions), Calculated(instructions[j])
      PROVE  instructions[j].op \in {"lda", "addhi"}
  <2>1. PICK i \in 1 .. Len(source) : \E k \in 1 .. Size(source[i]) :
            Kind(source[i]) = "code" /\ instructions[j] = ItemOf(source, i, k)
    BY CodeItems
  <2>2. PICK k \in 1 .. Size(source[i]) :
            Kind(source[i]) = "code" /\ instructions[j] = ItemOf(source, i, k)
    BY <2>1
  <2>3. source[i].op # "defw"
    BY <2>2 DEF Kind, MemOps, Directives
  <2>4. Calculated(source[i]) => source[i].op = "la16"
    BY <1>2, <1>5, <2>3 DEF Passed
  <2> QED  BY <1>3, <1>5, <2>2, <2>4
<1>6. ASSUME \A j \in DOMAIN instructions :
                Calculated(instructions[j]) => instructions[j].op \in {"lda", "addhi"},
             NEW i \in 1 .. Len(source), Calculated(source[i])
      PROVE  source[i].op \in {"la16", "defw"}
  <2>1. CASE Kind(source[i]) = "code"
    <3>1. /\ 1 \in 1 .. Size(source[i])
          /\ \E j \in 1 .. Len(instructions) : instructions[j] = ItemOf(source, i, 1)
      BY <2>1, CodeItems
    <3>2. PICK j \in 1 .. Len(instructions) : instructions[j] = ItemOf(source, i, 1)
      BY <3>1
    <3>3. Calculated(instructions[j]) => instructions[j].op \in {"lda", "addhi"}
      BY <1>2, <1>6
    <3>4. Calculated(source[i]) => source[i].op = "la16"
      BY <1>3, <2>1, <3>1, <3>2, <3>3
    <3> QED  BY <1>6, <3>4
  <2>2. CASE Kind(source[i]) # "code"
    BY <1>4, <1>6, <2>2
  <2> QED  BY <2>1, <2>2
<1> QED  BY <1>2, <1>5, <1>6 DEF Passed

\* A program that idsymbols ends is none that Layout accepts.
LEMMA IdsymbolsEnds ==
    ASSUME TypeInv, IInv, Parsed, Idsymbols
    PROVE  \/ pc' = "placeinstr" /\ Passed'
           \/ pc' = "error" /\ source' = source /\ ~L!Acceptable(source)
<1>1. source' = source /\ (Passed => pc' = "placeinstr") /\ (~Passed => pc' = "error")
  BY IdsymbolsChecks DEF Idsymbols
<1>2. Passed' <=> Passed
  BY <1>1 DEF Passed
<1>3. L!Acceptable(source) => Passed
  BY DEF L!Acceptable, L!Calculable, L!Calculated, Calculated, Passed
<1> QED  BY <1>1, <1>2, <1>3

LEMMA DefsItems ==
    ASSUME NEW l \in Lines, l.op = "defs"
    PROVE  /\ Kind(l) = "bss" /\ l.name = NoName
           /\ \A k \in 1 .. Size(l) : Shape(Items(l)[k], "defw", 0, FALSE)
<1>1. Kind(l) = "bss" /\ l.name = NoName
  BY LinesAssumption DEF Kind, Directives
<1>2. Size(l) = Len(Items(l))
  BY <1>1, KindIs DEF ItemKinds
<1>3. Items(l) = [i \in 1 .. l.val \div 2 |->
                    [Instruction("defw", NoName, 0) EXCEPT !.bss = TRUE]]
  BY DEF Items
<1>4. Shape([Instruction("defw", NoName, 0) EXCEPT !.bss = TRUE], "defw", 0, FALSE)
  <2>1. "defw" \in ItemOps /\ NoName \in Names \cup {NoName} /\ 0 \in Int
    BY DEF ItemOps, LineOps
  <2> QED  BY <2>1, InstructionShape
<1>5. l.val \div 2 \in Nat
  <2>1. l.val \in Int /\ l.val >= 0
    BY KindIs, LinesAssumption
  <2> QED  BY <2>1
<1>6. Len(Items(l)) = l.val \div 2
  BY <1>3, <1>5
<1> QED  BY <1>1, <1>2, <1>3, <1>4, <1>6

\* The bytes of a line, with the zero behind those of a string.
Chars(l) == IF l.op = "defstr" THEN Append(l.chars, 0) ELSE <<l.val>>

LEMMA ByteItems ==
    ASSUME NEW l \in Lines, l.op \in {"defb", "defstr"}
    PROVE  /\ Kind(l) = "data" /\ l.name = NoName
           /\ Chars(l) \in Seq(Int) /\ Size(l) = Len(Chars(l))
           /\ \A k \in 1 .. Size(l) : Items(l)[k].byte /\ Items(l)[k].val = Chars(l)[k]
<1>1. Kind(l) = "data" /\ l.name = NoName /\ l.op # "defw"
  BY LinesAssumption DEF Kind, Directives, MemOps
<1>2. Size(l) = Len(Items(l)) /\ l.val \in Int /\ l.chars \in Seq(Int)
  BY <1>1, KindIs DEF ItemKinds
<1>3. \A v : Byte(v).val = v
  BY DEF Byte, Instruction
<1>4. \A k \in 1 .. Size(l) : Items(l)[k].byte
  BY <1>1, ItemMarks DEF ItemKinds
<1>5. CASE l.op = "defb"
  <2>1. Items(l) = <<Byte(l.val)>> /\ Chars(l) = <<l.val>>
    BY <1>5 DEF Items, Chars
  <2>2. Items(l)[1].val = l.val
    BY <1>3, <2>1
  <2>3. Size(l) = 1 /\ Len(Chars(l)) = 1 /\ Chars(l) \in Seq(Int) /\ Chars(l)[1] = l.val
    BY <1>2, <2>1
  <2> QED  BY <1>1, <1>4, <2>2, <2>3
<1>6. CASE l.op = "defstr"
  <2> DEFINE s == l.chars
             n == Len(s)
             z == 0
  <2>1. /\ Items(l) = [i \in 1 .. n + 1 |-> Byte(IF i > n THEN 0 ELSE s[i])]
        /\ Chars(l) = Append(s, z) /\ s \in Seq(Int) /\ n = Len(s) /\ z \in Int
    BY <1>2, <1>6 DEF Items, Chars
  <2> HIDE DEF s, n, z
  <2>2. /\ Chars(l) \in Seq(Int) /\ Len(Chars(l)) = n + 1 /\ Chars(l)[n + 1] = z
        /\ \A i \in 1 .. n : Chars(l)[i] = s[i]
        /\ n \in Nat
    BY <2>1, Appended
  <2>3. Size(l) = n + 1
    BY <1>2, <2>1, <2>2
  <2>4. \A k \in 1 .. n + 1 : Items(l)[k] = Byte(IF k > n THEN 0 ELSE s[k])
    BY <2>1
  <2>5. \A k \in 1 .. n + 1 : Items(l)[k].val = Chars(l)[k]
    <3> SUFFICES ASSUME NEW k \in 1 .. n + 1 PROVE Items(l)[k].val = Chars(l)[k]
      OBVIOUS
    <3>1. Items(l)[k].val = IF k > n THEN 0 ELSE s[k]
      BY <1>3, <2>4
    <3>2. CASE k > n
      <4>1. k = n + 1
        BY <2>2, <3>2
      <4> QED  BY <2>2, <3>1, <3>2, <4>1 DEF z
    <3>3. CASE ~(k > n)
      <4>1. k \in 1 .. n
        BY <2>2, <3>3
      <4> QED  BY <2>2, <3>1, <3>3, <4>1
    <3> QED  BY <3>2, <3>3
  <2> QED  BY <1>1, <1>4, <2>2, <2>3, <2>5
<1> QED  BY <1>5, <1>6

-----------------------------------------------------------------------------
\* The encoder accepts exactly the lines that fit.

LEMMA ByteValues ==
    ASSUME NEW src \in Seq(Lines), NEW S, NEW u \in Seq(S), Laid(u, src),
           NEW j \in 1 .. Len(u), u[j].byte
    PROVE  u[j].op = "defb" /\ u[j].name = NoName /\ u[j].val \in 0 .. 255
<1>1. PICK i \in 1 .. Len(src) : \E k \in 1 .. Size(src[i]) :
            Kind(src[i]) \in ItemKinds /\ j = Index(src, i, k)
  BY LaidCovers
<1>2. PICK k \in 1 .. Size(src[i]) : Kind(src[i]) \in ItemKinds /\ j = Index(src, i, k)
  BY <1>1
<1> DEFINE y == Items(src[i])[k]
           nr == Numbers(src)[i - 1] + k - 1
           v == u[j]
<1>3. y \in Fresh /\ v = [y EXCEPT !.nr = nr]
  <2>1. y \in Fresh /\ v = ItemOf(src, i, k)
    BY <1>2, LaidFresh
  <2>2. ItemOf(src, i, k) = [y EXCEPT !.nr = nr]
    BY <1>2 DEF ItemOf, ItemKinds
  <2> QED  BY <2>1, <2>2
<1>4. src[i] \in Lines
  OBVIOUS
<1>5. y.byte => y.val \in 0 .. 255 /\ y.op = "defb" /\ y.name = NoName
  BY <1>2, <1>4, ItemMarks
<1>6. v.byte
  OBVIOUS
<1> HIDE DEF y, nr, v
<1>7. v.byte = y.byte /\ v.val = y.val /\ v.op = y.op /\ v.name = y.name
  BY <1>3 DEF Fresh, Item
<1> QED  BY <1>5, <1>6, <1>7 DEF v

\* A byte, alone, with the next one, or with the one before.
LEMMA ByteMade ==
    ASSUME TypeInv, NEW u, NEW role, NEW ptr, Table(u, role, ptr),
           NEW j \in 1 .. Len(u), u[j].byte
    PROVE  LET x == instructions[j]
           IN  /\ x.op = "defb" /\ u[j].val \in 0 .. 255 /\ Encodable(x)
               /\ x.byte2 <=> role[j] = "second"
               /\ role[j] = "single" => Encoded(x) = u[j].val
               /\ role[j] = "first" => /\ j + 1 \in 1 .. Len(u) /\ u[j + 1].val \in 0 .. 255
                                       /\ Encoded(x) = Merged(u[j].val, u[j + 1].val)
<1> DEFINE x == instructions[j]
           v == u[j].val
           w == u[j + 1].val
<1>1. source \in Seq(Lines)
  BY ListedTypes
<1>2. u \in Seq(Fresh) /\ Laid(u, source) /\ Placing(u, L!Base(source), role, ptr)
      /\ Made(x, u, role, ptr, j)
  BY DEF Table
<1>3. u[j].op = "defb" /\ u[j].name = NoName /\ v \in 0 .. 255
  BY <1>1, <1>2, ByteValues
<1>4. role[j] = "first" => j + 1 \in 1 .. Len(u) /\ u[j + 1].byte
  BY <1>2, PlacingRoles
<1>5. role[j] = "first" => w \in 0 .. 255
  BY <1>1, <1>2, <1>4, ByteValues
<1>6. /\ x.op = "defb" /\ x.name = NoName
      /\ x.byte2 <=> role[j] = "second"
      /\ x.val = IF role[j] = "first" THEN Merged(v, w) ELSE v
  BY <1>2, <1>3 DEF Made
<1>7. x.val \in Nat /\ x.val < 65536
  <2>1. \A b \in 0 .. 255 : b \in Nat /\ b < 65536
    OBVIOUS
  <2>a. v \in 0 .. 255 /\ (role[j] = "first" => w \in 0 .. 255)
    BY <1>3, <1>5
  <2> HIDE DEF v, w
  <2>3. v \in Nat /\ v < 65536
    BY <2>a, <2>1
  <2>4. ASSUME role[j] = "first" PROVE Merged(v, w) \in Nat /\ Merged(v, w) < 65536
    <3>1. w \in 0 .. 255 /\ v \in 0 .. 255
      BY <2>a, <2>4
    <3> QED  BY <3>1 DEF Merged
  <2> DEFINE n == x.val
  <2>5. n = IF role[j] = "first" THEN Merged(v, w) ELSE v
    BY <1>6
  <2> HIDE DEF n
  <2>6. n \in Nat /\ n < 65536
    BY <2>3, <2>4, <2>5
  <2> QED  BY <2>6 DEF n
<1>8. ~Unresolved(x) /\ Encoded(x) = Unsignedbits(Arg(x), Words) /\ Arg(x) = x.val + 0
  BY <1>6 DEF Unresolved, Encoded, Arg
<1> HIDE DEF x
<1> DEFINE n == x.val
<1>b. n \in Nat /\ n < 65536 /\ Arg(x) = n + 0
  BY <1>7, <1>8
<1> HIDE DEF n
<1>9. Arg(x) = n
  BY <1>b
<1>10. Encoded(x) = x.val /\ Encoded(x) # NoNr
  <2>1. n \in 0 .. Words - 1
    BY <1>b, SpansAre
  <2>2. Encoded(x) = n /\ n # NoNr
    BY <1>b, <1>8, <1>9, <2>1 DEF Unsignedbits, NoNr
  <2> QED  BY <2>2 DEF n
<1>11. Encodable(x)
  BY <1>8, <1>10 DEF Encodable
<1> HIDE DEF v, w
<1>12. /\ x.op = "defb" /\ v \in 0 .. 255 /\ Encodable(x)
       /\ x.byte2 <=> role[j] = "second"
       /\ role[j] = "single" => Encoded(x) = v
       /\ role[j] = "first" => /\ j + 1 \in 1 .. Len(u) /\ w \in 0 .. 255
                               /\ Encoded(x) = Merged(v, w)
  BY <1>3, <1>4, <1>5, <1>6, <1>10, <1>11
<1> QED  BY <1>12 DEF x, v, w

\* The item k of line i in the table.
Entered(i, k) == instructions[Index(source, i, k)]

LEMMA EnteredIs ==
    ASSUME TypeInv, NEW u, NEW role, NEW ptr, Table(u, role, ptr),
           NEW i \in 1 .. Len(source), Kind(source[i]) \in ItemKinds,
           NEW k \in 1 .. Size(source[i]), NEW op, NEW v, NEW ld16,
           Shape(Items(source[i])[k], op, v, ld16)
    PROVE  Is(Entered(i, k), i, op, v, ld16, AddressOf(source, i, k))
<1>1. /\ ~Items(source[i])[k].byte /\ Items(source[i])[k].op = op
      /\ Items(source[i])[k].val = v /\ Items(source[i])[k].ld16 = ld16
  BY DEF Shape
<1> QED  BY <1>1, WordEntry DEF Entered

\* All items of line i can be encoded.
Built(i) ==
    Kind(source[i]) \in ItemKinds => \A k \in 1 .. Size(source[i]) : Encodable(Entered(i, k))

LEMMA FirstAddress ==
    ASSUME NEW src \in Seq(Lines), NEW i \in 1 .. Len(src)
    PROVE  /\ AddressOf(src, i, 1) = L!Address(src, i) /\ L!Address(src, i) \in Int
           /\ Kind(src[i]) = "code" => AddressOf(src, i, 2) = L!Address(src, i) + 2
<1> DEFINE a == L!Address(src, i)
<1>1. a \in Int
  BY AddressType
<1>2. AddressOf(src, i, 1) = IF Kind(src[i]) = "data" THEN a + (1 - 1) ELSE a + 2 * (1 - 1)
  BY DEF AddressOf
<1>3. Kind(src[i]) = "code" => AddressOf(src, i, 2) = a + 2 * (2 - 1)
  BY DEF AddressOf
<1> HIDE DEF a
<1>4. AddressOf(src, i, 1) = a /\ (Kind(src[i]) = "code" => AddressOf(src, i, 2) = a + 2)
  BY <1>1, <1>2, <1>3
<1> QED  BY <1>1, <1>4 DEF a

\* The encoder accepts the lines whose names are defined and whose operands fit, but
\* no expressions in data.
LEMMA LineBuilt ==
    ASSUME TypeInv, Resolved, NEW u, NEW role, NEW ptr, Table(u, role, ptr),
           NEW i \in 1 .. Len(source)
    PROVE  Built(i) <=> LineFits(i) /\ Plain(i)
<1> DEFINE l == source[i]
           v == l.val
           w == Value(i)
           a == L!Address(source, i)
<1>1. source \in Seq(Lines) /\ l \in Lines /\ v \in Int /\ a \in Int
  BY ListedTypes, KindIs, FirstAddress
<1>2. ASSUME NEW k \in 1 .. Size(l), Kind(l) \in ItemKinds, NEW op, NEW x, NEW ld16,
             Shape(Items(l)[k], op, x, ld16)
      PROVE  Is(Entered(i, k), i, op, x, ld16, AddressOf(source, i, k))
  BY <1>2, EnteredIs
<1>3. Built(i) <=> (Kind(l) \in ItemKinds => \A k \in 1 .. Size(l) : Encodable(Entered(i, k)))
  BY DEF Built
<1>4. l.op \in LineOps
  BY <1>1, KindIs
<1>5. /\ Operand(l, L!Where(source)) = v + w
      /\ L!Operand(l, L!Where(source)) = v + w
  BY OperandIs DEF L!Operand, Operand
<1>6. l.name = NoName => Known(i) /\ w = 0
  BY DEF Known, Value
<1>7. ASSUME Kind(l) \notin ItemKinds PROVE Built(i) <=> LineFits(i)
  <2>1. l.op = "label" \/ l.op \in Directives
    BY <1>7 DEF Kind, ItemKinds
  <2>2. L!Fits(source, i)
    BY <2>1 DEF L!Fits, Directives
  <2>3. Known(i)
    <3>1. CASE l.op = "label"
      <4>1. l.name \in L!Defined(source)
        BY <1>1, <3>1 DEF L!Defined
      <4> QED  BY <4>1 DEF Known
    <3>2. CASE l.op \in Directives
      <4>1. l.name = NoName
        BY <1>1, <3>2, LinesAssumption DEF Directives
      <4> QED  BY <1>6, <4>1
    <3> QED  BY <2>1, <3>1, <3>2
  <2> QED  BY <1>3, <1>7, <2>2, <2>3 DEF LineFits
<1>8. ASSUME l.op = "plain" PROVE Built(i) <=> LineFits(i)
  <2>1. Kind(l) = "code" /\ Size(l) = 1 /\ Shape(Items(l)[1], "plain", v, FALSE)
    BY <1>1, <1>8, Single
  <2>2. Is(Entered(i, 1), i, "plain", v, FALSE, AddressOf(source, i, 1))
    <3>1. 1 \in 1 .. Size(l) /\ Kind(l) \in ItemKinds
      BY <2>1 DEF ItemKinds
    <3> QED  BY <1>2, <2>1, <3>1
  <2>3. Encodable(Entered(i, 1)) <=> Known(i) /\ Encoded(Entered(i, 1)) # NoNr
    BY <1>1, <2>2, ArgIs
  <2>4. Encoded(Entered(i, 1)) = 0
    BY <2>2 DEF Is, Encoded
  <2>5. L!Fits(source, i)
    BY <1>8 DEF L!Fits
  <2> QED  BY <1>3, <2>1, <2>3, <2>4, <2>5 DEF LineFits, NoNr, ItemKinds
<1>9. ASSUME l.op = "br" PROVE Built(i) <=> LineFits(i)
  <2>1. Kind(l) = "code" /\ Size(l) = 1 /\ Shape(Items(l)[1], "br", v, FALSE)
    BY <1>1, <1>9, Single
  <2>2. Is(Entered(i, 1), i, "br", v, FALSE, a)
    <3>1. 1 \in 1 .. Size(l) /\ Kind(l) \in ItemKinds
      BY <2>1 DEF ItemKinds
    <3>2. Is(Entered(i, 1), i, "br", v, FALSE, AddressOf(source, i, 1))
      BY <1>2, <2>1, <3>1
    <3> QED  BY <1>1, <3>2, FirstAddress
  <2>3. Encodable(Entered(i, 1)) <=> LineFits(i)
    BY <1>1, <1>9, <2>2, BrEntry
  <2> QED  BY <1>3, <2>1, <2>3 DEF ItemKinds
<1>10. ASSUME l.op = "ldi" PROVE Built(i) <=> LineFits(i)
  <2>1. Kind(l) = "code" /\ Size(l) = 1 /\ Shape(Items(l)[1], "ldi", v, FALSE)
    BY <1>1, <1>10, Single
  <2>2. Is(Entered(i, 1), i, "ldi", v, FALSE, AddressOf(source, i, 1))
    <3>1. 1 \in 1 .. Size(l) /\ Kind(l) \in ItemKinds
      BY <2>1 DEF ItemKinds
    <3> QED  BY <1>2, <2>1, <3>1
  <2>3. Encodable(Entered(i, 1)) <=> Known(i) /\ v + w \in -(Low - 1) .. Low - 1
    BY <1>1, <2>2, LdiEntry
  <2>4. L!Fits(source, i) <=> v + w \in -(Low - 1) .. Low - 1
    BY <1>5, <1>10 DEF L!Fits
  <2> QED  BY <1>3, <2>1, <2>3, <2>4 DEF LineFits, ItemKinds
<1>11. ASSUME l.op = "la16" PROVE Built(i) <=> LineFits(i)
  <2>1. /\ Kind(l) = "code" /\ Size(l) = 2 /\ Shape(Items(l)[1], "lda", v, FALSE)
        /\ Shape(Items(l)[2], "addhi", v, FALSE)
    BY <1>1, <1>11, La16Items
  <2>2. /\ Is(Entered(i, 1), i, "lda", v, FALSE, AddressOf(source, i, 1))
        /\ Is(Entered(i, 2), i, "addhi", v, FALSE, AddressOf(source, i, 2))
    <3>1. 1 \in 1 .. Size(l) /\ 2 \in 1 .. Size(l) /\ Kind(l) \in ItemKinds
      BY <2>1 DEF ItemKinds
    <3> QED  BY <1>2, <2>1, <3>1
  <2>3. Encodable(Entered(i, 1)) <=> Known(i)
    BY <1>1, <2>2, LowEntry
  <2>4. Encodable(Entered(i, 2)) <=> Known(i)
    BY <1>1, <2>2, HighEntry
  <2>5. L!Fits(source, i)
    BY <1>11 DEF L!Fits
  <2>6. \A k \in 1 .. Size(l) : k = 1 \/ k = 2
    BY <2>1
  <2>7. 1 \in 1 .. Size(l) /\ 2 \in 1 .. Size(l)
    BY <2>1
  <2> QED  BY <1>3, <2>1, <2>3, <2>4, <2>5, <2>6, <2>7 DEF LineFits, ItemKinds
<1>12. ASSUME l.op = "ld16" PROVE Built(i) <=> LineFits(i)
  <2>1. Kind(l) = "code" /\ l.name = NoName
    BY <1>1, <1>12, Ld16Items
  <2>2. Known(i) /\ w = 0
    BY <1>6, <2>1
  <2>3. L!Fits(source, i) <=> v > -Low
    BY <1>12 DEF L!Fits
  <2>4. CASE v <= Low - 1
    <3>1. Size(l) = 1 /\ Shape(Items(l)[1], "ldi", v, FALSE)
      BY <1>1, <1>12, <2>4, Ld16Items
    <3>2. Is(Entered(i, 1), i, "ldi", v, FALSE, AddressOf(source, i, 1))
      <4>1. 1 \in 1 .. Size(l) /\ Kind(l) \in ItemKinds
        BY <2>1, <3>1 DEF ItemKinds
      <4> QED  BY <1>2, <3>1, <4>1
    <3>3. Encodable(Entered(i, 1)) <=> Known(i) /\ v + w \in -(Low - 1) .. Low - 1
      BY <1>1, <3>2, LdiEntry
    <3> HIDE DEF v, w
    <3>4. v + w \in -(Low - 1) .. Low - 1 <=> v > -Low
      BY <1>1, <2>2, <2>4, SpansAre
    <3> QED  BY <1>3, <2>1, <2>2, <2>3, <3>1, <3>3, <3>4 DEF LineFits, ItemKinds
  <2>5. CASE ~(v <= Low - 1)
    <3> DEFINE p == v % Low
               q == (v \div Low) % High
    <3>1. /\ Size(l) = 2 /\ Shape(Items(l)[1], "ldi", p, TRUE)
          /\ Shape(Items(l)[2], "addhi", q, TRUE)
      BY <1>1, <1>12, <2>5, Ld16Items
    <3>2. p \in 0 .. Low - 1 /\ q \in 0 .. High - 1
      BY <1>1, PairLoads
    <3> HIDE DEF p, q
    <3>3. /\ Is(Entered(i, 1), i, "ldi", p, TRUE, AddressOf(source, i, 1))
          /\ Is(Entered(i, 2), i, "addhi", q, TRUE, AddressOf(source, i, 2))
      <4>1. 1 \in 1 .. Size(l) /\ 2 \in 1 .. Size(l) /\ Kind(l) \in ItemKinds
        BY <2>1, <3>1 DEF ItemKinds
      <4> QED  BY <1>2, <3>1, <4>1
    <3>a. p \in Int /\ q \in Int
      BY <3>2, SpansAre
    <3>4. Encodable(Entered(i, 2))
      BY <2>1, <3>2, <3>3, <3>a, HighEntry
    <3>5. Encodable(Entered(i, 1)) <=> Known(i) /\ p + w \in -(Low - 1) .. Low - 1
      BY <3>3, <3>a, LdiEntry
    <3> HIDE DEF w, v
    <3>6. p + w \in -(Low - 1) .. Low - 1
      BY <2>2, <3>2, SpansAre
    <3>7. v > -Low
      BY <1>1, <2>5, SpansAre
    <3>8. \A k \in 1 .. Size(l) : k = 1 \/ k = 2
      BY <3>1
    <3> QED  BY <1>3, <2>2, <2>3, <3>4, <3>5, <3>6, <3>7, <3>8 DEF LineFits
  <2> QED  BY <2>4, <2>5
<1>13. CASE l.op = "defw"
  <2>1. Kind(l) = "data" /\ Size(l) = 1 /\ Shape(Items(l)[1], "defw", v, FALSE)
    BY <1>1, <1>13, Single
  <2>2. Is(Entered(i, 1), i, "defw", v, FALSE, AddressOf(source, i, 1))
    <3>1. 1 \in 1 .. Size(l) /\ Kind(l) \in ItemKinds
      BY <2>1 DEF ItemKinds
    <3> QED  BY <1>2, <2>1, <3>1
  <2>3. Encodable(Entered(i, 1)) <=> Known(i) /\ v + w \in 0 .. Words - 1 /\ Plain(i)
    BY <1>1, <1>13, <2>2, DefwEntry DEF Plain
  <2>4. L!Fits(source, i) <=> v + w \in 0 .. Words - 1
    BY <1>5, <1>13 DEF L!Fits, L!Words, Words
  <2> QED  BY <1>3, <2>1, <2>3, <2>4 DEF LineFits, ItemKinds
<1>14. ASSUME l.op \in {"defb", "defstr"} PROVE Built(i) <=> LineFits(i)
  <2>1. Kind(l) = "data" /\ l.name = NoName /\ \A k \in 1 .. Size(l) : Items(l)[k].byte
    BY <1>1, <1>14, ByteItems
  <2>2. L!Fits(source, i)
    BY <1>14 DEF L!Fits
  <2>3. ASSUME NEW k \in 1 .. Size(l) PROVE Encodable(Entered(i, k))
    <3>1. Laid(u, source) /\ u \in Seq(Fresh)
      BY DEF Table
    <3>2. Index(source, i, k) \in 1 .. Len(u)
      BY <1>1, <2>1, <3>1 DEF Laid, ItemKinds
    <3>3. u[Index(source, i, k)].byte
      BY <1>1, <1>14, <2>1, <3>1, LaidBytes DEF ItemKinds
    <3> QED  BY <3>2, <3>3, ByteMade DEF Entered
  <2> QED  BY <1>3, <1>6, <2>1, <2>2, <2>3 DEF LineFits
<1>15. ASSUME l.op = "defs" PROVE Built(i) <=> LineFits(i)
  <2>1. /\ Kind(l) = "bss" /\ l.name = NoName
        /\ \A k \in 1 .. Size(l) : Shape(Items(l)[k], "defw", 0, FALSE)
    BY <1>1, <1>15, DefsItems
  <2>2. L!Fits(source, i)
    BY <1>15 DEF L!Fits
  <2>3. ASSUME NEW k \in 1 .. Size(l) PROVE Encodable(Entered(i, k))
    <3> DEFINE z == 0
    <3>1. Is(Entered(i, k), i, "defw", z, FALSE, AddressOf(source, i, k))
      <4>1. Kind(l) \in ItemKinds /\ Shape(Items(l)[k], "defw", z, FALSE)
        BY <2>1 DEF ItemKinds
      <4> QED  BY <1>2, <4>1
    <3>2. z \in Int /\ z = 0
      OBVIOUS
    <3> HIDE DEF w, z
    <3>3. Encodable(Entered(i, k)) <=> Known(i) /\ z + Value(i) \in 0 .. Words - 1
      BY <3>1, <3>2, DefwEntry
    <3> QED  BY <1>6, <2>1, <3>2, <3>3, SpansAre DEF w
  <2> QED  BY <1>3, <1>6, <2>1, <2>2, <2>3 DEF LineFits
<1>16. l.op # "defw" => Plain(i)
  BY DEF Plain
<1> HIDE DEF l
<1>17. ASSUME l.op # "defw" PROVE Built(i) <=> LineFits(i)
  BY <1>4, <1>7, <1>8, <1>9, <1>10, <1>11, <1>12, <1>14, <1>15, <1>17
     DEF LineOps, ItemKinds, Kind, Directives
<1> QED  BY <1>13, <1>16, <1>17

\* All items are encoded, and the program is one that Layout accepts.
Codes ==
    /\ \A j \in DOMAIN instructions :
        /\ Encodable(instructions[j])
        /\ instructions[j].byte2 \/ instructions[j].code = Encoded(instructions[j])
    /\ Tabled /\ Resolved /\ L!Acceptable(source)

LEMMA AllBuilt ==
    ASSUME TypeInv, Resolved, Passed, L!Relocatable(source),
           NEW u, NEW role, NEW ptr, Table(u, role, ptr)
    PROVE  L!Acceptable(source) <=> \A j \in DOMAIN instructions : Encodable(instructions[j])
<1>1. source \in Seq(Lines) /\ instructions \in Seq(Coded)
  BY ListedTypes
<1>2. Laid(u, source) /\ Len(instructions) = Len(u)
  BY DEF Table
<1>3. DOMAIN source = 1 .. Len(source) /\ DOMAIN instructions = 1 .. Len(u)
  BY <1>1, <1>2
<1>4. L!Acceptable(source) <=> \A i \in 1 .. Len(source) : LineFits(i) /\ Plain(i)
  <2>1. L!Calculable(source) <=> \A i \in 1 .. Len(source) : Plain(i)
    BY <1>3 DEF L!Calculable, L!Calculated, Calculated, Passed, Plain
  <2> QED  BY <1>3, <2>1 DEF L!Acceptable, LineFits, Known, Resolved, Followed
<1>5. (\A i \in 1 .. Len(source) : LineFits(i) /\ Plain(i))
            <=> \A i \in 1 .. Len(source) : Built(i)
  BY LineBuilt
<1>6. ASSUME \A i \in 1 .. Len(source) : Built(i), NEW j \in DOMAIN instructions
      PROVE  Encodable(instructions[j])
  <2>1. PICK i \in 1 .. Len(source) : \E k \in 1 .. Size(source[i]) :
            Kind(source[i]) \in ItemKinds /\ j = Index(source, i, k)
    BY <1>1, <1>2, <1>3, LaidCovers
  <2>2. PICK k \in 1 .. Size(source[i]) :
            Kind(source[i]) \in ItemKinds /\ j = Index(source, i, k)
    BY <2>1
  <2>3. Encodable(Entered(i, k))
    BY <1>6, <2>2 DEF Built
  <2>4. Entered(i, k) = instructions[j]
    BY <2>2 DEF Entered
  <2> QED  BY <2>3, <2>4
<1>7. ASSUME \A j \in DOMAIN instructions : Encodable(instructions[j]),
             NEW i \in 1 .. Len(source), Kind(source[i]) \in ItemKinds,
             NEW k \in 1 .. Size(source[i])
      PROVE  Encodable(Entered(i, k))
  <2>1. Index(source, i, k) \in DOMAIN instructions
    BY <1>2, <1>3, <1>7 DEF Laid
  <2> QED  BY <1>7, <2>1 DEF Entered
<1>8. (\A i \in 1 .. Len(source) : Built(i))
        <=> \A j \in DOMAIN instructions : Encodable(instructions[j])
  BY <1>6, <1>7 DEF Built
<1> QED  BY <1>4, <1>5, <1>8

LEMMA BuildBuilds ==
    ASSUME TypeInv, Tabled, Resolved, Passed, L!Relocatable(source), Build
    PROVE  (pc' = "write" /\ Codes') \/ (pc' = "error" /\ ~L!Acceptable(source))
<1>1. PICK u, role, ptr : Table(u, role, ptr)
  BY DEF Tabled
<1>2. L!Acceptable(source) <=> \A j \in DOMAIN instructions : Encodable(instructions[j])
  BY <1>1, AllBuilt
<1>3. CASE ~\A j \in DOMAIN instructions : Encodable(instructions[j])
  BY <1>2, <1>3 DEF Build
<1>4. CASE \A j \in DOMAIN instructions : Encodable(instructions[j])
  <2>1. /\ pc' = "write" /\ source' = source /\ symbols' = symbols /\ codePtr' = codePtr
        /\ lastMemAddr' = lastMemAddr
        /\ instructions' = [i \in DOMAIN instructions |->
                IF instructions[i].byte2 THEN instructions[i]
                ELSE [instructions[i] EXCEPT !.code = Encoded(instructions[i])]]
    BY <1>4 DEF Build, results
  <2>2. instructions \in Seq(Coded)
    BY ListedTypes
  <2>3. DOMAIN instructions' = DOMAIN instructions /\ Len(instructions') = Len(instructions)
    <3>1. DOMAIN instructions = 1 .. Len(instructions) /\ Len(instructions) \in Nat
      BY <2>2
    <3>2. DOMAIN instructions' = DOMAIN instructions
      BY <2>1
    <3> QED  BY <2>1, <3>1, <3>2
  <2>4. ASSUME NEW j \in DOMAIN instructions
        PROVE  LET x == instructions[j]
                   y == instructions'[j]
               IN  /\ y.op = x.op /\ y.name = x.name /\ y.ld16 = x.ld16 /\ y.nr = x.nr
                   /\ y.addr = x.addr /\ y.byte2 = x.byte2 /\ y.val = x.val
                   /\ y.byte2 \/ y.code = Encoded(x)
    <3> DEFINE x == instructions[j]
               y == instructions'[j]
               e == Encoded(x)
    <3>1. x \in Item /\ y = IF x.byte2 THEN x ELSE [x EXCEPT !.code = e]
      BY <2>1, <2>2 DEF Coded
    <3> HIDE DEF x, y, e
    <3>2. /\ y.op = x.op /\ y.name = x.name /\ y.ld16 = x.ld16 /\ y.nr = x.nr
          /\ y.addr = x.addr /\ y.byte2 = x.byte2 /\ y.val = x.val
          /\ y.byte2 \/ y.code = e
      BY <3>1 DEF Item
    <3> QED  BY <3>2 DEF x, y, e
  <2>5. ASSUME NEW j \in DOMAIN instructions
        PROVE  /\ Encoded(instructions[j])' = Encoded(instructions[j])
               /\ Encodable(instructions[j])' <=> Encodable(instructions[j])
    <3>1. Encoded(instructions[j])' = Encoded(instructions[j])
      BY <2>1, <2>4 DEF Encoded, Offset, LowPart, HighPart, Arg
    <3>2. Unresolved(instructions[j])' <=> Unresolved(instructions[j])
      BY <2>1, <2>4 DEF Unresolved, Calculated
    <3> QED  BY <2>4, <3>1, <3>2 DEF Encodable
  <2>6. \A j \in DOMAIN instructions' :
            /\ Encodable(instructions[j])'
            /\ instructions'[j].byte2 \/ instructions'[j].code = Encoded(instructions[j])'
    BY <1>4, <2>3, <2>4, <2>5
  <2>7. Resolved'
    BY <2>1 DEF Resolved, Followed
  <2>8. Tabled'
    <3>1. \A j \in 1 .. Len(u) : Made(instructions'[j], u, role, ptr, j)
      <4> SUFFICES ASSUME NEW j \in 1 .. Len(u) PROVE Made(instructions'[j], u, role, ptr, j)
        OBVIOUS
      <4>1. Made(instructions[j], u, role, ptr, j) /\ j \in DOMAIN instructions
        BY <1>1, <2>2 DEF Table
      <4> QED  BY <2>4, <4>1 DEF Made
    <3>2. Table(u, role, ptr)'
      BY <1>1, <2>1, <2>3, <3>1 DEF Table
    <3> QED  BY <3>2 DEF Tabled
  <2>9. L!Acceptable(source)'
    BY <1>2, <1>4, <2>1
  <2> QED  BY <2>1, <2>6, <2>7, <2>8, <2>9 DEF Codes
<1> QED  BY <1>3, <1>4

-----------------------------------------------------------------------------
\* The image, at the addresses of Layout.

\* What Write has put out.
Imaged ==
    image = [i \in DOMAIN Written |-> [op |-> Written[i].op, code |-> Written[i].code]]

\* The word of item j is found at its address, and that of two bytes at both.
Stored(role, ptr, j) ==
    /\ role[j] # "second" => /\ At(ptr[j]).op = instructions[j].op
                             /\ At(ptr[j]).code = Encoded(instructions[j])
    /\ role[j] = "second" => /\ j - 1 \in 1 .. Len(instructions) /\ role[j - 1] = "first"
                             /\ At(ptr[j]).code = Encoded(instructions[j - 1])

LEMMA AtIs ==
    ASSUME TypeInv, Codes, Imaged, codePtr = L!Base(source),
           NEW u, NEW role, NEW ptr, Table(u, role, ptr)
    PROVE  /\ \A j \in 1 .. Len(u) : Stored(role, ptr, j)
           /\ lastMemAddr = codePtr + 2 * Len(image)
<1> DEFINE n == Len(u)
           a == codePtr
           kept == {i \in DOMAIN instructions : ~instructions[i].byte2}
           r == Rank(instructions, kept)
           w == Written
<1>1. source \in Seq(Lines) /\ instructions \in Seq(Coded)
  BY ListedTypes
<1>2. /\ u \in Seq(Fresh) /\ Placing(u, a, role, ptr) /\ Len(instructions) = n
      /\ \A j \in 1 .. n : Made(instructions[j], u, role, ptr, j)
      /\ lastMemAddr = ptr[n + 1]
  BY DEF Table
<1>3. n \in Nat /\ DOMAIN instructions = 1 .. n
  BY <1>1, <1>2
<1>4. a \in Nat
  BY <1>1, BaseEven
<1>5. IsRank(r, n, kept) /\ AreThose(w, r, Coded, instructions, n, kept)
  BY <1>1, <1>2, ThoseOf DEF Written
<1>6. \A i \in 1 .. n : i \in kept <=> role[i] # "second"
  BY <1>2, <1>3 DEF Made
<1>7. \A j \in 0 .. n : ptr[j + 1] = a + 2 * r[j] - IF role[j] = "first" THEN 1 ELSE 0
  BY <1>2, <1>4, <1>5, <1>6, PlacingPacks
<1>8. /\ \A i \in 0 .. n : r[i] \in Nat
      /\ r[0] = 0 /\ \A i \in 1 .. n : r[i] = r[i - 1] + IF i \in kept THEN 1 ELSE 0
  BY <1>5 DEF IsRank
<1>9. /\ Len(w) = r[n]
      /\ \A i \in 1 .. n : i \in kept => r[i] \in DOMAIN w /\ w[r[i]] = instructions[i]
  BY <1>5 DEF AreThose
<1>10. /\ image = [i \in DOMAIN w |-> [op |-> w[i].op, code |-> w[i].code]]
       /\ w \in Seq(Coded)
  BY <1>5 DEF Imaged, AreThose
<1>11. \A j \in kept : instructions[j].code = Encoded(instructions[j])
  BY DEF Codes
<1>12. \A p : At(p) = image[((p - a) \div 2) + 1]
  BY DEF At, Ram, LoadedAt
<1> HIDE DEF a, kept, r, w
<1>13. Len(image) = r[n]
  <2>1. DOMAIN w = 1 .. Len(w) /\ Len(w) \in Nat
    BY <1>10
  <2>2. DOMAIN image = 1 .. Len(w)
    BY <1>10, <2>1
  <2>3. image \in Seq([op : ItemOps, code : 0 .. Words - 1])
    BY DEF TypeInv, TypeOK
  <2> HIDE DEF n
  <2>4. Len(image) = Len(w)
    BY <2>1, <2>2, <2>3
  <2> QED  BY <1>9, <2>4
<1>14. ASSUME NEW j \in 1 .. n, j \in kept
       PROVE  image[r[j]] = [op |-> instructions[j].op, code |-> Encoded(instructions[j])]
  BY <1>9, <1>10, <1>11, <1>14
<1> HIDE DEF n
<1>15. ASSUME NEW j \in 1 .. n, role[j] # "second" PROVE Stored(role, ptr, j)
  <2> DEFINE i == j - 1
             p == r[i]
  <2>1. i \in 0 .. n /\ i + 1 = j /\ j \in kept
    BY <1>3, <1>6, <1>15
  <2>2. role[i] # "first"
    BY <1>2, <1>15, PlacingRoles DEF n
  <2>3. ptr[j] = a + 2 * p - 0
    BY <1>7, <2>1, <2>2
  <2>4. r[j] = p + 1 /\ p \in Nat
    BY <1>8, <2>1
  <2> HIDE DEF i, p
  <2>5. ((ptr[j] - a) \div 2) + 1 = r[j]
    <3>1. ptr[j] - a = 2 * p
      BY <1>4, <2>3, <2>4
    <3>2. (2 * p) \div 2 = p
      BY <2>4
    <3> QED  BY <2>4, <3>1, <3>2
  <2>6. At(ptr[j]) = image[r[j]]
    BY <1>12, <2>5
  <2>7. image[r[j]] = [op |-> instructions[j].op, code |-> Encoded(instructions[j])]
    BY <1>14, <2>1
  <2>8. At(ptr[j]).op = instructions[j].op /\ At(ptr[j]).code = Encoded(instructions[j])
    BY <2>6, <2>7
  <2> QED  BY <1>15, <2>8 DEF Stored
<1>16. ASSUME NEW j \in 1 .. n, role[j] = "second" PROVE Stored(role, ptr, j)
  <2> DEFINE i == j - 1
             h == i - 1
             p == r[h]
  <2>1. j > 1 /\ i \in 1 .. Len(u) /\ role[i] = "first"
    BY <1>2, <1>16, PlacingRoles DEF n
  <2>2. i \in 1 .. n /\ i \in 0 .. n /\ i + 1 = j /\ h \in 0 .. n /\ i \in kept
    BY <1>3, <1>6, <2>1 DEF n
  <2>3. ptr[j] = a + 2 * r[i] - 1
    BY <1>7, <2>1, <2>2
  <2>4. r[i] = p + 1 /\ p \in Nat
    BY <1>8, <2>2
  <2>5. i \in 1 .. Len(instructions)
    BY <1>2, <2>2
  <2> HIDE DEF p, h
  <2>6. ((ptr[j] - a) \div 2) + 1 = r[i]
    <3>1. ptr[j] - a = 2 * p + 1
      BY <1>4, <2>3, <2>4
    <3>2. (2 * p + 1) \div 2 = p
      BY <2>4
    <3> QED  BY <2>4, <3>1, <3>2
  <2>7. At(ptr[j]) = image[r[i]]
    BY <1>12, <2>6
  <2>8. image[r[i]] = [op |-> instructions[i].op, code |-> Encoded(instructions[i])]
    BY <1>14, <2>2
  <2>9. At(ptr[j]).code = Encoded(instructions[i])
    BY <2>7, <2>8
  <2> QED  BY <1>16, <2>1, <2>5, <2>9 DEF Stored
<1>17. lastMemAddr = a + 2 * Len(image)
  <2>1. role[n] # "first"
    <3>1. CASE n = 0
      BY <1>2, <3>1 DEF Placing
    <3>2. CASE n # 0
      <4>1. n \in 1 .. n
        BY <1>3, <3>2
      <4>2. role[n] = "first" => n < n
        BY <1>2, <4>1, PlacingRoles DEF n
      <4> QED  BY <1>3, <4>2
    <3> QED  BY <3>1, <3>2
  <2>2. n \in 0 .. n
    BY <1>3
  <2>3. ptr[n + 1] = a + 2 * r[n] - 0 /\ r[n] \in Nat
    BY <1>7, <1>8, <2>1, <2>2
  <2> QED  BY <1>2, <1>4, <1>13, <2>3
<1> QED  BY <1>15, <1>16, <1>17 DEF a, n

\* The word of an item that is no byte is found at the address of the item.
LEMMA WordAt ==
    ASSUME TypeInv, Codes, Imaged, codePtr = L!Base(source),
           NEW i \in 1 .. Len(source), Kind(source[i]) \in ItemKinds,
           NEW k \in 1 .. Size(source[i]), NEW op, NEW v, NEW ld16,
           Shape(Items(source[i])[k], op, v, ld16)
    PROVE  LET x == Entered(i, k)
               a == AddressOf(source, i, k)
           IN  /\ Is(x, i, op, v, ld16, a) /\ Encodable(x)
               /\ At(a).op = op /\ At(a).code = Encoded(x)
<1> DEFINE x == Entered(i, k)
           a == AddressOf(source, i, k)
           j == Index(source, i, k)
<1>1. PICK u, role, ptr : Table(u, role, ptr)
  BY DEF Codes, Tabled
<1>2. source \in Seq(Lines) /\ instructions \in Seq(Coded)
  BY ListedTypes
<1>3. u \in Seq(Fresh) /\ Laid(u, source) /\ Placing(u, L!Base(source), role, ptr)
      /\ Len(instructions) = Len(u)
  BY <1>1 DEF Table
<1>4. j \in 1 .. Len(u) /\ j \in DOMAIN instructions
  BY <1>2, <1>3 DEF Laid
<1>5. ptr[j] = a
  BY <1>2, <1>3, ItemsPlaced
<1>6. Is(x, i, op, v, ld16, a)
  BY <1>1, EnteredIs
<1>7. role[j] = "single"
  <2>1. Entry(u, role, i, k)
    BY <1>1, Entries
  <2>2. ~Items(source[i])[k].byte
    BY DEF Shape
  <2> QED  BY <2>1, <2>2 DEF Entry
<1>8. Stored(role, ptr, j)
  BY <1>1, <1>4, AtIs
<1>9. x = instructions[j]
  BY DEF Entered
<1>10. Encodable(x)
  BY <1>4, <1>9 DEF Codes
<1> HIDE DEF x, a, j
<1>11. At(a).op = x.op /\ At(a).code = Encoded(x)
  BY <1>5, <1>7, <1>8, <1>9 DEF Stored
<1>12. x.op = op
  BY <1>6 DEF Is
<1> QED  BY <1>6, <1>10, <1>11, <1>12 DEF x, a

LEMMA BranchesDone ==
    ASSUME TypeInv, Codes, Imaged, codePtr = L!Base(source) PROVE BranchesReachLabels
<1> SUFFICES ASSUME NEW i \in DOMAIN source, source[i].op = "br"
             PROVE  LET a == L!Address(source, i)
                    IN  /\ At(a).op = "br"
                        /\ BranchTarget(LoadedAt(a), At(a).code)
                                = LoadedAt(L!Where(source)[source[i].name]) % Words
  BY DEF BranchesReachLabels
<1> DEFINE l == source[i]
           a == L!Address(source, i)
           x == Entered(i, 1)
<1>1. source \in Seq(Lines) /\ i \in 1 .. Len(source) /\ l \in Lines
  BY ListedTypes
<1>2. Kind(l) = "code" /\ Size(l) = 1 /\ Shape(Items(l)[1], "br", l.val, FALSE)
  BY <1>1, Single
<1>3. Kind(l) \in ItemKinds /\ 1 \in 1 .. Size(l) /\ AddressOf(source, i, 1) = a
  BY <1>1, <1>2, FirstAddress DEF ItemKinds
<1>4. /\ Is(x, i, "br", l.val, FALSE, AddressOf(source, i, 1)) /\ Encodable(x)
      /\ At(AddressOf(source, i, 1)).op = "br"
      /\ At(AddressOf(source, i, 1)).code = Encoded(x)
  BY <1>1, <1>2, <1>3, WordAt
<1>5. Is(x, i, "br", l.val, FALSE, a) /\ At(a).op = "br" /\ At(a).code = Encoded(x)
  BY <1>3, <1>4
<1>6. BranchTarget(LoadedAt(a), Encoded(x))
            = LoadedAt(Operand(l, L!Where(source))) % Words
  BY <1>1, <1>4, <1>5, BrEntry DEF Codes
<1>7. Operand(l, L!Where(source)) = L!Where(source)[l.name]
  <2>1. L!Acceptable(source) /\ Resolved
    BY DEF Codes
  <2>2. l.name # NoName /\ ~Calculated(l)
    <3>1. l.name # NoName
      BY <1>1, LinesAssumption, AsmSourceAssumption
    <3>2. ~Calculated(l)
      BY <2>1 DEF L!Acceptable, L!Calculable, L!Calculated, Calculated
    <3> QED  BY <3>1, <3>2
  <2>3. l.val = 0
    BY <2>2 DEF Calculated
  <2>4. Value(i) \in Int
    BY <1>4, <2>1, ArgIs
  <2>5. Value(i) = L!Where(source)[l.name]
    BY <2>2 DEF Value
  <2>6. Operand(l, L!Where(source)) = l.val + Value(i)
    BY OperandIs
  <2> HIDE DEF l
  <2> QED  BY <2>3, <2>4, <2>5, <2>6
<1> QED  BY <1>5, <1>6, <1>7

LEMMA ConstantsDone ==
    ASSUME TypeInv, Codes, Imaged, codePtr = L!Base(source) PROVE ConstantsLoad
<1> SUFFICES ASSUME NEW i \in DOMAIN source, source[i].op \in {"ldi", "ld16", "la16"}
             PROVE  LET l == source[i]
                        a == L!Address(source, i)
                        lo == Ldi(At(a).code)
                    IN  /\ At(a).op \in {"ldi", "lda"}
                        /\ L!CodeSize(l) = 4 => At(a + 2).op = "addhi"
                        /\ (Operand(l, L!Where(source)) % Words)
                              = IF L!CodeSize(l) = 4 THEN AddHi(At(a + 2).code, lo) ELSE lo
  BY DEF ConstantsLoad
<1> DEFINE l == source[i]
           v == l.val
           w == Value(i)
           a == L!Address(source, i)
           x == Entered(i, 1)
           y == Entered(i, 2)
<1>1. source \in Seq(Lines) /\ i \in 1 .. Len(source) /\ l \in Lines /\ v \in Int
  BY ListedTypes, KindIs
<1>2. Operand(l, L!Where(source)) = v + w
  BY OperandIs
<1>3. Kind(l) = "code"
  BY <1>1, Single, La16Items, Ld16Items
<1>4. /\ AddressOf(source, i, 1) = a /\ AddressOf(source, i, 2) = a + 2
      /\ L!CodeSize(l) = 2 * Size(l) /\ Kind(l) \in ItemKinds
  BY <1>1, <1>3, FirstAddress, SizesAgree DEF ItemKinds
<1>5. ASSUME NEW op, NEW p, NEW ld16, Shape(Items(l)[1], op, p, ld16), 1 \in 1 .. Size(l)
      PROVE  /\ Is(x, i, op, p, ld16, a) /\ Encodable(x)
             /\ At(a).op = op /\ At(a).code = Encoded(x)
  <2>1. /\ Is(x, i, op, p, ld16, AddressOf(source, i, 1)) /\ Encodable(x)
        /\ At(AddressOf(source, i, 1)).op = op
        /\ At(AddressOf(source, i, 1)).code = Encoded(x)
    BY <1>1, <1>4, <1>5, WordAt
  <2> QED  BY <1>4, <2>1
<1>6. ASSUME NEW op, NEW p, NEW ld16, Shape(Items(l)[2], op, p, ld16), 2 \in 1 .. Size(l)
      PROVE  /\ Is(y, i, op, p, ld16, a + 2) /\ Encodable(y)
             /\ At(a + 2).op = op /\ At(a + 2).code = Encoded(y)
  <2>1. /\ Is(y, i, op, p, ld16, AddressOf(source, i, 2)) /\ Encodable(y)
        /\ At(AddressOf(source, i, 2)).op = op
        /\ At(AddressOf(source, i, 2)).code = Encoded(y)
    BY <1>1, <1>4, <1>6, WordAt
  <2> QED  BY <1>4, <2>1
<1>7. Resolved
  BY DEF Codes
<1>8. ASSUME Size(l) = 1, Shape(Items(l)[1], "ldi", v, FALSE)
      PROVE  At(a).op = "ldi" /\ Ldi(At(a).code) = (v + w) % Words /\ L!CodeSize(l) = 2
  <2>1. Is(x, i, "ldi", v, FALSE, a) /\ Encodable(x) /\ At(a).op = "ldi"
        /\ At(a).code = Encoded(x)
    <3>1. 1 \in 1 .. Size(l)
      BY <1>8
    <3> QED  BY <1>5, <1>8, <3>1
  <2>2. Ldi(Encoded(x)) = (v + w) % Words
    BY <1>1, <1>7, <2>1, LdiEntry
  <2> QED  BY <1>4, <1>8, <2>1, <2>2
<1>9. CASE l.op = "ldi"
  <2>1. Size(l) = 1 /\ Shape(Items(l)[1], "ldi", v, FALSE)
    BY <1>1, <1>9, Single
  <2> QED  BY <1>2, <1>8, <2>1
<1>10. CASE l.op = "la16"
  <2>1. /\ Size(l) = 2 /\ Shape(Items(l)[1], "lda", v, FALSE)
        /\ Shape(Items(l)[2], "addhi", v, FALSE)
    BY <1>1, <1>10, La16Items
  <2>2. 1 \in 1 .. Size(l) /\ 2 \in 1 .. Size(l)
    BY <2>1
  <2>3. /\ Is(x, i, "lda", v, FALSE, a) /\ Encodable(x) /\ At(a).op = "lda"
        /\ At(a).code = Encoded(x)
    BY <1>5, <2>1, <2>2
  <2>4. /\ Is(y, i, "addhi", v, FALSE, a + 2) /\ Encodable(y) /\ At(a + 2).op = "addhi"
        /\ At(a + 2).code = Encoded(y)
    BY <1>6, <2>1, <2>2
  <2>5. Known(i) /\ Encoded(x) = (v + w) % Low
    BY <1>1, <1>7, <2>3, LowEntry
  <2>6. Encoded(y) = ((v + w) \div Low) % High
    BY <1>1, <1>7, <2>4, <2>5, HighEntry
  <2>7. v + w \in Int
    <3>1. w \in Int
      BY <1>7, <2>3, <2>5, ArgIs
    <3> HIDE DEF v, w
    <3> QED  BY <1>1, <3>1
  <2>8. L!CodeSize(l) = 4
    BY <1>4, <2>1
  <2> DEFINE n == v + w
  <2>9. /\ Ldi(n % Low) = n % Low
        /\ AddHi((n \div Low) % High, n % Low) = n % Words
    BY <2>7, PairLoads
  <2> QED  BY <1>2, <2>3, <2>4, <2>5, <2>6, <2>8, <2>9
<1>11. CASE l.op = "ld16"
  <2>1. l.name = NoName
    BY <1>1, <1>11, Ld16Items
  <2>2. Known(i) /\ w = 0
    BY <2>1 DEF Known, Value
  <2>3. CASE v <= Low - 1
    <3>1. Size(l) = 1 /\ Shape(Items(l)[1], "ldi", v, FALSE)
      BY <1>1, <1>11, <2>3, Ld16Items
    <3> QED  BY <1>2, <1>8, <3>1
  <2>4. CASE ~(v <= Low - 1)
    <3> DEFINE p == v % Low
               q == (v \div Low) % High
    <3>1. /\ Size(l) = 2 /\ Shape(Items(l)[1], "ldi", p, TRUE)
          /\ Shape(Items(l)[2], "addhi", q, TRUE)
      BY <1>1, <1>11, <2>4, Ld16Items
    <3>2. /\ p \in 0 .. Low - 1 /\ q \in 0 .. High - 1
          /\ AddHi(q, p) = v % Words
      BY <1>1, PairLoads
    <3> HIDE DEF p, q
    <3>3. 1 \in 1 .. Size(l) /\ 2 \in 1 .. Size(l) /\ p \in Int /\ q \in Int
      BY <3>1, <3>2, SpansAre
    <3>4. Is(x, i, "ldi", p, TRUE, a) /\ Encodable(x) /\ At(a).op = "ldi"
          /\ At(a).code = Encoded(x)
      BY <1>5, <3>1, <3>3
    <3>5. /\ Is(y, i, "addhi", q, TRUE, a + 2) /\ At(a + 2).op = "addhi"
          /\ At(a + 2).code = Encoded(y)
      BY <1>6, <3>1, <3>3
    <3>6. Encoded(y) = q
      BY <1>7, <2>1, <3>2, <3>3, <3>5, HighEntry
    <3>7. Ldi(Encoded(x)) = (p + w) % Words
      BY <1>7, <3>3, <3>4, LdiEntry
    <3>8. (p + w) % Words = p
      <4>1. p + w = p
        BY <2>2, <3>3
      <4>2. p \in 0 .. Words - 1
        BY <3>2, SpansAre, WordsType
      <4>3. p % Words = p
        BY <4>2, SpansAre
      <4> QED  BY <4>1, <4>3
    <3>9. L!CodeSize(l) = 4
      BY <1>4, <3>1
    <3>10. v + w = v
      BY <1>1, <2>2
    <3> QED  BY <1>2, <3>2, <3>4, <3>5, <3>6, <3>7, <3>8, <3>9, <3>10
  <2> QED  BY <2>3, <2>4
<1> QED  BY <1>9, <1>10, <1>11

-----------------------------------------------------------------------------
\* The bytes of the data.

\* Byte j of the table is at address b with value v.
ByteOf(u, ptr, j, b, v) == j \in 1 .. Len(u) /\ u[j].byte /\ ptr[j] = b /\ u[j].val = v

\* The bytes that the source defines are bytes of the table.
LEMMA DataBytesAre ==
    ASSUME TypeInv, NEW u, NEW role, NEW ptr, Table(u, role, ptr), NEW b \in DataBytes
    PROVE  \E j : ByteOf(u, ptr, j, b[1], b[2])
<1>1. source \in Seq(Lines) /\ DOMAIN source = 1 .. Len(source)
  BY ListedTypes
<1>2. u \in Seq(Fresh) /\ Laid(u, source) /\ Placing(u, L!Base(source), role, ptr)
  BY DEF Table
<1>3. ASSUME NEW i \in 1 .. Len(source), source[i].op \in {"defb", "defstr"},
             NEW k \in 1 .. Len(Chars(source[i]))
      PROVE  \E j : ByteOf(u, ptr, j, L!Address(source, i) + k - 1, Chars(source[i])[k])
  <2> DEFINE l == source[i]
             j == Index(source, i, k)
             y == Items(l)[k]
             nr == Numbers(source)[i - 1] + k - 1
             x == u[j]
             a == L!Address(source, i)
  <2>1. l \in Lines
    BY <1>1
  <2>2. /\ Kind(l) = "data" /\ k \in 1 .. Size(l)
        /\ y.byte /\ y.val = Chars(l)[k]
    BY <1>3, <2>1, ByteItems
  <2>3. Kind(l) \in ItemKinds
    BY <2>2 DEF ItemKinds
  <2>4. j \in 1 .. Len(u) /\ y \in Fresh /\ x = [y EXCEPT !.nr = nr]
    <3>1. j \in 1 .. Len(u) /\ y \in Fresh /\ x = ItemOf(source, i, k)
      BY <1>1, <1>2, <2>2, <2>3, LaidFresh
    <3>2. ItemOf(source, i, k) = [y EXCEPT !.nr = nr]
      BY <2>3 DEF ItemOf, ItemKinds
    <3> QED  BY <3>1, <3>2
  <2>5. ptr[j] = AddressOf(source, i, k)
    BY <1>1, <1>2, <2>2, <2>3, ItemsPlaced
  <2>6. ptr[j] = a + (k - 1)
    BY <2>2, <2>5 DEF AddressOf
  <2>7. a \in Int /\ k \in Int
    <3>1. Size(l) \in Nat
      BY <2>1, KindIs
    <3> QED  BY <1>1, <2>2, <3>1, AddressType
  <2> HIDE DEF x, y, j, nr, a
  <2>8. x.byte /\ x.val = y.val
    BY <2>2, <2>4 DEF Fresh, Item
  <2>9. ptr[j] = a + k - 1
    BY <2>6, <2>7
  <2>10. ByteOf(u, ptr, j, a + k - 1, Chars(l)[k])
    BY <2>2, <2>4, <2>8, <2>9 DEF ByteOf, x
  <2> QED  BY <2>10 DEF a
<1>4. CASE \E i \in DOMAIN source : source[i].op = "defb"
                /\ b = <<L!Address(source, i), source[i].val>>
  <2>1. PICK i \in 1 .. Len(source) : source[i].op = "defb"
                /\ b = <<L!Address(source, i), source[i].val>>
    BY <1>1, <1>4
  <2>2. Chars(source[i]) = <<source[i].val>>
    BY <2>1 DEF Chars
  <2>3. 1 \in 1 .. Len(Chars(source[i])) /\ Chars(source[i])[1] = source[i].val
    BY <2>2
  <2> DEFINE a == L!Address(source, i)
  <2>4. \E j : ByteOf(u, ptr, j, a + 1 - 1, Chars(source[i])[1])
    BY <1>3, <2>1, <2>3
  <2>5. a \in Int
    BY <1>1, AddressType
  <2>6. b[1] = a /\ b[2] = source[i].val
    BY <2>1
  <2> HIDE DEF a
  <2>7. a + 1 - 1 = a
    BY <2>5
  <2> QED  BY <2>3, <2>4, <2>6, <2>7
<1>5. CASE \E i \in DOMAIN source : source[i].op = "defstr"
                /\ \E k \in 1 .. Len(source[i].chars) + 1 :
                    b = <<L!Address(source, i) + k - 1, Append(source[i].chars, 0)[k]>>
  <2>1. PICK i \in 1 .. Len(source) : source[i].op = "defstr"
                /\ \E k \in 1 .. Len(source[i].chars) + 1 :
                    b = <<L!Address(source, i) + k - 1, Append(source[i].chars, 0)[k]>>
    BY <1>1, <1>5
  <2>2. PICK k \in 1 .. Len(source[i].chars) + 1 :
                    b = <<L!Address(source, i) + k - 1, Append(source[i].chars, 0)[k]>>
    BY <2>1
  <2>3. Chars(source[i]) = Append(source[i].chars, 0)
    BY <2>1 DEF Chars
  <2>4. k \in 1 .. Len(Chars(source[i]))
    <3>1. source[i] \in Lines
      BY <1>1
    <3>2. source[i].chars \in Seq(Int)
      BY <3>1, KindIs
    <3>3. Len(Append(source[i].chars, 0)) = Len(source[i].chars) + 1
      BY <3>2
    <3> QED  BY <2>3, <3>3
  <2>5. \E j : ByteOf(u, ptr, j, L!Address(source, i) + k - 1, Chars(source[i])[k])
    BY <1>3, <2>1, <2>4
  <2> DEFINE a == L!Address(source, i) + k - 1
             v == Append(source[i].chars, 0)[k]
  <2>6. b = <<a, v>> /\ \E j : ByteOf(u, ptr, j, a, v)
    BY <2>2, <2>3, <2>5
  <2> HIDE DEF a, v
  <2>7. b[1] = a /\ b[2] = v
    BY <2>6
  <2>8. PICK j : ByteOf(u, ptr, j, a, v)
    BY <2>6
  <2>9. ByteOf(u, ptr, j, b[1], b[2])
    BY <2>7, <2>8
  <2> QED  BY <2>9
<1>6. CASE \E i \in DOMAIN source : source[i].op = "defstr" /\ b \in StringBytes(i)
  BY <1>5, <1>6 DEF StringBytes
<1> QED  BY <1>4, <1>6 DEF DataBytes

\* A byte that has a pair's address, or is the second one, is read at its own address.
LEMMA ByteReads ==
    ASSUME TypeInv, Codes, Imaged, codePtr = L!Base(source),
           NEW u, NEW role, NEW ptr, Table(u, role, ptr), NEW j \in 1 .. Len(u), u[j].byte
    PROVE  /\ ptr[j] \in Nat
           /\ ptr[j] % 2 = IF role[j] = "second" THEN 1 ELSE 0
           /\ role[j] # "single" => ByteAt(ptr[j]) = u[j].val
<1>1. source \in Seq(Lines)
  BY ListedTypes
<1>2. /\ u \in Seq(Fresh) /\ Placing(u, L!Base(source), role, ptr)
      /\ Len(instructions) = Len(u)
  BY DEF Table
<1>3. L!Base(source) \in Nat /\ L!Base(source) % 2 = 0
  BY <1>1, BaseEven
<1> DEFINE i == j - 1
<1>4. i \in 0 .. Len(u) /\ i + 1 = j
  <2>1. Len(u) \in Nat
    BY <1>2
  <2> QED  BY <2>1
<1>5. /\ role[j] = "single" \/ role[j] = "first" \/ role[j] = "second"
      /\ (role[j] = "second") <=> (role[i] = "first")
  BY <1>2, PlacingRoles
<1>6. ptr[i + 1] % 2 = IF role[i] = "first" THEN 1 ELSE 0
  BY <1>2, <1>3, <1>4, PlacingParity
<1>7. ptr[j] % 2 = IF role[j] = "second" THEN 1 ELSE 0
  BY <1>4, <1>5, <1>6
<1>8. ptr[j] \in Nat
  <2>1. ptr \in [1 .. Len(u) + 1 -> Nat] /\ j \in 1 .. Len(u) + 1
    BY <1>2 DEF Placing
  <2> QED  BY <2>1
<1>9. Stored(role, ptr, j)
  BY AtIs
<1>10. \A b, d \in 0 .. 255 : Merged(b, d) \div 256 = b /\ Merged(b, d) % 256 = d
  <2> SUFFICES ASSUME NEW b \in 0 .. 255, NEW d \in 0 .. 255
               PROVE  Merged(b, d) \div 256 = b /\ Merged(b, d) % 256 = d
    OBVIOUS
  <2>1. ((b * 256) + d) \div 256 = b /\ ((b * 256) + d) % 256 = d
    OBVIOUS
  <2> QED  BY <2>1 DEF Merged
<1>11. CASE role[j] = "second"
  <2>1. /\ i \in 1 .. Len(u) /\ role[i] = "first"
        /\ At(ptr[j]).code = Encoded(instructions[i])
    BY <1>2, <1>9, <1>11 DEF Stored
  <2> HIDE DEF i
  <2>2. u[i].byte
    BY <1>2, <2>1, PlacingRoles
  <2>3. /\ u[i].val \in 0 .. 255 /\ u[i + 1].val \in 0 .. 255
        /\ Encoded(instructions[i]) = Merged(u[i].val, u[i + 1].val)
    BY <2>1, <2>2, ByteMade
  <2>4. ByteAt(ptr[j]) = At(ptr[j]).code % 256
    BY <1>7, <1>11 DEF ByteAt
  <2>5. Merged(u[i].val, u[i + 1].val) % 256 = u[i + 1].val
    <3> DEFINE b == u[i].val
               d == u[i + 1].val
    <3>1. b \in 0 .. 255 /\ d \in 0 .. 255
      BY <2>3
    <3> HIDE DEF b, d
    <3>2. Merged(b, d) % 256 = d
      BY <1>10, <3>1
    <3> QED  BY <3>2 DEF b, d
  <2>6. ByteAt(ptr[j]) = u[i + 1].val
    BY <2>1, <2>3, <2>4, <2>5
  <2> QED  BY <1>4, <1>7, <1>8, <2>6
<1>12. CASE role[j] = "first"
  <2>1. At(ptr[j]).code = Encoded(instructions[j])
    BY <1>9, <1>12 DEF Stored
  <2>2. /\ u[j].val \in 0 .. 255 /\ u[j + 1].val \in 0 .. 255
        /\ Encoded(instructions[j]) = Merged(u[j].val, u[j + 1].val)
    BY <1>12, ByteMade
  <2>3. ByteAt(ptr[j]) = At(ptr[j]).code \div 256
    BY <1>7, <1>12 DEF ByteAt
  <2>4. Merged(u[j].val, u[j + 1].val) \div 256 = u[j].val
    BY <1>10, <2>2
  <2> QED  BY <1>7, <1>8, <2>1, <2>2, <2>3, <2>4
<1> QED  BY <1>5, <1>7, <1>8, <1>11, <1>12

LEMMA DataDone ==
    ASSUME TypeInv, Codes, Imaged, codePtr = L!Base(source) PROVE DataReadsBack
<1>1. source \in Seq(Lines) /\ DOMAIN source = 1 .. Len(source)
  BY ListedTypes
<1>2. PICK u, role, ptr : Table(u, role, ptr)
  BY DEF Codes, Tabled
<1>3. ASSUME NEW i \in DOMAIN source, source[i].op = "defw"
      PROVE  At(L!Address(source, i)).code = Operand(source[i], L!Where(source))
  <2> DEFINE l == source[i]
             x == Entered(i, 1)
             a == L!Address(source, i)
  <2>1. l \in Lines /\ i \in 1 .. Len(source) /\ l.val \in Int
    BY <1>1, KindIs
  <2>2. Kind(l) = "data" /\ Size(l) = 1 /\ Shape(Items(l)[1], "defw", l.val, FALSE)
    BY <1>3, <2>1, Single
  <2>3. Kind(l) \in ItemKinds /\ 1 \in 1 .. Size(l) /\ AddressOf(source, i, 1) = a
    BY <1>1, <2>1, <2>2, FirstAddress DEF ItemKinds
  <2>4. /\ Is(x, i, "defw", l.val, FALSE, AddressOf(source, i, 1)) /\ Encodable(x)
        /\ At(AddressOf(source, i, 1)).code = Encoded(x)
    BY <2>1, <2>2, <2>3, WordAt
  <2>5. Encoded(x) = l.val + Value(i)
    BY <2>1, <2>4, DefwEntry DEF Codes
  <2> QED  BY <2>3, <2>4, <2>5, OperandIs
<1>4. ASSUME NEW b \in DataBytes,
             b[1] % 2 = 1 \/ (\E c \in DataBytes : c[1] = b[1] + 1)
      PROVE  ByteAt(b[1]) = b[2]
  <2>1. PICK j : ByteOf(u, ptr, j, b[1], b[2])
    BY <1>2, DataBytesAre
  <2>2. j \in 1 .. Len(u) /\ u[j].byte /\ ptr[j] = b[1] /\ u[j].val = b[2]
    BY <2>1 DEF ByteOf
  <2>3. /\ ptr[j] \in Nat
        /\ ptr[j] % 2 = IF role[j] = "second" THEN 1 ELSE 0
        /\ role[j] # "single" => ByteAt(ptr[j]) = u[j].val
    BY <1>2, <2>2, ByteReads
  <2>4. role[j] # "single"
    <3> SUFFICES ASSUME role[j] = "single" PROVE FALSE
      OBVIOUS
    <3>1. PICK c \in DataBytes : c[1] = b[1] + 1
      BY <1>4, <2>2, <2>3
    <3>2. PICK h : ByteOf(u, ptr, h, c[1], c[2])
      BY <1>2, DataBytesAre
    <3>3. h \in 1 .. Len(u) /\ u[h].byte /\ ptr[h] = ptr[j] + 1
      BY <2>2, <3>1, <3>2 DEF ByteOf
    <3>4. ptr[h] \in Nat
      BY <1>2, <3>3, ByteReads
    <3>5. u \in Seq(Fresh) /\ Placing(u, L!Base(source), role, ptr) /\ L!Base(source) \in Nat
      BY <1>1, <1>2, BaseEven DEF Table
    <3>6. ptr[j + 1] = ptr[j] + 2
      BY <2>2, <3>5 DEF Placing
    <3> DEFINE n == Len(u)
    <3>7. \A q \in 0 .. n : \A p \in 1 .. q : ptr[p] < ptr[q + 1]
      BY <3>5, PlacingApart
    <3>8. n \in Nat /\ j \in 1 .. n /\ h \in 1 .. n
      BY <2>2, <3>3, <3>5
    <3> HIDE DEF n
    <3>9. CASE h < j
      <4> DEFINE q == j - 1
      <4>1. q \in 0 .. n /\ h \in 1 .. q /\ q + 1 = j
        BY <3>8, <3>9
      <4> HIDE DEF q
      <4>2. ptr[h] < ptr[j]
        BY <3>7, <4>1
      <4> QED  BY <2>3, <3>3, <4>2
    <3>10. CASE h = j
      BY <2>3, <3>3, <3>10
    <3>11. CASE h = j + 1
      BY <2>3, <3>3, <3>6, <3>11
    <3>12. CASE h > j + 1
      <4> DEFINE q == h - 1
      <4>1. q \in 0 .. n /\ j + 1 \in 1 .. q /\ q + 1 = h
        BY <3>8, <3>12
      <4> HIDE DEF q
      <4>2. ptr[j + 1] < ptr[h]
        BY <3>7, <4>1
      <4> QED  BY <2>3, <3>3, <3>6, <4>2
    <3> QED  BY <3>8, <3>9, <3>10, <3>11, <3>12
  <2> QED  BY <2>2, <2>3, <2>4
<1>5. lastMemAddr = codePtr + 2 * Len(image)
  BY <1>2, AtIs
<1> QED  BY <1>3, <1>4, <1>5 DEF DataReadsBack

-----------------------------------------------------------------------------
\* The invariant of all passes, and what follows from it.

\* What a step leaves alone keeps what is known of it.
LEMMA Kept ==
    /\ Parsed /\ UNCHANGED <<source, tables>> => Parsed'
    /\ Pointed /\ UNCHANGED <<source, symbols>> => Pointed'
    /\ CodeReady /\ UNCHANGED <<source, codePtr, instructions, mem, lastAddr>> => CodeReady'
    /\ Tabled /\ UNCHANGED <<source, instructions, lastMemAddr>> => Tabled'
    /\ Resolved /\ UNCHANGED <<source, symbols>> => Resolved'
    /\ Codes /\ UNCHANGED <<source, instructions, lastMemAddr, symbols>> => Codes'
    /\ Imaged /\ UNCHANGED <<instructions, image>> => Imaged'
    /\ Passed /\ UNCHANGED source => Passed'
<1>1. Parsed /\ UNCHANGED <<source, tables>> => Parsed'
  BY DEF Parsed, tables, NamedLabels, Reserved
<1>2. Pointed /\ UNCHANGED <<source, symbols>> => Pointed'
  BY DEF Pointed, PointsTo
<1>3. CodeReady /\ UNCHANGED <<source, codePtr, instructions, mem, lastAddr>> => CodeReady'
  BY DEF CodeReady, CodeTable, Reserved
<1>4. Tabled /\ UNCHANGED <<source, instructions, lastMemAddr>> => Tabled'
  BY DEF Tabled, Table
<1>5. Resolved /\ UNCHANGED <<source, symbols>> => Resolved'
  BY DEF Resolved, Followed
<1>6. Codes /\ UNCHANGED <<source, instructions, lastMemAddr, symbols>> => Codes'
  BY <1>4, <1>5 DEF Codes, Encodable, Unresolved, Calculated, Encoded, Offset,
       LowPart, HighPart, Arg
<1>7. Imaged /\ UNCHANGED <<instructions, image>> => Imaged'
  BY DEF Imaged, Written
<1>8. Passed /\ UNCHANGED source => Passed'
  BY DEF Passed
<1> QED  BY <1>1, <1>2, <1>3, <1>4, <1>5, <1>6, <1>7, <1>8

\* What is known of the tables before each pass.
AInv ==
    /\ TypeInv /\ IInv
    /\ pc \in {"parse", "idsymbols", "placeinstr"} => Parsed
    /\ pc \in {"placeinstr", "placemem", "resolveptrs", "build"} => Passed
    /\ pc \in {"placeinstr", "placemem", "resolveptrs"} => Pointed
    /\ pc = "placemem" => CodeReady
    /\ pc \in {"resolveptrs", "build"} => Tabled
    /\ pc = "build" => Resolved
    /\ pc \in {"write", "done"} => Codes
    /\ pc = "done" => Imaged
    /\ pc # "error" => codePtr = L!Base(source) /\ L!Relocatable(source)

LEMMA InitAInv == Init => AInv
<1> SUFFICES ASSUME Init PROVE AInv
  OBVIOUS
<1>1. TypeInv /\ IInv /\ Parsed /\ pc = "parse"
  BY InitTypeInv, Initially, InitParsed DEF Init
<1> QED  BY <1>1 DEF AInv, Parsed

LEMMA StepAInv == AInv /\ [Next]_vars => AInv'
<1> SUFFICES ASSUME AInv, [Next]_vars PROVE AInv'
  OBVIOUS
<1>1. TypeInv /\ IInv /\ TypeInv' /\ IInv'
  BY StepTypeInv, Inductive DEF AInv
<1>2. CASE ParseLine
  <2>1. pc = "parse" /\ Parsed
    BY <1>2 DEF ParseLine, AInv
  <2>2. (pc' = "parse" /\ Parsed') \/ pc' = "error"
    BY <1>1, <1>2, <2>1, ParseKeeps
  <2> QED  BY <1>1, <2>2 DEF AInv, Parsed
<1>3. CASE EndOfFile
  <2>1. pc = "parse" /\ Parsed /\ pc' = "idsymbols" /\ UNCHANGED <<source, tables>>
    BY <1>3 DEF EndOfFile, AInv
  <2>2. Parsed'
    BY <2>1, Kept
  <2> QED  BY <1>1, <2>1, <2>2 DEF AInv, Parsed
<1>4. CASE Idsymbols
  <2>1. pc = "idsymbols" /\ Parsed /\ UNCHANGED <<source, tables>>
    BY <1>4 DEF Idsymbols, AInv
  <2>2. Parsed'
    BY <2>1, Kept
  <2>3. CASE pc' = "placeinstr"
    <3>1. Pointed' /\ Passed'
      BY <1>1, <1>4, <2>1, <2>3, IdsymbolsPoint, IdsymbolsEnds
    <3> QED  BY <1>1, <2>2, <2>3, <3>1 DEF AInv, Parsed
  <2>4. CASE pc' # "placeinstr"
    <3>1. pc' = "error"
      BY <1>1, <1>4, <2>1, <2>4, IdsymbolsEnds
    <3> QED  BY <1>1, <3>1 DEF AInv
  <2> QED  BY <2>3, <2>4
<1>5. CASE Placeinstr
  <2>1. /\ pc = "placeinstr" /\ Parsed /\ Pointed /\ Passed /\ pc' = "placemem"
        /\ UNCHANGED <<source, codePtr, symbols>>
        /\ codePtr = L!Base(source) /\ L!Relocatable(source)
    BY <1>5 DEF Placeinstr, AInv
  <2>2. CodeReady' /\ Pointed' /\ Passed'
    BY <1>1, <1>5, <2>1, Kept, PlaceinstrReady
  <2>3. codePtr' = L!Base(source)' /\ L!Relocatable(source)'
    BY <2>1
  <2> QED  BY <1>1, <2>1, <2>2, <2>3 DEF AInv
<1>6. CASE Placemem
  <2>1. /\ pc = "placemem" /\ CodeReady /\ Pointed /\ Passed /\ pc' = "resolveptrs"
        /\ UNCHANGED <<source, codePtr, symbols>>
        /\ codePtr = L!Base(source) /\ L!Relocatable(source)
    BY <1>6 DEF Placemem, AInv
  <2>2. Tabled' /\ Pointed' /\ Passed'
    BY <1>1, <1>6, <2>1, Kept, PlacememTables
  <2>3. codePtr' = L!Base(source)' /\ L!Relocatable(source)'
    BY <2>1
  <2> QED  BY <1>1, <2>1, <2>2, <2>3 DEF AInv
<1>7. CASE Resolveptrs
  <2>1. /\ pc = "resolveptrs" /\ Tabled /\ Pointed /\ Passed
        /\ UNCHANGED <<source, codePtr, instructions, lastMemAddr>>
        /\ codePtr = L!Base(source) /\ L!Relocatable(source)
    BY <1>7 DEF Resolveptrs, tables, AInv
  <2>2. (pc' = "build" /\ Resolved') \/ pc' = "error"
    BY <1>1, <1>7, <2>1, ResolveptrsResolve
  <2>3. Tabled' /\ Passed'
    BY <2>1, Kept
  <2>4. codePtr' = L!Base(source)' /\ L!Relocatable(source)'
    BY <2>1
  <2> QED  BY <1>1, <2>2, <2>3, <2>4 DEF AInv
<1>8. CASE Build
  <2>1. /\ pc = "build" /\ Tabled /\ Resolved /\ Passed
        /\ UNCHANGED <<source, codePtr>>
        /\ codePtr = L!Base(source) /\ L!Relocatable(source)
    BY <1>8 DEF Build, AInv
  <2>2. (pc' = "write" /\ Codes') \/ pc' = "error"
    BY <1>1, <1>8, <2>1, BuildBuilds
  <2>3. codePtr' = L!Base(source)' /\ L!Relocatable(source)'
    BY <2>1
  <2> QED  BY <1>1, <2>2, <2>3 DEF AInv
<1>9. CASE Write
  <2>1. /\ pc = "write" /\ pc' = "done" /\ Codes
        /\ UNCHANGED <<source, codePtr, instructions, lastMemAddr, symbols>>
        /\ image' = [i \in DOMAIN Written |->
                        [op |-> Written[i].op, code |-> Written[i].code]]
        /\ codePtr = L!Base(source) /\ L!Relocatable(source)
    BY <1>9 DEF Write, tables, AInv
  <2>2. Codes'
    BY <2>1, Kept
  <2>3. Imaged'
    BY <2>1 DEF Imaged, Written
  <2>4. codePtr' = L!Base(source)' /\ L!Relocatable(source)'
    BY <2>1
  <2> QED  BY <1>1, <2>1, <2>2, <2>3, <2>4 DEF AInv
<1>10. CASE UNCHANGED vars
  <2>1. /\ UNCHANGED <<source, tables>> /\ UNCHANGED <<source, symbols>>
        /\ UNCHANGED <<source, codePtr, instructions, mem, lastAddr>>
        /\ UNCHANGED <<source, instructions, lastMemAddr>>
        /\ UNCHANGED <<source, instructions, lastMemAddr, symbols>>
        /\ UNCHANGED <<instructions, image>> /\ pc' = pc
    BY <1>10 DEF vars, tables, results
  <2>2. /\ Parsed => Parsed'
        /\ Pointed => Pointed'
        /\ CodeReady => CodeReady'
        /\ Tabled => Tabled'
        /\ Resolved => Resolved'
        /\ Codes => Codes'
        /\ Imaged => Imaged'
        /\ Passed => Passed'
    BY <2>1, Kept
  <2>3. /\ (codePtr = L!Base(source))' <=> codePtr = L!Base(source)
        /\ L!Relocatable(source)' <=> L!Relocatable(source)
    BY <2>1
  <2> QED  BY <1>1, <2>1, <2>2, <2>3 DEF AInv
<1> QED  BY <1>2, <1>3, <1>4, <1>5, <1>6, <1>7, <1>8, <1>9, <1>10 DEF Next

LEMMA AlwaysAInv == Spec => []AInv
<1>1. Init => AInv
  BY InitAInv
<1>2. AInv /\ [Next]_vars => AInv'
  BY StepAInv
<1> QED  BY <1>1, <1>2, PTL DEF Spec

\* In every program, wherever its code, data and labels are placed, a branch goes to
\* its label.
THEOREM BranchesCorrect == Spec => []BranchesReachLabels
<1>1. AInv => BranchesReachLabels
  <2>1. CASE pc = "done"
    BY <2>1, BranchesDone DEF AInv
  <2>2. CASE pc # "done"
    BY <2>2 DEF BranchesReachLabels
  <2> QED  BY <2>1, <2>2
<1> QED  BY <1>1, AlwaysAInv, PTL

\* In every program the constants and addresses loaded are those of the source.
THEOREM ConstantsCorrect == Spec => []ConstantsLoad
<1>1. AInv => ConstantsLoad
  <2>1. CASE pc = "done"
    BY <2>1, ConstantsDone DEF AInv
  <2>2. CASE pc # "done"
    BY <2>2 DEF ConstantsLoad
  <2> QED  BY <2>1, <2>2
<1> QED  BY <1>1, AlwaysAInv, PTL

\* In every program the data, words as well as bytes that share a word, are read back
\* where their lines are placed.
THEOREM DataCorrect == Spec => []DataReadsBack
<1>1. AInv => DataReadsBack
  <2>1. CASE pc = "done"
    BY <2>1, DataDone DEF AInv
  <2>2. CASE pc # "done"
    BY <2>2 DEF DataReadsBack
  <2> QED  BY <2>1, <2>2
<1> QED  BY <1>1, AlwaysAInv, PTL

\* The variables of Layout, as ImplementsLayout reads them off the assembler's.
Verdict == IF pc = "done" THEN "assembled"
           ELSE IF pc = "error" THEN "rejected" ELSE "reading"
Addresses == IF pc = "done" THEN Where ELSE <<>>

\* The addresses of an assembled program are those of Layout.
LEMMA WhereAgrees == ASSUME TypeInv, Resolved PROVE Where = L!Where(source)
<1>1. /\ DOMAIN symbols = L!Defined(source)
      /\ \A n \in L!Defined(source) : symbols[n].addr = L!Where(source)[n]
  BY DEF Resolved
<1>2. L!Where(source) = [n \in L!Defined(source) |-> L!Where(source)[n]]
  BY DEF L!Where
<1>3. Where = [n \in L!Defined(source) |-> symbols[n].addr]
  BY <1>1 DEF Where
<1> DEFINE w == L!Where(source)
           D == L!Defined(source)
<1>4. w = [n \in D |-> w[n]] /\ Where = [n \in D |-> symbols[n].addr]
      /\ \A n \in D : symbols[n].addr = w[n]
  BY <1>1, <1>2, <1>3
<1> HIDE DEF w, D
<1>5. Where = w
  BY <1>4
<1> QED  BY <1>5 DEF w

LEMMA LayoutInit == Init => L!Init
BY DEF Init, L!Init

LEMMA LayoutStep ==
    AInv /\ [Next]_vars => [L!Next]_<<source, Verdict, Addresses>>
<1> SUFFICES ASSUME AInv, [Next]_vars PROVE [L!Next]_<<source, Verdict, Addresses>>
  OBVIOUS
<1> DEFINE same == source' = source /\ Verdict' = Verdict /\ Addresses' = Addresses
<1>1. TypeInv /\ IInv
  BY DEF AInv
<1>2. CASE ParseLine
  <2>1. pc = "parse" /\ Parsed
    BY <1>2 DEF ParseLine, AInv
  <2>2. PICK l \in Lines : source' = Append(source, l)
    BY <1>2 DEF ParseLine
  <2>3. (pc' = "parse" /\ Parsed') \/ (pc' = "error" /\ ~L!Relocatable(source'))
    BY <1>1, <1>2, <2>1, ParseKeeps
  <2>4. ~L!Relocatable(source') => ~L!Acceptable(source')
    BY DEF L!Acceptable
  <2>5. Verdict = "reading" /\ Addresses = <<>> /\ Addresses' = <<>>
    BY <2>1, <2>3 DEF Verdict, Addresses
  <2>6. Verdict' = "reading" \/ (Verdict' = "rejected" /\ ~L!Acceptable(source'))
    BY <2>3, <2>4 DEF Verdict
  <2>7. L!Read
    BY <2>2, <2>5, <2>6 DEF L!Read, Verdict, Addresses
  <2> QED  BY <2>7 DEF L!Next
<1>3. ASSUME source' = source, pc # "done", pc # "error", pc' # "done", pc' # "error" PROVE same
  BY <1>3 DEF Verdict, Addresses
<1>4. CASE EndOfFile \/ Placeinstr \/ Placemem
  BY <1>3, <1>4 DEF EndOfFile, Placeinstr, Placemem
<1>5. ASSUME source' = source, pc # "done", pc # "error", pc' = "error",
             ~L!Acceptable(source)
      PROVE  L!Reject
  BY <1>5 DEF L!Reject, Verdict, Addresses
<1>a. CASE Idsymbols
  <2>1. pc = "idsymbols" /\ Parsed /\ source' = source
    BY <1>a DEF Idsymbols, AInv
  <2>2. pc' = "placeinstr" \/ (pc' = "error" /\ ~L!Acceptable(source))
    BY <1>1, <1>a, <2>1, IdsymbolsEnds
  <2> QED  BY <1>3, <1>5, <2>1, <2>2 DEF L!Next
<1>6. CASE Resolveptrs
  <2>1. pc = "resolveptrs" /\ Tabled /\ Pointed /\ source' = source
    BY <1>6 DEF Resolveptrs, AInv
  <2>2. (pc' = "build" /\ Resolved') \/ (pc' = "error" /\ ~L!Acceptable(source))
    BY <1>1, <1>6, <2>1, ResolveptrsResolve
  <2> QED  BY <1>3, <1>5, <2>1, <2>2 DEF L!Next
<1>7. CASE Build
  <2>1. /\ pc = "build" /\ Tabled /\ Resolved /\ Passed /\ L!Relocatable(source)
        /\ source' = source
    BY <1>7 DEF Build, AInv
  <2>2. (pc' = "write" /\ Codes') \/ (pc' = "error" /\ ~L!Acceptable(source))
    BY <1>1, <1>7, <2>1, BuildBuilds
  <2> QED  BY <1>3, <1>5, <2>1, <2>2 DEF L!Next
<1>8. CASE Write
  <2>1. /\ pc = "write" /\ pc' = "done" /\ Codes /\ source' = source /\ symbols' = symbols
    BY <1>8 DEF Write, AInv
  <2>2. Resolved /\ L!Acceptable(source)
    BY <2>1 DEF Codes
  <2>3. Where = L!Where(source)
    BY <1>1, <2>2, WhereAgrees
  <2>4. Where' = Where
    BY <2>1 DEF Where
  <2>5. L!Accept
    BY <2>1, <2>2, <2>3, <2>4 DEF L!Accept
  <2> QED  BY <2>5 DEF L!Next
<1>9. CASE UNCHANGED vars
  BY <1>9 DEF vars, results, Verdict, Addresses, Where
<1> QED  BY <1>2, <1>4, <1>a, <1>6, <1>7, <1>8, <1>9 DEF Next

\* The passes implement the layout that the source alone determines: which programs
\* they accept, and the address of every label.
THEOREM Refinement == Spec => ImplementsLayout
<1>1. Init => L!Init
  BY LayoutInit
<1>2. AInv /\ [Next]_vars => [L!Next]_<<source, Verdict, Addresses>>
  BY LayoutStep
<1> QED  BY <1>1, <1>2, AlwaysAInv, PTL
         DEF Spec, ImplementsLayout, L!LSpec, Verdict, Addresses
=============================================================================
