---------------------------- MODULE RecursionProofs ----------------------------
(***************************************************************************)
(* Induction over the naturals, and what it says of the recursive functions*)
(* of the models: that a function with their equation exists, so that the  *)
(* function they define has it.                                            *)
(***************************************************************************)
EXTENDS Bytes, SequenceTheorems, FiniteSetTheorems, WellFoundedInduction, TLAPS

-----------------------------------------------------------------------------
(***************************************************************************)
(* Induction.                                                              *)
(***************************************************************************)

\* Every nonempty set of naturals has a least element.
LEMMA LeastElement ==
  ASSUME NEW S \in SUBSET Nat, S # {}
  PROVE  \E m \in S : \A k \in S : m <= k
<1>1. PICK m \in S : \A k \in S : <<k, m>> \notin OpToRel(<, Nat)
  BY NatLessThanWellFounded, WFMin
<1>2. ASSUME NEW k \in S PROVE m <= k
  <2>1. <<k, m>> \in Nat \X Nat
    OBVIOUS
  <2>2. ~ (k < m)
    BY <1>1, <2>1 DEF OpToRel
  <2> QED
    BY <2>2
<1> QED
  BY <1>2

\* A set that has n with all the naturals before n has them all.
LEMMA StrongInduction ==
  ASSUME NEW T, \A n \in Nat : 0 .. n - 1 \subseteq T => n \in T
  PROVE  Nat \subseteq T
<1> SUFFICES ASSUME Nat \ T # {} PROVE FALSE
  OBVIOUS
<1>1. PICK n \in Nat \ T : \A m \in Nat \ T : n <= m
  BY LeastElement
<1>2. 0 .. n - 1 \subseteq T
  BY <1>1
<1> QED
  BY <1>1, <1>2

LEMMA Induction ==
  ASSUME NEW T, 0 \in T, \A n \in Nat : n \in T => n + 1 \in T
  PROVE  Nat \subseteq T
<1> SUFFICES ASSUME Nat \ T # {} PROVE FALSE
  OBVIOUS
<1>1. PICK n \in Nat \ T : \A m \in Nat \ T : n <= m
  BY LeastElement
<1>2. n # 0 /\ n - 1 \in Nat
  BY <1>1
<1> QED
  BY <1>1, <1>2

\* A finite nonempty set of naturals has a greatest element.
LEMMA GreatestElement ==
  ASSUME NEW S \in SUBSET Nat, IsFiniteSet(S), S # {}
  PROVE  \E m \in S : \A k \in S : k <= m
<1> DEFINE HasGreatest(U) == \E m \in U : \A k \in U : k <= m
           T == {c \in Nat : \A U \in SUBSET Nat :
                   IsFiniteSet(U) /\ Cardinality(U) = c + 1 => HasGreatest(U)}
<1>1. 0 \in T
  <2> SUFFICES ASSUME NEW U \in SUBSET Nat, IsFiniteSet(U), Cardinality(U) = 0 + 1
               PROVE  HasGreatest(U)
    OBVIOUS
  <2>1. Cardinality(U) = 1
    OBVIOUS
  <2>2. PICK x : U = {x}
    BY <2>1, FS_Singleton, Zenon
  <2> QED
    BY <2>2
<1>2. ASSUME NEW c \in Nat, c \in T PROVE c + 1 \in T
  <2> SUFFICES ASSUME NEW U \in SUBSET Nat, IsFiniteSet(U), Cardinality(U) = (c + 1) + 1
               PROVE  HasGreatest(U)
    OBVIOUS
  <2>1. PICK x \in U : TRUE
    <3>1. Cardinality(U) # 0
      OBVIOUS
    <3> QED
      BY <3>1, FS_EmptySet, Zenon
  <2>2. /\ IsFiniteSet(U \ {x})
        /\ Cardinality(U \ {x}) = c + 1
        /\ U \ {x} \in SUBSET Nat
    BY <2>1, FS_RemoveElement
  <2>3. PICK m \in U \ {x} : \A k \in U \ {x} : k <= m
    BY <1>2, <2>2
  <2>4. m \in U /\ x \in U /\ m \in Nat /\ x \in Nat
    BY <2>1, <2>3
  <2>5. CASE x <= m
    <3>1. \A k \in U : k <= m
      BY <2>3, <2>4, <2>5
    <3> QED
      BY <2>4, <3>1
  <2>6. CASE m <= x
    <3>1. \A k \in U : k <= x
      BY <2>3, <2>4, <2>6
    <3> QED
      BY <2>4, <3>1
  <2> QED
    BY <2>4, <2>5, <2>6
<1> HIDE DEF T, HasGreatest
<1>3. Nat \subseteq T
  BY <1>1, <1>2, Induction
<1>4. Cardinality(S) \in Nat /\ Cardinality(S) # 0
  BY FS_CardinalityType, FS_EmptySet
<1>5. Cardinality(S) - 1 \in T /\ (Cardinality(S) - 1) + 1 = Cardinality(S)
  BY <1>3, <1>4
<1> QED
  BY <1>5 DEF T, HasGreatest

-----------------------------------------------------------------------------
(***************************************************************************)
(* Recursion. Step[n][f] is the value at n of a function whose values      *)
(* before n are those of f.                                                *)
(***************************************************************************)

LooksBack(S, Step) ==
  /\ Step \in [Nat -> [[Nat -> S] -> S]]
  /\ \A n \in Nat : \A f, g \in [Nat -> S] :
       (\A m \in 0 .. n - 1 : f[m] = g[m]) => Step[n][f] = Step[n][g]

\* The functions that are right up to n.
RightUpTo(S, Step, n) ==
  {f \in [Nat -> S] : \A m \in 0 .. n : f[m] = Step[m][f]}

\* Two of them agree.
LEMMA RightAgree ==
  ASSUME NEW S, NEW Step, LooksBack(S, Step), NEW n \in Nat,
         NEW f \in RightUpTo(S, Step, n), NEW g \in RightUpTo(S, Step, n)
  PROVE  \A m \in 0 .. n : f[m] = g[m]
<1> DEFINE T == {m \in Nat : m <= n => f[m] = g[m]}
<1>1. ASSUME NEW m \in Nat, 0 .. m - 1 \subseteq T
      PROVE  m \in T
  <2> SUFFICES ASSUME m <= n PROVE f[m] = g[m]
    OBVIOUS
  <2>1. \A k \in 0 .. m - 1 : f[k] = g[k]
    BY <1>1
  <2>2. Step[m][f] = Step[m][g]
    BY <2>1 DEF LooksBack, RightUpTo
  <2> QED
    BY <2>2 DEF RightUpTo
<1> HIDE DEF T
<1>2. Nat \subseteq T
  BY <1>1, StrongInduction
<1> QED
  BY <1>2 DEF T

\* There is one for every n.
LEMMA RightExist ==
  ASSUME NEW S, NEW Step, LooksBack(S, Step), S # {}
  PROVE  \A n \in Nat : RightUpTo(S, Step, n) # {}
<1> DEFINE T == {n \in Nat : RightUpTo(S, Step, n) # {}}
<1>1. PICK s \in S : TRUE
  OBVIOUS
<1>2. ASSUME NEW f \in [Nat -> S], NEW n \in Nat, \A m \in 0 .. n - 1 : f[m] = Step[m][f]
      PROVE  n \in T
  <2> DEFINE g == [f EXCEPT ![n] = Step[n][f]]
  <2>1. Step[n][f] \in S
    BY DEF LooksBack
  <2>2. /\ g \in [Nat -> S]
        /\ g[n] = Step[n][f]
        /\ \A m \in 0 .. n - 1 : g[m] = f[m]
    BY <2>1
  <2> HIDE DEF g
  <2>3. ASSUME NEW m \in 0 .. n PROVE g[m] = Step[m][g]
    <3>1. m \in Nat /\ \A k \in 0 .. m - 1 : k \in 0 .. n - 1 /\ g[k] = f[k]
      BY <2>2
    <3>2. Step[m][g] = Step[m][f]
      BY <2>2, <3>1 DEF LooksBack
    <3>3. g[m] = Step[m][f]
      BY <1>2, <2>2
    <3> QED
      BY <3>2, <3>3
  <2>4. g \in RightUpTo(S, Step, n)
    BY <2>2, <2>3 DEF RightUpTo
  <2> QED
    BY <2>4
<1>3. 0 \in T
  <2>1. [m \in Nat |-> s] \in [Nat -> S]
    BY <1>1
  <2>2. \A m \in 0 .. 0 - 1 : FALSE
    OBVIOUS
  <2> QED
    BY <1>2, <2>1, <2>2
<1>4. ASSUME NEW n \in Nat, n \in T PROVE n + 1 \in T
  <2>1. PICK f \in RightUpTo(S, Step, n) : TRUE
    BY <1>4
  <2>2. \A m \in 0 .. (n + 1) - 1 : f[m] = Step[m][f]
    BY <2>1 DEF RightUpTo
  <2> QED
    BY <1>2, <2>1, <2>2 DEF RightUpTo
<1> HIDE DEF T
<1>5. Nat \subseteq T
  BY <1>3, <1>4, Induction
<1> QED
  BY <1>5 DEF T

\* A function that is right everywhere.
LEMMA Recursion ==
  ASSUME NEW S, NEW Step, LooksBack(S, Step), S # {}
  PROVE  \E f \in [Nat -> S] : \A n \in Nat : f[n] = Step[n][f]
<1> DEFINE c(n) == CHOOSE f \in RightUpTo(S, Step, n) : TRUE
           f == [n \in Nat |-> c(n)[n]]
<1>1. \A n \in Nat : c(n) \in RightUpTo(S, Step, n)
  BY RightExist
<1> HIDE DEF c
<1>2. \A n \in Nat : c(n) \in [Nat -> S] /\ c(n)[n] = Step[n][c(n)]
  BY <1>1 DEF RightUpTo
<1>3. f \in [Nat -> S] /\ \A n \in Nat : f[n] = c(n)[n]
  BY <1>2
<1> HIDE DEF f
<1>4. ASSUME NEW n \in Nat PROVE f[n] = Step[n][f]
  <2>1. ASSUME NEW m \in 0 .. n - 1 PROVE f[m] = c(n)[m]
    <3>1. m \in Nat /\ 0 .. m \subseteq 0 .. n /\ m \in 0 .. m
      OBVIOUS
    <3>2. c(n) \in RightUpTo(S, Step, m)
      BY <1>1, <3>1 DEF RightUpTo
    <3>3. c(m)[m] = c(n)[m]
      BY <1>1, <3>1, <3>2, RightAgree
    <3> QED
      BY <1>3, <3>1, <3>3
  <2>2. Step[n][f] = Step[n][c(n)]
    BY <1>2, <1>3, <2>1 DEF LooksBack
  <2> QED
    BY <1>2, <1>3, <2>2
<1> QED
  BY <1>3, <1>4

-----------------------------------------------------------------------------
(***************************************************************************)
(* Running sums.                                                           *)
(***************************************************************************)

IsSums(f, w, len) ==
  /\ f[0] = 0
  /\ \A n \in 1 .. len : f[n] = f[n - 1] + w[n]

LEMMA SumsExist ==
  ASSUME NEW len \in Nat, NEW w \in [1 .. len -> Nat]
  PROVE  \E f : /\ IsSums(f, w, len)
                /\ f = [n \in 0 .. len |-> IF n = 0 THEN 0 ELSE f[n - 1] + w[n]]
<1> DEFINE v == [n \in Nat |-> IF n \in 1 .. len THEN w[n] ELSE 0]
           Step == [n \in Nat |-> [f \in [Nat -> Nat] |-> IF n = 0 THEN 0 ELSE f[n - 1] + v[n]]]
<1>1. v \in [Nat -> Nat] /\ \A n \in 1 .. len : v[n] = w[n]
  OBVIOUS
<1> HIDE DEF v
<1>2. LooksBack(Nat, Step)
  <2>1. ASSUME NEW n \in Nat, NEW f \in [Nat -> Nat]
        PROVE  (IF n = 0 THEN 0 ELSE f[n - 1] + v[n]) \in Nat
    <3>1. n # 0 => n - 1 \in Nat
      OBVIOUS
    <3>2. n # 0 => f[n - 1] \in Nat /\ v[n] \in Nat
      BY <1>1, <3>1
    <3>3. \A a, b \in Nat : a + b \in Nat
      OBVIOUS
    <3>4. n # 0 => f[n - 1] + v[n] \in Nat
      BY <3>2, <3>3, Zenon
    <3> QED
      BY <3>4
  <2>2. Step \in [Nat -> [[Nat -> Nat] -> Nat]]
    BY <2>1
  <2>3. ASSUME NEW n \in Nat, NEW f \in [Nat -> Nat], NEW g \in [Nat -> Nat],
               \A m \in 0 .. n - 1 : f[m] = g[m]
        PROVE  Step[n][f] = Step[n][g]
    <3>1. n # 0 => n - 1 \in 0 .. n - 1
      OBVIOUS
    <3>2. n # 0 => f[n - 1] = g[n - 1]
      BY <2>3, <3>1
    <3> QED
      BY <3>2
  <2> HIDE DEF Step
  <2> QED
    BY <2>2, <2>3 DEF LooksBack
<1>3. \A n \in Nat, f \in [Nat -> Nat] : Step[n][f] = IF n = 0 THEN 0 ELSE f[n - 1] + v[n]
  OBVIOUS
<1> HIDE DEF Step
<1>4. PICK F \in [Nat -> Nat] : \A n \in Nat : F[n] = Step[n][F]
  BY <1>2, Recursion
<1>5. \A n \in Nat : F[n] = IF n = 0 THEN 0 ELSE F[n - 1] + v[n]
  BY <1>3, <1>4
<1> DEFINE f == [n \in 0 .. len |-> F[n]]
<1>6. /\ f \in [0 .. len -> Nat]
      /\ f[0] = 0
      /\ \A n \in 1 .. len : f[n] = f[n - 1] + w[n]
  <2>1. /\ \A n \in 1 .. len : n \in Nat /\ n # 0 /\ n \in 0 .. len /\ n - 1 \in 0 .. len
        /\ 0 \in 0 .. len
    OBVIOUS
  <2>2. \A n \in 0 .. len : f[n] = F[n]
    OBVIOUS
  <2>3. f \in [0 .. len -> Nat]
    OBVIOUS
  <2> HIDE DEF f
  <2>4. f[0] = 0
    BY <1>5, <2>1, <2>2
  <2>5. \A n \in 1 .. len : f[n] = f[n - 1] + w[n]
    BY <1>1, <1>5, <2>1, <2>2
  <2> QED
    BY <2>3, <2>4, <2>5
<1>7. f = [n \in 0 .. len |-> f[n]]
  OBVIOUS
<1> HIDE DEF f
<1>8. \A n \in 0 .. len : f[n] = IF n = 0 THEN 0 ELSE f[n - 1] + w[n]
  BY <1>6
<1>9. f = [n \in 0 .. len |-> IF n = 0 THEN 0 ELSE f[n - 1] + w[n]]
  BY <1>7, <1>8
<1> QED
  BY <1>6, <1>9 DEF IsSums

\* The sums of two sequences are the same as far as these are.
LEMMA SumsAgree ==
  ASSUME NEW len \in Nat, NEW k \in Nat, NEW m \in 0 .. len, m <= k,
         NEW v, NEW w, NEW f, NEW g, IsSums(f, v, len), IsSums(g, w, k),
         \A n \in 1 .. m : v[n] = w[n]
  PROVE  f[m] = g[m]
<1> DEFINE T == {n \in Nat : n <= m => f[n] = g[n]}
<1>1. 0 \in T
  BY DEF IsSums
<1>2. ASSUME NEW n \in Nat, n \in T PROVE n + 1 \in T
  <2>1. n + 1 <= m => /\ n + 1 \in 1 .. m /\ n + 1 \in 1 .. len /\ n + 1 \in 1 .. k
                      /\ (n + 1) - 1 = n
    OBVIOUS
  <2> QED
    BY <1>2, <2>1 DEF IsSums
<1> HIDE DEF T
<1>3. Nat \subseteq T
  BY <1>1, <1>2, Induction
<1> QED
  BY <1>3 DEF T

-----------------------------------------------------------------------------
(***************************************************************************)
(* Decimal numbers.                                                        *)
(***************************************************************************)

Digits == 48 .. 57

LEMMA DivMod ==
  ASSUME NEW n \in Nat
  PROVE  /\ n \div 10 \in Nat /\ n % 10 \in 0 .. 9
         /\ n = 10 * (n \div 10) + (n % 10)
         /\ n >= 10 => n \div 10 \in 0 .. n - 1
         /\ n >= 10 => n \div 10 # 0
         /\ n < 10 => n \div 10 = 0 /\ n % 10 = n
OBVIOUS

\* Decimal is what its equation says.
LEMMA DecimalExists ==
  \E f : /\ f \in [Nat -> Seq(Digits)]
         /\ f = [n \in Nat |-> IF n < 10 THEN <<48 + n>> ELSE Append(f[n \div 10], 48 + (n % 10))]
<1> DEFINE S == Seq(Digits)
           Step == [n \in Nat |-> [f \in [Nat -> S] |->
                     IF n < 10 THEN <<48 + n>> ELSE Append(f[n \div 10], 48 + (n % 10))]]
<1>1. ASSUME NEW n \in Nat
      PROVE  /\ n < 10 => 48 + n \in Digits
             /\ 48 + (n % 10) \in Digits
  BY DivMod DEF Digits
<1>2. LooksBack(S, Step)
  <2>1. ASSUME NEW n \in Nat, NEW f \in [Nat -> S]
        PROVE  (IF n < 10 THEN <<48 + n>> ELSE Append(f[n \div 10], 48 + (n % 10))) \in S
    <3>1. CASE n < 10
      <4>1. 48 + n \in Digits
        BY <1>1, <3>1
      <4> QED
        BY <3>1, <4>1
    <3>2. CASE ~(n < 10)
      <4>1. f[n \div 10] \in S
        BY DivMod
      <4>2. 48 + (n % 10) \in Digits
        BY <1>1
      <4>3. Append(f[n \div 10], 48 + (n % 10)) \in S
        BY <4>1, <4>2, AppendProperties
      <4> QED
        BY <3>2, <4>3
    <3> QED
      BY <3>1, <3>2
  <2>2. Step \in [Nat -> [[Nat -> S] -> S]]
    BY <2>1
  <2>3. ASSUME NEW n \in Nat, NEW f \in [Nat -> S], NEW g \in [Nat -> S],
               \A m \in 0 .. n - 1 : f[m] = g[m]
        PROVE  Step[n][f] = Step[n][g]
    <3>1. ~(n < 10) => n \div 10 \in 0 .. n - 1
      BY DivMod
    <3>2. ~(n < 10) => f[n \div 10] = g[n \div 10]
      BY <2>3, <3>1
    <3> QED
      BY <3>2
  <2> HIDE DEF Step
  <2> QED
    BY <2>2, <2>3 DEF LooksBack
<1>3. \A n \in Nat, f \in [Nat -> S] :
        Step[n][f] = IF n < 10 THEN <<48 + n>> ELSE Append(f[n \div 10], 48 + (n % 10))
  OBVIOUS
<1>4. S # {}
  <2>1. <<>> \in S
    OBVIOUS
  <2> QED
    BY <2>1
<1> HIDE DEF Step, S
<1>5. PICK f \in [Nat -> S] : \A n \in Nat : f[n] = Step[n][f]
  BY <1>2, <1>4, Recursion
<1>6. \A n \in Nat : f[n] = IF n < 10 THEN <<48 + n>> ELSE Append(f[n \div 10], 48 + (n % 10))
  BY <1>3, <1>5
<1>7. f = [n \in Nat |-> f[n]]
  BY <1>5
<1>8. f = [n \in Nat |-> IF n < 10 THEN <<48 + n>> ELSE Append(f[n \div 10], 48 + (n % 10))]
  BY <1>6, <1>7
<1> QED
  BY <1>5, <1>8 DEF S

\* Two functions with the equation are one.
LEMMA DecimalUnique ==
  ASSUME NEW f, NEW g,
         f = [n \in Nat |-> IF n < 10 THEN <<48 + n>> ELSE Append(f[n \div 10], 48 + (n % 10))],
         g = [n \in Nat |-> IF n < 10 THEN <<48 + n>> ELSE Append(g[n \div 10], 48 + (n % 10))]
  PROVE  f = g
<1> DEFINE T == {n \in Nat : f[n] = g[n]}
<1>0. /\ \A n \in Nat : f[n] = IF n < 10 THEN <<48 + n>> ELSE Append(f[n \div 10], 48 + (n % 10))
      /\ \A n \in Nat : g[n] = IF n < 10 THEN <<48 + n>> ELSE Append(g[n \div 10], 48 + (n % 10))
  OBVIOUS
<1>1. ASSUME NEW n \in Nat, 0 .. n - 1 \subseteq T
      PROVE  n \in T
  <2>1. ~(n < 10) => n \div 10 \in T
    BY <1>1, DivMod
  <2> QED
    BY <1>0, <2>1
<1> HIDE DEF T
<1>2. Nat \subseteq T
  BY <1>1, StrongInduction
<1> QED
  BY <1>2 DEF T

LEMMA DecimalEquation ==
  /\ Decimal \in [Nat -> Seq(Digits)]
  /\ \A n \in Nat : n < 10 => Decimal[n] = <<48 + n>>
  /\ \A n \in Nat : ~(n < 10) => Decimal[n] = Append(Decimal[n \div 10], 48 + (n % 10))
<1>1. PICK f : /\ f \in [Nat -> Seq(Digits)]
               /\ f = [n \in Nat |-> IF n < 10 THEN <<48 + n>> ELSE Append(f[n \div 10], 48 + (n % 10))]
  BY DecimalExists
<1>2. Decimal = [n \in Nat |-> IF n < 10 THEN <<48 + n>> ELSE Append(Decimal[n \div 10], 48 + (n % 10))]
  BY <1>1, Zenon DEF Decimal
<1>3. Decimal = f
  BY <1>1, <1>2, DecimalUnique
<1> HIDE DEF Decimal
<1>4. Decimal \in [Nat -> Seq(Digits)]
  BY <1>1, <1>3
<1> QED
  BY <1>2, <1>4

LEMMA DecimalIsDigits ==
  ASSUME NEW n \in Nat
  PROVE  Decimal[n] \in Seq(Digits) /\ Len(Decimal[n]) \in Nat \ {0}
<1>1. Decimal[n] \in Seq(Digits)
  BY DecimalEquation
<1>2. CASE n < 10
  <2>1. Decimal[n] = <<48 + n>> /\ Len(<<48 + n>>) = 1
    BY <1>2, DecimalEquation
  <2> QED
    BY <1>1, <2>1
<1>3. CASE ~(n < 10)
  <2>1. Decimal[n \div 10] \in Seq(Digits)
    BY DecimalEquation, DivMod
  <2> QED
    BY <1>1, <1>3, <2>1, DecimalEquation
<1> QED
  BY <1>1, <1>2, <1>3

\* A number can be read from the left: the digits read so far are one, each
\* further digit makes ten times as much and its own value of it, and no number on
\* the way is larger than the one that comes out.
IsReading(v, n) ==
  LET digits == Decimal[n] IN
  /\ v \in [1 .. Len(digits) -> 0 .. n]
  /\ v[1] = digits[1] - 48
  /\ v[Len(digits)] = n
  /\ \A i \in 1 .. Len(digits) - 1 : v[i + 1] = v[i] * 10 + (digits[i + 1] - 48)

LEMMA ReadingExists ==
  ASSUME NEW n \in Nat
  PROVE  \E v : IsReading(v, n)
<1> DEFINE T == {m \in Nat : \E v : IsReading(v, m)}
<1>1. ASSUME NEW m \in Nat, 0 .. m - 1 \subseteq T
      PROVE  m \in T
  <2>1. CASE m < 10
    <3>1. Decimal[m] = <<48 + m>> /\ Len(<<48 + m>>) = 1 /\ <<48 + m>>[1] = 48 + m
      BY <2>1, DecimalEquation
    <3> DEFINE v == [i \in 1 .. 1 |-> m]
    <3>2. v \in [1 .. 1 -> 0 .. m] /\ v[1] = m /\ m = (48 + m) - 48
      OBVIOUS
    <3>3. 1 .. 1 - 1 = {}
      OBVIOUS
    <3> HIDE DEF v
    <3>4. IsReading(v, m)
      BY <3>1, <3>2, <3>3 DEF IsReading
    <3> QED
      BY <3>4
  <2>2. CASE ~(m < 10)
    <3> DEFINE k == m \div 10
               x == m % 10
    <3>1. k \in 0 .. m - 1 /\ k \in Nat /\ x \in 0 .. 9 /\ m = k * 10 + x
      BY <2>2, DivMod
    <3>a. Decimal[m] = Append(Decimal[k], 48 + x)
      BY <2>2, DecimalEquation
    <3> HIDE DEF k, x
    <3>2. PICK w : IsReading(w, k)
      BY <1>1, <3>1
    <3> DEFINE d == Decimal[k]
               L == Len(d)
    <3>3. d \in Seq(Digits) /\ L \in Nat \ {0}
      BY <3>1, DecimalIsDigits
    <3>4. /\ Len(Decimal[m]) = L + 1
          /\ \A i \in 1 .. L : Decimal[m][i] = d[i]
          /\ Decimal[m][L + 1] = 48 + x
      <4>1. 48 + x \in Digits
        BY <3>1 DEF Digits
      <4> HIDE DEF d
      <4> QED
        BY <3>3, <3>a, <4>1, AppendProperties DEF d
    <3>5. /\ w \in [1 .. L -> 0 .. k] /\ w[1] = d[1] - 48 /\ w[L] = k
          /\ \A i \in 1 .. L - 1 : w[i + 1] = w[i] * 10 + (d[i + 1] - 48)
      BY <3>2 DEF IsReading
    <3> HIDE DEF d, L
    <3> DEFINE v == [i \in 1 .. L + 1 |-> IF i = L + 1 THEN m ELSE w[i]]
    <3>6. v \in [1 .. L + 1 -> 0 .. m]
      <4> SUFFICES ASSUME NEW i \in 1 .. L + 1, i # L + 1 PROVE w[i] \in 0 .. m
        BY <3>1
      <4>1. i \in 1 .. L
        BY <3>3
      <4>2. w[i] \in 0 .. k
        BY <3>5, <4>1
      <4> QED
        BY <3>1, <4>2
    <3>7. v[L + 1] = m /\ \A i \in 1 .. L : v[i] = w[i]
      BY <3>3
    <3> HIDE DEF v
    <3>8. v[1] = Decimal[m][1] - 48
      BY <3>3, <3>4, <3>5, <3>7
    <3>9. ASSUME NEW i \in 1 .. (L + 1) - 1
          PROVE  v[i + 1] = v[i] * 10 + (Decimal[m][i + 1] - 48)
      <4>1. CASE i = L
        <5>1. v[i + 1] = m /\ v[i] = k /\ Decimal[m][i + 1] = 48 + x
          BY <3>3, <3>4, <3>5, <3>7, <4>1
        <5> QED
          BY <3>1, <5>1
      <4>2. CASE i # L
        <5>1. i \in 1 .. L - 1 /\ i \in 1 .. L /\ i + 1 \in 1 .. L
          BY <3>3, <4>2
        <5> QED
          BY <3>4, <3>5, <3>7, <5>1
      <4> QED
        BY <4>1, <4>2
    <3>10. IsReading(v, m)
      BY <3>4, <3>6, <3>7, <3>8, <3>9 DEF IsReading
    <3> QED
      BY <3>10
  <2> QED
    BY <2>1, <2>2
<1> HIDE DEF T
<1>2. Nat \subseteq T
  BY <1>1, StrongInduction
<1> QED
  BY <1>2 DEF T

-----------------------------------------------------------------------------
(***************************************************************************)
(* Flattened sequences.                                                    *)
(***************************************************************************)

IsFlat(f, seqs) ==
  /\ f[0] = <<>>
  /\ \A n \in 1 .. Len(seqs) : f[n] = f[n - 1] \o seqs[n]

LEMMA FlatExists ==
  ASSUME NEW S, NEW seqs \in Seq(Seq(S))
  PROVE  \E f \in [Nat -> Seq(S)] : IsFlat(f, seqs)
<1> DEFINE B == Seq(S)
           v == [n \in Nat |-> IF n \in 1 .. Len(seqs) THEN seqs[n] ELSE <<>>]
           Step == [n \in Nat |-> [f \in [Nat -> B] |-> IF n = 0 THEN <<>> ELSE f[n - 1] \o v[n]]]
<1>1. v \in [Nat -> B] /\ \A n \in 1 .. Len(seqs) : v[n] = seqs[n]
  <2>1. <<>> \in B
    OBVIOUS
  <2>2. seqs \in Seq(B) /\ Len(seqs) \in Nat /\ 1 .. Len(seqs) \subseteq Nat
    OBVIOUS
  <2>3. \A n \in 1 .. Len(seqs) : seqs[n] \in B
    BY <2>2, ElementOfSeq
  <2> HIDE DEF B
  <2> QED
    BY <2>1, <2>2, <2>3
<1>2. <<>> \in B /\ \A a, b \in B : a \o b \in B
  BY ConcatProperties
<1>b. seqs \in Seq(B)
  OBVIOUS
<1> HIDE DEF v, B
<1>3. LooksBack(B, Step)
  <2>1. ASSUME NEW n \in Nat, NEW f \in [Nat -> B]
        PROVE  (IF n = 0 THEN <<>> ELSE f[n - 1] \o v[n]) \in B
    <3>1. n # 0 => n - 1 \in Nat
      OBVIOUS
    <3>2. n # 0 => f[n - 1] \in B /\ v[n] \in B
      BY <1>1, <3>1
    <3> QED
      BY <1>2, <3>2
  <2>2. Step \in [Nat -> [[Nat -> B] -> B]]
    BY <2>1
  <2>3. ASSUME NEW n \in Nat, NEW f \in [Nat -> B], NEW g \in [Nat -> B],
               \A m \in 0 .. n - 1 : f[m] = g[m]
        PROVE  Step[n][f] = Step[n][g]
    <3>1. n # 0 => n - 1 \in 0 .. n - 1
      OBVIOUS
    <3>2. n # 0 => f[n - 1] = g[n - 1]
      BY <2>3, <3>1
    <3> QED
      BY <3>2
  <2> HIDE DEF Step
  <2> QED
    BY <2>2, <2>3 DEF LooksBack
<1>4. \A n \in Nat, f \in [Nat -> B] : Step[n][f] = IF n = 0 THEN <<>> ELSE f[n - 1] \o v[n]
  OBVIOUS
<1> HIDE DEF Step
<1>c. B # {}
  BY <1>2
<1>5. PICK f \in [Nat -> B] : \A n \in Nat : f[n] = Step[n][f]
  BY <1>3, <1>c, Recursion
<1>6. \A n \in Nat : f[n] = IF n = 0 THEN <<>> ELSE f[n - 1] \o v[n]
  BY <1>4, <1>5
<1>7. 0 \in Nat /\ \A n \in 1 .. Len(seqs) : n \in Nat /\ n # 0
  BY <1>b
<1>8. IsFlat(f, seqs)
  BY <1>1, <1>6, <1>7 DEF IsFlat
<1> QED
  BY <1>5, <1>8 DEF B

LEMMA FlatIs ==
  ASSUME NEW S, NEW seqs \in Seq(Seq(S)), NEW f, IsFlat(f, seqs)
  PROVE  FlattenSeq(seqs) = f[Len(seqs)]
<1>1. CASE Len(seqs) = 0
  <2>1. seqs = <<>>
    BY <1>1
  <2> QED
    BY <1>1, <2>1 DEF IsFlat, FlattenSeq
<1>2. CASE Len(seqs) # 0
  <2> DEFINE L == Len(seqs)
             Flat(g) == g = [i \in 1 .. L |-> IF i = 1 THEN seqs[i] ELSE g[i - 1] \o seqs[i]]
             h == [i \in 1 .. L |-> f[i]]
             flatten == CHOOSE g : Flat(g)
  <2>1. FlattenSeq(seqs) = flatten[L]
    BY <1>2, Zenon DEF FlattenSeq
  <2>2. L \in Nat /\ L # 0 /\ 1 \in 1 .. L /\ L \in 1 .. L
    BY <1>2
  <2>b. seqs \in Seq(Seq(S)) /\ seqs[1] \in Seq(S)
    BY <2>2
  <2> HIDE DEF L
  <2>3. Flat(h)
    <3>1. f[1] = seqs[1]
      <4>0. 1 - 1 = 0 /\ 1 \in 1 .. Len(seqs)
        BY <2>2 DEF L
      <4>1. f[1] = <<>> \o seqs[1]
        BY <4>0, Zenon DEF IsFlat
      <4>2. <<>> \o seqs[1] = seqs[1]
        BY <2>b, ConcatEmptySeq
      <4> QED
        BY <4>1, <4>2
    <3>2. ASSUME NEW i \in 1 .. L, i # 1
          PROVE  f[i] = h[i - 1] \o seqs[i]
      <4>1. i - 1 \in 1 .. L
        BY <2>2, <3>2
      <4>2. f[i] = f[i - 1] \o seqs[i]
        BY DEF IsFlat, L
      <4> QED
        BY <4>1, <4>2
    <3> QED
      BY <3>1, <3>2
  <2>4. Flat(flatten)
    <3> HIDE DEF Flat, h
    <3> QED
      BY <2>3
  <2> HIDE DEF flatten, h
  <2>5. flatten[1] = seqs[1] /\ h[1] = seqs[1]
    BY <2>2, <2>3, <2>4
  <2>6. \A i \in 1 .. L : i # 1 => /\ flatten[i] = flatten[i - 1] \o seqs[i]
                                   /\ h[i] = h[i - 1] \o seqs[i]
    BY <2>3, <2>4
  <2> HIDE DEF Flat
  <2> DEFINE T == {n \in Nat : n \in 1 .. L => flatten[n] = h[n]}
  <2>7. 0 \in T
    OBVIOUS
  <2>8. ASSUME NEW n \in Nat, n \in T PROVE n + 1 \in T
    <3> SUFFICES ASSUME n + 1 \in 1 .. L PROVE flatten[n + 1] = h[n + 1]
      OBVIOUS
    <3>1. CASE n = 0
      <4>1. n + 1 = 1
        BY <3>1
      <4> QED
        BY <2>5, <4>1
    <3>2. CASE n # 0
      <4>1. n \in 1 .. L /\ n + 1 # 1 /\ (n + 1) - 1 = n
        BY <2>2, <3>2
      <4>2. flatten[n] = h[n]
        BY <2>8, <4>1
      <4>3. flatten[n + 1] = flatten[n] \o seqs[n + 1] /\ h[n + 1] = h[n] \o seqs[n + 1]
        BY <2>6, <4>1
      <4> QED
        BY <4>2, <4>3
    <3> QED
      BY <3>1, <3>2
  <2> HIDE DEF T
  <2>9. Nat \subseteq T
    BY <2>7, <2>8, Induction
  <2>10. flatten[L] = h[L]
    BY <2>2, <2>9 DEF T
  <2>11. h[L] = f[L]
    BY <2>2 DEF h
  <2> QED
    BY <2>1, <2>10, <2>11 DEF L
<1> QED
  BY <1>1, <1>2

LEMMA FlatTyped ==
  ASSUME NEW S, NEW seqs \in Seq(Seq(S))
  PROVE  FlattenSeq(seqs) \in Seq(S)
<1>1. PICK f \in [Nat -> Seq(S)] : IsFlat(f, seqs)
  BY FlatExists
<1>2. Len(seqs) \in Nat
  OBVIOUS
<1> QED
  BY <1>1, <1>2, FlatIs

LEMMA FlatEmpty == FlattenSeq(<<>>) = <<>>
BY DEF FlattenSeq

LEMMA FlatAppend ==
  ASSUME NEW S, NEW seqs \in Seq(Seq(S)), NEW s \in Seq(S)
  PROVE  FlattenSeq(Append(seqs, s)) = FlattenSeq(seqs) \o s
<1> DEFINE B == Seq(S)
           more == Append(seqs, s)
<1>0. seqs \in Seq(B) /\ s \in B
  OBVIOUS
<1> HIDE DEF B
<1>1. /\ more \in Seq(B) /\ Len(more) = Len(seqs) + 1 /\ Len(seqs) \in Nat
      /\ \A n \in 1 .. Len(seqs) : more[n] = seqs[n]
      /\ more[Len(seqs) + 1] = s
  BY <1>0, AppendProperties
<1> HIDE DEF more
<1>2. PICK f \in [Nat -> B] : IsFlat(f, more)
  BY <1>1, FlatExists DEF B
<1>3. IsFlat(f, seqs)
  <2>1. 1 .. Len(seqs) \subseteq 1 .. Len(more)
    BY <1>1
  <2>2. f[0] = <<>> /\ \A n \in 1 .. Len(more) : f[n] = f[n - 1] \o more[n]
    BY <1>2 DEF IsFlat
  <2>3. \A n \in 1 .. Len(seqs) : f[n] = f[n - 1] \o seqs[n]
    BY <1>1, <2>1, <2>2, Zenon
  <2> QED
    BY <2>2, <2>3 DEF IsFlat
<1>4. Len(seqs) + 1 \in 1 .. Len(more) /\ (Len(seqs) + 1) - 1 = Len(seqs)
  BY <1>1
<1>5. f[Len(seqs) + 1] = f[Len(seqs)] \o s
  BY <1>1, <1>2, <1>4 DEF IsFlat
<1>6. FlattenSeq(more) = f[Len(more)]
  BY <1>1, <1>2, FlatIs DEF B
<1>7. FlattenSeq(seqs) = f[Len(seqs)]
  BY <1>3, FlatIs
<1> QED
  BY <1>1, <1>5, <1>6, <1>7 DEF more

\* What comes of two parts comes of the whole.
LEMMA FlatConcat ==
  ASSUME NEW S, NEW a \in Seq(Seq(S)), NEW b \in Seq(Seq(S))
  PROVE  FlattenSeq(a \o b) = FlattenSeq(a) \o FlattenSeq(b)
<1> DEFINE B == Seq(S)
           F(c) == FlattenSeq(c)
           T == {n \in Nat : \A c \in Seq(B) : Len(c) = n => F(a \o c) = F(a) \o F(c)}
<1>0. a \in Seq(B) /\ b \in Seq(B)
  OBVIOUS
<1>1. /\ \A c \in Seq(B) : F(c) \in B
      /\ \A c \in Seq(B), s \in B : F(Append(c, s)) = F(c) \o s
      /\ \A r, s, t \in B : (r \o s) \o t = r \o (s \o t)
      /\ \A r \in B : r \o <<>> = r
      /\ F(<<>>) = <<>>
  <2>1. \A c \in Seq(B) : F(c) \in B
    BY FlatTyped, Zenon
  <2>2. \A c \in Seq(B), s \in B : F(Append(c, s)) = F(c) \o s
    BY FlatAppend, Zenon
  <2>3. \A r, s, t \in B : (r \o s) \o t = r \o (s \o t)
    <3> SUFFICES ASSUME NEW r \in B, NEW s \in B, NEW t \in B
                 PROVE  (r \o s) \o t = r \o (s \o t)
      OBVIOUS
    <3> QED
      BY ConcatAssociative
  <2>4. \A r \in B : r \o <<>> = r
    BY ConcatEmptySeq, Zenon
  <2>5. F(<<>>) = <<>>
    BY FlatEmpty
  <2> QED
    BY <2>1, <2>2, <2>3, <2>4, <2>5, Zenon
<1> HIDE DEF B, F
<1>2. 0 \in T
  <2> SUFFICES ASSUME NEW c \in Seq(B), Len(c) = 0 PROVE F(a \o c) = F(a) \o F(c)
    OBVIOUS
  <2>1. c = <<>> /\ a \o <<>> = a
    BY <1>0
  <2>2. F(a) \in B
    BY <1>0, <1>1
  <2> QED
    BY <1>1, <2>1, <2>2
<1>3. ASSUME NEW n \in Nat, n \in T PROVE n + 1 \in T
  <2> SUFFICES ASSUME NEW c \in Seq(B), Len(c) = n + 1 PROVE F(a \o c) = F(a) \o F(c)
    OBVIOUS
  <2>1. c # <<>>
    OBVIOUS
  <2>2. PICK d \in Seq(B), s \in B : c = Append(d, s)
    BY <2>1, SequenceEmptyOrAppend
  <2>3. Len(d) = n
    BY <2>2, AppendProperties
  <2>4. a \o c = Append(a \o d, s) /\ a \o d \in Seq(B)
    <3>1. c = d \o <<s>> /\ <<s>> \in Seq(B)
      BY <2>2, AppendIsConcat
    <3>2. a \o d \in Seq(B)
      BY <1>0, ConcatProperties
    <3>3. Append(a \o d, s) = (a \o d) \o <<s>>
      BY <3>2, AppendIsConcat
    <3> QED
      BY <1>0, <3>1, <3>2, <3>3, ConcatAssociative
  <2>5. F(a \o d) = F(a) \o F(d)
    BY <1>3, <2>3
  <2>6. F(a \o c) = (F(a) \o F(d)) \o s
    <3>1. F(a \o c) = F(Append(a \o d, s))
      BY <2>4
    <3>2. \A c1 \in Seq(B), s1 \in B : F(Append(c1, s1)) = F(c1) \o s1
      BY <1>1
    <3>3. F(Append(a \o d, s)) = F(a \o d) \o s
      BY <2>2, <2>4, <3>2, Zenon
    <3> QED
      BY <2>5, <3>1, <3>3, Zenon
  <2>7. F(a) \in B /\ F(d) \in B
    BY <1>0, <1>1
  <2>8. F(c) = F(d) \o s
    BY <1>1, <2>2
  <2>9. (F(a) \o F(d)) \o s = F(a) \o (F(d) \o s)
    BY <1>1, <2>2, <2>7, SMTT(40)
  <2> QED
    BY <2>6, <2>8, <2>9, Zenon
<1> HIDE DEF T
<1>4. Nat \subseteq T
  BY <1>2, <1>3, Induction
<1>5. Len(b) \in T
  BY <1>0, <1>4
<1> QED
  BY <1>0, <1>5 DEF T, F

LEMMA FlatOne ==
  ASSUME NEW S, NEW s \in Seq(S)
  PROVE  FlattenSeq(<<s>>) = s
<1> DEFINE B == Seq(S)
<1>1. s \in B /\ <<>> \in Seq(B) /\ <<s>> = Append(<<>>, s)
  OBVIOUS
<1>2. FlattenSeq(Append(<<>>, s)) = FlattenSeq(<<>>) \o s
  BY <1>1, FlatAppend
<1>3. <<>> \o s = s
  BY ConcatEmptySeq
<1> QED
  BY <1>1, <1>2, <1>3, FlatEmpty, Zenon

\* What comes of the rest of seqs begins with what comes of its first part.
LEMMA FlatRest ==
  ASSUME NEW S, NEW seqs \in Seq(Seq(S)), NEW k \in 0 .. Len(seqs), NEW m \in k .. Len(seqs)
  PROVE  /\ FlattenSeq(SubSeq(seqs, k + 1, m)) \in Seq(S)
         /\ FlattenSeq(SubSeq(seqs, m + 1, Len(seqs))) \in Seq(S)
         /\ FlattenSeq(SubSeq(seqs, k + 1, Len(seqs))) =
              FlattenSeq(SubSeq(seqs, k + 1, m)) \o FlattenSeq(SubSeq(seqs, m + 1, Len(seqs)))
<1> DEFINE B == Seq(S)
           a == SubSeq(seqs, k + 1, m)
           b == SubSeq(seqs, m + 1, Len(seqs))
<1>0. /\ seqs \in Seq(B) /\ Len(seqs) \in Nat /\ k \in Nat /\ m \in Nat /\ k <= m /\ m <= Len(seqs)
      /\ k + 1 \in 1 .. Len(seqs) + 1 /\ m \in (k + 1) - 1 .. Len(seqs) /\ Len(seqs) \in m .. Len(seqs)
      /\ k + 1 \in Int /\ m + 1 \in Int
  OBVIOUS
<1> HIDE DEF B
<1>1. a \o b = SubSeq(seqs, k + 1, Len(seqs))
  BY <1>0, ConcatAdjacentSubSeq
<1>2. a \in Seq(B)
  <2>1. \A i \in k + 1 .. m : seqs[i] \in B
    BY <1>0, ElementOfSeq
  <2> QED
    BY <1>0, <2>1, SubSeqProperties
<1>3. b \in Seq(B)
  <2>1. \A i \in m + 1 .. Len(seqs) : seqs[i] \in B
    BY <1>0, ElementOfSeq
  <2> QED
    BY <1>0, <2>1, SubSeqProperties
<1> HIDE DEF a, b
<1>4. FlattenSeq(a \o b) = FlattenSeq(a) \o FlattenSeq(b)
  BY <1>2, <1>3, FlatConcat DEF B
<1>5. FlattenSeq(a) \in Seq(S) /\ FlattenSeq(b) \in Seq(S)
  BY <1>2, <1>3, FlatTyped DEF B
<1> QED
  BY <1>1, <1>4, <1>5 DEF a, b

LEMMA FlatFirst ==
  ASSUME NEW S, NEW seqs \in Seq(Seq(S)), NEW k \in 0 .. Len(seqs) - 1
  PROVE  FlattenSeq(SubSeq(seqs, k + 1, Len(seqs))) =
           seqs[k + 1] \o FlattenSeq(SubSeq(seqs, (k + 1) + 1, Len(seqs)))
<1> DEFINE B == Seq(S)
<1>1. /\ k \in 0 .. Len(seqs) /\ k + 1 \in k .. Len(seqs) /\ k + 1 \in 1 .. Len(seqs)
      /\ seqs \in Seq(B) /\ k + 1 \in k + 1 .. Len(seqs)
  OBVIOUS
<1> HIDE DEF B
<1>3. seqs[k + 1] \in B
  BY <1>1, ElementOfSeq
<1>2. SubSeq(seqs, k + 1, k + 1) = <<seqs[k + 1]>>
  <2>1. SubSeq(seqs, k + 1, k + 1) = <<seqs[k + 1]>> \o SubSeq(seqs, (k + 1) + 1, k + 1)
    BY <1>1, SubSeqRecursiveFirst
  <2>2. SubSeq(seqs, (k + 1) + 1, k + 1) = <<>>
    <3>1. (k + 1) + 1 \in Int /\ k + 1 \in Int /\ k + 1 < (k + 1) + 1
      OBVIOUS
    <3> QED
      BY <3>1, SubSeqEmpty
  <2>3. <<seqs[k + 1]>> \in Seq(B)
    BY <1>3
  <2> QED
    BY <2>1, <2>2, <2>3, ConcatEmptySeq
<1>4. FlattenSeq(<<seqs[k + 1]>>) = seqs[k + 1]
  BY <1>3, FlatOne DEF B
<1>5. FlattenSeq(SubSeq(seqs, k + 1, Len(seqs))) =
        FlattenSeq(SubSeq(seqs, k + 1, k + 1)) \o FlattenSeq(SubSeq(seqs, (k + 1) + 1, Len(seqs)))
  BY <1>1, FlatRest
<1> QED
  BY <1>2, <1>4, <1>5
=============================================================================
