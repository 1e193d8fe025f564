-------------------------- MODULE SharedFolderProofs --------------------------
(***************************************************************************)
(* The shared save folder for any number of sessions and installations:    *)
(* types, whole files under final names, and who may remove whose          *)
(* temporary file; and the file names for every folder, name and job.      *)
(* tlapm expands a range of literals and Zenon counts a numeral out, so a  *)
(* leaf on large numbers is given to SMT alone and avoids such ranges.     *)
(***************************************************************************)
EXTENDS SharedFolder, SequenceTheorems, WellFoundedInduction, TLAPS

-----------------------------------------------------------------------------
(* Functions defined by recursion over the naturals.                       *)

Below == {p \in Nat \X Nat : p[1] < p[2]}

\* A set of naturals has a least element: what induction needs.
LEMMA Least ==
    ASSUME NEW S \in SUBSET Nat, S # {}
    PROVE  \E n \in S : \A m \in S : n <= m
<1>1. OpToRel(<,Nat) = Below
  BY DEF OpToRel, Below
<1>2. IsWellFoundedOn(Below, Nat)
  BY <1>1, NatLessThanWellFounded
<1>3. PICK n \in S : \A m \in S : <<m, n>> \notin Below
  BY <1>2, WFMin
<1>4. \A m \in S : m \in Nat /\ n \in Nat /\ ~(m < n)
  BY <1>3 DEF Below
<1> QED
  BY <1>4

\* f follows the recursion up to n: a value of its own below `base`, and from
\* there on the one that `step` makes of the value at the smaller `prev`.
Value(first, step, prev, base, f, m) ==
    IF m < base THEN first[m] ELSE step[<<f[prev[m]], m>>]
Follows(first, step, prev, base, f, n) ==
    \A m \in 0..n : f[m] = Value(first, step, prev, base, f, m)

Recursion(S, first, step, prev, base) ==
    /\ base \in Nat \ {0}
    /\ first \in [Nat -> S] /\ step \in [S \X Nat -> S]
    /\ prev \in [Nat -> Nat] /\ \A n \in Nat : n >= base => prev[n] < n
Defines(S, first, step, prev, base, f) ==
    f \in [Nat -> S] /\ \A n \in Nat : f[n] = Value(first, step, prev, base, f, n)

\* Such a recursion defines a function.
LEMMA RecursionDefines ==
    ASSUME NEW S, NEW base, NEW first, NEW step, NEW prev,
           Recursion(S, first, step, prev, base)
    PROVE  \E f : Defines(S, first, step, prev, base, f)
<1>0. /\ base \in Nat \ {0}
      /\ first \in [Nat -> S] /\ step \in [S \X Nat -> S]
      /\ prev \in [Nat -> Nat] /\ \A n \in Nat : n >= base => prev[n] < n
  BY DEF Recursion
<1> USE <1>0
<1> DEFINE Good(f, n) == f \in [0..n -> S] /\ Follows(first, step, prev, base, f, n)
<1>1. ASSUME NEW n \in Nat, n > 0 => \E g : Good(g, n - 1)
      PROVE  \E f : Good(f, n)
  <2>1. PICK g : n > 0 => Good(g, n - 1)
    BY <1>1
  <2> DEFINE f == [m \in 0..n |-> IF m < n THEN g[m] ELSE Value(first, step, prev, base, g, n)]
  <2>2. \A m \in 0..n : m < n => n > 0 /\ m \in 0..(n - 1) /\ f[m] = g[m] /\ g[m] \in S
    BY <2>1
  <2>3. \A m \in 0..n : m >= base => prev[m] \in 0..n /\ prev[m] < n /\ f[prev[m]] = g[prev[m]]
                                       /\ g[prev[m]] \in S
    <3> SUFFICES ASSUME NEW m \in 0..n, m >= base
                 PROVE  prev[m] \in 0..n /\ prev[m] < n
      BY <2>2
    <3> QED
      OBVIOUS
  <2>4. \A m \in 0..n : /\ Value(first, step, prev, base, f, m) = Value(first, step, prev, base, g, m)
                        /\ Value(first, step, prev, base, f, m) \in S
    <3> SUFFICES ASSUME NEW m \in 0..n
                 PROVE  /\ Value(first, step, prev, base, f, m) = Value(first, step, prev, base, g, m)
                        /\ Value(first, step, prev, base, f, m) \in S
      OBVIOUS
    <3> HIDE DEF f
    <3>1. CASE m < base
      BY <3>1 DEF Value
    <3>2. CASE m >= base
      <4>1. f[prev[m]] = g[prev[m]] /\ g[prev[m]] \in S /\ m \in Nat
        BY <2>3, <3>2
      <4>2. ~(m < base)
        BY <3>2
      <4>3. step[<<g[prev[m]], m>>] \in S
        <5>1. <<g[prev[m]], m>> \in S \X Nat
          BY <4>1
        <5> QED
          BY <5>1
      <4> QED
        BY <4>1, <4>2, <4>3 DEF Value
    <3> QED
      BY <3>1, <3>2
  <2>5. \A m \in 0..n : f[m] = Value(first, step, prev, base, f, m)
    <3> SUFFICES ASSUME NEW m \in 0..n
                 PROVE  f[m] = Value(first, step, prev, base, g, m)
      BY <2>4
    <3>1. CASE m < n
      BY <2>1, <2>2, <3>1 DEF Follows
    <3>2. CASE m = n
      BY <3>2
    <3> QED
      BY <3>1, <3>2
  <2>6. f \in [0..n -> S]
    <3>1. \A m \in 0..n : f[m] \in S
      BY <2>4, <2>5
    <3> QED
      BY <3>1
  <2> HIDE DEF f
  <2> QED
    BY <2>5, <2>6 DEF Follows
<1>2. \A n \in Nat : \E f : Good(f, n)
  <2> DEFINE Defined == {n \in Nat : \E f : Good(f, n)}
             Bad     == Nat \ Defined
  <2>1. \A n \in Nat : (n > 0 => n - 1 \in Defined) => n \in Defined
    <3> HIDE DEF Good
    <3> QED
      BY <1>1
  <2> HIDE DEF Defined
  <2>2. Bad = {}
    <3> SUFFICES ASSUME Bad # {} PROVE FALSE
      OBVIOUS
    <3>1. PICK n \in Bad : \A m \in Bad : n <= m
      BY Least
    <3>2. n \in Nat /\ (n > 0 => n - 1 \in Nat /\ ~(n <= n - 1))
      BY <3>1
    <3> QED
      BY <2>1, <3>1, <3>2
  <2> QED
    BY <2>2 DEF Defined
<1>3. ASSUME NEW n \in Nat, NEW m \in 0..n, NEW f, NEW g, Good(f, n), Good(g, m)
      PROVE  \A k \in 0..m : f[k] = g[k]
  <2> DEFINE Bad == {k \in 0..m : f[k] # g[k]}
  <2> SUFFICES ASSUME Bad # {} PROVE FALSE
    OBVIOUS
  <2>0. Bad \in SUBSET Nat
    OBVIOUS
  <2>1. PICK k \in Bad : \A j \in Bad : k <= j
    <3> HIDE DEF Bad
    <3> QED
      BY <2>0, Least
  <2>2. k \in 0..m /\ k \in 0..n /\ f[k] # g[k] /\ \A j \in 0..m : j < k => f[j] = g[j]
    BY <2>1
  <2>3. /\ f[k] = Value(first, step, prev, base, f, k)
        /\ g[k] = Value(first, step, prev, base, g, k)
    BY <1>3, <2>2 DEF Follows
  <2>4. CASE k < base
    BY <2>2, <2>3, <2>4 DEF Value
  <2>5. CASE k >= base
    <3>1. prev[k] \in 0..m /\ prev[k] < k
      BY <2>2, <2>5
    <3> QED
      BY <2>2, <2>3, <2>5, <3>1 DEF Value
  <2> QED
    BY <2>2, <2>4, <2>5
<1> DEFINE G == [n \in Nat |-> CHOOSE f : Good(f, n)]
           F == [n \in Nat |-> G[n][n]]
<1>4. \A n \in Nat : Good(G[n], n)
  <2> HIDE DEF Good
  <2> QED
    BY <1>2
<1>5. F \in [Nat -> S]
  <2>1. \A n \in Nat : G[n][n] \in S
    <3> HIDE DEF G
    <3> QED
      BY <1>4
  <2> HIDE DEF G
  <2> QED
    BY <2>1
<1>6. \A n \in Nat : F[n] = Value(first, step, prev, base, F, n)
  <2> SUFFICES ASSUME NEW n \in Nat PROVE F[n] = Value(first, step, prev, base, F, n)
    OBVIOUS
  <2>1. F[n] = Value(first, step, prev, base, G[n], n)
    <3>1. Good(G[n], n) /\ F[n] = G[n][n]
      BY <1>4
    <3> HIDE DEF G, F
    <3> QED
      BY <3>1 DEF Follows
  <2>2. CASE n < base
    BY <2>1, <2>2 DEF Value
  <2>3. CASE n >= base
    <3>1. prev[n] \in 0..n /\ prev[n] \in Nat
      BY <2>3
    <3>2. F[prev[n]] = G[prev[n]][prev[n]]
      BY <3>1
    <3>3. Good(G[n], n) /\ Good(G[prev[n]], prev[n])
      <4> HIDE DEF Good, G
      <4> QED
        BY <1>4, <3>1
    <3>4. \A k \in 0..prev[n] : G[n][k] = G[prev[n]][k]
      <4> HIDE DEF Good, G
      <4> QED
        BY <1>3, <3>1, <3>3
    <3>5. G[n][prev[n]] = F[prev[n]]
      <4> HIDE DEF G, F, Good
      <4> QED
        BY <3>1, <3>2, <3>4
    <3> HIDE DEF G, F
    <3> QED
      BY <2>1, <2>3, <3>5 DEF Value
  <2> QED
    BY <2>2, <2>3
<1> HIDE DEF F
<1> QED
  BY <1>5, <1>6 DEF Defines

-----------------------------------------------------------------------------
(* _base36 and the decimals of a number.                                   *)

Texts36 == {s \in Seq(0..35) : Len(s) >= 1}
Base36Of == CHOOSE d : d = [m \in Nat |-> IF m < 36 THEN <<m>> ELSE Append(d[m \div 36], m % 36)]
DecimalsOf == CHOOSE d : d = [n \in Nat |-> IF n < 10 THEN 1 ELSE 1 + d[n \div 10]]

LEMMA Base36Recursion ==
    \A n \in Nat : /\ Base36(n) \in Texts36
                   /\ n < 36 => Base36(n) = <<n>>
                   /\ n >= 36 => Base36(n) = Append(Base36(n \div 36), n % 36)
<1> DEFINE first == [m \in Nat |-> <<m % 36>>]
           step == [p \in Texts36 \X Nat |-> Append(p[1], p[2] % 36)]
           prev == [n \in Nat |-> n \div 36]
<1>1. first \in [Nat -> Texts36]
  BY DEF Texts36
<1>2. step \in [Texts36 \X Nat -> Texts36]
  <2>1. ASSUME NEW s \in Texts36, NEW n \in Nat PROVE Append(s, n % 36) \in Texts36
    <3>1. s \in Seq(0..35) /\ Len(s) \in Nat /\ n % 36 \in 0..35
      BY DEF Texts36
    <3>2. Append(s, n % 36) \in Seq(0..35) /\ Len(Append(s, n % 36)) = Len(s) + 1
      BY <3>1, AppendProperties
    <3> QED
      BY <3>1, <3>2 DEF Texts36
  <2> QED
    BY <2>1
<1>3. prev \in [Nat -> Nat] /\ \A n \in Nat : n >= 36 => prev[n] < n
  OBVIOUS
<1>4. PICK f \in [Nat -> Texts36] : \A n \in Nat : f[n] = Value(first, step, prev, 36, f, n)
  <2> HIDE DEF first, step, prev
  <2>1. Recursion(Texts36, first, step, prev, 36)
    BY <1>1, <1>2, <1>3 DEF Recursion
  <2> QED
    BY <2>1, RecursionDefines DEF Defines
<1>5. \A n \in Nat : f[n] = IF n < 36 THEN <<n>> ELSE Append(f[n \div 36], n % 36)
  <2> SUFFICES ASSUME NEW n \in Nat
               PROVE  f[n] = IF n < 36 THEN <<n>> ELSE Append(f[n \div 36], n % 36)
    OBVIOUS
  <2>1. CASE n < 36
    <3>1. first[n] = <<n>>
      BY <2>1
    <3>2. f[n] = first[n]
      <4> HIDE DEF first, step, prev
      <4> QED
        BY <1>4, <2>1 DEF Value
    <3> QED
      BY <2>1, <3>1, <3>2
  <2>2. CASE ~(n < 36)
    <3>1. f[n] = step[<<f[prev[n]], n>>]
      BY <1>4, <2>2 DEF Value
    <3>2. prev[n] = n \div 36 /\ n \div 36 \in Nat
      OBVIOUS
    <3>3. <<f[n \div 36], n>> \in Texts36 \X Nat
      BY <1>4, <3>2
    <3>4. step[<<f[n \div 36], n>>] = Append(f[n \div 36], n % 36)
      BY <3>3
    <3> QED
      BY <2>2, <3>1, <3>2, <3>4
  <2> QED
    BY <2>1, <2>2
<1>6. f = [m \in Nat |-> IF m < 36 THEN <<m>> ELSE Append(f[m \div 36], m % 36)]
  BY <1>4, <1>5
<1>7. Base36Of = [m \in Nat |-> IF m < 36 THEN <<m>> ELSE Append(Base36Of[m \div 36], m % 36)]
  BY <1>6 DEF Base36Of
<1>8. \A n \in Nat : Base36Of[n] = IF n < 36 THEN <<n>> ELSE Append(Base36Of[n \div 36], n % 36)
  BY <1>7
<1>9. \A n \in Nat : Base36Of[n] \in Texts36
  <2> DEFINE Bad == {n \in Nat : Base36Of[n] \notin Texts36}
  <2> SUFFICES ASSUME Bad # {} PROVE FALSE
    OBVIOUS
  <2>1. PICK n \in Bad : \A m \in Bad : n <= m
    BY Least
  <2>2. CASE n < 36
    <3>1. n \in Nat /\ n \in 0..35
      BY <2>2
    <3>2. Base36Of[n] = <<n>>
      BY <1>8, <2>2, <3>1
    <3>3. <<n>> \in Seq(0..35) /\ Len(<<n>>) = 1
      BY <3>1
    <3>4. <<n>> \in Texts36
      BY <3>3 DEF Texts36
    <3> QED
      BY <2>1, <3>2, <3>4
  <2>3. CASE ~(n < 36)
    <3>1. n \div 36 \in Nat /\ ~(n <= n \div 36)
      BY <2>3
    <3>2. Base36Of[n \div 36] \in Texts36
      BY <2>1, <3>1
    <3>3. Base36Of[n] = step[<<Base36Of[n \div 36], n>>]
      BY <1>8, <2>3, <3>2
    <3>4. step[<<Base36Of[n \div 36], n>>] \in Texts36
      <4> HIDE DEF step
      <4>1. <<Base36Of[n \div 36], n>> \in Texts36 \X Nat
        BY <3>2
      <4> QED
        BY <1>2, <4>1
    <3> QED
      BY <3>3, <3>4
  <2> QED
    BY <2>2, <2>3
<1>10. \A n : Base36(n) = Base36Of[n]
  BY DEF Base36, Base36Of
<1>11. \A n \in Nat : n >= 36 => ~(n < 36)
  OBVIOUS
<1> HIDE DEF first, step, prev
<1> QED
  BY <1>8, <1>9, <1>10, <1>11

\* No two jobs have the same text, and so no two jobs of an installation the same
\* temporary name: the least number that shares its text with another would have a
\* quotient that does (_base36, temp_file_name).
THEOREM EveryNameDiffers ==
    ASSUME NEW i \in Nat, NEW j \in Nat, Base36(i) = Base36(j)
    PROVE  i = j
<1> DEFINE Bad == {n \in Nat : \E m \in Nat : m # n /\ Base36(m) = Base36(n)}
<1>1. Bad = {}
  <2> SUFFICES ASSUME Bad # {} PROVE FALSE
    OBVIOUS
  <2>1. PICK n \in Bad : \A k \in Bad : n <= k
    BY Least
  <2>2. PICK m \in Nat : m # n /\ Base36(m) = Base36(n)
    BY <2>1
  \* The other number is no smaller, so it has the last digit to take off, too.
  <2>3. n < m
    BY <2>1, <2>2
  <2>4. \A k \in Nat : k >= 36 => /\ k \div 36 \in Nat /\ k \div 36 < k /\ k % 36 \in 0..35
                                  /\ k = 36 * (k \div 36) + (k % 36)
    OBVIOUS
  <2>5. CASE m < 36
    <3>1. Base36(m) = <<m>> /\ Base36(n) = <<n>>
      BY <2>3, <2>5, Base36Recursion
    <3>2. <<m>>[1] = m /\ <<n>>[1] = n
      OBVIOUS
    <3> QED
      BY <2>2, <3>1, <3>2
  <2>6. CASE m >= 36
    <3>1. /\ Base36(m) = Append(Base36(m \div 36), m % 36)
          /\ Base36(m \div 36) \in Seq(0..35) /\ Len(Base36(m \div 36)) >= 1
          /\ m \div 36 \in Nat /\ m % 36 \in 0..35 /\ m = 36 * (m \div 36) + (m % 36)
      <4>1. m \div 36 \in Nat /\ m % 36 \in 0..35 /\ m = 36 * (m \div 36) + (m % 36)
        BY <2>4, <2>6
      <4>2. Base36(m) = Append(Base36(m \div 36), m % 36)
        BY <2>6, Base36Recursion
      <4>3. Base36(m \div 36) \in Texts36
        BY <4>1, Base36Recursion
      <4> QED
        BY <4>1, <4>2, <4>3 DEF Texts36
    <3>2. CASE n < 36
      <4>1. Base36(n) = <<n>> /\ Len(<<n>>) = 1
        BY <3>2, Base36Recursion
      <4>2. Len(Append(Base36(m \div 36), m % 36)) = Len(Base36(m \div 36)) + 1
        BY <3>1, AppendProperties
      <4> QED
        <5>1. Len(Base36(n)) = 1 /\ Len(Base36(m)) = Len(Base36(m \div 36)) + 1
          BY <3>1, <4>1, <4>2
        <5>2. Len(Base36(m \div 36)) \in Nat
          BY <3>1
        <5> QED
          BY <2>2, <3>1, <5>1, <5>2
    <3>3. CASE n >= 36
      <4>1. /\ Base36(n) = Append(Base36(n \div 36), n % 36)
            /\ Base36(n \div 36) \in Seq(0..35)
            /\ n \div 36 \in Nat /\ n \div 36 < n /\ n % 36 \in 0..35
            /\ n = 36 * (n \div 36) + (n % 36)
        BY <2>4, <3>3, Base36Recursion DEF Texts36
      <4>2. Base36(m \div 36) = Base36(n \div 36) /\ m % 36 = n % 36
        <5>1. Append(Base36(m \div 36), m % 36) = Append(Base36(n \div 36), n % 36)
          BY <2>2, <3>1, <4>1
        <5> QED
          BY <3>1, <4>1, <5>1, AppendInjective
      <4>3. m \div 36 = n \div 36
        BY <2>1, <3>1, <4>1, <4>2
      <4> QED
        BY <2>2, <3>1, <4>1, <4>2, <4>3
    <3> QED
      BY <3>2, <3>3
  <2> QED
    BY <2>5, <2>6
<1> QED
  BY <1>1

LEMMA DecimalsRecursion ==
    \A n \in Nat : /\ Digits(10)[n] \in Nat
                   /\ n < 10 => Digits(10)[n] = 1
                   /\ n >= 10 => Digits(10)[n] = 1 + Digits(10)[n \div 10]
<1> DEFINE first == [m \in Nat |-> 1]
           step == [p \in Nat \X Nat |-> 1 + p[1]]
           prev == [n \in Nat |-> n \div 10]
<1>1. PICK f \in [Nat -> Nat] : \A n \in Nat : f[n] = Value(first, step, prev, 10, f, n)
  <2>1. first \in [Nat -> Nat] /\ step \in [Nat \X Nat -> Nat]
    OBVIOUS
  <2>2. prev \in [Nat -> Nat] /\ \A n \in Nat : n >= 10 => prev[n] < n
    OBVIOUS
  <2>3. Recursion(Nat, first, step, prev, 10)
    <3> HIDE DEF first, step, prev
    <3> QED
      BY <2>1, <2>2 DEF Recursion
  <2> HIDE DEF first, step, prev
  <2> QED
    BY <2>3, RecursionDefines DEF Defines
<1>2. \A n \in Nat : f[n] = IF n < 10 THEN 1 ELSE 1 + f[n \div 10]
  <2> SUFFICES ASSUME NEW n \in Nat PROVE f[n] = IF n < 10 THEN 1 ELSE 1 + f[n \div 10]
    OBVIOUS
  <2>1. f[n] = IF n < 10 THEN first[n] ELSE step[<<f[prev[n]], n>>]
    <3> HIDE DEF first, step, prev
    <3> QED
      BY <1>1 DEF Value
  <2>2. first[n] = 1 /\ prev[n] = n \div 10 /\ n \div 10 \in Nat
    OBVIOUS
  <2>3. <<f[n \div 10], n>> \in Nat \X Nat
    BY <1>1, <2>2
  <2>4. step[<<f[n \div 10], n>>] = 1 + f[n \div 10]
    BY <2>3
  <2> QED
    BY <2>1, <2>2, <2>4
<1>3. f = [n \in Nat |-> IF n < 10 THEN 1 ELSE 1 + f[n \div 10]]
  BY <1>1, <1>2
<1>4. DecimalsOf = [n \in Nat |-> IF n < 10 THEN 1 ELSE 1 + DecimalsOf[n \div 10]]
  BY <1>3 DEF DecimalsOf
<1>5. \A n \in Nat : DecimalsOf[n] = IF n < 10 THEN 1 ELSE 1 + DecimalsOf[n \div 10]
  BY <1>4, SMT
<1>6. \A n \in Nat : DecimalsOf[n] \in Nat
  <2> DEFINE Bad == {n \in Nat : DecimalsOf[n] \notin Nat}
  <2> SUFFICES ASSUME Bad # {} PROVE FALSE
    OBVIOUS
  <2>1. PICK n \in Bad : \A m \in Bad : n <= m
    BY Least
  <2>2. n \in Nat /\ DecimalsOf[n] \notin Nat
    BY <2>1
  <2>3. ~(n < 10)
    BY <1>5, <2>2
  <2>4. n \div 10 \in Nat /\ ~(n <= n \div 10)
    BY <2>2, <2>3
  <2>5. DecimalsOf[n \div 10] \in Nat
    BY <2>1, <2>4
  <2> QED
    BY <1>5, <2>2, <2>3, <2>5
<1>7. Digits(10) = DecimalsOf
  BY DEF Digits, DecimalsOf
<1>8. \A n \in Nat : n >= 10 => ~(n < 10)
  OBVIOUS
<1> HIDE DEF first, step, prev
<1> QED
  BY <1>5, <1>6, <1>7, <1>8

\* The lengths: a digit more for each factor of the base.
Short36(limit, k) == \A n \in Nat : n < limit => Len(Base36(n)) <= k
Short10(limit, k) == \A n \in Nat : n < limit => Digits(10)[n] <= k

LEMMA OneDigitMore ==
    ASSUME NEW limit \in Nat, NEW k \in Nat
    PROVE  /\ Short36(limit, k) => Short36(36 * limit, k + 1)
           /\ Short10(limit, k) => Short10(10 * limit, k + 1)
<1>1. ASSUME Short36(limit, k), NEW n \in Nat, n < 36 * limit
      PROVE  Len(Base36(n)) <= k + 1
  <2>1. CASE n < 36
    <3>1. Base36(n) = <<n>> /\ Len(<<n>>) = 1
      BY <2>1, Base36Recursion
    <3> QED
      BY <3>1
  <2>2. CASE n >= 36
    <3>1. n \div 36 \in Nat /\ n \div 36 < limit /\ n % 36 \in 0..35
      BY <1>1, <2>2
    <3>2. Base36(n \div 36) \in Seq(0..35) /\ Base36(n) = Append(Base36(n \div 36), n % 36)
      BY <2>2, <3>1, Base36Recursion DEF Texts36
    <3>3. Len(Base36(n)) = Len(Base36(n \div 36)) + 1 /\ Len(Base36(n \div 36)) \in Nat
      BY <3>1, <3>2, AppendProperties
    <3>4. Len(Base36(n \div 36)) <= k
      BY <1>1, <3>1 DEF Short36
    <3> QED
      BY <3>3, <3>4
  <2> QED
    BY <2>1, <2>2
<1>2. ASSUME Short10(limit, k), NEW n \in Nat, n < 10 * limit
      PROVE  Digits(10)[n] <= k + 1
  <2>1. CASE n < 10
    BY <2>1, DecimalsRecursion
  <2>2. CASE n >= 10
    <3>1. n \div 10 \in Nat /\ n \div 10 < limit
      BY <1>2, <2>2
    <3>2. Digits(10)[n] = 1 + Digits(10)[n \div 10] /\ Digits(10)[n \div 10] \in Nat
      BY <2>2, <3>1, DecimalsRecursion
    <3>3. Digits(10)[n \div 10] <= k
      BY <1>2, <3>1 DEF Short10
    <3> QED
      BY <3>2, <3>3
  <2> QED
    BY <2>1, <2>2
<1> QED
  BY <1>1, <1>2 DEF Short36, Short10

LEMMA SixDigitsMore ==
    ASSUME NEW limit \in Nat, NEW k \in Nat, Short36(limit, k)
    PROVE  Short36(2176782336 * limit, k + 6)
<1> DEFINE a == 36 * limit
           b == 36 * a
           c == 36 * b
           d == 36 * c
           e == 36 * d
<1>1. a \in Nat /\ b \in Nat /\ c \in Nat /\ d \in Nat /\ e \in Nat
  OBVIOUS
<1>2. 36 * e = 2176782336 * limit
  OBVIOUS
<1>3. b = 36 * a /\ c = 36 * b /\ d = 36 * c /\ e = 36 * d /\ a = 36 * limit
  OBVIOUS
<1> HIDE DEF a, b, c, d, e
<1>4. Short36(a, k + 1)
  BY <1>3, OneDigitMore
<1>5. Short36(b, (k + 1) + 1)
  BY <1>1, <1>3, <1>4, OneDigitMore
<1>6. Short36(c, ((k + 1) + 1) + 1)
  BY <1>1, <1>3, <1>5, OneDigitMore
<1>7. Short36(d, (((k + 1) + 1) + 1) + 1)
  BY <1>1, <1>3, <1>6, OneDigitMore
<1>8. Short36(e, ((((k + 1) + 1) + 1) + 1) + 1)
  BY <1>1, <1>3, <1>7, OneDigitMore
<1>9. Short36(36 * e, (((((k + 1) + 1) + 1) + 1) + 1) + 1)
  BY <1>1, <1>8, OneDigitMore
<1> QED
  BY <1>2, <1>9

\* 13 digits in base 36 are enough for a number below 2^63.
LEMMA JobsAreShort ==
    ASSUME NEW n \in Nat, n \div 2147483648 < 4294967296
    PROVE  Len(Base36(n)) <= 13
<1>1. Short36(36, 1)
  <2>1. ASSUME NEW m \in Nat, m < 36 PROVE Len(Base36(m)) <= 1
    <3>1. Base36(m) = <<m>>
      BY <2>1, Base36Recursion
    <3>2. Len(<<m>>) = 1
      OBVIOUS
    <3> QED
      BY <3>1, <3>2
  <2> QED
    BY <2>1 DEF Short36
<1> DEFINE limit == 2176782336 * 36
<1>2. limit \in Nat /\ limit >= 5000000000
  BY SMT
<1>3. Short36(limit, 1 + 6)
  BY <1>1, SixDigitsMore
<1> HIDE DEF limit
<1>4. Short36(2176782336 * limit, (1 + 6) + 6)
  BY <1>2, <1>3, SixDigitsMore
<1>5. n < 2176782336 * limit
  <2> DEFINE q == n \div 2147483648
             r == n % 2147483648
  <2>1. n = 2147483648 * q + r /\ q \in Nat /\ r \in Nat /\ r < 2147483648 /\ q < 4294967296
    BY SMT
  <2> HIDE DEF q, r
  <2> QED
    BY <1>2, <2>1, SMT
<1> QED
  BY <1>4, <1>5, SMT DEF Short36

\* 10 decimals.
LEMMA NumbersAreShort == Short10(10000000000, 10)
<1>1. Short10(10, 1)
  BY DecimalsRecursion DEF Short10
<1>2. Short10(10 * 10, 1 + 1)
  BY <1>1, OneDigitMore, SMT
<1>3. Short10(10 * 100, 2 + 1)
  BY <1>2, OneDigitMore, SMT
<1>4. Short10(10 * 1000, 3 + 1)
  BY <1>3, OneDigitMore, SMT
<1>5. Short10(10 * 10000, 4 + 1)
  BY <1>4, OneDigitMore, SMT
<1>6. Short10(10 * 100000, 5 + 1)
  BY <1>5, OneDigitMore, SMT
<1>7. Short10(10 * 1000000, 6 + 1)
  BY <1>6, OneDigitMore, SMT
<1>8. Short10(10 * 10000000, 7 + 1)
  BY <1>7, OneDigitMore, SMT
<1>9. Short10(10 * 100000000, 8 + 1)
  BY <1>8, OneDigitMore, SMT
<1>10. Short10(10 * 1000000000, 9 + 1)
  BY <1>9, OneDigitMore, SMT
<1> QED
  BY <1>10, SMT

\* The numbers _numbered_path may come to, and the row ids of SQLite,
\* below 2^63.
Numbers == {n \in Nat : n < 10000000000}
RowIds  == {job \in Nat : job \div 2147483648 < 4294967296}

LEMMA HowLong ==
    /\ \A n \in Numbers : n \in Nat /\ Suffix(n) \in 0..12
    /\ \A job \in RowIds : TempLength(job) \in Nat /\ TempLength(job) <= TempReserve
<1>1. ASSUME NEW n \in Numbers PROVE n \in Nat /\ Suffix(n) \in 0..12
  <2>1. n \in Nat /\ n < 10000000000
    BY SMT DEF Numbers
  <2>2. Digits(10)[n] <= 10
    BY <2>1, NumbersAreShort, SMT DEF Short10
  <2>3. Digits(10)[n] \in Nat
    BY <2>1, DecimalsRecursion, SMT
  <2>4. Suffix(n) \in 0..12
    BY <2>2, <2>3, SMT DEF Suffix
  <2> QED
    BY <2>1, <2>4, SMT
<1>2. ASSUME NEW job \in RowIds PROVE TempLength(job) \in Nat /\ TempLength(job) <= TempReserve
  <2>1. job \in Nat /\ job \div 2147483648 < 4294967296
    BY SMT DEF RowIds
  <2>2. Len(Base36(job)) <= 13
    BY <2>1, JobsAreShort, SMT
  <2>3. Base36(job) \in Seq(0..35)
    BY <2>1, Base36Recursion, SMT DEF Texts36
  <2>4. Len(Base36(job)) \in Nat
    BY <2>3, SMT
  <2> QED
    BY <2>2, <2>4, SMT DEF TempLength, Prefix, IdLength, TempReserve
<1> QED
  BY <1>1, <1>2

\* Room is left for what is added to a name after it was cut to its budget: the
\* underscore of a device name, a number of up to ten decimals, and a second unit
\* for each of up to Spare wide characters; and the name of a temporary file keeps
\* to what is reserved for it, for every row id SQLite has (filename_budget,
\* render_filename, _numbered_path, temp_file_name).
THEOREM EveryPathFits ==
    ASSUME NEW dir \in Nat, DirFits(dir)
    PROVE  /\ \A stem, original, ext, wide \in Nat, device \in BOOLEAN, n \in Numbers :
                ExtFits(ext, dir) /\ wide <= Spare(Suffix(n)) =>
                    NameFits(dir, Stem(stem, original), ext, device, Suffix(n), wide)
           /\ \A job \in RowIds, wide \in Nat :
                /\ TempLength(job) <= TempReserve
                /\ wide <= TempSpare => TempFits(dir, job, wide)
<1>1. Budget(dir) \in 16..255 /\ dir + 1 + Budget(dir) <= MaxWindowsPath - TempReserve
  BY DEF DirFits, Budget, Clamp, Larger, Smaller, MaxWindowsPath, TempReserve
<1>2. ASSUME NEW stem \in Nat, NEW original \in Nat, NEW ext \in Nat, NEW device \in BOOLEAN,
             NEW wide \in Nat, NEW n \in Numbers, ExtFits(ext, dir), wide <= Spare(Suffix(n))
      PROVE  NameFits(dir, Stem(stem, original), ext, device, Suffix(n), wide)
  <2>1. Stem(stem, original) \in Nat
    BY DEF Stem
  <2>2. Suffix(n) \in 0..12
    BY HowLong
  <2>3. \A s \in Nat : NameLength(s, ext, device, Budget(dir)) \in 0..(Budget(dir) + 1)
    BY <1>1, <1>2 DEF ExtFits, NameLength, Clamp, Larger, Smaller
  <2>4. NameLength(Stem(stem, original), ext, device, Budget(dir)) \in 0..(Budget(dir) + 1)
    BY <2>1, <2>3
  <2> QED
    BY <1>1, <1>2, <2>2, <2>4 DEF NameFits, Units, Spare, PathLength, MaxWindowsPath, TempReserve
<1>3. ASSUME NEW job \in RowIds, NEW wide \in Nat
      PROVE  /\ TempLength(job) <= TempReserve
             /\ wide <= TempSpare => TempFits(dir, job, wide)
  <2>1. TempLength(job) \in Nat /\ TempLength(job) <= TempReserve
    BY HowLong
  <2> QED
    BY <1>1, <2>1 DEF TempReserve, TempSpare, TempFits, Units, PathLength, MaxWindowsPath
<1> QED
  BY <1>2, <1>3

LEMMA OneTooMany ==
    ASSUME NEW dir \in Nat, NEW s \in Int, NEW name \in Int, name = 235 - dir
    PROVE  ~(Units(PathLength(dir, name + s), Spare(s) + 1) <= MaxWindowsPath)
  BY DEF Units, Spare, PathLength, MaxWindowsPath, TempReserve

\* No more than that: in every such folder, and for every number, some name with
\* one wide character more comes to a path that Windows refuses.
THEOREM RoomIsTight ==
    ASSUME NEW dir \in Nat, DirFits(dir), NEW n \in Numbers
    PROVE  \E stem, ext \in Nat, device \in BOOLEAN :
              /\ ExtFits(ext, dir)
              /\ ~NameFits(dir, Stem(stem, 0), ext, device, Suffix(n), Spare(Suffix(n)) + 1)
<1>1. Budget(dir) = 234 - dir /\ Budget(dir) \in Nat /\ Budget(dir) >= 16 /\ Budget(dir) <= 255
  BY SMT DEF DirFits, Budget, Clamp, Larger, Smaller, MaxWindowsPath, TempReserve
<1>2. Suffix(n) \in Int
  <2>1. Suffix(n) \in 0..12
    BY HowLong
  <2> QED
    BY <2>1
<1>3. PICK ext \in Nat : ext = Budget(dir) - 3
  BY <1>1, SMT
<1>4. ExtFits(ext, dir)
  BY <1>1, <1>3, SMT DEF ExtFits
<1>5. \A b \in Nat : b >= 16 /\ b <= 255 => NameLength(3, b - 3, TRUE, b) = b + 1
  BY SMT DEF NameLength, Clamp, Larger, Smaller
<1>6. PICK name \in Int : name = 235 - dir /\ name = NameLength(3, ext, TRUE, Budget(dir))
  <2>1. NameLength(3, ext, TRUE, Budget(dir)) = Budget(dir) + 1
    BY <1>1, <1>3, <1>5
  <2>2. Budget(dir) + 1 = 235 - dir /\ Budget(dir) + 1 \in Int
    BY <1>1, SMT
  <2> QED
    BY <2>1, <2>2
<1>7. Stem(3, 0) = 3 /\ 3 \in Nat
  BY SMT DEF Stem
<1>8. ~NameFits(dir, Stem(3, 0), ext, TRUE, Suffix(n), Spare(Suffix(n)) + 1)
  <2>1. ~(Units(PathLength(dir, name + Suffix(n)), Spare(Suffix(n)) + 1) <= MaxWindowsPath)
    BY <1>2, <1>6, OneTooMany
  <2> QED
    BY <1>6, <1>7, <2>1, Zenon DEF NameFits
<1> QED
  BY <1>3, <1>4, <1>7, <1>8, Zenon

LEMMA BoundedInputsFit == AllPathsFit
<1>1. ASSUME NEW n \in {0, 1, 46655, 2147483647} PROVE n \in Numbers \cap RowIds
  <2>1. n \in Nat /\ n <= 2147483647
    BY SMT
  <2> QED
    <3>1. n \div 2147483648 = 0 /\ n < 10000000000
      BY <2>1, SMT
    <3> QED
      BY <2>1, <3>1, SMT DEF Numbers, RowIds
<1>2. {1, 3, 100, 217, 218} \subseteq Nat /\ \A dir \in {1, 3, 100, 217, 218} : DirFits(dir)
  BY DEF DirFits, MaxWindowsPath, TempReserve
<1>3. 0 \in Nat /\ Sizes \cup {0} \subseteq Nat
  BY DEF Sizes
<1>4. ASSUME NEW dir \in {1, 3, 100, 217, 218}, NEW n \in Numbers \cap RowIds
      PROVE  /\ TempFits(dir, n, TempSpare)
             /\ \A stem, ext \in Sizes \cup {0}, device \in BOOLEAN :
                  ExtFits(ext, dir) =>
                      NameFits(dir, Stem(stem, 0), ext, device, Suffix(n), Spare(Suffix(n)))
  <2>1. Suffix(n) \in 0..12 /\ TempSpare \in Nat
    BY <1>4, HowLong, SMT DEF TempSpare
  <2>2. Spare(Suffix(n)) \in Nat
    BY <2>1 DEF Spare, TempReserve
  <2>3. dir \in Nat /\ DirFits(dir) /\ n \in Numbers /\ n \in RowIds
    BY <1>2, <1>4
  <2>4. TempFits(dir, n, TempSpare)
    BY <2>1, <2>3, EveryPathFits DEF TempSpare
  <2>5. ASSUME NEW stem \in Sizes \cup {0}, NEW ext \in Sizes \cup {0}, NEW device \in BOOLEAN,
               ExtFits(ext, dir)
        PROVE  NameFits(dir, Stem(stem, 0), ext, device, Suffix(n), Spare(Suffix(n)))
    <3>1. stem \in Nat /\ ext \in Nat /\ Spare(Suffix(n)) <= Spare(Suffix(n))
      BY <1>3, <2>2
    <3> QED
      BY <1>3, <2>2, <2>3, <2>5, <3>1, EveryPathFits
  <2> QED
    BY <2>4, <2>5
<1> QED
  BY <1>1, <1>4, SMT DEF AllPathsFit

LEMMA BoundedNamesDiffer == NamesDiffer
<1>1. Jobs1400 \subseteq Nat
  BY DEF Jobs1400
<1> QED
  BY <1>1, EveryNameDiffers DEF NamesDiffer
-----------------------------------------------------------------------------
(* The folder.                                                             *)

Steps == {"down", "id", "create", "reread", "replace", "fill",
          "list", "sweep", "idle", "write", "move"}
Types ==
    /\ home \in [Procs -> Installs] /\ pc \in [Procs -> Steps]
    /\ own \in [Procs -> Ids \cup {NoId}] /\ drawn \in [Procs -> Ids \cup {NoId}]
    /\ idFile \in [Installs -> Ids \cup {NoId, Blank}]
    /\ temps \in [TempNames -> {"none", "part", "whole"}]
    /\ age \in [TempNames -> 0..Oldest]
    /\ todo \in [Procs -> SUBSET TempNames] /\ swept \subseteq Procs
    /\ saves \in 0..MaxSaves /\ faults \in 0..MaxFaults

\* A save has an id, and its temporary file is what its step says.
Saving ==
    \A p \in Procs :
       /\ pc[p] \in {"write", "move"} => own[p] \in Ids
       /\ pc[p] = "write" => temps[Temp(p)] = "part"
       /\ pc[p] = "move" => temps[Temp(p)] \in {"none", "whole"}

\* An installation has an id when its file or one of its processes has it; no two
\* have the same.
Has(i, id) == idFile[i] = id \/ \E p \in Procs : home[p] = i /\ id \in {own[p], drawn[p]}
OneHome    == \A id \in Ids, i, j \in Installs : Has(i, id) /\ Has(j, id) => i = j

FolderInv == Types /\ Saving /\ OneHome /\ OnlyWholeFiles

LEMMA Constants ==
    /\ NoId \notin Ids /\ Blank \notin Ids
    /\ MaxSaves \in Nat /\ MaxFaults \in Nat /\ Oldest \in Nat
  BY FolderAssumption DEF FolderAssumption

LEMMA FolderInit == Init => FolderInv
<1> SUFFICES ASSUME Init PROVE FolderInv
  OBVIOUS
<1>1. Types
  BY Constants DEF Init, Types, Steps
<1>2. Saving
  BY DEF Init, Saving
<1>3. OneHome
  BY Constants DEF Init, OneHome, Has
<1>4. OnlyWholeFiles
  BY DEF Init, OnlyWholeFiles
<1> QED
  BY <1>1, <1>2, <1>3, <1>4 DEF FolderInv

Step(p) == StartUp(p) \/ IdUnreadable(p) \/ BeginSave(p) \/ Save(p) \/ Kill(p) \/ LogOff(p)

LEMMA Counters ==
    ASSUME Types
    PROVE  /\ Fault => faults' \in 0..MaxFaults
           /\ saves < MaxSaves /\ saves' = saves + 1 => saves' \in 0..MaxSaves
  BY Constants DEF Types, Fault

\* A process that goes to another step.
LEMMA Goes ==
    ASSUME Types, NEW p \in Procs, NEW s \in Steps, Goto(p, s)
    PROVE  /\ pc' \in [Procs -> Steps] /\ pc'[p] = s /\ UNCHANGED home
           /\ \A q \in Procs \ {p} : pc'[q] = pc[q]
  BY DEF Types, Goto

LEMMA Knowing ==
    ASSUME Types, NEW p \in Procs, NEW id \in Ids \cup {NoId}, Knows(p, id)
    PROVE  /\ own' \in [Procs -> Ids \cup {NoId}] /\ drawn' \in [Procs -> Ids \cup {NoId}]
           /\ own'[p] = id /\ drawn'[p] = NoId
           /\ pc' \in [Procs -> Steps] /\ pc'[p] \in {"idle", "list"} /\ UNCHANGED home
           /\ \A q \in Procs \ {p} : /\ pc'[q] = pc[q]
                                     /\ own'[q] = own[q] /\ drawn'[q] = drawn[q]
<1>1. Goto(p, "idle") \/ Goto(p, "list")
  BY DEF Knows
<1>2. /\ pc' \in [Procs -> Steps] /\ pc'[p] \in {"idle", "list"} /\ UNCHANGED home
      /\ \A q \in Procs \ {p} : pc'[q] = pc[q]
  BY <1>1, Goes DEF Steps
<1> QED
  BY <1>2 DEF Types, Knows

LEMMA Stopping ==
    ASSUME Types, NEW p \in Procs, Stops(p)
    PROVE  /\ own' \in [Procs -> Ids \cup {NoId}] /\ drawn' \in [Procs -> Ids \cup {NoId}]
           /\ own'[p] = NoId /\ drawn'[p] = NoId
           /\ pc' \in [Procs -> Steps] /\ pc'[p] = "down" /\ UNCHANGED home
           /\ \A q \in Procs \ {p} : /\ pc'[q] = pc[q]
                                     /\ own'[q] = own[q] /\ drawn'[q] = drawn[q]
           /\ todo' \in [Procs -> SUBSET TempNames] /\ swept' \subseteq Procs
           /\ UNCHANGED <<idFile, temps, age, finals, saves>>
<1>1. /\ pc' \in [Procs -> Steps] /\ pc'[p] = "down" /\ UNCHANGED home
      /\ \A q \in Procs \ {p} : pc'[q] = pc[q]
  BY Goes DEF Stops, Steps
<1> QED
  BY <1>1 DEF Types, Stops, folder

LEMMA TypesStep ==
    ASSUME Types, Saving, [Next]_vars
    PROVE  Types'
<1>0. /\ home \in [Procs -> Installs] /\ pc \in [Procs -> Steps]
      /\ own \in [Procs -> Ids \cup {NoId}] /\ drawn \in [Procs -> Ids \cup {NoId}]
      /\ idFile \in [Installs -> Ids \cup {NoId, Blank}]
      /\ temps \in [TempNames -> {"none", "part", "whole"}]
      /\ age \in [TempNames -> 0..Oldest]
      /\ todo \in [Procs -> SUBSET TempNames] /\ swept \subseteq Procs
      /\ saves \in 0..MaxSaves /\ faults \in 0..MaxFaults
      /\ TempNames' = TempNames
  BY DEF Types, TempNames
<1>1. ASSUME NEW p \in Procs, Step(p) PROVE Types'
  <2>1. CASE Start(p)
    BY <1>0, <2>1, Goes DEF Start, Steps, Types, start, folder
  <2>2. CASE ReadId(p)
    <3>1. CASE idFile[home[p]] \in Ids
      BY <1>0, <2>2, <3>1, Knowing DEF ReadId, Types, folder
    <3>2. CASE idFile[home[p]] \notin Ids
      <4>1. NewId \in Ids
        BY <2>2, <3>2 DEF ReadId, NewId
      <4>2. Goto(p, "create") /\ drawn' \in [Procs -> Ids \cup {NoId}]
        BY <1>0, <2>2, <3>2, <4>1 DEF ReadId
      <4> QED
        BY <1>0, <2>2, <3>2, <4>2, Goes DEF ReadId, Types, folder, Steps
    <3> QED
      BY <3>1, <3>2
  <2>3. CASE IdUnreadable(p)
    BY <1>0, <2>3, Knowing, Counters DEF IdUnreadable, Types, folder
  <2>4. CASE CreateId(p)
    <3>1. idFile' \in [Installs -> Ids \cup {NoId, Blank}] /\ (Goto(p, "fill") \/ Goto(p, "reread"))
      BY <1>0, <2>4 DEF CreateId
    <3> QED
      BY <1>0, <2>4, <3>1, Goes DEF CreateId, Types, folder, Steps
  <2>5. CASE RereadId(p)
    <3>1. CASE idFile[home[p]] \in Ids
      BY <1>0, <2>5, <3>1, Knowing DEF RereadId, Types, folder
    <3>2. CASE idFile[home[p]] \notin Ids
      BY <1>0, <2>5, <3>2, Goes DEF RereadId, Types, folder, Steps
    <3> QED
      BY <3>1, <3>2
  <2>6. CASE ReplaceId(p)
    BY <1>0, <2>6, Goes DEF ReplaceId, Types, folder, Steps
  <2>7. CASE FillId(p)
    <3>1. drawn[p] \in Ids \cup {NoId} /\ idFile' \in [Installs -> Ids \cup {NoId, Blank}]
      BY <1>0, <2>7 DEF FillId
    <3> QED
      BY <1>0, <2>7, <3>1, Knowing DEF FillId, Types, folder
  <2>8. CASE List(p)
    BY <1>0, <2>8, Goes DEF List, Types, start, folder, Steps
  <2>9. CASE Sweep(p)
    <3>1. PICK n \in todo[p] :
            /\ todo' = [todo EXCEPT ![p] = @ \ {n}]
            /\ \/ temps' = [temps EXCEPT ![n] = "none"] /\ UNCHANGED faults
               \/ Fault /\ UNCHANGED temps
               \/ UNCHANGED <<temps, faults>>
      BY <2>9 DEF Sweep
    <3>2. todo' \in [Procs -> SUBSET TempNames] /\ temps' \in [TempNames -> {"none", "part", "whole"}]
      BY <1>0, <3>1
    <3>3. faults' \in 0..MaxFaults
      BY <1>0, <3>1, Counters
    <3> QED
      BY <1>0, <2>9, <3>2, <3>3 DEF Sweep, Types, start
  <2>10. CASE Swept(p)
    BY <1>0, <2>10, Goes DEF Swept, Types, start, folder, Steps
  <2>11. CASE BeginSave(p)
    <3>1. CASE own[p] = NoId
      BY <1>0, <2>11, <3>1, Goes, Counters DEF BeginSave, Types, start, Steps
    <3>2. CASE own[p] # NoId
      <4>1. /\ temps' \in [TempNames -> {"none", "part", "whole"}]
            /\ age' \in [TempNames -> 0..Oldest] /\ Goto(p, "write")
        BY <1>0, <2>11, <3>2, Constants DEF BeginSave
      <4> QED
        BY <1>0, <2>11, <4>1, Goes, Counters DEF BeginSave, Types, start, Steps
    <3> QED
      BY <3>1, <3>2
  <2>12. CASE Written(p)
    <3>1. temps' \in [TempNames -> {"none", "part", "whole"}]
      BY <1>0, <2>12 DEF Written
    <3>2. age' \in [TempNames -> 0..Oldest]
      <4>1. age' = [age EXCEPT ![Temp(p)] = 0]
        BY <2>12 DEF Written
      <4>2. 0 \in 0..Oldest
        BY Constants
      <4> QED
        BY <1>0, <4>1, <4>2
    <3> QED
      BY <1>0, <2>12, <3>1, <3>2, Goes DEF Written, Types, start, Steps
  <2>13. CASE Move(p)
    <3>1. temps' \in [TempNames -> {"none", "part", "whole"}]
      BY <1>0, <2>13 DEF Move
    <3> QED
      BY <1>0, <2>13, <3>1, Goes DEF Move, Types, start, Steps
  <2>14. CASE SaveFails(p)
    <3>1. temps' \in [TempNames -> {"none", "part", "whole"}] /\ faults' \in 0..MaxFaults
      BY <1>0, <2>14, Counters DEF SaveFails
    <3> QED
      BY <1>0, <2>14, <3>1, Goes DEF SaveFails, Types, start, Steps
  <2>15. CASE Kill(p) \/ LogOff(p)
    <3>1. faults' \in 0..MaxFaults
      BY <1>0, <2>15, Counters DEF Kill, LogOff
    <3> QED
      BY <1>0, <2>15, <3>1, Stopping DEF Kill, LogOff, Types
  <2> QED
    BY <1>1, <2>1, <2>2, <2>3, <2>4, <2>5, <2>6, <2>7, <2>8, <2>9, <2>10, <2>11, <2>12, <2>13,
       <2>14, <2>15 DEF Step, StartUp, Save
<1>2. CASE Tick
  <2>1. age' \in [TempNames -> 0..Oldest]
    BY <1>0, <1>2, Constants DEF Tick
  <2> QED
    BY <1>0, <1>2, <2>1 DEF Tick, Types, start
<1>3. CASE UNCHANGED vars
  BY <1>0, <1>3 DEF vars, start, folder, Types
<1> QED
  BY <1>1, <1>2, <1>3 DEF Next, Step

\* A step of one process leaves the others where they are, and of their temporary
\* files it can but remove one whose writer does not have it open.
LEMMA Others ==
    ASSUME Types, NEW p \in Procs, Step(p)
    PROVE  /\ UNCHANGED home
           /\ \A q \in Procs \ {p} :
                /\ pc'[q] = pc[q] /\ own'[q] = own[q] /\ drawn'[q] = drawn[q]
                /\ own[q] \in Ids =>
                     \/ temps'[Temp(q)] = temps[Temp(q)]
                     \/ /\ temps'[Temp(q)] = "none" /\ pc[q] # "write"
                        /\ pc[p] = "sweep" /\ MayRemove(p, Temp(q))
<1>0. /\ home \in [Procs -> Installs] /\ pc \in [Procs -> Steps]
      /\ own \in [Procs -> Ids \cup {NoId}] /\ drawn \in [Procs -> Ids \cup {NoId}]
      /\ temps \in [TempNames -> {"none", "part", "whole"}]
  BY DEF Types
<1>1. \A q \in Procs \ {p} : own[q] \in Ids => Temp(q) \in TempNames /\ Temp(q) # Temp(p)
  BY DEF Temp, TempNames
<1> DEFINE Calm == /\ UNCHANGED <<home, temps>>
                   /\ \A q \in Procs \ {p} : /\ pc'[q] = pc[q]
                                             /\ own'[q] = own[q] /\ drawn'[q] = drawn[q]
<1>2. CASE Start(p) \/ List(p) \/ Swept(p) \/ ReplaceId(p)
  <2>1. Calm
    BY <1>2, Goes DEF Start, List, Swept, ReplaceId, start, folder, Steps
  <2> QED
    BY <2>1
<1>3. CASE ReadId(p)
  <2>1. CASE idFile[home[p]] \in Ids
    <3>1. Calm
      BY <1>3, <2>1, Knowing DEF ReadId, folder
    <3> QED
      BY <3>1
  <2>2. CASE idFile[home[p]] \notin Ids
    <3>1. Calm
      BY <1>0, <1>3, <2>2, Goes DEF ReadId, folder, Steps
    <3> QED
      BY <3>1
  <2> QED
    BY <2>1, <2>2
<1>4. CASE IdUnreadable(p)
  <2>1. Calm
    BY <1>4, Knowing DEF IdUnreadable, folder
  <2> QED
    BY <2>1
<1>5. CASE CreateId(p)
  <2>1. Calm
    BY <1>5, Goes DEF CreateId, folder, Steps
  <2> QED
    BY <2>1
<1>6. CASE RereadId(p)
  <2>1. CASE idFile[home[p]] \in Ids
    <3>1. Calm
      BY <1>6, <2>1, Knowing DEF RereadId, folder
    <3> QED
      BY <3>1
  <2>2. CASE idFile[home[p]] \notin Ids
    <3>1. Calm
      BY <1>6, <2>2, Goes DEF RereadId, folder, Steps
    <3> QED
      BY <3>1
  <2> QED
    BY <2>1, <2>2
<1>7. CASE FillId(p)
  <2>1. Calm
    BY <1>0, <1>7, Knowing DEF FillId, folder
  <2> QED
    BY <2>1
<1>8. CASE Sweep(p)
  <2>1. PICK n \in todo[p] :
           IF MayRemove(p, n) /\ ~IsOpen(n)
           THEN \/ temps' = [temps EXCEPT ![n] = "none"] /\ UNCHANGED faults
                \/ Fault /\ UNCHANGED temps
           ELSE UNCHANGED <<temps, faults>>
    BY <1>8 DEF Sweep
  <2>2. UNCHANGED <<home, pc, own, drawn>> /\ pc[p] = "sweep"
    BY <1>8 DEF Sweep, start
  <2>3. CASE UNCHANGED temps
    BY <2>2, <2>3
  <2>4. CASE MayRemove(p, n) /\ ~IsOpen(n) /\ temps' = [temps EXCEPT ![n] = "none"]
    <3>1. ASSUME NEW q \in Procs \ {p}, own[q] \in Ids, temps'[Temp(q)] # temps[Temp(q)]
          PROVE  n = Temp(q) /\ temps'[Temp(q)] = "none"
      BY <1>0, <1>1, <2>4, <3>1
    <3>2. \A q \in Procs : n = Temp(q) => pc[q] # "write"
      BY <2>4 DEF IsOpen, Temp
    <3> QED
      BY <2>2, <2>4, <3>1, <3>2
  <2> QED
    BY <2>1, <2>3, <2>4
<1>9. CASE BeginSave(p) \/ Written(p) \/ Move(p) \/ SaveFails(p)
  <2>1. /\ \E s \in Steps : Goto(p, s)
        /\ UNCHANGED <<own, drawn>>
        /\ temps' = temps \/ \E x : temps' = [temps EXCEPT ![Temp(p)] = x]
    BY <1>9 DEF BeginSave, Written, Move, SaveFails, start, Steps
  <2>2. \A q \in Procs \ {p} : own[q] \in Ids => temps'[Temp(q)] = temps[Temp(q)]
    BY <1>0, <1>1, <2>1
  <2>3. UNCHANGED home /\ \A q \in Procs \ {p} : pc'[q] = pc[q]
    BY <2>1, Goes
  <2> QED
    BY <2>1, <2>2, <2>3
<1>10. CASE Kill(p) \/ LogOff(p)
  <2>1. Calm
    BY <1>10, Stopping DEF Kill, LogOff
  <2> QED
    BY <2>1
<1> QED
  BY <1>2, <1>3, <1>4, <1>5, <1>6, <1>7, <1>8, <1>9, <1>10 DEF Step, StartUp, Save

\* The process itself: where a save comes to, and what gets a final name.
LEMMA Itself ==
    ASSUME Types, Saving, NEW p \in Procs, Step(p)
    PROVE  /\ pc'[p] \in {"write", "move"} =>
                own'[p] \in Ids /\ own'[p] = own[p] /\ pc[p] # pc'[p]
           /\ pc'[p] = "write" => temps'[Temp(p)] = "part"
           /\ pc'[p] = "move" => temps'[Temp(p)] = "whole"
           /\ finals' \subseteq finals \cup {"whole"}
<1>0. /\ pc \in [Procs -> Steps] /\ own \in [Procs -> Ids \cup {NoId}]
      /\ temps \in [TempNames -> {"none", "part", "whole"}]
  BY DEF Types
<1>1. own[p] \in Ids => Temp(p) \in TempNames
  BY DEF Temp, TempNames
<1>2. CASE Start(p) \/ List(p) \/ Swept(p) \/ ReplaceId(p) \/ CreateId(p)
  BY <1>2, Goes DEF Start, List, Swept, ReplaceId, CreateId, folder, Steps
<1>3. CASE ReadId(p) \/ RereadId(p)
  <2>1. CASE idFile[home[p]] \in Ids
    BY <1>3, <2>1, Knowing DEF ReadId, RereadId, folder
  <2>2. CASE idFile[home[p]] \notin Ids
    BY <1>3, <2>2, Goes DEF ReadId, RereadId, folder, Steps
  <2> QED
    BY <2>1, <2>2
<1>4. CASE IdUnreadable(p)
  BY <1>4, Knowing DEF IdUnreadable, folder
<1>5. CASE FillId(p)
  <2>1. drawn[p] \in Ids \cup {NoId}
    BY DEF Types
  <2> QED
    BY <1>5, <2>1, Knowing DEF FillId, folder
<1>6. CASE Sweep(p)
  BY <1>6 DEF Sweep
<1>7. CASE BeginSave(p)
  <2>1. CASE own[p] = NoId
    BY <1>7, <2>1, Goes DEF BeginSave, Steps
  <2>2. CASE own[p] # NoId
    <3>1. own[p] \in Ids /\ UNCHANGED <<own, finals>> /\ Goto(p, "write") /\ pc[p] = "idle"
      BY <1>0, <1>7, <2>2 DEF BeginSave, start
    <3>2. temps'[Temp(p)] = "part"
      BY <1>0, <1>1, <1>7, <2>2, <3>1 DEF BeginSave
    <3> QED
      BY <3>1, <3>2, Goes DEF Steps
  <2> QED
    BY <2>1, <2>2
<1>8. CASE Written(p)
  <2>1. own[p] \in Ids /\ UNCHANGED <<own, finals>> /\ Goto(p, "move") /\ pc[p] = "write"
    BY <1>8 DEF Written, start, Saving
  <2>2. temps'[Temp(p)] = "whole"
    BY <1>0, <1>1, <1>8, <2>1 DEF Written
  <2> QED
    BY <2>1, <2>2, Goes DEF Steps
<1>9. CASE Move(p)
  <2>1. temps[Temp(p)] = "whole"
    BY <1>9 DEF Move, Saving
  <2> QED
    BY <1>9, <2>1, Goes DEF Move, Steps
<1>10. CASE SaveFails(p)
  BY <1>10, Goes DEF SaveFails, Steps
<1>11. CASE Kill(p) \/ LogOff(p)
  BY <1>11, Stopping DEF Kill, LogOff
<1> QED
  BY <1>2, <1>3, <1>4, <1>5, <1>6, <1>7, <1>8, <1>9, <1>10, <1>11 DEF Step, StartUp, Save

LEMMA SavingStep ==
    ASSUME Types, Saving, OnlyWholeFiles, [Next]_vars
    PROVE  Saving' /\ OnlyWholeFiles'
<1>1. ASSUME NEW p \in Procs, Step(p) PROVE Saving' /\ OnlyWholeFiles'
  <2>1. OnlyWholeFiles'
    BY <1>1, Itself DEF OnlyWholeFiles
  <2>2. ASSUME NEW q \in Procs
        PROVE  /\ pc'[q] \in {"write", "move"} => own'[q] \in Ids
               /\ pc'[q] = "write" => temps'[Temp(q)'] = "part"
               /\ pc'[q] = "move" => temps'[Temp(q)'] \in {"none", "whole"}
    <3>1. pc'[q] \in {"write", "move"} => Temp(q)' = Temp(q)
      <4>1. CASE q = p
        <5>1. pc'[p] \in {"write", "move"} => own'[p] = own[p]
          BY <1>1, Itself
        <5> QED
          BY <4>1, <5>1 DEF Temp
      <4>2. CASE q # p
        <5>1. own'[q] = own[q]
          BY <1>1, <4>2, Others
        <5> QED
          BY <5>1 DEF Temp
      <4> QED
        BY <4>1, <4>2
    <3>2. CASE q = p
      BY <1>1, <3>1, <3>2, Itself
    <3>3. CASE q # p
      BY <1>1, <3>1, <3>3, Others DEF Saving
    <3> QED
      BY <3>2, <3>3
  <2> QED
    BY <2>1, <2>2 DEF Saving
<1>2. CASE Tick \/ UNCHANGED vars
  BY <1>2 DEF Tick, vars, start, folder, Saving, OnlyWholeFiles, Temp
<1> QED
  BY <1>1, <1>2 DEF Next, Step

\* An installation gets an id that none has, or none it did not have.
LEMMA IdsStep ==
    ASSUME Types, NEW p \in Procs, Step(p), NEW i \in Installs, NEW id \in Ids, Has(i, id)'
    PROVE  Has(i, id) \/ (i = home[p] /\ \A j \in Installs : ~Has(j, id))
<1>0. /\ home \in [Procs -> Installs] /\ pc \in [Procs -> Steps]
      /\ own \in [Procs -> Ids \cup {NoId}] /\ drawn \in [Procs -> Ids \cup {NoId}]
      /\ idFile \in [Installs -> Ids \cup {NoId, Blank}]
      /\ UNCHANGED home /\ id # NoId /\ id # Blank
  BY Others, Constants DEF Types
<1>1. CASE /\ \A q \in Procs : {own'[q], drawn'[q]} \subseteq {own[q], drawn[q], NoId}
           /\ \A j \in Installs : idFile'[j] \in {idFile[j], NoId, Blank}
  BY <1>0, <1>1 DEF Has
<1>2. CASE Start(p) \/ List(p) \/ Sweep(p) \/ Swept(p) \/ BeginSave(p) \/ Save(p)
  <2>1. UNCHANGED <<own, drawn, idFile>>
    BY <1>2 DEF Start, List, Sweep, Swept, BeginSave, Save, Written, Move, SaveFails, start
  <2> QED
    BY <1>1, <2>1
\* The id in the file becomes the one the process has.
<1>3. ASSUME idFile[home[p]] \in Ids, Knows(p, idFile[home[p]]), UNCHANGED idFile
      PROVE  Has(i, id)
  <2>1. /\ own'[p] = idFile[home[p]] /\ drawn'[p] = NoId
        /\ \A q \in Procs \ {p} : own'[q] = own[q] /\ drawn'[q] = drawn[q]
    BY <1>3, Knowing
  <2>2. CASE idFile'[i] = id
    BY <1>3, <2>2 DEF Has
  <2>3. CASE idFile'[i] # id
    <3>1. PICK q \in Procs : home[q] = i /\ id \in {own'[q], drawn'[q]}
      BY <1>0, <2>3 DEF Has
    <3> QED
      BY <1>0, <2>1, <3>1 DEF Has
  <2> QED
    BY <2>2, <2>3
<1>4. CASE ReadId(p)
  <2>1. CASE idFile[home[p]] \in Ids
    BY <1>3, <1>4, <2>1 DEF ReadId
  <2>2. CASE idFile[home[p]] \notin Ids
    <3>1. drawn' = [drawn EXCEPT ![p] = NewId] /\ UNCHANGED <<own, idFile>> /\ NewId \notin InUseIds
      BY <1>4, <2>2 DEF ReadId, NewId
    <3>2. CASE id = NewId
      <4>1. \A j \in Installs : ~Has(j, id)
        BY <3>1, <3>2 DEF Has, InUseIds
      <4>2. home[p] = i
        BY <1>0, <3>1, <4>1 DEF Has
      <4> QED
        BY <4>1, <4>2
    <3>3. CASE id # NewId
      BY <1>0, <3>1, <3>3 DEF Has
    <3> QED
      BY <3>2, <3>3
  <2> QED
    BY <2>1, <2>2
<1>5. CASE IdUnreadable(p)
  <2>1. /\ own'[p] = NoId /\ drawn'[p] = NoId /\ UNCHANGED idFile
        /\ \A q \in Procs \ {p} : own'[q] = own[q] /\ drawn'[q] = drawn[q]
    BY <1>5, Knowing DEF IdUnreadable
  <2> QED
    BY <1>1, <2>1
<1>6. CASE CreateId(p) \/ ReplaceId(p)
  <2>1. UNCHANGED <<own, drawn>> /\ \A j \in Installs : idFile'[j] \in {idFile[j], Blank}
    BY <1>0, <1>6 DEF CreateId, ReplaceId
  <2> QED
    BY <1>1, <2>1
<1>7. CASE RereadId(p)
  <2>1. CASE idFile[home[p]] \in Ids
    BY <1>3, <1>7, <2>1 DEF RereadId
  <2>2. CASE idFile[home[p]] \notin Ids
    BY <1>1, <1>7, <2>2 DEF RereadId
  <2> QED
    BY <2>1, <2>2
<1>8. CASE FillId(p)
  <2>1. /\ own'[p] = drawn[p] /\ drawn'[p] = NoId
        /\ \A q \in Procs \ {p} : own'[q] = own[q] /\ drawn'[q] = drawn[q]
        /\ idFile' = [idFile EXCEPT ![home[p]] = drawn[p]]
    <3>1. drawn[p] \in Ids \cup {NoId}
      BY <1>0
    <3> QED
      BY <1>8, <3>1, Knowing DEF FillId
  <2>2. CASE idFile'[i] = id
    <3>1. idFile[i] = id \/ (i = home[p] /\ drawn[p] = id)
      BY <1>0, <2>1, <2>2
    <3> QED
      BY <3>1 DEF Has
  <2>3. CASE idFile'[i] # id
    <3>1. PICK q \in Procs : home[q] = i /\ id \in {own'[q], drawn'[q]}
      BY <1>0, <2>3 DEF Has
    <3> QED
      BY <1>0, <2>1, <3>1 DEF Has
  <2> QED
    BY <2>2, <2>3
<1>9. CASE Kill(p) \/ LogOff(p)
  <2>1. /\ own'[p] = NoId /\ drawn'[p] = NoId /\ UNCHANGED idFile
        /\ \A q \in Procs \ {p} : own'[q] = own[q] /\ drawn'[q] = drawn[q]
    BY <1>9, Stopping DEF Kill, LogOff
  <2> QED
    BY <1>1, <2>1
<1> QED
  BY <1>2, <1>4, <1>5, <1>6, <1>7, <1>8, <1>9 DEF Step, StartUp

LEMMA OneHomeStep ==
    ASSUME Types, OneHome, [Next]_vars
    PROVE  OneHome'
<1>1. ASSUME NEW p \in Procs, Step(p) PROVE OneHome'
  <2> SUFFICES ASSUME NEW id \in Ids, NEW i \in Installs, NEW j \in Installs,
                      Has(i, id)', Has(j, id)'
               PROVE  i = j
    BY DEF OneHome
  <2>1. Has(i, id) \/ (i = home[p] /\ ~Has(j, id))
    BY <1>1, IdsStep
  <2>2. Has(j, id) \/ (j = home[p] /\ ~Has(i, id))
    BY <1>1, IdsStep
  <2> QED
    BY <2>1, <2>2 DEF OneHome
<1>2. CASE Tick \/ UNCHANGED vars
  BY <1>2 DEF Tick, vars, start, OneHome, Has
<1> QED
  BY <1>1, <1>2 DEF Next, Step

LEMMA FolderStep == FolderInv /\ [Next]_vars => FolderInv'
<1> SUFFICES ASSUME FolderInv, [Next]_vars PROVE FolderInv'
  OBVIOUS
<1>1. Types /\ Saving /\ OneHome /\ OnlyWholeFiles
  BY DEF FolderInv
<1> QED
  BY <1>1, TypesStep, SavingStep, OneHomeStep DEF FolderInv

LEMMA FolderInvHolds == Spec => []FolderInv
  BY FolderInit, FolderStep, PTL DEF Spec

-----------------------------------------------------------------------------
(* The theorems about the folder.                                          *)

\* However the sessions' starts, sweeps, saves and deaths interleave, a save has
\* an id for its temporary file, and nobody removes that file while it is being
\* written (installation_id, cleanup_orphan_temp_files, _write_bytes_atomic).
THEOREM TypeCorrect == Spec => []TypeOK
<1>1. FolderInv => TypeOK
  BY DEF FolderInv, Types, Steps, Saving, TypeOK
<1> QED
  BY <1>1, FolderInvHolds, PTL

\* No half-written file gets a final name, whatever is killed, swept or in the
\* way (_write_bytes_atomic).
THEOREM FinalsAreWhole == Spec => []OnlyWholeFiles
<1>1. FolderInv => OnlyWholeFiles
  BY DEF FolderInv
<1> QED
  BY <1>1, FolderInvHolds, PTL

\* One step of the folder loses a save's temporary file only as the property
\* says: another session of the same installation, or age.
LEMMA SaversStep ==
    ASSUME FolderInv, [Next]_vars, NEW p \in Procs, pc[p] = "move", pc'[p] = "move",
           temps[Temp(p)] # "none", temps'[Temp(p)] = "none"
    PROVE  \E q \in Procs \ {p} : \/ home[q] = home[p] /\ own[q] = own[p]
                                  \/ Old(q, Temp(p))
<1>1. Types /\ Saving /\ OneHome
  BY DEF FolderInv
<1>2. own[p] \in Ids
  BY <1>1 DEF Saving
<1>3. PICK q \in Procs : Step(q)
  BY DEF Next, Step, Tick, vars, folder
<1>4. q # p
  BY <1>1, <1>3, Itself
<1>5. MayRemove(q, Temp(p))
  BY <1>1, <1>2, <1>3, <1>4, Others
<1>6. CASE own[q] = own[p]
  <2>1. Has(home[p], own[p]) /\ Has(home[q], own[p])
    BY <1>6 DEF Has
  <2>2. home[p] \in Installs /\ home[q] \in Installs
    BY <1>1 DEF Types
  <2>3. home[q] = home[p]
    BY <1>1, <1>2, <2>1, <2>2 DEF OneHome
  <2> QED
    BY <1>4, <1>6, <2>3
<1>7. CASE Old(q, Temp(p))
  BY <1>4, <1>7
<1> QED
  BY <1>5, <1>6, <1>7 DEF MayRemove, Temp

\* Of the sessions that share a folder, only one of the same installation takes
\* the temporary file of a save in progress, or one whose clock finds it a day
\* old: two installations never have the same id, even while one of them loses,
\* truncates or replaces its id file (installation_id, cleanup_orphan_temp_files).
THEOREM SaversKeepTheirFiles == Spec => SavesKeepTheirTemp
<1>1. FolderInv /\ [Next]_vars =>
        [\A p \in Procs :
           pc[p] = "move" /\ pc'[p] = "move"
                  /\ temps[Temp(p)] # "none" /\ temps'[Temp(p)] = "none" =>
              \E q \in Procs \ {p} :
                  \/ home[q] = home[p] /\ own[q] = own[p]
                  \/ Old(q, Temp(p))]_vars
  BY SaversStep
<1> QED
  BY <1>1, FolderInvHolds, PTL DEF Spec, SavesKeepTheirTemp

\* Every path of the bounded inputs fits, in every state: the case of
\* EveryPathFits that TLC counts out (filename_budget, _numbered_path).
THEOREM BoundedPathsFit == Spec => []PathsFit
<1>1. PathsFit
  BY BoundedInputsFit DEF PathsFit
<1> QED
  BY <1>1, PTL

\* The jobs 0 to 1400 have different temporary names, in every state: the case of
\* EveryNameDiffers that TLC counts out (_base36, temp_file_name).
THEOREM BoundedJobsDiffer == Spec => []TempNamesDiffer
<1>1. TempNamesDiffer
  BY BoundedNamesDiffer DEF TempNamesDiffer
<1> QED
  BY <1>1, PTL
=============================================================================
