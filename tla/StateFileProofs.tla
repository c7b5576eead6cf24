--------------------------- MODULE StateFileProofs ---------------------------
(* Theorems about StateFile, for any names, contents and checksum that the  *)
(* assumptions allow.                                                       *)
EXTENDS StateFile, SequenceTheorems, WellFoundedInduction, TLAPS

(***************************************************************************)
(* Minima and maxima                                                       *)
(***************************************************************************)
LEMMA FirstOf ==
  ASSUME NEW I \in SUBSET Nat, I # {}
  PROVE  Min(I) \in I /\ \A i \in I : Min(I) <= i
<1>1. PICK m \in I : \A i \in I : <<i, m>> \notin OpToRel(<, Nat)
  BY WFMin, NatLessThanWellFounded, Zenon
<1>2. \A i \in I : <<i, m>> \in Nat \X Nat
  OBVIOUS
<1>3. \A i \in I : ~ (i < m)
  BY <1>1, <1>2, Zenon DEF OpToRel
<1>4. \A i \in I : m <= i
  BY <1>3
<1> QED BY <1>4 DEF Min

LEMMA LastOf ==
  ASSUME NEW n \in Nat, NEW I \in SUBSET (1..n), I # {}
  PROVE  Max(I) \in I /\ \A i \in I : i <= Max(I)
<1> DEFINE J == {n - i : i \in I}
<1>1. J \in SUBSET Nat /\ J # {}
  <2>1. \A i \in I : n - i \in Nat
    OBVIOUS
  <2>2. J \in SUBSET Nat
    BY <2>1
  <2>3. PICK i \in I : TRUE
    OBVIOUS
  <2>4. n - i \in J
    BY <2>3
  <2> QED BY <2>2, <2>4
<1>2. Min(J) \in J /\ \A j \in J : Min(J) <= j
  BY <1>1, FirstOf
<1>3. PICK m \in I : Min(J) = n - m
  BY <1>2
<1>4. ASSUME NEW i \in I PROVE m >= i
  <2>1. n - m <= n - i
    BY <1>2, <1>3
  <2> QED BY <2>1
<1> QED BY <1>4 DEF Max

(* A function whose value at a number is either given or made of its value *)
(* at a smaller number exists.                                             *)
IsMade(f, D, B, base, pred, step) ==
    \A n \in D : f[n] = IF n \in B THEN base[n] ELSE step[n][f[pred[n]]]

LEMMA Recursion ==
  ASSUME NEW D \in SUBSET Nat, NEW B \in SUBSET D, NEW S,
         NEW base \in [D -> S], NEW pred \in [D -> D],
         NEW step \in [D -> [S -> S]],
         \A n \in D \ B : pred[n] < n
  PROVE  \E f \in [D -> S] : IsMade(f, D, B, base, pred, step)
<1> DEFINE Upto(n) == {m \in D : m <= n}
           Of(g, m) == IF m \in B THEN base[m] ELSE step[m][g[pred[m]]]
           Good(n, g) == g \in [Upto(n) -> S] /\ \A m \in Upto(n) : g[m] = Of(g, m)
           H(n) == CHOOSE g : Good(n, g)
<1>1. \A n \in D : n \in Nat /\ n \in Upto(n)
  OBVIOUS
<1>2. ASSUME NEW n \in D, n \notin B
      PROVE  pred[n] \in D /\ pred[n] < n /\ pred[n] \in Upto(n) /\ ~ n <= pred[n]
  <2>1. pred[n] \in D /\ pred[n] < n
    BY <1>2
  <2>2. pred[n] \in Nat /\ n \in Nat
    BY <2>1
  <2> QED BY <2>1, <2>2
<1>3. \A n, k \in D : \A m \in Upto(n) : n <= k => m \in D /\ m <= n /\ m \in Upto(k)
  OBVIOUS
<1>4. ASSUME NEW n \in D, NEW g, NEW h, g = h PROVE Of(g, n) = Of(h, n)
  BY <1>4
<1>5. ASSUME NEW n \in D, NEW g, NEW h, g[pred[n]] = h[pred[n]]
      PROVE Of(g, n) = Of(h, n)
  BY <1>5
<1>6. ASSUME NEW n \in D, NEW g, n \in B \/ g[pred[n]] \in S PROVE Of(g, n) \in S
  BY <1>2, <1>6
<1>7. ASSUME NEW n \in D, n \in B, NEW g, NEW h PROVE Of(g, n) = Of(h, n)
  BY <1>7
<1> HIDE DEF Upto, Of
<1>8. ASSUME NEW n \in D, NEW k \in D, n <= k, NEW g, NEW h, Good(n, g), Good(k, h)
      PROVE  \A m \in Upto(n) : g[m] = h[m]
  <2> DEFINE I == {m \in Upto(n) : g[m] # h[m]}
  <2>1. SUFFICES ASSUME I # {} PROVE FALSE
    OBVIOUS
  <2>2. I \in SUBSET Nat
    <3>1. ASSUME NEW m \in I PROVE m \in Nat
      <4>1. m \in D
        BY <1>3, <1>8
      <4> QED BY <4>1, <1>1
    <3> QED BY <3>1
  <2>3. PICK m \in I : \A i \in I : m <= i
    BY <2>1, <2>2, FirstOf
  <2>4. m \in Upto(n) /\ m \in Upto(k) /\ m \in D /\ m <= n /\ g[m] # h[m]
    BY <1>3, <1>8
  <2>5. g[m] = Of(g, m) /\ h[m] = Of(h, m)
    BY <1>8, <2>4
  <2>6. m \notin B
    BY <1>7, <2>4, <2>5
  <2>7. pred[m] \in Upto(m) /\ pred[m] \notin I
    BY <1>2, <2>3, <2>4, <2>6
  <2>8. pred[m] \in Upto(n)
    BY <1>3, <2>4, <2>7
  <2>9. g[pred[m]] = h[pred[m]]
    BY <2>7, <2>8
  <2> QED BY <1>5, <2>4, <2>5, <2>9
(* What holds of the function made so far. *)
<1>9. ASSUME NEW n \in D,
             \A m \in D : m < n => Good(m, H(m)),
             NEW g \in [Upto(n) -> S], \A m \in Upto(n) : m # n => g[m] = H(m)[m],
             g[n] = Of(g, n)
      PROVE  Good(n, g)
  <2>1. SUFFICES ASSUME NEW m \in Upto(n), m # n PROVE g[m] = Of(g, m)
    BY <1>9
  <2>2. m \in D /\ m < n /\ m \in Upto(m)
    <3>1. m \in D /\ m <= n
      BY <1>3
    <3> QED BY <3>1, <2>1, <1>1
  <2>3. Good(m, H(m)) /\ H(m)[m] = Of(H(m), m) /\ g[m] = H(m)[m]
    BY <1>9, <2>1, <2>2
  <2>4. CASE m \in B
    BY <2>2, <2>3, <2>4, <1>7
  <2>5. CASE m \notin B
    <3> DEFINE p == pred[m]
    <3>1. p \in D /\ p < m /\ p \in Upto(m) /\ p \in Upto(p)
      BY <2>2, <2>5, <1>1, <1>2
    <3>2. p \in Upto(n) /\ p < n /\ p # n
      <4>1. p \in Nat /\ m \in Nat /\ n \in Nat
        BY <3>1, <2>2, <1>1
      <4> QED BY <4>1, <2>2, <3>1, <1>3
    <3>3. Good(p, H(p))
      BY <1>9, <3>1, <3>2
    <3>4. H(p)[p] = H(m)[p]
      <4> HIDE DEF Good, H, p
      <4>1. p <= m
        BY <1>1, <2>2, <3>1
      <4>2. \A i \in Upto(p) : H(p)[i] = H(m)[i]
        BY <1>8, <2>2, <2>3, <3>1, <3>3, <4>1
      <4> QED BY <3>1, <4>2
    <3>5. g[p] = H(p)[p]
      BY <1>9, <3>2
    <3> HIDE DEF H, Good
    <3> QED BY <1>5, <2>2, <2>3, <3>4, <3>5
  <2> QED BY <2>4, <2>5
<1> DEFINE I == {n \in D : ~ Good(n, H(n))}
<1>10. I = {}
  <2>1. SUFFICES ASSUME I # {} PROVE FALSE
    OBVIOUS
  <2> HIDE DEF H, Good
  <2>2. I \in SUBSET Nat
    BY <1>1
  <2>3. PICK n \in I : \A i \in I : n <= i
    BY <2>1, <2>2, FirstOf
  <2>4. n \in D /\ n \in Upto(n) /\ ~ Good(n, H(n))
    BY <1>1
  <2>5. ASSUME NEW m \in D, m < n PROVE Good(m, H(m))
    <3>1. m \in Nat /\ n \in Nat
      BY <1>1
    <3> QED BY <2>3, <2>5, <3>1
  <2>6. ASSUME NEW m \in Upto(n), m # n PROVE H(m)[m] \in S /\ m \in D
    <3>1. m \in D /\ m <= n
      BY <1>3, <2>4
    <3>2. m < n /\ m \in Upto(m)
      BY <1>1, <2>4, <2>6, <3>1
    <3>3. Good(m, H(m))
      BY <2>5, <3>1, <3>2
    <3> QED BY <3>1, <3>2, <3>3 DEF Good
  <2> DEFINE before == [m \in Upto(n) |-> H(m)[m]]
             g == [m \in Upto(n) |-> IF m = n THEN Of(before, n) ELSE H(m)[m]]
  <2>7. n \in B \/ before[pred[n]] \in S
    <3>1. CASE n \notin B
      <4>1. pred[n] \in Upto(n) /\ pred[n] # n
        BY <1>1, <1>2, <2>4, <3>1
      <4> QED BY <2>6, <4>1
    <3> QED BY <3>1
  <2>8. Of(before, n) \in S
    BY <1>6, <2>4, <2>7
  <2>9. g \in [Upto(n) -> S]
    BY <2>6, <2>8
  <2>10. \A m \in Upto(n) : m # n => g[m] = H(m)[m]
    OBVIOUS
  <2>11. g[n] = Of(g, n)
    <3>1. g[n] = Of(before, n)
      BY <2>4
    <3>2. CASE n \in B
      BY <1>7, <2>4, <3>1, <3>2
    <3>3. CASE n \notin B
      <4>1. pred[n] \in Upto(n) /\ pred[n] # n
        BY <1>1, <1>2, <2>4, <3>3
      <4>2. g[pred[n]] = before[pred[n]]
        BY <4>1
      <4> HIDE DEF g, before
      <4> QED BY <1>5, <2>4, <3>1, <4>2
    <3> QED BY <3>2, <3>3
  <2> HIDE DEF g
  <2>12. Good(n, g)
    BY <1>9, <2>4, <2>5, <2>9, <2>10, <2>11
  <2>13. Good(n, H(n))
    BY <2>12, Zenon DEF H
  <2> QED BY <2>4, <2>13
<1>11. ASSUME NEW n \in D
       PROVE  /\ H(n)[n] \in S /\ H(n)[n] = Of(H(n), n)
              /\ n \notin B => H(n)[pred[n]] = H(pred[n])[pred[n]]
  <2> HIDE DEF H
  <2>1. \A m \in D : Good(m, H(m))
    BY <1>10
  <2>2. H(n)[n] \in S /\ H(n)[n] = Of(H(n), n)
    BY <1>1, <2>1
  <2>3. ASSUME n \notin B PROVE H(n)[pred[n]] = H(pred[n])[pred[n]]
    <3> DEFINE p == pred[n]
    <3>1. p \in D /\ p \in Upto(p)
      BY <1>1, <1>2, <2>3
    <3>2. p <= n
      <4>1. p < n /\ p \in Nat /\ n \in Nat
        BY <1>1, <1>2, <2>3, <3>1
      <4> HIDE DEF p
      <4> QED BY <4>1
    <3>3. Good(p, H(p)) /\ Good(n, H(n))
      BY <2>1, <3>1
    <3> HIDE DEF Good, p
    <3>4. \A i \in Upto(p) : H(p)[i] = H(n)[i]
      BY <1>8, <3>1, <3>2, <3>3
    <3> QED BY <3>1, <3>4 DEF p
  <2> QED BY <2>2, <2>3
<1> HIDE DEF H, Good
<1> DEFINE f == [n \in D |-> H(n)[n]]
<1>12. f \in [D -> S]
  BY <1>11
<1>13. ASSUME NEW n \in D PROVE f[n] = Of(f, n)
  <2>1. CASE n \in B
    BY <1>7, <1>11, <2>1
  <2>2. CASE n \notin B
    <3>1. pred[n] \in D
      BY <1>2, <2>2
    <3>2. f[pred[n]] = H(n)[pred[n]]
      BY <1>11, <2>2, <3>1
    <3>3. f[n] = Of(H(n), n)
      BY <1>11
    <3> HIDE DEF f
    <3> QED BY <1>5, <3>2, <3>3
  <2> QED BY <2>1, <2>2
<1> HIDE DEF f
<1> QED BY <1>12, <1>13 DEF Of, IsMade

(***************************************************************************)
(* Numbers in decimal                                                      *)
(***************************************************************************)
LEMMA DigitOf ==
  ASSUME NEW n \in Nat
  PROVE  n % 10 \in 0..9 /\ Digits[1 + (n % 10)] \in Digit
<1>1. n % 10 \in 0..9
  OBVIOUS
<1>2. DOMAIN Digits = 1..10
  BY DEF Digits
<1>3. 1 + (n % 10) \in DOMAIN Digits
  BY <1>1, <1>2
<1> HIDE DEF Digits
<1> QED BY <1>1, <1>3 DEF Digit, Range

(* The recursive definition of Decimal defines what it says. *)
LEMMA DecimalDef ==
  \A n \in Nat :
     Decimal[n] = IF n < 10 THEN <<Digits[n + 1]>>
                  ELSE Append(Decimal[n \div 10], Digits[1 + (n % 10)])
<1> DEFINE S == Seq(Digit)
           base == [n \in Nat |-> <<Digits[1 + (n % 10)]>>]
           pred == [n \in Nat |-> n \div 10]
           step == [n \in Nat |-> [v \in S |-> Append(v, Digits[1 + (n % 10)])]]
           Def(f, n) == IF n < 10 THEN <<Digits[n + 1]>>
                        ELSE Append(f[n \div 10], Digits[1 + (n % 10)])
<1>1. base \in [Nat -> S]
  BY DigitOf
<1>2. pred \in [Nat -> Nat]
  OBVIOUS
<1>3. step \in [Nat -> [S -> S]]
  <2>1. ASSUME NEW n \in Nat, NEW v \in S
        PROVE  Append(v, Digits[1 + (n % 10)]) \in S
    BY DigitOf
  <2> QED BY <2>1
<1>4. \A n \in Nat \ (0..9) : pred[n] < n
  OBVIOUS
<1> HIDE DEF S, base, pred, step
<1>5. PICK f \in [Nat -> S] :
        \A n \in Nat : f[n] = IF n \in 0..9 THEN base[n] ELSE step[n][f[pred[n]]]
  <2> DEFINE B == 0..9
             D == Nat
  <2>1. D \in SUBSET Nat /\ B \in SUBSET D
    OBVIOUS
  <2>2. base \in [D -> S] /\ pred \in [D -> D] /\ step \in [D -> [S -> S]]
    BY <1>1, <1>2, <1>3
  <2>3. \A n \in D \ B : pred[n] < n
    BY <1>4
  <2> HIDE DEF B, D
  <2>4. \E f \in [D -> S] : IsMade(f, D, B, base, pred, step)
    BY <2>1, <2>2, <2>3, Recursion
  <2> QED BY <2>4 DEF B, D, IsMade
<1>6. ASSUME NEW n \in Nat PROVE f[n] = Def(f, n)
  <2>1. f[n] = IF n \in 0..9 THEN base[n] ELSE step[n][f[pred[n]]]
    BY <1>5
  <2>2. CASE n < 10
    <3>1. n \in 0..9 /\ n % 10 = n
      BY <2>2
    <3> QED BY <2>1, <2>2, <3>1 DEF base
  <2>3. CASE ~ n < 10
    <3>1. n \notin 0..9 /\ pred[n] = n \div 10 /\ n \div 10 \in Nat
      BY <2>3 DEF pred
    <3>2. f[n \div 10] \in S
      BY <3>1
    <3>3. f[n] = step[n][f[n \div 10]]
      BY <2>1, <3>1
    <3> QED BY <2>3, <3>2, <3>3 DEF step
  <2> QED BY <2>2, <2>3
<1>7. f = [n \in Nat |-> Def(f, n)]
  BY <1>5, <1>6
<1>8. Decimal = CHOOSE g : g = [n \in Nat |-> Def(g, n)]
  BY DEF Decimal
<1> HIDE DEF Def
<1>9. Decimal = [n \in Nat |-> Def(Decimal, n)]
  BY <1>7, <1>8, Zenon
<1>10. \A n \in Nat : Decimal[n] = Def(Decimal, n)
  BY <1>9, Zenon
<1> QED BY <1>10 DEF Def

LEMMA DecimalCases ==
  ASSUME NEW n \in Nat
  PROVE  /\ n < 10 => Decimal[n] = <<Digits[n + 1]>>
         /\ ~ n < 10 => /\ n \div 10 \in Nat /\ n \div 10 < n
                        /\ Decimal[n] = Append(Decimal[n \div 10], Digits[1 + (n % 10)])
<1>1. ~ n < 10 => n \div 10 \in Nat /\ n \div 10 < n
  OBVIOUS
<1> HIDE DEF Digits
<1> QED BY <1>1, DecimalDef, Zenon

(* A number has digits, and nothing else. *)
LEMMA DecimalType ==
  ASSUME NEW n \in Nat
  PROVE  Decimal[n] \in Seq(Digit) /\ Len(Decimal[n]) > 0
<1> DEFINE Good(m) == Decimal[m] \in Seq(Digit) /\ Len(Decimal[m]) > 0
           I == {m \in Nat : ~ Good(m)}
<1>1. SUFFICES ASSUME I # {} PROVE FALSE
  OBVIOUS
<1> HIDE DEF Good
<1>2. PICK m \in I : \A i \in I : m <= i
  BY <1>1, FirstOf
<1>3. CASE m < 10
  <2>1. Decimal[m] = <<Digits[m + 1]>> /\ 1 + (m % 10) = m + 1
    <3>1. m % 10 = m
      BY <1>3
    <3> QED BY <1>3, <3>1, DecimalCases
  <2>2. Digits[m + 1] \in Digit
    BY <2>1, DigitOf
  <2>3. Good(m)
    BY <2>1, <2>2 DEF Good
  <2> QED BY <2>3
<1>4. CASE ~ m < 10
  <2>1. /\ m \div 10 \in Nat /\ m \div 10 < m
        /\ Decimal[m] = Append(Decimal[m \div 10], Digits[1 + (m % 10)])
    BY <1>4, DecimalCases
  <2>2. Good(m \div 10)
    BY <1>2, <2>1
  <2>3. Good(m)
    BY <2>1, <2>2, DigitOf DEF Good
  <2> QED BY <2>3
<1> QED BY <1>3, <1>4

LEMMA ValueOf ==
  ASSUME NEW d \in 0..9
  PROVE  Value(Digits[d + 1]) = d
<1>1. \A e \in 0..9 : Digits[e + 1] = Digits[d + 1] => e = d
  BY DEF Digits
<1> HIDE DEF Digits
<1> QED BY <1>1 DEF Value

LEMMA ValueType ==
  ASSUME NEW c \in Digit
  PROVE  Value(c) \in 0..9
<1>1. DOMAIN Digits = 1..10
  BY DEF Digits
<1> HIDE DEF Digits
<1>2. PICK i \in 1..10 : c = Digits[i]
  BY <1>1 DEF Digit, Range
<1>3. i - 1 \in 0..9 /\ c = Digits[(i - 1) + 1]
  BY <1>2
<1> QED BY <1>3, ValueOf

(* The sums of Number. *)
IsSums(s, u) ==
    /\ u[0] = 0
    /\ \A n \in 1..Len(s) : u[n] = 10 * u[n - 1] + Value(s[n])

LEMMA SumsExist ==
  ASSUME NEW N \in Nat, NEW step \in [0..N -> [Nat -> Nat]]
  PROVE  \E f \in [0..N -> Nat] :
           f[0] = 0 /\ \A n \in 1..N : f[n] = step[n][f[n - 1]]
<1> DEFINE D == 0..N
           B == {0}
           S == Nat
           base == [n \in D |-> 0]
           pred == [n \in D |-> IF n = 0 THEN 0 ELSE n - 1]
<1>1. D \in SUBSET Nat /\ B \in SUBSET D
  OBVIOUS
<1>2. base \in [D -> S] /\ pred \in [D -> D] /\ step \in [D -> [S -> S]]
  <2>1. \A n \in D : (IF n = 0 THEN 0 ELSE n - 1) \in D
    OBVIOUS
  <2>2. pred \in [D -> D]
    BY <2>1
  <2> QED BY <2>2
<1>3. \A n \in D \ B : pred[n] < n
  OBVIOUS
<1>4. PICK f \in [D -> S] : IsMade(f, D, B, base, pred, step)
  <2> HIDE DEF D, B, S, base, pred
  <2> QED BY <1>1, <1>2, <1>3, Recursion
<1>5. f[0] = 0
  BY <1>4 DEF IsMade
<1>6. ASSUME NEW n \in 1..N PROVE f[n] = step[n][f[n - 1]]
  <2>1. n \in D /\ n \notin B /\ pred[n] = n - 1
    OBVIOUS
  <2> QED BY <1>4, <2>1 DEF IsMade
<1> QED BY <1>5, <1>6

LEMMA NumberDef ==
  ASSUME NEW s \in Seq(Digit)
  PROVE  \E u : IsSums(s, u) /\ Number(s) = u[Len(s)]
<1> DEFINE N == Len(s)
           D == 0..Len(s)
           step == [n \in D |-> [v \in Nat |-> IF n = 0 THEN 0 ELSE 10 * v + Value(s[n])]]
           Def(f, n) == IF n = 0 THEN 0 ELSE 10 * f[n - 1] + Value(s[n])
<1>1. step \in [0..N -> [Nat -> Nat]]
  <2>1. ASSUME NEW n \in D, NEW v \in Nat, n # 0 PROVE 10 * v + Value(s[n]) \in Nat
    <3>1. s[n] \in Digit
      BY <2>1
    <3>2. Value(s[n]) \in 0..9
      BY <3>1, ValueType
    <3> QED BY <3>2
  <2> QED BY <2>1
<1>2. PICK f \in [0..N -> Nat] :
        f[0] = 0 /\ \A n \in 1..N : f[n] = step[n][f[n - 1]]
  <2> HIDE DEF step, N
  <2>1. N \in Nat
    BY DEF N
  <2> QED BY <1>1, <2>1, SumsExist
<1>3. ASSUME NEW n \in D PROVE f[n] = Def(f, n)
  <2>1. CASE n = 0
    BY <1>2, <2>1
  <2>2. CASE n # 0
    <3>1. n \in 1..N /\ f[n - 1] \in Nat
      BY <2>2
    <3>2. f[n] = step[n][f[n - 1]]
      BY <1>2, <3>1
    <3> QED BY <2>2, <3>1, <3>2
  <2> QED BY <2>1, <2>2
<1>4. f = [n \in D |-> Def(f, n)]
  BY <1>3
<1> DEFINE u == CHOOSE g : g = [n \in D |-> Def(g, n)]
<1>5. Number(s) = u[Len(s)]
  BY DEF Number
<1> HIDE DEF Def
<1>6. u = [n \in D |-> Def(u, n)]
  BY <1>4, Zenon
<1> HIDE DEF u
<1>7. \A n \in D : u[n] = Def(u, n)
  BY <1>6, Zenon
<1>8. IsSums(s, u)
  BY <1>7 DEF IsSums, Def
<1> QED BY <1>5, <1>8

LEMMA NumberAppend ==
  ASSUME NEW s \in Seq(Digit), NEW c \in Digit
  PROVE  Number(Append(s, c)) = 10 * Number(s) + Value(c)
<1> DEFINE t == Append(s, c)
<1>1. PICK u : IsSums(s, u) /\ Number(s) = u[Len(s)]
  BY NumberDef
<1>2. t \in Seq(Digit) /\ Len(t) = Len(s) + 1 /\ t[Len(t)] = c
      /\ \A n \in 1..Len(s) : t[n] = s[n]
  OBVIOUS
<1> HIDE DEF t
<1>3. PICK v : IsSums(t, v) /\ Number(t) = v[Len(t)]
  BY <1>2, NumberDef
<1> DEFINE I == {n \in 0..Len(s) : u[n] # v[n]}
<1>4. I = {}
  <2>1. SUFFICES ASSUME I # {} PROVE FALSE
    OBVIOUS
  <2>2. I \in SUBSET Nat
    OBVIOUS
  <2>3. PICK n \in I : \A i \in I : n <= i
    BY <2>1, <2>2, FirstOf
  <2>4. n \in 0..Len(s) /\ n # 0 /\ u[n] # v[n]
    BY <1>1, <1>3 DEF IsSums
  <2>5. n - 1 \in 0..Len(s) /\ n - 1 \notin I
    BY <2>3, <2>4
  <2>6. u[n - 1] = v[n - 1]
    BY <2>5
  <2>7. n \in 1..Len(s) /\ n \in 1..Len(t) /\ t[n] = s[n]
    BY <1>2, <2>4
  <2>8. u[n] = 10 * u[n - 1] + Value(s[n]) /\ v[n] = 10 * v[n - 1] + Value(t[n])
    BY <1>1, <1>3, <2>7, Zenon DEF IsSums
  <2> QED BY <2>4, <2>6, <2>7, <2>8
<1>5. u[Len(s)] = v[Len(s)]
  BY <1>4
<1>6. v[Len(t)] = 10 * v[Len(t) - 1] + Value(t[Len(t)])
  BY <1>2, <1>3 DEF IsSums
<1> QED BY <1>1, <1>2, <1>3, <1>5, <1>6 DEF t

(* What is written is read again. *)
LEMMA NumberOfDecimal ==
  ASSUME NEW n \in Nat
  PROVE  Number(Decimal[n]) = n
<1> DEFINE I == {m \in Nat : Number(Decimal[m]) # m}
<1>1. SUFFICES ASSUME I # {} PROVE FALSE
  OBVIOUS
<1>2. PICK m \in I : \A i \in I : m <= i
  BY <1>1, FirstOf
<1>3. Value(Digits[1 + (m % 10)]) = m % 10 /\ Digits[1 + (m % 10)] \in Digit
  <2>1. m % 10 \in 0..9 /\ (m % 10) + 1 = 1 + (m % 10)
    OBVIOUS
  <2> HIDE DEF Digits
  <2> QED BY <2>1, ValueOf, DigitOf
<1> HIDE DEF Digits
<1>4. CASE m < 10
  <2> DEFINE c == Digits[1 + (m % 10)]
  <2>1. m % 10 = m /\ m + 1 = 1 + (m % 10)
    BY <1>4
  <2>2. Decimal[m] = <<c>>
    BY <1>4, <2>1, DecimalCases
  <2>3. <<c>> = Append(<<>>, c) /\ <<>> \in Seq(Digit)
    OBVIOUS
  <2>4. PICK u : IsSums(<<>>, u) /\ Number(<<>>) = u[Len(<<>>)]
    BY <2>3, NumberDef
  <2>5. Number(<<>>) = 0
    BY <2>4 DEF IsSums
  <2>6. Number(Append(<<>>, c)) = 10 * Number(<<>>) + Value(c)
    BY <1>3, <2>3, NumberAppend
  <2>7. Number(Decimal[m]) = Number(Append(<<>>, c))
    BY <2>2, <2>3
  <2> QED BY <1>3, <2>1, <2>5, <2>6, <2>7
<1>5. CASE ~ m < 10
  <2> DEFINE c == Digits[1 + (m % 10)]
             d == m \div 10
  <2>1. d \in Nat /\ d < m /\ Decimal[m] = Append(Decimal[d], c)
    BY <1>5, DecimalCases
  <2>2. Number(Decimal[d]) = d
    BY <1>2, <2>1
  <2>3. 10 * d + (m % 10) = m
    OBVIOUS
  <2>4. Number(Append(Decimal[d], c)) = 10 * d + (m % 10)
    <3>1. Decimal[d] \in Seq(Digit)
      BY <2>1, DecimalType
    <3> HIDE DEF d, c
    <3>2. Number(Append(Decimal[d], c)) = 10 * Number(Decimal[d]) + Value(c)
      BY <1>3, <3>1, NumberAppend DEF c
    <3>3. Value(c) = m % 10
      BY <1>3 DEF c
    <3> QED BY <2>2, <3>2, <3>3
  <2> QED BY <2>1, <2>3, <2>4
<1> QED BY <1>4, <1>5

(* The first digits of a number are those of a number: no zeros lead.      *)
LEMMA CutOfDecimal ==
  ASSUME NEW n \in Nat, NEW k \in 1..Len(Decimal[n])
  PROVE  \E m \in Nat : Decimal[m] = SubSeq(Decimal[n], 1, k)
<1> DEFINE I == {l \in Nat : \E j \in 1..Len(Decimal[l]) :
                    \A m \in Nat : Decimal[m] # SubSeq(Decimal[l], 1, j)}
<1>1. SUFFICES ASSUME I # {} PROVE FALSE
  OBVIOUS
<1>2. PICK l \in I : \A i \in I : l <= i
  BY <1>1, FirstOf
<1>3. PICK j \in 1..Len(Decimal[l]) : \A m \in Nat : Decimal[m] # SubSeq(Decimal[l], 1, j)
  OBVIOUS
<1>4. l \in Nat /\ Decimal[l] \in Seq(Digit)
  BY DecimalType
<1>5. ~ SubSeq(Decimal[l], 1, j) = Decimal[l]
  BY <1>3, <1>4
<1>6. j # Len(Decimal[l])
  BY <1>4, <1>5
<1>7. CASE l < 10
  <2> HIDE DEF Digits
  <2>1. Len(Decimal[l]) = 1
    <3>1. Decimal[l] = <<Digits[l + 1]>>
      BY <1>4, <1>7, DecimalCases
    <3> QED BY <3>1
  <2> QED BY <1>6, <2>1
<1>8. CASE ~ l < 10
  <2> DEFINE d == l \div 10
             c == Digits[1 + (l % 10)]
  <2>1. d \in Nat /\ d < l /\ Decimal[l] = Append(Decimal[d], c)
    BY <1>4, <1>8, DecimalCases
  <2>2. Decimal[d] \in Seq(Digit) /\ c \in Digit
    BY <1>4, <2>1, DecimalType, DigitOf
  <2>3. d \notin I
    BY <1>2, <1>4, <2>1
  <2> HIDE DEF d, c
  <2>4. j \in 1..Len(Decimal[d])
    <3>1. Len(Decimal[l]) = Len(Decimal[d]) + 1 /\ Len(Decimal[d]) \in Nat
      BY <2>1, <2>2
    <3> QED BY <1>6, <3>1
  <2>5. PICK m \in Nat : Decimal[m] = SubSeq(Decimal[d], 1, j)
    BY <2>1, <2>3, <2>4
  <2>6. SubSeq(Decimal[l], 1, j) = SubSeq(Decimal[d], 1, j)
    BY <2>1, <2>2, <2>4
  <2> QED BY <1>3, <2>5, <2>6
<1> QED BY <1>7, <1>8

LEMMA PrefixOfPrefix ==
  ASSUME NEW s \in Seq(Digit), NEW t \in Seq(Digit), IsPrefix(s, t),
         NEW k \in 0..Len(s)
  PROVE  IsPrefix(SubSeq(s, 1, k), t)
<1> DEFINE p == SubSeq(s, 1, k)
<1>1. p \in Seq(Digit) /\ Len(p) = k /\ k <= Len(t)
  BY DEF IsPrefix
<1>2. SubSeq(t, 1, k) \in Seq(Digit) /\ Len(SubSeq(t, 1, k)) = k
  BY <1>1
<1>3. SubSeq(p, 1, k) = p
  BY <1>1
<1>4. \A i \in 1..k : p[i] = SubSeq(t, 1, k)[i]
  <2>1. SubSeq(s, 1, Len(s)) = SubSeq(t, 1, Len(s)) /\ Len(s) <= Len(t)
    BY DEF IsPrefix
  <2>2. \A i \in 1..Len(s) : s[i] = t[i]
    BY <2>1
  <2> QED BY <1>1, <2>2
<1>5. p = SubSeq(t, 1, k)
  BY <1>1, <1>2, <1>4, SeqEqual
<1> QED BY <1>1, <1>3, <1>5 DEF IsPrefix

(* A number of which the last digits are lost is read as one with the      *)
(* first digits, also if digits were lost before.                          *)
LEMMA CutNumber ==
  ASSUME NEW n \in Nat, NEW l \in Nat, IsPrefix(Decimal[n], Decimal[l]),
         NEW k \in 1..Len(Decimal[n])
  PROVE  LET m == Number(SubSeq(Decimal[n], 1, k))
         IN  m \in Nat /\ IsPrefix(Decimal[m], Decimal[l])
<1>1. PICK m \in Nat : Decimal[m] = SubSeq(Decimal[n], 1, k)
  BY CutOfDecimal
<1>2. Number(SubSeq(Decimal[n], 1, k)) = m
  BY <1>1, NumberOfDecimal
<1>3. Decimal[n] \in Seq(Digit) /\ Decimal[l] \in Seq(Digit)
  BY DecimalType
<1>4. k \in 0..Len(Decimal[n])
  BY <1>3
<1>5. IsPrefix(SubSeq(Decimal[n], 1, k), Decimal[l])
  BY <1>3, <1>4, PrefixOfPrefix
<1> QED BY <1>1, <1>2, <1>5

(***************************************************************************)
(* A line                                                                  *)
(***************************************************************************)
LEMMA Characters ==
  Digit \subseteq Character /\ ":" \in Character /\ "NL" \in Character
BY DEF Character

LEMMA DigitsAreApart ==
  ASSUME NEW c \in Digit
  PROVE  c # ":" /\ c # "NL"
<1>1. PICK i \in 1..10 : c = Digits[i]
  <2>1. DOMAIN Digits = 1..10
    BY DEF Digits
  <2> HIDE DEF Digits
  <2> QED BY <2>1 DEF Digit, Range
<1>2. c \in {"0", "1", "2", "3", "4", "5", "6", "7", "8", "9"}
  BY <1>1 DEF Digits
<1> QED BY <1>2

LEMMA WiderSeq ==
  ASSUME NEW s \in Seq(Digit)
  PROVE  s \in Text
BY Characters, SeqMonotonic DEF Text

LEMMA DecimalText ==
  ASSUME NEW n \in Nat
  PROVE  /\ Decimal[n] \in Text /\ Len(Decimal[n]) \in Nat \ {0}
         /\ \A i \in 1..Len(Decimal[n]) :
              Decimal[n][i] \in Digit /\ Decimal[n][i] # ":" /\ Decimal[n][i] # "NL"
<1>1. Decimal[n] \in Seq(Digit) /\ Len(Decimal[n]) > 0
  BY DecimalType
<1>2. \A i \in 1..Len(Decimal[n]) : Decimal[n][i] \in Digit
  BY <1>1
<1>3. Decimal[n] \in Text
  BY <1>1, WiderSeq
<1> QED BY <1>1, <1>2, <1>3, DigitsAreApart

LEMMA Joined ==
  ASSUME NEW s \in Text, NEW t \in Text
  PROVE  /\ s \o t \in Text /\ Len(s \o t) = Len(s) + Len(t)
         /\ \A i \in 1..Len(s) : (s \o t)[i] = s[i]
         /\ \A i \in 1..Len(t) : (s \o t)[Len(s) + i] = t[i]
BY DEF Text

LEMMA OneMore ==
  ASSUME NEW s \in Text, NEW c \in Character
  PROVE  /\ s \o <<c>> \in Text /\ Len(s \o <<c>>) = Len(s) + 1
         /\ \A i \in 1..Len(s) : (s \o <<c>>)[i] = s[i]
         /\ (s \o <<c>>)[Len(s) + 1] = c
BY DEF Text

(* What is where in the line of a name f with offset o and crc c.          *)
IsLine(line, f, o, c) ==
    /\ line \in Text /\ Len(line) = Len(f) + Len(o) + Len(c) + 3
    /\ \A i \in 1..Len(f) : line[i] = f[i]
    /\ line[Len(f) + 1] = ":"
    /\ \A i \in 1..Len(o) : line[Len(f) + 1 + i] = o[i]
    /\ line[Len(f) + Len(o) + 2] = ":"
    /\ \A i \in 1..Len(c) : line[Len(f) + Len(o) + 2 + i] = c[i]
    /\ line[Len(line)] = "NL"

Entry == [offset : Nat, crc : Nat]

LEMMA LineShape ==
  ASSUME NEW f \in Text, NEW e \in Entry
  PROVE  IsLine(Line(f, e), f, Decimal[e.offset], Decimal[e.crc])
<1> DEFINE o == Decimal[e.offset]
           c == Decimal[e.crc]
           p1 == f \o <<":">>
           p2 == p1 \o o
           p3 == p2 \o <<":">>
           p4 == p3 \o c
           p5 == p4 \o <<"NL">>
<1>1. o \in Text /\ c \in Text
  BY DecimalText DEF Entry
<1>2. Line(f, e) = p5
  BY DEF Line
<1> HIDE DEF o, c
<1>3. /\ p1 \in Text /\ Len(p1) = Len(f) + 1
      /\ \A i \in 1..Len(f) : p1[i] = f[i]
      /\ p1[Len(f) + 1] = ":"
  BY OneMore, Characters
<1> HIDE DEF p1
<1>4. /\ p2 \in Text /\ Len(p2) = Len(p1) + Len(o)
      /\ \A i \in 1..Len(p1) : p2[i] = p1[i]
      /\ \A i \in 1..Len(o) : p2[Len(p1) + i] = o[i]
  BY <1>1, <1>3, Joined
<1> HIDE DEF p2
<1>5. /\ p3 \in Text /\ Len(p3) = Len(p2) + 1
      /\ \A i \in 1..Len(p2) : p3[i] = p2[i]
      /\ p3[Len(p2) + 1] = ":"
  BY <1>4, OneMore, Characters
<1> HIDE DEF p3
<1>6. /\ p4 \in Text /\ Len(p4) = Len(p3) + Len(c)
      /\ \A i \in 1..Len(p3) : p4[i] = p3[i]
      /\ \A i \in 1..Len(c) : p4[Len(p3) + i] = c[i]
  BY <1>1, <1>5, Joined
<1> HIDE DEF p4
<1>7. /\ p5 \in Text /\ Len(p5) = Len(p4) + 1
      /\ \A i \in 1..Len(p4) : p5[i] = p4[i]
      /\ p5[Len(p4) + 1] = "NL"
  BY <1>6, OneMore, Characters
<1> HIDE DEF p5
<1> DEFINE a == Len(f)
           b == Len(o)
           d == Len(c)
<1>8. a \in Nat /\ b \in Nat /\ d \in Nat
  BY <1>1 DEF Text
<1>9. Len(p1) = a + 1 /\ Len(p2) = a + b + 1 /\ Len(p3) = a + b + 2
      /\ Len(p4) = a + b + d + 2 /\ Len(p5) = a + b + d + 3
  BY <1>3, <1>4, <1>5, <1>6, <1>7, <1>8
<1>10. \A i \in 1..a : p5[i] = f[i]
  BY <1>3, <1>4, <1>5, <1>6, <1>7, <1>8, <1>9
<1>11. p5[a + 1] = ":"
  BY <1>3, <1>4, <1>5, <1>6, <1>7, <1>8, <1>9
<1>12. \A i \in 1..b : p5[a + 1 + i] = o[i]
  BY <1>4, <1>5, <1>6, <1>7, <1>8, <1>9
<1>13. p5[a + b + 2] = ":"
  BY <1>5, <1>6, <1>7, <1>8, <1>9
<1>14. \A i \in 1..d : p5[a + b + 2 + i] = c[i]
  BY <1>6, <1>7, <1>8, <1>9
<1>15. p5[Len(p5)] = "NL"
  BY <1>7, <1>8, <1>9
<1>16. Len(p5) = Len(f) + Len(o) + Len(c) + 3
  BY <1>8, <1>9
<1>17. IsLine(p5, f, o, c)
  BY <1>7, <1>10, <1>11, <1>12, <1>13, <1>14, <1>15, <1>16 DEF IsLine
<1> QED BY <1>2, <1>17 DEF o, c

(***************************************************************************)
(* Taking the first line off                                               *)
(***************************************************************************)
LEMMA FromIs ==
  ASSUME NEW t \in Text, NEW i \in 1..Len(t) + 1
  PROVE  /\ From(t, i) \in Text /\ Len(From(t, i)) = Len(t) + 1 - i
         /\ \A k \in 1..Len(t) + 1 - i : From(t, i)[k] = t[i + k - 1]
<1> Len(t) \in Nat
  BY DEF Text
<1> QED BY DEF From, Text

LEMMA PartIs ==
  ASSUME NEW s \in Text, NEW m \in 1..Len(s) + 1, NEW n \in m - 1..Len(s)
  PROVE  /\ SubSeq(s, m, n) \in Text /\ Len(SubSeq(s, m, n)) = n + 1 - m
         /\ \A k \in 1..n + 1 - m : SubSeq(s, m, n)[k] = s[m + k - 1]
<1> Len(s) \in Nat
  BY DEF Text
<1> QED BY DEF Text

LEMMA FirstLine ==
  ASSUME NEW s \in Text, NEW e \in 1..Len(s) + 1,
         e = Len(s) + 1 \/ s[e] = "NL",
         \A k \in 1..e - 1 : s[k] # "NL"
  PROVE  GetLine(s) = SubSeq(s, 1, e - 1) /\ Behind(s) = SubSeq(s, e + 1, Len(s))
<1> DEFINE I == {i \in DOMAIN s : s[i] = "NL"} \union {Len(s) + 1}
<1>1. Len(s) \in Nat /\ DOMAIN s = 1..Len(s)
  BY DEF Text
<1>2. I \in SUBSET Nat /\ e \in I
  BY <1>1
<1>3. \A i \in I : e <= i
  <2>1. ASSUME NEW i \in I, ~ e <= i PROVE FALSE
    <3>1. i \in 1..e - 1 /\ s[i] = "NL"
      BY <1>1, <2>1
    <3> QED BY <3>1
  <2> QED BY <2>1
<1>4. LineEnd(s) = Min(I)
  BY DEF LineEnd
<1> HIDE DEF I
<1>5. Min(I) \in I /\ \A i \in I : Min(I) <= i
  BY <1>2, FirstOf
<1>6. Min(I) = e
  <2>1. Min(I) \in Nat /\ e \in Nat /\ Min(I) <= e /\ e <= Min(I)
    BY <1>2, <1>3, <1>5
  <2> QED BY <2>1
<1> QED BY <1>4, <1>6 DEF GetLine, Behind

(* The line that ends at e is read, and the next one is next.              *)
LEMMA LineAt ==
  ASSUME NEW t \in Text, NEW i \in 1..Len(t) + 1, NEW line \in Text,
         Len(line) > 0, line[Len(line)] = "NL",
         \A k \in 1..Len(line) - 1 : line[k] # "NL",
         StandsAt(t, i, line)
  PROVE  /\ GetLine(From(t, i)) = SubSeq(line, 1, Len(line) - 1)
         /\ Behind(From(t, i)) = From(t, i + Len(line))
         /\ i + Len(line) \in Starts(t)
<1> DEFINE s == From(t, i)
           n == Len(line)
<1>1. n \in Nat \ {0} /\ Len(t) \in Nat /\ i + n <= Len(t) + 1
  BY DEF StandsAt, Text
<1>2. s \in Text /\ Len(s) = Len(t) + 1 - i
      /\ \A k \in 1..Len(t) + 1 - i : s[k] = t[i + k - 1]
  BY FromIs
<1> HIDE DEF s
<1>3. \A k \in 1..n : s[k] = line[k] /\ t[i + k - 1] = line[k]
  BY <1>1, <1>2 DEF StandsAt
<1>4. GetLine(s) = SubSeq(s, 1, n - 1) /\ Behind(s) = SubSeq(s, n + 1, Len(s))
  <2>1. n \in 1..Len(s) + 1 /\ s[n] = "NL" /\ \A k \in 1..n - 1 : s[k] # "NL"
    <3>1. n \in 1..Len(s) + 1 /\ n \in 1..n
      BY <1>1, <1>2
    <3>2. \A k \in 1..n - 1 : k \in 1..n /\ line[k] # "NL"
      BY <1>1
    <3> QED BY <1>3, <3>1, <3>2
  <2> QED BY <1>2, <2>1, FirstLine
<1>5. SubSeq(s, 1, n - 1) = SubSeq(line, 1, n - 1)
  <2>1. /\ SubSeq(s, 1, n - 1) \in Text /\ Len(SubSeq(s, 1, n - 1)) = n - 1
        /\ SubSeq(line, 1, n - 1) \in Text /\ Len(SubSeq(line, 1, n - 1)) = n - 1
        /\ \A k \in 1..n - 1 : SubSeq(s, 1, n - 1)[k] = s[k]
        /\ \A k \in 1..n - 1 : SubSeq(line, 1, n - 1)[k] = line[k]
    <3>1. n - 1 \in 1 - 1..Len(s) /\ n - 1 \in 1 - 1..Len(line) /\ Len(s) \in Nat
      BY <1>1, <1>2
    <3> HIDE DEF n
    <3>2. /\ SubSeq(s, 1, n - 1) \in Text /\ Len(SubSeq(s, 1, n - 1)) = (n - 1) + 1 - 1
          /\ \A k \in 1..(n - 1) + 1 - 1 : SubSeq(s, 1, n - 1)[k] = s[1 + k - 1]
      <4>1. 1 \in 1..Len(s) + 1
        BY <3>1
      <4> QED BY <1>2, <3>1, <4>1, PartIs
    <3>3. /\ SubSeq(line, 1, n - 1) \in Text
          /\ Len(SubSeq(line, 1, n - 1)) = (n - 1) + 1 - 1
          /\ \A k \in 1..(n - 1) + 1 - 1 : SubSeq(line, 1, n - 1)[k] = line[1 + k - 1]
      BY <1>1, <3>1, PartIs
    <3> QED BY <1>1, <3>2, <3>3
  <2>2. \A k \in 1..n - 1 : SubSeq(s, 1, n - 1)[k] = SubSeq(line, 1, n - 1)[k]
    BY <1>1, <1>3, <2>1
  <2> QED BY <2>1, <2>2, SeqEqual DEF Text
<1>6. SubSeq(s, n + 1, Len(s)) = From(t, i + n)
  <2>1. i + n \in 1..Len(t) + 1
    BY <1>1
  <2>2. /\ From(t, i + n) \in Text /\ Len(From(t, i + n)) = Len(t) + 1 - (i + n)
        /\ \A k \in 1..Len(t) + 1 - (i + n) : From(t, i + n)[k] = t[i + n + k - 1]
    BY <2>1, FromIs
  <2>3. /\ SubSeq(s, n + 1, Len(s)) \in Text /\ Len(SubSeq(s, n + 1, Len(s))) = Len(s) - n
        /\ \A k \in 1..Len(s) - n : SubSeq(s, n + 1, Len(s))[k] = s[n + k]
    <3>1. n + 1 \in 1..Len(s) + 1 /\ Len(s) \in (n + 1) - 1..Len(s) /\ Len(s) \in Nat
      BY <1>1, <1>2
    <3> HIDE DEF n
    <3>2. /\ SubSeq(s, n + 1, Len(s)) \in Text
          /\ Len(SubSeq(s, n + 1, Len(s))) = Len(s) + 1 - (n + 1)
          /\ \A k \in 1..Len(s) + 1 - (n + 1) :
               SubSeq(s, n + 1, Len(s))[k] = s[(n + 1) + k - 1]
      BY <1>2, <3>1, PartIs
    <3>3. Len(s) + 1 - (n + 1) = Len(s) - n
      BY <1>1, <3>1
    <3>4. \A k \in 1..Len(s) - n : (n + 1) + k - 1 = n + k
      BY <1>1, <3>1
    <3>5. \A k \in 1..Len(s) - n : SubSeq(s, n + 1, Len(s))[k] = s[(n + 1) + k - 1]
      BY <3>2, <3>3
    <3> QED BY <3>2, <3>3, <3>4, <3>5
  <2>4. \A k \in 1..Len(s) - n : SubSeq(s, n + 1, Len(s))[k] = From(t, i + n)[k]
    BY <1>1, <1>2, <2>2, <2>3
  <2>5. Len(s) - n = Len(t) + 1 - (i + n)
    BY <1>1, <1>2
  <2> QED BY <2>2, <2>3, <2>4, <2>5, SeqEqual DEF Text
<1>7. i + n \in Starts(t)
  <2>1. i + n \in 1..Len(t) + 1 /\ t[(i + n) - 1] = "NL"
    BY <1>1, <1>3
  <2> QED BY <2>1 DEF Starts
<1> QED BY <1>4, <1>5, <1>6, <1>7 DEF s

(* A text without an end of line is one line, the last. *)
LEMMA LastLine ==
  ASSUME NEW t \in Text, NEW i \in 1..Len(t) + 1,
         \A k \in i..Len(t) : t[k] # "NL"
  PROVE  /\ GetLine(From(t, i)) = From(t, i)
         /\ Behind(From(t, i)) = From(t, Len(t) + 1)
<1> DEFINE s == From(t, i)
<1>1. s \in Text /\ Len(s) = Len(t) + 1 - i
      /\ \A k \in 1..Len(t) + 1 - i : s[k] = t[i + k - 1]
  BY FromIs
<1> HIDE DEF s
<1>2. Len(t) \in Nat /\ Len(s) \in Nat
  BY <1>1 DEF Text
<1>3. \A k \in 1..Len(s) : s[k] # "NL"
  BY <1>1, <1>2
<1>4. GetLine(s) = SubSeq(s, 1, Len(s)) /\ Behind(s) = SubSeq(s, Len(s) + 2, Len(s))
  <2> DEFINE e == Len(s) + 1
  <2>1. e \in 1..Len(s) + 1 /\ e - 1 = Len(s) /\ e + 1 = Len(s) + 2
    BY <1>2
  <2> HIDE DEF e
  <2>2. \A k \in 1..e - 1 : s[k] # "NL"
    BY <1>3, <2>1
  <2>3. GetLine(s) = SubSeq(s, 1, e - 1) /\ Behind(s) = SubSeq(s, e + 1, Len(s))
    BY <1>1, <2>1, <2>2, FirstLine DEF e
  <2> QED BY <2>1, <2>3
<1>5. SubSeq(s, 1, Len(s)) = s /\ SubSeq(s, Len(s) + 2, Len(s)) = <<>>
  BY <1>1, <1>2 DEF Text
<1>6. From(t, Len(t) + 1) = <<>>
  BY <1>2 DEF From, Text
<1> QED BY <1>4, <1>5, <1>6 DEF s

(***************************************************************************)
(* The groups of a line, whole or cut                                      *)
(***************************************************************************)
(* p and q are the last two colons of s. *)
LastColons(s, p, q) ==
    /\ p \in 1..Len(s) /\ q \in 1..Len(s) /\ p < q
    /\ s[p] = ":" /\ s[q] = ":"
    /\ \A k \in p + 1..Len(s) : s[k] = ":" => k = q

LEMMA GroupsAt ==
  ASSUME NEW s \in Text, NEW p, NEW q, LastColons(s, p, q)
  PROVE  /\ Matches(s)
         /\ Groups(s).name = SubSeq(s, 1, p - 1)
         /\ Groups(s).offset = SubSeq(s, p + 1, q - 1)
         /\ Groups(s).crc = SubSeq(s, q + 1, Len(s))
<1>1. Len(s) \in Nat /\ Colons(s) \in SUBSET (1..Len(s))
      /\ \A k \in 1..Len(s) : k \in Colons(s) <=> s[k] = ":"
  BY DEF Colons, Text
<1>2. p \in Colons(s) /\ q \in Colons(s) /\ p < q /\ p \in Nat /\ q \in Nat
      /\ \A k \in Colons(s) : k <= p \/ k = q
  <2>1. ASSUME NEW k \in Colons(s), ~ k <= p PROVE k = q
    <3>1. k \in p + 1..Len(s) /\ s[k] = ":"
      BY <1>1, <2>1 DEF LastColons
    <3> QED BY <3>1 DEF LastColons
  <2> QED BY <1>1, <2>1 DEF LastColons
<1>3. Matches(s)
  BY <1>2 DEF Matches
<1> HIDE DEF Colons, LastColons
<1>4. Max(Colons(s)) = q
  <2>1. Max(Colons(s)) \in Colons(s) /\ q <= Max(Colons(s))
    BY <1>1, <1>2, LastOf
  <2>2. Max(Colons(s)) \in Nat /\ (Max(Colons(s)) <= p \/ Max(Colons(s)) = q)
    BY <1>1, <1>2, <2>1
  <2> QED BY <1>2, <2>1, <2>2
<1>5. Max(Colons(s) \ {q}) = p
  <2> DEFINE J == Colons(s) \ {q}
  <2>1. J \in SUBSET (1..Len(s)) /\ p \in J /\ \A k \in J : k <= p
    BY <1>1, <1>2
  <2> HIDE DEF J
  <2>2. Max(J) \in J /\ p <= Max(J)
    BY <1>1, <2>1, LastOf
  <2>3. Max(J) \in Nat /\ Max(J) <= p
    <3>1. Max(J) \in J /\ Max(J) \in 1..Len(s)
      BY <2>1, <2>2
    <3>2. Max(J) <= p
      BY <2>1, <3>1
    <3> QED BY <1>1, <3>1, <3>2
  <2>4. Max(J) = p
    BY <1>2, <2>2, <2>3
  <2> QED BY <2>4 DEF J
<1>6. Groups(s) = [name |-> SubSeq(s, 1, p - 1),
                   offset |-> SubSeq(s, p + 1, q - 1),
                   crc |-> SubSeq(s, q + 1, Len(s))]
  BY <1>4, <1>5, Zenon DEF Groups
<1>7. /\ Groups(s).name = SubSeq(s, 1, p - 1)
      /\ Groups(s).offset = SubSeq(s, p + 1, q - 1)
      /\ Groups(s).crc = SubSeq(s, q + 1, Len(s))
  <2> DEFINE x == SubSeq(s, 1, p - 1)
             y == SubSeq(s, p + 1, q - 1)
             z == SubSeq(s, q + 1, Len(s))
  <2>1. Groups(s) = [name |-> x, offset |-> y, crc |-> z]
    BY <1>6
  <2> HIDE DEF x, y, z, Groups
  <2>2. Groups(s).name = x /\ Groups(s).offset = y /\ Groups(s).crc = z
    BY <2>1
  <2> QED BY <2>2 DEF x, y, z
<1> QED BY <1>3, <1>7

LEMMA ColonsOfMatch ==
  ASSUME NEW s \in Text, Matches(s)
  PROVE  \E p, q : LastColons(s, p, q)
<1>1. Len(s) \in Nat /\ Colons(s) \in SUBSET (1..Len(s))
      /\ \A k \in 1..Len(s) : k \in Colons(s) <=> s[k] = ":"
  BY DEF Colons, Text
<1>2. PICK i, j \in Colons(s) : i < j
  BY DEF Matches
<1> HIDE DEF Colons
<1> DEFINE q == Max(Colons(s))
           J == Colons(s) \ {q}
           p == Max(J)
<1>3. q \in Colons(s) /\ \A k \in Colons(s) : k <= q
  BY <1>1, <1>2, LastOf
<1> HIDE DEF q
<1>4. J \in SUBSET (1..Len(s)) /\ J # {}
  <2>1. i \in J \/ j \in J
    BY <1>1, <1>2
  <2> QED BY <1>1, <2>1
<1>5. p \in J /\ \A k \in J : k <= p
  <2> HIDE DEF J
  <2> QED BY <1>1, <1>4, LastOf
<1> HIDE DEF p
<1>6. p \in 1..Len(s) /\ q \in 1..Len(s) /\ p # q /\ p <= q /\ s[p] = ":" /\ s[q] = ":"
  BY <1>1, <1>3, <1>5
<1>7. ASSUME NEW k \in p + 1..Len(s), s[k] = ":" PROVE k = q
  <2>1. k \in Colons(s) /\ ~ k <= p
    BY <1>1, <1>6, <1>7
  <2> QED BY <1>5, <2>1
<1>8. LastColons(s, p, q)
  BY <1>6, <1>7 DEF LastColons
<1> QED BY <1>8

(* Behind the second colon, the line of f is a line of f. *)
LEMMA GroupsOfLine ==
  ASSUME NEW f \in Text, NEW e \in Entry,
         NEW n \in Len(f) + Len(Decimal[e.offset]) + 2..Len(Line(f, e)) - 1
  PROVE  LET s == SubSeq(Line(f, e), 1, n)
         IN  /\ Matches(s)
             /\ Groups(s).name = f
             /\ Groups(s).offset = Decimal[e.offset]
             /\ Groups(s).crc = SubSeq(Decimal[e.crc], 1,
                                       n - (Len(f) + Len(Decimal[e.offset]) + 2))
<1> DEFINE line == Line(f, e)
           s == SubSeq(line, 1, n)
           o == Decimal[e.offset]
           c == Decimal[e.crc]
           p == Len(f) + 1
           q == Len(f) + Len(o) + 2
<1>1. e.offset \in Nat /\ e.crc \in Nat
  BY DEF Entry
<1>2. /\ o \in Text /\ Len(o) \in Nat \ {0} /\ c \in Text /\ Len(c) \in Nat \ {0}
      /\ \A i \in 1..Len(o) : o[i] # ":"
      /\ \A i \in 1..Len(c) : c[i] # ":"
  BY <1>1, DecimalText
<1>3. IsLine(line, f, o, c)
  BY LineShape
<1>4. n \in q..Len(line) - 1
  OBVIOUS
<1> HIDE DEF o, c, line
<1>5. /\ line \in Text /\ Len(line) = Len(f) + Len(o) + Len(c) + 3
      /\ \A i \in 1..Len(f) : line[i] = f[i]
      /\ line[p] = ":" /\ line[q] = ":"
      /\ \A i \in 1..Len(o) : line[p + i] = o[i]
      /\ \A i \in 1..Len(c) : line[q + i] = c[i]
  BY <1>3 DEF IsLine
<1>6. Len(f) \in Nat /\ p \in Nat /\ q \in Nat /\ n \in Nat /\ p < q /\ q <= n
      /\ n <= Len(line) /\ n <= q + Len(c) /\ q = p + Len(o) + 1 /\ p = Len(f) + 1
      /\ Len(line) \in Nat
  BY <1>2, <1>4, <1>5 DEF Text
<1> HIDE DEF p, q
<1>7. s \in Text /\ Len(s) = n /\ \A k \in 1..n : s[k] = line[k]
  <2>1. 1 \in 1..Len(line) + 1 /\ n \in 1 - 1..Len(line)
    BY <1>6
  <2>2. s \in Text /\ Len(s) = n + 1 - 1
        /\ \A k \in 1..n + 1 - 1 : s[k] = line[1 + k - 1]
    BY <1>5, <2>1, PartIs
  <2> QED BY <1>6, <2>2
<1> HIDE DEF s
<1>8. LastColons(s, p, q)
  <2>1. p \in 1..Len(s) /\ q \in 1..Len(s) /\ s[p] = ":" /\ s[q] = ":"
    BY <1>5, <1>6, <1>7
  <2>2. ASSUME NEW k \in p + 1..Len(s), s[k] = ":" PROVE k = q
    <3>1. CASE k < q
      <4>1. k - p \in 1..Len(o) /\ p + (k - p) = k
        BY <1>2, <1>6, <1>7, <3>1
      <4>2. line[k] = o[k - p] /\ s[k] = line[k]
        <5>1. line[p + (k - p)] = o[k - p]
          BY <1>5, <4>1
        <5>2. k \in 1..n
          BY <1>6, <1>7
        <5> QED BY <1>7, <4>1, <5>1, <5>2
      <4> QED BY <1>2, <2>2, <4>1, <4>2
    <3>2. CASE k > q
      <4>1. k - q \in 1..Len(c) /\ q + (k - q) = k
        BY <1>2, <1>6, <1>7, <3>2
      <4>2. line[k] = c[k - q] /\ s[k] = line[k]
        BY <1>5, <1>6, <1>7, <4>1
      <4> QED BY <1>2, <2>2, <4>1, <4>2
    <3> QED BY <1>6, <3>1, <3>2
  <2> QED BY <1>6, <2>1, <2>2 DEF LastColons
<1>9. SubSeq(s, 1, p - 1) = f
  <2>1. SubSeq(s, 1, Len(f)) \in Text /\ Len(SubSeq(s, 1, Len(f))) = Len(f)
        /\ \A k \in 1..Len(f) : SubSeq(s, 1, Len(f))[k] = s[k]
    <3>1. 1 \in 1..Len(s) + 1 /\ Len(f) \in 1 - 1..Len(s)
      BY <1>6, <1>7
    <3>2. SubSeq(s, 1, Len(f)) \in Text /\ Len(SubSeq(s, 1, Len(f))) = Len(f) + 1 - 1
          /\ \A k \in 1..Len(f) + 1 - 1 : SubSeq(s, 1, Len(f))[k] = s[1 + k - 1]
      BY <1>7, <3>1, PartIs
    <3> QED BY <1>6, <3>2
  <2>2. \A k \in 1..Len(f) : SubSeq(s, 1, Len(f))[k] = f[k]
    BY <1>5, <1>6, <1>7, <2>1
  <2>3. SubSeq(s, 1, Len(f)) = f
    BY <2>1, <2>2, SeqEqual DEF Text
  <2> QED BY <1>6, <2>3
<1>10. SubSeq(s, p + 1, q - 1) = o
  <2> DEFINE g == SubSeq(s, p + 1, q - 1)
  <2>1. g \in Text /\ Len(g) = (q - 1) + 1 - (p + 1)
        /\ \A k \in 1..(q - 1) + 1 - (p + 1) : g[k] = s[(p + 1) + k - 1]
    <3>1. p + 1 \in 1..Len(s) + 1 /\ q - 1 \in (p + 1) - 1..Len(s)
      BY <1>2, <1>6, <1>7
    <3> QED BY <1>7, <3>1, PartIs
  <2> HIDE DEF g
  <2>2. (q - 1) + 1 - (p + 1) = Len(o)
    BY <1>2, <1>6
  <2>3. ASSUME NEW k \in 1..Len(o) PROVE g[k] = o[k]
    <3>1. (p + 1) + k - 1 = p + k /\ p + k \in 1..n
      BY <1>2, <1>6
    <3>2. g[k] = s[p + k]
      BY <2>1, <2>2, <3>1
    <3> QED BY <1>5, <1>7, <3>1, <3>2
  <2>4. g = o
    BY <1>2, <2>1, <2>2, <2>3, SeqEqual DEF Text
  <2> QED BY <2>4 DEF g
<1>11. SubSeq(s, q + 1, Len(s)) = SubSeq(c, 1, n - q)
  <2> DEFINE g == SubSeq(s, q + 1, n)
             h == SubSeq(c, 1, n - q)
  <2>1. g \in Text /\ Len(g) = n + 1 - (q + 1)
        /\ \A k \in 1..n + 1 - (q + 1) : g[k] = s[(q + 1) + k - 1]
    <3>1. q + 1 \in 1..Len(s) + 1 /\ n \in (q + 1) - 1..Len(s)
      BY <1>6, <1>7
    <3> QED BY <1>7, <3>1, PartIs
  <2>2. h \in Text /\ Len(h) = (n - q) + 1 - 1
        /\ \A k \in 1..(n - q) + 1 - 1 : h[k] = c[1 + k - 1]
    <3>1. 1 \in 1..Len(c) + 1 /\ n - q \in 1 - 1..Len(c)
      BY <1>2, <1>6
    <3> QED BY <1>2, <3>1, PartIs
  <2> HIDE DEF g, h
  <2>3. n + 1 - (q + 1) = n - q /\ (n - q) + 1 - 1 = n - q
    BY <1>6
  <2>4. ASSUME NEW k \in 1..n - q PROVE g[k] = h[k]
    <3>1. (q + 1) + k - 1 = q + k /\ q + k \in 1..n /\ 1 + k - 1 = k /\ k \in 1..Len(c)
      BY <1>2, <1>6
    <3>2. g[k] = s[q + k] /\ h[k] = c[k]
      BY <2>1, <2>2, <2>3, <3>1
    <3> QED BY <1>5, <1>7, <3>1, <3>2
  <2>5. g = h
    BY <2>1, <2>2, <2>3, <2>4, SeqEqual DEF Text
  <2> QED BY <1>7, <2>5 DEF g, h
<1>12. /\ Matches(s) /\ Groups(s).name = f /\ Groups(s).offset = o
       /\ Groups(s).crc = SubSeq(c, 1, n - q)
  BY <1>7, <1>8, <1>9, <1>10, <1>11, GroupsAt
<1> QED BY <1>12 DEF s, o, c, q, line

LEMMA Numeric ==
  ASSUME NEW n \in Nat, NEW k \in 1..Len(Decimal[n])
  PROVE  IsNumber(SubSeq(Decimal[n], 1, k)) /\ IsNumber(Decimal[n])
<1> DEFINE d == Decimal[n]
           s == SubSeq(d, 1, k)
<1>1. d \in Seq(Digit) /\ Len(d) > 0
  BY DecimalType
<1> HIDE DEF d
<1>2. s \in Seq(Digit) /\ Len(s) = k /\ k > 0
  BY <1>1 DEF d
<1> HIDE DEF s
<1>3. Range(d) \subseteq Digit /\ Range(s) \subseteq Digit
  BY <1>1, <1>2 DEF Range
<1>4. d # <<>> /\ s # <<>>
  BY <1>1, <1>2
<1>5. IsNumber(s) /\ IsNumber(d)
  BY <1>3, <1>4, Zenon DEF IsNumber
<1> QED BY <1>5 DEF s, d

LEMMA NameIs ==
  ASSUME NEW f \in Name
  PROVE  f \in Text /\ Len(f) \in Nat /\ \A i \in 1..Len(f) : f[i] # "NL"
<1>1. f \in Text /\ "NL" \notin Range(f)
  BY NamesAssumption
<1>2. DOMAIN f = 1..Len(f) /\ Len(f) \in Nat
  BY <1>1 DEF Text
<1> QED BY <1>1, <1>2 DEF Range

(* A line ends at its only end of line. *)
LEMMA LineEnds ==
  ASSUME NEW f \in Name, NEW e \in Entry
  PROVE  /\ Line(f, e) \in Text /\ Len(Line(f, e)) \in Nat \ {0}
         /\ Line(f, e)[Len(Line(f, e))] = "NL"
         /\ \A k \in 1..Len(Line(f, e)) - 1 : Line(f, e)[k] # "NL"
<1> DEFINE line == Line(f, e)
           o == Decimal[e.offset]
           c == Decimal[e.crc]
           a == Len(f)
           q == Len(f) + Len(o) + 2
<1>1. f \in Text /\ a \in Nat /\ \A i \in 1..a : f[i] # "NL"
  BY NameIs
<1>2. IsLine(line, f, o, c)
  BY <1>1, LineShape
<1>3. /\ o \in Text /\ Len(o) \in Nat /\ c \in Text /\ Len(c) \in Nat
      /\ \A i \in 1..Len(o) : o[i] # "NL"
      /\ \A i \in 1..Len(c) : c[i] # "NL"
  BY DecimalText DEF Entry
<1> HIDE DEF line, o, c
<1>4. /\ line \in Text /\ Len(line) = q + Len(c) + 1 /\ q = a + Len(o) + 2
      /\ \A i \in 1..a : line[i] = f[i]
      /\ line[a + 1] = ":" /\ line[q] = ":" /\ line[Len(line)] = "NL"
      /\ \A i \in 1..Len(o) : line[a + 1 + i] = o[i]
      /\ \A i \in 1..Len(c) : line[q + i] = c[i]
  BY <1>1, <1>2, <1>3 DEF IsLine
<1>5. q \in Nat
  BY <1>1, <1>3
<1> HIDE DEF a, q
<1>6. ASSUME NEW k \in 1..Len(line) - 1 PROVE line[k] # "NL"
  <2>1. CASE k <= a
    <3>1. k \in 1..a
      BY <1>1, <1>4, <2>1
    <3> QED BY <1>1, <1>4, <3>1
  <2>2. CASE k = a + 1 \/ k = q
    BY <1>4, <2>2
  <2>3. CASE k > a + 1 /\ k < q
    <3>1. k - (a + 1) \in 1..Len(o) /\ a + 1 + (k - (a + 1)) = k
      BY <1>1, <1>3, <1>4, <1>5, <2>3
    <3>2. line[a + 1 + (k - (a + 1))] = o[k - (a + 1)]
      BY <1>4, <3>1
    <3> QED BY <1>3, <3>1, <3>2
  <2>4. CASE k > q
    <3>1. k - q \in 1..Len(c) /\ q + (k - q) = k
      BY <1>1, <1>3, <1>4, <1>5, <2>4
    <3>2. line[q + (k - q)] = c[k - q]
      BY <1>4, <3>1
    <3> QED BY <1>3, <3>1, <3>2
  <2>5. k <= a \/ k = a + 1 \/ (k > a + 1 /\ k < q) \/ k = q \/ k > q
    BY <1>1, <1>5
  <2> QED BY <2>1, <2>2, <2>3, <2>4, <2>5
<1>7. Len(line) \in Nat \ {0}
  BY <1>3, <1>4, <1>5
<1> QED BY <1>4, <1>6, <1>7 DEF line

(* A line that casts, whole or cut, is one of its own name: no name goes   *)
(* on behind another with a number.                                        *)
LEMMA CastsAsOwn ==
  ASSUME NEW f \in Name, NEW e \in Entry, NEW n \in 0..Len(Line(f, e)) - 1,
         Matches(SubSeq(Line(f, e), 1, n)),
         Groups(SubSeq(Line(f, e), 1, n)).name \in Name,
         Casts(Groups(SubSeq(Line(f, e), 1, n)))
  PROVE  n > Len(f) + Len(Decimal[e.offset]) + 2
<1> DEFINE line == Line(f, e)
           s == SubSeq(line, 1, n)
           o == Decimal[e.offset]
           c == Decimal[e.crc]
           a == Len(f)
           h == f \o <<":">>
           g == Groups(s).name
<1>1. f \in Text /\ a \in Nat
  BY NameIs
<1>2. /\ o \in Text /\ Len(o) \in Nat /\ c \in Text /\ Len(c) \in Nat
      /\ \A i \in 1..Len(o) : o[i] # ":"
  BY DecimalText DEF Entry
<1>3. IsLine(line, f, o, c)
  BY <1>1, LineShape
<1>4. Matches(s) /\ g \in Name /\ IsNumber(Groups(s).offset) /\ IsNumber(Groups(s).crc)
  BY DEF Casts
<1>5. line \in Text /\ Len(line) \in Nat \ {0} /\ n \in Nat /\ n <= Len(line)
  BY LineEnds
<1>6. SUFFICES ASSUME ~ n > a + Len(o) + 2 PROVE FALSE
  OBVIOUS
<1>7. CASE n = a + Len(o) + 2
  <2>1. n \in Len(f) + Len(Decimal[e.offset]) + 2..Len(Line(f, e)) - 1
    BY <1>1, <1>2, <1>7
  <2>2. Groups(s).crc = SubSeq(c, 1, n - (Len(f) + Len(o) + 2))
    BY <1>1, <2>1, GroupsOfLine
  <2>3. n - (Len(f) + Len(o) + 2) = 0
    BY <1>1, <1>2, <1>7
  <2>4. SubSeq(c, 1, 0) = <<>>
    BY <1>2 DEF Text
  <2>5. Groups(s).crc = <<>>
    BY <2>2, <2>3, <2>4
  <2> QED BY <1>4, <2>5, Zenon DEF IsNumber
<1>8. CASE n # a + Len(o) + 2
  <2> HIDE DEF line, o, c
  <2>1. n < a + Len(o) + 2
    BY <1>1, <1>2, <1>5, <1>6, <1>8
  <2>2. s \in Text /\ Len(s) = n /\ \A k \in 1..n : s[k] = line[k]
    <3>1. 1 \in 1..Len(line) + 1 /\ n \in 1 - 1..Len(line)
      BY <1>5
    <3>2. s \in Text /\ Len(s) = n + 1 - 1
          /\ \A k \in 1..n + 1 - 1 : s[k] = line[1 + k - 1]
      BY <1>5, <3>1, PartIs
    <3> QED BY <1>5, <3>2
  <2> HIDE DEF s
  <2>3. PICK p, q : LastColons(s, p, q)
    BY <1>4, <2>2, ColonsOfMatch
  <2>4. p \in 1..n /\ q \in 1..n /\ p < q /\ s[p] = ":" /\ s[q] = ":"
    BY <2>2, <2>3 DEF LastColons
  <2>5. /\ \A i \in 1..a : line[i] = f[i]
        /\ line[a + 1] = ":"
        /\ \A i \in 1..Len(o) : line[a + 1 + i] = o[i]
    BY <1>3 DEF IsLine
  <2>6. q <= a + 1
    <3>1. SUFFICES ASSUME q > a + 1 PROVE FALSE
      BY <1>1, <2>4
    <3>2. q - (a + 1) \in 1..Len(o) /\ a + 1 + (q - (a + 1)) = q
      BY <1>1, <1>2, <1>5, <2>1, <2>4, <3>1
    <3>3. line[a + 1 + (q - (a + 1))] = o[q - (a + 1)]
      BY <2>5, <3>2
    <3> QED BY <1>2, <2>2, <2>4, <3>2, <3>3
  <2>7. h \in Text /\ Len(h) = a + 1 /\ h[a + 1] = ":" /\ \A i \in 1..a : h[i] = f[i]
    BY <1>1, OneMore, Characters
  <2> HIDE DEF h
  <2>8. \A k \in 1..q : s[k] = h[k]
    <3>1. ASSUME NEW k \in 1..q PROVE s[k] = h[k]
      <4>1. k \in 1..n /\ (k \in 1..a \/ k = a + 1)
        BY <1>1, <1>5, <2>4, <2>6
      <4> QED BY <2>2, <2>5, <2>7, <4>1
    <3> QED BY <3>1
  <2>9. p \in Colons(h) /\ q \in Colons(h)
    <3>1. DOMAIN h = 1..a + 1
      BY <1>1, <2>7 DEF Text
    <3>2. p \in 1..a + 1 /\ q \in 1..a + 1 /\ h[p] = ":" /\ h[q] = ":"
      BY <1>1, <1>5, <2>4, <2>6, <2>8
    <3> QED BY <3>1, <3>2 DEF Colons
  <2>10. ASSUME NEW i \in 1..q, NEW j \in i - 1..q - 1
         PROVE  SubSeq(s, i, j) = SubSeq(h, i, j)
    <3>1. i \in 1..Len(s) + 1 /\ j \in i - 1..Len(s) /\ i \in 1..Len(h) + 1 /\ j \in i - 1..Len(h)
      BY <1>1, <1>5, <2>2, <2>4, <2>6, <2>7
    <3>2. SubSeq(s, i, j) \in Text /\ Len(SubSeq(s, i, j)) = j + 1 - i
          /\ \A k \in 1..j + 1 - i : SubSeq(s, i, j)[k] = s[i + k - 1]
      BY <2>2, <3>1, PartIs
    <3>3. SubSeq(h, i, j) \in Text /\ Len(SubSeq(h, i, j)) = j + 1 - i
          /\ \A k \in 1..j + 1 - i : SubSeq(h, i, j)[k] = h[i + k - 1]
      BY <2>7, <3>1, PartIs
    <3>4. ASSUME NEW k \in 1..j + 1 - i PROVE SubSeq(s, i, j)[k] = SubSeq(h, i, j)[k]
      <4>1. i + k - 1 \in 1..q
        BY <2>4
      <4> QED BY <2>8, <3>2, <3>3, <4>1
    <3> QED BY <3>2, <3>3, <3>4, SeqEqual DEF Text
  <2>11. SubSeq(s, 1, p - 1) = SubSeq(h, 1, p - 1)
    <3>1. 1 \in 1..q /\ p - 1 \in 1 - 1..q - 1
      BY <1>5, <2>4
    <3> QED BY <2>10, <3>1
  <2>12. SubSeq(s, p + 1, q - 1) = SubSeq(h, p + 1, q - 1)
    <3>1. p + 1 \in 1..q /\ q - 1 \in (p + 1) - 1..q - 1
      BY <1>5, <2>4
    <3> QED BY <2>10, <3>1
  <2>13. g = SubSeq(s, 1, p - 1) /\ Groups(s).offset = SubSeq(s, p + 1, q - 1)
    BY <2>2, <2>3, GroupsAt
  <2>14. SubSeq(h, 1, p - 1) = g /\ IsNumber(SubSeq(h, p + 1, q - 1))
    BY <1>4, <2>11, <2>12, <2>13
  <2> HIDE DEF g
  <2>15. GoesOn(f, g)
    BY <2>4, <2>9, <2>14 DEF GoesOn, h
  <2> QED BY <1>4, <2>15, NamesAssumption
<1> QED BY <1>7, <1>8

(* What a line that has digits of the checksum is read as. *)
Read(s) == [offset |-> Number(Groups(s).offset), crc |-> Number(Groups(s).crc)]

LEMMA ReadsAsWritten ==
  ASSUME NEW f \in Name, NEW e \in Entry,
         NEW n \in Len(f) + Len(Decimal[e.offset]) + 3..Len(Line(f, e)) - 1
  PROVE  LET s == SubSeq(Line(f, e), 1, n)
         IN  /\ Matches(s) /\ Groups(s).name = f /\ Casts(Groups(s))
             /\ Read(s) \in Entry
             /\ \A H \in SUBSET Contents : Vouched(H, e) => Vouched(H, Read(s))
             /\ n = Len(Line(f, e)) - 1 => Read(s) = e
<1> DEFINE line == Line(f, e)
           s == SubSeq(line, 1, n)
           o == Decimal[e.offset]
           c == Decimal[e.crc]
           q == Len(f) + Len(o) + 2
           k == n - q
<1>1. f \in Text /\ Len(f) \in Nat
  BY NameIs
<1>2. e.offset \in Nat /\ e.crc \in Nat
  BY DEF Entry
<1>3. o \in Text /\ Len(o) \in Nat \ {0} /\ c \in Text /\ Len(c) \in Nat \ {0}
  BY <1>2, DecimalText
<1>4. Len(line) = q + Len(c) + 1 /\ n \in q + 1..Len(line) - 1 /\ q \in Nat
  <2>1. IsLine(line, f, o, c)
    BY <1>1, LineShape
  <2>2. Len(line) = Len(f) + Len(o) + Len(c) + 3
    BY <2>1 DEF IsLine
  <2>3. n \in Len(f) + Len(o) + 3..Len(line) - 1
    OBVIOUS
  <2> HIDE DEF line, o, c
  <2> QED BY <1>1, <1>3, <2>2, <2>3
<1>5. n \in Len(f) + Len(Decimal[e.offset]) + 2..Len(Line(f, e)) - 1
  <2>1. n \in q..Len(line) - 1
    <3> HIDE DEF line, q
    <3> QED BY <1>4
  <2> QED BY <2>1
<1>6. /\ Matches(s) /\ Groups(s).name = f /\ Groups(s).offset = o
      /\ Groups(s).crc = SubSeq(c, 1, k)
  BY <1>1, <1>5, GroupsOfLine
<1>7. k \in 1..Len(c) /\ (n = Len(line) - 1 => k = Len(c))
  <2> HIDE DEF line, q, c
  <2> QED BY <1>3, <1>4
<1> HIDE DEF line, s, k
<1>8. Casts(Groups(s))
  <2>1. IsNumber(SubSeq(c, 1, k))
    BY <1>2, <1>7, Numeric
  <2>2. IsNumber(o)
    <3>1. 1 \in 1..Len(o)
      BY <1>3
    <3> QED BY <1>2, <3>1, Numeric
  <2> QED BY <1>6, <2>1, <2>2 DEF Casts
<1> DEFINE m == Number(SubSeq(c, 1, k))
<1>9. Number(Groups(s).offset) = e.offset /\ Number(Groups(s).crc) = m
  BY <1>2, <1>6, NumberOfDecimal
<1>10. \A l \in Nat : IsPrefix(c, Decimal[l]) =>
         m \in Nat /\ IsPrefix(Decimal[m], Decimal[l])
  BY <1>2, <1>7, CutNumber
<1>11. m \in Nat
  <2>1. IsPrefix(c, Decimal[e.crc])
    BY <1>3 DEF IsPrefix, Text
  <2> QED BY <1>2, <1>10, <2>1
<1> HIDE DEF m
<1>12. Read(s) = [offset |-> e.offset, crc |-> m]
  BY <1>9, Zenon DEF Read
<1>13. Read(s) \in Entry /\ Read(s).offset = e.offset /\ Read(s).crc = m
  BY <1>2, <1>11, <1>12 DEF Entry
<1>14. ASSUME NEW H \in SUBSET Contents, Vouched(H, e)
       PROVE  Vouched(H, Read(s))
  <2>1. CASE e.offset = 0
    BY <1>13, <2>1 DEF Vouched
  <2>2. CASE \E h \in H : Noted(e, h)
    <3>1. PICK h \in H : Noted(e, h)
      BY <2>2
    <3>2. e.offset = Len(h) /\ IsPrefix(c, Decimal[Checksum(h)]) /\ Checksum(h) \in Nat
      BY <3>1, ContentsAssumption DEF Noted
    <3>3. IsPrefix(Decimal[m], Decimal[Checksum(h)])
      BY <1>10, <3>2
    <3>4. Noted(Read(s), h)
      BY <1>13, <3>2, <3>3, Zenon DEF Noted
    <3> QED BY <3>4 DEF Vouched
  <2> QED BY <1>14, <2>1, <2>2 DEF Vouched
<1>15. ASSUME n = Len(line) - 1 PROVE Read(s) = e
  <2>1. SubSeq(c, 1, k) = c
    BY <1>3, <1>7, <1>15 DEF Text
  <2>2. m = e.crc
    BY <1>2, <2>1, NumberOfDecimal DEF m
  <2> QED BY <1>12, <2>2 DEF Entry
<1> QED BY <1>6, <1>8, <1>13, <1>14, <1>15 DEF s, line

(* A line cut short that does not cast ends behind its second colon, or    *)
(* its name has colons.                                                    *)
LEMMA FailsAsCut ==
  ASSUME NEW f \in Name, NEW e \in Entry, NEW n \in 0..Len(Line(f, e)) - 1,
         Matches(SubSeq(Line(f, e), 1, n)),
         ~ Casts(Groups(SubSeq(Line(f, e), 1, n)))
  PROVE  \/ ":" \in Range(f)
         \/ SubSeq(Line(f, e), 1, n) = f \o <<":">> \o Decimal[e.offset] \o <<":">>
<1> DEFINE line == Line(f, e)
           s == SubSeq(line, 1, n)
           o == Decimal[e.offset]
           c == Decimal[e.crc]
           a == Len(f)
           b == Len(o)
<1>1. f \in Text /\ a \in Nat /\ DOMAIN f = 1..a
  BY NameIs DEF Text
<1>2. /\ o \in Text /\ b \in Nat /\ c \in Text /\ Len(c) \in Nat
      /\ \A i \in 1..b : o[i] # ":"
  BY DecimalText DEF Entry
<1>3. IsLine(line, f, o, c)
  BY <1>1, LineShape
<1>4. line \in Text /\ Len(line) \in Nat \ {0} /\ n \in Nat /\ n <= Len(line)
  BY LineEnds
<1>5. ~ n > a + b + 2
  <2>1. SUFFICES ASSUME n > a + b + 2 PROVE FALSE
    OBVIOUS
  <2>2. n \in Len(f) + Len(Decimal[e.offset]) + 3..Len(Line(f, e)) - 1
    BY <1>1, <1>2, <1>4, <2>1
  <2> QED BY <2>2, ReadsAsWritten
<1>6. SUFFICES ASSUME ":" \notin Range(f) PROVE s = f \o <<":">> \o o \o <<":">>
  OBVIOUS
<1> HIDE DEF line, o, c
<1>7. s \in Text /\ Len(s) = n /\ \A k \in 1..n : s[k] = line[k]
  <2>1. 1 \in 1..Len(line) + 1 /\ n \in 1 - 1..Len(line)
    BY <1>4
  <2>2. s \in Text /\ Len(s) = n + 1 - 1
        /\ \A k \in 1..n + 1 - 1 : s[k] = line[1 + k - 1]
    BY <1>4, <2>1, PartIs
  <2> QED BY <1>4, <2>2
<1>8. Matches(s)
  BY DEF line
<1> HIDE DEF s
<1>9. PICK p, q : LastColons(s, p, q)
  BY <1>7, <1>8, ColonsOfMatch
<1>10. p \in 1..n /\ q \in 1..n /\ p < q /\ s[p] = ":" /\ s[q] = ":"
  BY <1>7, <1>9 DEF LastColons
<1>11. /\ \A i \in 1..a : line[i] = f[i]
       /\ line[a + 1] = ":" /\ line[a + b + 2] = ":"
       /\ \A i \in 1..b : line[a + 1 + i] = o[i]
  BY <1>3 DEF IsLine
<1>12. ASSUME NEW i \in 1..n, s[i] = ":" PROVE i = a + 1 \/ i = a + b + 2
  <2>1. CASE i <= a
    <3>1. i \in 1..a /\ s[i] = f[i]
      BY <1>1, <1>4, <1>7, <1>11, <2>1
    <3> QED BY <1>1, <1>6, <1>12, <3>1 DEF Range
  <2>2. CASE i > a + 1 /\ i < a + b + 2
    <3>1. i - (a + 1) \in 1..b /\ a + 1 + (i - (a + 1)) = i
      BY <1>1, <1>2, <1>4, <2>2
    <3>2. line[a + 1 + (i - (a + 1))] = o[i - (a + 1)]
      BY <1>11, <3>1
    <3> QED BY <1>2, <1>7, <1>12, <3>1, <3>2
  <2> QED BY <1>1, <1>2, <1>4, <1>5, <2>1, <2>2
<1>13. n = a + b + 2
  <2>1. (p = a + 1 \/ p = a + b + 2) /\ (q = a + 1 \/ q = a + b + 2)
    BY <1>10, <1>12
  <2>2. q = a + b + 2
    BY <1>1, <1>2, <1>10, <2>1
  <2> QED BY <1>1, <1>2, <1>4, <1>5, <1>10, <2>2
<1> DEFINE p1 == f \o <<":">>
           p2 == p1 \o o
           p3 == p2 \o <<":">>
<1>14. /\ p1 \in Text /\ Len(p1) = a + 1
       /\ \A i \in 1..a : p1[i] = f[i]
       /\ p1[a + 1] = ":"
  BY <1>1, OneMore, Characters
<1> HIDE DEF p1
<1>15. /\ p2 \in Text /\ Len(p2) = Len(p1) + b
       /\ \A i \in 1..Len(p1) : p2[i] = p1[i]
       /\ \A i \in 1..b : p2[Len(p1) + i] = o[i]
  BY <1>2, <1>14, Joined
<1> HIDE DEF p2
<1>16. /\ p3 \in Text /\ Len(p3) = Len(p2) + 1
       /\ \A i \in 1..Len(p2) : p3[i] = p2[i]
       /\ p3[Len(p2) + 1] = ":"
  BY <1>15, OneMore, Characters
<1> HIDE DEF p3
<1>17. Len(p1) = a + 1 /\ Len(p2) = a + 1 + b /\ Len(p3) = n
  BY <1>1, <1>2, <1>13, <1>14, <1>15, <1>16
<1>18. ASSUME NEW i \in 1..n PROVE s[i] = p3[i]
  <2>1. CASE i \in 1..a
    BY <1>1, <1>2, <1>7, <1>11, <1>14, <1>15, <1>16, <1>17, <2>1
  <2>2. CASE i = a + 1
    BY <1>1, <1>2, <1>7, <1>11, <1>14, <1>15, <1>16, <1>17, <2>2
  <2>3. CASE i > a + 1 /\ i < a + b + 2
    <3>1. i - (a + 1) \in 1..b /\ a + 1 + (i - (a + 1)) = i
      BY <1>1, <1>2, <1>4, <2>3
    <3>2. line[a + 1 + (i - (a + 1))] = o[i - (a + 1)]
          /\ p2[a + 1 + (i - (a + 1))] = o[i - (a + 1)]
      BY <1>11, <1>15, <1>17, <3>1
    <3>3. p3[i] = p2[i]
      BY <1>1, <1>2, <1>16, <1>17, <2>3
    <3> QED BY <1>7, <3>1, <3>2, <3>3
  <2>4. CASE i = a + b + 2
    <3>1. Len(p2) + 1 = i
      BY <1>1, <1>2, <1>17, <2>4
    <3> QED BY <1>7, <1>11, <1>16, <2>4, <3>1
  <2> QED BY <1>1, <1>2, <1>13, <2>1, <2>2, <2>3, <2>4
<1>19. s = p3
  BY <1>7, <1>16, <1>17, <1>18, SeqEqual DEF Text
<1> QED BY <1>19 DEF p1, p2, p3

(***************************************************************************)
(* The state file grows                                                    *)
(***************************************************************************)
LEMMA LineAdded ==
  ASSUME NEW t \in Text, Len(t) + 1 \in Starts(t),
         NEW line \in Text, Len(line) > 0, line[Len(line)] = "NL",
         \A k \in 1..Len(line) - 1 : line[k] # "NL"
  PROVE  LET u == t \o line
         IN  /\ u \in Text
             /\ StandsAt(u, Len(t) + 1, line) /\ Len(t) + 1 \in Starts(u)
             /\ Len(u) + 1 \in Starts(u)
             /\ \A i \in Starts(u) \ {Len(u) + 1} : i \in Starts(t)
             /\ \A i \in Starts(t), l \in Text :
                  StandsAt(t, i, l) => StandsAt(u, i, l) /\ i \in Starts(u)
<1> DEFINE u == t \o line
           a == Len(t)
           n == Len(line)
<1>1. a \in Nat /\ n \in Nat \ {0}
  BY DEF Text
<1>2. /\ u \in Text /\ Len(u) = a + n
      /\ \A i \in 1..a : u[i] = t[i]
      /\ \A i \in 1..n : u[a + i] = line[i]
  BY Joined
<1> HIDE DEF u
<1>3. \A i : i \in Starts(t) <=> i \in 1..a + 1 /\ (i = 1 \/ t[i - 1] = "NL")
  BY DEF Starts
<1>4. \A i : i \in Starts(u) <=> i \in 1..a + n + 1 /\ (i = 1 \/ u[i - 1] = "NL")
  BY <1>2 DEF Starts
<1>5. \A i \in Starts(t) : i \in Starts(u)
  <2>1. ASSUME NEW i \in Starts(t) PROVE i \in Starts(u)
    <3>1. i \in 1..a + 1 /\ (i = 1 \/ t[i - 1] = "NL")
      BY <1>3
    <3>2. i \in 1..a + n + 1 /\ (i # 1 => i - 1 \in 1..a)
      BY <1>1, <3>1
    <3>3. i # 1 => u[i - 1] = "NL"
      BY <1>2, <3>1, <3>2
    <3> QED BY <1>4, <3>2, <3>3
  <2> QED BY <2>1
<1> HIDE DEF a, n
<1>6. StandsAt(u, a + 1, line)
  <2>1. ASSUME NEW k \in 1..n PROVE u[(a + 1) + k - 1] = line[k]
    <3>1. (a + 1) + k - 1 = a + k
      BY <1>1
    <3> QED BY <1>2, <3>1
  <2>2. (a + 1) + n <= Len(u) + 1
    BY <1>1, <1>2
  <2> QED BY <2>1, <2>2 DEF StandsAt, n
<1>7. Len(u) + 1 \in Starts(u)
  <2>1. u[a + n] = "NL"
    BY <1>1, <1>2 DEF n
  <2>2. (Len(u) + 1) - 1 = a + n /\ Len(u) + 1 \in 1..a + n + 1
    BY <1>1, <1>2
  <2> QED BY <1>4, <2>1, <2>2
<1>8. ASSUME NEW i \in Starts(u), i # Len(u) + 1 PROVE i \in Starts(t)
  <2>1. i \in 1..a + n /\ (i = 1 \/ u[i - 1] = "NL")
    <3>1. i \in 1..a + n + 1 /\ (i = 1 \/ u[i - 1] = "NL") /\ i # a + n + 1
      BY <1>2, <1>4, <1>8
    <3> QED BY <1>1, <3>1
  <2>2. CASE i <= a + 1
    <3>1. i # 1 => i - 1 \in 1..a
      BY <1>1, <2>1, <2>2
    <3>2. i \in 1..a + 1
      BY <1>1, <2>1, <2>2
    <3> QED BY <1>2, <1>3, <2>1, <3>1, <3>2
  <2>3. CASE i > a + 1
    <3>1. i - 1 - a \in 1..n - 1 /\ a + (i - 1 - a) = i - 1 /\ i # 1
      BY <1>1, <2>1, <2>3
    <3>2. u[i - 1] = line[i - 1 - a] /\ line[i - 1 - a] # "NL"
      <4>1. i - 1 - a \in 1..n
        BY <1>1, <3>1
      <4>2. u[a + (i - 1 - a)] = line[i - 1 - a]
        BY <1>2, <4>1
      <4> QED BY <3>1, <4>2 DEF n
    <3> QED BY <2>1, <3>1, <3>2
  <2> QED BY <1>1, <2>1, <2>2, <2>3
<1>9. ASSUME NEW i \in Starts(t), NEW l \in Text, StandsAt(t, i, l)
      PROVE  StandsAt(u, i, l)
  <2>1. i \in 1..a + 1 /\ i + Len(l) <= a + 1 /\ Len(l) \in Nat
        /\ \A k \in 1..Len(l) : t[i + k - 1] = l[k]
    BY <1>3, <1>9 DEF StandsAt, a, Text
  <2>2. \A k \in 1..Len(l) : i + k - 1 \in 1..a
    BY <1>1, <2>1
  <2>3. \A k \in 1..Len(l) : u[i + k - 1] = l[k]
    BY <1>2, <2>1, <2>2
  <2>4. i + Len(l) <= Len(u) + 1
    BY <1>1, <1>2, <2>1
  <2> QED BY <2>3, <2>4 DEF StandsAt
<1> QED BY <1>2, <1>3, <1>5, <1>6, <1>7, <1>8, <1>9 DEF u, a

LEMMA CutAdded ==
  ASSUME NEW t \in Text, Len(t) + 1 \in Starts(t),
         NEW line \in Text, \A k \in 1..Len(line) - 1 : line[k] # "NL",
         NEW n \in 0..Len(line) - 1
  PROVE  LET u == t \o SubSeq(line, 1, n)
         IN  /\ u \in Text
             /\ n # 0 => CutAt(u, Len(t) + 1, line)
             /\ \A i \in Starts(u) \ {Len(u) + 1} : i \in Starts(t) /\ (i = Len(t) + 1 => n # 0)
             /\ \A i \in Starts(t), l \in Text :
                  StandsAt(t, i, l) => StandsAt(u, i, l) /\ i \in Starts(u)
<1> DEFINE p == SubSeq(line, 1, n)
           u == t \o p
           a == Len(t)
<1>1. a \in Nat /\ n \in Nat /\ Len(line) \in Nat /\ n < Len(line)
  BY DEF Text
<1>2. p \in Text /\ Len(p) = n /\ \A k \in 1..n : p[k] = line[k]
  <2>1. 1 \in 1..Len(line) + 1 /\ n \in 1 - 1..Len(line)
    BY <1>1
  <2>2. p \in Text /\ Len(p) = n + 1 - 1 /\ \A k \in 1..n + 1 - 1 : p[k] = line[1 + k - 1]
    BY <2>1, PartIs
  <2> QED BY <1>1, <2>2
<1> HIDE DEF p
<1>3. /\ u \in Text /\ Len(u) = a + n
      /\ \A i \in 1..a : u[i] = t[i]
      /\ \A i \in 1..n : u[a + i] = line[i]
  <2>1. /\ u \in Text /\ Len(u) = a + Len(p)
        /\ \A i \in 1..a : u[i] = t[i]
        /\ \A i \in 1..Len(p) : u[a + i] = p[i]
    BY <1>2, Joined
  <2> QED BY <1>2, <2>1
<1> HIDE DEF u
<1>4. \A i : i \in Starts(t) <=> i \in 1..a + 1 /\ (i = 1 \/ t[i - 1] = "NL")
  BY DEF Starts
<1>5. \A i : i \in Starts(u) <=> i \in 1..a + n + 1 /\ (i = 1 \/ u[i - 1] = "NL")
  BY <1>3 DEF Starts
<1>6. \A i \in Starts(t) : i \in Starts(u)
  <2>1. ASSUME NEW i \in Starts(t) PROVE i \in Starts(u)
    <3>1. i \in 1..a + 1 /\ (i = 1 \/ t[i - 1] = "NL")
      BY <1>4
    <3>2. i \in 1..a + n + 1 /\ (i # 1 => i - 1 \in 1..a)
      BY <1>1, <3>1
    <3>3. i # 1 => u[i - 1] = "NL"
      BY <1>3, <3>1, <3>2
    <3> QED BY <1>5, <3>2, <3>3
  <2> QED BY <2>1
<1> HIDE DEF a
<1>7. CutAt(u, a + 1, line)
  <2>1. ASSUME NEW k \in 1..n PROVE u[(a + 1) + k - 1] = line[k]
    <3>1. (a + 1) + k - 1 = a + k
      BY <1>1
    <3> QED BY <1>3, <3>1
  <2>2. Len(u) + 1 < (a + 1) + Len(line) /\ Len(u) + 1 - (a + 1) = n
    BY <1>1, <1>3
  <2> QED BY <2>1, <2>2 DEF CutAt
<1>8. ASSUME NEW i \in Starts(u), i # Len(u) + 1
      PROVE  i \in Starts(t) /\ (i = a + 1 => n # 0)
  <2>1. i \in 1..a + n /\ (i = 1 \/ u[i - 1] = "NL")
    BY <1>1, <1>3, <1>5, <1>8
  <2>2. CASE i <= a + 1
    <3>1. i # 1 => i - 1 \in 1..a
      BY <1>1, <2>1, <2>2
    <3>2. i \in 1..a + 1 /\ (i = a + 1 => n # 0)
      BY <1>1, <2>1, <2>2
    <3> QED BY <1>3, <1>4, <2>1, <3>1, <3>2
  <2>3. CASE i > a + 1
    <3>1. i - 1 - a \in 1..n /\ a + (i - 1 - a) = i - 1 /\ i # 1
          /\ i - 1 - a \in 1..Len(line) - 1
      BY <1>1, <2>1, <2>3
    <3>2. u[a + (i - 1 - a)] = line[i - 1 - a] /\ line[i - 1 - a] # "NL"
      BY <1>3, <3>1
    <3> QED BY <2>1, <3>1, <3>2
  <2> QED BY <1>1, <2>1, <2>2, <2>3
<1>9. ASSUME NEW i \in Starts(t), NEW l \in Text, StandsAt(t, i, l)
      PROVE  StandsAt(u, i, l)
  <2>1. i \in 1..a + 1 /\ i + Len(l) <= a + 1 /\ Len(l) \in Nat
        /\ \A k \in 1..Len(l) : t[i + k - 1] = l[k]
    BY <1>4, <1>9 DEF StandsAt, a, Text
  <2>2. \A k \in 1..Len(l) : i + k - 1 \in 1..a
    BY <1>1, <2>1
  <2>3. \A k \in 1..Len(l) : u[i + k - 1] = l[k]
    BY <1>3, <2>1, <2>2
  <2>4. i + Len(l) <= Len(u) + 1
    BY <1>1, <1>3, <2>1
  <2> QED BY <2>3, <2>4 DEF StandsAt
<1> QED BY <1>3, <1>6, <1>7, <1>8, <1>9 DEF u, p, a

(* A text at the end of which a line can begin has no cut line. *)
LEMMA NoneCut ==
  ASSUME NEW t \in Text, Len(t) + 1 \in Starts(t), NEW i \in Starts(t),
         i # Len(t) + 1, NEW line \in Text,
         \A k \in 1..Len(line) - 1 : line[k] # "NL"
  PROVE  ~ CutAt(t, i, line)
<1> DEFINE a == Len(t)
<1>1. a \in Nat /\ Len(line) \in Nat
  BY DEF Text
<1>2. i \in 1..a
  BY <1>1 DEF Starts
<1>3. t[a] = "NL"
  <2>1. a + 1 \in 1..a + 1 /\ (a + 1 = 1 \/ t[(a + 1) - 1] = "NL")
    BY DEF Starts
  <2>2. (a + 1) - 1 = a /\ a + 1 # 1
    BY <1>1, <1>2
  <2> QED BY <2>1, <2>2
<1> HIDE DEF a
<1>4. SUFFICES ASSUME CutAt(t, i, line) PROVE FALSE
  OBVIOUS
<1> DEFINE k == a + 1 - i
<1>5. k \in 1..a + 1 - i /\ k \in 1..Len(line) - 1 /\ i + k - 1 = a
  BY <1>1, <1>2, <1>4 DEF CutAt, a
<1>6. t[i + k - 1] = line[k]
  BY <1>4, <1>5 DEF CutAt, a
<1> QED BY <1>3, <1>5, <1>6

(***************************************************************************)
(* The state file is read                                                  *)
(***************************************************************************)
LEMMA ToldIs ==
  ASSUME TypeOK, EntriesOfHanded, NEW f \in DOMAIN told
  PROVE  /\ f \in Name /\ told[f] \in Entry
         /\ Vouched(handed[f], told[f]) /\ handed[f] \in SUBSET Contents
<1>1. f \in Name /\ handed[f] \in SUBSET Contents
  BY DEF TypeOK
<1>2. told[f] \in Entry /\ Vouched(handed[f], told[f])
  BY DEF EntriesOfHanded, Entry
<1> QED BY <1>1, <1>2

(* A whole line is read as what was noted, and the next line is next.      *)
LEMMA WholeLineNext ==
  ASSUME TypeOK, EntriesOfHanded, NEW i \in Starts(text), NEW f \in whole,
         StandsAt(text, i, Line(f, told[f]))
  PROVE  LET s == GetLine(From(text, i))
             n == Len(Line(f, told[f]))
         IN  /\ Matches(s) /\ Groups(s).name = f /\ Casts(Groups(s))
             /\ Read(s) = told[f]
             /\ Behind(From(text, i)) = From(text, i + n)
             /\ i + n \in Starts(text)
             /\ \A j \in Starts(text) : j > i => j >= i + n
<1> DEFINE line == Line(f, told[f])
           n == Len(line)
           s == GetLine(From(text, i))
           o == Decimal[told[f].offset]
           c == Decimal[told[f].crc]
<1>1. text \in Text /\ f \in Name /\ f \in DOMAIN told /\ told[f] \in Entry
  BY ToldIs DEF TypeOK
<1>3. /\ line \in Text /\ n \in Nat \ {0} /\ line[n] = "NL"
      /\ \A k \in 1..n - 1 : line[k] # "NL"
  BY <1>1, LineEnds
<1>4. i \in 1..Len(text) + 1 /\ Len(text) \in Nat
  BY <1>1 DEF Starts, Text
<1>5. /\ s = SubSeq(line, 1, n - 1)
      /\ Behind(From(text, i)) = From(text, i + n)
      /\ i + n \in Starts(text)
  <2> HIDE DEF line
  <2>1. StandsAt(text, i, line)
    BY DEF line
  <2> QED BY <1>1, <1>3, <1>4, <2>1, LineAt
<1>6. n - 1 \in Len(f) + Len(o) + 3..n - 1
  <2>1. IsLine(line, f, o, c) /\ Len(f) \in Nat
    BY <1>1, NameIs, LineShape
  <2>2. Len(o) \in Nat /\ Len(c) \in Nat \ {0}
    BY <1>1, DecimalText DEF Entry
  <2>3. n = Len(f) + Len(o) + Len(c) + 3
    BY <2>1 DEF IsLine
  <2> HIDE DEF line, o, c
  <2> QED BY <2>1, <2>2, <2>3
<1>7. /\ Matches(s) /\ Groups(s).name = f /\ Casts(Groups(s))
      /\ Read(s) = told[f]
  BY <1>1, <1>5, <1>6, ReadsAsWritten
<1>8. ASSUME NEW j \in Starts(text), j > i PROVE j >= i + n
  <2>1. SUFFICES ASSUME ~ j >= i + n PROVE FALSE
    OBVIOUS
  <2>2. j \in 1..Len(text) + 1 /\ (j = 1 \/ text[j - 1] = "NL")
    BY DEF Starts
  <2>3. j - i \in 1..n - 1 /\ i + (j - i) - 1 = j - 1 /\ j # 1
    <3> HIDE DEF n
    <3> QED BY <1>3, <1>4, <1>8, <2>1, <2>2
  <2>4. text[i + (j - i) - 1] = line[j - i]
    <3>1. j - i \in 1..n
      <4> HIDE DEF n
      <4> QED BY <1>3, <2>3
    <3> QED BY <3>1 DEF StandsAt
  <2> QED BY <1>3, <2>2, <2>3, <2>4
<1> QED BY <1>5, <1>7, <1>8

(* A cut line is the last one. *)
LEMMA CutLineNext ==
  ASSUME TypeOK, EntriesOfHanded, NEW i \in Starts(text), i # Len(text) + 1,
         NEW f \in DOMAIN told, CutAt(text, i, Line(f, told[f]))
  PROVE  LET s == GetLine(From(text, i))
             n == Len(text) + 1 - i
         IN  /\ s = From(text, i) /\ s = SubSeq(Line(f, told[f]), 1, n)
             /\ n \in 1..Len(Line(f, told[f])) - 1
             /\ Behind(From(text, i)) = From(text, Len(text) + 1)
             /\ \A g \in whole, j \in Starts(text) :
                  j >= i => ~ StandsAt(text, j, Line(g, told[g]))
<1> DEFINE line == Line(f, told[f])
           n == Len(text) + 1 - i
           s == From(text, i)
<1>1. text \in Text /\ f \in Name /\ told[f] \in Entry
  BY ToldIs DEF TypeOK
<1>2. /\ line \in Text /\ Len(line) \in Nat
      /\ \A k \in 1..Len(line) - 1 : line[k] # "NL"
  BY <1>1, LineEnds
<1>3. i \in 1..Len(text) + 1 /\ Len(text) \in Nat
  BY <1>1 DEF Starts, Text
<1>4. Len(text) + 1 < i + Len(line) /\ \A k \in 1..n : text[i + k - 1] = line[k]
  BY DEF CutAt
<1> HIDE DEF line
<1>5. n \in 1..Len(line) - 1
  BY <1>2, <1>3, <1>4
<1>6. \A k \in i..Len(text) : text[k] # "NL"
  <2>1. ASSUME NEW k \in i..Len(text) PROVE text[k] # "NL"
    <3>1. k - i + 1 \in 1..n /\ i + (k - i + 1) - 1 = k /\ k - i + 1 \in 1..Len(line) - 1
      BY <1>2, <1>3, <1>5
    <3> QED BY <1>2, <1>4, <3>1
  <2> QED BY <2>1
<1>7. GetLine(s) = s /\ Behind(s) = From(text, Len(text) + 1)
  BY <1>1, <1>3, <1>6, LastLine
<1>8. s = SubSeq(line, 1, n)
  <2>1. s \in Text /\ Len(s) = n /\ \A k \in 1..n : s[k] = text[i + k - 1]
    BY <1>1, <1>3, FromIs
  <2>2. 1 \in 1..Len(line) + 1 /\ n \in 1 - 1..Len(line)
    BY <1>2, <1>5
  <2>3. /\ SubSeq(line, 1, n) \in Text /\ Len(SubSeq(line, 1, n)) = n + 1 - 1
        /\ \A k \in 1..n + 1 - 1 : SubSeq(line, 1, n)[k] = line[1 + k - 1]
    BY <1>2, <2>2, PartIs
  <2> HIDE DEF s
  <2>4. n + 1 - 1 = n /\ n \in Nat
    BY <1>5
  <2> HIDE DEF n
  <2>5. \A k \in 1..n : SubSeq(line, 1, n)[k] = line[k]
    <3>1. \A k \in 1..n : 1 + k - 1 = k
      OBVIOUS
    <3> QED BY <2>3, <2>4, <3>1
  <2>6. \A k \in 1..n : s[k] = SubSeq(line, 1, n)[k]
    BY <1>4, <2>1, <2>5 DEF n
  <2> QED BY <2>1, <2>3, <2>4, <2>6, SeqEqual DEF Text
<1>9. ASSUME NEW g \in whole, NEW j \in Starts(text), j >= i,
             StandsAt(text, j, Line(g, told[g]))
      PROVE  FALSE
  <2> DEFINE l == Line(g, told[g])
             k == j + Len(l) - 1
  <2>1. g \in Name /\ told[g] \in Entry
    BY ToldIs DEF TypeOK
  <2>2. Len(l) \in Nat \ {0} /\ l[Len(l)] = "NL"
    BY <2>1, LineEnds
  <2>3. j \in 1..Len(text) + 1
    BY DEF Starts
  <2>4. j + Len(l) <= Len(text) + 1 /\ \A m \in 1..Len(l) : text[j + m - 1] = l[m]
    BY <1>9 DEF StandsAt
  <2> HIDE DEF l
  <2>5. k \in i..Len(text) /\ text[k] = "NL"
    BY <1>3, <1>9, <2>2, <2>3, <2>4
  <2> QED BY <1>6, <2>5
<1> QED BY <1>5, <1>7, <1>8, <1>9 DEF line

(* Where the reading is. *)
LEMMA AtLine ==
  ASSUME TypeOK, ReadsOn, pc = "read", rest # <<>>
  PROVE  \E i \in Starts(text) :
           /\ i # Len(text) + 1 /\ rest = From(text, i)
           /\ \A f \in whole \intersect exists :
                \/ f \in DOMAIN info /\ info[f] = told[f]
                \/ \E j \in Starts(text) :
                     j >= i /\ StandsAt(text, j, Line(f, told[f]))
<1>1. PICK i \in Starts(text) \union {Len(text) + 1} :
        /\ rest = From(text, i)
        /\ \A f \in whole \intersect exists :
             \/ f \in DOMAIN info /\ info[f] = told[f]
             \/ \E j \in Starts(text) :
                  j >= i /\ StandsAt(text, j, Line(f, told[f]))
  BY DEF ReadsOn
<1>2. From(text, Len(text) + 1) = <<>>
  BY DEF From, Text, TypeOK
<1>3. i # Len(text) + 1
  BY <1>1, <1>2
<1> QED BY <1>1, <1>3


(* The line that is read is a whole one, or one cut short. *)
LEMMA ThisLine ==
  ASSUME TypeOK, EntriesOfHanded, LinesOfTold, ReadsOn, pc = "read", rest # <<>>
  PROVE  \E i \in Starts(text) :
           /\ i # Len(text) + 1 /\ rest = From(text, i)
           /\ \A f \in whole \intersect exists :
                \/ f \in DOMAIN info /\ info[f] = told[f]
                \/ \E j \in Starts(text) :
                     j >= i /\ StandsAt(text, j, Line(f, told[f]))
           /\ \/ \E f \in whole : StandsAt(text, i, Line(f, told[f]))
              \/ \E f \in DOMAIN told \ whole : CutAt(text, i, Line(f, told[f]))
<1>1. PICK i \in Starts(text) :
        /\ i # Len(text) + 1 /\ rest = From(text, i)
        /\ \A f \in whole \intersect exists :
             \/ f \in DOMAIN info /\ info[f] = told[f]
             \/ \E j \in Starts(text) :
                  j >= i /\ StandsAt(text, j, Line(f, told[f]))
  BY AtLine
<1>2. i \in Starts(text) \ {Len(text) + 1}
  BY <1>1
<1>3. \/ \E f \in whole : StandsAt(text, i, Line(f, told[f]))
      \/ \E f \in DOMAIN told \ whole : CutAt(text, i, Line(f, told[f]))
  BY <1>2 DEF LinesOfTold
<1> QED BY <1>1, <1>3, Zenon

(* What is read of a cut line that casts is what its name was noted with,  *)
(* up to digits of the checksum.                                           *)
LEMMA CutLineRead ==
  ASSUME TypeOK, EntriesOfHanded, NEW i \in Starts(text), i # Len(text) + 1,
         NEW f \in DOMAIN told, CutAt(text, i, Line(f, told[f])),
         IsKnown(GetLine(From(text, i))), Casts(Groups(GetLine(From(text, i))))
  PROVE  LET s == GetLine(From(text, i))
         IN  /\ Groups(s).name = f /\ Read(s) \in Entry
             /\ Vouched(handed[f], Read(s))
<1> DEFINE s == GetLine(From(text, i))
           n == Len(text) + 1 - i
           line == Line(f, told[f])
           q == Len(f) + Len(Decimal[told[f].offset]) + 2
<1>1. f \in Name /\ told[f] \in Entry
  BY ToldIs
<1>2. Vouched(handed[f], told[f]) /\ handed[f] \in SUBSET Contents
  BY ToldIs
<1>3. s = SubSeq(line, 1, n) /\ n \in 1..Len(line) - 1
  BY CutLineNext
<1>4. Matches(s) /\ Groups(s).name \in Name /\ Casts(Groups(s))
  BY DEF IsKnown, TypeOK
<1>5. q \in Nat /\ Len(line) \in Nat
  <2>1. Len(f) \in Nat /\ Len(line) \in Nat
    BY <1>1, NameIs, LineEnds
  <2>2. Len(Decimal[told[f].offset]) \in Nat
    BY <1>1, DecimalText DEF Entry
  <2> QED BY <2>1, <2>2
<1>6. n \in 0..Len(line) - 1
  <2> HIDE DEF n, line
  <2> QED BY <1>3, <1>5
<1>7. n > q
  <2> HIDE DEF n
  <2> QED BY <1>1, <1>3, <1>4, <1>6, CastsAsOwn
<1>8. n \in q + 1..Len(line) - 1 /\ q + 1 = Len(f) + Len(Decimal[told[f].offset]) + 3
  <2>1. q + 1 = Len(f) + Len(Decimal[told[f].offset]) + 3
    <3>1. Len(f) \in Nat /\ Len(Decimal[told[f].offset]) \in Nat
      BY <1>1, NameIs, DecimalText DEF Entry
    <3> QED BY <3>1
  <2> HIDE DEF n, q, line
  <2> QED BY <1>5, <1>6, <1>7, <2>1
<1>9. Groups(s).name = f /\ Read(s) \in Entry /\ Vouched(handed[f], Read(s))
  <2> HIDE DEF n
  <2> QED BY <1>1, <1>2, <1>3, <1>8, ReadsAsWritten
<1> QED BY <1>9

(* What a line is taken over as. *)
LEMMA TakenOver ==
  ASSUME TypeOK, EntriesOfHanded, LinesOfTold, ReadsOn, pc = "read", rest # <<>>,
         IsKnown(GetLine(rest)), Casts(Groups(GetLine(rest)))
  PROVE  LET s == GetLine(rest)
             f == Groups(s).name
         IN  /\ f \in Name /\ Read(s) \in Entry
             /\ Vouched(handed[f], Read(s))
             /\ f \in whole => Read(s) = told[f]
<1> DEFINE s == GetLine(rest)
<1>1. PICK i \in Starts(text) :
        /\ i # Len(text) + 1 /\ rest = From(text, i)
        /\ \/ \E f \in whole : StandsAt(text, i, Line(f, told[f]))
           \/ \E f \in DOMAIN told \ whole : CutAt(text, i, Line(f, told[f]))
  BY ThisLine
<1>2. Groups(s).name \in Name
  BY DEF IsKnown, TypeOK
<1>3. CASE \E f \in whole : StandsAt(text, i, Line(f, told[f]))
  <2>1. PICK f \in whole : StandsAt(text, i, Line(f, told[f]))
    BY <1>3
  <2>2. Groups(s).name = f /\ Read(s) = told[f]
    BY <1>1, <2>1, WholeLineNext
  <2>3. f \in DOMAIN told
    BY DEF TypeOK
  <2>4. told[f] \in Entry /\ Vouched(handed[f], told[f])
    BY <2>3, ToldIs
  <2> QED BY <1>2, <2>2, <2>4
<1>4. CASE \E f \in DOMAIN told \ whole : CutAt(text, i, Line(f, told[f]))
  <2>1. PICK f \in DOMAIN told \ whole : CutAt(text, i, Line(f, told[f]))
    BY <1>4
  <2>2. /\ Groups(s).name = f /\ Read(s) \in Entry
        /\ Vouched(handed[f], Read(s))
    BY <1>1, <2>1, CutLineRead
  <2> QED BY <1>2, <2>1, <2>2
<1> QED BY <1>1, <1>3, <1>4

(* A whole line that is passed by is one of a file that is no more, or it  *)
(* is taken over.                                                          *)
LEMMA NextLine ==
  ASSUME TypeOK, EntriesOfHanded, LinesOfTold, ReadsOn, pc = "read", rest # <<>>
  PROVE  LET s == GetLine(rest)
         IN  \E i \in Starts(text) \union {Len(text) + 1} :
               /\ Behind(rest) = From(text, i)
               /\ \A f \in whole \intersect exists :
                    \/ f \in DOMAIN info /\ info[f] = told[f]
                    \/ IsKnown(s) /\ Casts(Groups(s)) /\ Groups(s).name = f
                    \/ \E j \in Starts(text) :
                         j >= i /\ StandsAt(text, j, Line(f, told[f]))
<1> DEFINE s == GetLine(rest)
<1>1. PICK i \in Starts(text) :
        /\ i # Len(text) + 1 /\ rest = From(text, i)
        /\ \A f \in whole \intersect exists :
             \/ f \in DOMAIN info /\ info[f] = told[f]
             \/ \E j \in Starts(text) :
                  j >= i /\ StandsAt(text, j, Line(f, told[f]))
        /\ \/ \E f \in whole : StandsAt(text, i, Line(f, told[f]))
           \/ \E f \in DOMAIN told \ whole : CutAt(text, i, Line(f, told[f]))
  BY ThisLine
<1>2. CASE \E g \in whole : StandsAt(text, i, Line(g, told[g]))
  <2>1. PICK g \in whole : StandsAt(text, i, Line(g, told[g]))
    BY <1>2
  <2> DEFINE n == Len(Line(g, told[g]))
  <2>2. /\ Matches(s) /\ Groups(s).name = g /\ Casts(Groups(s))
        /\ Behind(rest) = From(text, i + n) /\ i + n \in Starts(text)
        /\ \A j \in Starts(text) : j > i => j >= i + n
    BY <1>1, <2>1, WholeLineNext
  <2> HIDE DEF n
  <2>3. ASSUME NEW f \in whole \intersect exists
        PROVE  \/ f \in DOMAIN info /\ info[f] = told[f]
               \/ IsKnown(s) /\ Casts(Groups(s)) /\ Groups(s).name = f
               \/ \E j \in Starts(text) :
                    j >= i + n /\ StandsAt(text, j, Line(f, told[f]))
    <3>1. CASE f = g
      BY <2>2, <3>1 DEF IsKnown
    <3>2. CASE f # g
      <4>1. SUFFICES ASSUME ~ (f \in DOMAIN info /\ info[f] = told[f])
                     PROVE  \E j \in Starts(text) :
                              j >= i + n /\ StandsAt(text, j, Line(f, told[f]))
        OBVIOUS
      <4>2. PICK j \in Starts(text) :
              j >= i /\ StandsAt(text, j, Line(f, told[f]))
        BY <1>1, <4>1
      <4>3. j # i
        <5>1. ASSUME j = i PROVE FALSE
          <6>1. StandsAt(text, i, Line(f, told[f]))
            BY <4>2, <5>1
          <6>2. Groups(s).name = f
            BY <1>1, <6>1, WholeLineNext
          <6> QED BY <2>2, <3>2, <6>2
        <5> QED BY <5>1
      <4>4. j > i
        <5>1. j \in Int /\ i \in Int
          BY DEF Starts
        <5> QED BY <4>2, <4>3, <5>1
      <4> QED BY <2>2, <4>2, <4>4
    <3> QED BY <3>1, <3>2
  <2> QED BY <2>2, <2>3, Zenon
<1>3. CASE \E g \in DOMAIN told \ whole : CutAt(text, i, Line(g, told[g]))
  <2>1. PICK g \in DOMAIN told \ whole : CutAt(text, i, Line(g, told[g]))
    BY <1>3
  <2>2. /\ Behind(rest) = From(text, Len(text) + 1)
        /\ \A f \in whole, j \in Starts(text) :
             j >= i => ~ StandsAt(text, j, Line(f, told[f]))
    BY <1>1, <2>1, CutLineNext
  <2>3. \A f \in whole \intersect exists : f \in DOMAIN info /\ info[f] = told[f]
    BY <1>1, <2>2
  <2> QED BY <2>2, <2>3, Zenon
<1> QED BY <1>1, <1>2, <1>3

(* Only a line cut short keeps the daemon from starting. *)
LEMMA AbortsAtCut ==
  ASSUME TypeOK, EntriesOfHanded, LinesOfTold, ReadsOn, pc = "read", rest # <<>>,
         IsKnown(GetLine(rest)), ~ Casts(Groups(GetLine(rest)))
  PROVE  \E f \in DOMAIN told \ whole, i \in Starts(text) :
            /\ CutAt(text, i, Line(f, told[f]))
            /\ \/ From(text, i) =
                    f \o <<":">> \o Decimal[told[f].offset] \o <<":">>
               \/ ":" \in Range(f) /\ Matches(From(text, i))
<1> DEFINE s == GetLine(rest)
<1>1. PICK i \in Starts(text) :
        /\ i # Len(text) + 1 /\ rest = From(text, i)
        /\ \/ \E f \in whole : StandsAt(text, i, Line(f, told[f]))
           \/ \E f \in DOMAIN told \ whole : CutAt(text, i, Line(f, told[f]))
  BY ThisLine
<1>2. \A f \in whole : ~ StandsAt(text, i, Line(f, told[f]))
  BY <1>1, WholeLineNext
<1>3. PICK f \in DOMAIN told \ whole : CutAt(text, i, Line(f, told[f]))
  BY <1>1, <1>2
<1> DEFINE n == Len(text) + 1 - i
           line == Line(f, told[f])
<1>4. s = From(text, i) /\ s = SubSeq(line, 1, n) /\ n \in 1..Len(line) - 1
  BY <1>1, <1>3, CutLineNext
<1>5. f \in Name /\ told[f] \in Entry
  BY <1>3, ToldIs
<1>7. n \in 0..Len(line) - 1 /\ Matches(s)
  <2>1. Len(line) \in Nat
    BY <1>5, LineEnds
  <2> HIDE DEF n, line
  <2> QED BY <1>4, <2>1 DEF IsKnown
<1>8. \/ ":" \in Range(f)
      \/ SubSeq(line, 1, n) = f \o <<":">> \o Decimal[told[f].offset] \o <<":">>
  <2> HIDE DEF n
  <2> QED BY <1>4, <1>5, <1>7, FailsAsCut
<1> QED BY <1>3, <1>4, <1>7, <1>8


(***************************************************************************)
(* The inductive invariant                                                 *)
(***************************************************************************)
LEMMA FInvInit == Init => FInv
<1>1. SUFFICES ASSUME Init PROVE FInv
  OBVIOUS
<1>2. text = <<>> /\ rest = <<>> /\ <<>> \in Text /\ Len(text) = 0
  BY <1>1 DEF Init, Text
<1>3. DOMAIN info = {} /\ DOMAIN told = {}
  BY <1>1 DEF Init, NoEntry
<1>4. TypeOK
  BY <1>1, <1>2, <1>3 DEF Init, TypeOK
<1>5. EntriesOfHanded
  BY <1>3 DEF EntriesOfHanded
<1>6. Starts(text) \subseteq {Len(text) + 1}
  BY <1>2 DEF Starts
<1>7. LinesOfTold
  BY <1>1, <1>6 DEF Init, LinesOfTold
<1>8. SavesOn /\ ReadsOn /\ AbortsForACutOnly
  BY <1>1 DEF Init, SavesOn, ReadsOn, AbortsForACutOnly
<1> QED BY <1>4, <1>5, <1>7, <1>8 DEF FInv

LEMMA LinesKept ==
  ASSUME LinesOfTold, UNCHANGED <<text, whole, told>>
  PROVE  LinesOfTold'
BY DEF LinesOfTold

LEMMA EntriesKept ==
  ASSUME TypeOK, EntriesOfHanded, told' = told \/ told' = info,
         \A f \in DOMAIN info' :
            \/ f \in DOMAIN info /\ info'[f] = info[f]
            \/ info'[f] \in Entry /\ Vouched(handed'[f], info'[f]),
         \A f \in Name : handed[f] \subseteq handed'[f]
  PROVE  EntriesOfHanded'
<1>1. ASSUME NEW m \in {info, told}, NEW f \in DOMAIN m
      PROVE  m[f] \in Entry /\ Vouched(handed'[f], m[f])
  <2>1. m[f] \in Entry /\ Vouched(handed[f], m[f])
    BY <1>1 DEF EntriesOfHanded, Entry
  <2>2. f \in Name
    BY <1>1 DEF TypeOK
  <2> QED BY <2>1, <2>2 DEF Vouched
<1>2. ASSUME NEW f \in DOMAIN info'
      PROVE  info'[f] \in Entry /\ Vouched(handed'[f], info'[f])
  <2>1. CASE f \in DOMAIN info /\ info'[f] = info[f]
    BY <1>1, <2>1
  <2>2. CASE info'[f] \in Entry /\ Vouched(handed'[f], info'[f])
    BY <2>2
  <2> QED BY <2>1, <2>2
<1>3. ASSUME NEW m \in {info', told'}, NEW f \in DOMAIN m
      PROVE  m[f] \in Entry /\ Vouched(handed'[f], m[f])
  <2>1. m = info' \/ m = told \/ m = info
    BY <1>3
  <2> QED BY <1>1, <1>2, <1>3, <2>1
<1> QED BY <1>3 DEF EntriesOfHanded, Entry

LEMMA StartKeeps ==
  ASSUME FInv, Start
  PROVE  FInv'
<1> USE DEF FInv
<1>1. TypeOK'
  BY DEF TypeOK, Start
<1>2. EntriesOfHanded'
  BY EntriesKept DEF Start
<1>3. LinesOfTold'
  BY LinesKept DEF Start
<1>4. SavesOn' /\ AbortsForACutOnly'
  BY DEF SavesOn, AbortsForACutOnly, Start
<1>5. text \in Text /\ From(text, 1) = text
  BY DEF TypeOK, From, Text
<1>6. 1 \in Starts(text) /\ \A j \in Starts(text) : j >= 1
  BY <1>5 DEF Starts, Text
<1>7. \A f \in whole \intersect exists' :
        \E j \in Starts(text) : j >= 1 /\ StandsAt(text, j, Line(f, told[f]))
  BY <1>6 DEF LinesOfTold
<1>8. ReadsOn'
  BY <1>5, <1>6, <1>7 DEF ReadsOn, Start
<1> QED BY <1>1, <1>2, <1>3, <1>4, <1>8

LEMMA BehindText ==
  ASSUME TypeOK, ReadsOn, pc = "read", rest # <<>>, EntriesOfHanded, LinesOfTold
  PROVE  Behind(rest) \in Text
<1>1. PICK i \in Starts(text) \union {Len(text) + 1} : Behind(rest) = From(text, i)
  BY NextLine
<1>2. text \in Text /\ i \in 1..Len(text) + 1
  BY DEF TypeOK, Text, Starts
<1> QED BY <1>1, <1>2, FromIs

LEMMA PassOverKeeps ==
  ASSUME FInv, PassOver
  PROVE  FInv'
<1> USE DEF FInv
<1>1. TypeOK'
  BY BehindText DEF TypeOK, PassOver, ReadLine
<1>2. EntriesOfHanded'
  BY EntriesKept DEF PassOver, ReadLine
<1>3. LinesOfTold'
  BY LinesKept DEF PassOver, ReadLine
<1>4. SavesOn' /\ AbortsForACutOnly'
  BY DEF SavesOn, AbortsForACutOnly, PassOver, ReadLine
<1>5. PICK i \in Starts(text) \union {Len(text) + 1} :
        /\ Behind(rest) = From(text, i)
        /\ \A f \in whole \intersect exists :
             \/ f \in DOMAIN info /\ info[f] = told[f]
             \/ \E j \in Starts(text) :
                  j >= i /\ StandsAt(text, j, Line(f, told[f]))
  BY NextLine DEF PassOver, ReadLine
<1>6. ReadsOn'
  BY <1>5 DEF ReadsOn, PassOver, ReadLine
<1> QED BY <1>1, <1>2, <1>3, <1>4, <1>6

LEMMA TakeOverKeeps ==
  ASSUME FInv, TakeOver
  PROVE  FInv'
<1> USE DEF FInv
<1> DEFINE s == GetLine(rest)
           n == Groups(s).name
<1>1. pc = "read" /\ rest # <<>> /\ IsKnown(s) /\ Casts(Groups(s))
  BY DEF TakeOver, ReadLine
<1>2. info' = Put(info, n, Read(s))
  BY DEF TakeOver, Read
<1>3. UNCHANGED <<pc, handed, exists, text, todo, whole, told>> /\ rest' = Behind(rest)
  BY DEF TakeOver, ReadLine
<1>4. /\ n \in Name /\ Read(s) \in Entry
      /\ Vouched(handed[n], Read(s))
      /\ n \in whole => Read(s) = told[n]
  BY <1>1, TakenOver
<1>5. PICK i \in Starts(text) \union {Len(text) + 1} :
        /\ Behind(rest) = From(text, i)
        /\ \A f \in whole \intersect exists :
             \/ f \in DOMAIN info /\ info[f] = told[f]
             \/ n = f
             \/ \E j \in Starts(text) :
                  j >= i /\ StandsAt(text, j, Line(f, told[f]))
  BY <1>1, NextLine
<1>6. Behind(rest) \in Text
  BY <1>1, BehindText
<1> HIDE DEF s, n
<1>7. /\ DOMAIN info' = DOMAIN info \union {n}
      /\ info'[n] = Read(s)
      /\ \A f \in DOMAIN info \ {n} : info'[f] = info[f]
  BY <1>2 DEF Put
<1>8. TypeOK'
  BY <1>3, <1>4, <1>6, <1>7 DEF TypeOK
<1>9. EntriesOfHanded'
  <2>1. \A f \in DOMAIN info' :
          \/ f \in DOMAIN info /\ info'[f] = info[f]
          \/ info'[f] \in Entry /\ Vouched(handed'[f], info'[f])
    BY <1>3, <1>4, <1>7
  <2>2. told' = told /\ \A f \in Name : handed[f] \subseteq handed'[f]
    BY <1>3
  <2> QED BY <2>1, <2>2, EntriesKept
<1>10. LinesOfTold'
  BY <1>3, LinesKept
<1>11. SavesOn' /\ AbortsForACutOnly'
  BY <1>1, <1>3 DEF SavesOn, AbortsForACutOnly
<1>12. ASSUME NEW f \in whole \intersect exists
       PROVE  \/ f \in DOMAIN info' /\ info'[f] = told[f]
              \/ \E j \in Starts(text) :
                   j >= i /\ StandsAt(text, j, Line(f, told[f]))
  BY <1>4, <1>5, <1>7
<1>13. ReadsOn'
  BY <1>3, <1>5, <1>12 DEF ReadsOn
<1> QED BY <1>8, <1>9, <1>10, <1>11, <1>13

LEMMA AbortKeeps ==
  ASSUME FInv, Abort
  PROVE  FInv'
<1> USE DEF FInv
<1>1. /\ pc = "read" /\ rest # <<>>
      /\ IsKnown(GetLine(rest)) /\ ~ Casts(Groups(GetLine(rest)))
  BY DEF Abort, ReadLine
<1>2. /\ UNCHANGED <<handed, exists, text, todo, whole, told>>
      /\ rest' = Behind(rest) /\ pc' = "aborted" /\ DOMAIN info' = {}
  BY DEF Abort, ReadLine, NoEntry
<1>3. TypeOK'
  BY <1>1, <1>2, BehindText DEF TypeOK
<1>4. EntriesOfHanded'
  BY <1>2, EntriesKept
<1>5. LinesOfTold'
  BY <1>2, LinesKept
<1>6. SavesOn' /\ ReadsOn'
  BY <1>2 DEF SavesOn, ReadsOn
<1>7. AbortsForACutOnly'
  BY <1>1, <1>2, AbortsAtCut DEF AbortsForACutOnly
<1> QED BY <1>3, <1>4, <1>5, <1>6, <1>7

LEMMA NoticeKeeps ==
  ASSUME FInv, NEW f \in Name, Notice(f)
  PROVE  FInv'
<1> USE DEF FInv
<1>1. /\ pc = "run" /\ info' = Put(info, f, [offset |-> 0, crc |-> 0])
      /\ UNCHANGED <<pc, handed, exists, text, rest, todo, whole, told>>
  BY DEF Notice
<1>2. /\ DOMAIN info' = DOMAIN info \union {f}
      /\ info'[f] = [offset |-> 0, crc |-> 0]
      /\ \A g \in DOMAIN info \ {f} : info'[g] = info[g]
  BY <1>1 DEF Put
<1>3. info'[f] \in Entry /\ Vouched(handed[f], info'[f])
  BY <1>2 DEF Entry, Vouched
<1>4. TypeOK'
  BY <1>1, <1>2 DEF TypeOK
<1>5. EntriesOfHanded'
  BY <1>1, <1>2, <1>3, EntriesKept
<1>6. LinesOfTold'
  BY <1>1, LinesKept
<1>7. SavesOn' /\ ReadsOn' /\ AbortsForACutOnly'
  BY <1>1 DEF SavesOn, ReadsOn, AbortsForACutOnly
<1> QED BY <1>4, <1>5, <1>6, <1>7

LEMMA CollectKeeps ==
  ASSUME FInv, NEW f \in Name, NEW obs \in Contents, Collect(f, obs)
  PROVE  FInv'
<1> USE DEF FInv
<1> DEFINE e == [offset |-> Len(obs), crc |-> Checksum(obs)]
<1>1. /\ pc = "run" /\ info' = Put(info, f, e)
      /\ handed' = [handed EXCEPT ![f] = @ \union {obs}]
      /\ UNCHANGED <<pc, exists, text, rest, todo, whole, told>>
  BY DEF Collect
<1>2. obs \in Seq(0..255) /\ Checksum(obs) \in Nat
  BY ContentsAssumption
<1>3. e \in Entry
  BY <1>2 DEF Entry
<1>4. Noted(e, obs)
  <2>1. Decimal[Checksum(obs)] \in Seq(Digit)
    BY <1>2, DecimalType
  <2>2. IsPrefix(Decimal[Checksum(obs)], Decimal[Checksum(obs)])
    BY <2>1 DEF IsPrefix
  <2> QED BY <2>2 DEF Noted
<1> HIDE DEF e
<1>5. /\ DOMAIN info' = DOMAIN info \union {f} /\ info'[f] = e
      /\ \A g \in DOMAIN info \ {f} : info'[g] = info[g]
  BY <1>1 DEF Put
<1>6. /\ handed' \in [Name -> SUBSET Contents] /\ obs \in handed'[f]
      /\ \A g \in Name : handed[g] \subseteq handed'[g]
  BY <1>1 DEF TypeOK
<1>7. TypeOK'
  BY <1>1, <1>5, <1>6 DEF TypeOK
<1>8. EntriesOfHanded'
  <2>1. \A g \in DOMAIN info' :
          \/ g \in DOMAIN info /\ info'[g] = info[g]
          \/ info'[g] \in Entry /\ Vouched(handed'[g], info'[g])
    BY <1>3, <1>4, <1>5, <1>6 DEF Vouched
  <2> QED BY <1>1, <1>6, <2>1, EntriesKept
<1>9. LinesOfTold'
  BY <1>1, LinesKept
<1>10. SavesOn' /\ ReadsOn' /\ AbortsForACutOnly'
  BY <1>1 DEF SavesOn, ReadsOn, AbortsForACutOnly
<1> QED BY <1>7, <1>8, <1>9, <1>10

LEMMA ForgetKeeps ==
  ASSUME FInv, NEW f \in Name, Forget(f)
  PROVE  FInv'
<1> USE DEF FInv
<1>1. /\ pc = "run" /\ info' = [g \in DOMAIN info \ {f} |-> info[g]]
      /\ UNCHANGED <<pc, handed, exists, text, rest, todo, whole, told>>
  BY DEF Forget
<1>2. TypeOK'
  BY <1>1 DEF TypeOK
<1>3. EntriesOfHanded'
  BY <1>1, EntriesKept
<1>4. LinesOfTold'
  BY <1>1, LinesKept
<1>5. SavesOn' /\ ReadsOn' /\ AbortsForACutOnly'
  BY <1>1 DEF SavesOn, ReadsOn, AbortsForACutOnly
<1> QED BY <1>2, <1>3, <1>4, <1>5

LEMMA StartSaveKeeps ==
  ASSUME FInv, StartSave
  PROVE  FInv'
<1> USE DEF FInv
<1>1. /\ text' = <<>> /\ todo' = DOMAIN info /\ whole' = {} /\ told' = info
      /\ pc' = "save" /\ UNCHANGED <<info, handed, exists, rest>>
  BY DEF StartSave
<1>2. text' \in Text /\ Len(text') = 0
  BY <1>1 DEF Text
<1>3. TypeOK'
  BY <1>1, <1>2 DEF TypeOK
<1>4. EntriesOfHanded'
  BY <1>1, EntriesKept
<1>5. \A i : i \in Starts(text') <=> i = 1
  BY <1>2 DEF Starts
<1>6. Starts(text') \ {Len(text') + 1} = {}
  BY <1>2, <1>5
<1>7. LinesOfTold'
  BY <1>1, <1>6 DEF LinesOfTold
<1>8. SavesOn'
  BY <1>1, <1>2, <1>5 DEF SavesOn
<1>9. ReadsOn' /\ AbortsForACutOnly'
  BY <1>1 DEF ReadsOn, AbortsForACutOnly
<1> QED BY <1>3, <1>4, <1>7, <1>8, <1>9

(* The next line can be written: its place, and what it is. *)
LEMMA ToWrite ==
  ASSUME FInv, pc = "save", NEW f \in todo
  PROVE  LET line == Line(f, info[f])
         IN  /\ f \in DOMAIN told \ whole /\ line = Line(f, told[f])
             /\ text \in Text /\ Len(text) + 1 \in Starts(text)
             /\ line \in Text /\ Len(line) > 0 /\ line[Len(line)] = "NL"
             /\ \A k \in 1..Len(line) - 1 : line[k] # "NL"
             /\ \A i \in Starts(text) \ {Len(text) + 1} :
                  \E g \in whole : StandsAt(text, i, Line(g, told[g]))
             /\ \A g \in DOMAIN told : Line(g, told[g]) \in Text
<1> USE DEF FInv
<1>1. f \in DOMAIN told \ whole /\ told = info /\ Len(text) + 1 \in Starts(text)
  BY DEF SavesOn
<1>2. text \in Text
  BY DEF TypeOK
<1>3. ASSUME NEW g \in DOMAIN told
      PROVE  LET line == Line(g, told[g])
             IN  /\ line \in Text /\ Len(line) > 0 /\ line[Len(line)] = "NL"
                 /\ \A k \in 1..Len(line) - 1 : line[k] # "NL"
  <2>1. g \in Name /\ told[g] \in Entry
    BY ToldIs
  <2>2. Len(Line(g, told[g])) \in Nat \ {0}
    BY <2>1, LineEnds
  <2> QED BY <2>1, <2>2, LineEnds
<1>4. ASSUME NEW i \in Starts(text) \ {Len(text) + 1}
      PROVE  \E g \in whole : StandsAt(text, i, Line(g, told[g]))
  <2>1. ASSUME NEW g \in DOMAIN told \ whole PROVE ~ CutAt(text, i, Line(g, told[g]))
    <3> DEFINE line == Line(g, told[g])
    <3>1. line \in Text /\ \A k \in 1..Len(line) - 1 : line[k] # "NL"
      BY <1>3
    <3> HIDE DEF line
    <3>2. ~ CutAt(text, i, line)
      BY <1>1, <1>2, <3>1, NoneCut
    <3> QED BY <3>2 DEF line
  <2> QED BY <2>1 DEF LinesOfTold
<1> QED BY <1>1, <1>2, <1>3, <1>4

LEMMA SaveLineKeeps ==
  ASSUME FInv, SaveLine
  PROVE  FInv'
<1> USE DEF FInv
<1>1. PICK f \in todo :
        /\ text' = text \o Line(f, info[f])
        /\ whole' = whole \union {f}
        /\ todo' = todo \ {f}
  BY DEF SaveLine
<1>2. pc = "save" /\ UNCHANGED <<pc, info, handed, exists, rest, told>>
  BY DEF SaveLine
<1> DEFINE line == Line(f, info[f])
<1>3. /\ f \in DOMAIN told \ whole /\ line = Line(f, told[f])
      /\ text \in Text /\ Len(text) + 1 \in Starts(text)
      /\ line \in Text /\ Len(line) > 0 /\ line[Len(line)] = "NL"
      /\ \A k \in 1..Len(line) - 1 : line[k] # "NL"
      /\ \A i \in Starts(text) \ {Len(text) + 1} :
           \E g \in whole : StandsAt(text, i, Line(g, told[g]))
      /\ \A g \in DOMAIN told : Line(g, told[g]) \in Text
  BY <1>2, ToWrite
<1> HIDE DEF line
<1>4. text' = text \o line
  BY <1>1 DEF line
<1>5. /\ text' \in Text
      /\ StandsAt(text', Len(text) + 1, line) /\ Len(text) + 1 \in Starts(text')
      /\ Len(text') + 1 \in Starts(text')
      /\ \A i \in Starts(text') \ {Len(text') + 1} : i \in Starts(text)
      /\ \A i \in Starts(text), l \in Text :
           StandsAt(text, i, l) => StandsAt(text', i, l) /\ i \in Starts(text')
  BY <1>3, <1>4, LineAdded
<1>6. TypeOK'
  BY <1>1, <1>2, <1>3, <1>5 DEF TypeOK
<1>7. EntriesOfHanded'
  BY <1>2, EntriesKept
<1>8. ASSUME NEW g \in whole'
      PROVE  \E i \in Starts(text') : StandsAt(text', i, Line(g, told[g]))
  <2>1. CASE g = f
    BY <1>3, <1>5, <2>1
  <2>2. CASE g \in whole
    <3>1. PICK i \in Starts(text) : StandsAt(text, i, Line(g, told[g]))
      BY <2>2 DEF LinesOfTold
    <3>2. Line(g, told[g]) \in Text
      BY <1>3, <2>2 DEF TypeOK
    <3> QED BY <1>5, <3>1, <3>2
  <2> QED BY <1>1, <2>1, <2>2
<1>9. ASSUME NEW i \in Starts(text') \ {Len(text') + 1}
      PROVE  \E g \in whole' : StandsAt(text', i, Line(g, told[g]))
  <2>1. i \in Starts(text)
    BY <1>5
  <2>2. CASE i = Len(text) + 1
    BY <1>1, <1>3, <1>5, <2>2
  <2>3. CASE i # Len(text) + 1
    <3>1. PICK g \in whole : StandsAt(text, i, Line(g, told[g]))
      BY <1>3, <2>1, <2>3
    <3>2. Line(g, told[g]) \in Text
      BY <1>3 DEF TypeOK
    <3> QED BY <1>1, <1>5, <2>1, <3>1, <3>2
  <2> QED BY <2>2, <2>3
<1>10. LinesOfTold'
  BY <1>2, <1>8, <1>9 DEF LinesOfTold
<1>11. SavesOn'
  BY <1>1, <1>2, <1>5 DEF SavesOn
<1>12. ReadsOn' /\ AbortsForACutOnly'
  BY <1>2 DEF ReadsOn, AbortsForACutOnly
<1> QED BY <1>6, <1>7, <1>10, <1>11, <1>12

LEMMA SaveCutKeeps ==
  ASSUME FInv, SaveCut
  PROVE  FInv'
<1> USE DEF FInv
<1>1. PICK f \in todo : \E n \in 0..Len(Line(f, info[f])) - 1 :
        text' = text \o SubSeq(Line(f, info[f]), 1, n)
  BY DEF SaveCut
<1>2. pc = "save" /\ todo' = {} /\ UNCHANGED <<pc, info, handed, exists, rest, whole, told>>
  BY DEF SaveCut
<1> DEFINE line == Line(f, info[f])
<1>3. /\ f \in DOMAIN told \ whole /\ line = Line(f, told[f])
      /\ text \in Text /\ Len(text) + 1 \in Starts(text)
      /\ line \in Text /\ Len(line) > 0 /\ line[Len(line)] = "NL"
      /\ \A k \in 1..Len(line) - 1 : line[k] # "NL"
      /\ \A i \in Starts(text) \ {Len(text) + 1} :
           \E g \in whole : StandsAt(text, i, Line(g, told[g]))
      /\ \A g \in DOMAIN told : Line(g, told[g]) \in Text
  BY <1>2, ToWrite
<1>4. PICK n \in 0..Len(line) - 1 : text' = text \o SubSeq(line, 1, n)
  BY <1>1
<1> HIDE DEF line
<1>5. /\ text' \in Text
      /\ n # 0 => CutAt(text', Len(text) + 1, line)
      /\ \A i \in Starts(text') \ {Len(text') + 1} :
           i \in Starts(text) /\ (i = Len(text) + 1 => n # 0)
      /\ \A i \in Starts(text), l \in Text :
           StandsAt(text, i, l) => StandsAt(text', i, l) /\ i \in Starts(text')
  BY <1>3, <1>4, CutAdded
<1>6. TypeOK'
  BY <1>2, <1>5 DEF TypeOK
<1>7. EntriesOfHanded'
  BY <1>2, EntriesKept
<1>8. ASSUME NEW g \in whole
      PROVE  \E i \in Starts(text') : StandsAt(text', i, Line(g, told[g]))
  <2>1. PICK i \in Starts(text) : StandsAt(text, i, Line(g, told[g]))
    BY DEF LinesOfTold
  <2>2. Line(g, told[g]) \in Text
    BY <1>3 DEF TypeOK
  <2> QED BY <1>5, <2>1, <2>2
<1>9. ASSUME NEW i \in Starts(text') \ {Len(text') + 1}
      PROVE  \/ \E g \in whole : StandsAt(text', i, Line(g, told[g]))
             \/ \E g \in DOMAIN told \ whole : CutAt(text', i, Line(g, told[g]))
  <2>1. i \in Starts(text) /\ (i = Len(text) + 1 => n # 0)
    BY <1>5
  <2>2. CASE i = Len(text) + 1
    BY <1>3, <1>5, <2>1, <2>2
  <2>3. CASE i # Len(text) + 1
    <3>1. PICK g \in whole : StandsAt(text, i, Line(g, told[g]))
      BY <1>3, <2>1, <2>3
    <3>2. Line(g, told[g]) \in Text
      BY <1>3 DEF TypeOK
    <3> QED BY <1>5, <2>1, <3>1, <3>2
  <2> QED BY <2>2, <2>3
<1>10. LinesOfTold'
  BY <1>2, <1>8, <1>9 DEF LinesOfTold
<1>11. SavesOn' /\ ReadsOn' /\ AbortsForACutOnly'
  BY <1>2 DEF SavesOn, ReadsOn, AbortsForACutOnly
<1> QED BY <1>6, <1>7, <1>10, <1>11

LEMMA OtherStepsKeep ==
  ASSUME FInv, EndRead \/ EndSave \/ End \/ UNCHANGED vars
  PROVE  FInv'
<1> USE DEF FInv
<1>1. CASE EndRead \/ EndSave \/ End
  <2>1. UNCHANGED <<handed, text, whole, told>> /\ pc' \in {"run", "stopped"}
    BY <1>1 DEF EndRead, EndSave, End
  <2>2. (info' = info \/ info' = NoEntry) /\ (rest' = rest \/ rest' = <<>>)
        /\ (exists' = exists \/ exists' = {})
    BY <1>1 DEF EndRead, EndSave, End
  <2>3. info' = info \/ DOMAIN info' = {}
    BY <2>2 DEF NoEntry
  <2>4. <<>> \in Text
    BY DEF Text
  <2>5. TypeOK'
    BY <2>1, <2>2, <2>3, <2>4 DEF TypeOK
  <2>6. EntriesOfHanded'
    BY <2>1, <2>3, EntriesKept
  <2>7. LinesOfTold'
    BY <2>1, LinesKept
  <2>8. SavesOn' /\ ReadsOn' /\ AbortsForACutOnly'
    BY <2>1 DEF SavesOn, ReadsOn, AbortsForACutOnly
  <2> QED BY <2>5, <2>6, <2>7, <2>8
<1>2. CASE UNCHANGED vars
  <2>1. TypeOK' /\ EntriesOfHanded'
    BY <1>2 DEF vars, TypeOK, EntriesOfHanded
  <2>2. LinesOfTold'
    BY <1>2, LinesKept DEF vars
  <2>3. SavesOn'
    BY <1>2 DEF vars, SavesOn
  <2>4. ReadsOn'
    BY <1>2 DEF vars, ReadsOn
  <2>5. AbortsForACutOnly'
    BY <1>2 DEF vars, AbortsForACutOnly
  <2> QED BY <2>1, <2>2, <2>3, <2>4, <2>5
<1> QED BY <1>1, <1>2

LEMMA FInvNext == FInv /\ [Next]_vars => FInv'
<1> SUFFICES ASSUME FInv, [Next]_vars PROVE FInv'
  OBVIOUS
<1>1. CASE Start
  BY <1>1, StartKeeps
<1>2. CASE PassOver
  BY <1>2, PassOverKeeps
<1>3. CASE TakeOver
  BY <1>3, TakeOverKeeps
<1>4. CASE Abort
  BY <1>4, AbortKeeps
<1>5. CASE \E f \in Name, obs \in Contents : Collect(f, obs)
  BY <1>5, CollectKeeps
<1>6. CASE \E f \in Name : Notice(f) \/ Forget(f)
  BY <1>6, NoticeKeeps, ForgetKeeps
<1>7. CASE StartSave
  BY <1>7, StartSaveKeeps
<1>8. CASE SaveLine
  BY <1>8, SaveLineKeeps
<1>9. CASE SaveCut
  BY <1>9, SaveCutKeeps
<1>10. CASE EndRead \/ EndSave \/ End \/ UNCHANGED vars
  BY <1>10, OtherStepsKeep
<1> QED BY <1>1, <1>2, <1>3, <1>4, <1>5, <1>6, <1>7, <1>8, <1>9, <1>10 DEF Next

(* In every state the entries are of contents handed on, the state file is *)
(* made of whole lines and at most one cut one, behind them, and the       *)
(* reading is at a line with the whole lines before it back.               *)
THEOREM FInvCorrect == Spec => []FInv
BY FInvInit, FInvNext, PTL DEF Spec


(* After any crashes and full disks, every entry that collectObservations()*)
(* works with, and every one that saveFInfoList() wrote, has offset 0, or  *)
(* the length of a content handed on of that very file and its checksum,   *)
(* but for digits that a full disk took away.                              *)
THEOREM EntriesCorrect == Spec => []EntriesOfHanded
<1>1. FInv => EntriesOfHanded
  BY DEF FInv
<1> QED BY <1>1, FInvCorrect, PTL

(* Nothing that readFInfoList() makes of a cut state file lets             *)
(* getNewObsPart() skip bytes of a file that were not handed on.           *)
THEOREM SkipsCorrect == Spec => []SkipsOnlyHanded
<1>1. ASSUME FInv, NEW f \in DOMAIN info, NEW obs \in Contents,
             Appended(info[f], obs)
      PROVE  SubSeq(obs, 1, info[f].offset) \in handed[f]
  <2>1. info[f] \in Entry
    BY <1>1 DEF FInv, EntriesOfHanded, Entry
  <2>2. PICK h \in handed[f] : Noted(info[f], h)
    BY <1>1 DEF FInv, EntriesOfHanded, Appended, Vouched
  <2>3. h \in Contents
    BY <1>1, <2>2 DEF FInv, TypeOK
  <2> DEFINE n == info[f].offset
  <2>4. n \in 1..Len(obs) /\ info[f].crc = Checksum(SubSeq(obs, 1, n))
    <3>1. Len(obs) \in Nat
      BY ContentsAssumption
    <3> QED BY <1>1, <2>1, <3>1 DEF Appended, Entry
  <2>5. info[f] = [offset |-> n, crc |-> Checksum(SubSeq(obs, 1, n))]
    BY <2>1, <2>4 DEF Entry
  <2> HIDE DEF n
  <2>6. SubSeq(obs, 1, n) = h
    BY <2>2, <2>3, <2>4, <2>5, ChecksumAssumption
  <2> QED BY <2>2, <2>6 DEF n
<1>2. FInv => SkipsOnlyHanded
  BY <1>1 DEF SkipsOnlyHanded
<1> QED BY <1>2, FInvCorrect, PTL

(* readFInfoList() brings every line that saveFInfoList() wrote whole back *)
(* as it was, colons in the name or not, if the file still exists.         *)
THEOREM WholeLinesCorrect == Spec => []WholeLinesComeBack
<1>1. ASSUME FInv, pc = "read", rest = <<>>, NEW f \in whole \intersect exists
      PROVE  f \in DOMAIN info /\ info[f] = told[f]
  <2> USE <1>1 DEF FInv
  <2>1. PICK i \in Starts(text) \union {Len(text) + 1} :
          /\ rest = From(text, i)
          /\ \/ f \in DOMAIN info /\ info[f] = told[f]
             \/ \E j \in Starts(text) :
                  j >= i /\ StandsAt(text, j, Line(f, told[f]))
    BY DEF ReadsOn
  <2>2. text \in Text /\ Len(text) \in Nat /\ i \in 1..Len(text) + 1
    BY DEF TypeOK, Text, Starts
  <2>3. i = Len(text) + 1
    <3>1. Len(From(text, i)) = 0 /\ Len(From(text, i)) = Len(text) + 1 - i
      BY <2>1, <2>2, FromIs
    <3> QED BY <2>2, <3>1
  <2>4. ASSUME NEW j \in Starts(text), j >= i, StandsAt(text, j, Line(f, told[f]))
        PROVE  FALSE
    <3>1. f \in Name /\ told[f] \in Entry
      BY ToldIs DEF TypeOK
    <3>2. Len(Line(f, told[f])) \in Nat \ {0}
      BY <3>1, LineEnds
    <3>3. j + Len(Line(f, told[f])) <= Len(text) + 1 /\ j \in Nat
      BY <2>4 DEF StandsAt, Starts
    <3> QED BY <2>2, <2>3, <2>4, <3>2, <3>3
  <2> QED BY <2>1, <2>4
<1>2. FInv => WholeLinesComeBack
  BY <1>1 DEF WholeLinesComeBack
<1> QED BY <1>2, FInvCorrect, PTL

(* The lexical_cast of readFInfoList() that nothing catches throws only    *)
(* for a line that a full disk cut, behind its second colon or of a name   *)
(* with colons: no whole line keeps the daemon from starting.              *)
THEOREM AbortsCorrect == Spec => []AbortsForACutOnly
<1>1. FInv => AbortsForACutOnly
  BY DEF FInv
<1> QED BY <1>1, FInvCorrect, PTL
==============================================================================
