--------------------------- MODULE DecimalsProofs ---------------------------
(***************************************************************************)
(* Proofs about Decimals, for every width, range of exponents, text and    *)
(* token: what is read, shown or turned into units is the amount itself.   *)
(* The first part shows that the recursive definitions of the model mean   *)
(* what they say, by minimal counterexample; the second is the arithmetic  *)
(* of powers of ten and of digits; the third follows the code.             *)
(***************************************************************************)
EXTENDS Decimals, SequenceTheorems, WellFoundedInduction, TLAPS

-----------------------------------------------------------------------------
(* Recursion on the naturals.                                              *)

Below == {ss \in Nat \X Nat : ss[1] < ss[2]}

LEMMA BelowIsWellFounded == IsWellFoundedOn(Below, Nat)
<1>1. IsWellFoundedOn(OpToRel(<, Nat), Nat)
  BY NatLessThanWellFounded
<1> QED
  BY <1>1 DEF OpToRel, Below

\* Induction, with the set of the numbers that have the property.
LEMMA Induction ==
  ASSUME NEW S \in SUBSET Nat, 0 \in S, \A n \in S : n + 1 \in S
  PROVE  S = Nat
<1> DEFINE missing == Nat \ S
<1>1. SUFFICES ASSUME missing # {} PROVE FALSE
  OBVIOUS
<1>2. missing \in SUBSET Nat
  OBVIOUS
<1>3. \E x \in missing : \A y \in missing : ~(<<y, x>> \in Below)
  BY <1>1, <1>2, BelowIsWellFounded, WFMin, Zenon
<1>4. PICK m \in missing : \A k \in missing : ~(k < m)
  BY <1>3 DEF Below
<1>5. m \in Nat /\ m # 0
  OBVIOUS
<1>6. m - 1 \in Nat /\ m - 1 < m /\ (m - 1) + 1 = m
  BY <1>5
<1>7. m - 1 \in S
  BY <1>4, <1>6
<1> QED
  BY <1>6, <1>7

\* A function can be defined by its first value and the step to the next.
LEMMA Recursion ==
  ASSUME NEW base \in Nat, NEW step \in [Nat \X Nat -> Nat]
  PROVE  \E f \in [Nat -> Nat] :
           f[0] = base /\ \A n \in Nat : f[n + 1] = step[<<n, f[n]>>]
<1> DEFINE Starts(N) == {g \in [0..N -> Nat] :
                          /\ g[0] = base
                          /\ \A n \in 0..(N - 1) : g[n + 1] = step[<<n, g[n]>>]}
<1>1. ASSUME NEW N \in Nat, NEW M \in Nat, NEW g \in Starts(N), NEW h \in Starts(M)
      PROVE  \A k \in Nat : k <= N /\ k <= M => g[k] = h[k]
  <2> DEFINE S == {k \in Nat : k <= N /\ k <= M => g[k] = h[k]}
  <2>1. 0 \in S
    OBVIOUS
  <2>2. ASSUME NEW k \in S PROVE k + 1 \in S
    <3> SUFFICES ASSUME k + 1 <= N, k + 1 <= M PROVE g[k + 1] = h[k + 1]
      OBVIOUS
    <3>1. k \in 0..(N - 1) /\ k \in 0..(M - 1) /\ g[k] = h[k]
      OBVIOUS
    <3> QED
      BY <3>1
  <2> HIDE DEF S
  <2>3. S = Nat
    BY <2>1, <2>2, Induction DEF S
  <2> QED
    BY <2>3 DEF S
<1>2. \A N \in Nat : Starts(N) # {}
  <2> DEFINE S == {N \in Nat : Starts(N) # {}}
  <2>1. 0 \in S
    <3>1. [n \in 0..0 |-> base] \in Starts(0)
      OBVIOUS
    <3> QED
      BY <3>1
  <2>2. ASSUME NEW N \in S PROVE N + 1 \in S
    <3>1. PICK g \in Starts(N) : TRUE
      OBVIOUS
    <3> DEFINE h == [n \in 0..(N + 1) |-> IF n = N + 1 THEN step[<<N, g[N]>>] ELSE g[n]]
    <3>2. N \in Nat /\ g \in [0..N -> Nat] /\ g[0] = base
      OBVIOUS
    <3>3. \A n \in 0..(N - 1) : g[n + 1] = step[<<n, g[n]>>]
      OBVIOUS
    <3>4. h \in [0..(N + 1) -> Nat]
      BY <3>2
    <3>5. (\A n \in 0..N : h[n] = g[n]) /\ h[N + 1] = step[<<N, g[N]>>]
      BY <3>2
    <3> HIDE DEF h
    <3>6. ASSUME NEW n \in 0..N PROVE h[n + 1] = step[<<n, h[n]>>]
      <4>1. CASE n = N
        BY <3>2, <3>5, <4>1
      <4>2. CASE n # N
        <5>1. n \in 0..(N - 1) /\ n + 1 \in 0..N
          BY <3>2, <4>2
        <5> QED
          BY <3>3, <3>5, <5>1
      <4> QED
        BY <4>1, <4>2
    <3>7. (N + 1) - 1 = N /\ 0 \in 0..N
      BY <3>2
    <3>8. h \in Starts(N + 1)
      BY <3>2, <3>4, <3>5, <3>6, <3>7
    <3> HIDE DEF Starts
    <3> QED
      BY <3>2, <3>8
  <2> HIDE DEF S
  <2>3. S = Nat
    BY <2>1, <2>2, Induction DEF S
  <2> QED
    BY <2>3 DEF S
<1> DEFINE Start(n) == CHOOSE g \in Starts(n) : TRUE
           f == [n \in Nat |-> Start(n)[n]]
<1>3. \A n \in Nat : Start(n) \in Starts(n)
  BY <1>2
<1> HIDE DEF Start
<1>4. f \in [Nat -> Nat] /\ f[0] = base
  BY <1>3
<1>5. ASSUME NEW n \in Nat PROVE f[n + 1] = step[<<n, f[n]>>]
  <2>1. Start(n + 1) \in Starts(n + 1) /\ Start(n) \in Starts(n)
    <3> HIDE DEF Starts
    <3> QED
      BY <1>3
  <2>2. Start(n + 1)[n + 1] = step[<<n, Start(n + 1)[n]>>]
    <3>1. n \in 0..((n + 1) - 1)
      OBVIOUS
    <3> QED
      BY <2>1, <3>1
  <2>3. Start(n + 1)[n] = Start(n)[n]
    <3> HIDE DEF Starts
    <3> QED
      BY <1>1, <2>1
  <2>4. f[n + 1] = Start(n + 1)[n + 1] /\ f[n] = Start(n)[n]
    <3> HIDE DEF Starts
    <3> QED
      OBVIOUS
  <2> HIDE DEF f
  <2> QED
    BY <2>2, <2>3, <2>4
<1> QED
  BY <1>4, <1>5

-----------------------------------------------------------------------------
(* Powers of ten.                                                          *)

LEMMA Pow10Def == Pow10 = [n \in Nat |-> IF n = 0 THEN 1 ELSE 10 * Pow10[n - 1]]
<1> DEFINE step == [s \in Nat \X Nat |-> 10 * s[2]]
           Meant(g) == g = [n \in Nat |-> IF n = 0 THEN 1 ELSE 10 * g[n - 1]]
<1>1. step \in [Nat \X Nat -> Nat]
  OBVIOUS
<1>2. \A n, m \in Nat : step[<<n, m>>] = 10 * m
  OBVIOUS
<1> HIDE DEF step
<1>3. PICK f \in [Nat -> Nat] : f[0] = 1 /\ \A n \in Nat : f[n + 1] = step[<<n, f[n]>>]
  <2>1. 1 \in Nat
    OBVIOUS
  <2> QED
    BY ONLY <1>1, <2>1, Recursion, Zenon
<1>4. ASSUME NEW n \in Nat PROVE f[n] = IF n = 0 THEN 1 ELSE 10 * f[n - 1]
  <2>1. CASE n = 0
    BY <1>3, <2>1
  <2>2. CASE n # 0
    <3>1. n - 1 \in Nat /\ (n - 1) + 1 = n
      BY <2>2
    <3> QED
      BY <1>2, <1>3, <2>2, <3>1
  <2> QED
    BY <2>1, <2>2
<1>5. Meant(f)
  BY <1>3, <1>4
<1>6. Pow10 = CHOOSE g : Meant(g)
  BY DEF Pow10
<1> HIDE DEF Meant
<1>7. Meant(Pow10)
  BY <1>5, <1>6
<1> QED
  BY <1>7 DEF Meant

LEMMA Pow10Next ==
  /\ Pow10[0] = 1
  /\ \A n \in Nat : Pow10[n + 1] = 10 * Pow10[n]
<1>1. Pow10[0] = 1
  BY Pow10Def
<1>2. ASSUME NEW n \in Nat PROVE Pow10[n + 1] = 10 * Pow10[n]
  <2>1. n + 1 \in Nat /\ n + 1 # 0 /\ (n + 1) - 1 = n
    OBVIOUS
  <2> QED
    BY <2>1, Pow10Def
<1> QED
  BY <1>1, <1>2

LEMMA Pow10Grows == \A n \in Nat : Pow10[n] \in Nat /\ n < Pow10[n]
<1> DEFINE S == {n \in Nat : Pow10[n] \in Nat /\ n < Pow10[n]}
<1>1. 0 \in S
  BY Pow10Next
<1>2. ASSUME NEW n \in S PROVE n + 1 \in S
  <2>1. Pow10[n + 1] = 10 * Pow10[n] /\ n \in Nat /\ Pow10[n] \in Nat /\ n < Pow10[n]
    BY Pow10Next
  <2>2. Pow10[n + 1] \in Nat /\ n + 1 < Pow10[n + 1]
    BY <2>1
  <2> QED
    BY <2>1, <2>2
<1> HIDE DEF S
<1>3. S = Nat
  BY <1>1, <1>2, Induction DEF S
<1> QED
  BY <1>3 DEF S

LEMMA Pow10Sum == \A a, b \in Nat : Pow10[a + b] = Pow10[a] * Pow10[b]
<1> SUFFICES ASSUME NEW a \in Nat PROVE \A b \in Nat : Pow10[a + b] = Pow10[a] * Pow10[b]
  OBVIOUS
<1> DEFINE S == {b \in Nat : Pow10[a + b] = Pow10[a] * Pow10[b]}
<1>1. 0 \in S
  <2>1. a + 0 = a /\ Pow10[a] \in Nat
    BY Pow10Grows
  <2> QED
    BY <2>1, Pow10Next
<1>2. ASSUME NEW b \in S PROVE b + 1 \in S
  <2>1. b \in Nat /\ a + b \in Nat /\ a + (b + 1) = (a + b) + 1
    OBVIOUS
  <2>2. Pow10[a + (b + 1)] = 10 * Pow10[a + b] /\ Pow10[b + 1] = 10 * Pow10[b]
    BY <2>1, Pow10Next
  <2>3. Pow10[a] \in Nat /\ Pow10[b] \in Nat /\ Pow10[a + b] = Pow10[a] * Pow10[b]
    BY <2>1, Pow10Grows
  <2>4. Pow10[a + (b + 1)] = Pow10[a] * Pow10[b + 1]
    BY <2>2, <2>3
  <2> QED
    BY <2>1, <2>4
<1> HIDE DEF S
<1>3. S = Nat
  BY <1>1, <1>2, Induction DEF S
<1> QED
  BY <1>3 DEF S

LEMMA Pow10Monotone == \A a, b \in Nat : a <= b => Pow10[a] <= Pow10[b]
<1> SUFFICES ASSUME NEW a \in Nat, NEW b \in Nat, a <= b PROVE Pow10[a] <= Pow10[b]
  OBVIOUS
<1>1. b - a \in Nat /\ a + (b - a) = b
  OBVIOUS
<1>2. Pow10[b] = Pow10[a] * Pow10[b - a]
  BY <1>1, Pow10Sum
<1>3. Pow10[a] \in Nat /\ Pow10[b - a] \in Nat /\ Pow10[b - a] > 0
  BY <1>1, Pow10Grows
<1> QED
  BY <1>2, <1>3

-----------------------------------------------------------------------------
(* What a sequence of digits spells.                                       *)

Numerals == Seq(0..9)

\* f[n] is what the first n digits spell.
Spells(f, digits) ==
    f = [n \in 0..Len(digits) |-> IF n = 0 THEN 0 ELSE 10 * f[n - 1] + digits[n]]

LEMMA SpellsOnce ==
  ASSUME NEW digits \in Numerals, NEW f, NEW g, Spells(f, digits), Spells(g, digits)
  PROVE  f[Len(digits)] = g[Len(digits)]
<1> DEFINE len == Len(digits)
           S == {n \in Nat : n <= len => f[n] = g[n]}
<1>1. len \in Nat
  BY LenProperties DEF Numerals
<1> HIDE DEF len
<1>2. f[0] = 0 /\ g[0] = 0
  BY <1>1 DEF Spells, len
<1>3. ASSUME NEW n \in Nat, n + 1 <= len
      PROVE  f[n + 1] = 10 * f[n] + digits[n + 1] /\ g[n + 1] = 10 * g[n] + digits[n + 1]
  <2>1. n + 1 \in 0..len /\ n + 1 # 0 /\ (n + 1) - 1 = n
    BY <1>1, <1>3
  <2> QED
    BY <2>1 DEF Spells, len
<1>4. 0 \in S
  BY <1>2
<1>5. ASSUME NEW n \in S PROVE n + 1 \in S
  <2>1. n \in Nat /\ n + 1 \in Nat /\ (n + 1 <= len => n <= len)
    BY <1>1
  <2>2. ASSUME n + 1 <= len PROVE f[n + 1] = g[n + 1]
    BY <1>3, <2>1, <2>2
  <2> QED
    BY <2>1, <2>2
<1> HIDE DEF S
<1>6. S = Nat
  BY <1>4, <1>5, Induction DEF S
<1>7. len \in S
  BY <1>1, <1>6
<1>8. f[len] = g[len]
  BY <1>1, <1>7 DEF S
<1> QED
  BY <1>8 DEF len

LEMMA NumberIs ==
  ASSUME NEW digits \in Numerals, NEW f, Spells(f, digits)
  PROVE  Number(digits) = f[Len(digits)]
<1> DEFINE read == CHOOSE g : Spells(g, digits)
<1>1. Number(digits) = read[Len(digits)]
  BY DEF Number, Spells
<1>2. Spells(read, digits)
  OBVIOUS
<1> HIDE DEF read
<1> QED
  BY <1>1, <1>2, SpellsOnce

LEMMA NumberSpelled ==
  ASSUME NEW digits \in Numerals
  PROVE  \E f \in [0..Len(digits) -> Nat] : Spells(f, digits) /\ Number(digits) = f[Len(digits)]
<1> DEFINE len == Len(digits)
           step == [s \in Nat \X Nat |->
                      IF s[1] + 1 <= len THEN 10 * s[2] + digits[s[1] + 1] ELSE 0]
<1>1. len \in Nat /\ \A n \in 1..len : digits[n] \in 0..9
  BY LenProperties, ElementOfSeq DEF Numerals
<1>2. step \in [Nat \X Nat -> Nat]
  <2> HIDE DEF len
  <2>1. ASSUME NEW s \in Nat \X Nat
        PROVE  (IF s[1] + 1 <= len THEN 10 * s[2] + digits[s[1] + 1] ELSE 0) \in Nat
    <3>1. s[1] \in Nat /\ s[2] \in Nat
      OBVIOUS
    <3>2. s[1] + 1 <= len => s[1] + 1 \in 1..len
      BY <1>1, <3>1
    <3>3. s[1] + 1 <= len => digits[s[1] + 1] \in Nat
      BY <1>1, <3>2
    <3> QED
      BY <3>1, <3>3
  <2> QED
    BY <2>1
<1>3. \A n, m \in Nat : n + 1 <= len => step[<<n, m>>] = 10 * m + digits[n + 1]
  OBVIOUS
<1> HIDE DEF step, len
<1>4. PICK f \in [Nat -> Nat] : f[0] = 0 /\ \A n \in Nat : f[n + 1] = step[<<n, f[n]>>]
  <2>1. 0 \in Nat
    OBVIOUS
  <2> QED
    BY ONLY <1>2, <2>1, Recursion, Zenon
<1> DEFINE g == [n \in 0..len |-> f[n]]
<1>5. g \in [0..len -> Nat]
  BY <1>1, <1>4
<1>6. ASSUME NEW n \in 0..len
      PROVE  g[n] = IF n = 0 THEN 0 ELSE 10 * g[n - 1] + digits[n]
  <2>1. CASE n = 0
    BY <1>4, <2>1
  <2>2. CASE n # 0
    <3>1. n - 1 \in 0..len /\ n - 1 \in Nat /\ (n - 1) + 1 = n /\ n <= len /\ n \in Nat
      BY <1>1, <2>2
    <3>2. f[n] = step[<<n - 1, f[n - 1]>>]
      BY <1>4, <3>1
    <3>3. f[n] = 10 * f[n - 1] + digits[n]
      BY <1>3, <1>4, <3>1, <3>2
    <3> QED
      BY <2>2, <3>1, <3>3
  <2> QED
    BY <2>1, <2>2
<1>7. Spells(g, digits)
  BY <1>5, <1>6 DEF Spells, len
<1> QED
  BY <1>5, <1>7, NumberIs DEF len

LEMMA NumberType == \A digits \in Numerals : Number(digits) \in Nat
<1> SUFFICES ASSUME NEW digits \in Numerals PROVE Number(digits) \in Nat
  OBVIOUS
<1>1. Len(digits) \in 0..Len(digits)
  BY LenProperties DEF Numerals
<1> QED
  BY <1>1, NumberSpelled

-----------------------------------------------------------------------------
(* Division.                                                               *)

LEMMA DivUnique ==
  ASSUME NEW n \in Int, NEW d \in Nat \ {0}, NEW q \in Int, NEW r \in 0..(d - 1),
         n = d * q + r
  PROVE  n \div d = q /\ n % d = r
<1> DEFINE p == n \div d
           s == n % d
<1>1. n = d * p + s /\ p \in Int /\ s \in 0..(d - 1)
  OBVIOUS
<1> HIDE DEF p, s
<1>2. d * (q - p) = s - r
  BY <1>1
<1>3. q - p < 1 /\ p - q < 1
  BY <1>1, <1>2
<1>4. q = p /\ r = s
  BY <1>1, <1>2, <1>3
<1> QED
  BY <1>4 DEF p, s

LEMMA Cancel ==
  ASSUME NEW a \in Int, NEW b \in Int, NEW c \in Nat \ {0}, a * c = b * c
  PROVE  a = b
<1>1. (a - b) * c = 0
  OBVIOUS
<1>2. a - b < 1 /\ b - a < 1
  BY <1>1
<1> QED
  BY <1>2

LEMMA DivTwice ==
  ASSUME NEW n \in Nat, NEW m \in Nat \ {0}
  PROVE  n \div (10 * m) = (n \div m) \div 10
<1> DEFINE q == n \div m
           r == n % m
           p == q \div 10
           s == q % 10
<1>1. n = m * q + r /\ q \in Nat /\ r \in 0..(m - 1)
  OBVIOUS
<1> HIDE DEF q, r
<1>2. q = 10 * p + s /\ p \in Nat /\ s \in 0..9
  BY <1>1
<1> HIDE DEF p, s
<1>3. n = (10 * m) * p + (m * s + r)
  BY <1>1, <1>2
<1>4. m * s <= 9 * m /\ m * s \in Nat
  BY <1>2
<1>5. m * s + r \in 0..(10 * m - 1) /\ 10 * m \in Nat \ {0}
  BY <1>1, <1>4
<1>6. n \div (10 * m) = p
  BY <1>2, <1>3, <1>5, DivUnique
<1> QED
  BY <1>6 DEF p, q

-----------------------------------------------------------------------------
(* The digits of a number spell it.                                        *)

LEMMA WidthIs ==
  ASSUME NEW n \in Nat
  PROVE  Width(n) \in 1..(n + 1) /\ n < Pow10[Width(n)]
<1> DEFINE Wide == {w \in Nat : w >= 1 /\ n < Pow10[w]}
<1>1. n + 1 \in Wide
  <2>1. n + 1 \in Nat /\ n + 1 < Pow10[n + 1] /\ Pow10[n + 1] \in Nat
    BY Pow10Grows
  <2> QED
    BY <2>1
<1>2. \E x \in Wide : \A y \in Wide : ~(<<y, x>> \in Below)
  <2>1. Wide \in SUBSET Nat /\ Wide # {}
    BY <1>1
  <2> HIDE DEF Wide
  <2> QED
    BY <2>1, BelowIsWellFounded, WFMin, Zenon
<1>3. PICK w \in Wide : \A v \in Wide : ~(v < w)
  BY <1>2 DEF Below
<1>4. w \in 1..(n + 1) /\ n < Pow10[w]
  BY <1>1, <1>3
<1>5. ASSUME w > 1 PROVE Pow10[w - 1] <= n
  <2>1. w - 1 \in Nat /\ w - 1 >= 1 /\ w - 1 < w
    BY <1>4, <1>5
  <2>2. w - 1 \notin Wide
    BY <1>3, <2>1
  <2>3. Pow10[w - 1] \in Nat
    BY <2>1, Pow10Grows
  <2> QED
    BY <2>1, <2>2, <2>3
<1>6. \E v \in 1..(n + 1) : n < Pow10[v] /\ (v > 1 => Pow10[v - 1] <= n)
  BY <1>4, <1>5
<1> QED
  BY <1>6 DEF Width

\* A function from 1..n is a sequence of length n.
LEMMA FunctionIsSeq ==
  ASSUME NEW S, NEW n \in Nat, NEW f \in [1..n -> S]
  PROVE  f \in Seq(S) /\ Len(f) = n
<1>1. f \in Seq(S)
  BY SeqDef
<1>2. Len(f) \in Nat /\ DOMAIN f = 1..Len(f) /\ DOMAIN f = 1..n
  BY <1>1, LenProperties
<1> QED
  BY <1>1, <1>2

LEMMA DigitsSpell ==
  ASSUME NEW n \in Nat
  PROVE  /\ DigitsOf(n) \in Numerals
         /\ Len(DigitsOf(n)) \in Nat \ {0}
         /\ Number(DigitsOf(n)) = n
<1> DEFINE w == Width(n)
           digits == DigitsOf(n)
           f == [i \in 0..w |-> n \div Pow10[w - i]]
<1>1. w \in Nat \ {0} /\ n < Pow10[w]
  BY WidthIs
<1> HIDE DEF w
<1>2. ASSUME NEW i \in 0..w
      PROVE  w - i \in Nat /\ Pow10[w - i] \in Nat \ {0} /\ n \div Pow10[w - i] \in Nat
  <2>1. w - i \in Nat
    BY <1>1
  <2>2. Pow10[w - i] \in Nat \ {0}
    BY <2>1, Pow10Grows
  <2> QED
    BY <2>1, <2>2
<1>3. digits = [i \in 1..w |-> (n \div Pow10[w - i]) % 10]
  BY DEF DigitsOf, w
<1> HIDE DEF digits
<1>4. ASSUME NEW i \in 1..w PROVE (n \div Pow10[w - i]) % 10 \in 0..9
  <2>1. n \div Pow10[w - i] \in Nat
    BY <1>1, <1>2
  <2>2. \A q \in Nat : q % 10 \in 0..9
    OBVIOUS
  <2> QED
    BY <2>1, <2>2
<1>5. digits \in Numerals /\ Len(digits) = w
  <2>1. digits \in [1..w -> 0..9]
    BY <1>3, <1>4
  <2> QED
    BY <1>1, <2>1, FunctionIsSeq DEF Numerals
<1>6. ASSUME NEW i \in 0..w
      PROVE  f[i] = IF i = 0 THEN 0 ELSE 10 * f[i - 1] + digits[i]
  <2>1. CASE i = 0
    <3>1. w - 0 = w /\ Pow10[w] \in Nat
      BY <1>1, Pow10Grows
    <3>2. n \div Pow10[w] = 0
      BY <1>1, <3>1, DivUnique
    <3> QED
      BY <1>1, <2>1, <3>1, <3>2
  <2>2. CASE i # 0
    <3>1. i \in 1..w /\ i - 1 \in 0..w /\ w - (i - 1) = (w - i) + 1
      BY <1>1, <2>2
    <3> DEFINE m == Pow10[w - i]
               q == n \div m
    <3>2. Pow10[(w - i) + 1] = 10 * m /\ m \in Nat \ {0} /\ q \in Nat
      BY <1>2, <3>1, Pow10Next
    <3>3. f[i - 1] = n \div (10 * m)
      BY <3>1, <3>2
    <3>4. f[i] = q /\ digits[i] = q % 10
      BY <1>3, <3>1
    <3>5. n \div (10 * m) = q \div 10
      <4> HIDE DEF f
      <4> QED
        BY <3>2, DivTwice
    <3> HIDE DEF q, f, m
    <3>6. q = 10 * (q \div 10) + (q % 10)
      BY <3>2
    <3>7. f[i] = 10 * f[i - 1] + digits[i]
      BY <3>3, <3>4, <3>5, <3>6
    <3> QED
      BY <2>2, <3>7
  <2> QED
    BY <2>1, <2>2
<1>7. Spells(f, digits)
  BY <1>5, <1>6 DEF Spells
<1>8. f[w] = n
  <2>1. w - w = 0 /\ w \in 0..w /\ Pow10[0] = 1
    BY <1>1, Pow10Next
  <2>2. n \div 1 = n
    OBVIOUS
  <2> QED
    BY <2>1, <2>2
<1>9. Number(digits) = f[w]
  <2> HIDE DEF f
  <2> QED
    BY <1>5, <1>7, NumberIs
<1> QED
  BY <1>1, <1>5, <1>8, <1>9 DEF digits

LEMMA ZerosAre ==
  ASSUME NEW k \in Nat
  PROVE  /\ Zeros(k) \in Numerals /\ Len(Zeros(k)) = k
         /\ \A i \in 1..k : Zeros(k)[i] = 0
<1>1. Zeros(k) \in [1..k -> 0..9]
  BY DEF Zeros
<1> QED
  BY <1>1, FunctionIsSeq DEF Zeros, Numerals

\* Two sequences of digits, one after the other.
LEMMA Joined ==
  ASSUME NEW s1 \in Numerals, NEW s2 \in Numerals
  PROVE  /\ s1 \o s2 \in Numerals
         /\ Len(s1) \in Nat /\ Len(s2) \in Nat
         /\ Len(s1 \o s2) = Len(s1) + Len(s2)
         /\ \A i \in 1..(Len(s1) + Len(s2)) :
              (s1 \o s2)[i] = IF i <= Len(s1) THEN s1[i] ELSE s2[i - Len(s1)]
<1>1. s1 \in Seq(0..9) /\ s2 \in Seq(0..9)
  BY DEF Numerals
<1>2. /\ s1 \o s2 \in Seq(0..9)
      /\ Len(s1 \o s2) = Len(s1) + Len(s2)
      /\ \A i \in 1..(Len(s1) + Len(s2)) :
           (s1 \o s2)[i] = IF i <= Len(s1) THEN s1[i] ELSE s2[i - Len(s1)]
  BY ONLY <1>1, ConcatProperties, Zenon
<1> QED
  BY <1>1, <1>2, LenProperties DEF Numerals

\* Zeros on the left change nothing.
LEMMA NumberPadded ==
  ASSUME NEW digits \in Numerals, NEW k \in Nat
  PROVE  /\ Zeros(k) \o digits \in Numerals
         /\ Len(Zeros(k) \o digits) = k + Len(digits)
         /\ Number(Zeros(k) \o digits) = Number(digits)
<1> DEFINE len == Len(digits)
           padded == Zeros(k) \o digits
<1>1. len \in Nat
  BY LenProperties DEF Numerals
<1>2. /\ padded \in Numerals /\ Len(padded) = k + len
      /\ \A i \in 1..(k + len) : padded[i] = IF i <= k THEN 0 ELSE digits[i - k]
  <2>1. Zeros(k) \in Numerals /\ Len(Zeros(k)) = k /\ \A i \in 1..k : Zeros(k)[i] = 0
    BY ZerosAre
  <2>2. /\ padded \in Numerals /\ Len(padded) = k + len
        /\ \A i \in 1..(k + len) : padded[i] = IF i <= k THEN Zeros(k)[i] ELSE digits[i - k]
    <3>1. ASSUME NEW zeros \in Numerals, Len(zeros) = k
          PROVE  /\ zeros \o digits \in Numerals /\ Len(zeros \o digits) = k + len
                 /\ \A i \in 1..(k + len) :
                      (zeros \o digits)[i] = IF i <= k THEN zeros[i] ELSE digits[i - k]
      BY <3>1, Joined
    <3> QED
      BY <2>1, <3>1
  <2> HIDE DEF padded, len
  <2>3. ASSUME NEW i \in 1..(k + len)
        PROVE  padded[i] = IF i <= k THEN 0 ELSE digits[i - k]
    <3>1. i <= k => i \in 1..k
      BY <1>1
    <3>2. i <= k => Zeros(k)[i] = 0
      BY <2>1, <3>1
    <3> QED
      BY <2>2, <3>2
  <2> QED
    BY <2>2, <2>3
<1> HIDE DEF padded, len
<1>3. PICK g \in [0..len -> Nat] : Spells(g, digits) /\ Number(digits) = g[len]
  BY NumberSpelled DEF len
<1> DEFINE f == [n \in 0..(k + len) |-> IF n <= k THEN 0 ELSE g[n - k]]
<1>4. ASSUME NEW n \in 0..(k + len)
      PROVE  f[n] = IF n = 0 THEN 0 ELSE 10 * f[n - 1] + padded[n]
  <2>1. CASE n = 0
    BY <1>1, <2>1
  <2>2. CASE n \in 1..k
    <3>1. n - 1 \in 0..(k + len) /\ n \in 1..(k + len) /\ n # 0 /\ n <= k /\ n - 1 <= k
      BY <1>1, <2>2
    <3>2. padded[n] = 0 /\ f[n] = 0 /\ f[n - 1] = 0
      BY <1>2, <3>1
    <3> QED
      BY <3>1, <3>2
  <2>3. CASE n > k
    <3> DEFINE j == n - k
    <3>1. /\ n - 1 \in 0..(k + len) /\ n \in 1..(k + len) /\ n # 0 /\ ~(n <= k)
          /\ j \in 1..len /\ j - 1 \in 0..len
          /\ j = n - k /\ j - 1 = (n - 1) - k /\ (n - 1 <= k => j - 1 = 0)
      BY <1>1, <2>3
    <3> HIDE DEF j
    <3>2. padded[n] = digits[j]
      BY <1>2, <3>1
    <3>3. f[n] = g[j]
      BY <3>1
    <3>4. g[0] = 0 /\ g[j] = 10 * g[j - 1] + digits[j]
      BY <1>1, <3>1 DEF Spells, len
    <3>5. f[n - 1] = g[j - 1]
      BY <3>1, <3>4
    <3> QED
      BY <3>1, <3>2, <3>3, <3>4, <3>5
  <2> QED
    BY <1>1, <2>1, <2>2, <2>3
<1>5. Spells(f, padded)
  BY <1>2, <1>4 DEF Spells
<1>6. f[k + len] = g[len]
  <2>1. k + len \in 0..(k + len) /\ (k + len) - k = len /\ (k + len <= k => len = 0)
    BY <1>1
  <2>2. g[0] = 0
    BY <1>1, <1>3 DEF Spells, len
  <2> QED
    BY <2>1, <2>2
<1>7. Number(padded) = f[k + len]
  <2> HIDE DEF f
  <2> QED
    BY <1>2, <1>5, NumberIs
<1> QED
  BY <1>2, <1>3, <1>6, <1>7 DEF padded, len

\* Each zero on the right is a power of ten.
LEMMA NumberShifted ==
  ASSUME NEW digits \in Numerals, NEW k \in Nat
  PROVE  /\ digits \o Zeros(k) \in Numerals
         /\ Len(digits \o Zeros(k)) = Len(digits) + k
         /\ Number(digits \o Zeros(k)) = Number(digits) * Pow10[k]
<1> DEFINE len == Len(digits)
           shifted == digits \o Zeros(k)
<1>1. len \in Nat
  BY LenProperties DEF Numerals
<1>2. /\ shifted \in Numerals /\ Len(shifted) = len + k
      /\ \A i \in 1..(len + k) : shifted[i] = IF i <= len THEN digits[i] ELSE 0
  <2>1. Zeros(k) \in Numerals /\ Len(Zeros(k)) = k /\ \A i \in 1..k : Zeros(k)[i] = 0
    BY ZerosAre
  <2>2. /\ shifted \in Numerals /\ Len(shifted) = len + k
        /\ \A i \in 1..(len + k) : shifted[i] = IF i <= len THEN digits[i] ELSE Zeros(k)[i - len]
    BY <2>1, Joined
  <2> HIDE DEF shifted, len
  <2>3. \A i \in 1..(len + k) : ~(i <= len) => i - len \in 1..k
    BY <1>1
  <2> QED
    BY <2>1, <2>2, <2>3
<1> HIDE DEF shifted, len
<1>3. PICK g \in [0..len -> Nat] : Spells(g, digits) /\ Number(digits) = g[len]
  BY NumberSpelled DEF len
<1>4. g[len] \in Nat
  BY <1>1
<1> DEFINE f == [n \in 0..(len + k) |-> IF n <= len THEN g[n] ELSE g[len] * Pow10[n - len]]
<1>5. ASSUME NEW n \in 0..(len + k)
      PROVE  f[n] = IF n = 0 THEN 0 ELSE 10 * f[n - 1] + shifted[n]
  <2>1. CASE n \in 0..len
    <3>1. f[n] = g[n]
      BY <1>1, <2>1
    <3>2. g[n] = IF n = 0 THEN 0 ELSE 10 * g[n - 1] + digits[n]
      BY <2>1, <1>3 DEF Spells, len
    <3>3. ASSUME n # 0 PROVE f[n - 1] = g[n - 1] /\ shifted[n] = digits[n]
      <4>1. n - 1 \in 0..(len + k) /\ n - 1 <= len /\ n \in 1..(len + k) /\ n <= len
        BY <1>1, <2>1, <3>3
      <4> QED
        BY <1>2, <4>1
    <3> HIDE DEF f
    <3> QED
      BY <3>1, <3>2, <3>3
  <2>2. CASE n > len
    <3> DEFINE j == n - 1 - len
    <3>1. /\ n - 1 \in 0..(len + k) /\ n \in 1..(len + k) /\ n # 0 /\ ~(n <= len)
          /\ j \in Nat /\ n - len = j + 1 /\ j = (n - 1) - len
          /\ (n - 1 <= len => j = 0 /\ n - 1 = len)
      BY <1>1, <2>2
    <3> HIDE DEF j
    <3>2. shifted[n] = 0
      BY <1>2, <3>1
    <3>3. Pow10[j] \in Nat /\ Pow10[j + 1] = 10 * Pow10[j] /\ Pow10[0] = 1
      BY <3>1, Pow10Next, Pow10Grows
    <3>4. f[n] = g[len] * Pow10[j + 1]
      BY <3>1
    <3>5. f[n - 1] = g[len] * Pow10[j]
      <4>1. CASE n - 1 <= len
        <5>1. f[n - 1] = g[len] /\ Pow10[j] = 1
          BY <3>1, <3>3, <4>1
        <5> HIDE DEF f
        <5> QED
          BY <1>4, <5>1
      <4>2. CASE ~(n - 1 <= len)
        BY <3>1, <4>2
      <4> QED
        BY <4>1, <4>2
    <3> HIDE DEF f
    <3>6. f[n] = 10 * f[n - 1]
      BY <1>4, <3>3, <3>4, <3>5
    <3>7. f[n - 1] \in Nat
      BY <1>4, <3>3, <3>5
    <3> QED
      BY <3>1, <3>2, <3>6, <3>7
  <2> QED
    BY <1>1, <2>1, <2>2
<1>6. Spells(f, shifted)
  BY <1>2, <1>5 DEF Spells
<1>7. f[len + k] = g[len] * Pow10[k]
  <2>1. len + k \in 0..(len + k) /\ (len + k) - len = k /\ (len + k <= len => k = 0 /\ len + k = len)
    BY <1>1
  <2>2. CASE k = 0
    <3>1. f[len + k] = g[len] /\ Pow10[k] = 1
      BY <1>1, <2>1, <2>2, Pow10Next
    <3> HIDE DEF f
    <3> QED
      BY <1>4, <3>1
  <2>3. CASE k # 0
    BY <2>1, <2>3
  <2> QED
    BY <2>2, <2>3
<1>8. Number(shifted) = f[len + k]
  <2> HIDE DEF f
  <2> QED
    BY <1>2, <1>6, NumberIs
<1> QED
  BY <1>2, <1>3, <1>7, <1>8 DEF shifted, len

-----------------------------------------------------------------------------
(* Amounts.                                                                *)

LEMMA FinestIs ==
  /\ Finest \in Nat
  /\ MaxFraction <= Finest /\ MaxExponent <= Finest
  /\ MaxScale <= Finest /\ TokenDecimals <= Finest
<1> DEFINE S == {MaxFraction, MaxExponent, MaxScale, TokenDecimals}
<1>1. S \subseteq Nat
  BY WidthAssumption
<1>2. \E x \in S : \A y \in S : x >= y
  BY WidthAssumption
<1>3. Finest \in S /\ \A y \in S : Finest >= y
  BY <1>2 DEF Finest, Max
<1> QED
  BY <1>1, <1>3

\* A plain text of an amount: what digits make one.
LEMMA PlainDigits ==
  ASSUME NEW t, t.whole \in Numerals, t.fraction \in Numerals, Len(t.whole) > 0
  PROVE  Plain(t)
<1>1. t.whole \in Seq(0..9) /\ t.fraction \in Seq(0..9)
  BY DEF Numerals
<1>2. t.whole # <<>>
  BY EmptySeq
<1>3. \A i \in DOMAIN t.whole : t.whole[i] \in 0..9
  BY ONLY <1>1, ElementOfSeq, LenProperties
<1>4. \A i \in DOMAIN t.fraction : t.fraction[i] \in 0..9
  BY ONLY <1>1, ElementOfSeq, LenProperties
<1> QED
  BY <1>2, <1>3, <1>4 DEF Plain, Minus

\* The amount of a text of the sign of u.
LEMMA AmountSigned ==
  ASSUME NEW u \in Int, NEW whole, NEW fraction, NEW t,
         t = [negative |-> u < 0, whole |-> whole, fraction |-> fraction]
  PROVE  AmountOfText(t) =
           Signed(u < 0, Number(whole \o fraction)) * Pow10[Finest - Len(fraction)]
<1>1. t.whole = whole /\ t.fraction = fraction
  OBVIOUS
<1>2. \A n : Signed(t.negative, n) = Signed(u < 0, n)
  BY DEF Signed
<1> QED
  BY ONLY <1>1, <1>2, Zenon DEF AmountOfText

\* The digits of the unscaled part, with as many zeros as the exponent says.
LEMMA WholeShows ==
  ASSUME NEW u \in Int, NEW e \in Exponents, e >= 0,
         NEW digits \in Numerals, Len(digits) > 0,
         Signed(u < 0, Number(digits)) = u,
         NEW t, t = [negative |-> u < 0, whole |-> digits \o Zeros(e), fraction |-> <<>>]
  PROVE  Plain(t) /\ AmountOfText(t) = u * Pow10[Finest + e]
<1> DEFINE whole == digits \o Zeros(e)
<1>1. e \in Nat /\ Len(digits) \in Nat /\ Finest \in Nat
  BY WidthAssumption, LenProperties, FinestIs DEF Exponents, Numerals
<1>2. whole \in Numerals /\ Len(whole) = Len(digits) + e /\ Number(whole) = Number(digits) * Pow10[e]
  BY <1>1, NumberShifted
<1>3. <<>> \in Numerals /\ Len(<<>>) = 0
  BY EmptySeq DEF Numerals
<1> HIDE DEF whole
<1>4. whole \o <<>> = whole
  BY <1>2, ConcatEmptySeq DEF Numerals
<1>5. t.whole = whole /\ t.fraction = <<>>
  BY DEF whole
<1>6. Plain(t)
  <2>1. Len(whole) > 0
    BY <1>1, <1>2
  <2>2. Len(t.whole) > 0 /\ t.whole \in Numerals /\ t.fraction \in Numerals
    BY ONLY <1>2, <1>3, <1>5, <2>1, Zenon
  <2> QED
    BY ONLY <2>2, PlainDigits, Zenon
<1>7. AmountOfText(t) = Signed(u < 0, Number(digits) * Pow10[e]) * Pow10[Finest]
  <2>1. AmountOfText(t) = Signed(u < 0, Number(whole \o <<>>)) * Pow10[Finest - Len(<<>>)]
    BY AmountSigned DEF whole
  <2>2. Finest - Len(<<>>) = Finest
    BY <1>1, <1>3
  <2> QED
    BY <1>2, <1>4, <2>1, <2>2
<1>8. /\ Number(digits) \in Nat /\ Pow10[e] \in Nat /\ Pow10[Finest] \in Nat
      /\ Pow10[Finest + e] = Pow10[Finest] * Pow10[e]
  BY <1>1, NumberType, Pow10Grows, Pow10Sum
<1>9. Signed(u < 0, Number(digits) * Pow10[e]) = u * Pow10[e]
  BY <1>8 DEF Signed
<1>10. (u * Pow10[e]) * Pow10[Finest] = u * (Pow10[Finest] * Pow10[e])
  BY <1>8
<1> QED
  BY <1>6, <1>7, <1>8, <1>9, <1>10

\* The point goes before the last digits, as many as the exponent says.
LEMMA SplitShows ==
  ASSUME NEW u \in Int, NEW e \in Exponents, e < 0,
         NEW digits \in Numerals, Len(digits) > 0,
         Signed(u < 0, Number(digits)) = u,
         NEW t, t = Split(u < 0, digits, -e)
  PROVE  Plain(t) /\ AmountOfText(t) = u * Pow10[Finest + e]
<1> DEFINE scale == -e
           padded == IF Len(digits) > scale THEN digits
                     ELSE Zeros(scale - Len(digits) + 1) \o digits
           point == Len(padded) - scale
           whole == SubSeq(padded, 1, point)
           fraction == SubSeq(padded, point + 1, Len(padded))
<1>1. e \in Int /\ scale \in Nat /\ Len(digits) \in Nat /\ Finest \in Nat
  BY WidthAssumption, LenProperties, FinestIs DEF Exponents, Numerals
<1>2. t = [negative |-> u < 0, whole |-> whole, fraction |-> fraction]
  BY DEF Split
<1> HIDE DEF scale
<1>3. padded \in Numerals /\ Len(padded) > scale /\ Number(padded) = Number(digits)
  <2>1. CASE Len(digits) > scale
    BY <2>1
  <2>2. CASE ~(Len(digits) > scale)
    <3>1. scale - Len(digits) + 1 \in Nat
      BY <1>1, <2>2
    <3> DEFINE k == scale - Len(digits) + 1
    <3>2. /\ Zeros(k) \o digits \in Numerals
          /\ Len(Zeros(k) \o digits) = k + Len(digits)
          /\ Number(Zeros(k) \o digits) = Number(digits)
      <4> HIDE DEF k
      <4> QED
        BY <3>1, NumberPadded DEF k
    <3>3. k + Len(digits) > scale
      BY <1>1
    <3> QED
      BY <2>2, <3>2, <3>3
  <2> QED
    BY <2>1, <2>2
<1> HIDE DEF padded
<1>4. Len(padded) \in Nat /\ padded \in Seq(0..9) /\ \A i \in 1..Len(padded) : padded[i] \in 0..9
  BY <1>3, LenProperties, ElementOfSeq DEF Numerals
<1>5. point \in 1..Len(padded) /\ point \in Nat /\ Len(padded) - point = scale
  BY <1>1, <1>3, <1>4
<1> HIDE DEF point
<1>6. whole \in Numerals /\ Len(whole) = point
  <2>1. \A i \in 1..point : padded[i] \in 0..9
    BY <1>4, <1>5
  <2>2. 1 \in Int /\ point \in Int
    BY <1>5
  <2>3. whole \in Seq(0..9) /\ Len(whole) = IF 1 <= point THEN point - 1 + 1 ELSE 0
    BY ONLY <2>1, <2>2, SubSeqProperties
  <2> QED
    BY <1>5, <2>3 DEF Numerals
<1>7. fraction \in Numerals /\ Len(fraction) = scale
  <2>1. \A i \in (point + 1)..Len(padded) : padded[i] \in 0..9
    BY <1>4, <1>5
  <2>2. point + 1 \in Int /\ Len(padded) \in Int
    BY <1>4, <1>5
  <2>3. /\ fraction \in Seq(0..9)
        /\ Len(fraction) = IF point + 1 <= Len(padded) THEN Len(padded) - (point + 1) + 1 ELSE 0
    BY ONLY <2>1, <2>2, SubSeqProperties
  <2> QED
    BY <1>1, <1>4, <1>5, <2>3 DEF Numerals
<1>8. whole \o fraction = padded
  <2>1. 1 \in 1..(Len(padded) + 1) /\ point \in (1 - 1)..Len(padded) /\ Len(padded) \in point..Len(padded)
    BY <1>4, <1>5
  <2>2. whole \o fraction = SubSeq(padded, 1, Len(padded))
    BY <1>4, <2>1, ConcatAdjacentSubSeq
  <2>3. SubSeq(padded, 1, Len(padded)) = padded
    BY <1>4, SubSeqFull
  <2> QED
    BY <2>2, <2>3
<1> HIDE DEF whole, fraction
<1>9. Plain(t)
  <2>1. t.whole = whole /\ t.fraction = fraction /\ Len(whole) > 0
    BY <1>2, <1>5, <1>6
  <2> QED
    BY <1>6, <1>7, <2>1, PlainDigits
<1>10. AmountOfText(t) = u * Pow10[Finest - scale]
  <2>1. AmountOfText(t) = Signed(u < 0, Number(padded)) * Pow10[Finest - scale]
    BY <1>2, <1>7, <1>8, AmountSigned
  <2> QED
    BY <1>3, <2>1
<1>11. Finest - scale = Finest + e
  BY <1>1 DEF scale
<1> QED
  BY <1>9, <1>10, <1>11

-----------------------------------------------------------------------------
(* Showing.                                                                *)

WireDecimals == [unscaled: Ints, exponent: Exponents]

LEMMA WrapFits == \A n \in Ints : n \in Int /\ Wrap(n) = n
<1> SUFFICES ASSUME NEW n \in Ints PROVE n \in Int /\ Wrap(n) = n
  OBVIOUS
<1> DEFINE d == 2 * (IntMax + 1)
           r == n - IntMin
<1>1. n \in Int /\ IntMin \in Int /\ d \in Nat \ {0} /\ r \in 0..(d - 1)
  BY WidthAssumption DEF Ints, IntMin
<1> HIDE DEF d, r
<1>2. r \in Int /\ r = d * 0 + r /\ 0 \in Int
  BY <1>1
<1>3. r % d = r
  BY <1>1, <1>2, DivUnique
<1>4. Wrap(n) = (r % d) + IntMin
  BY DEF Wrap, r, d
<1>5. r + IntMin = n
  BY <1>1 DEF r
<1> QED
  BY <1>1, <1>3, <1>4, <1>5

Magnitude(u) == IF u < 0 THEN -u ELSE u

LEMMA MagnitudeSpelled ==
  ASSUME NEW u \in Int, NEW digits, digits = DigitsOf(Magnitude(u))
  PROVE  digits \in Numerals /\ Len(digits) > 0 /\ Signed(u < 0, Number(digits)) = u
<1>1. Magnitude(u) \in Nat
  BY DEF Magnitude
<1>2. digits \in Numerals /\ Len(digits) \in Nat \ {0} /\ Number(digits) = Magnitude(u)
  BY <1>1, DigitsSpell
<1> QED
  BY <1>2 DEF Magnitude, Signed

\* Node's and Python's text is plain and of the very amount.
LEMMA StringShows ==
  ASSUME NEW d \in WireDecimals
  PROVE  Plain(DecimalToString(d)) /\ AmountOfText(DecimalToString(d)) = AmountOf(d)
<1> DEFINE u == d.unscaled
           e == d.exponent
           digits == DigitsOf(Magnitude(u))
           t == DecimalToString(d)
<1>1. u \in Ints /\ e \in Exponents
  BY DEF WireDecimals
<1>2. u \in Int /\ e \in Int
  BY <1>1, WidthAssumption, WrapFits DEF Exponents
<1>3. digits \in Numerals /\ Len(digits) > 0 /\ Signed(u < 0, Number(digits)) = u
  BY <1>2, MagnitudeSpelled
<1>4. AmountOf(d) = u * Pow10[Finest + e]
  BY DEF AmountOf
<1>5. /\ e >= 0 => t = [negative |-> u < 0, whole |-> digits \o Zeros(e), fraction |-> <<>>]
      /\ ~(e >= 0) => t = Split(u < 0, digits, -e)
  BY DEF DecimalToString, Magnitude
<1> HIDE DEF t, u, e, digits
<1>6. CASE e >= 0
  BY <1>1, <1>2, <1>3, <1>4, <1>5, <1>6, WholeShows DEF t
<1>7. CASE e < 0
  BY <1>1, <1>2, <1>3, <1>4, <1>5, <1>7, SplitShows DEF t
<1> QED
  BY <1>2, <1>6, <1>7

\* So is a product written out.
LEMMA WholeIsShown ==
  ASSUME NEW d \in WireDecimals, d.exponent >= 0
  PROVE  Plain(WholeToString(d)) /\ AmountOfText(WholeToString(d)) = AmountOf(d)
<1> DEFINE u == d.unscaled
           e == d.exponent
           n == Magnitude(u) * Pow10[e]
           digits == DigitsOf(n)
           t == WholeToString(d)
<1>1. u \in Int /\ e \in Nat /\ Finest \in Nat
  BY WidthAssumption, WrapFits, FinestIs DEF WireDecimals, Exponents
<1>2. Magnitude(u) \in Nat /\ Signed(u < 0, Magnitude(u)) = u
  BY <1>1 DEF Magnitude, Signed
<1>3. /\ Pow10[e] \in Nat /\ Pow10[Finest] \in Nat
      /\ Pow10[Finest + e] = Pow10[Finest] * Pow10[e]
  BY <1>1, Pow10Grows, Pow10Sum
<1>4. n \in Nat
  BY <1>2, <1>3
<1>5. t = [negative |-> u < 0, whole |-> digits, fraction |-> <<>>]
  BY DEF WholeToString, Magnitude
<1>6. AmountOf(d) = u * Pow10[Finest + e]
  BY DEF AmountOf
<1> HIDE DEF t, digits, n
<1>7. digits \in Numerals /\ Len(digits) > 0 /\ Number(digits) = n
  BY <1>4, DigitsSpell DEF digits
<1>8. <<>> \in Numerals /\ Len(<<>>) = 0
  BY EmptySeq DEF Numerals
<1>9. digits \o <<>> = digits
  BY <1>7, ConcatEmptySeq DEF Numerals
<1>10. Plain(t)
  <2>1. t.whole = digits /\ t.fraction = <<>>
    BY <1>5
  <2> QED
    BY <1>7, <1>8, <2>1, PlainDigits
<1>11. AmountOfText(t) = Signed(u < 0, n) * Pow10[Finest]
  <2>1. AmountOfText(t) = Signed(u < 0, Number(digits \o <<>>)) * Pow10[Finest - Len(<<>>)]
    BY <1>1, <1>5, AmountSigned
  <2>2. Finest - Len(<<>>) = Finest
    BY <1>1, <1>8
  <2> QED
    BY <1>7, <1>9, <2>1, <2>2
<1>12. Signed(u < 0, n) = u * Pow10[e]
  BY <1>1, <1>2, <1>3 DEF n, Magnitude, Signed
<1>13. (u * Pow10[e]) * Pow10[Finest] = u * (Pow10[Finest] * Pow10[e])
  BY <1>1, <1>3
<1> QED
  BY <1>3, <1>6, <1>10, <1>11, <1>12, <1>13 DEF t

\* Go sets a point as the others do, but for the smallest unscaled number.
LEMMA GoSplits ==
  ASSUME NEW d \in WireDecimals, d.unscaled # IntMin, ~(d.exponent >= 0)
  PROVE  GoDecimalToString(d) = DecimalToString(d)
<1> DEFINE u == d.unscaled
           turned == IF u < 0 THEN Wrap(-u) ELSE u
<1>1. u \in Ints /\ u # IntMin
  BY DEF WireDecimals
<1>2. u \in Int /\ (u < 0 => -u \in Ints)
  BY <1>1, WidthAssumption DEF Ints, IntMin
<1>3. turned = Magnitude(u)
  BY <1>2, WrapFits DEF Magnitude
<1>4. Magnitude(u) \in Nat
  BY <1>2 DEF Magnitude
<1>5. ~(turned < 0)
  BY <1>3, <1>4
<1>6. GoDecimalToString(d) = Split(u < 0, DigitsOf(turned), -d.exponent)
  BY <1>5 DEF GoDecimalToString
<1>7. DecimalToString(d) = Split(u < 0, DigitsOf(Magnitude(u)), -d.exponent)
  BY DEF DecimalToString, Magnitude
<1> QED
  BY <1>3, <1>6, <1>7

\* Whoever shows it, a text is plain and of the very amount, but for Go's of
\* the smallest unscaled number where a point is to be set.
LEMMA EveryStringShows ==
  ASSUME NEW d \in WireDecimals, NEW r,
         r = "go" => d.unscaled # IntMin \/ d.exponent >= 0
  PROVE  Plain(ShownBy(r, d)) /\ AmountOfText(ShownBy(r, d)) = AmountOf(d)
<1>1. CASE r \in {"go", "java"} /\ d.exponent >= 0
  <2>1. ShownBy(r, d) = WholeToString(d)
    BY <1>1 DEF ShownBy, GoDecimalToString, JavaDecimalToString
  <2> QED
    BY <1>1, <2>1, WholeIsShown
<1>2. CASE ~(r \in {"go", "java"} /\ d.exponent >= 0)
  <2>1. ShownBy(r, d) = DecimalToString(d)
    BY <1>2, GoSplits DEF ShownBy, JavaDecimalToString
  <2> QED
    BY <2>1, StringShows
<1> QED
  BY <1>1, <1>2

\* Where the point goes, no character is lost: one that is a misplaced sign
\* is one of the text's.
LEMMA SplitKeepsMinus ==
  ASSUME NEW negative, NEW printed \in Seq(0..10), NEW scale \in Nat,
         Len(printed) > 0, printed[1] = Minus
  PROVE  ~Plain(Split(negative, printed, scale))
<1> DEFINE len == Len(printed)
           padded == IF len > scale THEN printed ELSE Zeros(scale - len + 1) \o printed
           point == Len(padded) - scale
           whole == SubSeq(padded, 1, point)
           fraction == SubSeq(padded, point + 1, Len(padded))
<1>1. Split(negative, printed, scale) = [negative |-> negative, whole |-> whole, fraction |-> fraction]
  BY DEF Split
<1>2. len \in Nat
  BY LenProperties
<1>3. /\ padded \in Seq(0..10) /\ Len(padded) > scale
      /\ \E m \in 1..Len(padded) : padded[m] = Minus
  <2>1. CASE len > scale
    BY <1>2, <2>1
  <2>2. CASE ~(len > scale)
    <3> DEFINE k == scale - len + 1
    <3>1. k \in Nat /\ k + len > scale /\ k + 1 \in 1..(k + len)
      BY <1>2, <2>2
    <3> HIDE DEF k
    <3>2. Zeros(k) \in Seq(0..10) /\ Len(Zeros(k)) = k
      <4>1. Zeros(k) \in [1..k -> 0..10]
        BY DEF Zeros
      <4> QED
        BY <3>1, <4>1, FunctionIsSeq
    <3>3. ASSUME NEW zeros \in Seq(0..10), Len(zeros) = k
          PROVE  /\ zeros \o printed \in Seq(0..10)
                 /\ Len(zeros \o printed) = k + len
                 /\ (zeros \o printed)[k + 1] = Minus
      <4> DEFINE both == zeros \o printed
      <4>1. /\ both \in Seq(0..10) /\ Len(both) = Len(zeros) + len
            /\ \A i \in 1..(Len(zeros) + len) :
                 both[i] = IF i <= Len(zeros) THEN zeros[i] ELSE printed[i - Len(zeros)]
        BY ConcatProperties, Zenon
      <4> HIDE DEF both, len
      <4>2. both[k + 1] = printed[1]
        <5>1. both[k + 1] = IF k + 1 <= k THEN zeros[k + 1] ELSE printed[(k + 1) - k]
          BY <3>1, <3>3, <4>1
        <5>2. ~(k + 1 <= k) /\ (k + 1) - k = 1
          BY <3>1
        <5> QED
          BY <5>1, <5>2
      <4> QED
        BY <3>3, <4>1, <4>2 DEF both
    <3>4. padded = Zeros(k) \o printed
      BY <2>2 DEF k
    <3> HIDE DEF padded
    <3> QED
      BY <3>1, <3>2, <3>3, <3>4
  <2> QED
    BY <2>1, <2>2
<1> HIDE DEF padded, len
<1>4. /\ Len(padded) \in Nat /\ \A i \in 1..Len(padded) : padded[i] \in 0..10
  BY <1>3, LenProperties, ElementOfSeq
<1>5. point \in Int /\ 1 <= point /\ point <= Len(padded)
  BY <1>3, <1>4
<1> HIDE DEF point
<1>6. Len(whole) = point /\ \A i \in 1..point : whole[i] = padded[i]
  <2>1. \A i \in 1..point : padded[i] \in 0..10
    BY <1>4, <1>5
  <2>2. 1 \in Int /\ point \in Int
    BY <1>5
  <2>3. /\ Len(whole) = IF 1 <= point THEN point - 1 + 1 ELSE 0
        /\ \A i \in 1 .. point - 1 + 1 : whole[i] = padded[1 + i - 1]
        /\ whole \in Seq(0..10)
    BY ONLY <2>1, <2>2, SubSeqProperties
  <2> HIDE DEF whole
  <2> QED
    BY <1>5, <2>3
<1>7. /\ Len(fraction) = Len(padded) - point
      /\ \A i \in 1..(Len(padded) - point) : fraction[i] = padded[point + i]
      /\ fraction \in Seq(0..10)
  <2>1. \A i \in (point + 1)..Len(padded) : padded[i] \in 0..10
    BY <1>4, <1>5
  <2>2. point + 1 \in Int /\ Len(padded) \in Int
    BY <1>4, <1>5
  <2>3. /\ Len(fraction) = IF point + 1 <= Len(padded) THEN Len(padded) - (point + 1) + 1 ELSE 0
        /\ \A i \in 1 .. Len(padded) - (point + 1) + 1 : fraction[i] = padded[(point + 1) + i - 1]
        /\ fraction \in Seq(0..10)
    BY ONLY <2>1, <2>2, SubSeqProperties
  <2> HIDE DEF fraction
  <2> QED
    BY <1>4, <1>5, <2>3
<1>8. PICK m \in 1..Len(padded) : padded[m] = Minus
  BY <1>3
<1>9. DOMAIN whole = 1..point /\ DOMAIN fraction = 1..(Len(padded) - point)
  <2>1. \A i \in 1..point : padded[i] \in 0..10
    BY <1>4, <1>5
  <2>2. 1 \in Int /\ point \in Int
    BY <1>5
  <2>3. whole \in Seq(0..10)
    BY ONLY <2>1, <2>2, SubSeqProperties
  <2> HIDE DEF whole, fraction
  <2> QED
    BY <1>6, <1>7, <2>3, LenProperties
<1> HIDE DEF whole, fraction
<1>10. \/ \E i \in DOMAIN whole : whole[i] = Minus
       \/ \E i \in DOMAIN fraction : fraction[i] = Minus
  <2>1. CASE m <= point
    BY <1>5, <1>6, <1>8, <1>9, <2>1
  <2>2. CASE ~(m <= point)
    <3>1. m - point \in 1..(Len(padded) - point) /\ point + (m - point) = m
      BY <1>4, <1>5, <2>2
    <3> QED
      BY <1>7, <1>8, <1>9, <3>1
  <2> QED
    BY <2>1, <2>2
<1> QED
  BY <1>1, <1>10 DEF Plain

\* Go's formatter shows a plain decimal but for one number: the smallest one,
\* where a point is to be set (decimals.go:63-85).
THEOREM GoIsPlainButForTheSmallest ==
  \A d \in WireDecimals :
    Plain(GoDecimalToString(d)) <=> ~(d.unscaled = IntMin /\ d.exponent < 0)
<1> SUFFICES ASSUME NEW d \in WireDecimals
             PROVE  Plain(GoDecimalToString(d)) <=> ~(d.unscaled = IntMin /\ d.exponent < 0)
  OBVIOUS
<1>1. d.exponent \in Int
  BY WidthAssumption DEF WireDecimals, Exponents
<1>2. CASE ~(d.unscaled = IntMin /\ d.exponent < 0)
  <2>1. GoDecimalToString(d) = ShownBy("go", d)
    BY DEF ShownBy
  <2>2. d.unscaled # IntMin \/ d.exponent >= 0
    BY <1>1, <1>2
  <2> QED
    BY <1>2, <2>1, <2>2, EveryStringShows
<1>3. CASE d.unscaled = IntMin /\ d.exponent < 0
  <2> DEFINE size == 2 * (IntMax + 1)
             w == DigitsOf(IntMax + 1)
             printed == <<Minus>> \o w
  <2>1. IntMin \in Int /\ IntMin < 0 /\ -IntMin = IntMax + 1 /\ IntMax + 1 \in Nat
    BY WidthAssumption DEF IntMin
  <2>2. size \in Nat \ {0} /\ (IntMax + 1) - IntMin = size * 1 + 0 /\ size * 1 + 0 \in Int
        /\ 0 \in 0..(size - 1) /\ 1 \in Int
    BY WidthAssumption DEF IntMin
  <2>3. ((IntMax + 1) - IntMin) % size = 0
    <3> HIDE DEF size
    <3> QED
      BY <2>2, DivUnique
  <2>4. Wrap(-IntMin) = IntMin
    BY <2>1, <2>3 DEF Wrap
  <2>5. GoDecimalToString(d) = Split(TRUE, printed, -d.exponent)
    <3> DEFINE turned == IF d.unscaled < 0 THEN Wrap(-d.unscaled) ELSE d.unscaled
               characters == IF turned < 0 THEN <<Minus>> \o DigitsOf(-turned) ELSE DigitsOf(turned)
    <3>1. turned = IntMin
      BY <1>3, <2>4
    <3>2. ~(d.exponent >= 0) /\ (d.unscaled < 0) = TRUE
      BY <1>1, <1>3, <2>1
    <3>3. GoDecimalToString(d) = Split(d.unscaled < 0, characters, -d.exponent)
      BY <3>2 DEF GoDecimalToString
    <3> HIDE DEF turned
    <3>4. characters = printed
      BY <2>1, <3>1
    <3> HIDE DEF characters, printed
    <3> QED
      BY <3>2, <3>3, <3>4
  <2>6. printed \in Seq(0..10) /\ Len(printed) > 0 /\ printed[1] = Minus
    <3>1. w \in Seq(0..10) /\ Len(w) \in Nat
      <4>1. w \in Seq(0..9)
        BY <2>1, DigitsSpell DEF Numerals
      <4> HIDE DEF w
      <4> QED
        BY <4>1
    <3> HIDE DEF w
    <3>2. <<Minus>> \in Seq(0..10) /\ Len(<<Minus>>) = 1 /\ <<Minus>>[1] = Minus
      BY DEF Minus
    <3> QED
      BY <3>1, <3>2
  <2>7. -d.exponent \in Nat
    BY <1>1, <1>3
  <2> HIDE DEF printed
  <2> QED
    BY <1>3, <2>5, <2>6, <2>7, SplitKeepsMinus
<1> QED
  BY <1>2, <1>3

-----------------------------------------------------------------------------
(* Reading a text.                                                         *)

\* The number the digits of a text spell, point left out, with its sign.
Written(t) == Signed(t.negative, Number(t.whole \o t.fraction))

LEMMA TextsAre ==
  ASSUME NEW t \in Texts
  PROVE  /\ t # NoText
         /\ Len(t.fraction) \in Nat /\ Len(t.fraction) <= MaxFraction
         /\ Written(t) \in Int
<1>1. /\ t.whole \in SeqsUpTo(Digits, MaxWhole) /\ t.whole # <<>>
      /\ t.fraction \in SeqsUpTo(Digits, MaxFraction)
  BY DEF Texts
<1>2. ASSUME NEW max \in Nat, NEW s \in SeqsUpTo(Digits, max)
      PROVE  s \in Numerals /\ Len(s) \in Nat /\ Len(s) <= max
  <2>1. PICK k \in 0..max : s \in [1..k -> Digits]
    BY <1>2 DEF SeqsUpTo
  <2>2. k \in Nat /\ k <= max
    OBVIOUS
  <2>3. s \in [1..k -> 0..9]
    BY <2>1, WidthAssumption
  <2> QED
    BY <2>2, <2>3, FunctionIsSeq DEF Numerals
<1>3. t.whole \in Numerals /\ t.fraction \in Numerals
  BY <1>1, <1>2, WidthAssumption
<1>4. Number(t.whole \o t.fraction) \in Nat
  BY <1>3, Joined, NumberType
<1>5. Written(t) \in Int
  BY <1>4 DEF Written, Signed
<1>6. Len(t.fraction) \in Nat /\ Len(t.fraction) <= MaxFraction
  BY <1>1, <1>2, WidthAssumption
<1>7. t # NoText
  BY <1>1 DEF NoText
<1> QED
  BY <1>5, <1>6, <1>7

\* A text that is read is read to the digit.
LEMMA TextIsRead ==
  ASSUME NEW t \in Texts, Readable(t)
  PROVE  /\ DecimalFromString(t) \in WireDecimals
         /\ AmountOf(DecimalFromString(t)) = AmountOfText(t)
<1> DEFINE len == Len(t.fraction)
<1>1. len \in Nat /\ Written(t) \in Int /\ Finest \in Nat
  BY TextsAre, FinestIs
<1>2. Fits(Written(t)) /\ -len >= -MaxExponent
  BY DEF Readable, Written
<1>3. Written(t) \in Ints
  BY <1>1, <1>2, WidthAssumption DEF Fits, Ints, IntMin
<1>4. DecimalFromString(t) = [unscaled |-> Written(t), exponent |-> -len]
  BY <1>3, WrapFits DEF DecimalFromString, Written
<1>5. -len \in Exponents
  BY <1>1, <1>2, WidthAssumption DEF Exponents
<1>6. DecimalFromString(t) \in WireDecimals
  BY <1>3, <1>4, <1>5 DEF WireDecimals
<1>7. Finest + (-len) = Finest - len
  BY <1>1
<1>8. AmountOf(DecimalFromString(t)) = Written(t) * Pow10[Finest - len]
  BY <1>4, <1>7 DEF AmountOf
<1> QED
  BY <1>6, <1>8 DEF AmountOfText, Written

\* One that is refused has more digits than the contract carries.
LEMMA TextIsRefused ==
  ASSUME NEW t \in Texts, ~Readable(t), NEW u \in Ints, Len(t.fraction) <= MaxExponent
  PROVE  u * Pow10[Finest - Len(t.fraction)] # AmountOfText(t)
<1> DEFINE len == Len(t.fraction)
           p == Pow10[Finest - len]
<1>1. len \in Nat /\ len <= MaxFraction /\ Written(t) \in Int /\ u \in Int
  BY TextsAre, WrapFits
<1>2. Finest - len \in Nat
  BY <1>1, FinestIs, WidthAssumption
<1>3. p \in Nat \ {0}
  BY <1>2, Pow10Grows
<1>4. -len >= -MaxExponent
  BY <1>1, WidthAssumption
<1>5. ~Fits(Written(t))
  BY <1>4 DEF Readable, Written
<1>6. u # Written(t)
  BY <1>1, <1>5, WidthAssumption DEF Fits, Ints, IntMin
<1>7. AmountOfText(t) = Written(t) * p
  BY DEF AmountOfText, Written
<1> HIDE DEF p
<1>8. u * p # AmountOfText(t)
  BY <1>1, <1>3, <1>6, <1>7, Cancel
<1> QED
  BY <1>8 DEF p

-----------------------------------------------------------------------------
(* Java's BigDecimal.                                                      *)

LEMMA Divided ==
  ASSUME NEW n \in Int, NEW d \in Nat \ {0}
  PROVE  n \div d \in Int /\ n % d \in 0..(d - 1) /\ n = d * (n \div d) + (n % d)
OBVIOUS

\* A number with zeros at its end loses them all, and nothing else.
LEMMA ZerosAreStripped ==
  ASSUME NEW v \in BigDecimals, v.unscaled # 0
  PROVE  \E c \in Int, z \in Nat :
           /\ stripTrailingZeros(v) = [unscaled |-> c, scale |-> v.scale - z]
           /\ v.unscaled = c * Pow10[z]
           /\ c % 10 # 0
<1> DEFINE u == v.unscaled
           Ragged == {k \in Nat : u % Pow10[k + 1] # 0}
           Last(z) == u % Pow10[z] = 0 /\ u % Pow10[z + 1] # 0
           zeros == CHOOSE z \in 0..MaxMagnitude : Last(z)
           c == u \div Pow10[zeros]
<1>1. u \in Int /\ u # 0 /\ u <= MaxMagnitude /\ -u <= MaxMagnitude /\ MaxMagnitude \in Nat
  BY WidthAssumption DEF BigDecimals
<1>2. stripTrailingZeros(v) = [unscaled |-> c, scale |-> v.scale - zeros]
  BY DEF stripTrailingZeros
<1> HIDE DEF u
<1>3. MaxMagnitude \in Ragged
  <2> DEFINE m == Pow10[MaxMagnitude + 1]
  <2>1. m \in Nat \ {0} /\ MaxMagnitude < m
    BY <1>1, Pow10Grows
  <2> HIDE DEF m
  <2>2. CASE u > 0
    <3>1. u \in 0..(m - 1) /\ u = m * 0 + u /\ 0 \in Int
      BY <1>1, <2>1, <2>2
    <3>2. u % m = u
      BY <1>1, <2>1, <3>1, DivUnique
    <3> QED
      BY <1>1, <3>2 DEF m
  <2>3. CASE u < 0
    <3>1. m + u \in 0..(m - 1) /\ u = m * (-1) + (m + u) /\ -1 \in Int /\ m + u # 0
      BY <1>1, <2>1, <2>3
    <3>2. u % m = m + u
      BY <1>1, <2>1, <3>1, DivUnique
    <3> QED
      BY <1>1, <3>1, <3>2 DEF m
  <2> QED
    BY <1>1, <2>2, <2>3
<1>4. \E z \in 0..MaxMagnitude : Last(z)
  <2>1. Ragged \in SUBSET Nat /\ Ragged # {}
    BY <1>3
  <2>2. \E x \in Ragged : \A y \in Ragged : ~(<<y, x>> \in Below)
    <3> HIDE DEF Ragged
    <3> QED
      BY <2>1, BelowIsWellFounded, WFMin, Zenon
  <2>3. PICK z \in Ragged : \A k \in Ragged : ~(k < z)
    BY <2>1, <2>2 DEF Below
  <2>4. z \in 0..MaxMagnitude
    BY <1>1, <1>3, <2>3
  <2>5. CASE z = 0
    <3>1. u % 1 = 0
      BY <1>1
    <3> QED
      BY <2>3, <2>4, <2>5, <3>1, Pow10Next
  <2>6. CASE z # 0
    <3>1. z - 1 \in Nat /\ z - 1 < z /\ (z - 1) + 1 = z
      BY <2>4, <2>6
    <3>2. z - 1 \notin Ragged
      BY <2>3, <3>1
    <3>3. u % Pow10[z] = 0
      BY <3>1, <3>2
    <3> QED
      BY <2>3, <2>4, <3>3
  <2> QED
    BY <2>5, <2>6
<1>5. zeros \in Nat /\ Last(zeros)
  BY <1>4
<1> HIDE DEF zeros, Last
<1>6. Pow10[zeros] \in Nat \ {0} /\ Pow10[zeros + 1] = 10 * Pow10[zeros]
  BY <1>5, Pow10Grows, Pow10Next
<1>7. c \in Int /\ u = Pow10[zeros] * c
  <2>1. u % Pow10[zeros] = 0
    BY <1>5 DEF Last
  <2>2. c \in Int /\ u = Pow10[zeros] * c + (u % Pow10[zeros])
    BY <1>1, <1>6, Divided
  <2> HIDE DEF c
  <2> QED
    BY <1>1, <1>6, <2>1, <2>2
<1> HIDE DEF c
<1>8. c % 10 # 0
  <2> SUFFICES ASSUME c % 10 = 0 PROVE FALSE
    OBVIOUS
  <2> DEFINE k == c \div 10
             m == Pow10[zeros + 1]
  <2>1. c = 10 * k /\ k \in Int
    BY <1>7, Divided
  <2> HIDE DEF k, m
  <2>2. m \in Nat \ {0} /\ m = 10 * Pow10[zeros]
    BY <1>6 DEF m
  <2>3. u = m * k + 0 /\ 0 \in 0..(m - 1)
    BY <1>6, <1>7, <2>1, <2>2
  <2>4. u % m = 0
    BY <1>1, <2>1, <2>2, <2>3, DivUnique
  <2> QED
    BY <1>5, <2>4 DEF Last, m
<1>9. v.unscaled = c * Pow10[zeros]
  BY <1>6, <1>7 DEF u
<1> QED
  BY <1>2, <1>5, <1>7, <1>8, <1>9

\* What the rescaling starts from: the value as it stands, or without zeros.
LEMMA RescaledIs ==
  ASSUME NEW v \in BigDecimals
  PROVE  \E c \in Int, s \in Int :
           /\ s <= MaxScale /\ AmountOfValue(v) = c * Pow10[Finest - s]
           /\ \/ v.scale <= MaxExponent /\ c = v.unscaled /\ s = v.scale
              \/ c = 0 /\ s = 0
              \/ c % 10 # 0
           /\ Rescaled(v) =
                IF -s - MaxExponent > 0
                  THEN [unscaled |-> c * Pow10[-s - MaxExponent], exponent |-> MaxExponent]
                  ELSE [unscaled |-> c, exponent |-> -s]
<1>1. /\ v.unscaled \in Int /\ v.scale \in Int /\ v.scale <= MaxScale
      /\ v = [unscaled |-> v.unscaled, scale |-> v.scale]
      /\ MaxExponent \in Nat /\ MaxScale \in Nat /\ Finest \in Nat /\ MaxScale <= Finest
  BY WidthAssumption, FinestIs DEF BigDecimals
<1>2. AmountOfValue(v) = v.unscaled * Pow10[Finest - v.scale]
  BY DEF AmountOfValue
<1>3. CASE ~(v.scale > MaxExponent)
  <2>1. Rescaled(v) = IF -v.scale - MaxExponent > 0
                  THEN [unscaled |-> v.unscaled * Pow10[-v.scale - MaxExponent],
                        exponent |-> MaxExponent]
                  ELSE [unscaled |-> v.unscaled, exponent |-> -v.scale]
    BY <1>3 DEF Rescaled
  <2>2. v.scale <= MaxExponent
    BY <1>1, <1>3
  <2> QED
    BY <1>1, <1>2, <2>1, <2>2
<1>4. CASE v.scale > MaxExponent /\ v.unscaled = 0
  <2>1. stripTrailingZeros(v) = [unscaled |-> 0, scale |-> 0]
    BY <1>4 DEF stripTrailingZeros, NoValue
  <2>2. Rescaled(v) = IF -0 - MaxExponent > 0
                  THEN [unscaled |-> 0 * Pow10[-0 - MaxExponent], exponent |-> MaxExponent]
                  ELSE [unscaled |-> 0, exponent |-> -0]
    BY <1>4, <2>1 DEF Rescaled
  <2>3. Pow10[Finest - v.scale] \in Nat /\ Pow10[Finest - 0] \in Nat
    BY <1>1, Pow10Grows
  <2>4. AmountOfValue(v) = 0 * Pow10[Finest - 0]
    BY <1>2, <1>4, <2>3
  <2> WITNESS 0 \in Int
  <2> WITNESS 0 \in Int
  <2>5. 0 <= MaxScale
    BY <1>1
  <2> QED
    BY <2>2, <2>4, <2>5
<1>5. CASE v.scale > MaxExponent /\ v.unscaled # 0
  <2>1. PICK c \in Int, z \in Nat :
           /\ stripTrailingZeros(v) = [unscaled |-> c, scale |-> v.scale - z]
           /\ v.unscaled = c * Pow10[z]
           /\ c % 10 # 0
    BY <1>5, ZerosAreStripped
  <2> DEFINE s == v.scale - z
  <2>2. Rescaled(v) = IF -s - MaxExponent > 0
                  THEN [unscaled |-> c * Pow10[-s - MaxExponent], exponent |-> MaxExponent]
                  ELSE [unscaled |-> c, exponent |-> -s]
    BY <1>5, <2>1 DEF Rescaled
  <2>3. s \in Int /\ s <= MaxScale
    BY <1>1
  <2>4. AmountOfValue(v) = c * Pow10[Finest - s]
    <3>1. Finest - v.scale \in Nat /\ Finest - s = z + (Finest - v.scale)
      BY <1>1
    <3>2. Pow10[Finest - s] = Pow10[z] * Pow10[Finest - v.scale]
      BY <3>1, Pow10Sum
    <3>3. Pow10[z] \in Nat /\ Pow10[Finest - v.scale] \in Nat
      BY <3>1, Pow10Grows
    <3> QED
      BY <1>2, <2>1, <3>2, <3>3
  <2> HIDE DEF s
  <2> QED
    BY <2>1, <2>2, <2>3, <2>4
<1> QED
  BY <1>3, <1>4, <1>5

LEMMA RescaledAmount ==
  ASSUME NEW v \in BigDecimals
  PROVE  /\ Rescaled(v).unscaled \in Int /\ Rescaled(v).exponent \in Int
         /\ Rescaled(v).exponent <= MaxExponent
         /\ Rescaled(v) = [unscaled |-> Rescaled(v).unscaled, exponent |-> Rescaled(v).exponent]
         /\ AmountOf(Rescaled(v)) = AmountOfValue(v)
<1> DEFINE r == Rescaled(v)
<1>1. PICK c \in Int, s \in Int :
        /\ s <= MaxScale /\ AmountOfValue(v) = c * Pow10[Finest - s]
        /\ r = IF -s - MaxExponent > 0
                 THEN [unscaled |-> c * Pow10[-s - MaxExponent], exponent |-> MaxExponent]
                 ELSE [unscaled |-> c, exponent |-> -s]
  BY RescaledIs
<1>2. MaxExponent \in Nat /\ MaxScale \in Nat /\ Finest \in Nat
  BY WidthAssumption, FinestIs
<1> HIDE DEF r
<1>3. CASE -s - MaxExponent > 0
  <2> DEFINE surplus == -s - MaxExponent
  <2>1. surplus \in Nat /\ Finest + MaxExponent \in Nat /\ surplus + (Finest + MaxExponent) = Finest - s
    BY <1>2, <1>3
  <2>2. r.unscaled = c * Pow10[surplus] /\ r.exponent = MaxExponent
    BY <1>1, <1>3
  <2>3. r = [unscaled |-> r.unscaled, exponent |-> r.exponent]
    BY <1>1, <1>3
  <2> HIDE DEF surplus
  <2>4. Pow10[Finest - s] = Pow10[surplus] * Pow10[Finest + MaxExponent]
    BY <2>1, Pow10Sum
  <2>5. Pow10[surplus] \in Nat /\ Pow10[Finest + MaxExponent] \in Nat
    BY <2>1, Pow10Grows
  <2>6. AmountOf(r) = (c * Pow10[surplus]) * Pow10[Finest + MaxExponent]
    BY <2>2 DEF AmountOf
  <2>7. AmountOf(r) = AmountOfValue(v)
    BY <1>1, <2>4, <2>5, <2>6
  <2> QED
    BY <1>2, <2>2, <2>3, <2>5, <2>7 DEF r
<1>4. CASE ~(-s - MaxExponent > 0)
  <2>1. r.unscaled = c /\ r.exponent = -s /\ r = [unscaled |-> r.unscaled, exponent |-> r.exponent]
    BY <1>1, <1>4
  <2>2. -s \in Int /\ -s <= MaxExponent /\ Finest + (-s) = Finest - s
    BY <1>2, <1>4
  <2>3. AmountOf(r) = AmountOfValue(v)
    BY <1>1, <2>1, <2>2 DEF AmountOf
  <2> QED
    BY <2>1, <2>2, <2>3 DEF r
<1> QED
  BY <1>3, <1>4

\* What Java's starter takes.
Taken(v) == Rescaled(v).exponent >= -MaxExponent /\ Fits(Rescaled(v).unscaled)

LEMMA ValueIsTaken ==
  ASSUME NEW v \in BigDecimals, Taken(v)
  PROVE  Rescaled(v) \in WireDecimals /\ AmountOf(Rescaled(v)) = AmountOfValue(v)
<1>1. Rescaled(v).unscaled \in Ints
  BY RescaledAmount, WidthAssumption DEF Taken, Fits, Ints, IntMin
<1>2. Rescaled(v).exponent \in Exponents
  BY RescaledAmount, WidthAssumption DEF Taken, Exponents
<1>3. Rescaled(v) = [unscaled |-> Rescaled(v).unscaled, exponent |-> Rescaled(v).exponent]
  BY RescaledAmount
<1> HIDE DEF Rescaled
<1> QED
  BY <1>1, <1>2, <1>3, RescaledAmount DEF WireDecimals

\* An amount in two units: so many of the coarser are more of the finer.
LEMMA Finer ==
  \A a, b \in Int : \A i, j \in Nat :
    i <= j /\ a * Pow10[i] = b * Pow10[j] => a = b * Pow10[j - i]
<1> SUFFICES ASSUME NEW a \in Int, NEW b \in Int, NEW i \in Nat, NEW j \in Nat,
                    i <= j, a * Pow10[i] = b * Pow10[j]
             PROVE  a = b * Pow10[j - i]
  OBVIOUS
<1>1. j - i \in Nat /\ (j - i) + i = j
  OBVIOUS
<1>2. Pow10[j] = Pow10[j - i] * Pow10[i]
  BY <1>1, Pow10Sum
<1> DEFINE p == Pow10[i]
           q == Pow10[j - i]
<1>3. p \in Nat \ {0} /\ q \in Nat
  BY <1>1, Pow10Grows
<1>4. a * p = (b * q) * p
  <2>1. a * p = b * (q * p)
    BY <1>2
  <2> HIDE DEF p, q
  <2> QED
    BY <1>3, <2>1
<1> HIDE DEF p, q
<1>5. a = b * q
  <2>1. b * q \in Int
    BY <1>3
  <2> QED
    BY <1>3, <1>4, <2>1, Cancel
<1> QED
  BY <1>5 DEF q

\* What does not fit does not fit ten or a hundred times over.
LEMMA NeverFits ==
  ASSUME NEW b \in Int, ~Fits(b), NEW k \in Nat
  PROVE  b * Pow10[k] \notin Ints
<1> DEFINE p == Pow10[k]
<1>1. p \in Nat \ {0}
  BY Pow10Grows
<1>2. IntMax \in Nat /\ (b > IntMax \/ b < -IntMax - 1)
  BY WidthAssumption DEF Fits, IntMin
<1> HIDE DEF p
<1>3. b * p > IntMax \/ b * p < -IntMax - 1
  <2>1. b > IntMax => b * p >= b
    BY <1>1, <1>2
  <2>2. b < -IntMax - 1 => b * p <= b
    BY <1>1, <1>2
  <2>3. b * p \in Int
    BY <1>1
  <2> QED
    BY <1>2, <2>1, <2>2, <2>3
<1>4. b * p \in Int
  BY <1>1
<1>5. b * p \notin Ints
  BY <1>2, <1>3, <1>4 DEF Ints, IntMin
<1> QED
  BY <1>5 DEF p

\* What is refused cannot be carried, or not at the scale it came with.
LEMMA ValueIsRefused ==
  ASSUME NEW v \in BigDecimals, ~Taken(v)
  PROVE  \/ -v.scale \in Exponents /\ v.unscaled \notin Ints
         \/ \A d \in WireDecimals : AmountOf(d) # AmountOfValue(v)
<1> SUFFICES ASSUME NEW d \in WireDecimals, AmountOf(d) = AmountOfValue(v)
             PROVE  -v.scale \in Exponents /\ v.unscaled \notin Ints
  OBVIOUS
<1> DEFINE r == Rescaled(v)
           u == d.unscaled
           e == d.exponent
<1>1. PICK c \in Int, s \in Int :
        /\ s <= MaxScale /\ AmountOfValue(v) = c * Pow10[Finest - s]
        /\ \/ v.scale <= MaxExponent /\ c = v.unscaled /\ s = v.scale
           \/ c = 0 /\ s = 0
           \/ c % 10 # 0
        /\ r = IF -s - MaxExponent > 0
                 THEN [unscaled |-> c * Pow10[-s - MaxExponent], exponent |-> MaxExponent]
                 ELSE [unscaled |-> c, exponent |-> -s]
  BY RescaledIs
<1>2. /\ MaxExponent \in Nat /\ MaxScale \in Nat /\ Finest \in Nat /\ IntMax \in Nat
      /\ MaxExponent <= Finest /\ MaxScale <= Finest
  BY WidthAssumption, FinestIs
<1>3. u \in Ints /\ e \in Exponents
  BY DEF WireDecimals
<1>4. u \in Int /\ e \in Int /\ -MaxExponent <= e /\ e <= MaxExponent
  BY <1>2, <1>3, WrapFits DEF Exponents
<1>5. u * Pow10[Finest + e] = c * Pow10[Finest - s]
  BY <1>1 DEF AmountOf
<1>6. Finest + e \in Nat /\ Finest - s \in Nat
  BY <1>1, <1>2, <1>4
<1>7. ~(r.exponent >= -MaxExponent) \/ ~Fits(r.unscaled)
  BY DEF Taken
<1> HIDE DEF r, u, e
<1>8. /\ Finest + e <= Finest - s => u = c * Pow10[(Finest - s) - (Finest + e)]
      /\ Finest - s <= Finest + e => c = u * Pow10[(Finest + e) - (Finest - s)]
  <2> DEFINE n == Finest + e
             m == Finest - s
  <2>1. u * Pow10[n] = c * Pow10[m] /\ n \in Nat /\ m \in Nat
    BY <1>5, <1>6
  <2> HIDE DEF n, m
  <2>2. ASSUME n <= m PROVE u = c * Pow10[m - n]
    <3>1. u \in Int /\ c \in Int /\ n \in Nat /\ m \in Nat
      BY <1>4, <2>1
    <3>2. n <= m /\ u * Pow10[n] = c * Pow10[m]
      BY <2>1, <2>2
    <3> QED
      BY ONLY <3>1, <3>2, Finer
  <2>3. ASSUME m <= n PROVE c = u * Pow10[n - m]
    <3>1. u \in Int /\ c \in Int /\ n \in Nat /\ m \in Nat
      BY <1>4, <2>1
    <3>2. m <= n /\ c * Pow10[m] = u * Pow10[n]
      BY <2>1, <2>3
    <3> QED
      BY ONLY <3>1, <3>2, Finer
  <2> QED
    BY <2>2, <2>3 DEF n, m
<1>9. CASE -s - MaxExponent > 0
  <2> DEFINE surplus == -s - MaxExponent
             x == c * Pow10[surplus]
  <2>1. r.unscaled = x /\ r.exponent = MaxExponent
    BY <1>1, <1>9
  <2>2. surplus \in Nat /\ Finest + e <= Finest - s
        /\ (Finest - s) - (Finest + e) = surplus + (MaxExponent - e) /\ MaxExponent - e \in Nat
    BY <1>2, <1>4, <1>9
  <2> HIDE DEF surplus
  <2>3. Pow10[surplus] \in Nat /\ Pow10[MaxExponent - e] \in Nat
    BY <2>2, Pow10Grows
  <2>4. x \in Int
    BY <2>3
  <2>5. ~Fits(x)
    BY <1>2, <1>7, <2>1
  <2>6. u = c * Pow10[surplus + (MaxExponent - e)]
    BY <1>8, <2>2
  <2>7. Pow10[surplus + (MaxExponent - e)] = Pow10[surplus] * Pow10[MaxExponent - e]
    BY <2>2, Pow10Sum
  <2>8. u = x * Pow10[MaxExponent - e]
    BY <2>3, <2>6, <2>7
  <2> HIDE DEF x
  <2>9. x * Pow10[MaxExponent - e] \notin Ints
    BY <2>2, <2>4, <2>5, NeverFits
  <2> QED
    BY <1>3, <2>8, <2>9
<1>10. CASE ~(-s - MaxExponent > 0)
  <2>1. r.unscaled = c /\ r.exponent = -s
    BY <1>1, <1>10
  <2>2. -s <= MaxExponent
    BY <1>2, <1>10
  <2>3. CASE v.scale <= MaxExponent /\ c = v.unscaled /\ s = v.scale
    <3>1. -s >= -MaxExponent
      BY <1>2, <2>3
    <3>2. ~Fits(c)
      BY <1>7, <2>1, <3>1
    <3>3. c \notin Ints
      BY <1>2, <3>2 DEF Fits, Ints
    <3>4. -s \in Exponents
      BY <1>2, <2>2, <3>1 DEF Exponents
    <3> QED
      BY <2>3, <3>3, <3>4
  <2>4. CASE c = 0 /\ s = 0
    <3>1. -s >= -MaxExponent /\ Fits(c)
      BY <1>2, <2>4 DEF Fits, IntMin
    <3> QED
      BY <1>7, <2>1, <3>1
  <2>5. CASE c % 10 # 0
    <3>1. CASE e <= -s
      <4>1. -s >= -MaxExponent
        BY <1>2, <1>4, <3>1
      <4>2. ~Fits(c)
        BY <1>7, <2>1, <4>1
      <4>3. Finest + e <= Finest - s /\ (Finest - s) - (Finest + e) \in Nat
        BY <1>2, <1>4, <3>1
      <4>4. u = c * Pow10[(Finest - s) - (Finest + e)]
        BY <1>8, <4>3
      <4> QED
        BY <1>3, <4>2, <4>3, <4>4, NeverFits
    <3>2. CASE ~(e <= -s)
      <4> DEFINE k == e + s - 1
      <4>1. /\ Finest - s <= Finest + e /\ k \in Nat
            /\ (Finest + e) - (Finest - s) = k + 1
        BY <1>2, <1>4, <3>2
      <4> HIDE DEF k
      <4>2. c = u * Pow10[k + 1]
        BY <1>8, <4>1
      <4>3. Pow10[k + 1] = 10 * Pow10[k] /\ Pow10[k] \in Nat
        BY <4>1, Pow10Next, Pow10Grows
      <4> DEFINE m == u * Pow10[k]
      <4>4. c = 10 * m + 0 /\ m \in Int /\ 0 \in 0..(10 - 1) /\ 10 \in Nat \ {0}
        BY <1>4, <4>2, <4>3
      <4> HIDE DEF m
      <4>5. c % 10 = 0
        BY <4>4, DivUnique
      <4> QED
        BY <2>5, <4>5
    <3> QED
      BY <3>1, <3>2
  <2> QED
    BY <1>1, <2>3, <2>4, <2>5
<1> QED
  BY <1>9, <1>10
-----------------------------------------------------------------------------
(* Units.                                                                  *)

\* A Decimal is turned into units exactly when its amount is a whole number
\* of them, and then into that number (decimals.ts:88-100).
LEMMA UnitsOf ==
  ASSUME NEW d \in WireDecimals
  PROVE  LET fine == Pow10[Finest - TokenDecimals]
         IN  IF ToUnits(d).exact
               THEN ToUnits(d).units * fine = AmountOf(d)
               ELSE AmountOf(d) % fine # 0
<1> DEFINE u == d.unscaled
           shift == d.exponent + TokenDecimals
           spare == Finest - TokenDecimals
           fine == Pow10[spare]
<1>1. /\ Finest \in Nat /\ TokenDecimals \in Nat /\ TokenDecimals <= Finest
      /\ MaxExponent \in Nat /\ MaxExponent <= Finest
  BY WidthAssumption, FinestIs
<1>2. u \in Int /\ d.exponent \in -MaxExponent..MaxExponent
  BY WrapFits DEF WireDecimals, Exponents
<1>3. shift \in Int /\ spare \in Nat /\ Finest + d.exponent = shift + spare
      /\ shift + spare \in Nat
  BY <1>1, <1>2
<1>4. fine \in Nat \ {0}
  BY <1>3, Pow10Grows
<1>5. AmountOf(d) = u * Pow10[shift + spare]
  BY <1>3 DEF AmountOf
<1>8. ToUnits(d) = IF shift >= 0 THEN [exact |-> TRUE, units |-> u * Pow10[shift]]
                   ELSE IF u % Pow10[-shift] = 0
                     THEN [exact |-> TRUE, units |-> u \div Pow10[-shift]]
                   ELSE [exact |-> FALSE, units |-> 0]
  BY DEF ToUnits
<1> SUFFICES IF ToUnits(d).exact THEN ToUnits(d).units * fine = AmountOf(d)
             ELSE AmountOf(d) % fine # 0
  OBVIOUS
<1> HIDE DEF shift, spare
<1>6. CASE shift >= 0
  <2>1. ToUnits(d) = [exact |-> TRUE, units |-> u * Pow10[shift]]
    BY <1>6, <1>8
  <2>2. Pow10[shift + spare] = Pow10[shift] * fine /\ Pow10[shift] \in Nat
    BY <1>3, <1>6, Pow10Sum, Pow10Grows
  <2> DEFINE p == Pow10[shift]
  <2>3. (u * p) * fine = u * (p * fine)
    <3>1. p \in Nat
      BY <2>2
    <3> HIDE DEF p, fine, u
    <3> QED
      BY <1>2, <1>4, <3>1
  <2> QED
    BY <1>5, <2>1, <2>2, <2>3
<1>7. CASE shift < 0
  <2> DEFINE lack == -shift
             p == Pow10[lack]
             big == Pow10[shift + spare]
  <2>1. lack \in Nat /\ (shift + spare) + lack = spare
    BY <1>3, <1>7
  <2>3. ToUnits(d) = IF u % p = 0 THEN [exact |-> TRUE, units |-> u \div p]
                     ELSE [exact |-> FALSE, units |-> 0]
    BY <1>3, <1>7, <1>8
  <2> HIDE DEF lack
  <2>2. p \in Nat \ {0} /\ big \in Nat \ {0} /\ fine = big * p
    <3> DEFINE wide == shift + spare
    <3>1. wide \in Nat /\ wide + lack = spare
      BY <1>3, <2>1
    <3> HIDE DEF wide
    <3>2. Pow10[spare] = Pow10[wide] * Pow10[lack]
      BY <2>1, <3>1, Pow10Sum
    <3>3. Pow10[wide] \in Nat \ {0} /\ Pow10[lack] \in Nat \ {0}
      BY <2>1, <3>1, Pow10Grows
    <3> QED
      BY <3>2, <3>3 DEF wide
  <2> HIDE DEF p, big, fine, u
  <2>4. CASE u % p = 0
    <3> DEFINE q == u \div p
    <3>1. q \in Int /\ u = p * q + 0
      BY <1>2, <2>2, <2>4, Divided
    <3>2. q * fine = u * big
      <4> HIDE DEF q
      <4>1. q * (big * p) = (p * q + 0) * big
        BY <2>2, <3>1
      <4> QED
        BY <2>2, <3>1, <4>1
    <3>3. ToUnits(d).exact /\ ToUnits(d).units = q
      BY <2>3, <2>4
    <3> QED
      BY <1>5, <3>2, <3>3 DEF big, fine
  <2>5. CASE u % p # 0
    <3>1. (u * big) % fine # 0
      <4> SUFFICES ASSUME (u * big) % fine = 0
                   PROVE  FALSE
        OBVIOUS
      <4> DEFINE q == (u * big) \div fine
      <4>1. u * big \in Int
        BY <1>2, <2>2
      <4>2. q \in Int /\ u * big = fine * q + 0
        BY <1>4, <4>1, Divided
      <4> HIDE DEF q
      <4>3. u * big = (p * q) * big /\ p * q \in Int
        <5>1. (big * p) * q + 0 = (p * q) * big /\ p * q \in Int
          BY <2>2, <4>2
        <5> QED
          BY <2>2, <4>2, <5>1
      <4> DEFINE pq == p * q
      <4> HIDE DEF pq
      <4>4. u * big = pq * big /\ pq \in Int
        BY <4>3 DEF pq
      <4>5. u = pq
        BY <1>2, <2>2, <4>4, Cancel
      <4>6. u = p * q + 0 /\ 0 \in 0..(p - 1)
        BY <2>2, <4>2, <4>5 DEF pq
      <4>7. u % p = 0
        BY <1>2, <2>2, <4>2, <4>6, DivUnique
      <4> QED
        BY <2>5, <4>7
    <3>2. ~ToUnits(d).exact
      BY <2>3, <2>5
    <3> QED
      BY <1>5, <3>1, <3>2 DEF big, fine
  <2> QED
    BY <2>4, <2>5
<1> QED
  BY <1>3, <1>6, <1>7

-----------------------------------------------------------------------------
(* The way of an amount.                                                   *)

\* Where the amount came from, and who is looking at it.
Journey ==
    /\ stage \in {"text", "computed", "refused", "wire", "shown"}
    /\ text \in Texts \cup {NoText}
    /\ value \in BigDecimals
    /\ stage = "text" => text \in Texts /\ value = NoValue
    /\ stage = "computed" => text = NoText
    /\ stage \in {"text", "computed", "wire"} => reader = "nobody"
    /\ stage \in {"wire", "shown"} => decimal \in WireDecimals

\* What is on the wire is what was given.
Carried ==
    stage \in {"wire", "shown"} =>
      /\ text # NoText => AmountOfText(text) = AmountOf(decimal)
      /\ value # NoValue => AmountOfValue(value) = AmountOf(decimal)

\* Who refused it, and over what.
Refused ==
    stage = "refused" =>
      IF reader = "nobody"
        THEN \/ text \in Texts /\ ~Readable(text)
             \/ text = NoText /\ ~Taken(value)
        ELSE /\ decimal \in WireDecimals
             /\ reader = "units" => ~ToUnits(decimal).exact

\* What each reader makes of it.
Shown ==
    stage = "shown" =>
      IF reader = "units" THEN shown = ToUnits(decimal) /\ ToUnits(decimal).exact
      ELSE shown = ShownBy(reader, decimal)

IInv == Journey /\ Carried /\ Refused /\ Shown

\* Nothing given is the BigDecimal zero, which is taken.
LEMMA NothingIsABigDecimal == NoValue \in BigDecimals
<1>1. 0 \in -MaxMagnitude..MaxMagnitude /\ 0 \in -MaxScale..MaxScale
  BY WidthAssumption
<1> QED
  BY <1>1 DEF NoValue, BigDecimals

LEMMA IInvInit == Init => IInv
<1> SUFFICES ASSUME Init
             PROVE  IInv
  OBVIOUS
<1>1. NoValue \in BigDecimals
  BY NothingIsABigDecimal
<1>2. reader = "nobody" /\ shown = NoText
  BY DEF Init
<1>3. CASE stage = "text" /\ text \in Texts /\ value = NoValue
  BY <1>1, <1>2, <1>3 DEF IInv, Journey, Carried, Refused, Shown
<1>4. CASE stage = "computed" /\ text = NoText /\ value \in BigDecimals
  BY <1>2, <1>4 DEF IInv, Journey, Carried, Refused, Shown
<1>5. CASE stage = "wire" /\ text = NoText /\ value = NoValue /\ decimal \in WireDecimals
  BY <1>1, <1>2, <1>5 DEF IInv, Journey, Carried, Refused, Shown
<1> QED
  BY <1>3, <1>4, <1>5 DEF Init, WireDecimals

LEMMA IInvRead == IInv /\ Read => IInv'
<1> SUFFICES ASSUME IInv, Read
             PROVE  IInv'
  OBVIOUS
<1>1. /\ text \in Texts /\ value = NoValue /\ reader = "nobody" /\ value \in BigDecimals
      /\ text # NoText
  BY TextsAre DEF IInv, Journey, Read
<1>2. text' = text /\ value' = value /\ reader' = reader /\ shown' = shown
  BY DEF Read
<1>3. CASE Readable(text)
  <2>1. stage' = "wire" /\ decimal' = DecimalFromString(text)
    BY <1>3 DEF Read
  <2>2. decimal' \in WireDecimals /\ AmountOf(decimal') = AmountOfText(text)
    BY <1>1, <1>3, <2>1, TextIsRead
  <2> QED
    BY <1>1, <1>2, <2>1, <2>2 DEF IInv, Journey, Carried, Refused, Shown
<1>4. CASE ~Readable(text)
  <2>1. stage' = "refused"
    BY <1>4 DEF Read
  <2> QED
    BY <1>1, <1>2, <1>4, <2>1 DEF IInv, Journey, Carried, Refused, Shown
<1> QED
  BY <1>3, <1>4

LEMMA IInvOf == IInv /\ Of => IInv'
<1> SUFFICES ASSUME IInv, Of
             PROVE  IInv'
  OBVIOUS
<1>1. text = NoText /\ value \in BigDecimals /\ reader = "nobody"
  BY DEF IInv, Journey, Of
<1>2. text' = text /\ value' = value /\ reader' = reader /\ shown' = shown
  BY DEF Of
<1>3. CASE Taken(value)
  <2>1. stage' = "wire" /\ decimal' = Rescaled(value)
    BY <1>3 DEF Of, Taken
  <2>2. decimal' \in WireDecimals /\ AmountOf(decimal') = AmountOfValue(value)
    BY <1>1, <1>3, <2>1, ValueIsTaken
  <2> QED
    BY <1>1, <1>2, <2>1, <2>2 DEF IInv, Journey, Carried, Refused, Shown
<1>4. CASE ~Taken(value)
  <2>1. stage' = "refused"
    BY <1>4 DEF Of, Taken
  <2> QED
    BY <1>1, <1>2, <1>4, <2>1 DEF IInv, Journey, Carried, Refused, Shown
<1> QED
  BY <1>3, <1>4

LEMMA IInvShow == IInv /\ Show => IInv'
<1> SUFFICES ASSUME IInv, Show
             PROVE  IInv'
  OBVIOUS
<1>1. stage = "wire" /\ decimal \in WireDecimals
  BY DEF IInv, Journey, Show
<1>2. text' = text /\ value' = value /\ decimal' = decimal
  BY DEF Show
<1>3. text' \in Texts \cup {NoText} /\ value' \in BigDecimals /\ decimal' \in WireDecimals
  BY <1>1, <1>2 DEF IInv, Journey
<1>4. /\ text' # NoText => AmountOfText(text') = AmountOf(decimal')
      /\ value' # NoValue => AmountOfValue(value') = AmountOf(decimal')
  BY <1>1, <1>2 DEF IInv, Carried
<1>5. PICK r \in Readers :
        /\ reader' = r
        /\ IF r = "units"
             THEN IF ToUnits(decimal).exact
                    THEN stage' = "shown" /\ shown' = ToUnits(decimal)
                    ELSE stage' = "refused" /\ UNCHANGED shown
             ELSE stage' = "shown" /\ shown' = ShownBy(r, decimal)
  BY DEF Show
<1>6. CASE r = "units" /\ ToUnits(decimal).exact
  <2>1. stage' = "shown" /\ reader' = "units" /\ shown' = ToUnits(decimal')
        /\ ToUnits(decimal').exact
    BY <1>2, <1>5, <1>6
  <2> QED
    BY <1>3, <1>4, <2>1 DEF IInv, Journey, Carried, Refused, Shown
<1>7. CASE r = "units" /\ ~ToUnits(decimal).exact
  <2>1. stage' = "refused" /\ reader' = "units" /\ ~ToUnits(decimal').exact
    BY <1>2, <1>5, <1>7
  <2> QED
    BY <1>3, <2>1 DEF IInv, Journey, Carried, Refused, Shown
<1>8. CASE r # "units"
  <2>1. stage' = "shown" /\ reader' # "units"
        /\ shown' = ShownBy(reader', decimal')
    BY <1>2, <1>5, <1>8
  <2> QED
    BY <1>3, <1>4, <2>1 DEF IInv, Journey, Carried, Refused, Shown
<1> QED
  BY <1>6, <1>7, <1>8

LEMMA IInvStutter == IInv /\ UNCHANGED vars => IInv'
BY DEF IInv, Journey, Carried, Refused, Shown, Taken, vars

\* The inductive invariant: wherever the amount is, it is the one given.
THEOREM AmountKept == Spec => []IInv
<1>1. IInv /\ [Next]_vars => IInv'
  BY IInvRead, IInvOf, IInvShow, IInvStutter DEF Next
<1> QED
  BY IInvInit, <1>1, PTL DEF Spec

\* Whoever shows it, digits, zeros, point and sign make up the very amount
\* t-0 carries, and a plain decimal again (decimals.ts:56-79).
THEOREM ShowingKeepsTheAmount == Spec => []ShownIsTheAmount
<1>1. IInv => ShownIsTheAmount
  <2> SUFFICES ASSUME IInv, stage = "shown", reader # "units",
                      reader = "go" => decimal.unscaled # IntMin
               PROVE  Plain(shown) /\ AmountOfText(shown) = AmountOf(decimal)
    BY DEF ShownIsTheAmount
  <2>1. decimal \in WireDecimals
    BY DEF IInv, Journey
  <2>2. shown = ShownBy(reader, decimal)
    BY DEF IInv, Shown
  <2> QED
    BY <2>1, <2>2, EveryStringShows
<1> QED
  BY AmountKept, <1>1, PTL

\* What goes on the wire is the amount the text or the BigDecimal says, and
\* what is refused could not have been carried (Decimals.java:27-41).
THEOREM ReadingKeepsTheAmount == Spec => []ReadIsTheAmount
<1>1. IInv => ReadIsTheAmount
  <2> SUFFICES ASSUME IInv
               PROVE  ReadIsTheAmount
    OBVIOUS
  <2>1. stage \in {"wire", "shown"} =>
          /\ text # NoText => AmountOfText(text) = AmountOf(decimal)
          /\ value # NoValue => AmountOfValue(value) = AmountOf(decimal)
    BY DEF IInv, Carried
  <2>2. ASSUME stage = "refused", reader = "nobody"
        PROVE  IF text # NoText
           THEN ~\E u \in Ints : Len(text.fraction) <= MaxExponent
                                  /\ u * Pow10[Finest - Len(text.fraction)] = AmountOfText(text)
           ELSE \/ -value.scale \in Exponents /\ value.unscaled \notin Ints
                \/ \A d \in WireDecimals : AmountOf(d) # AmountOfValue(value)
    <3>1. CASE text \in Texts /\ ~Readable(text)
      BY <3>1, TextsAre, TextIsRefused
    <3>2. CASE text = NoText /\ ~Taken(value)
      <4>1. value \in BigDecimals
        BY DEF IInv, Journey
      <4> QED
        BY <3>2, <4>1, ValueIsRefused
    <3> QED
      BY <2>2, <3>1, <3>2 DEF IInv, Refused
  <2> QED
    BY <2>1, <2>2 DEF ReadIsTheAmount, WireDecimals
<1> QED
  BY AmountKept, <1>1, PTL

\* A number of units is exactly the amount; only an amount that is no whole
\* number of them is refused (decimals.ts:88-100).
THEOREM UnitsKeepTheAmount == Spec => []UnitsAreExact
<1>1. IInv => UnitsAreExact
  <2> SUFFICES ASSUME IInv, reader = "units"
               PROVE  /\ stage = "shown" =>
                           shown.units * Pow10[Finest - TokenDecimals] = AmountOf(decimal)
                      /\ stage = "refused" =>
                           AmountOf(decimal) % Pow10[Finest - TokenDecimals] # 0
    BY DEF UnitsAreExact
  <2>1. ASSUME stage = "shown"
        PROVE  shown.units * Pow10[Finest - TokenDecimals] = AmountOf(decimal)
    <3>1. decimal \in WireDecimals /\ shown = ToUnits(decimal) /\ ToUnits(decimal).exact
      BY <2>1 DEF IInv, Journey, Shown
    <3> QED
      BY <3>1, UnitsOf
  <2>2. ASSUME stage = "refused"
        PROVE  AmountOf(decimal) % Pow10[Finest - TokenDecimals] # 0
    <3>1. decimal \in WireDecimals /\ ~ToUnits(decimal).exact
      BY <2>2 DEF IInv, Refused
    <3> QED
      BY <3>1, UnitsOf
  <2> QED
    BY <2>1, <2>2
<1> QED
  BY AmountKept, <1>1, PTL

\* What any reader shows of a text that some starter read.
EndToEnd ==
    stage = "shown" /\ text # NoText =>
      IF reader = "units"
        THEN shown.units * Pow10[Finest - TokenDecimals] = AmountOfText(text)
        ELSE (reader = "go" => decimal.unscaled # IntMin) => AmountOfText(shown) = AmountOfText(text)

\* From end to end, whatever the languages at the two ends, a text is shown as
\* a text of the same amount, or turned into units of that amount, none lost to
\* rounding (decimals.ts:25-101).
THEOREM AmountTravels == Spec => []EndToEnd
<1>1. ReadIsTheAmount /\ ShownIsTheAmount /\ UnitsAreExact => EndToEnd
  BY DEF ReadIsTheAmount, ShownIsTheAmount, UnitsAreExact, EndToEnd
<1> QED
  BY ReadingKeepsTheAmount, ShowingKeepsTheAmount, UnitsKeepTheAmount, <1>1, PTL

=============================================================================
