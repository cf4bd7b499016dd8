----------------------- MODULE BitcoinCreationProofs ------------------------
(***************************************************************************)
(* Theorems about BitcoinCreation.  What is signed is the object on the    *)
(* screen, made anew from the stash after every change of the store; the   *)
(* proofs therefore follow an object through its setters (Rebalancing and  *)
(* what follows), through the stash and back (FromStash), and show that    *)
(* it is settled: chosen anew, the same inputs and change would come out.  *)
(* All that is said of sums of outputs rests on a count of the naturals    *)
(* (Counting), from sequences to sums to selections.  The last part is     *)
(* about fees: a price raised by a tenth, times a weight that did not      *)
(* shrink, comes to more than was paid (RaisedByATenth), and the stash and *)
(* the object never fall below that price and that fee (RaisedInv).        *)
(***************************************************************************)
EXTENDS BitcoinCreation, SequenceTheorems, FiniteSetTheorems, WellFoundedInduction, TLAPS

(* A set of naturals that is not empty has a least member.                 *)
LEMMA Least ==
  ASSUME NEW T, T \subseteq Nat, T # {}
  PROVE  \E m \in T : \A n \in T : m <= n
<1> DEFINE R == {ss \in Nat \X Nat : ss[1] < ss[2]}
<1>1. IsWellFoundedOn(R, Nat)
  BY NatLessThanWellFounded DEF OpToRel
<1> HIDE DEF R
<1>2. PICK m \in T : \A n \in T : <<n, m>> \notin R
  BY <1>1, WFMin
<1>3. \A n \in T : ~(n < m)
  <2> SUFFICES ASSUME NEW n \in T, n < m PROVE FALSE
    OBVIOUS
  <2>1. <<n, m>> \in R
    BY DEF R
  <2> QED BY <2>1, <1>2
<1> QED
  BY <1>3

(* Induction: what holds of zero and is carried on holds of all.           *)
LEMMA Counting ==
  ASSUME NEW S, 0 \in S, \A n \in Nat : n \in S => n + 1 \in S
  PROVE  \A n \in Nat : n \in S
<1> SUFFICES ASSUME ~(Nat \subseteq S) PROVE FALSE
  OBVIOUS
<1> DEFINE T == Nat \ S
<1>1. T \subseteq Nat /\ T # {}
  OBVIOUS
<1>2. PICK m \in T : \A n \in T : m <= n
  BY <1>1, Least
<1>3. m # 0 /\ m \in Nat /\ m \notin S
  BY <1>2
<1>4. m - 1 \in Nat /\ m - 1 \notin T
  BY <1>2, <1>3
<1>5. m - 1 \in S
  BY <1>4
<1> QED
  BY <1>3, <1>4, <1>5

-----------------------------------------------------------------------------
(* What is summed up over the first n of a sequence.                       *)
SumsUp(a, g) ==
  /\ g \in [0 .. Len(a) -> Int] /\ g[0] = 0
  /\ \A n \in 1 .. Len(a) : g[n] = g[n - 1] + a[n]

Summed(a, N) ==
  \E g \in [0 .. N -> Int] : g[0] = 0 /\ \A n \in 1 .. N : g[n] = g[n - 1] + a[n]

(* The partial sums exist.                                                 *)
LEMMA SumsExist ==
  ASSUME NEW a \in Seq(Int)
  PROVE  \E g : SumsUp(a, g)
<1> DEFINE S == {N \in Nat : N <= Len(a) => Summed(a, N)}
<1>1. 0 \in S
  <2> DEFINE z == [n \in 0 .. 0 |-> 0]
  <2>1. z \in [0 .. 0 -> Int] /\ z[0] = 0 /\ \A n \in 1 .. 0 : z[n] = z[n - 1] + a[n]
    OBVIOUS
  <2>2. Summed(a, 0)
    BY <2>1 DEF Summed
  <2> QED BY <2>2
<1>2. ASSUME NEW N \in Nat, N \in S PROVE N + 1 \in S
  <2> SUFFICES ASSUME N + 1 <= Len(a) PROVE Summed(a, N + 1)
    OBVIOUS
  <2>1. PICK g \in [0 .. N -> Int] : g[0] = 0 /\ \A n \in 1 .. N : g[n] = g[n - 1] + a[n]
    <3>1. Summed(a, N)
      BY <1>2
    <3> QED BY <3>1 DEF Summed
  <2> DEFINE h == [n \in 0 .. N + 1 |-> IF n = N + 1 THEN g[N] + a[N + 1] ELSE g[n]]
  <2>2. a[N + 1] \in Int /\ g[N] \in Int
    OBVIOUS
  <2>3. h \in [0 .. N + 1 -> Int]
    BY <2>2
  <2>4. h[0] = 0
    BY <2>1
  <2>5. ASSUME NEW n \in 1 .. N + 1 PROVE h[n] = h[n - 1] + a[n]
    <3>1. CASE n = N + 1
      BY <3>1
    <3>2. CASE n # N + 1
      <4>1. n \in 1 .. N /\ n - 1 \in 0 .. N
        BY <3>2
      <4>2. h[n] = g[n] /\ h[n - 1] = g[n - 1]
        BY <4>1, <3>2
      <4> QED BY <4>1, <4>2, <2>1
    <3> QED BY <3>1, <3>2
  <2> HIDE DEF h
  <2> QED BY <2>3, <2>4, <2>5 DEF Summed
<1> HIDE DEF S
<1>3. Len(a) \in S
  BY <1>1, <1>2, Counting
<1>4. Summed(a, Len(a))
  BY <1>3 DEF S
<1> QED
  BY <1>4 DEF Summed, SumsUp

(* The sum is the last of them.                                            *)
LEMMA SumIsLast ==
  ASSUME NEW a \in Seq(Int)
  PROVE  \E g : SumsUp(a, g) /\ SumOf(a) = g[Len(a)]
<1> DEFINE F(f) == [n \in 0 .. Len(a) |-> IF n = 0 THEN 0 ELSE f[n - 1] + a[n]]
           f == CHOOSE f : f = F(f)
<1>1. PICK g : SumsUp(a, g)
  BY SumsExist
<1>2. g = F(g)
  <2>1. \A n \in 0 .. Len(a) : g[n] = F(g)[n]
    BY <1>1 DEF SumsUp
  <2> QED BY <1>1, <2>1 DEF SumsUp
<1>3. f = F(f)
  BY <1>2
<1>4. SumOf(a) = f[Len(a)]
  BY DEF SumOf
<1> HIDE DEF f
<1> DEFINE S == {n \in Nat : n <= Len(a) => f[n] \in Int}
<1>5. 0 \in S
  <2>1. F(f)[0] = 0
    OBVIOUS
  <2> QED BY <1>3, <2>1
<1>6. ASSUME NEW n \in Nat, n \in S PROVE n + 1 \in S
  <2> SUFFICES ASSUME n + 1 <= Len(a) PROVE f[n + 1] \in Int
    OBVIOUS
  <2>1. F(f)[n + 1] = f[n] + a[n + 1]
    OBVIOUS
  <2>2. a[n + 1] \in Int /\ f[n] \in Int
    BY <1>6
  <2> QED BY <1>3, <2>1, <2>2
<1>7. \A n \in Nat : n \in S
  <2> HIDE DEF S
  <2> QED BY <1>5, <1>6, Counting
<1>8. \A n \in 0 .. Len(a) : f[n] \in Int
  BY <1>7
<1>9. \A n \in 0 .. Len(a) : f[n] = IF n = 0 THEN 0 ELSE f[n - 1] + a[n]
  BY <1>3
<1>10. f \in [0 .. Len(a) -> Int]
  BY <1>3, <1>8
<1>11. SumsUp(a, f)
  BY <1>9, <1>10 DEF SumsUp
<1> QED
  BY <1>4, <1>11

(* The empty sum.                                                          *)
LEMMA SumOfNothing == SumOf(<<>>) = 0
<1>1. <<>> \in Seq(Int) /\ Len(<<>>) = 0
  OBVIOUS
<1> QED
  BY <1>1, SumIsLast DEF SumsUp

(* A sum with one summand more.                                            *)
LEMMA SumOfMore ==
  ASSUME NEW a \in Seq(Int), NEW x \in Int
  PROVE  SumOf(a) \in Int /\ SumOf(Append(a, x)) = SumOf(a) + x
<1>2. PICK g : SumsUp(a, g) /\ SumOf(a) = g[Len(a)]
  BY SumIsLast
<1> DEFINE b == Append(a, x)
<1>3. b \in Seq(Int) /\ Len(b) = Len(a) + 1 /\ b[Len(a) + 1] = x
      /\ \A n \in 1 .. Len(a) : b[n] = a[n]
  OBVIOUS
<1> HIDE DEF b
<1>4. PICK h : SumsUp(b, h) /\ SumOf(b) = h[Len(b)]
  BY <1>3, SumIsLast
<1> DEFINE S == {n \in Nat : n <= Len(a) => h[n] = g[n]}
<1>5. 0 \in S
  BY <1>2, <1>4 DEF SumsUp
<1>6. ASSUME NEW n \in Nat, n \in S PROVE n + 1 \in S
  <2> SUFFICES ASSUME n + 1 <= Len(a) PROVE h[n + 1] = g[n + 1]
    OBVIOUS
  <2>1. n + 1 \in 1 .. Len(a) /\ n + 1 \in 1 .. Len(b) /\ (n + 1) - 1 = n
    BY <1>3
  <2>2. h[n + 1] = h[n] + b[n + 1] /\ g[n + 1] = g[n] + a[n + 1]
    BY <1>2, <1>4, <2>1 DEF SumsUp
  <2>3. h[n] = g[n]
    BY <1>6
  <2> QED BY <2>1, <2>2, <2>3, <1>3
<1>7. Len(a) \in S
  <2> HIDE DEF S
  <2> QED BY <1>5, <1>6, Counting
<1>8. h[Len(a)] = g[Len(a)]
  BY <1>7
<1>9. h[Len(a) + 1] = h[Len(a)] + x
  <2>1. Len(a) + 1 \in 1 .. Len(b) /\ (Len(a) + 1) - 1 = Len(a)
    BY <1>3
  <2> QED BY <1>4, <1>3, <2>1 DEF SumsUp
<1>10. SumOf(a) \in Int
  BY <1>2 DEF SumsUp
<1> QED
  BY <1>2, <1>3, <1>4, <1>8, <1>9, <1>10 DEF b

(* What can be spent, and any part of it in any order.                     *)
Spendable == ToSet(Wallet)
Picked == {q \in Seq(Spendable) : IsInjective(q)}

(* A sequence that is not empty has a last element.                        *)
LEMMA Ending ==
  ASSUME NEW T, NEW q \in Seq(T), q # <<>>
  PROVE  \E h \in Seq(T) : /\ Len(q) = Len(h) + 1 /\ q[Len(q)] \in T
                           /\ q = Append(h, q[Len(q)])
                           /\ \A i \in 1 .. Len(h) : h[i] = q[i]
<1> DEFINE h == SubSeq(q, 1, Len(q) - 1)
<1>1. Len(q) \in Nat /\ Len(q) > 0
  BY EmptySeq
<1>2. h \in Seq(T) /\ Len(h) = Len(q) - 1 /\ \A i \in 1 .. Len(h) : h[i] = q[i]
  <2>1. PICK m \in Nat : m = Len(q) - 1
    BY <1>1
  <2>2. \A i \in 1 .. m : q[i] \in T
    BY <1>1, <2>1
  <2>3. /\ h \in Seq(T) /\ Len(h) = IF 1 <= m THEN m - 1 + 1 ELSE 0
        /\ \A i \in 1 .. m - 1 + 1 : h[i] = q[1 + i - 1]
    BY <2>1, <2>2, SubSeqProperties
  <2> HIDE DEF h
  <2>4. Len(h) = m
    BY <2>3
  <2>5. ASSUME NEW i \in 1 .. m PROVE h[i] = q[i]
    <3>1. i \in 1 .. m - 1 + 1 /\ 1 + i - 1 = i
      OBVIOUS
    <3> QED BY <2>3, <3>1
  <2> QED
    BY <2>1, <2>3, <2>4, <2>5
<1>3. q[Len(q)] \in T
  BY <1>1
<1>4. q = Append(h, q[Len(q)])
  <2>1. Append(h, q[Len(q)]) \in Seq(T) /\ Len(Append(h, q[Len(q)])) = Len(q)
    BY <1>1, <1>2, <1>3
  <2>2. \A i \in 1 .. Len(q) : q[i] = Append(h, q[Len(q)])[i]
    BY <1>1, <1>2, <1>3
  <2> HIDE DEF h
  <2> QED
    BY <2>1, <2>2, SeqEqual
<1> HIDE DEF h
<1>5. Len(q) = Len(h) + 1
  BY <1>1, <1>2
<1> QED
  BY <1>2, <1>3, <1>4, <1>5

(* The worth of nothing.                                                   *)
LEMMA TotalOfNothing == Total(<<>>) = 0
<1>1. [i \in DOMAIN <<>> |-> Value[(<<>>)[i]]] = <<>>
  OBVIOUS
<1> QED
  BY <1>1, SumOfNothing DEF Total

(* A sequence of length zero is empty.                                     *)
LEMMA Nothing ==
  ASSUME NEW T, NEW q \in Seq(T), Len(q) = 0
  PROVE  q = <<>>
  BY EmptySeq

(* The worths of outputs are numbers.                                      *)
LEMMA Worths ==
  ASSUME NEW s \in Seq(Spendable)
  PROVE  [i \in DOMAIN s |-> Value[s[i]]] \in Seq(Int)
<1>1. DOMAIN s = 1 .. Len(s) /\ Len(s) \in Nat
  OBVIOUS
<1>2. \A i \in 1 .. Len(s) : s[i] \in Spendable
  OBVIOUS
<1>3. \A i \in 1 .. Len(s) : Value[s[i]] \in Int
  BY <1>2, WalletAssumption DEF Spendable
<1> QED
  BY <1>1, <1>3

(* The worth of some outputs is a number.                                  *)
LEMMA TotalIsNumber ==
  ASSUME NEW q \in Seq(Spendable)
  PROVE  Total(q) \in Int
<1>1. 0 \in Int
  OBVIOUS
<1> QED
  BY <1>1, Worths, SumOfMore DEF Total

(* The worth of one output more.                                           *)
LEMMA TotalOfOneMore ==
  ASSUME NEW q \in Seq(Spendable), NEW u \in Spendable
  PROVE  Total(Append(q, u)) = Total(q) + Value[u]
<1> DEFINE worth(s) == [i \in DOMAIN s |-> Value[s[i]]]
<1>1. \A s \in Seq(Spendable) : worth(s) \in Seq(Int)
  BY Worths
<1>3. worth(Append(q, u)) = Append(worth(q), Value[u])
  <2>1. worth(q) \in Seq(Int) /\ Len(worth(q)) = Len(q)
    BY <1>1
  <2>2. Append(q, u) \in Seq(Spendable) /\ Len(Append(q, u)) = Len(q) + 1
        /\ Append(q, u)[Len(q) + 1] = u /\ \A i \in 1 .. Len(q) : Append(q, u)[i] = q[i]
    OBVIOUS
  <2>3. DOMAIN worth(Append(q, u)) = 1 .. Len(q) + 1
    BY <2>2
  <2>4. DOMAIN Append(worth(q), Value[u]) = 1 .. Len(q) + 1
    BY <2>1
  <2>5. ASSUME NEW i \in 1 .. Len(q) + 1
        PROVE  worth(Append(q, u))[i] = Append(worth(q), Value[u])[i]
    <3>1. CASE i = Len(q) + 1
      BY <3>1, <2>1, <2>2
    <3>2. CASE i # Len(q) + 1
      <4>1. i \in 1 .. Len(q)
        BY <3>2
      <4>2. worth(q)[i] = Value[q[i]]
        BY <4>1
      <4>3. worth(Append(q, u))[i] = Value[q[i]]
        BY <4>1, <2>2
      <4>4. Append(worth(q), Value[u])[i] = worth(q)[i]
        BY <4>1, <2>1
      <4> QED BY <4>2, <4>3, <4>4
    <3> QED BY <3>1, <3>2
  <2>6. worth(Append(q, u)) \in Seq(Int)
    BY <2>2, <1>1
  <2>7. Append(worth(q), Value[u]) \in Seq(Int)
    BY <2>1, WalletAssumption DEF Spendable
  <2> HIDE DEF worth
  <2> QED BY <2>3, <2>4, <2>5, <2>6, <2>7
<1>4. worth(q) \in Seq(Int) /\ Value[u] \in Int
  BY <1>1, WalletAssumption DEF Spendable
<1>5. \A s : Total(s) = SumOf(worth(s))
  BY DEF Total
<1> HIDE DEF worth
<1> QED
  BY <1>3, <1>4, <1>5, SumOfMore

(* A sequence without its k-th element.                                    *)
Without(q, k) == [i \in 1 .. Len(q) - 1 |-> IF i < k THEN q[i] ELSE q[i + 1]]

WorthLess(q) == \A k \in 1 .. Len(q) : Total(q) = Total(Without(q, k)) + Value[q[k]]

(* Without an output, the worth is less by that of the output.             *)
LEMMA TotalWithout ==
  ASSUME NEW q \in Seq(Spendable)
  PROVE  WorthLess(q)
<1> DEFINE S == {n \in Nat : \A s \in Seq(Spendable) : Len(s) = n => WorthLess(s)}
<1>1. 0 \in S
  BY DEF WorthLess
<1>2. ASSUME NEW n \in Nat, n \in S PROVE n + 1 \in S
  <2> SUFFICES ASSUME NEW s \in Seq(Spendable), Len(s) = n + 1, NEW k \in 1 .. Len(s)
               PROVE  Total(s) = Total(Without(s, k)) + Value[s[k]]
    BY DEF WorthLess
  <2>1. PICK h \in Seq(Spendable) :
          /\ Len(s) = Len(h) + 1 /\ s[Len(s)] \in Spendable
          /\ s = Append(h, s[Len(s)])
          /\ \A i \in 1 .. Len(h) : h[i] = s[i]
    <3>1. s # <<>>
      OBVIOUS
    <3> QED BY <3>1, Ending
  <2> DEFINE u == s[Len(s)]
  <2>2. Len(h) = n /\ Total(s) = Total(h) + Value[u]
    <3>1. Len(h) = n
      BY <2>1
    <3>2. u \in Spendable /\ s = Append(h, u)
      BY <2>1
    <3> HIDE DEF u
    <3>3. Total(Append(h, u)) = Total(h) + Value[u]
      BY <3>2, TotalOfOneMore
    <3> QED BY <3>1, <3>2, <3>3
  <2>3. CASE k = Len(s)
    <3>1. Without(s, k) = h
      <4>1. DOMAIN Without(s, k) = 1 .. Len(h) /\ DOMAIN h = 1 .. Len(h)
        BY <2>1 DEF Without
      <4>2. \A i \in 1 .. Len(h) : Without(s, k)[i] = h[i]
        BY <2>1, <2>3 DEF Without
      <4>3. Without(s, k) = [i \in 1 .. Len(h) |-> Without(s, k)[i]]
        BY <4>1 DEF Without
      <4> QED BY <4>1, <4>2, <4>3
    <3> QED BY <3>1, <2>2, <2>3
  <2>4. CASE k # Len(s)
    <3>1. k \in 1 .. Len(h)
      BY <2>1, <2>4
    <3>2. Total(h) = Total(Without(h, k)) + Value[h[k]]
      BY <1>2, <2>2, <3>1 DEF WorthLess
    <3>3. Without(h, k) \in Seq(Spendable) /\ Len(Without(h, k)) = Len(h) - 1
      <4>1. \A i \in 1 .. Len(h) - 1 : (IF i < k THEN h[i] ELSE h[i + 1]) \in Spendable
        OBVIOUS
      <4>2. Len(h) - 1 \in Nat
        BY <3>1
      <4> QED BY <4>1, <4>2 DEF Without
    <3>4. Without(s, k) = Append(Without(h, k), u)
      <4>1. DOMAIN Without(s, k) = 1 .. Len(h) /\ DOMAIN Append(Without(h, k), u) = 1 .. Len(h)
        BY <2>1, <3>1, <3>3 DEF Without
      <4>2. ASSUME NEW i \in 1 .. Len(h)
            PROVE  Without(s, k)[i] = Append(Without(h, k), u)[i]
        <5>1. CASE i = Len(h)
          <6>1. Append(Without(h, k), u)[i] = u
            BY <5>1, <3>3
          <6>2. ~(i < k) /\ i + 1 = Len(s)
            BY <5>1, <3>1, <2>1
          <6>3. Without(s, k)[i] = s[i + 1]
            BY <6>2, <2>1 DEF Without
          <6> QED BY <6>1, <6>2, <6>3
        <5>2. CASE i # Len(h)
          <6>1. i \in 1 .. Len(h) - 1
            BY <5>2
          <6>2. Append(Without(h, k), u)[i] = Without(h, k)[i]
            BY <6>1, <3>3
          <6>3. Without(h, k)[i] = IF i < k THEN h[i] ELSE h[i + 1]
            BY <6>1 DEF Without
          <6>4. Without(s, k)[i] = IF i < k THEN s[i] ELSE s[i + 1]
            BY <2>1 DEF Without
          <6>5. h[i] = s[i] /\ h[i + 1] = s[i + 1]
            BY <6>1, <2>1
          <6> QED BY <6>2, <6>3, <6>4, <6>5
        <5> QED BY <5>1, <5>2
      <4>3. Append(Without(h, k), u) \in Seq(Spendable)
        BY <3>3, <2>1
      <4>4. Without(s, k) = [i \in 1 .. Len(h) |-> Without(s, k)[i]]
        BY <4>1 DEF Without
      <4>5. Append(Without(h, k), u) = [i \in 1 .. Len(h) |-> Append(Without(h, k), u)[i]]
        BY <4>1, <4>3
      <4> QED BY <4>2, <4>4, <4>5
    <3>5. Total(Without(s, k)) = Total(Without(h, k)) + Value[u] /\ Total(Without(h, k)) \in Int
      BY <3>3, <3>4, <2>1, TotalOfOneMore, TotalIsNumber
    <3>6. h[k] = s[k] /\ Value[h[k]] \in Int /\ Value[u] \in Int
      <4>1. h[k] \in Spendable
        BY <3>1
      <4> QED BY <4>1, <2>1, <3>1, WalletAssumption DEF Spendable
    <3> QED BY <2>2, <3>2, <3>5, <3>6
  <2> QED BY <2>3, <2>4
<1>3. Len(q) \in S
  <2> HIDE DEF S
  <2> QED BY <1>1, <1>2, Counting
<1> QED
  BY <1>3

(* Without its k-th element, a picked sequence is picked of the others.    *)
LEMMA PickedWithout ==
  ASSUME NEW q \in Picked, NEW k \in 1 .. Len(q)
  PROVE  /\ Without(q, k) \in Picked /\ Len(Without(q, k)) = Len(q) - 1
         /\ ToSet(Without(q, k)) = ToSet(q) \ {q[k]}
<1> DEFINE w == Without(q, k)
<1>1. q \in Seq(Spendable) /\ Len(q) \in Nat /\ DOMAIN q = 1 .. Len(q)
      /\ \A i, j \in 1 .. Len(q) : q[i] = q[j] => i = j
  BY DEF Picked, IsInjective
<1>2. /\ DOMAIN w = 1 .. Len(q) - 1 /\ Len(q) - 1 \in Nat
      /\ \A i \in 1 .. Len(q) - 1 : w[i] = IF i < k THEN q[i] ELSE q[i + 1]
  BY <1>1 DEF Without
<1>3. w \in Seq(Spendable) /\ Len(w) = Len(q) - 1
  <2>1. \A i \in 1 .. Len(q) - 1 : (IF i < k THEN q[i] ELSE q[i + 1]) \in Spendable
    BY <1>1
  <2> QED BY <1>2, <2>1 DEF Without
<1> HIDE DEF w
<1>4. IsInjective(w)
  <2> SUFFICES ASSUME NEW i \in 1 .. Len(q) - 1, NEW j \in 1 .. Len(q) - 1, w[i] = w[j]
               PROVE  i = j
    BY <1>2 DEF IsInjective
  <2>1. w[i] = (IF i < k THEN q[i] ELSE q[i + 1]) /\ w[j] = (IF j < k THEN q[j] ELSE q[j + 1])
    BY <1>2
  <2>2. i \in 1 .. Len(q) /\ i + 1 \in 1 .. Len(q) /\ j \in 1 .. Len(q) /\ j + 1 \in 1 .. Len(q)
    BY <1>1
  <2>3. (IF i < k THEN i ELSE i + 1) = (IF j < k THEN j ELSE j + 1)
    BY <1>1, <2>1, <2>2
  <2> QED BY <2>3
<1>5. ToSet(w) = ToSet(q) \ {q[k]}
  <2>1. ASSUME NEW i \in 1 .. Len(q) - 1 PROVE w[i] \in ToSet(q) \ {q[k]}
    <3>1. i \in 1 .. Len(q) /\ i + 1 \in 1 .. Len(q)
      BY <1>1
    <3>2. CASE i < k
      BY <3>1, <3>2, <1>1, <1>2 DEF ToSet
    <3>3. CASE ~(i < k)
      BY <3>1, <3>3, <1>1, <1>2 DEF ToSet
    <3> QED BY <3>2, <3>3
  <2>2. ASSUME NEW i \in 1 .. Len(q), q[i] # q[k] PROVE q[i] \in ToSet(w)
    <3>1. CASE i < k
      <4>1. i \in 1 .. Len(q) - 1
        BY <3>1
      <4>2. w[i] = q[i]
        BY <3>1, <4>1, <1>2
      <4> QED BY <4>1, <4>2, <1>2 DEF ToSet
    <3>2. CASE i > k
      <4>1. i - 1 \in 1 .. Len(q) - 1 /\ ~(i - 1 < k) /\ (i - 1) + 1 = i
        BY <3>2
      <4>2. w[i - 1] = q[i]
        BY <4>1, <1>2
      <4> QED BY <4>1, <4>2, <1>2 DEF ToSet
    <3> QED BY <2>2, <3>1, <3>2
  <2>3. ToSet(w) = {w[i] : i \in 1 .. Len(q) - 1} /\ ToSet(q) = {q[i] : i \in 1 .. Len(q)}
    BY <1>1, <1>2 DEF ToSet
  <2> QED BY <2>1, <2>2, <2>3
<1> QED
  BY <1>3, <1>4, <1>5 DEF Picked, w

WorthMore(t) == \A s \in Picked : ToSet(s) \subseteq ToSet(t) => Total(s) <= Total(t)

(* More outputs are worth more, in whatever order.                         *)
LEMMA TotalOfMore ==
  ASSUME NEW t \in Picked
  PROVE  WorthMore(t)
<1> DEFINE S == {n \in Nat : \A x \in Picked : Len(x) = n => WorthMore(x)}
<1>1. 0 \in S
  <2> SUFFICES ASSUME NEW x \in Picked, Len(x) = 0, NEW s \in Picked, ToSet(s) \subseteq ToSet(x)
               PROVE  Total(s) <= Total(x)
    BY DEF WorthMore
  <2>1. x = <<>>
    BY Nothing DEF Picked
  <2>2. s = <<>>
    <3>1. DOMAIN s = {}
      <4>1. DOMAIN x = {}
        BY <2>1
      <4>2. ToSet(x) = {}
        BY <4>1 DEF ToSet
      <4>3. \A i \in DOMAIN s : s[i] \in ToSet(s)
        BY DEF ToSet
      <4> QED BY <4>2, <4>3
    <3>2. s \in Seq(Spendable) /\ DOMAIN s = 1 .. Len(s)
      BY DEF Picked
    <3>3. Len(s) \in Nat
      BY <3>2
    <3>4. Len(s) = 0
      BY <3>1, <3>2, <3>3
    <3> QED BY <3>2, <3>4, Nothing
  <2>3. Total(x) \in Int
    BY TotalIsNumber DEF Picked
  <2> QED BY <2>1, <2>2, <2>3
<1>2. ASSUME NEW n \in Nat, n \in S PROVE n + 1 \in S
  <2> SUFFICES ASSUME NEW x \in Picked, Len(x) = n + 1, NEW s \in Picked, ToSet(s) \subseteq ToSet(x)
               PROVE  Total(s) <= Total(x)
    BY DEF WorthMore
  <2>1. x \in Seq(Spendable) /\ n + 1 \in 1 .. Len(x) /\ DOMAIN x = 1 .. Len(x)
    BY DEF Picked
  <2> DEFINE u == x[n + 1]
             w == Without(x, n + 1)
  <2>2. w \in Picked /\ Len(w) = n /\ ToSet(w) = ToSet(x) \ {u}
    <3>1. /\ w \in Picked /\ Len(w) = Len(x) - 1
          /\ ToSet(w) = ToSet(x) \ {u}
      BY <2>1, PickedWithout
    <3> HIDE DEF w, u
    <3> QED BY <3>1
  <2>3. Total(x) = Total(w) + Value[u]
    BY <2>1, TotalWithout DEF WorthLess
  <2>4. u \in Spendable /\ Value[u] \in Nat /\ Total(w) \in Int
    <3>1. u \in Spendable
      BY <2>1
    <3> QED BY <2>2, <3>1, TotalIsNumber, WalletAssumption DEF Spendable, Picked
  <2>5. WorthMore(w)
    BY <1>2, <2>2
  <2> HIDE DEF w, u
  <2>6. CASE u \notin ToSet(s)
    <3>1. ToSet(s) \subseteq ToSet(w)
      BY <2>2, <2>6
    <3>2. Total(s) <= Total(w)
      BY <2>5, <3>1 DEF WorthMore
    <3>3. Total(s) \in Int
      BY <2>4, TotalIsNumber DEF Picked
    <3> QED BY <2>3, <2>4, <3>2, <3>3
  <2>7. CASE u \in ToSet(s)
    <3>1. PICK k \in 1 .. Len(s) : s[k] = u
      BY <2>7 DEF ToSet, Picked
    <3>2. Without(s, k) \in Picked /\ ToSet(Without(s, k)) = ToSet(s) \ {u}
      BY <3>1, PickedWithout
    <3>3. ToSet(Without(s, k)) \subseteq ToSet(w)
      BY <2>2, <3>2
    <3>4. Total(Without(s, k)) <= Total(w)
      BY <2>5, <3>2, <3>3 DEF WorthMore
    <3>5. Total(s) = Total(Without(s, k)) + Value[u]
      BY <3>1, TotalWithout DEF WorthLess, Picked
    <3>6. Total(Without(s, k)) \in Int
      BY <2>4, <3>2, TotalIsNumber DEF Picked
    <3> QED BY <2>3, <2>4, <3>4, <3>5, <3>6
  <2> QED BY <2>6, <2>7
<1>3. Len(t) \in S
  <2>1. Len(t) \in Nat
    BY DEF Picked
  <2> HIDE DEF S
  <2> QED BY <1>1, <1>2, <2>1, Counting
<1> QED
  BY <1>3

(* What is picked is worth a natural number, and a start of it no more.    *)
LEMMA Worth ==
  ASSUME NEW q \in Picked
  PROVE  /\ Total(q) \in Nat
         /\ \A n \in 0 .. Len(q) : /\ SubSeq(q, 1, n) \in Picked
                                   /\ Total(SubSeq(q, 1, n)) <= Total(q)
<1>1. q \in Seq(Spendable) /\ Len(q) \in Nat /\ DOMAIN q = 1 .. Len(q) /\ IsInjective(q)
  BY DEF Picked
<1>2. ASSUME NEW n \in 0 .. Len(q)
      PROVE  /\ SubSeq(q, 1, n) \in Picked /\ ToSet(SubSeq(q, 1, n)) \subseteq ToSet(q)
  <2> DEFINE w == SubSeq(q, 1, n)
  <2>1. \A i \in 1 .. n : q[i] \in Spendable /\ i \in DOMAIN q
    BY <1>1
  <2>2. /\ w \in Seq(Spendable) /\ Len(w) = (IF 1 <= n THEN n - 1 + 1 ELSE 0)
        /\ \A i \in 1 .. n - 1 + 1 : w[i] = q[1 + i - 1]
    BY <2>1, SubSeqProperties
  <2> HIDE DEF w
  <2>3. Len(w) = n /\ DOMAIN w = 1 .. n
    BY <2>2
  <2>4. ASSUME NEW i \in 1 .. n PROVE w[i] = q[i]
    <3>1. i \in 1 .. n - 1 + 1 /\ 1 + i - 1 = i
      OBVIOUS
    <3> QED BY <2>2, <3>1
  <2>5. IsInjective(w)
    BY <1>1, <2>1, <2>3, <2>4 DEF IsInjective
  <2>6. ToSet(w) \subseteq ToSet(q)
    BY <2>1, <2>3, <2>4 DEF ToSet
  <2> QED BY <2>2, <2>5, <2>6 DEF Picked, w
<1>3. \A n \in 0 .. Len(q) : Total(SubSeq(q, 1, n)) <= Total(q)
  BY <1>2, TotalOfMore DEF WorthMore
<1>4. Total(q) \in Nat
  <2>1. SubSeq(q, 1, 0) = <<>>
    BY SubSeqEmpty
  <2>2. 0 \in 0 .. Len(q) /\ Total(q) \in Int
    BY <1>1, TotalIsNumber
  <2>3. Total(<<>>) <= Total(q)
    BY <1>3, <2>1, <2>2
  <2> QED BY <2>2, <2>3, TotalOfNothing
<1> QED
  BY <1>2, <1>3, <1>4

TxKinds == {"transfer", "cancel", "speedup"}

(* All that can be spent, in some order.                                   *)
Offers == {q \in Picked : ToSet(q) = Spendable}

(* A transaction on the screen, and one in the stash.                      *)
Objects ==
  [kind : TxKinds, hasChange : BOOLEAN, utxo : Offers, from : Picked, amount : Nat,
   change : Nat, target : {"manual", "all"}, to : Addresses, price : Nat,
   order : Orders, originalFees : Nat]

Plains ==
  [kind : TxKinds, amount : Nat, target : {"manual", "all"}, to : Addresses, price : Nat,
   order : Orders, utxo : Offers, originalFees : Nat]

-----------------------------------------------------------------------------
(* The wallet is one of the offers, and there are finitely many outputs.   *)
LEMMA WalletIsOffer == Wallet \in Offers /\ IsFiniteSet(Spendable)
<1>1. Wallet \in Offers
  BY WalletAssumption DEF Offers, Picked, Spendable
<1>2. Wallet \in Seq(Spendable) /\ Len(Wallet) \in Nat /\ DOMAIN Wallet = 1 .. Len(Wallet)
  BY WalletAssumption DEF Spendable
<1>3. Wallet \in Surjection(1 .. Len(Wallet), Spendable)
  <2>1. \A u \in Spendable : \E i \in 1 .. Len(Wallet) : Wallet[i] = u
    BY <1>2 DEF Spendable, ToSet
  <2>2. Wallet \in [1 .. Len(Wallet) -> Spendable]
    BY <1>2
  <2> QED BY <2>1, <2>2 DEF Surjection
<1>4. IsFiniteSet(1 .. Len(Wallet))
  BY <1>2, FS_Interval
<1> QED
  BY <1>1, <1>3, <1>4, FS_Surjection

(* A shuffle holds every output once.                                      *)
LEMMA ShuffleIsOffer ==
  ASSUME NEW utxo \in Offers, NEW q \in Shuffles(utxo)
  PROVE  q \in Offers
<1> DEFINE D == 1 .. Cardinality(Spendable)
<1>1. ToSet(utxo) = Spendable /\ IsFiniteSet(Spendable) /\ Cardinality(Spendable) \in Nat
  BY WalletIsOffer, FS_CardinalityType DEF Offers
<1>2. q \in [D -> Spendable] /\ \A i, j \in D : i # j => q[i] # q[j]
  BY <1>1 DEF Shuffles, SetToSeqs
<1>3. q \in Injection(D, Spendable)
  BY <1>2 DEF Injection, IsInjective
<1>4. IsFiniteSet(D) /\ Cardinality(D) = Cardinality(Spendable)
  <2>1. PICK n \in Nat : n = Cardinality(Spendable)
    BY <1>1
  <2>2. IsFiniteSet(1 .. n) /\ Cardinality(1 .. n) = n
    BY <2>1, FS_Interval
  <2> QED BY <2>1, <2>2
<1> HIDE DEF D
<1>5. q \in Surjection(D, Spendable)
  BY <1>1, <1>3, <1>4, FS_Injection
<1>6. ToSet(q) = Spendable
  BY <1>2, <1>5 DEF Surjection, ToSet
<1>7. q \in Seq(Spendable)
  BY <1>1, <1>2 DEF D
<1>8. IsInjective(q)
  BY <1>2 DEF IsInjective
<1> QED
  BY <1>6, <1>7, <1>8 DEF Offers, Picked

(* In whatever order, all outputs are offered.                             *)
LEMMA QueueIsOffer ==
  ASSUME NEW utxo \in Offers, NEW order \in Orders, NEW q \in Queues(order, utxo)
  PROVE  q \in Offers
<1>1. CASE order = "oldest"
  BY <1>1 DEF Queues
<1>2. CASE order = "newest"
  <2>1. q = Reverse(utxo)
    BY <1>2 DEF Queues
  <2>2. utxo \in Seq(Spendable) /\ DOMAIN utxo = 1 .. Len(utxo) /\ Len(utxo) \in Nat
        /\ ToSet(utxo) = Spendable /\ IsInjective(utxo)
    BY DEF Offers, Picked
  <2> DEFINE n == Len(utxo)
  <2>3. \A i \in 1 .. n : n - i + 1 \in 1 .. n /\ n - (n - i + 1) + 1 = i
    BY <2>2
  <2>4. DOMAIN q = 1 .. n /\ q = [i \in 1 .. n |-> q[i]] /\ \A i \in 1 .. n : q[i] = utxo[n - i + 1]
    BY <2>1 DEF Reverse
  <2>5. \A i \in 1 .. n : utxo[n - i + 1] \in Spendable
    BY <2>2, <2>3
  <2>6. q \in Seq(Spendable)
    BY <2>2, <2>4, <2>5
  <2>7. IsInjective(q)
    <3> SUFFICES ASSUME NEW i \in 1 .. n, NEW j \in 1 .. n, q[i] = q[j] PROVE i = j
      BY <2>4 DEF IsInjective
    <3>1. utxo[n - i + 1] = utxo[n - j + 1]
      BY <2>4
    <3>2. n - i + 1 = n - j + 1
      BY <2>2, <2>3, <3>1 DEF IsInjective
    <3> QED BY <2>2, <3>2
  <2>8. ToSet(q) = Spendable
    <3>1. \A u \in Spendable : \E i \in 1 .. n : utxo[i] = u
      BY <2>2 DEF ToSet
    <3>2. \A u \in Spendable : \E i \in 1 .. n : q[i] = u
      BY <2>3, <2>4, <3>1
    <3>3. \A i \in 1 .. n : q[i] \in Spendable
      BY <2>4, <2>5
    <3>4. ToSet(q) = {q[i] : i \in 1 .. n}
      BY <2>4 DEF ToSet
    <3> QED BY <3>2, <3>3, <3>4
  <2> QED BY <2>6, <2>7, <2>8 DEF Offers, Picked
<1>3. CASE order \in {"largest", "smallest", "random"}
  <2>1. q \in Shuffles(utxo)
    BY <1>3 DEF Queues, Sorted
  <2> QED BY <2>1, ShuffleIsOffer
<1> QED
  BY <1>1, <1>2, <1>3 DEF Orders

(* Offers are worth the same, and none of what is picked is worth more.    *)
LEMMA OffersAreWorth ==
  ASSUME NEW p \in Offers, NEW q \in Offers
  PROVE  Total(p) = Total(q) /\ Total(p) \in Nat /\ \A s \in Picked : Total(s) <= Total(p)
<1>1. p \in Picked /\ q \in Picked /\ ToSet(p) = Spendable /\ ToSet(q) = Spendable
  BY DEF Offers
<1>2. \A s \in Picked : ToSet(s) \subseteq Spendable
  BY DEF Picked, ToSet
<1>3. WorthMore(p) /\ WorthMore(q)
  BY <1>1, TotalOfMore
<1>4. \A s \in Picked : Total(s) <= Total(p) /\ Total(s) <= Total(q)
  BY <1>1, <1>2, <1>3 DEF WorthMore
<1>5. Total(p) \in Nat /\ Total(q) \in Nat
  BY <1>1, Worth
<1>6. Total(p) <= Total(q) /\ Total(q) <= Total(p)
  BY <1>1, <1>4
<1> QED
  BY <1>4, <1>5, <1>6

-----------------------------------------------------------------------------
(* A fee is a natural number, and that of one output more is no smaller.   *)
LEMMA FeeGrows ==
  ASSUME NEW price \in Nat, NEW n \in Nat, NEW m \in Nat
  PROVE  FeeAt(price, n, m) \in Nat /\ FeeAt(price, n, m) <= FeeAt(price, n, m + 1)
<1> DEFINE w == Weight(n, m)
           v == Weight(n, m + 1)
<1>1. w \in Nat /\ v \in Nat /\ v = w + 260
  BY DEF Weight
<1> HIDE DEF w, v
<1>2. price * w \in Nat /\ price * v = price * w + price * 260
  BY <1>1
<1>3. (price * w) \div 4096 \in Nat /\ (price * w) \div 4096 <= (price * v) \div 4096
  <2>1. PICK a \in Nat, b \in Nat : a = price * w /\ b = price * v /\ a <= b
    BY <1>1, <1>2
  <2>2. a \div 4096 \in Nat /\ a \div 4096 <= b \div 4096
    BY <2>1
  <2> QED BY <2>1, <2>2
<1> QED
  BY <1>3 DEF FeeAt, w, v

(* The fee of an object is no less than its floor, nor than its price asks. *)
LEMMA EstimateGrows ==
  ASSUME NEW x \in Objects, NEW n \in Nat, NEW m \in Nat
  PROVE  /\ EstimateFeesFor(x, n, m) \in Nat
         /\ EstimateFeesFor(x, n, m) >= x.originalFees
         /\ EstimateFeesFor(x, n, m) >= FeeAt(x.price, n, m)
         /\ EstimateFeesFor(x, n, m) <= EstimateFeesFor(x, n, m + 1)
         /\ EstimateFeesFor(x, n, m + 1) \in Nat
<1>1. x.price \in Nat /\ x.originalFees \in Nat
  BY DEF Objects
<1>2. FeeAt(x.price, n, m) \in Nat /\ FeeAt(x.price, n, m) <= FeeAt(x.price, n, m + 1)
      /\ FeeAt(x.price, n, m + 1) \in Nat
  <2>1. m + 1 \in Nat
    OBVIOUS
  <2> QED BY <1>1, <2>1, FeeGrows
<1> QED
  BY <1>1, <1>2 DEF EstimateFeesFor, Larger

Covers(x, q, m, n) ==
  n > 0 /\ Total(SubSeq(q, 1, n)) - EstimateFeesFor(x, n, m) >= x.amount

(* The first n of the queue are the shortest start that covers, or all.    *)
Shortest(x, q, m, n) ==
  /\ n \in 0 .. Len(q)
  /\ Covers(x, q, m, n) \/ n = Len(q)
  /\ \A k \in 0 .. n - 1 : ~Covers(x, q, m, k)

(* What is selected is the shortest start of the queue.                    *)
LEMMA Selecting ==
  ASSUME NEW x, NEW q \in Picked, NEW m
  PROVE  \E n : Shortest(x, q, m, n) /\ Selected(x, q, m) = SubSeq(q, 1, n)
<1> DEFINE T == {n \in 0 .. Len(q) : Covers(x, q, m, n) \/ n = Len(q)}
           least == CHOOSE n \in 0 .. Len(q) :
                      /\ Covers(x, q, m, n) \/ n = Len(q)
                      /\ \A k \in 0 .. n - 1 : ~Covers(x, q, m, k)
<1>1. Len(q) \in Nat
  BY DEF Picked
<1>2. T \subseteq Nat /\ T # {}
  <2>1. Len(q) \in T
    BY <1>1
  <2> QED BY <2>1, <1>1
<1>3. PICK n \in T : \A k \in T : n <= k
  BY <1>2, Least
<1>4. n \in 0 .. Len(q) /\ \A k \in 0 .. n - 1 : ~Covers(x, q, m, k)
  BY <1>1, <1>3
<1>5. Shortest(x, q, m, least)
  BY <1>3, <1>4 DEF Shortest
<1>6. Selected(x, q, m) = SubSeq(q, 1, least)
  BY DEF Selected, Covers
<1> QED
  BY <1>5, <1>6

(* A start of what is picked.                                              *)
LEMMA Starting ==
  ASSUME NEW q \in Picked, NEW n \in 0 .. Len(q)
  PROVE  /\ SubSeq(q, 1, n) \in Picked /\ Len(SubSeq(q, 1, n)) = n
         /\ \A i \in 1 .. n : SubSeq(q, 1, n)[i] = q[i]
         /\ SubSeq(q, 1, Len(q)) = q
<1>1. q \in Seq(Spendable) /\ Len(q) \in Nat
  BY DEF Picked
<1>2. \A i \in 1 .. n : q[i] \in Spendable
  BY <1>1
<1>3. /\ Len(SubSeq(q, 1, n)) = IF 1 <= n THEN n - 1 + 1 ELSE 0
      /\ \A i \in 1 .. n - 1 + 1 : SubSeq(q, 1, n)[i] = q[1 + i - 1]
  BY <1>2, SubSeqProperties
<1>4. ASSUME NEW i \in 1 .. n PROVE SubSeq(q, 1, n)[i] = q[i]
  <2>1. i \in 1 .. n - 1 + 1 /\ 1 + i - 1 = i
    OBVIOUS
  <2> QED BY <1>3, <2>1
<1>5. Len(SubSeq(q, 1, n)) = n
  <2> DEFINE l == Len(SubSeq(q, 1, n))
  <2>1. l = IF 1 <= n THEN n - 1 + 1 ELSE 0
    BY <1>3
  <2> HIDE DEF l
  <2>2. l = n
    BY <1>1, <2>1
  <2> QED BY <2>2 DEF l
<1> QED
  BY <1>1, <1>4, <1>5, Worth, SubSeqFull

-----------------------------------------------------------------------------
Receivers(x) == IF x.to = NoAddress THEN 0 ELSE 1

(* Rebalanced twice over the same queue is rebalanced once.                *)
Balanced(x, q) == x = Rebalance(x, q)

Aside(x, y) ==
  /\ y.kind = x.kind /\ y.hasChange = x.hasChange /\ y.utxo = x.utxo /\ y.target = x.target
  /\ y.to = x.to /\ y.price = x.price /\ y.order = x.order /\ y.originalFees = x.originalFees
  /\ x.target = "manual" => y.amount = x.amount

(* Rebalancing changes what is spent, what stays, and what "all" comes to. *)
LEMMA Rebalancing ==
  ASSUME NEW x \in Objects, NEW q \in Offers
  PROVE  /\ Rebalance(x, q) \in Objects /\ Aside(x, Rebalance(x, q))
         /\ Balanced(Rebalance(x, q), q)
<1> DEFINE m == Receivers(x)
           from == Selected(x, q, m)
           change == ChangeOf(x, from, m)
           y == Rebalance(x, q)
           most == Larger(0, Total(x.utxo) - EstimateFeesFor(x, Len(x.utxo), m))
<1>1. x.utxo \in Picked /\ x.amount \in Nat /\ x.target \in {"manual", "all"}
      /\ m \in Nat /\ q \in Picked
  BY DEF Objects, Offers, Receivers
<1>2. from \in Picked
  <2>1. PICK n : Shortest(x, q, m, n) /\ Selected(x, q, m) = SubSeq(q, 1, n)
    BY <1>1, Selecting
  <2>2. n \in 0 .. Len(q)
    BY <2>1 DEF Shortest
  <2> QED BY <1>1, <2>1, <2>2, Starting
<1>3. ASSUME NEW f \in Picked PROVE ChangeOf(x, f, m) \in Nat /\ Len(f) \in Nat /\ Total(f) \in Nat
  <2>1. Len(f) \in Nat /\ Total(f) \in Nat
    BY Worth DEF Picked
  <2>2. EstimateFeesFor(x, Len(f), m) \in Nat /\ EstimateFeesFor(x, Len(f), m + 1) \in Nat
    BY <1>1, <2>1, EstimateGrows
  <2> QED BY <1>1, <2>1, <2>2 DEF ChangeOf, Larger
<1>4. most \in Nat
  <2>1. Len(x.utxo) \in Nat /\ Total(x.utxo) \in Nat
    BY <1>1, <1>3
  <2>2. EstimateFeesFor(x, Len(x.utxo), m) \in Nat
    BY <1>1, <2>1, EstimateGrows
  <2> QED BY <2>1, <2>2 DEF Larger
<1>5. <<>> \in Picked
  BY DEF Picked, IsInjective
<1>6. CASE x.target = "manual" /\ x.amount = 0
  <2>1. y = [x EXCEPT !.from = <<>>]
    BY <1>6 DEF Rebalance
  <2>2. y \in Objects /\ Aside(x, y) /\ y.amount = x.amount
    BY <2>1, <1>5 DEF Objects, Aside
  <2>3. Rebalance(y, q) = [y EXCEPT !.from = <<>>]
    BY <1>6, <2>2 DEF Rebalance, Aside
  <2>4. [y EXCEPT !.from = <<>>] = y
    BY <2>1 DEF Objects
  <2> QED BY <2>2, <2>3, <2>4 DEF Balanced
<1>7. CASE x.target = "manual" /\ x.amount # 0
  <2> HIDE DEF m, from, change
  <2>1. y = [x EXCEPT !.from = from, !.change = change]
    BY <1>7 DEF Rebalance, Receivers, m, from, change
  <2>2. from \in Picked /\ change \in Nat
    BY <1>2, <1>3 DEF change
  <2>3. y \in Objects /\ Aside(x, y) /\ y.amount = x.amount
    BY <2>1, <2>2 DEF Objects, Aside
  <2>4. Receivers(y) = m /\ Selected(y, q, m) = from /\ ChangeOf(y, from, m) = change
    <3>1. \A a, b : EstimateFeesFor(y, a, b) = EstimateFeesFor(x, a, b)
      BY <2>3 DEF EstimateFeesFor, Aside
    <3>2. Receivers(y) = m
      BY <2>3 DEF Receivers, Aside, m
    <3>3. Selected(y, q, m) = Selected(x, q, m)
      BY <2>3, <3>1 DEF Selected
    <3>4. ChangeOf(y, from, m) = ChangeOf(x, from, m)
      BY <2>3, <3>1 DEF ChangeOf, Aside
    <3> QED BY <3>2, <3>3, <3>4 DEF from, change
  <2>5. Rebalance(y, q) = [y EXCEPT !.from = from, !.change = change]
    BY <1>7, <2>3, <2>4 DEF Rebalance, Aside, Receivers
  <2>6. [y EXCEPT !.from = from, !.change = change] = y
    BY <2>1 DEF Objects
  <2> QED BY <2>3, <2>5, <2>6 DEF Balanced
<1>8. CASE x.target = "all"
  <2> HIDE DEF m, most
  <2>1. y = [x EXCEPT !.from = x.utxo, !.change = 0, !.amount = most]
    BY <1>8 DEF Rebalance, Receivers, m, most
  <2>2. y \in Objects /\ Aside(x, y)
    <3> HIDE DEF y
    <3>1. y \in Objects
      BY <2>1, <1>1, <1>4 DEF Objects
    <3>2. Aside(x, y)
      BY <2>1, <1>8 DEF Objects, Aside
    <3> QED BY <3>1, <3>2
  <2>3. Receivers(y) = m /\ y.utxo = x.utxo
    BY <2>2 DEF Receivers, Aside, m
  <2>4. EstimateFeesFor(y, Len(y.utxo), m) = EstimateFeesFor(x, Len(x.utxo), m)
    BY <2>2 DEF EstimateFeesFor, Aside
  <2>5. Rebalance(y, q) = [y EXCEPT !.from = x.utxo, !.change = 0, !.amount = most]
    BY <1>8, <2>2, <2>3, <2>4 DEF Rebalance, Aside, Receivers, most
  <2>6. [y EXCEPT !.from = x.utxo, !.change = 0, !.amount = most] = y
    BY <2>1 DEF Objects
  <2> QED BY <2>2, <2>5, <2>6 DEF Balanced
<1> QED
  BY <1>1, <1>6, <1>7, <1>8

-----------------------------------------------------------------------------
Like(x, y) ==
  /\ y.kind = x.kind /\ y.hasChange = x.hasChange /\ y.utxo = x.utxo
  /\ y.originalFees = x.originalFees

(* Each setter sets its field, and of the others only what is balanced.    *)
LEMMA SettingAmount ==
  ASSUME NEW x \in Objects, NEW q \in Offers, NEW amount \in Nat
  PROVE  LET y == SetAmount(x, q, amount)
         IN /\ y \in Objects /\ Balanced(y, q) /\ Like(x, y) /\ y.target = "manual"
            /\ y.amount = amount /\ y.to = x.to /\ y.price = x.price /\ y.order = x.order
<1> DEFINE z == [x EXCEPT !.amount = amount, !.target = "manual"]
<1>1. z \in Objects /\ Like(x, z) /\ z.target = "manual" /\ z.amount = amount
      /\ z.to = x.to /\ z.price = x.price /\ z.order = x.order
  BY DEF Objects, Like
<1> HIDE DEF z
<1>2. Rebalance(z, q) \in Objects /\ Aside(z, Rebalance(z, q)) /\ Balanced(Rebalance(z, q), q)
  BY <1>1, Rebalancing
<1>3. SetAmount(x, q, amount) = Rebalance(z, q)
  BY DEF SetAmount, z
<1> QED
  BY <1>1, <1>2, <1>3 DEF Aside, Like

(* The target; the amount changes only with it.                            *)
LEMMA SettingTarget ==
  ASSUME NEW x \in Objects, NEW q \in Offers, NEW target \in {"manual", "all"}
  PROVE  LET y == SetTarget(x, q, target)
         IN /\ y \in Objects /\ Balanced(y, q) /\ Like(x, y) /\ y.target = target
            /\ target = "manual" => y.amount = x.amount
            /\ y.to = x.to /\ y.price = x.price /\ y.order = x.order
<1> DEFINE z == [x EXCEPT !.target = target]
<1>1. z \in Objects /\ Like(x, z) /\ z.target = target /\ z.amount = x.amount
      /\ z.to = x.to /\ z.price = x.price /\ z.order = x.order
  BY DEF Objects, Like
<1> HIDE DEF z
<1>2. Rebalance(z, q) \in Objects /\ Aside(z, Rebalance(z, q)) /\ Balanced(Rebalance(z, q), q)
  BY <1>1, Rebalancing
<1>3. SetTarget(x, q, target) = Rebalance(z, q)
  BY DEF SetTarget, z
<1> QED
  BY <1>1, <1>2, <1>3 DEF Aside, Like

(* The receiver.                                                           *)
LEMMA SettingTo ==
  ASSUME NEW x \in Objects, NEW q \in Offers, NEW to \in Addresses
  PROVE  LET y == SetTo(x, q, to)
         IN /\ y \in Objects /\ Balanced(y, q) /\ Like(x, y) /\ y.target = x.target
            /\ x.target = "manual" => y.amount = x.amount
            /\ y.to = to /\ y.price = x.price /\ y.order = x.order
<1> DEFINE z == [x EXCEPT !.to = to]
<1>1. z \in Objects /\ Like(x, z) /\ z.target = x.target /\ z.amount = x.amount
      /\ z.to = to /\ z.price = x.price /\ z.order = x.order
  BY DEF Objects, Like
<1> HIDE DEF z
<1>2. Rebalance(z, q) \in Objects /\ Aside(z, Rebalance(z, q)) /\ Balanced(Rebalance(z, q), q)
  BY <1>1, Rebalancing
<1>3. SetTo(x, q, to) = Rebalance(z, q)
  BY DEF SetTo, z
<1> QED
  BY <1>1, <1>2, <1>3 DEF Aside, Like

(* The price.                                                              *)
LEMMA SettingFeePrice ==
  ASSUME NEW x \in Objects, NEW q \in Offers, NEW price \in Nat
  PROVE  LET y == SetFeePrice(x, q, price)
         IN /\ y \in Objects /\ Balanced(y, q) /\ Like(x, y) /\ y.target = x.target
            /\ x.target = "manual" => y.amount = x.amount
            /\ y.to = x.to /\ y.price = price /\ y.order = x.order
<1> DEFINE z == [x EXCEPT !.price = price]
<1>1. z \in Objects /\ Like(x, z) /\ z.target = x.target /\ z.amount = x.amount
      /\ z.to = x.to /\ z.price = price /\ z.order = x.order
  BY DEF Objects, Like
<1> HIDE DEF z
<1>2. Rebalance(z, q) \in Objects /\ Aside(z, Rebalance(z, q)) /\ Balanced(Rebalance(z, q), q)
  BY <1>1, Rebalancing
<1>3. SetFeePrice(x, q, price) = Rebalance(z, q)
  BY DEF SetFeePrice, z
<1> QED
  BY <1>1, <1>2, <1>3 DEF Aside, Like

(* The order.                                                              *)
LEMMA SettingOrder ==
  ASSUME NEW x \in Objects, NEW q \in Offers, NEW order \in Orders
  PROVE  LET y == SetOrder(x, q, order)
         IN /\ y \in Objects /\ Balanced(y, q) /\ Like(x, y) /\ y.target = x.target
            /\ x.target = "manual" => y.amount = x.amount
            /\ y.to = x.to /\ y.price = x.price /\ y.order = order
<1> DEFINE z == [x EXCEPT !.order = order]
<1>1. z \in Objects /\ Like(x, z) /\ z.target = x.target /\ z.amount = x.amount
      /\ z.to = x.to /\ z.price = x.price /\ z.order = order
  BY DEF Objects, Like
<1> HIDE DEF z
<1>2. Rebalance(z, q) \in Objects /\ Aside(z, Rebalance(z, q)) /\ Balanced(Rebalance(z, q), q)
  BY <1>1, Rebalancing
<1>3. SetOrder(x, q, order) = Rebalance(z, q)
  BY DEF SetOrder, z
<1> QED
  BY <1>1, <1>2, <1>3 DEF Aside, Like

(* A new object.                                                           *)
LEMMA NewIsObject ==
  ASSUME NEW kind \in TxKinds, NEW hasChange \in BOOLEAN, NEW utxo \in Offers
  PROVE  LET x == New(kind, hasChange, utxo)
         IN /\ x \in Objects /\ x.kind = kind /\ x.hasChange = hasChange /\ x.utxo = utxo
            /\ x.amount = 0 /\ x.target = "manual" /\ x.to = NoAddress
            /\ x.price = DefaultPrice /\ x.originalFees = 0
<1>1. <<>> \in Picked
  BY DEF Picked, IsInjective
<1> QED
  BY <1>1 DEF New, Objects, Addresses, Orders, DefaultPrice

-----------------------------------------------------------------------------
(* What an object was last balanced with: a speed-up has its price set     *)
(* afterwards, and only a transfer takes the outputs in another order.     *)
Unpriced(x) == IF x.kind = "speedup" THEN [x EXCEPT !.price = DefaultPrice] ELSE x

Settled(x) ==
  \E q \in Offers : Balanced(Unpriced(x), q) /\ (x.kind # "transfer" => q = x.utxo)

Sound(x) ==
  /\ x \in Objects /\ Settled(x)
  /\ IF x.kind = "transfer" THEN x.originalFees = 0 ELSE x.hasChange

(* The object x shows the stashed transaction p.                           *)
Mirrors(p, x) ==
  /\ x.kind = p.kind /\ x.utxo = p.utxo /\ x.to = p.to /\ x.price = p.price
  /\ x.target = p.target /\ (p.target = "manual" => x.amount = p.amount)
  /\ p.kind # "transfer" => x.originalFees = p.originalFees

(* What all kinds set of the plain form.                                   *)
LEMMA Filling ==
  ASSUME NEW x \in Objects, NEW p \in Plains, x.utxo = p.utxo, x.amount = p.amount
  PROVE  LET y == Filled(x, p)
         IN /\ y \in Objects /\ Balanced(y, p.utxo) /\ Like(x, y) /\ y.target = p.target
            /\ p.target = "manual" => y.amount = p.amount
            /\ y.to = p.to /\ y.price = x.price /\ y.order = x.order
<1> DEFINE z == SetTarget(x, p.utxo, p.target)
<1>1. p.utxo \in Offers /\ p.target \in {"manual", "all"} /\ p.to \in Addresses
  BY DEF Plains
<1>2. /\ z \in Objects /\ Like(x, z) /\ z.target = p.target
      /\ p.target = "manual" => z.amount = p.amount
      /\ z.to = x.to /\ z.price = x.price /\ z.order = x.order
  BY <1>1, SettingTarget
<1> HIDE DEF z
<1>3. LET y == SetTo(z, p.utxo, p.to)
      IN /\ y \in Objects /\ Balanced(y, p.utxo) /\ Like(z, y) /\ y.target = z.target
         /\ z.target = "manual" => y.amount = z.amount
         /\ y.to = p.to /\ y.price = z.price /\ y.order = z.order
  BY <1>1, <1>2, SettingTo
<1>4. Filled(x, p) = SetTo(z, p.utxo, p.to)
  BY DEF Filled, z
<1> QED
  BY <1>2, <1>3, <1>4 DEF Like

(* A transfer made anew from the stash shows it, and is settled.           *)
LEMMA FromTransfer ==
  ASSUME NEW p \in Plains, NEW h \in BOOLEAN, p.kind = "transfer",
         NEW x \in FromPlain(p, h)
  PROVE  Sound(x) /\ Mirrors(p, x) /\ x.hasChange = h
<1> DEFINE n == New("transfer", h, p.utxo)
           a == SetAmount(n, p.utxo, p.amount)
           f == Filled(a, p)
           g == [f EXCEPT !.price = p.price, !.order = p.order]
<1>1. p.utxo \in Offers /\ p.amount \in Nat /\ p.price \in Nat /\ p.order \in Orders
      /\ "transfer" \in TxKinds
  BY DEF Plains, TxKinds
<1>2. n \in Objects /\ n.kind = "transfer" /\ n.hasChange = h /\ n.utxo = p.utxo /\ n.originalFees = 0
  BY <1>1, NewIsObject
<1> HIDE DEF n
<1>3. a \in Objects /\ Like(n, a) /\ a.amount = p.amount
  BY <1>1, <1>2, SettingAmount
<1> HIDE DEF a
<1>4. /\ f \in Objects /\ Like(a, f) /\ f.target = p.target /\ f.to = p.to
      /\ p.target = "manual" => f.amount = p.amount
  <2>1. a.utxo = p.utxo
    BY <1>2, <1>3 DEF Like
  <2> QED BY <1>3, <2>1, Filling
<1> HIDE DEF f
<1>5. /\ g \in Objects /\ Like(f, g) /\ g.target = p.target /\ g.to = p.to /\ g.price = p.price
      /\ p.target = "manual" => g.amount = p.amount
  BY <1>1, <1>4 DEF Objects, Like
<1>6. PICK q \in Queues(p.order, p.utxo) : x = Rebalance(g, q)
  BY DEF FromPlain, TransferFromPlain, n, a, f
<1> HIDE DEF g
<1>7. q \in Offers
  BY <1>1, QueueIsOffer
<1>8. x \in Objects /\ Aside(g, x) /\ Balanced(x, q)
  BY <1>5, <1>6, <1>7, Rebalancing
<1>9. /\ x.kind = "transfer" /\ x.utxo = p.utxo /\ x.originalFees = 0 /\ x.hasChange = h
      /\ x.target = p.target /\ x.to = p.to /\ x.price = p.price
      /\ p.target = "manual" => x.amount = p.amount
  BY <1>2, <1>3, <1>4, <1>5, <1>8 DEF Like, Aside
<1>10. Unpriced(x) = x
  BY <1>9 DEF Unpriced
<1>11. Settled(x)
  BY <1>7, <1>8, <1>9, <1>10 DEF Settled
<1> QED
  BY <1>8, <1>9, <1>11 DEF Sound, Mirrors

(* So does a cancellation, over the outputs as they are offered.           *)
LEMMA FromCancel ==
  ASSUME NEW p \in Plains, NEW h \in BOOLEAN, p.kind = "cancel",
         NEW x \in FromPlain(p, h)
  PROVE  Sound(x) /\ Mirrors(p, x)
<1> DEFINE n == New("cancel", TRUE, p.utxo)
           a == SetAmount(n, p.utxo, p.amount)
           b == SetFeePrice(a, p.utxo, p.price)
           c == [b EXCEPT !.originalFees = p.originalFees]
<1>1. p.utxo \in Offers /\ p.amount \in Nat /\ p.price \in Nat /\ p.originalFees \in Nat
      /\ "cancel" \in TxKinds /\ TRUE \in BOOLEAN
  BY DEF Plains, TxKinds
<1>2. n \in Objects /\ n.kind = "cancel" /\ n.hasChange /\ n.utxo = p.utxo
  <2>1. n.hasChange
    BY DEF New
  <2>2. \A yes \in BOOLEAN : New("cancel", yes, p.utxo) \in Objects
    BY <1>1, NewIsObject
  <2>3. n \in Objects
    BY <2>2
  <2> QED BY <2>1, <2>3 DEF New
<1> HIDE DEF n
<1>3. a \in Objects /\ Like(n, a) /\ a.amount = p.amount /\ a.target = "manual"
  BY <1>1, <1>2, SettingAmount
<1> HIDE DEF a
<1>4. b \in Objects /\ Like(a, b) /\ b.amount = p.amount /\ b.price = p.price
  BY <1>1, <1>3, SettingFeePrice
<1> HIDE DEF b
<1>5. /\ c \in Objects /\ c.kind = b.kind /\ c.hasChange = b.hasChange /\ c.utxo = b.utxo
      /\ c.amount = p.amount /\ c.price = p.price /\ c.originalFees = p.originalFees
  BY <1>1, <1>4 DEF Objects
<1>6. x = Filled(c, p)
  BY DEF FromPlain, CancelFromPlain, Amounted, n, a, b
<1> HIDE DEF c
<1>7. c.utxo = p.utxo /\ c.kind = "cancel" /\ c.hasChange
  BY <1>2, <1>3, <1>4, <1>5 DEF Like
<1>8. /\ x \in Objects /\ Balanced(x, p.utxo) /\ Like(c, x) /\ x.target = p.target
      /\ p.target = "manual" => x.amount = p.amount
      /\ x.to = p.to /\ x.price = c.price
  BY <1>5, <1>6, <1>7, Filling
<1>9. /\ x.kind = "cancel" /\ x.utxo = p.utxo /\ x.hasChange /\ x.originalFees = p.originalFees
  BY <1>5, <1>7, <1>8 DEF Like
<1>10. Unpriced(x) = x
  BY <1>9 DEF Unpriced
<1>11. Settled(x)
  BY <1>1, <1>8, <1>9, <1>10 DEF Settled
<1> QED
  BY <1>5, <1>8, <1>9, <1>11 DEF Sound, Mirrors

(* And a speed-up, which is settled for the default price.                 *)
LEMMA FromSpeedUp ==
  ASSUME NEW p \in Plains, NEW h \in BOOLEAN, p.kind = "speedup",
         NEW x \in FromPlain(p, h)
  PROVE  Sound(x) /\ Mirrors(p, x)
<1> DEFINE n == New("speedup", TRUE, p.utxo)
           a == SetAmount(n, p.utxo, p.amount)
           c == [a EXCEPT !.originalFees = p.originalFees]
           f == Filled(c, p)
<1>1. p.utxo \in Offers /\ p.amount \in Nat /\ p.price \in Nat /\ p.originalFees \in Nat
      /\ "speedup" \in TxKinds /\ TRUE \in BOOLEAN
  BY DEF Plains, TxKinds
<1>2. /\ n \in Objects /\ n.kind = "speedup" /\ n.hasChange /\ n.utxo = p.utxo
      /\ n.price = DefaultPrice
  <2>1. n.hasChange
    BY DEF New
  <2>2. \A yes \in BOOLEAN : New("speedup", yes, p.utxo) \in Objects
    BY <1>1, NewIsObject
  <2>3. n \in Objects
    BY <2>2
  <2> QED BY <2>1, <2>3 DEF New
<1> HIDE DEF n
<1>3. a \in Objects /\ Like(n, a) /\ a.amount = p.amount /\ a.price = DefaultPrice
  BY <1>1, <1>2, SettingAmount
<1> HIDE DEF a
<1>4. /\ c \in Objects /\ c.kind = a.kind /\ c.hasChange = a.hasChange /\ c.utxo = a.utxo
      /\ c.amount = p.amount /\ c.price = DefaultPrice /\ c.originalFees = p.originalFees
  BY <1>1, <1>3 DEF Objects
<1> HIDE DEF c
<1>5. c.utxo = p.utxo /\ c.kind = "speedup" /\ c.hasChange
  BY <1>2, <1>3, <1>4 DEF Like
<1>6. /\ f \in Objects /\ Balanced(f, p.utxo) /\ Like(c, f) /\ f.target = p.target
      /\ p.target = "manual" => f.amount = p.amount
      /\ f.to = p.to /\ f.price = c.price
  BY <1>4, <1>5, Filling
<1>7. x = [f EXCEPT !.price = p.price]
  BY DEF FromPlain, SpeedUpFromPlain, Amounted, n, a, c
<1> HIDE DEF f
<1>8. /\ x \in Objects /\ x.kind = "speedup" /\ x.hasChange /\ x.utxo = p.utxo
      /\ x.originalFees = p.originalFees
  BY <1>1, <1>4, <1>5, <1>6, <1>7 DEF Objects, Like
<1>9. Mirrors(p, x)
  BY <1>1, <1>6, <1>7, <1>8 DEF Mirrors, Objects
<1>10. Unpriced(x) = f
  BY <1>1, <1>4, <1>6, <1>7, <1>8 DEF Unpriced, Objects
<1>11. Settled(x)
  BY <1>1, <1>6, <1>8, <1>10 DEF Settled
<1> QED
  BY <1>8, <1>9, <1>11 DEF Sound

(* Whatever the stash keeps, what is made of it shows it and is settled.   *)
LEMMA FromStash ==
  ASSUME NEW p \in Plains, NEW h \in BOOLEAN, NEW x \in FromPlain(p, h)
  PROVE  Sound(x) /\ Mirrors(p, x) /\ (p.kind = "transfer" => x.hasChange = h)
<1>1. p.kind \in TxKinds
  BY DEF Plains
<1> QED
  BY <1>1, FromTransfer, FromCancel, FromSpeedUp DEF TxKinds

-----------------------------------------------------------------------------
(* The plain form of an object, which the object shows.                    *)
LEMMA DumpIsPlain ==
  ASSUME NEW x \in Objects
  PROVE  /\ Dump(x) \in Plains /\ Mirrors(Dump(x), x)
         /\ Dump(x).kind = x.kind /\ Dump(x).order = x.order
         /\ Dump(x).amount = x.amount /\ Fees(x) \in Nat
         /\ x.kind = "transfer" => Dump(x).originalFees = Fees(x)
<1>1. x.from \in Picked /\ x.amount \in Nat /\ x.change \in Nat /\ x.originalFees \in Nat
  BY DEF Objects
<1>2. Total(x.from) \in Nat
  BY <1>1, Worth
<1>3. Fees(x) \in Nat
  BY <1>1, <1>2 DEF Fees, Larger
<1>4. Dump(x) \in Plains
  BY <1>3 DEF Objects, Plains, Dump
<1> QED
  BY <1>3, <1>4 DEF Dump, Mirrors

(* Unpriced, an object differs in nothing but the price.                   *)
LEMMA UnpricedIsObject ==
  ASSUME NEW x \in Objects
  PROVE  LET u == Unpriced(x)
         IN /\ u \in Objects /\ Like(x, u) /\ u.target = x.target /\ u.amount = x.amount
            /\ u.to = x.to /\ u.from = x.from /\ u.change = x.change
            /\ x.kind # "speedup" => u = x
<1>1. CASE x.kind = "speedup"
  BY <1>1 DEF Unpriced, Objects, Like, DefaultPrice
<1>2. CASE x.kind # "speedup"
  BY <1>2 DEF Unpriced, Like
<1> QED
  BY <1>1, <1>2

(* How a settled object came to its inputs and its change.                 *)
LEMMA ChosenByHand ==
  ASSUME NEW x \in Objects, Settled(x), x.target = "manual", x.amount # 0
  PROVE  \E q \in Offers : \E n \in 0 .. Len(q) :
            /\ Shortest(Unpriced(x), q, Receivers(x), n) /\ x.from = SubSeq(q, 1, n)
            /\ x.change = ChangeOf(Unpriced(x), x.from, Receivers(x))
            /\ x.kind # "transfer" => q = x.utxo
<1> DEFINE u == Unpriced(x)
           m == Receivers(x)
           from(q) == Selected(u, q, m)
           change(q) == ChangeOf(u, from(q), m)
<1>1. PICK q \in Offers : Balanced(u, q) /\ (x.kind # "transfer" => q = x.utxo)
  BY DEF Settled
<1>2. u \in Objects /\ u.target = "manual" /\ u.amount # 0 /\ u.to = x.to
      /\ u.from = x.from /\ u.change = x.change
  BY UnpricedIsObject
<1> HIDE DEF u
<1>3. u = [u EXCEPT !.from = from(q), !.change = change(q)]
  BY <1>1, <1>2 DEF Balanced, Rebalance, Receivers
<1> HIDE DEF m, from, change
<1>4. x.from = from(q) /\ x.change = change(q)
  BY <1>2, <1>3 DEF Objects
<1>5. q \in Picked
  BY DEF Offers
<1>6. PICK n : Shortest(u, q, m, n) /\ from(q) = SubSeq(q, 1, n)
  BY <1>5, Selecting DEF from
<1>7. n \in 0 .. Len(q)
  BY <1>6 DEF Shortest
<1>8. x.change = ChangeOf(u, x.from, m)
  BY <1>4 DEF change
<1> QED
  BY <1>1, <1>4, <1>6, <1>7, <1>8 DEF u, m

(* When all is sent, all outputs are spent and nothing stays.              *)
LEMMA ChosenWhole ==
  ASSUME NEW x \in Objects, Settled(x), x.target = "all"
  PROVE  /\ x.from = x.utxo /\ x.change = 0
         /\ x.amount = Larger(0, Total(x.utxo)
                              - EstimateFeesFor(Unpriced(x), Len(x.utxo), Receivers(x)))
<1> DEFINE u == Unpriced(x)
           most == Larger(0, Total(u.utxo) - EstimateFeesFor(u, Len(u.utxo), Receivers(x)))
<1>1. PICK q \in Offers : Balanced(u, q)
  BY DEF Settled
<1>2. u \in Objects /\ u.target = "all" /\ u.to = x.to /\ u.utxo = x.utxo
      /\ u.from = x.from /\ u.change = x.change /\ u.amount = x.amount
  BY UnpricedIsObject DEF Like
<1> HIDE DEF u
<1>3. u = [u EXCEPT !.from = u.utxo, !.change = 0, !.amount = most]
  BY <1>1, <1>2 DEF Balanced, Rebalance, Receivers
<1> HIDE DEF most
<1>4. u.from = u.utxo /\ u.change = 0 /\ u.amount = most
  BY <1>2, <1>3 DEF Objects
<1> QED
  BY <1>2, <1>4 DEF most, u

-----------------------------------------------------------------------------
(* Made anew from the same stash, a valid object is valid again, although  *)
(* its inputs may come in another order.                                   *)
LEMMA ValidAgain ==
  ASSUME NEW p, NEW x, NEW y, Sound(x), Sound(y), Mirrors(p, x), Mirrors(p, y),
         p.kind = "transfer" => y.hasChange = x.hasChange, Valid(x)
  PROVE  Valid(y)
<1>1. x \in Objects /\ y \in Objects /\ Settled(x) /\ Settled(y)
  BY DEF Sound
<1>2. /\ y.kind = x.kind /\ y.utxo = x.utxo /\ y.to = x.to /\ y.price = x.price
      /\ y.target = x.target /\ y.originalFees = x.originalFees
      /\ x.target = "manual" => y.amount = x.amount
  BY DEF Mirrors, Sound
<1>3. y.hasChange /\ x.hasChange
  BY DEF Mirrors, Sound, Valid
<1>4. /\ x.from \in Picked /\ y.from \in Picked /\ x.amount \in Nat /\ y.amount \in Nat
      /\ x.target \in {"manual", "all"} /\ x.utxo \in Offers /\ Receivers(y) \in Nat
  BY <1>1 DEF Objects, Receivers
<1>5. x.amount # 0 /\ x.to # NoAddress /\ Total(x.from) >= x.amount /\ ValidTarget(x)
      /\ x.from # <<>>
  BY DEF Valid
<1>6. CASE x.target = "manual"
  <2>1. PICK q \in Offers : \E n \in 0 .. Len(q) :
           Shortest(Unpriced(y), q, Receivers(y), n) /\ y.from = SubSeq(q, 1, n)
    BY <1>1, <1>2, <1>5, <1>6, ChosenByHand
  <2>2. PICK n \in 0 .. Len(q) :
           Shortest(Unpriced(y), q, Receivers(y), n) /\ y.from = SubSeq(q, 1, n)
    BY <2>1
  <2>3. q \in Picked /\ Len(q) \in Nat /\ n \in Nat
    BY DEF Offers, Picked
  <2>4. Total(y.from) >= x.amount
    <3>1. CASE n = Len(q)
      <4>1. y.from = q
        BY <2>2, <2>3, <3>1, Starting
      <4>2. Total(x.from) <= Total(q) /\ Total(q) \in Nat /\ Total(x.from) \in Nat
        BY <1>4, OffersAreWorth, Worth
      <4> QED BY <1>4, <1>5, <4>1, <4>2
    <3>2. CASE Covers(Unpriced(y), q, Receivers(y), n)
      <4>1. Unpriced(y) \in Objects /\ Unpriced(y).amount = x.amount
        BY <1>1, <1>2, <1>6, UnpricedIsObject
      <4>2. EstimateFeesFor(Unpriced(y), n, Receivers(y)) \in Nat
        BY <1>4, <2>3, <4>1, EstimateGrows
      <4>3. Total(y.from) - EstimateFeesFor(Unpriced(y), n, Receivers(y)) >= x.amount
        BY <2>2, <3>2, <4>1 DEF Covers
      <4>4. Total(y.from) \in Nat
        BY <1>4, Worth
      <4> QED BY <1>4, <4>2, <4>3, <4>4
    <3> QED BY <2>2, <3>1, <3>2 DEF Shortest
  <2>5. y.from # <<>>
    BY <1>4, <1>5, <2>4, TotalOfNothing
  <2> QED BY <1>2, <1>3, <1>5, <1>6, <2>4, <2>5 DEF Valid, ValidTarget
<1>7. CASE x.target = "all"
  <2>1. /\ x.from = x.utxo /\ x.change = 0
        /\ x.amount = Larger(0, Total(x.utxo)
                              - EstimateFeesFor(Unpriced(x), Len(x.utxo), Receivers(x)))
    BY <1>1, <1>7, ChosenWhole
  <2>2. /\ y.from = y.utxo /\ y.change = 0
        /\ y.amount = Larger(0, Total(y.utxo)
                              - EstimateFeesFor(Unpriced(y), Len(y.utxo), Receivers(y)))
    BY <1>1, <1>2, <1>7, ChosenWhole
  <2>3. /\ Unpriced(x).price = Unpriced(y).price
        /\ Unpriced(x).originalFees = Unpriced(y).originalFees
        /\ Receivers(x) = Receivers(y)
    BY <1>1, <1>2 DEF Unpriced, Receivers, Objects, DefaultPrice
  <2>4. y.from = x.from /\ y.change = x.change /\ y.amount = x.amount
    BY <1>2, <2>1, <2>2, <2>3 DEF EstimateFeesFor
  <2>5. Outputs(y) = Outputs(x)
    BY <1>2, <1>3, <2>4 DEF Outputs
  <2>6. ValidTarget(y)
    BY <1>2, <1>5, <2>4, <2>5 DEF ValidTarget, GetFees
  <2> QED BY <1>2, <1>3, <1>5, <2>4, <2>6 DEF Valid
<1> QED
  BY <1>4, <1>6, <1>7

-----------------------------------------------------------------------------
(* The outputs of a valid object are the amount and the change, at most    *)
(* two of them.                                                            *)
LEMMA OutputsAddUp ==
  ASSUME NEW x \in Objects, Valid(x)
  PROVE  /\ SumOf(Outputs(x)) = x.amount + x.change
         /\ Len(Outputs(x)) \in {1, 2}
         /\ x.change = 0 => Len(Outputs(x)) = 1
<1>1. x.amount \in Int /\ x.change \in Nat /\ x.hasChange /\ x.to # NoAddress
  BY DEF Objects, Valid
<1>2. ASSUME NEW a \in Int PROVE SumOf(<<a>>) = a /\ <<a>> \in Seq(Int) /\ Len(<<a>>) = 1
  <2>1. <<>> \in Seq(Int) /\ Append(<<>>, a) = <<a>>
    OBVIOUS
  <2>2. SumOf(Append(<<>>, a)) = SumOf(<<>>) + a
    BY <2>1, SumOfMore
  <2> QED BY <2>1, <2>2, SumOfNothing
<1>3. CASE x.kind = "cancel"
  <2>1. Outputs(x) = <<x.change + x.amount>>
    BY <1>3 DEF Outputs
  <2> QED BY <1>1, <1>2, <2>1
<1>4. CASE x.kind # "cancel" /\ x.change > 0
  <2>1. Outputs(x) = <<x.amount>> \o <<x.change>>
    BY <1>1, <1>4 DEF Outputs
  <2> DEFINE a == x.amount
             c == x.change
             s == <<a>> \o <<c>>
             t == Append(<<a>>, c)
  <2>5. a \in Int /\ c \in Int
    BY <1>1
  <2> HIDE DEF a, c
  <2>6. s \in Seq(Int) /\ Len(s) = 2 /\ s[1] = a /\ s[2] = c
    BY <2>5
  <2>7. t \in Seq(Int) /\ Len(t) = 2 /\ t[1] = a /\ t[2] = c
    BY <2>5
  <2>2. s = t
    <3>1. \A i \in 1 .. 2 : s[i] = t[i]
      BY <2>6, <2>7
    <3> HIDE DEF s, t
    <3> QED BY <2>6, <2>7, <3>1, SeqEqual
  <2>3. SumOf(t) = a + c
    <3>1. <<a>> \in Seq(Int) /\ SumOf(<<a>>) = a
      BY <1>2, <2>5
    <3>2. SumOf(Append(<<a>>, c)) = SumOf(<<a>>) + c
      BY <2>5, <3>1, SumOfMore
    <3> QED BY <3>1, <3>2
  <2>4. Outputs(x) = s
    BY <2>1 DEF a, c
  <2> HIDE DEF s, t
  <2>8. SumOf(Outputs(x)) = a + c /\ Len(Outputs(x)) = 2 /\ c # 0
    BY <1>4, <2>2, <2>3, <2>4, <2>6 DEF c
  <2> QED BY <2>8 DEF a, c
<1>5. CASE x.kind # "cancel" /\ x.change = 0
  <2>1. Outputs(x) = <<x.amount>> \o <<>>
    BY <1>1, <1>5 DEF Outputs
  <2>2. <<x.amount>> \o <<>> = <<x.amount>>
    BY <1>1
  <2> QED BY <1>1, <1>2, <1>5, <2>1, <2>2
<1> QED
  BY <1>1, <1>3, <1>4, <1>5

(* The change is what leaves the fee, or nothing stays.                    *)
LEMMA ChangeLeavesFees ==
  ASSUME NEW u \in Objects, NEW f \in Picked, NEW m \in Nat, u.hasChange,
         f # <<>>, Total(f) >= u.amount
  PROVE  LET kept == Total(f) - u.amount - ChangeOf(u, f, m)
         IN /\ ChangeOf(u, f, m) \in Nat /\ kept \in Nat
            /\ ChangeOf(u, f, m) = 0 => kept = Total(f) - u.amount
            /\ \/ kept = EstimateFeesFor(u, Len(f), m + 1) /\ ChangeOf(u, f, m) > 0
               \/ kept > EstimateFeesFor(u, Len(f), m) /\ ChangeOf(u, f, m) = 0
               \/ Total(f) <= u.amount + EstimateFeesFor(u, Len(f), m)
                  /\ ChangeOf(u, f, m) = 0
<1> DEFINE fees == EstimateFeesFor(u, Len(f), m)
           more == EstimateFeesFor(u, Len(f), m + 1)
           change == ChangeOf(u, f, m)
<1>1. Len(f) \in Nat /\ Total(f) \in Nat /\ u.amount \in Nat
  BY Worth DEF Picked, Objects
<1>2. fees \in Nat /\ more \in Nat
  BY <1>1, EstimateGrows
<1>3. change = IF u.amount + fees < Total(f)
               THEN Larger(0, Total(f) - u.amount - more) ELSE 0
  BY DEF ChangeOf
<1> HIDE DEF fees, more, change
<1>4. PICK w \in Nat : w = Total(f)
  BY <1>1
<1>5. PICK a \in Nat : a = u.amount
  BY <1>1
<1>6. /\ change \in Nat /\ w - a - change \in Nat
      /\ change = 0 => w - a - change = w - a
      /\ \/ w - a - change = more /\ change > 0
         \/ w - a - change > fees /\ change = 0
         \/ w <= a + fees /\ change = 0
  <2>1. change = IF a + fees < w THEN IF 0 > w - a - more THEN 0 ELSE w - a - more ELSE 0
    BY <1>3, <1>4, <1>5 DEF Larger
  <2>2. w >= a
    BY <1>4, <1>5
  <2> QED BY <1>2, <2>1, <2>2
<1> QED
  BY <1>4, <1>5, <1>6 DEF fees, more, change

(* Offers are equally long.                                                *)
LEMMA OffersAreLong ==
  ASSUME NEW p \in Offers, NEW q \in Offers
  PROVE  Len(p) = Len(q) /\ Len(q) \in Nat
<1>1. ASSUME NEW t \in Offers PROVE Len(t) = Cardinality(Spendable) /\ Len(t) \in Nat
  <2>1. t \in Seq(Spendable) /\ Len(t) \in Nat /\ DOMAIN t = 1 .. Len(t)
        /\ IsInjective(t) /\ ToSet(t) = Spendable
    BY DEF Offers, Picked
  <2>2. t \in Surjection(1 .. Len(t), Spendable)
    <3>1. \A u \in Spendable : \E i \in 1 .. Len(t) : t[i] = u
      BY <2>1 DEF ToSet
    <3>2. t \in [1 .. Len(t) -> Spendable]
      BY <2>1
    <3> QED BY <3>1, <3>2 DEF Surjection
  <2>3. t \in Injection(1 .. Len(t), Spendable)
    BY <2>1 DEF Injection, IsInjective
  <2>4. PICK n \in Nat : n = Len(t)
    BY <2>1
  <2>5. IsFiniteSet(1 .. n) /\ Cardinality(1 .. n) = n
    <3>1. 1 \in Int /\ n \in Int /\ (1 > n => n = 0) /\ n - 1 + 1 = n
      BY <2>4
    <3> QED BY <2>4, <3>1, FS_Interval
  <2>6. Cardinality(Spendable) <= n /\ (Cardinality(Spendable) = n <=> t \in Injection(1 .. n, Spendable))
    BY <2>2, <2>4, <2>5, FS_Surjection
  <2> QED BY <2>1, <2>3, <2>4, <2>6
<1> QED
  BY <1>1

-----------------------------------------------------------------------------
(* The amount of a modification and the fee it must pay at least are there *)
(* to be spent.                                                            *)
Affordable(x) ==
  (x.kind # "transfer" /\ x.target = "manual") =>
     x.amount + x.originalFees <= Total(x.utxo)

(* What a valid object keeps for the fee, and that it is enough.           *)
LEMMA KeepsFees ==
  ASSUME NEW x, Sound(x), Valid(x), Affordable(x)
  PROVE  LET kept == Total(x.from) - x.amount - x.change
             u == Unpriced(x)
         IN /\ kept \in Nat /\ kept >= x.originalFees
            /\ \/ kept >= FeeAt(u.price, Len(x.from), Len(Outputs(x)))
               \/ Len(x.from) = Len(x.utxo) /\ x.change = 0
<1> DEFINE kept == Total(x.from) - x.amount - x.change
           u == Unpriced(x)
           n == Len(x.from)
           m == Receivers(x)
<1>1. x \in Objects /\ Settled(x)
  BY DEF Sound
<1>2. /\ x.from \in Picked /\ x.utxo \in Offers /\ x.amount \in Nat /\ x.change \in Nat
      /\ x.originalFees \in Nat /\ x.target \in {"manual", "all"}
      /\ Total(x.from) \in Nat /\ n \in Nat /\ Total(x.utxo) \in Nat
  BY <1>1, Worth DEF Objects, Offers, Picked
<1>3. /\ u \in Objects /\ u.originalFees = x.originalFees /\ u.hasChange = x.hasChange
      /\ u.amount = x.amount /\ u.price \in Nat
  BY <1>1, UnpricedIsObject DEF Like, Objects
<1>4. /\ x.hasChange /\ x.amount # 0 /\ x.from # <<>> /\ Total(x.from) >= x.amount
      /\ m = 1
  BY DEF Valid, Receivers
<1>5. /\ EstimateFeesFor(u, n, m) \in Nat /\ EstimateFeesFor(u, n, m + 1) \in Nat
      /\ EstimateFeesFor(u, n, m) >= x.originalFees
      /\ EstimateFeesFor(u, n, m) <= EstimateFeesFor(u, n, m + 1)
      /\ EstimateFeesFor(u, n, 1) \in Nat /\ EstimateFeesFor(u, n, 2) \in Nat
      /\ EstimateFeesFor(u, n, 1) >= FeeAt(u.price, n, 1)
      /\ EstimateFeesFor(u, n, 2) >= FeeAt(u.price, n, 2)
      /\ FeeAt(u.price, n, 1) \in Nat /\ FeeAt(u.price, n, 2) \in Nat
      /\ FeeAt(u.price, n, 1) <= FeeAt(u.price, n, 2)
  <2>1. m \in Nat /\ m + 1 = 2 /\ 1 \in Nat /\ 2 \in Nat /\ 1 + 1 = 2
    BY <1>4
  <2>2. \A k \in Nat : /\ EstimateFeesFor(u, n, k) \in Nat
                       /\ EstimateFeesFor(u, n, k) >= u.originalFees
                       /\ EstimateFeesFor(u, n, k) >= FeeAt(u.price, n, k)
                       /\ EstimateFeesFor(u, n, k) <= EstimateFeesFor(u, n, k + 1)
    BY <1>2, <1>3, EstimateGrows
  <2>3. \A k \in Nat : FeeAt(u.price, n, k) \in Nat /\ FeeAt(u.price, n, k) <= FeeAt(u.price, n, k + 1)
    BY <1>2, <1>3, FeeGrows
  <2>4. EstimateFeesFor(u, n, 2) \in Nat /\ EstimateFeesFor(u, n, 2) >= FeeAt(u.price, n, 2)
    BY <2>1, <2>2
  <2>5. FeeAt(u.price, n, 1) \in Nat /\ FeeAt(u.price, n, 2) \in Nat
        /\ FeeAt(u.price, n, 1) <= FeeAt(u.price, n, 2)
    BY <2>1, <2>3
  <2>6. /\ EstimateFeesFor(u, n, 1) \in Nat /\ EstimateFeesFor(u, n, 1) >= u.originalFees
        /\ EstimateFeesFor(u, n, 1) >= FeeAt(u.price, n, 1)
        /\ EstimateFeesFor(u, n, 1) <= EstimateFeesFor(u, n, 2)
    BY <2>1, <2>2
  <2> QED BY <1>3, <1>4, <2>1, <2>4, <2>5, <2>6
<1>6. Len(Outputs(x)) \in {1, 2} /\ (x.change = 0 => Len(Outputs(x)) = 1)
  BY <1>1, OutputsAddUp
<1> HIDE DEF u, n, m
<1>7. CASE x.target = "manual"
  <2>1. PICK q \in Offers : \E k \in 0 .. Len(q) :
           /\ Shortest(u, q, m, k) /\ x.from = SubSeq(q, 1, k)
           /\ x.change = ChangeOf(u, x.from, m)
           /\ x.kind # "transfer" => q = x.utxo
    BY <1>1, <1>4, <1>7, ChosenByHand DEF u, m
  <2>2. PICK k \in 0 .. Len(q) :
           /\ Shortest(u, q, m, k) /\ x.from = SubSeq(q, 1, k)
           /\ x.change = ChangeOf(u, x.from, m)
    BY <2>1
  <2>3. q \in Picked /\ Len(q) \in Nat /\ k = n /\ (n = Len(q) => x.from = q)
    BY <2>2, Starting DEF Offers, Picked, n
  <2>4. Covers(u, q, m, n) \/ n = Len(q)
    BY <2>2, <2>3 DEF Shortest
  <2>5. Total(x.from) - EstimateFeesFor(u, n, m) >= x.amount \/ n = Len(q)
    BY <1>3, <2>2, <2>3, <2>4 DEF Covers
  <2>6. /\ kept \in Nat /\ (x.change = 0 => kept = Total(x.from) - x.amount)
        /\ \/ kept = EstimateFeesFor(u, n, m + 1) /\ x.change > 0
           \/ kept > EstimateFeesFor(u, n, m) /\ x.change = 0
           \/ Total(x.from) <= x.amount + EstimateFeesFor(u, n, m) /\ x.change = 0
    <3>1. m \in Nat
      BY <1>4
    <3>2. LET left == Total(x.from) - u.amount - ChangeOf(u, x.from, m)
          IN /\ ChangeOf(u, x.from, m) \in Nat /\ left \in Nat
             /\ ChangeOf(u, x.from, m) = 0 => left = Total(x.from) - u.amount
             /\ \/ left = EstimateFeesFor(u, Len(x.from), m + 1) /\ ChangeOf(u, x.from, m) > 0
                \/ left > EstimateFeesFor(u, Len(x.from), m) /\ ChangeOf(u, x.from, m) = 0
                \/ Total(x.from) <= u.amount + EstimateFeesFor(u, Len(x.from), m)
                   /\ ChangeOf(u, x.from, m) = 0
      BY <1>2, <1>3, <1>4, <3>1, ChangeLeavesFees
    <3> QED BY <1>3, <2>2, <3>2 DEF n
  <2>7. n = Len(q) => n = Len(x.utxo)
    BY <1>2, OffersAreLong
  <2>8. kept >= x.originalFees
    <3>1. CASE n = Len(q) /\ x.change = 0
      <4>1. x.kind = "transfer" => x.originalFees = 0
        BY DEF Sound
      <4>2. x.kind # "transfer" => x.amount + x.originalFees <= Total(x.from)
        BY <1>7, <2>1, <2>3, <3>1 DEF Affordable
      <4> QED BY <1>2, <2>6, <3>1, <4>1, <4>2
    <3>2. CASE x.change # 0
      <4>1. kept = EstimateFeesFor(u, n, m + 1)
        BY <2>6, <3>2
      <4> HIDE DEF kept
      <4> QED BY <1>2, <1>5, <4>1
    <3>3. CASE n # Len(q) /\ x.change = 0
      <4>1. kept = Total(x.from) - x.amount /\ kept \in Nat
        BY <2>6, <3>3
      <4>2. Total(x.from) - EstimateFeesFor(u, n, m) >= x.amount
        BY <2>5, <3>3
      <4> HIDE DEF kept
      <4>3. kept >= EstimateFeesFor(u, n, m)
        BY <1>2, <1>5, <4>1, <4>2
      <4> QED BY <1>2, <1>5, <4>1, <4>3
    <3> QED BY <3>1, <3>2, <3>3
  <2>9. \/ kept >= FeeAt(u.price, n, Len(Outputs(x)))
        \/ n = Len(x.utxo) /\ x.change = 0
    <3>1. CASE x.change # 0
      <4>1. kept = EstimateFeesFor(u, n, 2)
        BY <1>4, <2>6, <3>1
      <4> HIDE DEF kept
      <4>2. CASE Len(Outputs(x)) = 1
        <5>1. FeeAt(u.price, n, Len(Outputs(x))) = FeeAt(u.price, n, 1)
          BY <4>2, Zenon
        <5> QED BY <1>5, <4>1, <5>1
      <4>3. CASE Len(Outputs(x)) = 2
        <5>1. FeeAt(u.price, n, Len(Outputs(x))) = FeeAt(u.price, n, 2)
          BY <4>3, Zenon
        <5> QED BY <1>5, <4>1, <5>1
      <4> QED BY <1>6, <4>2, <4>3
    <3>2. CASE x.change = 0 /\ n # Len(q)
      <4>5. kept = Total(x.from) - x.amount
        BY <2>6, <3>2
      <4>6. Total(x.from) - EstimateFeesFor(u, n, 1) >= x.amount
        BY <1>4, <2>5, <3>2
      <4>1. kept >= EstimateFeesFor(u, n, 1)
        BY <1>2, <1>5, <4>5, <4>6
      <4>2. Len(Outputs(x)) = 1
        BY <1>6, <3>2
      <4> HIDE DEF kept
      <4>3. kept \in Nat
        BY <2>6
      <4>4. FeeAt(u.price, n, Len(Outputs(x))) = FeeAt(u.price, n, 1)
        BY <4>2, Zenon
      <4> QED BY <1>5, <4>1, <4>3, <4>4
    <3> QED BY <2>7, <3>1, <3>2
  <2> QED BY <2>6, <2>8, <2>9 DEF u, n
<1>8. CASE x.target = "all"
  <2>1. /\ x.from = x.utxo /\ x.change = 0
        /\ x.amount = Larger(0, Total(x.from) - EstimateFeesFor(u, n, m))
    BY <1>1, <1>8, ChosenWhole DEF u, n, m
  <2>2. x.amount = Total(x.from) - EstimateFeesFor(u, n, m)
    BY <1>2, <1>4, <1>5, <2>1 DEF Larger
  <2>3. kept = EstimateFeesFor(u, n, m)
    BY <1>2, <1>5, <2>1, <2>2
  <2> QED BY <1>2, <1>5, <2>1, <2>3 DEF u, n
<1> QED
  BY <1>2, <1>7, <1>8

(* A valid object adds up, and pays its price when it was balanced with it. *)
LEMMA PaysFees ==
  ASSUME NEW x, Sound(x), Valid(x), Affordable(x)
  PROVE  Paid(x) = Fees(x) /\ (x.kind # "speedup" => CoversPrice(x))
<1>1. x \in Objects /\ x.amount \in Nat /\ x.change \in Nat /\ x.originalFees \in Nat
  BY DEF Sound, Objects
<1>2. Total(x.from) \in Nat
  BY <1>1, Worth DEF Objects
<1>3. SumOf(Outputs(x)) = x.amount + x.change
  BY <1>1, OutputsAddUp
<1>4. Paid(x) = Total(x.from) - x.amount - x.change
  BY <1>1, <1>2, <1>3 DEF Paid
<1>5. /\ Paid(x) \in Nat /\ Paid(x) >= x.originalFees
      /\ \/ Paid(x) >= FeeAt(Unpriced(x).price, Len(x.from), Len(Outputs(x)))
         \/ Len(x.from) = Len(x.utxo) /\ x.change = 0
  BY <1>4, KeepsFees
<1>6. Fees(x) = Paid(x)
  <2>1. Total(x.from) - x.change - x.amount = Paid(x)
    BY <1>1, <1>2, <1>4
  <2> QED BY <1>1, <1>5, <2>1 DEF Fees, Larger
<1>7. x.kind # "speedup" => CoversPrice(x)
  BY <1>5 DEF CoversPrice, Exhausted, GetFees, Unpriced
<1> QED
  BY <1>6, <1>7

(* Without the last of its inputs, a valid object would not cover its      *)
(* amount and fee.                                                         *)
LEMMA NeedsItsInputs ==
  ASSUME NEW x, Sound(x), Valid(x), x.kind # "speedup", x.target = "manual"
  PROVE  LET but == SubSeq(x.from, 1, Len(x.from) - 1)
         IN Total(but) - EstimateFeesFor(x, Len(but), 1) < x.amount
<1>1. x \in Objects /\ Settled(x) /\ x.amount \in Nat /\ x.amount # 0 /\ x.from # <<>>
      /\ Receivers(x) = 1 /\ Unpriced(x) = x
  BY DEF Sound, Valid, Objects, Receivers, Unpriced
<1>2. PICK q \in Offers : \E n \in 0 .. Len(q) :
         Shortest(x, q, 1, n) /\ x.from = SubSeq(q, 1, n)
  BY <1>1, ChosenByHand
<1>3. PICK n \in 0 .. Len(q) : Shortest(x, q, 1, n) /\ x.from = SubSeq(q, 1, n)
  BY <1>2
<1>4. q \in Picked /\ Len(q) \in Nat /\ n \in Nat
  BY DEF Offers, Picked
<1>5. x.from \in Picked /\ Len(x.from) = n /\ \A i \in 1 .. n : x.from[i] = q[i]
  BY <1>3, <1>4, Starting
<1>6. n # 0
  BY <1>1, <1>5, Nothing DEF Picked
<1> DEFINE k == n - 1
           a == SubSeq(x.from, 1, k)
           b == SubSeq(q, 1, k)
<1>7. k \in 0 .. n /\ k \in 0 .. Len(q) /\ k \in Nat /\ k \in 0 .. n - 1
  BY <1>4, <1>6
<1> HIDE DEF k
<1>8. a \in Picked /\ Len(a) = k /\ \A i \in 1 .. k : a[i] = x.from[i]
  <2>1. k \in 0 .. Len(x.from)
    BY <1>5, <1>7
  <2> QED BY <1>5, <2>1, Starting
<1>9. b \in Picked /\ Len(b) = k /\ \A i \in 1 .. k : b[i] = q[i]
  BY <1>4, <1>7, Starting
<1> HIDE DEF a, b
<1>10. a = b
  <2>1. a \in Seq(Spendable) /\ b \in Seq(Spendable)
    BY <1>8, <1>9 DEF Picked
  <2>2. \A i \in 1 .. k : i \in 1 .. n
    BY <1>7
  <2>3. \A i \in 1 .. Len(a) : a[i] = b[i]
    BY <1>5, <1>8, <1>9, <2>2
  <2> QED BY <1>8, <1>9, <2>1, <2>3, SeqEqual
<1>11. ~Covers(x, q, 1, k)
  BY <1>3, <1>7 DEF Shortest, k
<1>12. EstimateFeesFor(x, k, 1) \in Nat /\ Total(b) \in Nat
  BY <1>1, <1>7, <1>9, EstimateGrows, Worth
<1>13. Total(a) - EstimateFeesFor(x, k, 1) < x.amount
  <2>1. CASE k = 0
    <3>1. b = <<>>
      BY <1>9, <2>1, Nothing DEF Picked
    <3> QED BY <1>1, <1>10, <1>12, <3>1, TotalOfNothing
  <2>2. CASE k # 0
    BY <1>1, <1>7, <1>10, <1>11, <1>12, <2>2 DEF Covers, b
  <2> QED BY <2>1, <2>2
<1> QED
  BY <1>5, <1>8, <1>13 DEF a, k

(* A modification takes the unspent outputs as they are offered.           *)
LEMMA TakesTheFirst ==
  ASSUME NEW x, Sound(x), Valid(x), x.kind # "transfer"
  PROVE  x.utxo[1] \in ToSet(x.from)
<1>1. x \in Objects /\ Settled(x) /\ x.amount # 0 /\ x.from # <<>>
      /\ x.target \in {"manual", "all"} /\ x.from \in Picked
  BY DEF Sound, Valid, Objects
<1>2. CASE x.target = "manual"
  <2>1. PICK n \in 0 .. Len(x.utxo) : x.from = SubSeq(x.utxo, 1, n)
    BY <1>1, <1>2, ChosenByHand
  <2>2. x.utxo \in Picked
    BY <1>1 DEF Objects, Offers
  <2>3. x.from \in Picked /\ Len(x.from) = n /\ \A i \in 1 .. n : x.from[i] = x.utxo[i]
    BY <2>1, <2>2, Starting
  <2>4. n # 0
    BY <1>1, <2>3, Nothing DEF Picked
  <2>5. 1 \in 1 .. n /\ 1 \in 1 .. Len(x.from)
    BY <2>2, <2>3, <2>4 DEF Picked
  <2>6. DOMAIN x.from = 1 .. Len(x.from)
    BY <2>3 DEF Picked
  <2> QED BY <2>3, <2>5, <2>6 DEF ToSet
<1>3. CASE x.target = "all"
  <2>1. x.from = x.utxo
    BY <1>1, <1>3, ChosenWhole
  <2>2. x.from \in Seq(Spendable) /\ DOMAIN x.from = 1 .. Len(x.from) /\ Len(x.from) \in Nat
    BY <1>1 DEF Picked
  <2>3. Len(x.from) # 0
    BY <1>1, <2>2, Nothing
  <2>4. 1 \in DOMAIN x.from
    BY <2>2, <2>3
  <2> QED BY <2>1, <2>4 DEF ToSet
<1> QED
  BY <1>1, <1>2, <1>3

-----------------------------------------------------------------------------
(* An object untouched by an edit: a transfer of nothing.                  *)
LEMMA InitTxIsSound ==
  ASSUME NEW r \in [min : Nat, std : Nat, max : Nat], NEW h \in BOOLEAN
  PROVE  LET x == InitTx(r, h)
         IN /\ Sound(x) /\ Affordable(x) /\ x.kind = "transfer" /\ x.hasChange = h
            /\ x.price = r.std
<1> DEFINE n == New("transfer", h, Wallet)
           x == InitTx(r, h)
<1>1. Wallet \in Offers /\ "transfer" \in TxKinds /\ r.std \in Nat
  BY WalletIsOffer DEF TxKinds
<1>2. n \in Objects /\ n.kind = "transfer" /\ n.hasChange = h /\ n.originalFees = 0
  BY <1>1, NewIsObject
<1>3. x = SetFeePrice(n, Wallet, r.std)
  BY DEF InitTx
<1> HIDE DEF n, x
<1>4. x \in Objects /\ Balanced(x, Wallet) /\ Like(n, x) /\ x.price = r.std
  BY <1>1, <1>2, <1>3, SettingFeePrice
<1>5. x.kind = "transfer" /\ x.hasChange = h /\ x.originalFees = 0
  BY <1>2, <1>4 DEF Like
<1>6. Unpriced(x) = x
  BY <1>5 DEF Unpriced
<1>7. Settled(x)
  BY <1>1, <1>4, <1>5, <1>6 DEF Settled
<1>8. Sound(x)
  BY <1>4, <1>5, <1>7 DEF Sound
<1>9. Affordable(x)
  BY <1>5 DEF Affordable
<1> QED
  BY <1>4, <1>5, <1>8, <1>9 DEF x

(* What a transaction keeps for the fee is there to be spent.              *)
LEMMA FeesAreThere ==
  ASSUME NEW x \in Objects, x.originalFees = 0, x.amount <= Total(x.utxo)
  PROVE  x.amount + Fees(x) <= Total(x.utxo)
<1>1. x.from \in Picked /\ x.utxo \in Offers /\ x.amount \in Nat /\ x.change \in Nat
  BY DEF Objects
<1>2. Total(x.from) <= Total(x.utxo) /\ Total(x.from) \in Nat /\ Total(x.utxo) \in Nat
  BY <1>1, OffersAreWorth, Worth
<1>3. PICK w \in Nat : w = Total(x.from)
  BY <1>2
<1>4. Fees(x) = Larger(0, Larger(0, w - x.change - x.amount))
  BY <1>3 DEF Fees
<1> QED
  BY <1>1, <1>2, <1>3, <1>4 DEF Larger

(* The orders a transaction that is replaced may be restored with.         *)
Foremost(o) == Sorted(Wallet, [u \in ToSet(Wallet) |-> IF u \in o.inputs THEN 0 ELSE 1])

(* The inputs of what is replaced come first.                              *)
LEMMA InputsComeFirst ==
  ASSUME NEW o \in Originals, NEW utxo \in Foremost(o)
  PROVE  /\ utxo \in Offers /\ utxo[1] \in o.inputs
         /\ o.amount \in Nat /\ o.fee \in Nat /\ o.amount <= Total(utxo)
<1>1. /\ o.inputs \subseteq Spendable /\ o.amount \in Nat /\ o.amount # 0 /\ o.fee \in Nat
  BY InputAssumption DEF Originals, Spendable
<1> DEFINE rank == [u \in ToSet(Wallet) |-> IF u \in o.inputs THEN 0 ELSE 1]
<1>2. utxo \in Shuffles(Wallet)
      /\ \A i, j \in DOMAIN utxo : i < j =>
           rank[utxo[i]] < rank[utxo[j]] \/ rank[utxo[i]] = rank[utxo[j]]
  BY DEF Foremost, Sorted
<1>3. utxo \in Offers
  BY <1>2, WalletIsOffer, ShuffleIsOffer
<1>4. PICK q \in SetToSeqs(o.inputs) : Total(q) >= o.amount + o.fee
  BY DEF Originals
<1>5. utxo \in Seq(Spendable) /\ DOMAIN utxo = 1 .. Len(utxo) /\ Len(utxo) \in Nat
      /\ ToSet(utxo) = Spendable
  BY <1>3 DEF Offers, Picked
<1>6. q \in Picked
  <2> DEFINE D == 1 .. Cardinality(o.inputs)
  <2>1. q \in [D -> o.inputs] /\ \A i, j \in D : i # j => q[i] # q[j]
    BY DEF SetToSeqs
  <2>2. Cardinality(o.inputs) \in Nat
    BY <1>1, WalletIsOffer, FS_Subset, FS_CardinalityType
  <2>3. q \in Seq(Spendable)
    <3>1. PICK c \in Nat : c = Cardinality(o.inputs)
      BY <2>2
    <3>2. q \in [1 .. c -> Spendable]
      BY <1>1, <2>1, <3>1
    <3> QED BY <3>2
  <2>4. IsInjective(q)
    BY <2>1 DEF IsInjective
  <2> QED BY <2>3, <2>4 DEF Picked
<1>7. Total(q) <= Total(utxo) /\ Total(q) \in Nat /\ Total(utxo) \in Nat
  BY <1>3, <1>6, OffersAreWorth, Worth
<1>8. o.inputs # {}
  <2> SUFFICES ASSUME o.inputs = {} PROVE FALSE
    OBVIOUS
  <2>1. Cardinality(o.inputs) = 0
    BY FS_EmptySet
  <2>2. q \in [1 .. 0 -> o.inputs]
    BY <2>1 DEF SetToSeqs
  <2>3. q = <<>>
    BY <2>2
  <2> QED BY <1>1, <1>4, <2>3, TotalOfNothing
<1>9. PICK u \in o.inputs : u \in ToSet(utxo)
  BY <1>1, <1>5, <1>8
<1>10. PICK j \in 1 .. Len(utxo) : utxo[j] = u
  BY <1>5, <1>9 DEF ToSet
<1>11. utxo[1] \in o.inputs
  <2>1. 1 \in 1 .. Len(utxo)
    BY <1>5, <1>10
  <2>2. CASE j = 1
    BY <1>9, <1>10, <2>2
  <2>3. CASE j # 1
    <3>1. 1 < j
      BY <1>5, <1>10, <2>3
    <3> HIDE DEF rank
    <3>2. rank[utxo[1]] < rank[u] \/ rank[utxo[1]] = rank[u]
      <4>1. 1 \in DOMAIN utxo /\ j \in DOMAIN utxo
        BY <1>5, <1>10, <2>1
      <4>2. rank[utxo[1]] < rank[utxo[j]] \/ rank[utxo[1]] = rank[utxo[j]]
        BY <1>2, <3>1, <4>1
      <4> QED BY <1>10, <4>2
    <3>3. rank[u] = 0 /\ utxo[1] \in Spendable /\ u \in Spendable
      BY <1>1, <1>5, <2>1 DEF Spendable, rank
    <3>4. rank[utxo[1]] = IF utxo[1] \in o.inputs THEN 0 ELSE 1
      BY <3>3 DEF Spendable, rank
    <3> QED BY <3>2, <3>3, <3>4
  <2> QED BY <2>2, <2>3
<1> QED
  BY <1>1, <1>3, <1>4, <1>7, <1>11

-----------------------------------------------------------------------------
(* What is restored is a transfer of the amount of what is replaced.       *)
Found(o, x) ==
  /\ x \in Objects /\ x.kind = "transfer" /\ x.originalFees = 0 /\ x.target = "manual"
  /\ x.amount = o.amount /\ x.utxo[1] \in o.inputs /\ o.amount <= Total(x.utxo)

(* With the inputs of what is replaced first.                              *)
LEMMA RestoredIsFound ==
  ASSUME NEW o \in Originals, NEW x \in Restored(o)
  PROVE  Found(o, x)
<1>1. PICK utxo \in Foremost(o) :
         x = SetTo(SetAmount(New("transfer", TRUE, utxo), utxo, o.amount), utxo, Receiver)
  BY DEF Restored, Foremost
<1>2. utxo \in Offers /\ utxo[1] \in o.inputs /\ o.amount \in Nat /\ o.amount <= Total(utxo)
  BY InputsComeFirst
<1> DEFINE n == New("transfer", TRUE, utxo)
           a == SetAmount(n, utxo, o.amount)
<1>3. "transfer" \in TxKinds /\ TRUE \in BOOLEAN /\ Receiver \in Addresses
  BY DEF TxKinds, Addresses
<1>4. n \in Objects /\ n.kind = "transfer" /\ n.utxo = utxo /\ n.originalFees = 0
  <2>1. \A h \in BOOLEAN : New("transfer", h, utxo) \in Objects
    BY <1>2, <1>3, NewIsObject
  <2>2. n \in Objects
    BY <2>1
  <2> QED BY <2>2 DEF New
<1> HIDE DEF n
<1>5. a \in Objects /\ Like(n, a) /\ a.target = "manual" /\ a.amount = o.amount
  BY <1>2, <1>4, SettingAmount
<1> HIDE DEF a
<1>6. x = SetTo(a, utxo, Receiver)
  BY <1>1 DEF a, n
<1>7. x \in Objects /\ Like(a, x) /\ x.target = "manual" /\ x.amount = o.amount
  BY <1>2, <1>3, <1>5, <1>6, SettingTo
<1> QED
  BY <1>2, <1>4, <1>5, <1>7 DEF Like, Found

(* At another price it stays one.                                          *)
LEMMA PricedIsFound ==
  ASSUME NEW o, NEW x, Found(o, x), NEW price \in Nat
  PROVE  LET p == Dump(SetFeePrice(x, x.utxo, price))
         IN /\ p \in Plains /\ p.kind = "transfer" /\ p.target = "manual"
            /\ p.amount = o.amount /\ p.utxo = x.utxo /\ p.originalFees \in Nat
            /\ p.amount + p.originalFees <= Total(p.utxo)
            /\ p.price = price /\ p.to = x.to
            /\ p.originalFees = Fees(SetFeePrice(x, x.utxo, price))
<1> DEFINE s == SetFeePrice(x, x.utxo, price)
           p == Dump(s)
<1>1. x \in Objects /\ x.utxo \in Offers
  BY DEF Found, Objects
<1>2. s \in Objects /\ Like(x, s) /\ s.target = "manual" /\ s.amount = o.amount
      /\ s.price = price /\ s.to = x.to
  BY <1>1, SettingFeePrice DEF Found
<1> HIDE DEF s
<1>3. s.kind = "transfer" /\ s.utxo = x.utxo /\ s.originalFees = 0 /\ s.amount <= Total(s.utxo)
  BY <1>2 DEF Like, Found
<1>4. /\ p \in Plains /\ Mirrors(p, s) /\ p.kind = "transfer" /\ p.amount = s.amount
      /\ p.originalFees = Fees(s) /\ Fees(s) \in Nat
  BY <1>2, <1>3, DumpIsPlain
<1>5. s.amount + Fees(s) <= Total(s.utxo)
  BY <1>2, <1>3, FeesAreThere
<1> HIDE DEF p
<1>6. p.utxo = s.utxo /\ p.target = "manual" /\ p.price = price /\ p.to = x.to
  BY <1>2, <1>4 DEF Mirrors
<1> QED
  BY <1>2, <1>3, <1>4, <1>5, <1>6 DEF p, s

(* The price a fee comes to is a number.                                   *)
LEMMA EstimateIsNumber ==
  ASSUME NEW o \in Originals, NEW found \in Restored(o)
  PROVE  EstimateVkbPrice(found, o.fee) \in Nat
<1>1. found \in Objects
  BY RestoredIsFound DEF Found
<1>2. found.from \in Picked
  BY <1>1 DEF Objects
<1>3. Len(found.from) \in Nat
  BY <1>2 DEF Picked
<1>4. Len(Outputs(found)) \in Nat
  <2>1. Outputs(found) = <<found.change + found.amount>>
        \/ \E a, b \in {<<>>, <<found.amount>>, <<found.change>>} : Outputs(found) = a \o b
    BY DEF Outputs
  <2>2. <<>> \in Seq(Int) /\ <<found.amount>> \in Seq(Int) /\ <<found.change>> \in Seq(Int)
        /\ <<found.change + found.amount>> \in Seq(Int)
    BY <1>1 DEF Objects
  <2>3. \A a, b \in Seq(Int) : a \o b \in Seq(Int)
    OBVIOUS
  <2>4. Outputs(found) \in Seq(Int)
    BY <2>1, <2>2, <2>3
  <2> QED BY <2>4
<1>5. PICK w \in Nat : w = Weight(Len(found.from), Len(Outputs(found))) /\ w > 0
  <2>1. PICK i \in Nat : i = Len(found.from)
    BY <1>3
  <2>2. PICK k \in Nat : k = Len(Outputs(found))
    BY <1>4
  <2>3. Weight(i, k) \in Nat /\ Weight(i, k) > 0
    BY DEF Weight
  <2> QED BY <2>1, <2>2, <2>3
<1>6. PICK f \in Nat : f = o.fee * 4096
  <2>1. o.fee \in OriginalFees
    BY DEF Originals
  <2>2. PICK n \in Nat : n = o.fee
    BY <2>1, InputAssumption
  <2>3. n * 4096 \in Nat
    OBVIOUS
  <2> QED BY <2>2, <2>3
<1>7. f \div w \in Nat
  BY <1>5
<1> QED
  BY <1>5, <1>6, <1>7 DEF EstimateVkbPrice

(* Repriced, what is restored is still a transfer of that amount, at the   *)
(* price its fee was estimated to come to.                                 *)
LEMMA RepricedIsPriced ==
  ASSUME NEW o \in Originals, NEW found \in Restored(o), NEW tx \in Repriced(found, o.fee)
  PROVE  /\ Found(o, tx) /\ tx.price \in Nat /\ tx.price = EstimateVkbPrice(found, o.fee)
         /\ tx.utxo = found.utxo /\ tx.to = found.to /\ tx.hasChange
<1>1. Found(o, found) /\ found \in Objects
  BY RestoredIsFound DEF Found
<1>2. EstimateVkbPrice(found, o.fee) \in Nat
  BY EstimateIsNumber
<1> DEFINE p == Dump(SetFeePrice(found, found.utxo, EstimateVkbPrice(found, o.fee)))
<1>3. /\ p \in Plains /\ p.kind = "transfer" /\ p.target = "manual"
      /\ p.amount = o.amount /\ p.utxo = found.utxo /\ p.to = found.to
      /\ p.price = EstimateVkbPrice(found, o.fee)
  BY <1>1, <1>2, PricedIsFound
<1>4. tx \in FromPlain(p, TRUE)
  BY DEF Repriced
<1> HIDE DEF p
<1>5. Sound(tx) /\ Mirrors(p, tx) /\ tx.hasChange
  <2>1. \A h \in BOOLEAN : \A x \in FromPlain(p, h) :
          Sound(x) /\ Mirrors(p, x) /\ (x.hasChange <=> h)
    BY <1>3, FromStash
  <2> QED BY <1>4, <2>1
<1>6. Found(o, tx) /\ tx.price \in Nat
  BY <1>1, <1>3, <1>5 DEF Found, Sound, Mirrors, Objects
<1>7. tx.price = EstimateVkbPrice(found, o.fee) /\ tx.utxo = found.utxo /\ tx.to = found.to
  BY <1>3, <1>5 DEF Mirrors
<1> QED
  BY <1>5, <1>6, <1>7

(* The replacement keeps its outputs first, and the fee of the repriced    *)
(* transaction is the least it pays.                                       *)
LEMMA ReplacementFits ==
  ASSUME NEW o \in Originals, NEW found \in Restored(o), NEW tx \in Repriced(found, o.fee),
         NEW price \in Nat, NEW kind \in {"cancel", "speedup"},
         NEW x \in Replacement(kind, tx, price)
  PROVE  /\ Sound(x) /\ Affordable(x) /\ x.kind = kind
         /\ x.utxo[1] \in o.inputs
         /\ x.utxo = tx.utxo /\ x.target = "manual" /\ x.amount = o.amount /\ x.price = price
         /\ x.originalFees = Fees(SetFeePrice(tx, tx.utxo, price))
<1>6. Found(o, tx) /\ tx.price \in Nat
  BY RepricedIsPriced
<1> DEFINE r == Dump(SetFeePrice(tx, tx.utxo, price))
           s == [r EXCEPT !.kind = kind]
<1>7. /\ r \in Plains /\ r.kind = "transfer" /\ r.target = "manual"
      /\ r.amount = o.amount /\ r.utxo = tx.utxo /\ r.originalFees \in Nat
      /\ r.amount + r.originalFees <= Total(r.utxo)
      /\ r.price = price /\ r.originalFees = Fees(SetFeePrice(tx, tx.utxo, price))
  BY <1>6, PricedIsFound
<1>8. x \in FromPlain(s, TRUE)
  BY DEF Replacement
<1> HIDE DEF r
<1>9. /\ s \in Plains /\ s.kind = kind /\ s.target = "manual" /\ s.amount = o.amount
      /\ s.utxo = tx.utxo /\ s.originalFees = r.originalFees /\ s.price = price
  BY <1>7 DEF Plains, TxKinds
<1> HIDE DEF s
<1>10. Sound(x) /\ Mirrors(s, x)
  BY <1>8, <1>9, FromStash
<1>11. x.kind = kind /\ x.utxo[1] \in o.inputs
  BY <1>6, <1>9, <1>10 DEF Mirrors, Found
<1>12. Affordable(x)
  BY <1>7, <1>9, <1>10 DEF Affordable, Mirrors
<1>13. /\ x.utxo = tx.utxo /\ x.target = "manual" /\ x.amount = o.amount /\ x.price = price
       /\ x.originalFees = Fees(SetFeePrice(tx, tx.utxo, price))
  BY <1>7, <1>9, <1>10 DEF Mirrors
<1> QED
  BY <1>10, <1>11, <1>12, <1>13

-----------------------------------------------------------------------------
(* The invariant.                                                          *)
Prices == [min : Nat, std : Nat, max : Nat]

(* Types, and what has not happened yet.                                   *)
Shapes ==
  /\ action \in Actions /\ stage \in {"preparing", "setup", "sign", "broadcast"}
  /\ range \in Prices /\ useStdFee \in BOOLEAN /\ outdated \in BOOLEAN
  /\ stage = "preparing" => plain = None /\ action # "transfer"
  /\ signed # None => stage = "broadcast"

(* An object can be a replacement of what is modified.                     *)
Replaces(x) == x.kind # "transfer" => x.utxo[1] \in original.inputs

(* The object on the screen is sound, and is what the page was opened for; *)
(* a page that found nothing to modify cannot hold the change.             *)
ScreenFits ==
  /\ Sound(screen) /\ Affordable(screen) /\ Replaces(screen)
  /\ screen.kind \in {"transfer", action}
  /\ screen.kind = action \/ stage = "preparing" \/ ~screen.hasChange

(* The object shows what the stash keeps.                                  *)
ScreenMirrors ==
  IF plain = None THEN screen.kind = "transfer"
  ELSE plain \in Plains /\ Mirrors(plain, screen)

(* What is to be signed was valid.                                         *)
ToBeSigned == stage = "sign" => plain # None /\ Valid(screen)

(* What was signed was what the page was opened for, and valid.            *)
WasSigned ==
  signed # None =>
    /\ Sound(signed) /\ Valid(signed) /\ Affordable(signed) /\ Replaces(signed)
    /\ signed.kind = action

(* The standard price.                                                     *)
AtStandard ==
  (action = "transfer" /\ useStdFee /\ ~outdated) =>
    /\ screen.price = range.std
    /\ signed # None => signed.price = range.std

PageInv == Shapes /\ ScreenFits /\ ScreenMirrors /\ ToBeSigned /\ WasSigned

BitcoinInv == PageInv /\ AtStandard

-----------------------------------------------------------------------------
(* A plain transaction is one.                                             *)
LEMMA PlainIsNotNone == \A p \in Plains : p # None
<1> SUFFICES ASSUME NEW p \in Plains, p = None PROVE FALSE
  OBVIOUS
<1>1. "kind" \in DOMAIN p
  BY DEF Plains
<1>2. "kind" \notin DOMAIN None
  BY DEF None
<1> QED
  BY <1>1, <1>2

(* The invariant holds at the beginning.                                   *)
LEMMA PageStarts ==
  ASSUME Init
  PROVE  BitcoinInv
<1>1. range \in Prices
  BY InputAssumption DEF Init, Loading, Prices
<1>2. TRUE \in BOOLEAN
  OBVIOUS
<1>3. /\ Sound(screen) /\ Affordable(screen) /\ screen.kind = "transfer" /\ screen.hasChange
      /\ screen.price = range.std
  <2>1. \A h \in BOOLEAN : LET x == InitTx(range, h)
         IN /\ Sound(x) /\ Affordable(x) /\ x.kind = "transfer" /\ (x.hasChange <=> h)
            /\ x.price = range.std
    BY <1>1, InitTxIsSound DEF Prices
  <2>2. screen = InitTx(range, TRUE)
    BY DEF Init
  <2> QED BY <1>2, <2>1, <2>2
<1>4. Shapes
  BY <1>1 DEF Init, Shapes
<1>5. ScreenFits
  BY <1>3 DEF Init, ScreenFits, Replaces
<1>6. ScreenMirrors /\ ToBeSigned /\ WasSigned /\ AtStandard
  BY <1>3 DEF Init, ScreenMirrors, ToBeSigned, WasSigned, AtStandard
<1> QED
  BY <1>4, <1>5, <1>6 DEF BitcoinInv, PageInv

(* An object made anew from the stash fits the page as the last one did.   *)
LEMMA AnewFits ==
  ASSUME NEW p \in Plains, NEW h \in BOOLEAN, NEW x \in FromPlain(p, h), Affordable(p)
  PROVE  /\ Sound(x) /\ Mirrors(p, x) /\ Affordable(x)
         /\ p.kind = "transfer" => x.hasChange = h
<1>1. Sound(x) /\ Mirrors(p, x) /\ (p.kind = "transfer" => x.hasChange = h)
  BY FromStash
<1> QED
  BY <1>1 DEF Affordable, Mirrors

(* An edit keeps the invariant when it keeps what is modified, and the     *)
(* screen then shows the price that was set.                               *)
LEMMA EditFits ==
  ASSUME PageInv, stage = "setup", NEW tx \in Objects, Edit(tx), Like(screen, tx),
         Affordable(tx), useStdFee' \in BOOLEAN, outdated' \in BOOLEAN
  PROVE  /\ PageInv' /\ screen'.price = tx.price
         /\ signed' = signed /\ signed = None /\ range' = range /\ action' = action
<1>1. /\ plain' = Dump(tx) /\ screen' \in FromPlain(plain', screen.hasChange)
      /\ UNCHANGED <<action, stage, range, refetched, signed, original>>
  BY DEF Edit
<1>2. Sound(screen) /\ screen \in Objects /\ screen.hasChange \in BOOLEAN
  BY DEF PageInv, ScreenFits, Sound, Objects
<1>3. plain' \in Plains /\ Mirrors(plain', tx) /\ plain' # None
  BY <1>1, DumpIsPlain, PlainIsNotNone
<1>4. Affordable(plain')
  <2>1. /\ plain'.kind = tx.kind /\ plain'.amount = tx.amount /\ plain'.utxo = tx.utxo
        /\ plain'.target = tx.target
        /\ tx.kind # "transfer" => plain'.originalFees = tx.originalFees
    BY <1>1 DEF Dump
  <2> QED BY <2>1 DEF Affordable
<1>5. /\ Sound(screen') /\ Mirrors(plain', screen') /\ Affordable(screen')
      /\ plain'.kind = "transfer" => screen'.hasChange = screen.hasChange
  BY <1>1, <1>2, <1>3, <1>4, AnewFits
<1>6. screen'.kind = screen.kind /\ screen'.utxo = screen.utxo /\ screen'.price = tx.price
      /\ plain'.kind = screen.kind
  BY <1>3, <1>5 DEF Mirrors, Like
<1>7. screen.kind = "transfer" => (screen'.hasChange <=> screen.hasChange)
  BY <1>5, <1>6
<1>8. screen.kind # "transfer" => screen'.hasChange /\ screen.hasChange
  BY <1>2, <1>5, <1>6 DEF Sound
<1>9. signed = None
  BY DEF PageInv, Shapes
<1>10. Shapes'
  BY <1>1, <1>9 DEF PageInv, Shapes
<1>11. ScreenFits'
  <2>1. screen.kind \in {"transfer", action} /\ Replaces(screen)
        /\ (screen.kind = action \/ ~screen.hasChange)
    BY DEF PageInv, ScreenFits
  <2>2. Replaces(screen)'
    BY <1>1, <1>6, <2>1 DEF Replaces
  <2> QED BY <1>1, <1>5, <1>6, <1>7, <1>8, <2>1, <2>2 DEF ScreenFits
<1>12. ScreenMirrors' /\ ToBeSigned' /\ WasSigned'
  BY <1>1, <1>3, <1>5, <1>9 DEF ScreenMirrors, ToBeSigned, WasSigned
<1> QED
  BY <1>1, <1>6, <1>9, <1>10, <1>11, <1>12 DEF PageInv

(* The setters leave the rest of the object as an edit must.               *)
LEMMA Keeps ==
  ASSUME NEW x \in Objects, NEW y \in Objects, Like(x, y), Affordable(x),
         x.kind = "transfer" \/ (y.target = x.target /\ (x.target = "manual" => y.amount = x.amount))
  PROVE  Affordable(y)
  BY DEF Affordable, Like

(* The receiver, the amount, "all" and the order do not touch the price.   *)
LEMMA EditingFits ==
  ASSUME BitcoinInv, EnterTo \/ EnterAmount \/ SendAll \/ ChooseOrder
  PROVE  BitcoinInv'
<1>1. /\ PageInv /\ AtStandard /\ screen \in Objects /\ Affordable(screen)
      /\ useStdFee \in BOOLEAN /\ outdated \in BOOLEAN
      /\ screen.utxo \in Offers /\ screen.order \in Orders
  BY DEF BitcoinInv, PageInv, Shapes, ScreenFits, Sound, Objects
<1>2. /\ stage = "setup" /\ useStdFee' = useStdFee /\ outdated' = outdated
  BY DEF EnterTo, EnterAmount, SendAll, ChooseOrder, Editable
<1>3. ASSUME NEW tx \in Objects, Edit(tx), Like(screen, tx), Affordable(tx),
             tx.price = screen.price
      PROVE  BitcoinInv'
  <2>1. /\ PageInv' /\ screen'.price = tx.price
        /\ signed' = signed /\ signed = None /\ range' = range /\ action' = action
    BY <1>1, <1>2, <1>3, EditFits
  <2> QED BY <1>1, <1>2, <1>3, <2>1 DEF BitcoinInv, AtStandard
<1>4. CASE EnterTo
  <2>1. PICK to \in Addresses, q \in Queues(screen.order, screen.utxo) : Edit(SetTo(screen, q, to))
    BY <1>4 DEF EnterTo
  <2> DEFINE tx == SetTo(screen, q, to)
  <2>2. q \in Offers
    BY <1>1, QueueIsOffer
  <2>3. tx \in Objects /\ Like(screen, tx) /\ tx.price = screen.price
    BY <1>1, <2>2, SettingTo
  <2>4. screen.kind = "transfer"
    BY <1>4 DEF EnterTo, IsTransfer
  <2> HIDE DEF tx
  <2>5. Affordable(tx)
    BY <2>3, <2>4 DEF Affordable, Like
  <2> QED BY <1>3, <2>1, <2>3, <2>5 DEF tx
<1>5. CASE EnterAmount
  <2>1. PICK amount \in Amounts, q \in Queues(screen.order, screen.utxo) :
           Edit(SetAmount(SetTarget(screen, q, "manual"), q, amount))
    BY <1>5 DEF EnterAmount
  <2> DEFINE t == SetTarget(screen, q, "manual")
             tx == SetAmount(t, q, amount)
  <2>2. q \in Offers /\ amount \in Nat
    BY <1>1, QueueIsOffer, InputAssumption
  <2>3. t \in Objects /\ Like(screen, t) /\ t.price = screen.price
    BY <1>1, <2>2, SettingTarget
  <2> HIDE DEF t
  <2>4. tx \in Objects /\ Like(t, tx) /\ tx.price = t.price
    BY <2>2, <2>3, SettingAmount
  <2>5. screen.kind = "transfer"
    BY <1>5 DEF EnterAmount, IsTransfer
  <2> HIDE DEF tx
  <2>6. Like(screen, tx) /\ Affordable(tx) /\ tx.price = screen.price
    BY <2>3, <2>4, <2>5 DEF Affordable, Like
  <2> QED BY <1>3, <2>1, <2>4, <2>6 DEF tx, t
<1>6. CASE SendAll
  <2> DEFINE tx == SetTarget(screen, screen.utxo, "all")
  <2>1. Edit(tx) /\ screen.kind = "transfer"
    BY <1>6 DEF SendAll, IsTransfer
  <2>2. tx \in Objects /\ Like(screen, tx) /\ tx.price = screen.price
    BY <1>1, SettingTarget
  <2> HIDE DEF tx
  <2>3. Affordable(tx)
    BY <2>1, <2>2 DEF Affordable, Like
  <2> QED BY <1>3, <2>1, <2>2, <2>3
<1>7. CASE ChooseOrder
  <2>1. PICK order \in Orders : \E q \in Queues(order, screen.utxo) : Edit(SetOrder(screen, q, order))
    BY <1>7 DEF ChooseOrder
  <2>2. PICK q \in Queues(order, screen.utxo) : Edit(SetOrder(screen, q, order))
    BY <2>1
  <2> DEFINE tx == SetOrder(screen, q, order)
  <2>3. q \in Offers
    BY <1>1, QueueIsOffer
  <2>4. /\ tx \in Objects /\ Like(screen, tx) /\ tx.price = screen.price
        /\ tx.target = screen.target /\ (screen.target = "manual" => tx.amount = screen.amount)
    BY <1>1, <2>3, SettingOrder
  <2> HIDE DEF tx
  <2>5. Affordable(tx)
    BY <1>1, <2>4, Keeps
  <2> QED BY <1>3, <2>2, <2>4, <2>5 DEF tx
<1> QED
  BY <1>4, <1>5, <1>6, <1>7

(* The slider sets a price; the switch, the standard one.                  *)
LEMMA PricingFits ==
  ASSUME BitcoinInv, SlideFee \/ StandardFee
  PROVE  BitcoinInv'
<1>1. /\ PageInv /\ AtStandard /\ screen \in Objects /\ Affordable(screen)
      /\ useStdFee \in BOOLEAN /\ outdated \in BOOLEAN
      /\ screen.utxo \in Offers /\ screen.order \in Orders
      /\ range.min \in Nat /\ range.std \in Nat /\ range.max \in Nat
  BY DEF BitcoinInv, PageInv, Shapes, ScreenFits, Sound, Objects, Prices
<1>2. ASSUME NEW price \in Nat, NEW q \in Queues(screen.order, screen.utxo), stage = "setup",
             Edit(SetFeePrice(screen, q, price)),
             useStdFee' \in BOOLEAN, outdated' \in BOOLEAN
      PROVE  /\ PageInv' /\ screen'.price = price
             /\ signed' = signed /\ signed = None /\ range' = range /\ action' = action
  <2> DEFINE tx == SetFeePrice(screen, q, price)
  <2>1. q \in Offers
    BY <1>1, QueueIsOffer
  <2>2. /\ tx \in Objects /\ Like(screen, tx) /\ tx.price = price
        /\ tx.target = screen.target /\ (screen.target = "manual" => tx.amount = screen.amount)
    BY <1>1, <2>1, SettingFeePrice
  <2>3. Edit(tx)
    BY <1>2
  <2> HIDE DEF tx
  <2>4. Affordable(tx)
    BY <1>1, <2>2, Keeps
  <2>5. /\ PageInv' /\ screen'.price = tx.price
        /\ signed' = signed /\ signed = None /\ range' = range /\ action' = action
    BY <1>1, <1>2, <2>2, <2>3, <2>4, EditFits
  <2> QED BY <2>2, <2>5
<1>3. CASE SlideFee
  <2>1. PICK price \in {range.min, range.max}, q \in Queues(screen.order, screen.utxo) :
           Edit(SetFeePrice(screen, q, price))
    BY <1>3 DEF SlideFee
  <2>2. /\ stage = "setup" /\ ~useStdFee /\ useStdFee' = useStdFee /\ outdated' = outdated
        /\ price \in Nat
    BY <1>1, <1>3 DEF SlideFee, Editable
  <2>3. PageInv'
    BY <1>1, <1>2, <2>1, <2>2
  <2> QED BY <2>2, <2>3 DEF BitcoinInv, AtStandard
<1>4. CASE StandardFee
  <2>1. PICK q \in Queues(screen.order, screen.utxo) : Edit(SetFeePrice(screen, q, range.std))
    BY <1>4 DEF StandardFee
  <2>2. stage = "setup" /\ useStdFee' \in BOOLEAN /\ outdated' \in BOOLEAN
    BY <1>4 DEF StandardFee, Editable
  <2>3. /\ PageInv' /\ screen'.price = range.std
        /\ signed' = signed /\ signed = None /\ range' = range
    BY <1>1, <1>2, <2>1, <2>2
  <2> QED BY <2>3 DEF BitcoinInv, AtStandard
<1> QED
  BY <1>3, <1>4

(* Made anew from what the stash keeps, the object on the screen fits the  *)
(* page, at the price the stash keeps or, as long as nothing is stashed,   *)
(* the standard one.                                                       *)
LEMMA ScreensFit ==
  ASSUME PageInv, NEW r \in Prices, NEW h \in BOOLEAN, NEW x \in Screens(plain, r, h)
  PROVE  /\ Sound(x) /\ Affordable(x) /\ Replaces(x) /\ x.kind = screen.kind
         /\ IF plain = None THEN x.kind = "transfer" /\ x.hasChange = h
            ELSE plain \in Plains /\ Mirrors(plain, x) /\ Mirrors(plain, screen)
                 /\ (plain.kind = "transfer" => x.hasChange = h)
         /\ x.kind = "transfer" => (x.hasChange <=> h)
         /\ IF plain = None THEN x.price = r.std ELSE x.price = screen.price
<1>1. ScreenFits /\ ScreenMirrors
  BY DEF PageInv
<1>2. CASE plain = None
  <2>1. x = InitTx(r, h)
    BY <1>2 DEF Screens
  <2>2. Sound(x) /\ Affordable(x) /\ x.kind = "transfer" /\ x.hasChange = h /\ x.price = r.std
    BY <2>1, InitTxIsSound DEF Prices
  <2>3. screen.kind = "transfer"
    BY <1>1, <1>2 DEF ScreenMirrors
  <2> QED BY <1>2, <2>2, <2>3 DEF Replaces
<1>3. CASE plain # None
  <2>1. x \in FromPlain(plain, h) /\ plain \in Plains /\ Mirrors(plain, screen)
    BY <1>1, <1>3 DEF Screens, ScreenMirrors
  <2>2. Affordable(plain)
    BY <1>1, <2>1 DEF ScreenFits, Sound, Affordable, Mirrors
  <2>3. /\ Sound(x) /\ Mirrors(plain, x) /\ Affordable(x)
        /\ plain.kind = "transfer" => x.hasChange = h
    BY <2>1, <2>2, AnewFits
  <2>4. x.kind = screen.kind /\ x.utxo = screen.utxo /\ x.price = screen.price /\ x.kind = plain.kind
    BY <2>1, <2>3 DEF Mirrors
  <2>5. Replaces(x)
    BY <1>1, <2>4 DEF ScreenFits, Replaces
  <2> QED BY <1>3, <2>1, <2>3, <2>4, <2>5
<1> QED
  BY <1>2, <1>3

(* Each of the other actions keeps the invariant.                          *)
LEMMA FeesFit ==
  ASSUME BitcoinInv, FeeArrives
  PROVE  BitcoinInv'
<1>1. /\ PageInv /\ AtStandard /\ Shapes /\ signed = None
      /\ action = "transfer" /\ stage = "setup" /\ range' \in Ranges
      /\ outdated' = (outdated \/ (plain # None /\ range' # range))
      /\ screen' \in Screens(plain, range', TRUE)
      /\ UNCHANGED <<action, stage, useStdFee, plain, signed, original>>
  BY DEF BitcoinInv, PageInv, Shapes, FeeArrives
<1>2. range' \in Prices /\ TRUE \in BOOLEAN /\ outdated' \in BOOLEAN
  BY <1>1, InputAssumption DEF Prices, Shapes
<1>3. /\ Sound(screen') /\ Affordable(screen') /\ Replaces(screen')
      /\ screen'.kind = screen.kind
      /\ IF plain = None THEN screen'.kind = "transfer" /\ screen'.price = range'.std
         ELSE plain \in Plains /\ Mirrors(plain, screen') /\ screen'.price = screen.price
  <2>1. PICK h \in BOOLEAN : h = TRUE
    OBVIOUS
  <2>2. screen' \in Screens(plain, range', h)
    BY <1>1, <2>1
  <2> QED BY <1>1, <1>2, <2>2, ScreensFit
<1>7. ScreenFits' /\ ScreenMirrors'
  BY <1>1, <1>3 DEF PageInv, ScreenFits, ScreenMirrors, Replaces
<1>4. Shapes'
  BY <1>1, <1>2 DEF Shapes
<1>5. ToBeSigned' /\ WasSigned'
  BY <1>1 DEF ToBeSigned, WasSigned
<1>6. AtStandard'
  BY <1>1, <1>3 DEF AtStandard
<1> QED
  BY <1>4, <1>5, <1>6, <1>7 DEF BitcoinInv, PageInv

(* A transaction that is modified was found.                               *)
LEMMA RestoringFits ==
  ASSUME BitcoinInv, Restore
  PROVE  BitcoinInv'
<1>1. /\ PageInv /\ Shapes /\ signed = None /\ stage = "preparing" /\ stage' = "setup"
      /\ action \in {"cancel", "speedup"} /\ original' \in Originals
      /\ UNCHANGED <<action, refetched, useStdFee, signed, outdated>>
  BY InputAssumption DEF BitcoinInv, PageInv, Shapes, Restore
<1>2. PICK r \in Ranges, found \in Restored(original') :
         \E tx \in Repriced(found, original'.fee) :
         \E min \in {MinFee(tx.price, r)} :
         \E replacement \in Replacement(action, tx, min) :
            /\ plain' = Dump(replacement)
            /\ range' = [min |-> min, std |-> min, max |-> MaxFee(min, r)]
  BY DEF Restore
<1>3. PICK tx \in Repriced(found, original'.fee) :
         \E min \in {MinFee(tx.price, r)} :
         \E replacement \in Replacement(action, tx, min) :
            /\ plain' = Dump(replacement)
            /\ range' = [min |-> min, std |-> min, max |-> MaxFee(min, r)]
  BY <1>2
<1> DEFINE min == MinFee(tx.price, r)
<1>4. PICK x \in Replacement(action, tx, min) :
         /\ plain' = Dump(x)
         /\ range' = [min |-> min, std |-> min, max |-> MaxFee(min, r)]
  BY <1>3
<1>5. r.min \in Nat /\ r.max \in Nat
  BY InputAssumption
<1>6. tx.price \in Nat
  BY <1>1, RepricedIsPriced
<1>7. min \in Nat /\ MaxFee(min, r) \in Nat
  <2>1. PICK n \in Nat : n = tx.price
    BY <1>6
  <2>2. (n * 11) \div 10 \in Nat
    OBVIOUS
  <2>3. min \in Nat
    BY <1>5, <2>1, <2>2 DEF MinFee, Larger
  <2>4. PICK k \in Nat : k = min
    BY <2>3
  <2>5. (k * 15) \div 10 \in Nat
    OBVIOUS
  <2>6. MaxFee(k, r) \in Nat
    BY <1>5, <2>5 DEF MaxFee, Larger
  <2> QED BY <2>4, <2>6
<1> HIDE DEF min
<1>8. /\ Sound(x) /\ Affordable(x) /\ x.kind = action /\ x.utxo[1] \in original'.inputs
  BY <1>1, <1>7, ReplacementFits
<1>9. /\ plain' \in Plains /\ Mirrors(plain', x) /\ plain'.kind = action /\ plain' # None
      /\ plain'.amount = x.amount
  BY <1>4, <1>8, DumpIsPlain, PlainIsNotNone DEF Sound
<1>10. Affordable(plain')
  BY <1>1, <1>8, <1>9 DEF Affordable, Mirrors
<1>11. Sound(screen') /\ Mirrors(plain', screen') /\ Affordable(screen')
  <2>1. screen' \in FromPlain(plain', TRUE)
    BY DEF Restore
  <2> QED BY <1>9, <1>10, <2>1, AnewFits
<1>12. screen'.kind = action /\ screen'.utxo[1] \in original'.inputs
  BY <1>8, <1>9, <1>11 DEF Mirrors
<1>13. Shapes'
  BY <1>1, <1>4, <1>7 DEF Shapes, Prices
<1>14. ScreenFits'
  BY <1>1, <1>11, <1>12 DEF ScreenFits, Replaces
<1>15. ScreenMirrors' /\ ToBeSigned' /\ WasSigned' /\ AtStandard'
  BY <1>1, <1>9, <1>11 DEF ScreenMirrors, ToBeSigned, WasSigned, AtStandard
<1> QED
  BY <1>13, <1>14, <1>15 DEF BitcoinInv, PageInv

(* It was not found.                                                       *)
LEMMA EmptyPageFits ==
  ASSUME BitcoinInv, NotRestored
  PROVE  BitcoinInv'
<1>1. /\ PageInv /\ Shapes /\ signed = None /\ stage = "preparing" /\ stage' = "setup"
      /\ action # "transfer" /\ plain = None /\ range' \in Prices
      /\ UNCHANGED <<action, refetched, useStdFee, plain, signed, original, outdated>>
  BY InputAssumption DEF BitcoinInv, PageInv, Shapes, NotRestored, Prices
<1>2. Sound(screen') /\ Affordable(screen') /\ screen'.kind = "transfer" /\ ~screen'.hasChange
  <2>1. screen' = InitTx(range', FALSE) /\ FALSE \in BOOLEAN
    BY DEF NotRestored
  <2>2. \A h \in BOOLEAN : LET x == InitTx(range', h)
         IN Sound(x) /\ Affordable(x) /\ x.kind = "transfer" /\ (x.hasChange <=> h)
    BY <1>1, InitTxIsSound DEF Prices
  <2> QED BY <2>1, <2>2
<1>3. Shapes'
  BY <1>1 DEF Shapes
<1>4. ScreenFits'
  BY <1>1, <1>2 DEF ScreenFits, Replaces
<1>5. ScreenMirrors' /\ ToBeSigned' /\ WasSigned' /\ AtStandard'
  BY <1>1, <1>2 DEF ScreenMirrors, ToBeSigned, WasSigned, AtStandard
<1> QED
  BY <1>3, <1>4, <1>5 DEF BitcoinInv, PageInv

(* The switch is turned off.                                               *)
LEMMA CustomFits ==
  ASSUME BitcoinInv, CustomFee
  PROVE  BitcoinInv'
<1>1. useStdFee' = FALSE
      /\ UNCHANGED <<action, stage, range, refetched, plain, screen, signed, original, outdated>>
  BY DEF CustomFee
<1>2. Shapes'
  BY <1>1 DEF BitcoinInv, PageInv, Shapes
<1>3. ScreenFits' /\ ScreenMirrors'
  BY <1>1 DEF BitcoinInv, PageInv, ScreenFits, ScreenMirrors, Replaces
<1>4. ToBeSigned' /\ WasSigned'
  BY <1>1 DEF BitcoinInv, PageInv, ToBeSigned, WasSigned, Replaces
<1> QED
  BY <1>1, <1>2, <1>3, <1>4 DEF BitcoinInv, PageInv, AtStandard

(* What is created was valid, and is valid again.                          *)
LEMMA CreatingFits ==
  ASSUME BitcoinInv, Create
  PROVE  BitcoinInv'
<1>1. /\ PageInv /\ AtStandard /\ Shapes /\ ScreenFits /\ signed = None
      /\ stage = "setup" /\ stage' = "sign" /\ Valid(screen) /\ plain' = Dump(screen)
      /\ screen' \in FromPlain(plain', screen.hasChange)
      /\ UNCHANGED <<action, range, refetched, useStdFee, signed, original, outdated>>
  BY DEF BitcoinInv, PageInv, Shapes, Create
<1>2. Sound(screen) /\ screen \in Objects /\ screen.hasChange \in BOOLEAN /\ Affordable(screen)
      /\ Replaces(screen) /\ screen.kind = action /\ screen.hasChange
  BY <1>1 DEF ScreenFits, Sound, Objects, Valid
<1>3. /\ plain' \in Plains /\ Mirrors(plain', screen) /\ plain' # None
      /\ plain'.amount = screen.amount
  BY <1>1, <1>2, DumpIsPlain, PlainIsNotNone
<1>4. Affordable(plain')
  BY <1>2, <1>3 DEF Affordable, Mirrors
<1>5. /\ Sound(screen') /\ Mirrors(plain', screen') /\ Affordable(screen')
      /\ plain'.kind = "transfer" => screen'.hasChange = screen.hasChange
  BY <1>1, <1>2, <1>3, <1>4, AnewFits
<1>6. Valid(screen')
  BY <1>1, <1>2, <1>3, <1>5, ValidAgain
<1>7. screen'.kind = action /\ Replaces(screen') /\ screen'.price = screen.price
  BY <1>2, <1>3, <1>5 DEF Mirrors, Replaces
<1>8. Shapes'
  BY <1>1 DEF Shapes
<1>9. ScreenFits'
  BY <1>1, <1>5, <1>7 DEF ScreenFits, Replaces
<1>10. ScreenMirrors' /\ ToBeSigned' /\ WasSigned' /\ AtStandard'
  BY <1>1, <1>3, <1>5, <1>6, <1>7 DEF ScreenMirrors, ToBeSigned, WasSigned, AtStandard
<1> QED
  BY <1>8, <1>9, <1>10 DEF BitcoinInv, PageInv

(* What is signed was to be signed.                                        *)
LEMMA SigningFits ==
  ASSUME BitcoinInv, Sign
  PROVE  BitcoinInv'
<1>1. /\ PageInv /\ AtStandard /\ Shapes /\ ScreenFits /\ ScreenMirrors /\ ToBeSigned
      /\ stage = "sign" /\ stage' = "broadcast" /\ signed' = screen
      /\ screen' \in FromPlain(plain, screen.hasChange)
      /\ UNCHANGED <<action, range, refetched, useStdFee, plain, original, outdated>>
  BY DEF BitcoinInv, PageInv, Sign
<1>2. plain # None /\ Valid(screen) /\ screen.hasChange
  BY <1>1 DEF ToBeSigned, Valid
<1>3. Sound(screen) /\ Affordable(screen) /\ Replaces(screen) /\ screen.kind = action
      /\ screen.hasChange \in BOOLEAN /\ plain \in Plains /\ Mirrors(plain, screen)
  BY <1>1, <1>2 DEF ScreenFits, ScreenMirrors, Sound, Objects
<1>4. Affordable(plain)
  BY <1>3 DEF Affordable, Mirrors, Sound
<1>5. Sound(screen') /\ Mirrors(plain, screen') /\ Affordable(screen')
  BY <1>1, <1>3, <1>4, AnewFits
<1>6. screen'.kind = action /\ Replaces(screen') /\ screen'.price = screen.price
  BY <1>3, <1>5 DEF Mirrors, Replaces
<1>7. Shapes'
  BY <1>1 DEF Shapes
<1>8. ScreenFits'
  BY <1>1, <1>5, <1>6 DEF ScreenFits, Replaces
<1>9. ScreenMirrors' /\ ToBeSigned'
  BY <1>1, <1>2, <1>3, <1>5 DEF ScreenMirrors, ToBeSigned
<1>10. WasSigned' /\ AtStandard'
  BY <1>1, <1>2, <1>3, <1>6 DEF WasSigned, AtStandard, Replaces
<1> QED
  BY <1>7, <1>8, <1>9, <1>10 DEF BitcoinInv, PageInv

(* A change of the store alone.                                            *)
LEMMA RerenderingFits ==
  ASSUME BitcoinInv, Rerender
  PROVE  BitcoinInv'
<1>1. /\ PageInv /\ AtStandard /\ Shapes /\ ScreenFits /\ ScreenMirrors /\ ToBeSigned /\ WasSigned
      /\ stage # "preparing" /\ screen' \in Screens(plain, range, screen.hasChange)
      /\ UNCHANGED <<action, stage, range, refetched, useStdFee, plain, signed, original, outdated>>
  BY DEF BitcoinInv, PageInv, Rerender
<1>2. screen.hasChange \in BOOLEAN /\ range \in Prices /\ Sound(screen)
  BY <1>1 DEF ScreenFits, Shapes, Sound, Objects
<1>3. /\ Sound(screen') /\ Affordable(screen') /\ Replaces(screen') /\ screen'.kind = screen.kind
      /\ IF plain = None THEN screen'.kind = "transfer" /\ screen'.hasChange = screen.hasChange
         ELSE plain \in Plains /\ Mirrors(plain, screen') /\ Mirrors(plain, screen)
              /\ (plain.kind = "transfer" => screen'.hasChange = screen.hasChange)
      /\ screen'.kind = "transfer" => (screen'.hasChange <=> screen.hasChange)
      /\ IF plain = None THEN screen'.price = range.std ELSE screen'.price = screen.price
  BY <1>1, <1>2, ScreensFit
<1>4. Shapes'
  BY <1>1 DEF Shapes
<1>5. ScreenFits'
  BY <1>1, <1>3 DEF ScreenFits, Replaces
<1>6. ScreenMirrors'
  BY <1>1, <1>3 DEF ScreenMirrors
<1>7. ToBeSigned'
  <2> SUFFICES ASSUME stage = "sign" PROVE plain # None /\ Valid(screen')
    BY <1>1 DEF ToBeSigned
  <2>1. plain # None /\ Valid(screen)
    BY <1>1 DEF ToBeSigned
  <2> QED BY <1>2, <1>3, <2>1, ValidAgain
<1>8. WasSigned'
  BY <1>1 DEF WasSigned, Replaces
<1>9. AtStandard'
  BY <1>1, <1>3 DEF AtStandard
<1> QED
  BY <1>4, <1>5, <1>6, <1>7, <1>8, <1>9 DEF BitcoinInv, PageInv

-----------------------------------------------------------------------------
(* Every step keeps the invariant.                                         *)
LEMMA BitcoinStep == BitcoinInv /\ [Next]_vars => BitcoinInv'
<1> SUFFICES ASSUME BitcoinInv, [Next]_vars PROVE BitcoinInv'
  OBVIOUS
<1>1. CASE FeeArrives
  BY <1>1, FeesFit
<1>2. CASE Restore
  BY <1>2, RestoringFits
<1>3. CASE NotRestored
  BY <1>3, EmptyPageFits
<1>4. CASE EnterTo \/ EnterAmount \/ SendAll \/ ChooseOrder
  BY <1>4, EditingFits
<1>5. CASE SlideFee \/ StandardFee
  BY <1>5, PricingFits
<1>6. CASE CustomFee
  BY <1>6, CustomFits
<1>7. CASE Create
  BY <1>7, CreatingFits
<1>8. CASE Sign
  BY <1>8, SigningFits
<1>9. CASE Rerender
  BY <1>9, RerenderingFits
<1>10. CASE UNCHANGED vars
  <2>1. Shapes'
    BY <1>10 DEF BitcoinInv, PageInv, Shapes, vars
  <2>2. ScreenFits' /\ ScreenMirrors'
    BY <1>10 DEF BitcoinInv, PageInv, ScreenFits, ScreenMirrors, Replaces, vars
  <2>3. ToBeSigned' /\ WasSigned' /\ AtStandard'
    BY <1>10 DEF BitcoinInv, PageInv, ToBeSigned, WasSigned, AtStandard, Replaces, vars
  <2> QED BY <2>1, <2>2, <2>3 DEF BitcoinInv, PageInv
<1> QED
  BY <1>1, <1>2, <1>3, <1>4, <1>5, <1>6, <1>7, <1>8, <1>9, <1>10 DEF Next

(* The pages keep the invariant, whatever is edited and in whatever order  *)
(* the changes of the store come.                                          *)
THEOREM BitcoinInvariant == Spec => []BitcoinInv
<1>1. Init => BitcoinInv
  BY PageStarts
<1> QED
  BY <1>1, BitcoinStep, PTL DEF Spec

(* The object on the screen keeps its types, it takes an unspent output of *)
(* the entry at most once, and what was signed was valid.                  *)
THEOREM BitcoinTypes == Spec => []TypeOK
<1>1. BitcoinInv => TypeOK
  <2> SUFFICES ASSUME BitcoinInv PROVE TypeOK
    OBVIOUS
  <2>1. Shapes /\ Sound(screen) /\ WasSigned
    BY DEF BitcoinInv, PageInv, ScreenFits
  <2>2. screen.change \in Nat /\ screen.amount \in Nat /\ screen.price \in Nat
        /\ screen.from \in Picked
    BY <2>1 DEF Sound, Objects
  <2>3. ToSet(screen.from) \subseteq ToSet(Wallet) /\ IsInjective(screen.from)
    BY <2>2 DEF Picked, Spendable, ToSet
  <2> QED BY <2>1, <2>2, <2>3 DEF TypeOK, Shapes, WasSigned
<1> QED
  BY <1>1, BitcoinInvariant, PTL

(* What is handed to the vault adds up: the fee it names is what its       *)
(* inputs leave over its outputs, also when the fee of a modification is   *)
(* raised to that of the transaction it replaces.                          *)
THEOREM SignedAddsUp == Spec => []SignedBalances
<1>1. BitcoinInv => SignedBalances
  BY PaysFees DEF BitcoinInv, PageInv, WasSigned, SignedBalances, Build
<1> QED
  BY <1>1, BitcoinInvariant, PTL

(* It pays the price shown for its own size, unless all outputs are spent. *)
THEOREM SignedPaysItsPrice == Spec => []PaysItsPrice
<1>1. BitcoinInv => PaysItsPrice
  BY PaysFees DEF BitcoinInv, PageInv, WasSigned, PaysItsPrice
<1> QED
  BY <1>1, BitcoinInvariant, PTL

(* It spends no input needlessly.                                          *)
THEOREM SpendsNoMore == Spec => []NoNeedlessInput
<1>1. BitcoinInv => NoNeedlessInput
  BY NeedsItsInputs DEF BitcoinInv, PageInv, WasSigned, NoNeedlessInput
<1> QED
  BY <1>1, BitcoinInvariant, PTL

(* While the switch says so, it pays the standard fee.                     *)
THEOREM SignedAtStandard == Spec => []StandardUnlessOutdated
<1>1. BitcoinInv => StandardUnlessOutdated
  BY DEF BitcoinInv, AtStandard, StandardUnlessOutdated
<1> QED
  BY <1>1, BitcoinInvariant, PTL

(* A replacement spends an output of what it replaces.                     *)
THEOREM ReplacementsConflict == Spec => []ReplacementConflicts
<1>1. BitcoinInv => ReplacementConflicts
  <2> SUFFICES ASSUME BitcoinInv, signed # None, action # "transfer"
               PROVE  ToSet(signed.from) \cap original.inputs # {}
    BY DEF ReplacementConflicts
  <2>1. Sound(signed) /\ Valid(signed) /\ Replaces(signed) /\ signed.kind # "transfer"
    BY DEF BitcoinInv, PageInv, WasSigned
  <2>2. signed.utxo[1] \in ToSet(signed.from)
    BY <2>1, TakesTheFirst
  <2> QED BY <2>1, <2>2 DEF Replaces
<1> QED
  BY <1>1, BitcoinInvariant, PTL

-----------------------------------------------------------------------------
(* The price a fee comes to at a weight, raised by a tenth; and the cost   *)
(* of a weight at a price.                                                 *)
RaisedPrice(fee, w) == (((fee * 4096) \div w) * 11) \div 10
CostAt(price, w) == (price * w) \div 4096

(* A fee that is no pittance, turned into a price, raised by a tenth and   *)
(* turned into a fee again, comes out above itself.                        *)
LEMMA RaisedByATenth ==
  ASSUME NEW fee \in Nat, NEW w \in Nat, w > 0, 200 * (fee - 10) >= w, NEW price \in Nat,
         price >= RaisedPrice(fee, w)
  PROVE  CostAt(price, w) > fee
<1> DEFINE p == (fee * 4096) \div w
           m == (p * 11) \div 10
<1>1. p \in Nat /\ fee * 4096 < p * w + w
  <2>1. PICK a \in Nat : a = fee * 4096
    OBVIOUS
  <2>2. a \div w \in Nat /\ a < w * (a \div w) + w
    BY <2>1
  <2>3. PICK d \in Nat : d = a \div w
    BY <2>2
  <2>4. w * d = d * w /\ d * w \in Nat
    BY <2>3
  <2>5. a < d * w + w
    BY <2>2, <2>3, <2>4
  <2>6. p = d
    BY <2>1, <2>3
  <2> QED BY <2>1, <2>4, <2>5, <2>6
<1> HIDE DEF p
<1>2. m \in Nat /\ 10 * m >= 11 * p - 9
  <2>1. PICK d \in Nat : d = p
    BY <1>1
  <2>2. (d * 11) \div 10 \in Nat /\ 10 * ((d * 11) \div 10) >= 11 * d - 9
    OBVIOUS
  <2> QED BY <2>1, <2>2
<1>3. price >= m
  BY DEF RaisedPrice, p
<1> HIDE DEF m
<1>4. price * w >= m * w /\ price * w \in Nat /\ m * w \in Nat /\ p * w \in Nat
  <2>1. PICK d \in Nat : price = m + d
    <3>1. price - m \in Nat /\ price = m + (price - m)
      BY <1>2, <1>3
    <3> QED BY <3>1
  <2>2. price * w = m * w + d * w
    BY <1>2, <2>1
  <2>3. d * w \in Nat /\ m * w \in Nat /\ p * w \in Nat
    BY <1>1, <1>2, <2>1
  <2> QED BY <2>2, <2>3
<1>5. 10 * (m * w) >= 11 * (p * w) - 9 * w
  <2>1. PICK d \in Nat : 10 * m = 11 * p - 9 + d
    <3>1. 10 * m - (11 * p - 9) \in Nat /\ 10 * m = 11 * p - 9 + (10 * m - (11 * p - 9))
      BY <1>1, <1>2
    <3> QED BY <3>1
  <2>2. (10 * m) * w = (11 * p - 9 + d) * w
    BY <2>1
  <2>3. (10 * m) * w = 10 * (m * w) /\ (11 * p - 9 + d) * w = 11 * (p * w) - 9 * w + d * w
    BY <1>1, <1>2, <2>1
  <2>4. d * w \in Nat
    BY <2>1
  <2> QED BY <1>4, <2>2, <2>3, <2>4
<1>6. price * w >= 4096 * (fee + 1)
  <2>1. PICK b \in Nat : b = m * w
    BY <1>4
  <2>2. PICK c \in Nat : c = p * w
    BY <1>4
  <2>3. 10 * b >= 11 * c - 9 * w /\ fee * 4096 < c + w
    BY <1>1, <1>5, <2>1, <2>2
  <2>4. b >= 4096 * (fee + 1)
    BY <2>3
  <2> QED BY <1>4, <2>1, <2>4
<1>7. PICK b \in Nat : b = price * w
  BY <1>4
<1>8. b \div 4096 > fee
  BY <1>6, <1>7
<1> QED
  BY <1>7, <1>8 DEF CostAt

(* At a higher price, and with more inputs, the fee is no smaller.         *)
LEMMA FeeRises ==
  ASSUME NEW p \in Nat, NEW q \in Nat, p <= q, NEW n \in Nat, NEW k \in Nat, n <= k, NEW m \in Nat
  PROVE  FeeAt(p, n, m) <= FeeAt(q, k, m)
<1> DEFINE w == Weight(n, m)
           v == Weight(k, m)
<1>1. w \in Nat /\ v \in Nat /\ w <= v
  BY DEF Weight
<1> HIDE DEF w, v
<1>2. p * w <= q * v /\ p * w \in Nat /\ q * v \in Nat
  <2>1. PICK d \in Nat : q = p + d
    <3>1. q - p \in Nat /\ q = p + (q - p)
      OBVIOUS
    <3> QED BY <3>1
  <2>2. PICK e \in Nat : v = w + e
    <3>1. v - w \in Nat /\ v = w + (v - w)
      BY <1>1
    <3> QED BY <3>1
  <2>3. q * v = p * w + p * e + d * v
    <3>1. q * v = p * v + d * v
      BY <1>1, <2>1
    <3>2. p * v = p * w + p * e
      BY <1>1, <2>2
    <3> QED BY <3>1, <3>2
  <2>4. p * w \in Nat /\ p * e \in Nat /\ d * v \in Nat
    BY <1>1, <2>1, <2>2
  <2> QED BY <2>3, <2>4
<1>3. (p * w) \div 4096 <= (q * v) \div 4096
  <2>1. PICK a \in Nat, b \in Nat : a = p * w /\ b = q * v /\ a <= b
    BY <1>2
  <2>2. a \div 4096 <= b \div 4096
    BY <2>1
  <2> QED BY <2>1, <2>2
<1> QED
  BY <1>3 DEF FeeAt, w, v

(* A longer start is worth no less, and what is left out is worth          *)
(* something.                                                              *)
LEMMA StartsGrow ==
  ASSUME NEW q \in Picked, NEW k \in 0 .. Len(q), NEW n \in 0 .. k
  PROVE  /\ Total(SubSeq(q, 1, n)) <= Total(SubSeq(q, 1, k))
         /\ Total(SubSeq(q, 1, n)) \in Nat /\ Total(SubSeq(q, 1, k)) \in Nat /\ Total(q) \in Nat
         /\ k < Len(q) => Total(SubSeq(q, 1, k)) < Total(q)
<1> DEFINE a == SubSeq(q, 1, n)
           b == SubSeq(q, 1, k)
<1>1. q \in Seq(Spendable) /\ Len(q) \in Nat /\ DOMAIN q = 1 .. Len(q) /\ IsInjective(q)
  BY DEF Picked
<1>2. n \in 0 .. Len(q) /\ k \in Nat /\ n \in Nat
  BY <1>1
<1>3. a \in Picked /\ Len(a) = n /\ \A i \in 1 .. n : a[i] = q[i]
  BY <1>2, Starting
<1>4. b \in Picked /\ Len(b) = k /\ \A i \in 1 .. k : b[i] = q[i]
  BY Starting
<1> HIDE DEF a, b
<1>5. Total(a) <= Total(b)
  <2>1. \A i \in 1 .. n : i \in 1 .. k
    BY <1>2
  <2>2. DOMAIN a = 1 .. n /\ DOMAIN b = 1 .. k
    BY <1>3, <1>4 DEF Picked
  <2>3. ToSet(a) \subseteq ToSet(b)
    BY <1>3, <1>4, <2>1, <2>2 DEF ToSet
  <2> QED BY <1>3, <1>4, <2>3, TotalOfMore DEF WorthMore
<1>6. Total(a) \in Nat /\ Total(b) \in Nat /\ Total(q) \in Nat
  BY <1>3, <1>4, Worth
<1>7. ASSUME k < Len(q) PROVE Total(b) < Total(q)
  <2> DEFINE c == SubSeq(q, 1, k + 1)
             u == q[k + 1]
  <2>1. k + 1 \in 0 .. Len(q) /\ k + 1 \in 1 .. Len(q)
    BY <1>1, <1>2, <1>7
  <2>2. u \in Spendable /\ b \in Seq(Spendable)
    BY <1>1, <1>4, <2>1 DEF Picked
  <2>3. c \in Picked /\ Len(c) = k + 1 /\ \A i \in 1 .. k + 1 : c[i] = q[i]
    BY <2>1, Starting
  <2> HIDE DEF c
  <2>4. c = Append(b, u)
    <3>1. /\ Append(b, u) \in Seq(Spendable) /\ Len(Append(b, u)) = k + 1
          /\ Append(b, u)[k + 1] = u /\ \A i \in 1 .. k : Append(b, u)[i] = b[i]
      BY <1>2, <1>4, <2>2
    <3>2. \A i \in 1 .. k + 1 : c[i] = Append(b, u)[i]
      <4> SUFFICES ASSUME NEW i \in 1 .. k + 1 PROVE c[i] = Append(b, u)[i]
        OBVIOUS
      <4>1. CASE i = k + 1
        BY <2>3, <3>1, <4>1
      <4>2. CASE i # k + 1
        <5>1. i \in 1 .. k
          BY <1>2, <4>2
        <5> QED BY <1>4, <2>3, <3>1, <5>1
      <4> QED BY <4>1, <4>2
    <3>3. c \in Seq(Spendable)
      BY <2>3 DEF Picked
    <3> QED BY <2>3, <3>1, <3>2, <3>3, SeqEqual
  <2>5. Total(c) = Total(b) + Value[u] /\ Value[u] \in Nat /\ Value[u] > 0
    <3>1. Total(c) = Total(b) + Value[u]
      BY <2>2, <2>4, TotalOfOneMore
    <3>2. Value[u] \in Nat \ {0}
      BY <2>2, WalletAssumption DEF Spendable
    <3> QED BY <3>1, <3>2
  <2>6. Total(c) <= Total(q)
    BY <2>1, Worth DEF c
  <2> QED BY <1>6, <2>5, <2>6
<1> QED
  BY <1>5, <1>6, <1>7 DEF a, b

(* What covers the amount with n inputs or more keeps more for the fee     *)
(* than what is outbid paid.                                               *)
LEMMA Outbidding ==
  ASSUME NEW u \in Objects, u.hasChange, NEW q \in Picked, NEW k \in 0 .. Len(q), NEW n \in 0 .. k,
         Covers(u, q, 1, k), NEW fee \in Nat, NEW m \in {1, 2},
         m = 2 => Total(SubSeq(q, 1, n)) > u.amount + fee,
         FeeAt(u.price, n, m) > fee \/ u.originalFees > fee
  PROVE  LET f == SubSeq(q, 1, k) IN Total(f) - u.amount - ChangeOf(u, f, 1) > fee
<1> DEFINE f == SubSeq(q, 1, k)
           kept == Total(f) - u.amount - ChangeOf(u, f, 1)
<1>1. Len(q) \in Nat /\ k \in Nat /\ n \in Nat /\ n <= k /\ u.amount \in Nat /\ u.price \in Nat
      /\ u.originalFees \in Nat
  BY DEF Picked, Objects
<1>2. f \in Picked /\ Len(f) = k
  BY Starting
<1>3. /\ Total(f) \in Nat /\ Total(SubSeq(q, 1, n)) \in Nat
      /\ Total(SubSeq(q, 1, n)) <= Total(f)
  BY StartsGrow
<1>4. \A a \in {1, 2} :
         /\ EstimateFeesFor(u, k, a) \in Nat
         /\ EstimateFeesFor(u, k, a) >= u.originalFees
         /\ EstimateFeesFor(u, k, a) >= FeeAt(u.price, k, a)
         /\ FeeAt(u.price, k, a) \in Nat /\ FeeAt(u.price, n, a) \in Nat
         /\ FeeAt(u.price, k, a) >= FeeAt(u.price, n, a)
  <2> SUFFICES ASSUME NEW a \in {1, 2}
               PROVE  /\ EstimateFeesFor(u, k, a) \in Nat
                      /\ EstimateFeesFor(u, k, a) >= u.originalFees
                      /\ EstimateFeesFor(u, k, a) >= FeeAt(u.price, k, a)
                      /\ FeeAt(u.price, k, a) \in Nat /\ FeeAt(u.price, n, a) \in Nat
                      /\ FeeAt(u.price, k, a) >= FeeAt(u.price, n, a)
    OBVIOUS
  <2>1. a \in Nat
    OBVIOUS
  <2>2. FeeAt(u.price, n, a) <= FeeAt(u.price, k, a)
    <3>1. u.price <= u.price
      BY <1>1
    <3> QED BY <1>1, <2>1, <3>1, FeeRises
  <2>3. FeeAt(u.price, k, a) \in Nat /\ FeeAt(u.price, n, a) \in Nat
    BY <1>1, <2>1, FeeGrows
  <2>4. /\ EstimateFeesFor(u, k, a) \in Nat
        /\ EstimateFeesFor(u, k, a) >= u.originalFees
        /\ EstimateFeesFor(u, k, a) >= FeeAt(u.price, k, a)
    BY <1>1, <2>1, EstimateGrows
  <2> QED BY <2>2, <2>3, <2>4
<1>5. ASSUME NEW a \in {1, 2}, m <= a PROVE EstimateFeesFor(u, k, a) > fee
  <2>1. CASE u.originalFees > fee
    BY <1>1, <1>4, <2>1
  <2>2. CASE FeeAt(u.price, n, m) > fee
    <3>1. FeeAt(u.price, n, m) <= FeeAt(u.price, n, a)
      <4>1. CASE m = a
        BY <1>4, <4>1
      <4>2. CASE m = 1 /\ a = 2
        <5>1. FeeAt(u.price, n, 1) <= FeeAt(u.price, n, 2)
          <6>1. \A b \in Nat : FeeAt(u.price, n, b) <= FeeAt(u.price, n, b + 1)
            BY <1>1, FeeGrows
          <6>2. 1 \in Nat /\ 1 + 1 = 2
            OBVIOUS
          <6> QED BY <6>1, <6>2
        <5>2. FeeAt(u.price, n, m) = FeeAt(u.price, n, 1)
              /\ FeeAt(u.price, n, a) = FeeAt(u.price, n, 2)
          BY <4>2, Zenon
        <5> QED BY <5>1, <5>2
      <4> QED BY <1>5, <4>1, <4>2
    <3>2. FeeAt(u.price, n, m) \in Nat
      BY <1>4
    <3> QED BY <1>4, <2>2, <3>1, <3>2
  <2> QED BY <2>1, <2>2
<1>6. Total(f) - EstimateFeesFor(u, k, 1) >= u.amount /\ k > 0
  BY DEF Covers
<1>7. f # <<>> /\ Total(f) >= u.amount
  <2>1. Len(<<>>) = 0
    OBVIOUS
  <2>2. f # <<>>
    BY <1>1, <1>2, <1>6, <2>1
  <2>3. EstimateFeesFor(u, k, 1) \in Nat
    BY <1>4
  <2> QED BY <1>1, <1>3, <1>6, <2>2, <2>3
<1>8. /\ ChangeOf(u, f, 1) \in Nat /\ kept \in Nat
      /\ ChangeOf(u, f, 1) = 0 => kept = Total(f) - u.amount
      /\ \/ kept = EstimateFeesFor(u, k, 2) /\ ChangeOf(u, f, 1) > 0
         \/ kept > EstimateFeesFor(u, k, 1) /\ ChangeOf(u, f, 1) = 0
         \/ Total(f) <= u.amount + EstimateFeesFor(u, k, 1) /\ ChangeOf(u, f, 1) = 0
  <2>1. 1 \in Nat /\ 1 + 1 = 2
    OBVIOUS
  <2>2. LET left == Total(f) - u.amount - ChangeOf(u, f, 1)
        IN /\ ChangeOf(u, f, 1) \in Nat /\ left \in Nat
           /\ ChangeOf(u, f, 1) = 0 => left = Total(f) - u.amount
           /\ \/ left = EstimateFeesFor(u, Len(f), 1 + 1) /\ ChangeOf(u, f, 1) > 0
              \/ left > EstimateFeesFor(u, Len(f), 1) /\ ChangeOf(u, f, 1) = 0
              \/ Total(f) <= u.amount + EstimateFeesFor(u, Len(f), 1)
                 /\ ChangeOf(u, f, 1) = 0
    <3> HIDE DEF f, kept
    <3> QED BY <1>2, <1>7, <2>1, ChangeLeavesFees
  <2> HIDE DEF f
  <2> QED BY <1>2, <2>1, <2>2
<1> HIDE DEF kept, f
<1>9. CASE ChangeOf(u, f, 1) > 0
  <2>1. kept = EstimateFeesFor(u, k, 2)
    BY <1>8, <1>9
  <2> QED BY <1>5, <2>1 DEF kept, f
<1>10. CASE ChangeOf(u, f, 1) = 0
  <2>1. kept = Total(f) - u.amount
    BY <1>8, <1>10
  <2>2. CASE m = 2
    <3>1. Total(f) > u.amount + fee
      BY <1>1, <1>3, <2>2
    <3>2. kept > fee
      BY <1>1, <1>3, <2>1, <3>1
    <3> QED BY <3>2 DEF kept, f
  <2>3. CASE m = 1
    <3>1. EstimateFeesFor(u, k, 1) > fee /\ EstimateFeesFor(u, k, 1) \in Nat
      BY <1>4, <1>5, <2>3
    <3>2. kept >= EstimateFeesFor(u, k, 1)
      BY <1>1, <1>3, <1>6, <2>1, <3>1
    <3>3. kept > fee
      BY <1>8, <3>1, <3>2
    <3> QED BY <3>3 DEF kept, f
  <2> QED BY <2>2, <2>3
<1> QED
  BY <1>8, <1>9, <1>10

(* What a transfer or a modification balanced by hand spends and keeps.    *)
LEMMA BalancedByHand ==
  ASSUME NEW x \in Objects, NEW q \in Offers, Balanced(x, q), x.target = "manual", x.amount # 0
  PROVE  \E n \in 0 .. Len(q) :
            /\ Shortest(x, q, Receivers(x), n) /\ x.from = SubSeq(q, 1, n)
            /\ x.change = ChangeOf(x, x.from, Receivers(x))
<1> DEFINE m == Receivers(x)
           from == Selected(x, q, m)
           change == ChangeOf(x, from, m)
<1>1. x = [x EXCEPT !.from = from, !.change = change]
  BY DEF Balanced, Rebalance, Receivers
<1> HIDE DEF from, change
<1>2. x.from = from /\ x.change = change
  BY <1>1 DEF Objects
<1>3. q \in Picked
  BY DEF Offers
<1>4. PICK n : Shortest(x, q, m, n) /\ from = SubSeq(q, 1, n)
  BY <1>3, Selecting DEF from
<1>5. n \in 0 .. Len(q)
  BY <1>4 DEF Shortest
<1>6. x.change = ChangeOf(x, x.from, m)
  BY <1>2 DEF change
<1> QED
  BY <1>2, <1>4, <1>5, <1>6

-----------------------------------------------------------------------------
(* What is restored is balanced over its outputs, at the default price.    *)
LEMMA RestoredIsBalanced ==
  ASSUME NEW o \in Originals, NEW x \in Restored(o)
  PROVE  /\ Found(o, x) /\ x.utxo \in Offers /\ Balanced(x, x.utxo) /\ x.price = DefaultPrice
         /\ x.to = Receiver /\ x.hasChange /\ o.amount \in Nat /\ o.amount # 0 /\ o.fee \in Nat
<1>1. PICK utxo \in Foremost(o) :
         x = SetTo(SetAmount(New("transfer", TRUE, utxo), utxo, o.amount), utxo, Receiver)
  BY DEF Restored, Foremost
<1>2. utxo \in Offers /\ o.amount \in Nat /\ o.fee \in Nat
  BY InputsComeFirst
<1>3. o.amount # 0
  BY DEF Originals
<1> DEFINE n == New("transfer", TRUE, utxo)
           a == SetAmount(n, utxo, o.amount)
<1>4. "transfer" \in TxKinds /\ TRUE \in BOOLEAN /\ Receiver \in Addresses
  BY DEF TxKinds, Addresses
<1>5. n \in Objects /\ n.utxo = utxo /\ n.hasChange /\ n.price = DefaultPrice
  <2>1. \A h \in BOOLEAN : New("transfer", h, utxo) \in Objects
    BY <1>2, <1>4, NewIsObject
  <2>2. n \in Objects
    BY <2>1
  <2> QED BY <2>2 DEF New
<1> HIDE DEF n
<1>6. a \in Objects /\ Like(n, a) /\ a.price = n.price
  BY <1>2, <1>5, SettingAmount
<1> HIDE DEF a
<1>7. x = SetTo(a, utxo, Receiver)
  BY <1>1 DEF a, n
<1>8. Like(a, x) /\ Balanced(x, utxo) /\ x.to = Receiver /\ x.price = a.price
  BY <1>2, <1>4, <1>6, <1>7, SettingTo
<1>9. x.utxo = utxo /\ x.hasChange /\ x.price = DefaultPrice
  BY <1>5, <1>6, <1>8 DEF Like
<1> QED
  BY <1>2, <1>3, <1>8, <1>9, RestoredIsFound

(* The least price of what replaces o.                                     *)
LeastPrice(o, found) == (EstimateVkbPrice(found, o.fee) * 11) \div 10

(* Judged rightly, what is restored has n inputs and m outputs, and at     *)
(* the least price or a higher one such a size costs more than was paid.   *)
Rated(o, found, n, m) ==
  /\ n = Cardinality(o.inputs) /\ n = Len(found.from)
  /\ m = 2 => Total(SubSeq(found.utxo, 1, n)) > o.amount + o.fee
  /\ \A price \in Nat : price >= LeastPrice(o, found) => FeeAt(price, n, m) > o.fee

(* A transaction whose size was judged rightly, and whose fee is no        *)
(* pittance, is restored so.                                               *)
LEMMA JudgedIsRated ==
  ASSUME NEW o \in Originals, NEW found \in Restored(o), Judged(o)
  PROVE  \E n \in 0 .. Len(found.utxo) : \E m \in {1, 2} :
            /\ Rated(o, found, n, m) /\ Shortest(found, found.utxo, 1, n)
<1>1. /\ Found(o, found) /\ found.utxo \in Offers /\ Balanced(found, found.utxo)
      /\ found.to = Receiver /\ o.amount \in Nat /\ o.amount # 0 /\ o.fee \in Nat
  BY RestoredIsBalanced
<1>2. found \in Objects /\ found.target = "manual" /\ found.amount = o.amount /\ Receivers(found) = 1
  BY <1>1 DEF Found, Receivers, Receiver, NoAddress
<1>3. PICK n \in 0 .. Len(found.utxo) :
         Shortest(found, found.utxo, 1, n) /\ found.from = SubSeq(found.utxo, 1, n)
  BY <1>1, <1>2, BalancedByHand
<1>4. found.utxo \in Picked
  BY <1>1 DEF Offers
<1>5. Len(found.from) = n /\ n \in Nat
  BY <1>3, <1>4, Starting DEF Picked
<1> DEFINE c == Cardinality(o.inputs)
           m == IF Total(SubSeq(found.utxo, 1, c)) > o.amount + o.fee THEN 2 ELSE 1
           w == Weight(c, m)
<1>6. Len(found.from) = c /\ Len(Outputs(found)) = m /\ 200 * (o.fee - 10) >= w
  BY DEF Judged
<1>7. m \in {1, 2} /\ c = n
  BY <1>5, <1>6
<1>8. w \in Nat /\ w > 0
  BY <1>5, <1>7 DEF Weight
<1>9. LeastPrice(o, found) = RaisedPrice(o.fee, w)
  BY <1>6 DEF LeastPrice, EstimateVkbPrice, RaisedPrice
<1>10. m = 2 => Total(SubSeq(found.utxo, 1, n)) > o.amount + o.fee
  BY <1>7
<1> HIDE DEF m, c
<1>11. ASSUME NEW price \in Nat, price >= LeastPrice(o, found)
       PROVE  FeeAt(price, n, m) > o.fee
  <2>1. CostAt(price, w) > o.fee
    <3> HIDE DEF w
    <3>1. price >= RaisedPrice(o.fee, w)
      BY <1>9, <1>11
    <3>2. price \in Nat /\ o.fee \in Nat /\ 200 * (o.fee - 10) >= w
      BY <1>1, <1>6, <1>11
    <3> QED BY <1>8, <3>1, <3>2, RaisedByATenth
  <2>2. FeeAt(price, n, m) = CostAt(price, w)
    BY <1>7 DEF FeeAt, CostAt
  <2> QED BY <2>1, <2>2
<1>12. Rated(o, found, n, m)
  BY <1>5, <1>7, <1>10, <1>11 DEF Rated, c
<1> QED
  BY <1>3, <1>7, <1>12

(* Above the default price, the fee the replacement pays at least is more  *)
(* than what was paid, or all there is.                                    *)
LEMMA LeastFeeOutbids ==
  ASSUME NEW o \in Originals, NEW found \in Restored(o), NEW tx \in Repriced(found, o.fee),
         NEW price \in Nat, price >= LeastPrice(o, found), price > DefaultPrice, Judged(o)
  PROVE  LET s == SetFeePrice(tx, tx.utxo, price)
         IN Fees(s) > o.fee \/ Fees(s) >= Total(found.utxo) - o.amount
<1> DEFINE s == SetFeePrice(tx, tx.utxo, price)
           q == found.utxo
<1>1. /\ Found(o, found) /\ q \in Offers /\ found.price = DefaultPrice /\ found.to = Receiver
      /\ o.amount \in Nat /\ o.amount # 0 /\ o.fee \in Nat
  BY RestoredIsBalanced
<1>2. Found(o, tx) /\ tx.utxo = q /\ tx.to = Receiver /\ tx.hasChange
  BY <1>1, RepricedIsPriced
<1>3. found \in Objects /\ found.amount = o.amount /\ found.originalFees = 0 /\ tx \in Objects
  BY <1>1, <1>2 DEF Found
<1>4. /\ s \in Objects /\ Balanced(s, q) /\ Like(tx, s) /\ s.target = "manual"
      /\ s.amount = o.amount /\ s.to = Receiver /\ s.price = price
  <2>1. tx.target = "manual" /\ tx.amount = o.amount /\ tx.utxo \in Offers
    BY <1>1, <1>2 DEF Found
  <2>2. /\ s \in Objects /\ Balanced(s, tx.utxo) /\ Like(tx, s) /\ s.target = tx.target
        /\ tx.target = "manual" => s.amount = tx.amount
        /\ s.to = tx.to /\ s.price = price
    BY <1>3, <2>1, SettingFeePrice
  <2> QED BY <1>2, <2>1, <2>2
<1> HIDE DEF s, q
<1>5. s.hasChange /\ s.originalFees = 0 /\ Receivers(s) = 1
  <2>1. s.hasChange
    BY <1>2, <1>4, Zenon DEF Like
  <2>2. s.originalFees = 0
    BY <1>2, <1>4 DEF Like, Found
  <2>3. Receivers(s) = 1
    BY <1>4 DEF Receivers, Receiver, NoAddress
  <2> QED BY <2>1, <2>2, <2>3
<1>6. PICK n \in 0 .. Len(q) : \E m \in {1, 2} :
         Rated(o, found, n, m) /\ Shortest(found, q, 1, n)
  BY JudgedIsRated DEF q
<1>7. PICK m \in {1, 2} : Rated(o, found, n, m) /\ Shortest(found, q, 1, n)
  BY <1>6
<1>8. PICK k \in 0 .. Len(q) :
         /\ Shortest(s, q, 1, k) /\ s.from = SubSeq(q, 1, k)
         /\ s.change = ChangeOf(s, s.from, 1)
  BY <1>1, <1>4, <1>5, BalancedByHand
<1>9. q \in Picked /\ Len(q) \in Nat /\ n \in Nat /\ k \in Nat
  BY <1>1 DEF Offers, Picked
\* The higher price takes as many inputs, or more.
<1>10. k >= n
  <2> SUFFICES ASSUME k < n PROVE FALSE
    BY <1>9
  <2>1. k \in 0 .. n - 1 /\ k # Len(q)
    BY <1>9
  <2>2. Covers(s, q, 1, k) /\ ~Covers(found, q, 1, k)
    BY <1>7, <1>8, <2>1 DEF Shortest
  <2>3. EstimateFeesFor(found, k, 1) <= EstimateFeesFor(s, k, 1)
    <3>1. 1 \in Nat /\ DefaultPrice \in Nat /\ k <= k /\ DefaultPrice <= price
      BY <1>9 DEF DefaultPrice
    <3>2. FeeAt(DefaultPrice, k, 1) <= FeeAt(price, k, 1)
      BY <1>9, <3>1, FeeRises
    <3>3. FeeAt(DefaultPrice, k, 1) \in Nat /\ FeeAt(price, k, 1) \in Nat
      BY <1>9, <3>1, FeeGrows
    <3>4. /\ EstimateFeesFor(found, k, 1) = Larger(0, FeeAt(DefaultPrice, k, 1))
          /\ EstimateFeesFor(s, k, 1) = Larger(0, FeeAt(price, k, 1))
      BY <1>1, <1>3, <1>4, <1>5 DEF EstimateFeesFor
    <3> QED BY <3>2, <3>3, <3>4 DEF Larger
  <2>4. EstimateFeesFor(found, k, 1) \in Nat /\ EstimateFeesFor(s, k, 1) \in Nat
    BY <1>3, <1>4, <1>9, EstimateGrows
  <2>5. Total(SubSeq(q, 1, k)) \in Nat
    BY <1>9, Worth
  <2> QED BY <1>1, <1>3, <1>4, <2>2, <2>3, <2>4, <2>5 DEF Covers
<1>11. n \in 0 .. k
  BY <1>9, <1>10
<1>12. s.from \in Picked /\ s.change \in Nat /\ Total(s.from) \in Nat
  BY <1>4, Worth DEF Objects
<1>13. CASE Covers(s, q, 1, k)
  <2>1. Total(s.from) - s.amount - s.change > o.fee
    <3>1. m = 2 => Total(SubSeq(q, 1, n)) > s.amount + o.fee
      BY <1>4, <1>7 DEF Rated, q
    <3>2. FeeAt(s.price, n, m) > o.fee
      BY <1>4, <1>7 DEF Rated
    <3>3. LET f == SubSeq(q, 1, k) IN Total(f) - s.amount - ChangeOf(s, f, 1) > o.fee
      BY <1>1, <1>4, <1>5, <1>9, <1>11, <1>13, <3>1, <3>2, Outbidding
    <3> QED BY <1>8, <3>3
  <2>2. Fees(s) > o.fee
    BY <1>1, <1>4, <1>5, <1>12, <2>1 DEF Fees, Larger
  <2> QED BY <2>2 DEF s
<1>14. CASE ~Covers(s, q, 1, k)
  <2>1. k = Len(q)
    BY <1>8, <1>14 DEF Shortest
  <2>2. s.from = q
    BY <1>8, <1>9, <2>1, Starting
  <2>3. s.change = 0
    <3>1. CASE k = 0
      <4>1. q = <<>>
        BY <1>9, <2>1, <3>1, Nothing DEF Picked
      <4>2. ~(s.amount + 0 < Total(s.from))
        BY <1>1, <1>4, <2>2, <4>1, TotalOfNothing
      <4> QED BY <1>8, <2>2, <4>1, <4>2 DEF ChangeOf
    <3>2. CASE k # 0
      <4>1. EstimateFeesFor(s, k, 1) \in Nat
        BY <1>4, <1>9, EstimateGrows
      <4>2. ~(s.amount + EstimateFeesFor(s, Len(s.from), 1) < Total(s.from))
        BY <1>1, <1>4, <1>8, <1>9, <1>12, <1>14, <2>1, <2>2, <3>2, <4>1 DEF Covers
      <4>3. s.from # <<>>
        <5>1. Len(<<>>) = 0
          OBVIOUS
        <5> QED BY <2>1, <2>2, <3>2, <5>1
      <4> QED BY <1>8, <4>2, <4>3 DEF ChangeOf
    <3> QED BY <3>1, <3>2
  <2>4. Fees(s) >= Total(q) - o.amount
    BY <1>1, <1>4, <1>5, <1>12, <2>2, <2>3 DEF Fees, Larger
  <2> QED BY <2>4 DEF s, q
<1> QED
  BY <1>13, <1>14

(* What an object or the stash keeps to outbid what it replaces.           *)
Outbids(o, found, x) ==
  /\ x.utxo = found.utxo /\ x.target = "manual" /\ x.amount = o.amount
  /\ x.price >= LeastPrice(o, found)
  /\ (Judged(o) /\ LeastPrice(o, found) > DefaultPrice) =>
        \/ x.originalFees > o.fee
        \/ x.originalFees >= Total(found.utxo) - o.amount

(* The replacement of a transaction keeps enough.                          *)
LEMMA ReplacementOutbids ==
  ASSUME NEW o \in Originals, NEW found \in Restored(o), NEW tx \in Repriced(found, o.fee),
         NEW r \in Ranges, NEW kind \in {"cancel", "speedup"},
         NEW x \in Replacement(kind, tx, MinFee(tx.price, r)),
         MinFee(tx.price, r) \in Nat
  PROVE  Outbids(o, found, x) /\ MinFee(tx.price, r) >= LeastPrice(o, found)
<1> DEFINE min == MinFee(tx.price, r)
<1>1. tx.price \in Nat /\ tx.price = EstimateVkbPrice(found, o.fee) /\ tx.utxo = found.utxo
  BY RepricedIsPriced
<1>2. LeastPrice(o, found) \in Nat /\ min >= LeastPrice(o, found)
  <2>1. PICK n \in Nat : n = tx.price
    BY <1>1
  <2>2. (n * 11) \div 10 \in Nat
    OBVIOUS
  <2>3. LeastPrice(o, found) = (n * 11) \div 10 /\ min = Larger(r.min, (n * 11) \div 10)
    BY <1>1, <2>1 DEF LeastPrice, MinFee
  <2>4. r.min \in Nat
    BY InputAssumption
  <2> QED BY <2>2, <2>3, <2>4 DEF Larger
<1> HIDE DEF min
<1>3. /\ x.utxo = tx.utxo /\ x.target = "manual" /\ x.amount = o.amount /\ x.price = min
      /\ x.originalFees = Fees(SetFeePrice(tx, tx.utxo, min))
  BY ReplacementFits DEF min
<1>4. ASSUME Judged(o), LeastPrice(o, found) > DefaultPrice
      PROVE  \/ x.originalFees > o.fee
             \/ x.originalFees >= Total(found.utxo) - o.amount
  <2>1. min \in Nat /\ min > DefaultPrice
    BY <1>2, <1>4 DEF min, DefaultPrice
  <2>2. LET s == SetFeePrice(tx, tx.utxo, min)
        IN Fees(s) > o.fee \/ Fees(s) >= Total(found.utxo) - o.amount
    BY <1>2, <1>4, <2>1, LeastFeeOutbids
  <2> QED BY <1>3, <2>2
<1> QED
  BY <1>1, <1>2, <1>3, <1>4 DEF Outbids, min

(* What outbids, and spends as many inputs, pays more or spends all.       *)
LEMMA OutbidPaysMore ==
  ASSUME NEW o \in Originals, NEW found \in Restored(o), NEW x, Sound(x), Valid(x),
         x.kind # "transfer", Outbids(o, found, x), Judged(o),
         Len(x.from) >= Cardinality(o.inputs)
  PROVE  Paid(x) > o.fee \/ Exhausted(x)
<1> DEFINE q == found.utxo
           u == Unpriced(x)
<1> SUFFICES ASSUME ~Exhausted(x) PROVE Paid(x) > o.fee
  OBVIOUS
<1>1. /\ q \in Offers /\ o.amount \in Nat /\ o.amount # 0 /\ o.fee \in Nat
  BY RestoredIsBalanced
<1>2. /\ x \in Objects /\ Settled(x) /\ x.hasChange /\ x.to # NoAddress
      /\ x.utxo = q /\ x.target = "manual" /\ x.amount = o.amount
      /\ x.price >= LeastPrice(o, found) /\ x.kind \in {"cancel", "speedup"}
  BY DEF Sound, Valid, Outbids, Objects, TxKinds
<1>3. /\ u \in Objects /\ Like(x, u) /\ u.amount = x.amount
  BY <1>2, UnpricedIsObject
<1>4. /\ u.hasChange /\ u.originalFees = x.originalFees /\ Receivers(x) = 1
  BY <1>2, <1>3 DEF Like, Receivers
<1>5. u.price = IF x.kind = "speedup" THEN DefaultPrice ELSE x.price
  BY <1>2 DEF Unpriced, Objects
<1> HIDE DEF u, q
<1>6. PICK k \in 0 .. Len(q) :
         /\ Shortest(u, q, 1, k) /\ x.from = SubSeq(q, 1, k)
         /\ x.change = ChangeOf(u, x.from, 1)
  <2>1. \E p \in Offers : \E n \in 0 .. Len(p) :
          /\ Shortest(Unpriced(x), p, Receivers(x), n) /\ x.from = SubSeq(p, 1, n)
          /\ x.change = ChangeOf(Unpriced(x), x.from, Receivers(x))
          /\ x.kind # "transfer" => p = x.utxo
    BY <1>1, <1>2, ChosenByHand
  <2> QED BY <1>2, <1>4, <2>1 DEF u
<1>7. PICK n \in 0 .. Len(q), m \in {1, 2} : Rated(o, found, n, m)
  BY JudgedIsRated DEF q
<1>8. q \in Picked /\ Len(q) \in Nat /\ n \in Nat /\ k \in Nat
  BY <1>1 DEF Offers, Picked
<1>9. Len(x.from) = k
  BY <1>6, <1>8, Starting
<1>10. k < Len(q) /\ n \in 0 .. k
  <2>1. k # Len(q) /\ k >= n
    BY <1>2, <1>7, <1>9 DEF Exhausted, Rated
  <2> QED BY <1>8, <2>1
<1>11. Covers(u, q, 1, k)
  BY <1>6, <1>10 DEF Shortest
<1>12. m = 2 => Total(SubSeq(q, 1, n)) > u.amount + o.fee
  BY <1>2, <1>3, <1>7 DEF Rated, q
<1>13. FeeAt(u.price, n, m) > o.fee \/ u.originalFees > o.fee
  <2>1. x.price \in Nat /\ DefaultPrice \in Nat
    BY <1>2 DEF Objects, DefaultPrice
  <2>2. CASE u.price >= LeastPrice(o, found)
    BY <1>5, <1>7, <2>1, <2>2 DEF Rated
  <2>3. CASE ~(u.price >= LeastPrice(o, found))
    <3>1. u.price = DefaultPrice
      BY <1>2, <1>5, <2>3
    <3>2. LeastPrice(o, found) > DefaultPrice
      <4>1. LeastPrice(o, found) \in Int
        <5>1. EstimateVkbPrice(found, o.fee) \in Nat
          BY EstimateIsNumber
        <5>2. PICK e \in Nat : e = EstimateVkbPrice(found, o.fee)
          BY <5>1
        <5>3. (e * 11) \div 10 \in Int
          OBVIOUS
        <5> QED BY <5>2, <5>3 DEF LeastPrice
      <4> QED BY <2>1, <2>3, <3>1, <4>1
    <3>3. \/ u.originalFees > o.fee
          \/ u.originalFees >= Total(q) - o.amount
      BY <1>4, <3>2 DEF Outbids, q
    \* All there is would have to be spent.
    <3>4. ~(u.originalFees >= Total(q) - o.amount)
      <4>1. /\ Total(SubSeq(q, 1, k)) \in Nat /\ Total(q) \in Nat
            /\ Total(SubSeq(q, 1, k)) < Total(q)
        BY <1>8, <1>10, StartsGrow
      <4>2. EstimateFeesFor(u, k, 1) >= u.originalFees /\ EstimateFeesFor(u, k, 1) \in Nat
            /\ u.originalFees \in Nat
        BY <1>3, <1>8, EstimateGrows DEF Objects
      <4>3. Total(SubSeq(q, 1, k)) - EstimateFeesFor(u, k, 1) >= o.amount
        BY <1>2, <1>3, <1>11 DEF Covers
      <4> QED BY <1>1, <4>1, <4>2, <4>3
    <3> QED BY <3>3, <3>4
  <2> QED BY <2>2, <2>3
<1>14. Total(x.from) - x.amount - x.change > o.fee
  <2>1. LET f == SubSeq(q, 1, k) IN Total(f) - u.amount - ChangeOf(u, f, 1) > o.fee
    BY <1>1, <1>3, <1>4, <1>8, <1>10, <1>11, <1>12, <1>13, Outbidding
  <2> QED BY <1>3, <1>6, <2>1
<1>15. Paid(x) = Total(x.from) - x.amount - x.change
  <2>1. SumOf(Outputs(x)) = x.amount + x.change
    BY <1>2, OutputsAddUp
  <2>2. Total(x.from) \in Nat /\ x.amount \in Nat /\ x.change \in Nat
    BY <1>2, Worth DEF Objects
  <2> QED BY <2>1, <2>2 DEF Paid
<1> QED
  BY <1>14, <1>15

(* What keeps a replacement above what it replaces, in every state of the  *)
(* page: the object that is shown and the one that was signed outbid it,   *)
(* and no price that can be chosen is below the least.                     *)
Outbidden ==
  screen.kind # "transfer" =>
    /\ original \in Originals
    /\ \E found \in Restored(original) :
         /\ Outbids(original, found, screen)
         /\ \A p \in {range.min, range.std, range.max} : p >= LeastPrice(original, found)
         /\ signed # None => Outbids(original, found, signed)

SignedIsShown == signed # None => signed.kind = screen.kind

RaisedInv == Outbidden /\ SignedIsShown

(* Two objects that show the same stash outbid the same.                   *)
LEMMA MirrorsOutbid ==
  ASSUME NEW p, NEW x, NEW y, Mirrors(p, x), Mirrors(p, y), x.kind # "transfer"
  PROVE  /\ y.kind = x.kind
         /\ \A o, found : Outbids(o, found, x) => Outbids(o, found, y)
<1>1. /\ y.kind = x.kind /\ y.utxo = x.utxo /\ y.target = x.target /\ y.price = x.price
      /\ y.originalFees = x.originalFees /\ (x.target = "manual" => y.amount = x.amount)
  BY DEF Mirrors
<1> QED
  BY <1>1 DEF Outbids

(* Made anew from the same stash, the object still outbids.                *)
LEMMA AnewRaised ==
  ASSUME BitcoinInv, BitcoinInv', RaisedInv, UNCHANGED <<plain, original>>,
         screen'.kind # "transfer" => range' = range,
         signed' = signed \/ signed' = screen
  PROVE  RaisedInv'
<1>1. ScreenMirrors /\ ScreenMirrors'
  BY DEF BitcoinInv, PageInv
<1>2. CASE plain = None
  <2>1. screen.kind = "transfer" /\ screen'.kind = "transfer"
    BY <1>1, <1>2 DEF ScreenMirrors
  <2> QED BY <2>1 DEF RaisedInv, Outbidden, SignedIsShown
<1>3. CASE plain # None
  <2>1. Mirrors(plain, screen) /\ Mirrors(plain, screen')
    BY <1>1, <1>3 DEF ScreenMirrors
  <2>2. screen'.kind = screen.kind
    BY <2>1 DEF Mirrors
  <2>3. SignedIsShown'
    BY <2>2 DEF RaisedInv, SignedIsShown
  <2>4. Outbidden'
    <3> SUFFICES ASSUME screen'.kind # "transfer" PROVE Outbidden'
      BY DEF Outbidden
    <3>1. original \in Originals /\ range' = range
      BY <2>2 DEF RaisedInv, Outbidden
    <3>2. PICK found \in Restored(original) :
             /\ Outbids(original, found, screen)
             /\ \A p \in {range.min, range.std, range.max} : p >= LeastPrice(original, found)
             /\ signed # None => Outbids(original, found, signed)
      BY <2>2 DEF RaisedInv, Outbidden
    <3>3. Outbids(original, found, screen')
      BY <2>1, <2>2, <3>2, MirrorsOutbid
    <3>4. signed' # None => Outbids(original, found, signed')
      BY <3>2
    <3> QED BY <3>1, <3>2, <3>3, <3>4 DEF Outbidden
  <2> QED BY <2>3, <2>4 DEF RaisedInv
<1> QED
  BY <1>2, <1>3

(* So it does after an edit that chooses a price that can be chosen.       *)
LEMMA EditRaised ==
  ASSUME BitcoinInv, BitcoinInv', RaisedInv, NEW tx \in Objects, Edit(tx), Like(screen, tx),
         signed = None,
         screen.kind # "transfer" =>
           /\ tx.target = screen.target /\ (screen.target = "manual" => tx.amount = screen.amount)
           /\ tx.price \in {screen.price, range.min, range.std, range.max}
  PROVE  RaisedInv'
<1>1. /\ plain' = Dump(tx)
      /\ UNCHANGED <<action, stage, range, refetched, signed, original>>
  BY DEF Edit
<1>2. Dump(tx) \in Plains /\ Mirrors(Dump(tx), tx)
  BY DumpIsPlain
<1>3. Mirrors(Dump(tx), screen')
  <2>1. ScreenMirrors'
    BY DEF BitcoinInv, PageInv
  <2>2. plain' # None
    BY <1>1, <1>2, PlainIsNotNone
  <2> QED BY <1>1, <2>1, <2>2 DEF ScreenMirrors
<1>4. screen'.kind = screen.kind /\ tx.kind = screen.kind
  BY <1>2, <1>3 DEF Mirrors, Like
<1>5. SignedIsShown'
  BY <1>1 DEF SignedIsShown
<1>6. Outbidden'
  <2> SUFFICES ASSUME screen'.kind # "transfer" PROVE Outbidden'
    BY DEF Outbidden
  <2>1. original \in Originals
    BY <1>4 DEF RaisedInv, Outbidden
  <2>2. PICK found \in Restored(original) :
           /\ Outbids(original, found, screen)
           /\ \A p \in {range.min, range.std, range.max} : p >= LeastPrice(original, found)
    BY <1>4 DEF RaisedInv, Outbidden
  <2>3. Outbids(original, found, tx)
    <3>1. tx.price >= LeastPrice(original, found)
      BY <1>4, <2>2 DEF Outbids
    <3>2. /\ tx.utxo = screen.utxo /\ tx.target = "manual" /\ tx.amount = screen.amount
          /\ tx.originalFees = screen.originalFees
      BY <1>4, <2>2 DEF Outbids, Like
    <3> QED BY <2>2, <3>1, <3>2 DEF Outbids
  <2>4. Outbids(original, found, screen')
    BY <1>2, <1>3, <1>4, <2>3, MirrorsOutbid
  <2> QED BY <1>1, <2>1, <2>2, <2>4 DEF Outbidden
<1> QED
  BY <1>5, <1>6 DEF RaisedInv

(* The receiver and the amount are those of a transfer; the order and the  *)
(* price can be chosen for a replacement, too.                             *)
LEMMA EditsRaised ==
  ASSUME BitcoinInv, BitcoinInv', RaisedInv,
         EnterTo \/ EnterAmount \/ SendAll \/ ChooseOrder \/ SlideFee \/ StandardFee
  PROVE  RaisedInv'
<1>1. /\ screen \in Objects /\ screen.utxo \in Offers /\ screen.order \in Orders
      /\ range.min \in Nat /\ range.std \in Nat /\ range.max \in Nat
  BY DEF BitcoinInv, PageInv, Shapes, ScreenFits, Sound, Objects, Prices
<1>2. signed = None
  BY DEF BitcoinInv, PageInv, Shapes, EnterTo, EnterAmount, SendAll, ChooseOrder, SlideFee,
         StandardFee, Editable
<1>3. CASE EnterTo
  <2>1. screen.kind = "transfer"
    BY <1>3 DEF EnterTo, IsTransfer
  <2>2. PICK to \in Addresses, q \in Queues(screen.order, screen.utxo) : Edit(SetTo(screen, q, to))
    BY <1>3 DEF EnterTo
  <2>3. SetTo(screen, q, to) \in Objects /\ Like(screen, SetTo(screen, q, to))
    BY <1>1, QueueIsOffer, SettingTo
  <2> QED BY <1>2, <2>1, <2>2, <2>3, EditRaised
<1>4. CASE EnterAmount
  <2>1. screen.kind = "transfer"
    BY <1>4 DEF EnterAmount, IsTransfer
  <2>2. PICK amount \in Amounts, q \in Queues(screen.order, screen.utxo) :
           Edit(SetAmount(SetTarget(screen, q, "manual"), q, amount))
    BY <1>4 DEF EnterAmount
  <2> DEFINE t == SetTarget(screen, q, "manual")
             tx == SetAmount(t, q, amount)
  <2>3. q \in Offers /\ amount \in Nat
    BY <1>1, QueueIsOffer, InputAssumption
  <2>4. t \in Objects /\ Like(screen, t)
    BY <1>1, <2>3, SettingTarget
  <2>5. tx \in Objects /\ Like(t, tx)
    <3> HIDE DEF t
    <3> QED BY <2>3, <2>4, SettingAmount
  <2>6. Like(screen, tx)
    BY <2>4, <2>5 DEF Like
  <2>7. Edit(tx)
    BY <2>2
  <2> HIDE DEF tx
  <2> QED BY <1>2, <2>1, <2>5, <2>6, <2>7, EditRaised
<1>5. CASE SendAll
  <2>1. screen.kind = "transfer" /\ Edit(SetTarget(screen, screen.utxo, "all"))
    BY <1>5 DEF SendAll, IsTransfer
  <2>2. LET tx == SetTarget(screen, screen.utxo, "all") IN tx \in Objects /\ Like(screen, tx)
    BY <1>1, SettingTarget
  <2> QED BY <1>2, <2>1, <2>2, EditRaised
<1>6. CASE ChooseOrder
  <2>1. PICK order \in Orders : \E q \in Queues(order, screen.utxo) : Edit(SetOrder(screen, q, order))
    BY <1>6 DEF ChooseOrder
  <2>2. PICK q \in Queues(order, screen.utxo) : Edit(SetOrder(screen, q, order))
    BY <2>1
  <2> DEFINE tx == SetOrder(screen, q, order)
  <2>3. /\ tx \in Objects /\ Like(screen, tx) /\ tx.price = screen.price
        /\ tx.target = screen.target /\ (screen.target = "manual" => tx.amount = screen.amount)
    BY <1>1, QueueIsOffer, SettingOrder
  <2>4. Edit(tx)
    BY <2>2
  <2> HIDE DEF tx
  <2> QED BY <1>2, <2>3, <2>4, EditRaised
<1>7. CASE SlideFee \/ StandardFee
  <2>1. PICK price \in {range.min, range.std, range.max}, q \in Queues(screen.order, screen.utxo) :
           Edit(SetFeePrice(screen, q, price))
    BY <1>7 DEF SlideFee, StandardFee
  <2> DEFINE tx == SetFeePrice(screen, q, price)
  <2>2. price \in Nat
    BY <1>1
  <2>3. /\ tx \in Objects /\ Like(screen, tx) /\ tx.price = price
        /\ tx.target = screen.target /\ (screen.target = "manual" => tx.amount = screen.amount)
    BY <1>1, <2>2, QueueIsOffer, SettingFeePrice
  <2>4. Edit(tx)
    BY <2>1
  <2> HIDE DEF tx
  <2> QED BY <1>2, <2>3, <2>4, EditRaised
<1> QED
  BY <1>3, <1>4, <1>5, <1>6, <1>7

(* The page of a transaction that was found outbids it from the start.     *)
LEMMA RestoringRaised ==
  ASSUME BitcoinInv, BitcoinInv', Restore
  PROVE  RaisedInv'
<1>1. /\ signed = None /\ action \in {"cancel", "speedup"} /\ original' \in Originals
      /\ UNCHANGED <<action, refetched, useStdFee, signed, outdated>>
  BY InputAssumption DEF BitcoinInv, PageInv, Shapes, Restore
<1>2. PICK r \in Ranges, found \in Restored(original') :
         \E tx \in Repriced(found, original'.fee) :
         \E min \in {MinFee(tx.price, r)} :
         \E replacement \in Replacement(action, tx, min) :
            /\ plain' = Dump(replacement)
            /\ range' = [min |-> min, std |-> min, max |-> MaxFee(min, r)]
  BY DEF Restore
<1>3. PICK tx \in Repriced(found, original'.fee) :
         \E min \in {MinFee(tx.price, r)} :
         \E replacement \in Replacement(action, tx, min) :
            /\ plain' = Dump(replacement)
            /\ range' = [min |-> min, std |-> min, max |-> MaxFee(min, r)]
  BY <1>2
<1> DEFINE min == MinFee(tx.price, r)
<1>4. PICK x \in Replacement(action, tx, min) :
         /\ plain' = Dump(x)
         /\ range' = [min |-> min, std |-> min, max |-> MaxFee(min, r)]
  BY <1>3
<1>5. min \in Nat /\ MaxFee(min, r) \in Nat /\ min <= MaxFee(min, r)
  <2>1. range' \in Prices
    BY DEF BitcoinInv, PageInv, Shapes
  <2>2. min \in Nat /\ MaxFee(min, r) \in Nat
    <3> HIDE DEF min
    <3> QED BY <1>4, <2>1 DEF Prices
  <2> HIDE DEF min
  <2>3. PICK k \in Nat : k = min
    BY <2>2
  <2>4. k <= (k * 15) \div 10 /\ (k * 15) \div 10 \in Nat
    OBVIOUS
  <2>5. k <= MaxFee(k, r)
    <3>1. r.max \in Nat
      BY InputAssumption
    <3> QED BY <2>4, <3>1 DEF MaxFee, Larger
  <2> QED BY <2>2, <2>3, <2>5
<1>6. x.kind = action /\ Sound(x) /\ Outbids(original', found, x)
      /\ min >= LeastPrice(original', found)
  <2>1. Outbids(original', found, x) /\ min >= LeastPrice(original', found)
    BY <1>1, <1>5, ReplacementOutbids
  <2>2. x.kind = action /\ Sound(x)
    BY <1>1, <1>5, ReplacementFits
  <2> QED BY <2>1, <2>2
<1> HIDE DEF min
<1>7. Mirrors(plain', x) /\ Mirrors(plain', screen')
  <2>1. Dump(x) \in Plains /\ Mirrors(Dump(x), x)
    BY <1>6, DumpIsPlain DEF Sound
  <2>2. ScreenMirrors'
    BY DEF BitcoinInv, PageInv
  <2> QED BY <1>4, <2>1, <2>2, PlainIsNotNone DEF ScreenMirrors
<1>8. Outbids(original', found, screen')
  BY <1>1, <1>6, <1>7, MirrorsOutbid
<1>9. \A p \in {range'.min, range'.std, range'.max} : p >= LeastPrice(original', found)
  <2>1. LeastPrice(original', found) \in Int
    <3>1. EstimateVkbPrice(found, original'.fee) \in Nat
      BY <1>1, EstimateIsNumber
    <3>2. PICK e \in Nat : e = EstimateVkbPrice(found, original'.fee)
      BY <3>1
    <3>3. (e * 11) \div 10 \in Int
      OBVIOUS
    <3> QED BY <3>2, <3>3 DEF LeastPrice
  <2>2. range'.min = min /\ range'.std = min /\ range'.max = MaxFee(min, r)
    BY <1>4
  <2> QED BY <1>5, <1>6, <2>1, <2>2
<1>10. signed' = None
  BY <1>1
<1> QED
  BY <1>1, <1>8, <1>9, <1>10 DEF RaisedInv, Outbidden, SignedIsShown

(* Every step keeps it.                                                    *)
LEMMA RaisedStep == BitcoinInv /\ BitcoinInv' /\ RaisedInv /\ [Next]_vars => RaisedInv'
<1> SUFFICES ASSUME BitcoinInv, BitcoinInv', RaisedInv, [Next]_vars PROVE RaisedInv'
  OBVIOUS
<1>1. CASE FeeArrives
  <2>1. action' = "transfer" /\ UNCHANGED <<plain, signed, original>>
    BY <1>1 DEF FeeArrives
  <2>2. screen'.kind = "transfer"
    BY <2>1 DEF BitcoinInv, PageInv, ScreenFits
  <2> QED BY <2>1, <2>2, AnewRaised
<1>2. CASE Restore
  BY <1>2, RestoringRaised
<1>3. CASE NotRestored
  <2>1. UNCHANGED <<plain, signed, original>> /\ plain = None
    BY <1>3 DEF NotRestored, BitcoinInv, PageInv, Shapes
  <2>2. screen'.kind = "transfer"
    BY <2>1 DEF BitcoinInv, PageInv, ScreenMirrors
  <2> QED BY <2>1, <2>2, AnewRaised
<1>4. CASE EnterTo \/ EnterAmount \/ SendAll \/ ChooseOrder \/ SlideFee \/ StandardFee
  BY <1>4, EditsRaised
<1>5. CASE CustomFee
  BY <1>5 DEF CustomFee, RaisedInv, Outbidden, SignedIsShown
<1>6. CASE Create
  <2>1. signed = None /\ screen \in Objects
    BY <1>6 DEF Create, BitcoinInv, PageInv, Shapes, ScreenFits, Sound
  <2>2. plain' = Dump(screen) /\ UNCHANGED <<range, signed, original>>
    BY <1>6 DEF Create
  <2>3. Mirrors(plain', screen) /\ Mirrors(plain', screen')
    <3>1. Dump(screen) \in Plains /\ Mirrors(Dump(screen), screen)
      BY <2>1, DumpIsPlain
    <3>2. ScreenMirrors'
      BY DEF BitcoinInv, PageInv
    <3> QED BY <2>2, <3>1, <3>2, PlainIsNotNone DEF ScreenMirrors
  <2>4. screen'.kind = screen.kind
    BY <2>3 DEF Mirrors
  <2>5. SignedIsShown'
    BY <2>1, <2>2 DEF SignedIsShown
  <2>6. Outbidden'
    <3> SUFFICES ASSUME screen'.kind # "transfer" PROVE Outbidden'
      BY DEF Outbidden
    <3>1. original \in Originals
      BY <2>4 DEF RaisedInv, Outbidden
    <3>2. PICK found \in Restored(original) :
             /\ Outbids(original, found, screen)
             /\ \A p \in {range.min, range.std, range.max} : p >= LeastPrice(original, found)
      BY <2>4 DEF RaisedInv, Outbidden
    <3>3. Outbids(original, found, screen')
      BY <2>3, <2>4, <3>2, MirrorsOutbid
    <3> QED BY <2>1, <2>2, <3>1, <3>2, <3>3 DEF Outbidden
  <2> QED BY <2>5, <2>6 DEF RaisedInv
<1>7. CASE Sign
  <2>1. UNCHANGED <<plain, original, range>> /\ signed' = screen
    BY <1>7 DEF Sign
  <2> QED BY <2>1, AnewRaised
<1>8. CASE Rerender
  <2>1. UNCHANGED <<plain, original, range, signed>>
    BY <1>8 DEF Rerender
  <2> QED BY <2>1, AnewRaised
<1>9. CASE UNCHANGED vars
  BY <1>9 DEF vars, RaisedInv, Outbidden, SignedIsShown
<1> QED
  BY <1>1, <1>2, <1>3, <1>4, <1>5, <1>6, <1>7, <1>8, <1>9 DEF Next

(* It holds in every state of the page.                                    *)
LEMMA RaisedAlways == Spec => []RaisedInv
<1>1. Init => RaisedInv
  <2> SUFFICES ASSUME Init PROVE RaisedInv
    OBVIOUS
  <2>1. BitcoinInv /\ plain = None /\ signed = None
    BY PageStarts DEF Init
  <2>2. screen.kind = "transfer"
    BY <2>1 DEF BitcoinInv, PageInv, ScreenMirrors
  <2> QED BY <2>1, <2>2 DEF RaisedInv, Outbidden, SignedIsShown
<1> QED
  BY <1>1, RaisedStep, BitcoinInvariant, PTL DEF Spec

(* What replaces a transaction pays more than that, whatever order and     *)
(* price are chosen for it and whatever the outputs of the wallet are      *)
(* worth: unless it spends all of them, or fewer than what it replaces, or *)
(* the size of that was misjudged.                                         *)
THEOREM ReplacementsPayMore == Spec => []ReplacementPaysMore
<1>1. BitcoinInv /\ RaisedInv => ReplacementPaysMore
  <2> SUFFICES ASSUME BitcoinInv, RaisedInv, signed # None, action # "transfer",
                      Judged(original), Len(signed.from) >= Cardinality(original.inputs)
               PROVE  Paid(signed) > original.fee \/ Exhausted(signed)
    BY DEF ReplacementPaysMore
  <2>1. Sound(signed) /\ Valid(signed) /\ signed.kind # "transfer"
    BY DEF BitcoinInv, PageInv, WasSigned
  <2>2. screen.kind # "transfer"
    BY <2>1 DEF RaisedInv, SignedIsShown
  <2>3. PICK found \in Restored(original) : Outbids(original, found, signed)
    BY <2>2 DEF RaisedInv, Outbidden
  <2>4. original \in Originals
    BY <2>2 DEF RaisedInv, Outbidden
  <2> QED BY <2>1, <2>3, <2>4, OutbidPaysMore
<1> QED
  BY <1>1, RaisedAlways, BitcoinInvariant, PTL
=============================================================================
