-------------------------- MODULE RxAddressing_proofs --------------------------
(***************************************************************************)
(* RxAddressing for any width of an address, any number of contexts that   *)
(* fits, and any address of the peer.  Most of it is about powers of two   *)
(* and the bits of numbers, by induction: the least natural number for     *)
(* which something fails cannot exist.                                      *)
(***************************************************************************)
EXTENDS RxAddressing, WellFoundedInduction, TLAPS

-----------------------------------------------------------------------------
(* Induction: a set of natural numbers has a least element.                  *)

LEMMA Least ==
    ASSUME NEW T, T \subseteq Nat, T # {}
    PROVE  \E n \in T : \A m \in T : n <= m
<1>1. PICK n \in T : \A m \in T : ~(<<m, n>> \in OpToRel(<, Nat))
  BY NatLessThanWellFounded, WFMin, Zenon
<1>2. \A m \in T : m \in Nat /\ n \in Nat /\ ~(m < n)
  BY <1>1 DEF OpToRel
<1>3. \A m \in T : n <= m
  BY <1>2
<1>. QED
  BY <1>3

-----------------------------------------------------------------------------
(* Pow2 satisfies its recursion.  A function on 0 .. n that does exists for  *)
(* every n, any two of them agree, and so they make up one on Nat.           *)

Doubles(g, n) ==
    /\ g \in [0 .. n -> Nat]
    /\ \A k \in 0 .. n : g[k] = IF k = 0 THEN 1 ELSE 2 * g[k - 1]

LEMMA DoublesExists == \A n \in Nat : \E g : Doubles(g, n)
<1>. DEFINE T == {n \in Nat : ~ \E g : Doubles(g, n)}
<1>. SUFFICES ASSUME T # {} PROVE FALSE
  OBVIOUS
<1>1. PICK n \in T : \A m \in T : n <= m
  BY Least
<1>2. n # 0
  <2>1. Doubles([k \in 0 .. 0 |-> 1], 0)
    BY DEF Doubles
  <2>. QED
    BY <2>1
<1>3. PICK g : Doubles(g, n - 1)
  BY <1>1, <1>2
<1>. DEFINE h == [k \in 0 .. n |-> IF k = n THEN 2 * g[n - 1] ELSE g[k]]
<1>4. n \in Nat /\ n - 1 \in 0 .. (n - 1)
  BY <1>1, <1>2
<1>5. h \in [0 .. n -> Nat]
  BY <1>3, <1>4 DEF Doubles
<1>6. ASSUME NEW k \in 0 .. n
      PROVE  h[k] = IF k = 0 THEN 1 ELSE 2 * h[k - 1]
  BY <1>2, <1>3, <1>4 DEF Doubles
<1>7. Doubles(h, n)
  BY <1>5, <1>6 DEF Doubles
<1>. QED
  BY <1>7

LEMMA DoublesUnique ==
    ASSUME NEW g, NEW h, NEW m \in Nat, NEW n \in Nat, Doubles(g, m), Doubles(h, n)
    PROVE  \A k \in Nat : k <= m /\ k <= n => g[k] = h[k]
<1>. DEFINE T == {k \in Nat : k <= m /\ k <= n /\ g[k] # h[k]}
<1>. SUFFICES ASSUME T # {} PROVE FALSE
  OBVIOUS
<1>1. PICK k \in T : \A j \in T : k <= j
  BY Least
<1>2. CASE k = 0
  BY <1>1, <1>2 DEF Doubles
<1>3. CASE k # 0
  <2>1. k - 1 \in Nat /\ k - 1 \notin T
    BY <1>1, <1>3
  <2>2. g[k - 1] = h[k - 1]
    BY <2>1, <1>1
  <2>3. g[k] = 2 * g[k - 1] /\ h[k] = 2 * h[k - 1]
    BY <1>1, <1>3 DEF Doubles
  <2>. QED
    BY <1>1, <2>2, <2>3
<1>. QED
  BY <1>2, <1>3

LEMMA Pow2Recursion ==
    Pow2 = [n \in Nat |-> IF n = 0 THEN 1 ELSE 2 * Pow2[n - 1]]
<1>. DEFINE upTo == [n \in Nat |-> CHOOSE g : Doubles(g, n)]
            whole == [n \in Nat |-> upTo[n][n]]
<1>1. \A n \in Nat : Doubles(upTo[n], n)
  BY DoublesExists
<1>. HIDE DEF upTo
<1>2. ASSUME NEW n \in Nat, n # 0 PROVE whole[n] = 2 * whole[n - 1]
  <2>1. n - 1 \in Nat
    BY <1>2
  <2>2. upTo[n][n] = 2 * upTo[n][n - 1]
    BY <1>1, <1>2 DEF Doubles
  <2>3. upTo[n][n - 1] = upTo[n - 1][n - 1]
    BY <1>1, <2>1, DoublesUnique
  <2>. QED
    BY <2>1, <2>2, <2>3
<1>3. whole[0] = 1
  BY <1>1 DEF Doubles
<1>4. whole = [n \in Nat |-> IF n = 0 THEN 1 ELSE 2 * whole[n - 1]]
  BY <1>2, <1>3
<1>. HIDE DEF whole
<1>5. \E f : f = [n \in Nat |-> IF n = 0 THEN 1 ELSE 2 * f[n - 1]]
  BY <1>4
<1>. QED
  BY <1>5 DEF Pow2

LEMMA Pow2Next ==
    Pow2[0] = 1 /\ \A n \in Nat : Pow2[n + 1] = 2 * Pow2[n]
  BY Pow2Recursion

LEMMA Pow2Positive == \A n \in Nat : Pow2[n] \in Nat /\ Pow2[n] > 0
<1>. DEFINE T == {n \in Nat : ~(Pow2[n] \in Nat /\ Pow2[n] > 0)}
<1>. SUFFICES ASSUME T # {} PROVE FALSE
  OBVIOUS
<1>1. PICK n \in T : \A m \in T : n <= m
  BY Least
<1>2. n # 0
  BY Pow2Next
<1>3. n - 1 \in Nat /\ n - 1 \notin T /\ n = (n - 1) + 1
  BY <1>1, <1>2
<1>4. Pow2[n] = 2 * Pow2[n - 1]
  BY <1>3, Pow2Next
<1>. QED
  BY <1>1, <1>3, <1>4

LEMMA Pow2Monotone ==
    ASSUME NEW m \in Nat, NEW n \in Nat, m <= n
    PROVE  Pow2[m] <= Pow2[n]
<1>. DEFINE T == {k \in Nat : ~(Pow2[m] <= Pow2[m + k])}
<1>1. T = {}
  <2>. SUFFICES ASSUME T # {} PROVE FALSE
    OBVIOUS
  <2>1. PICK k \in T : \A j \in T : k <= j
    BY Least
  <2>2. k # 0
    BY <2>1, Pow2Positive
  <2>3. k - 1 \in Nat /\ k - 1 \notin T /\ m + (k - 1) \in Nat
    BY <2>1, <2>2
  <2>4. Pow2[m + k] = 2 * Pow2[m + (k - 1)]
    <3>1. m + k = (m + (k - 1)) + 1
      BY <2>3
    <3>. QED
      BY <2>3, <3>1, Pow2Next
  <2>. QED
    BY <2>1, <2>3, <2>4, Pow2Positive
<1>2. n - m \in Nat /\ m + (n - m) = n
  OBVIOUS
<1>. QED
  BY <1>1, <1>2

-----------------------------------------------------------------------------
(* Shifts and bits.                                                           *)

LEMMA Division ==
    ASSUME NEW n \in Nat, NEW d \in Nat, d > 0
    PROVE  /\ n \div d \in Nat
           /\ d * (n \div d) <= n /\ n < d * (n \div d) + d
  OBVIOUS

LEMMA Quotient ==
    ASSUME NEW n \in Nat, NEW d \in Nat, d > 0, NEW q \in Nat,
           d * q <= n, n < d * q + d
    PROVE  n \div d = q
<1>1. n \div d \in Nat /\ d * (n \div d) <= n /\ n < d * (n \div d) + d
  BY Division
<1>. DEFINE p == n \div d
<1>. HIDE DEF p
<1>2. CASE p < q
  <2>1. p + 1 <= q /\ p \in Nat
    BY <1>1, <1>2 DEF p
  <2>2. d * (p + 1) <= d * q
    BY <2>1
  <2>. QED
    BY <1>1, <2>1, <2>2 DEF p
<1>3. CASE q < p
  <2>1. q + 1 <= p /\ p \in Nat
    BY <1>1, <1>3 DEF p
  <2>2. d * (q + 1) <= d * p
    BY <2>1
  <2>. QED
    BY <1>1, <2>1, <2>2 DEF p
<1>. QED
  BY <1>1, <1>2, <1>3 DEF p

LEMMA ShiftROne ==
    ASSUME NEW n \in Nat, NEW k \in Nat
    PROVE  /\ ShiftR(n, k) \in Nat /\ ShiftR(n, k + 1) \in Nat
           /\ ShiftR(n, k) % 2 \in {0, 1}
           /\ ShiftR(n, k) = 2 * ShiftR(n, k + 1) + (ShiftR(n, k) % 2)
<1>. DEFINE p == Pow2[k]
            q == n \div p
            s == q \div 2
<1>1. p \in Nat /\ p > 0 /\ Pow2[k + 1] = 2 * p
  BY Pow2Positive, Pow2Next
<1>. HIDE DEF p
<1>2. q \in Nat /\ p * q <= n /\ n < p * q + p
  BY <1>1, Division
<1>. HIDE DEF q
<1>3. /\ s \in Nat /\ 2 * s <= q /\ q <= 2 * s + 1
      /\ q % 2 \in {0, 1} /\ q = 2 * s + (q % 2)
  BY <1>2
<1>. HIDE DEF s
<1>4. (2 * p) * s <= n
  <2>1. (2 * p) * s = p * (2 * s) /\ p * (2 * s) <= p * q
    BY <1>1, <1>2, <1>3
  <2>. QED
    BY <1>1, <1>2, <1>3, <2>1
<1>5. n < (2 * p) * s + 2 * p
  <2>1. p * q <= p * (2 * s + 1)
    BY <1>1, <1>2, <1>3
  <2>2. p * (2 * s + 1) + p = (2 * p) * s + 2 * p
    BY <1>1, <1>3
  <2>. QED
    BY <1>1, <1>2, <1>3, <2>1, <2>2
<1>6. n \div (2 * p) = s
  BY <1>1, <1>3, <1>4, <1>5, Quotient
<1>. QED
  BY <1>1, <1>2, <1>3, <1>6 DEF ShiftR, p, q

(* A right shift leaves nothing of a number exactly when its bits suffice for  *)
(* the number: the test with which ctxShiftR ends.                             *)
LEMMA ShiftedOut ==
    ASSUME NEW n \in Nat, NEW k \in Nat
    PROVE  n < Pow2[k] <=> ShiftR(n, k) <= 0
<1>1. Pow2[k] \in Nat /\ Pow2[k] > 0
  BY Pow2Positive
<1>2. ASSUME n < Pow2[k] PROVE ShiftR(n, k) = 0
  BY <1>1, <1>2, Quotient DEF ShiftR
<1>3. ASSUME ShiftR(n, k) <= 0 PROVE n < Pow2[k]
  <2>1. ShiftR(n, k) \in Nat /\ n < Pow2[k] * ShiftR(n, k) + Pow2[k]
    BY <1>1, Division DEF ShiftR
  <2>2. ShiftR(n, k) = 0
    BY <2>1, <1>3
  <2>. QED
    BY <1>1, <2>1, <2>2
<1>. QED
  BY <1>2, <1>3

LEMMA BitsBelow ==
    ASSUME NEW n \in Nat, NEW m \in Nat, n < Pow2[m]
    PROVE  BitsOf(n) \subseteq 0 .. m - 1
<1>. SUFFICES ASSUME NEW k \in BitsOf(n), k >= m PROVE FALSE
  BY WidthAssumption DEF BitsOf, Positions
<1>1. k \in Nat /\ ShiftR(n, k) % 2 = 1
  BY WidthAssumption DEF BitsOf, Positions
<1>2. n < Pow2[k]
  BY <1>1, Pow2Monotone, Pow2Positive
<1>3. ShiftR(n, k) <= 0 /\ ShiftR(n, k) \in Nat
  <2>1. ShiftR(n, k) <= 0
    BY <1>1, <1>2, ShiftedOut
  <2>2. ShiftR(n, k) \in Nat
    BY <1>1, ShiftROne
  <2>. QED
    BY <2>1, <2>2
<1>. QED
  BY <1>1, <1>3

(* Numbers that fit an address are told apart by their bits: from the top      *)
(* down, what is left of them by the shifts agrees.                             *)
LEMMA BitsInjective ==
    ASSUME NEW m \in Nat, NEW n \in Nat, NEW w \in 0 .. Width,
           m < Pow2[w], n < Pow2[w], BitsOf(m) = BitsOf(n)
    PROVE  m = n
<1>. DEFINE T == {d \in 0 .. w : ShiftR(m, w - d) # ShiftR(n, w - d)}
<1>1. w \in Nat
  BY WidthAssumption
<1>2. T = {}
  <2>. SUFFICES ASSUME T # {} PROVE FALSE
    OBVIOUS
  <2>0. T \subseteq Nat
    BY <1>1
  <2>. HIDE DEF T
  <2>1. PICK d \in T : \A e \in T : d <= e
    BY <2>0, Least
  <2>. USE DEF T
  <2>2. d # 0
    <3>1. ShiftR(m, w) <= 0 /\ ShiftR(n, w) <= 0
      BY <1>1, ShiftedOut
    <3>2. ShiftR(m, w) \in Nat /\ ShiftR(n, w) \in Nat
      BY <1>1, ShiftROne
    <3>3. w - 0 = w
      BY <1>1
    <3>. QED
      BY <2>1, <3>1, <3>2, <3>3
  <2>. DEFINE j == w - d
  <2>3. j \in Nat /\ j \in Positions /\ d - 1 \in 0 .. w /\ w - (d - 1) = j + 1
    BY <1>1, <2>1, <2>2, WidthAssumption DEF Positions
  <2>4. d - 1 \notin T
    BY <1>1, <2>1
  <2>5. ShiftR(m, j + 1) = ShiftR(n, j + 1)
    BY <2>3, <2>4
  <2>6. ShiftR(m, j) # ShiftR(n, j)
    BY <2>1
  <2>. HIDE DEF j, T
  <2>7. ShiftR(m, j) % 2 = 1 <=> ShiftR(n, j) % 2 = 1
    BY <2>3 DEF BitsOf
  <2>8. /\ ShiftR(m, j) % 2 \in {0, 1} /\ ShiftR(n, j) % 2 \in {0, 1}
        /\ ShiftR(m, j) = 2 * ShiftR(m, j + 1) + (ShiftR(m, j) % 2)
        /\ ShiftR(n, j) = 2 * ShiftR(n, j + 1) + (ShiftR(n, j) % 2)
    BY <2>3, ShiftROne
  <2>. QED
    BY <2>5, <2>6, <2>7, <2>8
<1>3. ShiftR(m, 0) = ShiftR(n, 0)
  BY <1>1, <1>2
<1>. QED
  BY <1>3, Pow2Next DEF ShiftR

-----------------------------------------------------------------------------
(* fi_rx_addr: the index goes above the address, and both are found again.     *)

LEMMA RxAddrIsRead ==
    ASSUME NEW bits \in 1 .. Width, NEW addr \in SUBSET Positions,
           NEW index \in Nat, index < Pow2[bits],
           NEW a \in RxAddrs(Base(addr, bits), index, bits)
    PROVE  Base(a, bits) = Base(addr, bits) /\ Context(a, bits) = BitsOf(index)
<1>. DEFINE d == Width - bits
<1>1. Width \in Nat /\ bits \in Nat /\ d \in Nat /\ bits # 0 /\ d + bits = Width
  BY WidthAssumption
<1>2. a = ShiftL(BitsOf(index), d) \cup Base(addr, bits)
  BY <1>1 DEF RxAddrs
<1>3. BitsOf(index) \subseteq 0 .. bits - 1
  BY <1>1, BitsBelow
<1>4. \A k \in ShiftL(BitsOf(index), d) : k >= d
  BY <1>1, <1>3 DEF ShiftL, Positions
<1>5. \A k \in Base(addr, bits) : k \in Nat /\ k < d
  BY <1>1 DEF Base, Positions
<1>6. Base(a, bits) = Base(addr, bits)
  <2>1. \A k : k \in a /\ k < d <=> k \in Base(addr, bits)
    <3>1. \A k \in ShiftL(BitsOf(index), d) : k \in Nat /\ ~(k < d)
      BY <1>1, <1>4 DEF ShiftL, Positions
    <3>. QED
      BY <1>2, <1>5, <3>1
  <2>. QED
    BY <2>1 DEF Base
<1>7. \A k \in 0 .. bits - 1 : k + d \in a <=> k \in BitsOf(index)
  <2>. SUFFICES ASSUME NEW k \in 0 .. bits - 1
                PROVE  k + d \in a <=> k \in BitsOf(index)
    OBVIOUS
  <2>1. k + d \in Positions /\ (k + d) - d = k /\ k + d \notin Base(addr, bits)
    BY <1>1, <1>5 DEF Positions
  <2>. QED
    BY <1>2, <2>1 DEF ShiftL
<1>8. Context(a, bits) = BitsOf(index)
  BY <1>3, <1>7 DEF Context
<1>. QED
  BY <1>6, <1>8

LEMMA RxAddrsFit ==
    ASSUME NEW addr \in SUBSET Positions, NEW index, NEW bits
    PROVE  RxAddrs(addr, index, bits) \subseteq SUBSET Positions
  BY DEF RxAddrs, BitsOf, ShiftL

-----------------------------------------------------------------------------
(* ctxShiftR has gone on only while ctx_cnt had bits left, and what it returns  *)
(* is one more than ctx_cnt needs.                                              *)
Shifted ==
    /\ phase = "bits" => av_bits = -1 /\ (r = 0 \/ Pow2[r - 1] <= ctx_cnt)
    /\ phase # "bits" => av_bits = r + 1 /\ ctx_cnt < Pow2[r]

IInv == TypeOK /\ Shifted

LEMMA CtxCntFits == TypeOK => ctx_cnt \in Nat /\ ctx_cnt < Pow2[Width - 1]
  BY CtxCountsAssumption DEF TypeOK

LEMMA InitIInv == Init => IInv
<1>. SUFFICES ASSUME Init PROVE IInv
  OBVIOUS
<1>1. ctx_cnt \in Nat
  BY CtxCountsAssumption DEF Init
<1>2. TypeOK
  BY <1>1, WidthAssumption DEF Init, TypeOK, rx_ctx_bits
<1>3. Shifted
  BY DEF Init, Shifted, rx_ctx_bits
<1>. QED
  BY <1>2, <1>3 DEF IInv

LEMMA NextIInv == IInv /\ [Next]_vars => IInv'
<1>. SUFFICES ASSUME IInv, [Next]_vars PROVE IInv'
  OBVIOUS
<1>. USE WidthAssumption
<1>1. ctx_cnt \in Nat /\ ctx_cnt < Pow2[Width - 1] /\ r \in Nat
  BY CtxCntFits DEF IInv, TypeOK
<1>2. CASE ShiftAgain
  <2>1. Pow2[r] <= ctx_cnt
    <3>1. ~(ShiftR(ctx_cnt, r) <= 0)
      BY <1>1, <1>2, ShiftROne DEF ShiftAgain
    <3>. QED
      BY <1>1, <3>1, ShiftedOut, Pow2Positive
  <2>2. r # Width - 1
    BY <1>1, <2>1, Pow2Positive
  <2>3. TypeOK'
    BY <1>2, <2>2 DEF ShiftAgain, IInv, TypeOK
  <2>4. r' - 1 = r
    BY <1>1, <1>2 DEF ShiftAgain
  <2>5. Shifted'
    BY <1>2, <2>1, <2>4 DEF ShiftAgain, IInv, Shifted
  <2>. QED
    BY <2>3, <2>5 DEF IInv
<1>3. CASE ShiftDone
  <2>1. ctx_cnt < Pow2[r]
    BY <1>1, <1>3, ShiftedOut DEF ShiftDone
  <2>2. TypeOK'
    BY <1>1, <1>3 DEF ShiftDone, IInv, TypeOK
  <2>3. Shifted'
    BY <1>3, <2>1 DEF ShiftDone, Shifted
  <2>. QED
    BY <2>2, <2>3 DEF IInv
<1>4. CASE Address
  <2>1. rx_addr' \subseteq Positions
    BY <1>4, RxAddrsFit, AddrsAssumption DEF Address, IInv, TypeOK
  <2>2. TypeOK'
    BY <1>1, <1>4, <2>1 DEF Address, IInv, TypeOK
  <2>3. Shifted'
    BY <1>4 DEF Address, IInv, Shifted
  <2>. QED
    BY <2>2, <2>3 DEF IInv
<1>5. CASE AddressesDone
  BY <1>5 DEF AddressesDone, IInv, TypeOK, Shifted
<1>6. CASE UNCHANGED vars
  BY <1>6 DEF vars, IInv, TypeOK, Shifted
<1>. QED
  BY <1>2, <1>3, <1>4, <1>5, <1>6 DEF Next, Finished

THEOREM Inductive == Spec => []IInv
  BY InitIInv, NextIInv, PTL DEF Spec

(* ctxShiftR stays within the bits of an address, however many contexts there  *)
(* are, and init_av computes an address for no context beyond the last.        *)
THEOREM TypeCorrect == Spec => []TypeOK
  BY Inductive, PTL DEF IInv

(* With the bits that ctxShiftR reserves, every address fi_rx_addr computes     *)
(* denotes the peer and one context.                                             *)
THEOREM ContextsAddressable == Spec => []EveryContextAddressable
<1>1. IInv => EveryContextAddressable
  <2>. SUFFICES ASSUME IInv, phase # "bits",
                       NEW k \in 0 .. (ctx_cnt - 1),
                       NEW a \in RxAddrs(Base(remote_fi_addr, av_bits), k, av_bits)
                PROVE  /\ Base(a, av_bits) = Base(remote_fi_addr, av_bits)
                       /\ \A l \in 0 .. (ctx_cnt - 1) :
                            Context(a, av_bits) = BitsOf(l) <=> l = k
    BY DEF EveryContextAddressable
  <2>1. /\ r \in Nat /\ ctx_cnt \in Nat /\ Width \in Nat
        /\ av_bits = r + 1 /\ av_bits \in 1 .. Width
        /\ remote_fi_addr \in SUBSET Positions /\ ctx_cnt < Pow2[r]
    BY WidthAssumption, CtxCntFits, AddrsAssumption DEF IInv, TypeOK, Shifted
  <2>2. ctx_cnt < Pow2[av_bits]
    BY <2>1, Pow2Monotone, Pow2Positive
  <2>3. \A l \in 0 .. (ctx_cnt - 1) : l \in Nat /\ l < Pow2[av_bits]
    BY <2>1, <2>2, Pow2Positive
  <2>4. /\ Base(a, av_bits) = Base(remote_fi_addr, av_bits)
        /\ Context(a, av_bits) = BitsOf(k)
    BY <2>1, <2>3, RxAddrIsRead
  <2>5. \A l \in 0 .. (ctx_cnt - 1) : BitsOf(k) = BitsOf(l) => l = k
    BY <2>1, <2>3, BitsInjective
  <2>. QED
    BY <2>4, <2>5
<1>. QED
  BY <1>1, Inductive, PTL

-----------------------------------------------------------------------------
(* How many steps ctxShiftR and init_av have left at most.                       *)
Measure ==
    CASE phase = "bits" -> (Width - r) + ctx_cnt + 1
      [] phase = "addresses" -> (ctx_cnt - x) + 1
      [] OTHER -> 0

LEMMA MeasureIsNat == IInv => Measure \in Nat
  BY WidthAssumption, CtxCntFits DEF IInv, TypeOK, Measure

(* Neither the recursion of ctxShiftR nor the loop of init_av can go on for ever: *)
(* every step has fewer behind it.  With the fairness of Spec this is Terminates.  *)
THEOREM EveryStepCounts == Spec => [][Measure' < Measure /\ Measure \in Nat]_vars
<1>1. IInv /\ IInv' /\ [Next]_vars => [Measure' < Measure /\ Measure \in Nat]_vars
  <2>. SUFFICES ASSUME IInv, IInv', Next, vars' # vars
                PROVE  Measure' < Measure
    BY MeasureIsNat
  <2>1. /\ Width \in Nat /\ ctx_cnt \in Nat /\ r \in 0 .. Width - 1 /\ x \in 0 .. ctx_cnt
        /\ r' \in 0 .. Width - 1 /\ x' \in 0 .. ctx_cnt'
    BY WidthAssumption, CtxCntFits DEF IInv, TypeOK
  <2>2. CASE ShiftAgain
    BY <2>1, <2>2 DEF ShiftAgain, Measure
  <2>3. CASE ShiftDone
    BY <2>1, <2>3 DEF ShiftDone, Measure, IInv, Shifted
  <2>4. CASE Address
    BY <2>1, <2>4 DEF Address, Measure
  <2>5. CASE AddressesDone
    BY <2>1, <2>5 DEF AddressesDone, Measure
  <2>. QED
    BY <2>2, <2>3, <2>4, <2>5 DEF Next, Finished
<1>. QED
  BY <1>1, Inductive, PTL DEF Spec
=============================================================================
