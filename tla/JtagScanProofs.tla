--------------------------- MODULE JtagScanProofs ---------------------------
(***************************************************************************)
(* Proofs about the JTAG scans of SwjPort: the TAP controllers, run along  *)
(* the clocks of a scan of any length, shift exactly the bits that put the *)
(* data into the addressed device and bypass the others.                   *)
(***************************************************************************)
EXTENDS DapInterpreterProofs

----------------------------------------------------------------------------
(* Induction along a sequence *)

\* A set of numbers has a least one.
LEMMA LeastNumber ==
    ASSUME NEW T, T \subseteq Nat, T # {}
    PROVE  \E x \in T : \A y \in T : x <= y
<1> DEFINE R == StrictSubsetOrdering(Nat)
           U == {1..x : x \in T}
<1>1. IsWellFoundedOn(R, FiniteSubsetsOf(Nat))
  BY FS_StrictSubsetOrderingWellFounded
<1>2. U \subseteq FiniteSubsetsOf(Nat)
  <2>1. ASSUME NEW x \in T PROVE 1..x \in FiniteSubsetsOf(Nat)
    <3>1. x \in Nat /\ 1..x \subseteq Nat
      OBVIOUS
    <3>2. IsFiniteSet(1..x)
      BY <3>1, FS_Interval
    <3> QED
      BY <3>1, <3>2 DEF FiniteSubsetsOf
  <2> QED
    BY <2>1
<1>3. U # {}
  OBVIOUS
<1>4. ASSUME NEW x \in T, NEW y \in T, y < x PROVE <<1..y, 1..x>> \in R
  <2>1. 1..y \subseteq Nat /\ 1..x \subseteq Nat /\ 1..y \subseteq 1..x
    BY <1>4
  <2>2. x \in 1..x /\ x \notin 1..y
    BY <1>4
  <2> QED
    BY <2>1, <2>2 DEF StrictSubsetOrdering
<1> HIDE DEF R
<1>5. PICK u \in U : \A v \in U : ~(<<v, u>> \in R)
  <2> HIDE DEF U
  <2> QED
    BY <1>1, <1>2, <1>3, WFMin
<1>6. PICK x \in T : u = 1..x
  BY <1>5
<1>7. ASSUME NEW y \in T PROVE x <= y
  <2>1. ~(<<1..y, 1..x>> \in R)
    BY <1>5, <1>6
  <2> QED
    BY <2>1, <1>4
<1> QED
  BY <1>7

\* Of a place up to n with a flaw there is a first one.
LEMMA FirstFlaw ==
    ASSUME NEW n \in Nat, NEW good, good \subseteq 0..n, 0 \in good,
           \A i \in 1..n : i - 1 \in good => i \in good
    PROVE  good = 0..n
<1> SUFFICES ASSUME good # 0..n PROVE FALSE
  OBVIOUS
<1>1. PICK x \in (0..n) \ good : \A y \in (0..n) \ good : x <= y
  <2>1. (0..n) \ good \subseteq Nat
    OBVIOUS
  <2>2. (0..n) \ good # {}
    <3>1. \E x \in 0..n : x \notin good
      BY Zenon
    <3> QED
      BY <3>1
  <2> QED
    BY <2>1, <2>2, LeastNumber
<1>2. x \in 1..n /\ x - 1 \in 0..n
  BY <1>1
<1>3. x - 1 \in good
  BY <1>1, <1>2
<1> QED
  BY <1>1, <1>2, <1>3

----------------------------------------------------------------------------
(* Sums of instruction lengths *)

\* f adds up the sequence.
AddsUp(f, s) ==
    /\ f \in [0..Len(s) -> Nat] /\ f[0] = 0
    /\ \A i \in 1..Len(s) : f[i] = f[i - 1] + s[i]

\* Sum is where the partial sums end.
LEMMA SumIs ==
    ASSUME NEW s \in Seq(Nat), NEW f, AddsUp(f, s)
    PROVE  Sum(s) = f[Len(s)]
<1> DEFINE n == Len(s)
           Def(h) == h = [i \in 0..n |-> IF i = 0 THEN 0 ELSE h[i - 1] + s[i]]
           g == CHOOSE h : Def(h)
<1>1. n \in Nat
  OBVIOUS
<1>2. Def(f)
  BY DEF AddsUp
<1>3. Def(g)
  <2> HIDE DEF Def
  <2> QED
    BY <1>2
<1>4. Sum(s) = g[n]
  BY DEF Sum
<1> HIDE DEF g
<1>5. f[0] = g[0] /\ \A i \in 1..n : f[i - 1] = g[i - 1] => f[i] = g[i]
  <2>1. f[0] = 0 /\ \A i \in 1..n : f[i] = f[i - 1] + s[i]
    BY DEF AddsUp
  <2>2. g[0] = 0 /\ \A i \in 1..n : g[i] = g[i - 1] + s[i]
    BY <1>1, <1>3
  <2> QED
    BY <2>1, <2>2
<1>6. \A i \in 0..n : f[i] = g[i]
  <2> HIDE DEF n, Def
  <2> DEFINE alike == {i \in 0..n : f[i] = g[i]}
  <2>1. alike \subseteq 0..n /\ 0 \in alike /\ \A i \in 1..n : i - 1 \in alike => i \in alike
    BY <1>1, <1>5
  <2>2. alike = 0..n
    <3> HIDE DEF alike
    <3> QED
      BY <1>1, <2>1, FirstFlaw
  <2> QED
    BY <2>2
<1> QED
  BY <1>1, <1>4, <1>6

\* There are partial sums, they never decrease, and they are sums themselves.
LEMMA PartialSums ==
    ASSUME NEW s \in Seq(Nat)
    PROVE  \E f : AddsUp(f, s)
<1> DEFINE n == Len(s)
           good == {m \in 0..n : \E f \in [0..m -> Nat] :
                      f[0] = 0 /\ \A i \in 1..m : f[i] = f[i - 1] + s[i]}
<1>1. n \in Nat /\ good \subseteq 0..n
  OBVIOUS
<1>2. 0 \in good
  <2> DEFINE h == [i \in 0..0 |-> 0]
  <2>1. h \in [0..0 -> Nat] /\ h[0] = 0 /\ \A i \in 1..0 : h[i] = h[i - 1] + s[i]
    OBVIOUS
  <2>2. 0 \in 0..n
    BY <1>1
  <2> HIDE DEF h, n
  <2> QED
    BY <2>1, <2>2
<1>3. ASSUME NEW m \in 1..n, m - 1 \in good PROVE m \in good
  <2>1. PICK f \in [0..(m - 1) -> Nat] : f[0] = 0 /\ \A i \in 1..(m - 1) : f[i] = f[i - 1] + s[i]
    BY <1>3
  <2> DEFINE h == [i \in 0..m |-> IF i = m THEN f[m - 1] + s[m] ELSE f[i]]
  <2>2. s[m] \in Nat /\ m \in Nat /\ m - 1 \in 0..(m - 1) /\ f[m - 1] \in Nat
    BY <1>1, <2>1
  <2>3. h \in [0..m -> Nat]
    BY <2>1, <2>2
  <2>4. h[0] = 0 /\ h[m] = h[m - 1] + s[m]
    BY <2>1, <2>2
  <2>5. \A i \in 1..(m - 1) : h[i] = h[i - 1] + s[i]
    <3>1. \A i \in 0..(m - 1) : h[i] = f[i]
      BY <2>2
    <3> HIDE DEF h
    <3>2. ASSUME NEW i \in 1..(m - 1) PROVE h[i] = h[i - 1] + s[i]
      <4>1. i \in 0..(m - 1) /\ i - 1 \in 0..(m - 1) /\ f[i] = f[i - 1] + s[i]
        BY <2>1, <2>2
      <4> QED
        BY <3>1, <4>1
    <3> QED
      BY <3>2
  <2> HIDE DEF h
  <2>6. \A i \in 1..m : h[i] = h[i - 1] + s[i]
    BY <2>2, <2>4, <2>5
  <2>7. m \in 0..n
    BY <1>1
  <2> HIDE DEF n
  <2> QED
    BY <2>3, <2>4, <2>6, <2>7
<1>4. n \in good
  <2> HIDE DEF good
  <2>1. good = 0..n
    BY <1>1, <1>2, <1>3, FirstFlaw
  <2> QED
    BY <1>1, <2>1
<1> QED
  BY <1>4 DEF AddsUp

LEMMA SumsGrow ==
    ASSUME NEW s \in Seq(Nat), NEW f, AddsUp(f, s)
    PROVE  \A i, j \in 0..Len(s) : i <= j => f[i] <= f[j]
<1> SUFFICES ASSUME NEW i \in 0..Len(s) PROVE \A j \in 0..Len(s) : i <= j => f[i] <= f[j]
  OBVIOUS
<1> DEFINE n == Len(s)
           good == {j \in 0..n : i <= j => f[i] <= f[j]}
<1>1. n \in Nat /\ good \subseteq 0..n /\ 0 \in good
  BY DEF AddsUp
<1>2. ASSUME NEW j \in 1..n, j - 1 \in good PROVE j \in good
  <2>0. j \in 0..n /\ j - 1 \in 0..n /\ f \in [0..n -> Nat] /\ \A m \in 1..n : f[m] = f[m - 1] + s[m]
    BY <1>1 DEF AddsUp
  <2>00. s[j] \in Nat
    OBVIOUS
  <2> HIDE DEF n
  <2>1. f[j] = f[j - 1] + s[j] /\ s[j] \in Nat /\ f[j - 1] \in Nat /\ f[j] \in Nat /\ f[i] \in Nat
    <3>1. f[j] = f[j - 1] + s[j]
      BY <2>0
    <3>2. f[j - 1] \in Nat /\ f[j] \in Nat
      BY <2>0
    <3>3. i \in 0..n
      BY DEF n
    <3> QED
      BY <2>0, <2>00, <3>1, <3>2, <3>3
  <2>2. CASE i = j
    BY <2>1, <2>2
  <2>3. CASE i # j
    BY <1>1, <1>2, <2>1, <2>3
  <2> QED
    BY <2>2, <2>3
<1>3. good = 0..n
  <2> HIDE DEF good, n
  <2> QED
    BY <1>1, <1>2, FirstFlaw
<1> QED
  BY <1>3

LEMMA SumOfPart ==
    ASSUME NEW s \in Seq(Nat), NEW f, AddsUp(f, s), NEW m \in 0..Len(s), NEW t \in Seq(Nat),
           Len(t) = m, \A i \in 1..m : t[i] = s[i]
    PROVE  Sum(t) = f[m]
<1> DEFINE g == [i \in 0..m |-> f[i]]
<1>1. AddsUp(g, t)
  <2>1. Len(s) \in Nat /\ m \in Nat /\ g \in [0..m -> Nat] /\ g[0] = 0
    <3>1. Len(s) \in Nat /\ f \in [0..Len(s) -> Nat] /\ f[0] = 0
      BY DEF AddsUp
    <3>2. m \in Nat /\ 0 \in 0..m /\ \A i \in 0..m : i \in 0..Len(s)
      BY <3>1
    <3> QED
      BY <3>1, <3>2
  <2>2. ASSUME NEW i \in 1..m PROVE g[i] = g[i - 1] + t[i]
    <3>1. f[i] = f[i - 1] + s[i] /\ i \in 0..m /\ i - 1 \in 0..m /\ t[i] = s[i]
      BY <2>1 DEF AddsUp
    <3> QED
      BY <3>1
  <2> QED
    BY <2>1, <2>2 DEF AddsUp
<1>2. Sum(t) = g[m]
  <2> HIDE DEF g
  <2> QED
    BY <1>1, SumIs
<1> QED
  BY <1>2
----------------------------------------------------------------------------
(* The TAP controller along a scan *)

TapStates == {"idle", "selDR", "selIR", "capDR", "capIR", "shiftDR", "shiftIR",
              "exitDR", "exitIR", "pause", "update", "reset"}
TapBits == {"x", "1"} \cup Nat
TapClocks == {0, 1} \X TapBits
Taps == [state : TapStates, bits : Seq(TapBits)]
AtStart == [state |-> "idle", bits |-> <<>>]

\* The controller goes from t to u along the clocks, through the states of f.
Through(f, t, clocks, u) ==
    /\ f \in [0..Len(clocks) -> Taps]
    /\ f[0] = t /\ f[Len(clocks)] = u
    /\ \A i \in 1..Len(clocks) : f[i] = Tick(f[i - 1], clocks[i])
Leads(t, clocks, u) == \E f \in [0..Len(clocks) -> Taps] : Through(f, t, clocks, u)

\* TapRun is where the clocks lead from the start.
LEMMA TapRunIs ==
    ASSUME NEW clocks \in Seq(TapClocks), NEW u, Leads(AtStart, clocks, u)
    PROVE  TapRun(clocks) = u
<1> DEFINE n == Len(clocks)
           Def(h) == h = [i \in 0..n |-> IF i = 0 THEN [state |-> "idle", bits |-> <<>>]
                                                  ELSE Tick(h[i - 1], clocks[i])]
           g == CHOOSE h : Def(h)
<1>1. PICK f \in [0..n -> Taps] : Through(f, AtStart, clocks, u)
  BY DEF Leads
<1>2. n \in Nat
  OBVIOUS
<1>3. Def(f)
  <2>1. f[0] = AtStart /\ \A i \in 1..n : f[i] = Tick(f[i - 1], clocks[i])
    BY <1>1 DEF Through
  <2> QED
    BY <1>1, <1>2, <2>1 DEF AtStart
<1>4. Def(g)
  <2> HIDE DEF Def
  <2> QED
    BY <1>3
<1>5. TapRun(clocks) = g[n]
  BY DEF TapRun
<1> HIDE DEF g
<1>6. f[0] = g[0] /\ \A i \in 1..n : f[i - 1] = g[i - 1] => f[i] = g[i]
  <2>1. g[0] = AtStart /\ \A i \in 1..n : g[i] = Tick(g[i - 1], clocks[i])
    <3> HIDE DEF n
    <3>1. g[0] = AtStart
      BY <1>2, <1>4 DEF AtStart
    <3>2. ASSUME NEW i \in 1..n PROVE g[i] = Tick(g[i - 1], clocks[i])
      <4>1. i \in 0..n /\ i # 0
        BY <1>2
      <4> QED
        BY <1>4, <4>1
    <3> QED
      BY <3>1, <3>2
  <2>2. f[0] = AtStart /\ \A i \in 1..n : f[i] = Tick(f[i - 1], clocks[i])
    BY <1>1 DEF Through
  <2> QED
    BY <2>1, <2>2
<1>7. \A i \in 0..n : f[i] = g[i]
  <2> HIDE DEF n, Def
  <2> DEFINE alike == {i \in 0..n : f[i] = g[i]}
  <2>1. alike \subseteq 0..n /\ 0 \in alike /\ \A i \in 1..n : i - 1 \in alike => i \in alike
    BY <1>2, <1>6
  <2>2. alike = 0..n
    <3> HIDE DEF alike
    <3> QED
      BY <1>2, <2>1, FirstFlaw
  <2> QED
    BY <2>2
<1> QED
  BY <1>1, <1>2, <1>5, <1>7 DEF Through

\* What it does in one clock.
LEMMA TicksTo ==
    ASSUME NEW t \in Taps, NEW c \in TapClocks
    PROVE  Tick(t, c) \in Taps
<1>1. TapNext(t.state, c[1]) \in TapStates
  BY DEF TapNext, TapStates, Taps, TapClocks
<1>2. Append(t.bits, c[2]) \in Seq(TapBits) /\ t.bits \in Seq(TapBits)
  BY DEF Taps, TapClocks
<1> QED
  BY <1>1, <1>2 DEF Tick, Taps

\* One stretch of clocks after another.
LEMMA LeadsOn ==
    ASSUME NEW a \in Seq(TapClocks), NEW b \in Seq(TapClocks), NEW t, NEW u, NEW v,
           Leads(t, a, u), Leads(u, b, v)
    PROVE  a \o b \in Seq(TapClocks) /\ Leads(t, a \o b, v)
<1> DEFINE m == Len(a)
           n == Len(b)
           c == a \o b
<1>1. /\ m \in Nat /\ n \in Nat /\ c \in Seq(TapClocks) /\ Len(c) = m + n
      /\ \A i \in 1..m : c[i] = a[i]
      /\ \A i \in 1..n : c[m + i] = b[i]
  OBVIOUS
<1>2. PICK f \in [0..m -> Taps] : Through(f, t, a, u)
  BY DEF Leads
<1>3. PICK g \in [0..n -> Taps] : Through(g, u, b, v)
  BY DEF Leads
<1>4. /\ f[0] = t /\ f[m] = u /\ \A i \in 1..m : f[i] = Tick(f[i - 1], a[i])
      /\ g[0] = u /\ g[n] = v /\ \A i \in 1..n : g[i] = Tick(g[i - 1], b[i])
  BY <1>2, <1>3 DEF Through
<1> HIDE DEF m, n, c
<1> DEFINE h == [i \in 0..(m + n) |-> IF i <= m THEN f[i] ELSE g[i - m]]
<1>5. h \in [0..(m + n) -> Taps]
  BY <1>1
<1>6. (\A i \in 0..m : h[i] = f[i]) /\ (\A i \in 0..n : h[m + i] = g[i])
  <2>1. ASSUME NEW i \in 0..m PROVE h[i] = f[i]
    BY <1>1
  <2>2. ASSUME NEW i \in 0..n PROVE h[m + i] = g[i]
    <3>1. m + i \in 0..(m + n) /\ (m + i) - m = i
      BY <1>1
    <3>2. CASE i = 0
      <4>1. h[m + i] = f[m]
        BY <1>1, <3>1, <3>2
      <4> QED
        BY <1>4, <3>2, <4>1
    <3>3. CASE i # 0
      <4>1. ~(m + i <= m)
        BY <1>1, <3>3
      <4> QED
        BY <3>1, <4>1
    <3> QED
      BY <3>2, <3>3
  <2> QED
    BY <2>1, <2>2
<1> HIDE DEF h
<1>7. h[0] = t /\ h[m + n] = v
  BY <1>1, <1>4, <1>6
<1>8. ASSUME NEW i \in 1..(m + n) PROVE h[i] = Tick(h[i - 1], c[i])
  <2>1. CASE i <= m
    <3>1. i \in 1..m /\ i \in 0..m /\ i - 1 \in 0..m
      BY <1>1, <2>1
    <3> QED
      BY <1>1, <1>4, <1>6, <3>1
  <2>2. CASE i > m
    <3>1. PICK j \in 1..n : i = m + j /\ j - 1 \in 0..n /\ i - 1 = m + (j - 1)
      <4>1. i - m \in 1..n /\ i = m + (i - m) /\ (i - m) - 1 \in 0..n /\ i - 1 = m + ((i - m) - 1)
        BY <1>1, <2>2
      <4> QED
        BY <4>1
    <3>2. h[i] = g[j] /\ h[i - 1] = g[j - 1] /\ c[i] = b[j]
      BY <1>1, <1>6, <3>1
    <3> QED
      BY <1>4, <3>2
  <2> QED
    BY <1>1, <2>1, <2>2
<1>9. Through(h, t, c, v)
  BY <1>1, <1>5, <1>7, <1>8 DEF Through
<1> QED
  BY <1>1, <1>5, <1>9 DEF Leads, c

\* The clocks at one level of TMS.
LEMMA ClkIs ==
    ASSUME NEW tms \in {0, 1}, NEW bits \in Seq(TapBits)
    PROVE  /\ Clk(tms, bits) \in Seq(TapClocks) /\ Len(Clk(tms, bits)) = Len(bits)
           /\ \A i \in 1..Len(bits) : Clk(tms, bits)[i] = <<tms, bits[i]>>
<1> DEFINE n == Len(bits)
           c == [i \in 1..n |-> <<tms, bits[i]>>]
<1>1. n \in Nat /\ \A i \in 1..n : bits[i] \in TapBits
  OBVIOUS
<1> HIDE DEF n
<1>2. /\ c \in Seq(TapClocks) /\ DOMAIN c = 1..n
      /\ \A i \in 1..n : c[i] = <<tms, bits[i]>>
  BY <1>1 DEF TapClocks
<1> HIDE DEF c
<1>3. Len(c) = n
  BY <1>1, <1>2
<1> QED
  BY <1>2, <1>3 DEF Clk, c, n

\* A single clock.
LEMMA LeadsOne ==
    ASSUME NEW t \in Taps, NEW tms \in {0, 1}, NEW bit \in TapBits
    PROVE  /\ Clk(tms, <<bit>>) \in Seq(TapClocks)
           /\ Leads(t, Clk(tms, <<bit>>), Tick(t, <<tms, bit>>))
<1> DEFINE c == Clk(tms, <<bit>>)
           u == Tick(t, <<tms, bit>>)
           f == [i \in 0..1 |-> IF i = 0 THEN t ELSE u]
<1>1. c \in Seq(TapClocks) /\ Len(c) = 1 /\ c[1] = <<tms, bit>>
  <2> DEFINE bits == <<bit>>
  <2>1. bits \in Seq(TapBits) /\ Len(bits) = 1 /\ bits[1] = bit
    OBVIOUS
  <2> HIDE DEF bits
  <2>2. /\ Clk(tms, bits) \in Seq(TapClocks) /\ Len(Clk(tms, bits)) = Len(bits)
        /\ \A i \in 1..Len(bits) : Clk(tms, bits)[i] = <<tms, bits[i]>>
    BY <2>1, ClkIs
  <2>3. Clk(tms, bits) \in Seq(TapClocks) /\ Len(Clk(tms, bits)) = 1 /\ Clk(tms, bits)[1] = <<tms, bit>>
    BY <2>1, <2>2
  <2> QED
    BY <2>3 DEF bits
<1>2. u \in Taps
  BY TicksTo DEF TapClocks
<1> HIDE DEF c, u
<1>3. f \in [0..1 -> Taps] /\ f[0] = t /\ f[1] = u
  BY <1>2
<1>4. \A i \in 1..Len(c) : f[i] = Tick(f[i - 1], c[i])
  <2> HIDE DEF f
  <2> QED
    BY <1>1, <1>3 DEF u
<1> HIDE DEF f
<1>5. Through(f, t, c, u)
  BY <1>1, <1>3, <1>4 DEF Through
<1> QED
  BY <1>1, <1>3, <1>5 DEF Leads, c, u

\* Bits are shifted while TMS is low.
LEMMA LeadsShift ==
    ASSUME NEW t \in Taps, t.state \in {"shiftDR", "shiftIR"}, NEW bits \in Seq(TapBits)
    PROVE  /\ Clk(0, bits) \in Seq(TapClocks)
           /\ Leads(t, Clk(0, bits), [state |-> t.state, bits |-> t.bits \o bits])
<1> DEFINE n == Len(bits)
           c == Clk(0, bits)
           At(i) == [state |-> t.state, bits |-> t.bits \o SubSeq(bits, 1, i)]
           f == [i \in 0..n |-> At(i)]
<1>1. n \in Nat /\ c \in Seq(TapClocks) /\ Len(c) = n /\ \A i \in 1..n : c[i] = <<0, bits[i]>>
  BY ClkIs
<1>2. t.bits \in Seq(TapBits) /\ t.state \in TapStates /\ t = [state |-> t.state, bits |-> t.bits]
  BY DEF Taps
<1>3. \A i \in 0..n : At(i) \in Taps
  BY <1>1, <1>2 DEF Taps
<1>4. At(0) = t /\ At(n) = [state |-> t.state, bits |-> t.bits \o bits]
  <2>1. SubSeq(bits, 1, 0) = <<>> /\ SubSeq(bits, 1, n) = bits /\ t.bits \o <<>> = t.bits
    BY <1>1, <1>2
  <2> QED
    BY <1>2, <2>1
<1>5. ASSUME NEW i \in 1..n PROVE At(i) = Tick(At(i - 1), <<0, bits[i]>>)
  <2>1. t.bits \o SubSeq(bits, 1, i) = Append(t.bits \o SubSeq(bits, 1, i - 1), bits[i])
    <3> DEFINE b == t.bits
               p == SubSeq(bits, 1, i)
               q == SubSeq(bits, 1, i - 1)
    <3>1. /\ b \in Seq(TapBits) /\ p \in Seq(TapBits) /\ q \in Seq(TapBits)
          /\ Len(p) = i /\ Len(q) = i - 1
          /\ \A m \in 1..i : p[m] = bits[m]
          /\ \A m \in 1..(i - 1) : q[m] = bits[m]
      BY <1>1, <1>2
    <3>2. bits[i] \in TapBits
      BY <1>1
    <3> HIDE DEF b, p, q
    <3>3. p = Append(q, bits[i])
      BY <1>1, <3>1, <3>2
    <3>4. b \o Append(q, bits[i]) = Append(b \o q, bits[i])
      BY <3>1, <3>2
    <3> QED
      BY <3>3, <3>4 DEF b, p, q
  <2>2. TapNext(t.state, 0) = t.state
    BY DEF TapNext
  <2> QED
    BY <2>1, <2>2 DEF Tick
<1> HIDE DEF At, c
<1>6. f \in [0..n -> Taps] /\ f[0] = At(0) /\ f[n] = At(n)
  BY <1>1, <1>3
<1>7. ASSUME NEW i \in 1..n PROVE f[i] = Tick(f[i - 1], c[i])
  <2>1. f[i] = At(i) /\ f[i - 1] = At(i - 1)
    BY <1>1
  <2> QED
    BY <1>1, <1>5, <2>1
<1> HIDE DEF f
<1>8. Through(f, t, c, [state |-> t.state, bits |-> t.bits \o bits])
  BY <1>1, <1>4, <1>6, <1>7 DEF Through
<1> QED
  BY <1>1, <1>6, <1>8 DEF Leads, c

\* Between scans it stays idle.
LEMMA LeadsIdle ==
    ASSUME NEW t \in Taps, t.state = "idle", NEW bits \in Seq(TapBits)
    PROVE  Clk(0, bits) \in Seq(TapClocks) /\ Leads(t, Clk(0, bits), t)
<1> DEFINE n == Len(bits)
           c == Clk(0, bits)
           f == [i \in 0..n |-> t]
<1>1. n \in Nat /\ c \in Seq(TapClocks) /\ Len(c) = n /\ \A i \in 1..n : c[i] = <<0, bits[i]>>
  BY ClkIs
<1>2. \A b : Tick(t, <<0, b>>) = t
  BY DEF Tick, TapNext, Taps
<1> HIDE DEF c, n
<1>3. f \in [0..n -> Taps] /\ \A i \in 0..n : f[i] = t
  OBVIOUS
<1>4. ASSUME NEW i \in 1..n PROVE f[i] = Tick(f[i - 1], c[i])
  <2>1. i \in 0..n /\ i - 1 \in 0..n
    BY <1>1
  <2> HIDE DEF f
  <2> QED
    BY <1>1, <1>2, <1>3, <2>1
<1> HIDE DEF f
<1>5. Through(f, t, c, t)
  BY <1>1, <1>3, <1>4 DEF Through
<1> QED
  BY <1>1, <1>3, <1>5 DEF Leads, c

----------------------------------------------------------------------------
(* Where the parts of a scan lead *)

Tap(s, bits) == [state |-> s, bits |-> bits]
Exit(s) == IF s = "shiftDR" THEN "exitDR" ELSE "exitIR"

\* The same bit a number of times, and a numbered piece of data.
LEMMA RepBits ==
    ASSUME NEW x \in TapBits, NEW n \in Nat
    PROVE  Rep(x, n) \in Seq(TapBits) /\ Len(Rep(x, n)) = n /\ \A i \in 1..n : Rep(x, n)[i] = x
<1> DEFINE r == [i \in 1..n |-> x]
<1>1. r \in Seq(TapBits) /\ DOMAIN r = 1..n /\ \A i \in 1..n : r[i] = x
  OBVIOUS
<1> HIDE DEF r
<1>2. Len(r) = n
  BY <1>1
<1> QED
  BY <1>1, <1>2 DEF Rep, r

LEMMA DataBits ==
    ASSUME NEW n \in Nat
    PROVE  Data(n) \in Seq(TapBits) /\ Len(Data(n)) = n /\ \A i \in 1..n : Data(n)[i] = i
<1> DEFINE r == [i \in 1..n |-> i]
<1>1. r \in Seq(TapBits) /\ DOMAIN r = 1..n /\ \A i \in 1..n : r[i] = i
  BY DEF TapBits
<1> HIDE DEF r
<1>2. Len(r) = n
  BY <1>1
<1> QED
  BY <1>1, <1>2 DEF Data, r

\* Sequences of the same length with the same elements are the same.
LEMMA SameBits ==
    ASSUME NEW s \in Seq(TapBits), NEW t \in Seq(TapBits), Len(s) = Len(t),
           \A i \in 1..Len(s) : s[i] = t[i]
    PROVE  s = t
  OBVIOUS

\* A sequence without its last bit, and that bit.
LEMMA LastBit ==
    ASSUME NEW s \in Seq(TapBits), s # <<>>
    PROVE  /\ Len(s) \in Nat \ {0} /\ s[Len(s)] \in TapBits
           /\ SubSeq(s, 1, Len(s) - 1) \in Seq(TapBits)
           /\ Append(SubSeq(s, 1, Len(s) - 1), s[Len(s)]) = s
  OBVIOUS

LEMMA JoinedBits ==
    ASSUME NEW s \in Seq(TapBits), NEW t \in Seq(TapBits)
    PROVE  /\ s \o t \in Seq(TapBits) /\ Len(s) \in Nat /\ Len(t) \in Nat
           /\ Len(s \o t) = Len(s) + Len(t)
           /\ \A i \in 1..Len(s) : (s \o t)[i] = s[i]
           /\ \A i \in (Len(s) + 1)..(Len(s) + Len(t)) : (s \o t)[i] = t[i - Len(s)]
  OBVIOUS

LEMMA AppendJoins ==
    ASSUME NEW s \in Seq(TapBits), NEW t \in Seq(TapBits), NEW x \in TapBits
    PROVE  Append(s \o t, x) = s \o Append(t, x)
  OBVIOUS

LEMMA OneMoreBit ==
    ASSUME NEW x \in TapBits, NEW n \in Nat \ {0}
    PROVE  Append(Rep(x, n - 1), x) = Rep(x, n)
<1> DEFINE a == Rep(x, n - 1)
           b == Rep(x, n)
<1>1. /\ a \in Seq(TapBits) /\ Len(a) = n - 1 /\ \A i \in 1..(n - 1) : a[i] = x
      /\ b \in Seq(TapBits) /\ Len(b) = n /\ \A i \in 1..n : b[i] = x
  <2> DEFINE l == n - 1
  <2>1. l \in Nat
    OBVIOUS
  <2> HIDE DEF l
  <2>2. Rep(x, l) \in Seq(TapBits) /\ Len(Rep(x, l)) = l /\ \A i \in 1..l : Rep(x, l)[i] = x
    BY <2>1, RepBits
  <2>3. b \in Seq(TapBits) /\ Len(b) = n /\ \A i \in 1..n : b[i] = x
    BY RepBits
  <2> QED
    BY <2>2, <2>3 DEF l
<1> HIDE DEF a, b
<1>2. Append(a, x) \in Seq(TapBits) /\ Len(Append(a, x)) = n /\ \A i \in 1..n : Append(a, x)[i] = x
  BY <1>1
<1>3. Append(a, x) = b
  BY <1>1, <1>2, SameBits
<1> QED
  BY <1>3 DEF a, b

\* One clock outside of the shift states shifts nothing.
LEMMA LeadsStay ==
    ASSUME NEW s \in TapStates \ {"shiftDR", "shiftIR"}, NEW bits \in Seq(TapBits), NEW tms \in {0, 1}
    PROVE  /\ Clk(tms, Stay) \in Seq(TapClocks)
           /\ Leads(Tap(s, bits), Clk(tms, Stay), Tap(TapNext(s, tms), bits))
<1>1. Tap(s, bits) \in Taps /\ "x" \in TapBits
  BY DEF Tap, Taps, TapBits
<1>2. Tick(Tap(s, bits), <<tms, "x">>) = Tap(TapNext(s, tms), bits)
  BY DEF Tick, Tap
<1> QED
  BY <1>1, <1>2, LeadsOne DEF Stay

LEMMA LeadsToShiftDR ==
    ASSUME NEW bits \in Seq(TapBits)
    PROVE  /\ ToShiftDR \in Seq(TapClocks)
           /\ Leads(Tap("idle", bits), ToShiftDR, Tap("shiftDR", bits))
           /\ Leads(Tap("selDR", bits), ToShiftDR, Tap("shiftIR", bits))
<1>1. /\ TapNext("idle", 1) = "selDR" /\ TapNext("selDR", 0) = "capDR" /\ TapNext("capDR", 0) = "shiftDR"
      /\ TapNext("selDR", 1) = "selIR" /\ TapNext("selIR", 0) = "capIR" /\ TapNext("capIR", 0) = "shiftIR"
  BY DEF TapNext
<1>2. /\ {"idle", "selDR", "capDR", "selIR", "capIR"} \subseteq TapStates \ {"shiftDR", "shiftIR"}
  BY DEF TapStates
<1>3. /\ Clk(1, Stay) \in Seq(TapClocks) /\ Clk(0, Stay) \in Seq(TapClocks)
      /\ Leads(Tap("idle", bits), Clk(1, Stay), Tap("selDR", bits))
      /\ Leads(Tap("selDR", bits), Clk(0, Stay), Tap("capDR", bits))
      /\ Leads(Tap("capDR", bits), Clk(0, Stay), Tap("shiftDR", bits))
      /\ Leads(Tap("selDR", bits), Clk(1, Stay), Tap("selIR", bits))
      /\ Leads(Tap("selIR", bits), Clk(0, Stay), Tap("capIR", bits))
      /\ Leads(Tap("capIR", bits), Clk(0, Stay), Tap("shiftIR", bits))
  BY <1>1, <1>2, LeadsStay
<1>4. /\ Clk(1, Stay) \o Clk(0, Stay) \in Seq(TapClocks)
      /\ Leads(Tap("idle", bits), Clk(1, Stay) \o Clk(0, Stay), Tap("capDR", bits))
      /\ Leads(Tap("selDR", bits), Clk(1, Stay) \o Clk(0, Stay), Tap("capIR", bits))
  BY <1>3, LeadsOn
<1> QED
  BY <1>3, <1>4, LeadsOn DEF ToShiftDR

LEMMA LeadsToShiftIR ==
    ASSUME NEW bits \in Seq(TapBits)
    PROVE  ToShiftIR \in Seq(TapClocks) /\ Leads(Tap("idle", bits), ToShiftIR, Tap("shiftIR", bits))
<1>1. "idle" \in TapStates \ {"shiftDR", "shiftIR"} /\ TapNext("idle", 1) = "selDR"
  BY DEF TapStates, TapNext
<1>2. Clk(1, Stay) \in Seq(TapClocks) /\ Leads(Tap("idle", bits), Clk(1, Stay), Tap("selDR", bits))
  BY <1>1, LeadsStay
<1> QED
  BY <1>2, LeadsToShiftDR, LeadsOn DEF ToShiftIR

LEMMA LeadsToIdle ==
    ASSUME NEW bits \in Seq(TapBits), NEW s \in {"exitDR", "exitIR"}
    PROVE  ToIdle \in Seq(TapClocks) /\ Leads(Tap(s, bits), ToIdle, Tap("idle", bits))
<1>1. /\ s \in TapStates \ {"shiftDR", "shiftIR"} /\ "update" \in TapStates \ {"shiftDR", "shiftIR"}
      /\ TapNext(s, 1) = "update" /\ TapNext("update", 0) = "idle"
  BY DEF TapStates, TapNext
<1>2. /\ Clk(1, Stay) \in Seq(TapClocks) /\ Leads(Tap(s, bits), Clk(1, Stay), Tap("update", bits))
      /\ Clk(0, Stay) \in Seq(TapClocks) /\ Leads(Tap("update", bits), Clk(0, Stay), Tap("idle", bits))
  BY <1>1, LeadsStay
<1> QED
  BY <1>2, LeadsOn DEF ToIdle

\* The last bit of a scan, with TMS high.
LEMMA LeadsExit ==
    ASSUME NEW s \in {"shiftDR", "shiftIR"}, NEW bits \in Seq(TapBits), NEW x \in TapBits
    PROVE  /\ Clk(1, <<x>>) \in Seq(TapClocks)
           /\ Leads(Tap(s, bits), Clk(1, <<x>>), Tap(Exit(s), Append(bits, x)))
<1>1. Tap(s, bits) \in Taps
  BY DEF Tap, Taps, TapStates
<1>2. Tick(Tap(s, bits), <<1, x>>) = Tap(Exit(s), Append(bits, x))
  BY DEF Tick, Tap, TapNext, Exit
<1> QED
  BY <1>1, <1>2, LeadsOne

\* Bits at a low TMS.
LEMMA LeadsIn ==
    ASSUME NEW s \in {"shiftDR", "shiftIR"}, NEW b \in Seq(TapBits), NEW bits \in Seq(TapBits)
    PROVE  /\ Clk(0, bits) \in Seq(TapClocks)
           /\ Leads(Tap(s, b), Clk(0, bits), Tap(s, b \o bits))
<1>1. Tap(s, b) \in Taps /\ Tap(s, b).state = s /\ Tap(s, b).bits = b
  BY DEF Tap, Taps, TapStates
<1> QED
  BY <1>1, LeadsShift DEF Tap

\* A whole shift: the bits of the device, and of those after it.
LEMMA LeadsOut ==
    ASSUME NEW s \in {"shiftDR", "shiftIR"}, NEW b \in Seq(TapBits),
           NEW bits \in Seq(TapBits), bits # <<>>, NEW fill \in TapBits, NEW n \in Nat
    PROVE  /\ ShiftOut(bits, fill, n) \in Seq(TapClocks)
           /\ Leads(Tap(s, b), ShiftOut(bits, fill, n), Tap(Exit(s), (b \o bits) \o Rep(fill, n)))
<1>0. b \o bits \in Seq(TapBits)
  OBVIOUS
<1>1. CASE n = 0
  <2> DEFINE m == Len(bits)
             front == SubSeq(bits, 1, m - 1)
  <2>1. front \in Seq(TapBits) /\ bits[m] \in TapBits /\ Append(front, bits[m]) = bits
    BY LastBit
  <2>2. b \o front \in Seq(TapBits) /\ Append(b \o front, bits[m]) = b \o bits
    <3> HIDE DEF front, m
    <3>1. b \o front \in Seq(TapBits)
      BY <2>1
    <3>2. Append(b \o front, bits[m]) = b \o Append(front, bits[m])
      BY <2>1, AppendJoins
    <3> QED
      BY <2>1, <3>1, <3>2
  <2>3. (b \o bits) \o Rep(fill, n) = b \o bits
    BY <1>0, <1>1 DEF Rep
  <2>4. ShiftOut(bits, fill, n) = Clk(0, front) \o Clk(1, <<bits[m]>>)
    BY <1>1 DEF ShiftOut
  <2> HIDE DEF front, m
  <2>5. /\ Clk(0, front) \in Seq(TapClocks) /\ Clk(1, <<bits[m]>>) \in Seq(TapClocks)
        /\ Leads(Tap(s, b), Clk(0, front), Tap(s, b \o front))
        /\ Leads(Tap(s, b \o front), Clk(1, <<bits[m]>>), Tap(Exit(s), b \o bits))
    BY <2>1, <2>2, LeadsIn, LeadsExit
  <2> QED
    BY <2>3, <2>4, <2>5, LeadsOn
<1>2. CASE n # 0
  <2> DEFINE more == Rep(fill, n - 1)
             all == b \o bits
  <2>1. more \in Seq(TapBits) /\ Append(more, fill) = Rep(fill, n)
    <3>1. n \in Nat \ {0} /\ n - 1 \in Nat
      BY <1>2
    <3> QED
      BY <3>1, RepBits, OneMoreBit
  <2>2. all \in Seq(TapBits)
    OBVIOUS
  <2>3. Bypass(fill, 1) = <<fill>> /\ Bypass(fill, n - 1) = more
    BY DEF Bypass, Rep
  <2>4. ShiftOut(bits, fill, n) = (Clk(0, bits) \o Clk(0, more)) \o Clk(1, <<fill>>)
    BY <1>2, <2>3 DEF ShiftOut
  <2> HIDE DEF more, all
  <2>5. all \o more \in Seq(TapBits) /\ Append(all \o more, fill) = all \o Rep(fill, n)
    <3>1. all \o more \in Seq(TapBits)
      BY <2>1, <2>2
    <3>2. Append(all \o more, fill) = all \o Append(more, fill)
      BY <2>1, <2>2, AppendJoins
    <3> QED
      BY <2>1, <3>1, <3>2
  <2>6. /\ Clk(0, bits) \in Seq(TapClocks) /\ Clk(0, more) \in Seq(TapClocks)
        /\ Clk(1, <<fill>>) \in Seq(TapClocks)
        /\ Leads(Tap(s, b), Clk(0, bits), Tap(s, all))
        /\ Leads(Tap(s, all), Clk(0, more), Tap(s, all \o more))
        /\ Leads(Tap(s, all \o more), Clk(1, <<fill>>), Tap(Exit(s), all \o Rep(fill, n)))
    BY <2>1, <2>2, <2>5, LeadsIn, LeadsExit DEF all
  <2>7. /\ Clk(0, bits) \o Clk(0, more) \in Seq(TapClocks)
        /\ Leads(Tap(s, b), Clk(0, bits) \o Clk(0, more), Tap(s, all \o more))
    BY <2>6, LeadsOn
  <2>8. /\ ShiftOut(bits, fill, n) \in Seq(TapClocks)
        /\ Leads(Tap(s, b), ShiftOut(bits, fill, n), Tap(Exit(s), all \o Rep(fill, n)))
    <3> DEFINE head == Clk(0, bits) \o Clk(0, more)
               end == Clk(1, <<fill>>)
               t == Tap(s, b)
               u == Tap(s, all \o more)
               v == Tap(Exit(s), all \o Rep(fill, n))
    <3>1. /\ head \in Seq(TapClocks) /\ end \in Seq(TapClocks)
          /\ Leads(t, head, u) /\ Leads(u, end, v)
      BY <2>6, <2>7
    <3> HIDE DEF head, end, t, u, v
    <3>2. head \o end \in Seq(TapClocks) /\ Leads(t, head \o end, v)
      BY <3>1, LeadsOn
    <3> QED
      BY <2>4, <3>2 DEF head, end, t, v
  <2> QED
    BY <2>8 DEF all
<1> QED
  BY <1>1, <1>2

----------------------------------------------------------------------------
(* The bits each scan shifts *)

\* A scan of the data register ends idle, whether or not clocks follow it.
LEMMA DataScan ==
    ASSUME NEW p \in Nat, NEW mid \in Seq(TapClocks), NEW bits \in Seq(TapBits),
           Leads(Tap("shiftDR", Rep("x", p)), mid, Tap("exitDR", bits)), NEW more \in Nat
    PROVE  LET scan == ToShiftDR \o Clk(0, Bypass("x", p)) \o mid \o ToIdle
           IN  /\ TapRun(scan) = Tap("idle", bits)
               /\ TapRun(scan \o Clk(0, Rep("x", more))) = Tap("idle", bits)
<1> DEFINE r == Rep("x", p)
           c == Clk(0, r)
           idle == Clk(0, Rep("x", more))
<1>1. "x" \in TapBits /\ <<>> \in Seq(TapBits) /\ AtStart = Tap("idle", <<>>)
  BY DEF TapBits, AtStart, Tap
<1>2. r \in Seq(TapBits) /\ Rep("x", more) \in Seq(TapBits)
  BY <1>1, RepBits
<1>3. <<>> \o r = r
  BY <1>2
<1>4. ToShiftDR \in Seq(TapClocks) /\ Leads(AtStart, ToShiftDR, Tap("shiftDR", <<>>))
  BY <1>1, LeadsToShiftDR
<1>5. c \in Seq(TapClocks) /\ Leads(Tap("shiftDR", <<>>), c, Tap("shiftDR", r))
  BY <1>1, <1>2, <1>3, LeadsIn
<1>6. ToIdle \in Seq(TapClocks) /\ Leads(Tap("exitDR", bits), ToIdle, Tap("idle", bits))
  BY LeadsToIdle
<1>7. idle \in Seq(TapClocks) /\ Leads(Tap("idle", bits), idle, Tap("idle", bits))
  <2>1. Tap("idle", bits) \in Taps /\ Tap("idle", bits).state = "idle"
    BY DEF Tap, Taps, TapStates
  <2> QED
    BY <1>2, <2>1, LeadsIdle
<1> HIDE DEF r, c, idle
<1>8. ToShiftDR \o c \in Seq(TapClocks) /\ Leads(AtStart, ToShiftDR \o c, Tap("shiftDR", r))
  BY <1>4, <1>5, LeadsOn
<1>9. ToShiftDR \o c \o mid \in Seq(TapClocks) /\ Leads(AtStart, ToShiftDR \o c \o mid, Tap("exitDR", bits))
  BY <1>8, LeadsOn DEF r
<1>10. /\ ToShiftDR \o c \o mid \o ToIdle \in Seq(TapClocks)
       /\ Leads(AtStart, ToShiftDR \o c \o mid \o ToIdle, Tap("idle", bits))
  BY <1>6, <1>9, LeadsOn
<1>11. /\ ToShiftDR \o c \o mid \o ToIdle \o idle \in Seq(TapClocks)
       /\ Leads(AtStart, ToShiftDR \o c \o mid \o ToIdle \o idle, Tap("idle", bits))
  BY <1>7, <1>10, LeadsOn
<1>12. TapRun(ToShiftDR \o c \o mid \o ToIdle) = Tap("idle", bits)
  BY <1>10, TapRunIs
<1>13. TapRun(ToShiftDR \o c \o mid \o ToIdle \o idle) = Tap("idle", bits)
  BY <1>11, TapRunIs
<1> QED
  BY <1>12, <1>13 DEF r, c, idle, Bypass

\* The data of one device between the bypass bits of the others.
Framed(fill, p, m, n) == (Rep(fill, p) \o Data(m)) \o Rep(fill, n)

LEMMA InstructionBits ==
    ASSUME NEW d, jtag_dev.ir_before[d] \in Nat, jtag_dev.ir_after[d] \in Nat,
           jtag_dev.ir_length[d] \in Nat \ {0}
    PROVE  TapRun(JTAG_IR(d)) = Tap("idle", Framed("1", jtag_dev.ir_before[d], jtag_dev.ir_length[d],
                                                   jtag_dev.ir_after[d]))
<1> DEFINE p == jtag_dev.ir_before[d]
           m == jtag_dev.ir_length[d]
           n == jtag_dev.ir_after[d]
           r == Rep("1", p)
           all == Framed("1", p, m, n)
           c == Clk(0, r)
           out == ShiftOut(Data(m), "1", n)
<1> HIDE DEF p, m, n
<1>0. p \in Nat /\ m \in Nat \ {0} /\ n \in Nat
  BY DEF p, m, n
<1>1. "1" \in TapBits /\ <<>> \in Seq(TapBits) /\ AtStart = Tap("idle", <<>>)
  BY DEF TapBits, AtStart, Tap
<1>2. r \in Seq(TapBits) /\ Rep("1", n) \in Seq(TapBits) /\ Data(m) \in Seq(TapBits) /\ Data(m) # <<>>
  <2>1. Data(m) \in Seq(TapBits) /\ Len(Data(m)) = m
    BY <1>0, DataBits
  <2> QED
    BY <1>0, <1>1, <2>1, RepBits
<1>3. <<>> \o r = r /\ all \in Seq(TapBits)
  BY <1>2 DEF Framed
<1>4. ToShiftIR \in Seq(TapClocks) /\ Leads(AtStart, ToShiftIR, Tap("shiftIR", <<>>))
  BY <1>1, LeadsToShiftIR
<1>5. c \in Seq(TapClocks) /\ Leads(Tap("shiftIR", <<>>), c, Tap("shiftIR", r))
  BY <1>1, <1>2, <1>3, LeadsIn
<1>6. out \in Seq(TapClocks) /\ Leads(Tap("shiftIR", r), out, Tap("exitIR", all))
  <2>1. Exit("shiftIR") = "exitIR"
    BY DEF Exit
  <2> QED
    BY <1>0, <1>1, <1>2, <2>1, LeadsOut DEF Framed
<1>7. ToIdle \in Seq(TapClocks) /\ Leads(Tap("exitIR", all), ToIdle, Tap("idle", all))
  BY <1>3, LeadsToIdle
<1> HIDE DEF r, c, all, out
<1>8. ToShiftIR \o c \in Seq(TapClocks) /\ Leads(AtStart, ToShiftIR \o c, Tap("shiftIR", r))
  BY <1>4, <1>5, LeadsOn
<1>9. ToShiftIR \o c \o out \in Seq(TapClocks) /\ Leads(AtStart, ToShiftIR \o c \o out, Tap("exitIR", all))
  BY <1>6, <1>8, LeadsOn
<1>10. /\ ToShiftIR \o c \o out \o ToIdle \in Seq(TapClocks)
       /\ Leads(AtStart, ToShiftIR \o c \o out \o ToIdle, Tap("idle", all))
  BY <1>7, <1>9, LeadsOn
<1>11. TapRun(ToShiftIR \o c \o out \o ToIdle) = Tap("idle", all)
  BY <1>10, TapRunIs
<1> QED
  BY <1>11 DEF JTAG_IR, r, c, all, out, p, m, n, Bypass

\* The scans of the data register.
LEMMA DataScanBits ==
    ASSUME NEW d, d - 1 \in Nat, After(d) \in Nat, idle_cycles \in Nat, NEW ack
    PROVE  /\ TapRun(JTAG_ReadIDCode(d)) = Tap("idle", Framed("x", d - 1, 32, 0))
           /\ TapRun(JTAG_WriteAbort(d)) = Tap("idle", Framed("x", d - 1, 35, After(d)))
           /\ ack = "OK" => TapRun(JTAG_Transfer(d, ack)) = Tap("idle", Framed("x", d - 1, 35, After(d)))
           /\ ack # "OK" => TapRun(JTAG_Transfer(d, ack)) = Tap("idle", Framed("x", d - 1, 3, 1))
<1> DEFINE p == d - 1
           r == Rep("x", p)
           mid == Clk(0, Data(3)) \o Clk(1, Stay)
<1>1. "x" \in TapBits /\ Exit("shiftDR") = "exitDR"
  BY DEF TapBits, Exit
<1>2. p \in Nat /\ r \in Seq(TapBits)
  BY <1>1, RepBits
<1>3. ASSUME NEW m \in {32, 35}, NEW n \in Nat
      PROVE  /\ Framed("x", p, m, n) \in Seq(TapBits)
             /\ ShiftOut(Data(m), "x", n) \in Seq(TapClocks)
             /\ Leads(Tap("shiftDR", r), ShiftOut(Data(m), "x", n), Tap("exitDR", Framed("x", p, m, n)))
  <2>1. Data(m) \in Seq(TapBits) /\ Len(Data(m)) = m
    BY DataBits
  <2>2. Data(m) # <<>> /\ Rep("x", n) \in Seq(TapBits)
    BY <1>1, <2>1, RepBits
  <2> HIDE DEF r, p
  <2>3. Framed("x", p, m, n) = (r \o Data(m)) \o Rep("x", n)
    BY DEF Framed, r
  <2>4. Framed("x", p, m, n) \in Seq(TapBits)
    <3> DEFINE rd == r \o Data(m)
               end == Rep("x", n)
    <3>1. rd \in Seq(TapBits) /\ end \in Seq(TapBits)
      BY <1>2, <2>1, <2>2
    <3> HIDE DEF rd, end
    <3>2. rd \o end \in Seq(TapBits)
      BY <3>1
    <3> QED
      BY <2>3, <3>2 DEF rd, end
  <2> QED
    BY <1>1, <1>2, <2>1, <2>2, <2>3, <2>4, LeadsOut
<1>4. /\ (r \o Data(3)) \o <<"x">> \in Seq(TapBits) /\ mid \in Seq(TapClocks)
      /\ Leads(Tap("shiftDR", r), mid, Tap("exitDR", (r \o Data(3)) \o <<"x">>))
  <2>1. Data(3) \in Seq(TapBits)
    BY DataBits
  <2> DEFINE all == r \o Data(3)
  <2>2. all \in Seq(TapBits)
    BY <1>2, <2>1
  <2>3. Clk(0, Data(3)) \in Seq(TapClocks) /\ Leads(Tap("shiftDR", r), Clk(0, Data(3)), Tap("shiftDR", all))
    BY <1>2, <2>1, LeadsIn
  <2> HIDE DEF all, r
  <2>4. Append(all, "x") = all \o <<"x">> /\ all \o <<"x">> \in Seq(TapBits)
    BY <1>1, <2>2
  <2>5. Clk(1, Stay) \in Seq(TapClocks) /\ Leads(Tap("shiftDR", all), Clk(1, Stay), Tap("exitDR", all \o <<"x">>))
    BY <1>1, <2>2, <2>4, LeadsExit DEF Stay
  <2>6. mid \in Seq(TapClocks) /\ Leads(Tap("shiftDR", r), mid, Tap("exitDR", all \o <<"x">>))
    BY <2>3, <2>5, LeadsOn
  <2> QED
    BY <2>4, <2>6 DEF all
<1> HIDE DEF mid
<1>5. TapRun(JTAG_ReadIDCode(d)) = Tap("idle", Framed("x", p, 32, 0))
  BY <1>2, <1>3, DataScan DEF JTAG_ReadIDCode
<1>6. TapRun(JTAG_WriteAbort(d)) = Tap("idle", Framed("x", p, 35, After(d)))
  BY <1>2, <1>3, DataScan DEF JTAG_WriteAbort
<1>7. ASSUME ack = "OK" PROVE TapRun(JTAG_Transfer(d, ack)) = Tap("idle", Framed("x", p, 35, After(d)))
  <2>1. JTAG_Transfer(d, ack) = ToShiftDR \o Clk(0, Bypass("x", p)) \o ShiftOut(Data(35), "x", After(d))
                                \o ToIdle \o Clk(0, Rep("x", idle_cycles))
    BY <1>7 DEF JTAG_Transfer
  <2> DEFINE out == ShiftOut(Data(35), "x", After(d))
             all == Framed("x", p, 35, After(d))
  <2>2. all \in Seq(TapBits) /\ out \in Seq(TapClocks) /\ Leads(Tap("shiftDR", r), out, Tap("exitDR", all))
    BY <1>3
  <2> HIDE DEF out, all
  <2>3. TapRun(ToShiftDR \o Clk(0, Bypass("x", p)) \o out \o ToIdle \o Clk(0, Rep("x", idle_cycles)))
           = Tap("idle", all)
    BY <1>2, <2>2, DataScan
  <2> QED
    BY <2>1, <2>3 DEF out, all
<1>8. ASSUME ack # "OK" PROVE TapRun(JTAG_Transfer(d, ack)) = Tap("idle", Framed("x", p, 3, 1))
  <2>1. Rep("x", 1) = <<"x">>
    BY DEF Rep
  <2>2. TapRun(JTAG_Transfer(d, ack)) = Tap("idle", (r \o Data(3)) \o <<"x">>)
    BY <1>2, <1>4, <1>8, DataScan DEF JTAG_Transfer, mid
  <2> QED
    BY <2>1, <2>2 DEF Framed
<1> QED
  BY <1>5, <1>6, <1>7, <1>8

----------------------------------------------------------------------------
(* The bits that reach each device *)

\* The frame's length, and what is where in it.
Laid(bits, fill, p, m, n) ==
    /\ bits \in Seq(TapBits) /\ Len(bits) = p + m + n
    /\ \A i \in 1..p : bits[i] = fill
    /\ \A i \in 1..m : bits[p + i] = i
    /\ \A i \in (p + m + 1)..(p + m + n) : bits[i] = fill

LEMMA FrameIsLaid ==
    ASSUME NEW fill \in TapBits, NEW p \in Nat, NEW m \in Nat, NEW n \in Nat
    PROVE  Laid(Framed(fill, p, m, n), fill, p, m, n)
<1> DEFINE a == Rep(fill, p)
           b == Data(m)
           c == Rep(fill, n)
<1>1. /\ a \in Seq(TapBits) /\ Len(a) = p /\ \A i \in 1..p : a[i] = fill
      /\ b \in Seq(TapBits) /\ Len(b) = m /\ \A i \in 1..m : b[i] = i
      /\ c \in Seq(TapBits) /\ Len(c) = n /\ \A i \in 1..n : c[i] = fill
  BY RepBits, DataBits
<1> HIDE DEF a, b, c
<1> DEFINE ab == a \o b
<1>2. /\ ab \in Seq(TapBits) /\ Len(ab) = p + m
      /\ \A i \in 1..p : ab[i] = a[i]
      /\ \A i \in (p + 1)..(p + m) : ab[i] = b[i - p]
  BY <1>1, JoinedBits
<1> HIDE DEF ab
<1> DEFINE bits == ab \o c
<1>3. /\ bits \in Seq(TapBits) /\ Len(bits) = p + m + n
      /\ \A i \in 1..(p + m) : bits[i] = ab[i]
      /\ \A i \in (p + m + 1)..(p + m + n) : bits[i] = c[i - (p + m)]
  <2>1. /\ Len(ab \o c) = Len(ab) + Len(c) /\ ab \o c \in Seq(TapBits)
        /\ \A i \in 1..Len(ab) : (ab \o c)[i] = ab[i]
        /\ \A i \in (Len(ab) + 1)..(Len(ab) + Len(c)) : (ab \o c)[i] = c[i - Len(ab)]
    BY <1>1, <1>2, JoinedBits
  <2>2. Len(ab) = p + m /\ Len(c) = n
    BY <1>1, <1>2
  <2> HIDE DEF bits
  <2>3. bits = ab \o c
    BY DEF bits
  <2> QED
    BY <2>1, <2>2, <2>3
<1> HIDE DEF bits
<1>4. \A i \in 1..p : bits[i] = fill
  BY <1>1, <1>2, <1>3
<1>5. ASSUME NEW i \in 1..m PROVE bits[p + i] = i
  <2>1. p + i \in 1..(p + m) /\ p + i \in (p + 1)..(p + m) /\ (p + i) - p = i
    OBVIOUS
  <2> QED
    BY <1>1, <1>2, <1>3, <2>1
<1>6. \A i \in (p + m + 1)..(p + m + n) : bits[i] = fill
  <2>1. \A i \in (p + m + 1)..(p + m + n) : i - (p + m) \in 1..n
    OBVIOUS
  <2> QED
    BY <1>1, <1>3, <2>1
<1>7. bits = Framed(fill, p, m, n)
  BY DEF bits, ab, a, b, c, Framed
<1> QED
  BY <1>3, <1>4, <1>5, <1>6, <1>7 DEF Laid

\* A slice is known by its elements.
LEMMA SliceIs ==
    ASSUME NEW s \in Seq(TapBits), NEW a \in Nat, NEW m \in Nat, a + m <= Len(s),
           NEW t \in Seq(TapBits), Len(t) = m, \A i \in 1..m : s[a + i] = t[i]
    PROVE  SubSeq(s, a + 1, a + m) = t
<1> DEFINE u == SubSeq(s, a + 1, a + m)
<1>1. u \in Seq(TapBits) /\ Len(u) = m /\ \A i \in 1..m : u[i] = s[a + i]
  OBVIOUS
<1> HIDE DEF u
<1>2. u = t
  BY <1>1, SameBits
<1> QED
  BY <1>2 DEF u

\* The slice of the addressed device.
LEMMA DataSlice ==
    ASSUME NEW fill \in TapBits, NEW p \in Nat, NEW m \in Nat, NEW n \in Nat
    PROVE  SubSeq(Framed(fill, p, m, n), p + 1, p + m) = Data(m)
<1>1. /\ Data(m) \in Seq(TapBits) /\ Len(Data(m)) = m /\ \A i \in 1..m : Data(m)[i] = i
  BY DataBits
<1> DEFINE bits == Framed(fill, p, m, n)
<1> HIDE DEF bits
<1>2. /\ bits \in Seq(TapBits) /\ Len(bits) = p + m + n
      /\ \A i \in 1..p : bits[i] = fill
      /\ \A i \in 1..m : bits[p + i] = i
      /\ \A i \in (p + m + 1)..(p + m + n) : bits[i] = fill
  <2>1. Laid(bits, fill, p, m, n)
    BY FrameIsLaid DEF bits
  <2> QED
    BY <2>1 DEF Laid
<1>3. SubSeq(bits, p + 1, p + m) = Data(m)
  <2> DEFINE t == Data(m)
  <2>1. p + m <= Len(bits) /\ \A i \in 1..m : bits[p + i] = t[i]
    BY <1>1, <1>2
  <2>2. t \in Seq(TapBits) /\ Len(t) = m
    BY <1>1
  <2> HIDE DEF t
  <2>3. SubSeq(bits, p + 1, p + m) = t
    BY <1>2, <2>1, <2>2, SliceIs
  <2> QED
    BY <2>3 DEF t
<1> QED
  BY <1>3 DEF bits

\* The slice of another one.
Cut(fill, p, m, n, b, c) == SubSeq(Framed(fill, p, m, n), b, c)

LEMMA BypassSlice ==
    ASSUME NEW fill \in TapBits, NEW p \in Nat, NEW m \in Nat, NEW n \in Nat,
           NEW b \in Nat \ {0}, NEW l \in Nat, NEW c \in Nat, c = b - 1 + l,
           c <= p \/ (p + m < b /\ c <= p + m + n)
    PROVE  Cut(fill, p, m, n, b, c) = Rep(fill, l)
<1>1. /\ Rep(fill, l) \in Seq(TapBits) /\ Len(Rep(fill, l)) = l /\ \A i \in 1..l : Rep(fill, l)[i] = fill
  BY RepBits
<1> DEFINE bits == Framed(fill, p, m, n)
           a == b - 1
<1>0. a \in Nat /\ b = a + 1 /\ c = a + l /\ (a + l <= p \/ (p + m <= a /\ a + l <= p + m + n))
  OBVIOUS
<1> HIDE DEF bits, a
<1>2. /\ bits \in Seq(TapBits) /\ Len(bits) = p + m + n
      /\ \A i \in 1..p : bits[i] = fill
      /\ \A i \in 1..m : bits[p + i] = i
      /\ \A i \in (p + m + 1)..(p + m + n) : bits[i] = fill
  <2>1. Laid(bits, fill, p, m, n)
    BY FrameIsLaid DEF bits
  <2> QED
    BY <2>1 DEF Laid
<1>3. a + l <= Len(bits) /\ \A i \in 1..l : bits[a + i] = fill
  <2>1. ASSUME NEW i \in 1..l PROVE a + i \in 1..p \/ a + i \in (p + m + 1)..(p + m + n)
    BY <1>0
  <2> QED
    BY <1>0, <1>2, <2>1
<1>4. SubSeq(bits, a + 1, a + l) = Rep(fill, l)
  BY <1>0, <1>1, <1>2, <1>3, SliceIs
<1> QED
  BY <1>0, <1>4 DEF bits, Cut

----------------------------------------------------------------------------
(* Scans reach their device *)

\* What DAP_JTAG_Configure makes of the lengths the host gives.
Configured(lengths) ==
    LET n == Len(lengths)
    IN  [ir_length |-> lengths,
         ir_before |-> [i \in 1..n |-> Sum(SubSeq(lengths, 1, i - 1))],
         ir_after  |-> [i \in 1..n |-> Sum(lengths) - Sum(SubSeq(lengths, 1, i))]]

\* The scans of the data register, with the configuration of this moment.
DataScans(d) ==
    {[kind |-> "idcode", clocks |-> JTAG_ReadIDCode(d)],
     [kind |-> "abort", clocks |-> JTAG_WriteAbort(d)]} \cup
    {[kind |-> IF ack = "OK" THEN "dr" ELSE "refused", clocks |-> JTAG_Transfer(d, ack)] : ack \in Acks}

ScanMade ==
    last.op = "jtag" =>
       /\ OnChain(last.dev)
       /\ \E scan \in DataScans(last.dev) :
             last.scans = <<[kind |-> "ir", clocks |-> JTAG_IR(last.dev)], scan>>

ScanInv ==
    /\ idle_cycles \in Nat
    /\ \E lengths \in Seq(1..255) : jtag_dev = Configured(lengths)
    /\ ScanMade

LEMMA ScansMade ==
    ASSUME ScanInv, NEW d, NEW kind, NEW clocks, Scans(d, kind, clocks), OnChain(d),
           [kind |-> kind, clocks |-> clocks] \in DataScans(d)
    PROVE  ScanInv'
<1>1. /\ last' = [op |-> "jtag", dev |-> d,
                  scans |-> <<[kind |-> "ir", clocks |-> JTAG_IR(d)], [kind |-> kind, clocks |-> clocks]>>]
      /\ UNCHANGED <<idle_cycles, jtag_dev>>
  BY DEF Scans, LineOp
<1>2. /\ idle_cycles' \in Nat /\ \E lengths \in Seq(1..255) : jtag_dev' = Configured(lengths)
  BY <1>1 DEF ScanInv
<1>3. last'.dev = d /\ last'.scans = <<[kind |-> "ir", clocks |-> JTAG_IR(d)], [kind |-> kind, clocks |-> clocks]>>
  BY <1>1
<1>4. ScanMade'
  <2>1. JTAG_IR(last.dev)' = JTAG_IR(d) /\ OnChain(last.dev)' = OnChain(d)
    BY <1>1, <1>3 DEF JTAG_IR, OnChain
  <2>2. JTAG_ReadIDCode(last.dev)' = JTAG_ReadIDCode(d)
    BY <1>3 DEF JTAG_ReadIDCode
  <2>3. JTAG_WriteAbort(last.dev)' = JTAG_WriteAbort(d)
    BY <1>1, <1>3 DEF JTAG_WriteAbort, After
  <2>4. ASSUME NEW ack PROVE JTAG_Transfer(last.dev, ack)' = JTAG_Transfer(d, ack)
    BY <1>1, <1>3 DEF JTAG_Transfer, After
  <2>5. DataScans(last.dev)' = DataScans(d)
    BY <2>2, <2>3, <2>4 DEF DataScans
  <2> QED
    BY <1>3, <2>1, <2>5 DEF ScanMade
<1> QED
  BY <1>2, <1>4 DEF ScanInv, Configured

LEMMA ScanInvStep ==
    ASSUME ScanInv, [Next]_interpVars
    PROVE  ScanInv'
<1>0. idle_cycles \in Nat /\ (\E lengths \in Seq(1..255) : jtag_dev = Configured(lengths)) /\ ScanMade
  BY DEF ScanInv
<1>1. ASSUME UNCHANGED portVars PROVE ScanInv'
  <2>1. UNCHANGED <<last, idle_cycles, jtag_dev>>
    BY <1>1 DEF portVars
  <2>2. JTAG_IR(last.dev)' = JTAG_IR(last.dev) /\ OnChain(last.dev)' = OnChain(last.dev)
    BY <2>1 DEF JTAG_IR, OnChain
  <2>3. JTAG_ReadIDCode(last.dev)' = JTAG_ReadIDCode(last.dev)
    BY <2>1 DEF JTAG_ReadIDCode
  <2>4. JTAG_WriteAbort(last.dev)' = JTAG_WriteAbort(last.dev)
    BY <2>1 DEF JTAG_WriteAbort, After
  <2>5. ASSUME NEW ack PROVE JTAG_Transfer(last.dev, ack)' = JTAG_Transfer(last.dev, ack)
    BY <2>1 DEF JTAG_Transfer, After
  <2>6. DataScans(last.dev)' = DataScans(last.dev)
    BY <2>3, <2>4, <2>5 DEF DataScans
  <2>7. ScanMade'
    BY <1>0, <2>1, <2>2, <2>6 DEF ScanMade
  <2> QED
    BY <1>0, <2>1, <2>7 DEF ScanInv, Configured
<1>2. ASSUME last'.op # "jtag", UNCHANGED jtag_dev, idle_cycles' \in Nat PROVE ScanInv'
  BY <1>0, <1>2 DEF ScanInv, ScanMade, Configured
<1>3. ASSUME NEW o, LineOp(o), o.op # "jtag" PROVE ScanInv'
  <2>1. last' = o /\ UNCHANGED <<jtag_dev, idle_cycles>>
    BY <1>3 DEF LineOp
  <2> QED
    BY <1>0, <1>2, <1>3, <2>1
<1>4. Quiet.op # "jtag"
  BY DEF Quiet
<1>5. ASSUME NEW port, DAP_Connect(port) PROVE ScanInv'
  BY <1>0, <1>2, <1>4, <1>5 DEF DAP_Connect
<1>6. ASSUME NEW clock, DAP_SWJ_Clock(clock) PROVE ScanInv'
  BY <1>0, <1>2, <1>4, <1>6 DEF DAP_SWJ_Clock
<1>7. CASE DAP_Disconnect \/ DAP_SWJ_Pins
  BY <1>0, <1>2, <1>4, <1>7 DEF DAP_Disconnect, DAP_SWJ_Pins
<1>8. ASSUME NEW field, NEW phase, DAP_SWD_Configure(field, phase) PROVE ScanInv'
  BY <1>0, <1>2, <1>4, <1>8 DEF DAP_SWD_Configure
<1>9. ASSUME NEW idle \in IdleCycles, NEW count, NEW match, DAP_TransferConfigure(idle, count, match)
      PROVE  ScanInv'
  BY <1>0, <1>2, <1>4, <1>9, SwjPortAssumption DEF DAP_TransferConfigure
<1>10. ASSUME NEW lengths \in Chains, DAP_JTAG_Configure(lengths) PROVE ScanInv'
  <2>1. lengths \in Seq(1..255)
    BY SwjPortAssumption
  <2>2. jtag_dev' = Configured(lengths) /\ last' = Quiet /\ idle_cycles' = idle_cycles
    BY <1>10 DEF DAP_JTAG_Configure, Configured
  <2> QED
    BY <1>0, <1>4, <2>1, <2>2 DEF ScanInv, ScanMade, Configured
<1>11. ASSUME NEW rnw, NEW ack, SWD_Transfer(rnw, ack) PROVE ScanInv'
  BY <1>3, <1>11 DEF SWD_Transfer, SwdOp
<1>12. ASSUME NEW ack, DAP_ResetTarget(ack) PROVE ScanInv'
  BY <1>3, <1>4, <1>12 DEF DAP_ResetTarget, SwdOp
<1>13. ASSUME NEW n, SWD_Sequence(n) \/ JTAG_Sequence(n) \/ SWJ_Sequence(n) PROVE ScanInv'
  <2>1. CASE SWJ_Sequence(n)
    BY <1>3, <2>1 DEF SWJ_Sequence
  <2>2. CASE JTAG_Sequence(n)
    BY <1>3, <2>2 DEF JTAG_Sequence
  <2>3. CASE SWD_Sequence(n)
    BY <1>3, <2>1, <2>3 DEF SWD_Sequence
  <2> QED
    BY <1>13, <2>1, <2>2, <2>3
<1>14. ASSUME NEW d, NEW ack \in Acks, JtagAccess(d, ack) \/ DAP_JTAG_IDCode(d) \/ DAP_WriteAbort(d, ack)
       PROVE  ScanInv'
  <2>1. CASE JtagAccess(d, ack)
    BY <2>1, ScansMade DEF JtagAccess, DataScans
  <2>2. CASE DAP_JTAG_IDCode(d)
    BY <1>3, <1>4, <2>2, ScansMade DEF DAP_JTAG_IDCode, DataScans
  <2>3. CASE DAP_WriteAbort(d, ack)
    BY <1>3, <1>4, <2>3, ScansMade DEF DAP_WriteAbort, DataScans, SwdOp
  <2> QED
    BY <1>14, <2>1, <2>2, <2>3
<1>15. CASE PortNext
  BY <1>5, <1>6, <1>7, <1>8, <1>9, <1>10, <1>11, <1>12, <1>13, <1>14, <1>15 DEF PortNext
<1>16. CASE Command \/ Step \/ Reply
  BY <1>1, <1>16, TransfersKeep
<1>17. CASE UNCHANGED interpVars
  BY <1>1, <1>17 DEF interpVars
<1> QED
  BY <1>15, <1>16, <1>17 DEF Next, DAP_ProcessCommand

LEMMA ElementsAre ==
    ASSUME NEW S, NEW s \in Seq(S), NEW i \in 1..Len(s)
    PROVE  s[i] \in S
OBVIOUS

\* Lengths of instruction registers as numbers.
LEMMA LengthsAre ==
    ASSUME NEW lengths \in Seq(1..255)
    PROVE  /\ lengths \in Seq(Nat)
           /\ Len(lengths) \in Nat
           /\ \A i \in 1..Len(lengths) : lengths[i] \in Nat \ {0}
<1> DEFINE n == Len(lengths)
<1>1. n \in Nat /\ lengths = [i \in 1..n |-> lengths[i]]
  OBVIOUS
<1>2. ASSUME NEW i \in 1..n PROVE lengths[i] \in Nat /\ lengths[i] # 0
  <2> DEFINE x == lengths[i]
  <2>1. x \in 1..255
    BY ElementsAre
  <2> HIDE DEF x
  <2>2. x \in Nat /\ x # 0
    BY <2>1
  <2> QED
    BY <2>2 DEF x
<1>3. lengths \in Seq(Nat)
  BY <1>1, <1>2
<1> QED
  BY <1>1, <1>2, <1>3

\* How the bits of an instruction scan are shared.
LEMMA InstructionShares ==
    ASSUME NEW lengths \in Seq(1..255), jtag_dev = Configured(lengths)
    PROVE  \E f : /\ AddsUp(f, lengths)
                  /\ \A d, i \in 1..Len(lengths) :
                        Share("ir", d, i) = lengths[i] /\ BitsBefore("ir", d, i) = f[i - 1]
                  /\ \A d \in 1..Len(lengths) :
                        /\ jtag_dev.ir_length[d] = lengths[d]
                        /\ jtag_dev.ir_before[d] = f[d - 1]
                        /\ jtag_dev.ir_after[d] = f[Len(lengths)] - f[d]
<1> DEFINE n == Len(lengths)
<1>1. lengths \in Seq(Nat) /\ n \in Nat /\ \A i \in 1..n : lengths[i] \in Nat
  BY LengthsAre
<1>2. PICK f : AddsUp(f, lengths)
  BY <1>1, PartialSums
<1>3. ASSUME NEW m \in 0..n PROVE Sum(SubSeq(lengths, 1, m)) = f[m]
  <2> DEFINE t == SubSeq(lengths, 1, m)
  <2>1. t \in Seq(Nat) /\ Len(t) = m /\ \A i \in 1..m : t[i] = lengths[i]
    BY <1>1
  <2> HIDE DEF t
  <2>2. Sum(t) = f[m]
    BY <1>1, <1>2, <2>1, SumOfPart
  <2> QED
    BY <2>2 DEF t
<1>4. Sum(lengths) = f[n]
  BY <1>1, <1>2, SumIs
<1>5. \A d, i : Share("ir", d, i) = lengths[i]
  BY DEF Share, Configured
<1>6. ASSUME NEW d, NEW i \in 1..n PROVE BitsBefore("ir", d, i) = f[i - 1]
  <2> DEFINE t == [j \in 1..(i - 1) |-> lengths[j]]
  <2>1. BitsBefore("ir", d, i) = Sum(t)
    BY <1>5 DEF BitsBefore
  <2>2. t \in Seq(Nat) /\ DOMAIN t = 1..(i - 1) /\ \A j \in 1..(i - 1) : t[j] = lengths[j]
    BY <1>1
  <2>3. i - 1 \in 0..n
    BY <1>1
  <2> HIDE DEF t
  <2>4. Len(t) = i - 1
    BY <2>2, <2>3
  <2>5. Sum(t) = f[i - 1]
    BY <1>1, <1>2, <2>2, <2>3, <2>4, SumOfPart
  <2> QED
    BY <2>1, <2>5
<1>7. ASSUME NEW d \in 1..n
      PROVE  /\ jtag_dev.ir_length[d] = lengths[d]
             /\ jtag_dev.ir_before[d] = f[d - 1]
             /\ jtag_dev.ir_after[d] = f[n] - f[d]
  <2>1. d \in 0..n /\ d - 1 \in 0..n
    BY <1>1
  <2>2. /\ jtag_dev.ir_length[d] = lengths[d]
        /\ jtag_dev.ir_before[d] = Sum(SubSeq(lengths, 1, d - 1))
        /\ jtag_dev.ir_after[d] = Sum(lengths) - Sum(SubSeq(lengths, 1, d))
    BY DEF Configured
  <2> QED
    BY <1>3, <1>4, <2>1, <2>2
<1> QED
  BY <1>2, <1>5, <1>6, <1>7

\* An instruction reaches its device, and BYPASS the others.
LEMMA InstructionReaches ==
    ASSUME NEW lengths \in Seq(1..255), jtag_dev = Configured(lengths), NEW d, OnChain(d)
    PROVE  Reaches([kind |-> "ir", clocks |-> JTAG_IR(d)], d)
<1> DEFINE n == Len(lengths)
<1>1. /\ n \in Nat /\ d \in 1..n /\ n \in 1..n /\ Len(jtag_dev.ir_length) = n
      /\ \A i \in 1..n : lengths[i] \in Nat \ {0}
  <2>1. n \in Nat /\ \A i \in 1..n : lengths[i] \in Nat \ {0}
    BY LengthsAre
  <2>2. jtag_dev.ir_length = lengths
    BY DEF Configured
  <2>3. d \in 1..n
    BY <2>2 DEF OnChain
  <2> QED
    BY <2>1, <2>2, <2>3
<1>2. PICK f : /\ AddsUp(f, lengths)
               /\ \A e, i \in 1..n : Share("ir", e, i) = lengths[i] /\ BitsBefore("ir", e, i) = f[i - 1]
               /\ \A e \in 1..n :
                     /\ jtag_dev.ir_length[e] = lengths[e]
                     /\ jtag_dev.ir_before[e] = f[e - 1]
                     /\ jtag_dev.ir_after[e] = f[n] - f[e]
  BY InstructionShares
<1>3. /\ \A i \in 0..n : f[i] \in Nat
      /\ \A i \in 1..n : f[i] = f[i - 1] + lengths[i]
      /\ \A i, j \in 0..n : i <= j => f[i] <= f[j]
  <2>1. lengths \in Seq(Nat)
    BY LengthsAre
  <2> QED
    BY <1>2, <2>1, SumsGrow DEF AddsUp
<1> HIDE DEF n
<1> DEFINE p == f[d - 1]
           m == lengths[d]
           q == f[n] - f[d]
<1>4. p \in Nat /\ m \in Nat \ {0} /\ q \in Nat /\ p + m = f[d] /\ p + m + q = f[n]
  <2>1. d \in 0..n /\ d - 1 \in 0..n /\ n \in 0..n /\ d <= n
    BY <1>1
  <2>2. f[d - 1] \in Nat /\ f[d] \in Nat /\ f[n] \in Nat /\ f[d] <= f[n] /\ f[d] = f[d - 1] + lengths[d]
    BY <1>1, <1>3, <2>1
  <2>3. lengths[d] \in Nat /\ lengths[d] # 0
    BY <1>1
  <2> DEFINE y == f[d]
             z == f[n]
  <2>4. y \in Nat /\ z \in Nat /\ y <= z /\ p \in Nat /\ m \in Nat /\ m # 0 /\ y = p + m /\ q = z - y
    BY <2>2, <2>3
  <2> HIDE DEF p, m, q, y, z
  <2>5. m \in Nat \ {0} /\ q \in Nat /\ p + m = y /\ p + m + q = z
    BY <2>4
  <2> QED
    BY <2>4, <2>5 DEF y, z
<1>5. jtag_dev.ir_length[d] = m /\ jtag_dev.ir_before[d] = p /\ jtag_dev.ir_after[d] = q
  BY <1>1, <1>2
<1> HIDE DEF p, m, q
<1> DEFINE bits == Framed("1", p, m, q)
<1>6. TapRun(JTAG_IR(d)) = Tap("idle", bits)
  BY <1>4, <1>5, InstructionBits
<1>7. "1" \in TapBits /\ m \in Nat
  BY <1>4 DEF TapBits
<1>8. Len(bits) = p + m + q
  BY <1>4, <1>7, FrameIsLaid DEF Laid
<1>9. SubSeq(bits, p + 1, p + m) = Data(m)
  BY <1>4, <1>7, DataSlice
<1>10. ASSUME NEW i \in (1..n) \ {d}
       PROVE  SubSeq(bits, f[i - 1] + 1, f[i - 1] + lengths[i]) = Rep("1", lengths[i])
  <2>1. /\ i \in 1..n /\ i \in 0..n /\ i - 1 \in 0..n /\ d \in 0..n /\ d - 1 \in 0..n /\ n \in 0..n
        /\ i <= d - 1 \/ d <= i - 1
        /\ i <= n
    BY <1>1
  <2>2. f[i - 1] \in Nat /\ lengths[i] \in Nat /\ f[i - 1] + lengths[i] = f[i] /\ f[i] <= f[n]
    BY <1>1, <1>3, <2>1
  <2>3. f[i] <= p \/ p + m <= f[i - 1]
    BY <1>3, <1>4, <2>1 DEF p
  <2> HIDE DEF bits
  <2>4. f[i - 1] + lengths[i] <= p \/ (p + m <= f[i - 1] /\ f[i - 1] + lengths[i] <= p + m + q)
    BY <1>4, <2>2, <2>3
  <2> DEFINE a == f[i - 1]
             l == lengths[i]
             b == a + 1
             c == a + l
  <2>5. /\ b \in Nat \ {0} /\ l \in Nat /\ c \in Nat /\ c = b - 1 + l
        /\ c <= p \/ (p + m < b /\ c <= p + m + q)
    <3>1. a \in Nat /\ l \in Nat /\ (a + l <= p \/ (p + m <= a /\ a + l <= p + m + q))
      BY <2>2, <2>4
    <3> HIDE DEF a, l
    <3> QED
      BY <1>4, <3>1
  <2>6. p \in Nat /\ m \in Nat /\ q \in Nat /\ "1" \in TapBits
    BY <1>4, <1>7
  <2> HIDE DEF a, l, b, c
  <2>7. Cut("1", p, m, q, b, c) = Rep("1", l)
    BY <2>5, <2>6, BypassSlice
  <2>8. SubSeq(bits, b, c) = Rep("1", l)
    BY <2>7 DEF bits, Cut
  <2> QED
    BY <2>8 DEF a, l, b, c
<1> HIDE DEF bits
<1> DEFINE scan == [kind |-> "ir", clocks |-> JTAG_IR(d)]
<1>11. /\ scan.kind = "ir" /\ TapRun(scan.clocks).state = "idle" /\ TapRun(scan.clocks).bits = bits
  BY <1>6 DEF Tap
<1>12. /\ Share("ir", d, d) = m /\ BitsBefore("ir", d, d) = p
       /\ BitsBefore("ir", d, n) + Share("ir", d, n) = p + m + q
  <2>1. BitsBefore("ir", d, n) + Share("ir", d, n) = f[n - 1] + lengths[n] /\ f[n] = f[n - 1] + lengths[n]
    BY <1>1, <1>2, <1>3
  <2> QED
    BY <1>1, <1>2, <1>4, <2>1 DEF p, m
<1>13. \A i \in (1..n) \ {d} :
          SubSeq(bits, BitsBefore("ir", d, i) + 1, BitsBefore("ir", d, i) + Share("ir", d, i))
             = Bypass("1", Share("ir", d, i))
  <2> SUFFICES ASSUME NEW i \in (1..n) \ {d}
               PROVE  SubSeq(bits, BitsBefore("ir", d, i) + 1, BitsBefore("ir", d, i) + Share("ir", d, i))
                         = Bypass("1", Share("ir", d, i))
    OBVIOUS
  <2>1. BitsBefore("ir", d, i) = f[i - 1] /\ Share("ir", d, i) = lengths[i]
    BY <1>1, <1>2
  <2> QED
    BY <1>10, <2>1 DEF Bypass
<1> HIDE DEF scan
<1>14. Reaches(scan, d)
  BY <1>1, <1>8, <1>9, <1>11, <1>12, <1>13 DEF Reaches
<1> QED
  BY <1>14 DEF scan

DataKinds == {"idcode", "dr", "refused", "abort"}

\* How the bits of a data scan are shared: one for every other device.
LEMMA DataShares ==
    ASSUME NEW kind \in DataKinds, NEW d \in Nat \ {0}, NEW i \in Nat \ {0}
    PROVE  /\ Share(kind, d, d) = IF kind = "idcode" THEN 32 ELSE IF kind = "refused" THEN 3 ELSE 35
           /\ i # d => Share(kind, d, i) = 1
           /\ BitsBefore(kind, d, i) = IF i <= d THEN i - 1 ELSE i - 2 + Share(kind, d, d)
<1> DEFINE l == Share(kind, d, d)
<1>1. l = IF kind = "idcode" THEN 32 ELSE IF kind = "refused" THEN 3 ELSE 35
  BY DEF Share, DataKinds
<1>2. l \in Nat
  BY <1>1
<1>3. ASSUME NEW j, j # d PROVE Share(kind, d, j) = 1
  BY <1>3 DEF Share, DataKinds
<1> HIDE DEF l
<1> DEFINE m == i - 1
           t == [j \in 1..m |-> Share(kind, d, j)]
           f == [j \in 0..m |-> IF j < d THEN j ELSE j - 1 + l]
<1>4. m \in Nat
  OBVIOUS
<1>5. \A j \in 1..m : Share(kind, d, j) = IF j = d THEN l ELSE 1
  BY <1>3 DEF l
<1>6. t \in Seq(Nat) /\ DOMAIN t = 1..m /\ \A j \in 1..m : t[j] = IF j = d THEN l ELSE 1
  BY <1>2, <1>4, <1>5
<1>7. f \in [0..m -> Nat] /\ f[0] = 0
  BY <1>2, <1>4
<1>8. \A j \in 1..m : f[j] = f[j - 1] + IF j = d THEN l ELSE 1
  BY <1>2, <1>4
<1>9. f[m] = IF i <= d THEN i - 1 ELSE i - 2 + l
  BY <1>2, <1>4
<1>10. BitsBefore(kind, d, i) = Sum(t)
  BY DEF BitsBefore
<1> HIDE DEF m, t, f
<1>11. Len(t) = m
  BY <1>4, <1>6
<1>12. AddsUp(f, t)
  BY <1>6, <1>7, <1>8, <1>11 DEF AddsUp
<1>13. Sum(t) = f[m]
  BY <1>6, <1>11, <1>12, SumIs
<1> QED
  BY <1>1, <1>3, <1>9, <1>10, <1>13 DEF l

\* Data reach their device.
LEMMA DataReach ==
    ASSUME NEW kind \in DataKinds, NEW d, OnChain(d), NEW clocks,
           Len(jtag_dev.ir_length) \in Nat, NEW q \in Nat,
           kind \in {"dr", "abort"} => q = After(d),
           TapRun(clocks) = Tap("idle", Framed("x", d - 1, Share(kind, d, d), q))
    PROVE  Reaches([kind |-> kind, clocks |-> clocks], d)
<1> DEFINE n == Len(jtag_dev.ir_length)
           l == Share(kind, d, d)
           bits == Framed("x", d - 1, l, q)
           scan == [kind |-> kind, clocks |-> clocks]
<1>1. n \in Nat /\ d \in 1..n /\ d \in Nat \ {0} /\ n \in Nat \ {0} /\ d - 1 \in Nat
  BY DEF OnChain
<1>2. l = IF kind = "idcode" THEN 32 ELSE IF kind = "refused" THEN 3 ELSE 35
  BY <1>1, DataShares
<1>3. BitsBefore(kind, d, d) = d - 1
  <2>1. BitsBefore(kind, d, d) = IF d <= d THEN d - 1 ELSE d - 2 + l
    BY <1>1, DataShares
  <2> QED
    BY <1>1, <2>1
<1>4. BitsBefore(kind, d, n) + Share(kind, d, n) = n - 1 + l
  <2>1. /\ BitsBefore(kind, d, n) = IF n <= d THEN n - 1 ELSE n - 2 + l
        /\ n # d => Share(kind, d, n) = 1
    BY <1>1, DataShares
  <2>2. CASE n = d
    <3>1. BitsBefore(kind, d, n) = n - 1 /\ Share(kind, d, n) = l
      BY <1>1, <2>1, <2>2
    <3> QED
      BY <3>1
  <2>3. CASE n # d
    <3>1. l \in Nat
      BY <1>2
    <3>2. ~(n <= d) /\ Share(kind, d, n) = 1
      BY <1>1, <2>1, <2>3
    <3>3. BitsBefore(kind, d, n) = n - 2 + l
      BY <2>1, <3>2
    <3> HIDE DEF l, n
    <3> QED
      BY <1>1, <3>1, <3>2, <3>3
  <2> QED
    BY <2>2, <2>3
<1>5. l \in Nat /\ "x" \in TapBits
  BY <1>2 DEF TapBits
<1>6. scan.kind = kind /\ TapRun(scan.clocks).state = "idle" /\ TapRun(scan.clocks).bits = bits
  BY DEF Tap
<1>7. kind \in {"dr", "abort"} => q = n - d
  BY <1>1 DEF After
<1> HIDE DEF n, l, scan
<1>8. Len(bits) = d - 1 + l + q
  <2> DEFINE p == d - 1
  <2>1. p \in Nat
    BY <1>1
  <2> HIDE DEF p
  <2>2. Len(Framed("x", p, l, q)) = p + l + q
    BY <1>5, <2>1, FrameIsLaid DEF Laid
  <2> QED
    BY <2>2 DEF p
<1>9. SubSeq(bits, d - 1 + 1, d - 1 + l) = Data(l)
  BY <1>1, <1>5, DataSlice
<1> HIDE DEF bits
<1>10. kind \in {"dr", "abort"} => Len(bits) = n - 1 + l
  BY <1>1, <1>5, <1>7, <1>8
<1>11. kind # "ir" /\ (kind \in {"ir", "dr", "abort"} => kind \in {"dr", "abort"})
  BY DEF DataKinds
<1>12. Reaches(scan, d)
  BY <1>3, <1>4, <1>6, <1>9, <1>10, <1>11 DEF Reaches, l, n
<1> QED
  BY <1>12 DEF scan

\* Every scan of the commands reaches its device, for any number of devices
\* with instruction registers of any length, any device addressed and any
\* configuration (JTAG_DP.c:114-330, DAP.c:632-661).
THEOREM ScansReachTheirDevice == Spec => []ScanReachesDevice
<1>1. Init => ScanInv
  <2>1. <<>> \in Seq(1..255) /\ [ir_length |-> <<>>, ir_before |-> <<>>, ir_after |-> <<>>] = Configured(<<>>)
    BY DEF Configured
  <2>2. ASSUME Init
        PROVE  /\ idle_cycles = 0 /\ last = Quiet
               /\ jtag_dev = [ir_length |-> <<>>, ir_before |-> <<>>, ir_after |-> <<>>]
    BY <2>2 DEF Init, PortInit
  <2>3. Quiet.op # "jtag"
    BY DEF Quiet
  <2>4. ASSUME Init PROVE \E lengths \in Seq(1..255) : jtag_dev = Configured(lengths)
    <3>1. jtag_dev = Configured(<<>>)
      BY <2>1, <2>2, <2>4
    <3> QED
      BY <2>1, <3>1
  <2> QED
    BY <2>2, <2>3, <2>4 DEF ScanInv, ScanMade
<1>2. ScanInv => ScanReachesDevice
  <2> SUFFICES ASSUME ScanInv, last.op = "jtag" PROVE \A i \in 1..Len(last.scans) : Reaches(last.scans[i], last.dev)
    BY DEF ScanReachesDevice
  <2> DEFINE d == last.dev
  <2>0. {"idcode", "dr", "refused", "abort"} \subseteq DataKinds
    BY DEF DataKinds
  <2>1. PICK lengths \in Seq(1..255) : jtag_dev = Configured(lengths)
    BY DEF ScanInv
  <2>2. /\ idle_cycles \in Nat /\ OnChain(d)
        /\ \E scan \in DataScans(d) : last.scans = <<[kind |-> "ir", clocks |-> JTAG_IR(d)], scan>>
    BY DEF ScanInv, ScanMade
  <2>3. PICK scan \in DataScans(d) : last.scans = <<[kind |-> "ir", clocks |-> JTAG_IR(d)], scan>>
    BY <2>2
  <2> HIDE DEF d
  <2>4. Reaches([kind |-> "ir", clocks |-> JTAG_IR(d)], d)
    BY <2>1, <2>2, InstructionReaches
  <2>5. Len(jtag_dev.ir_length) \in Nat /\ d \in 1..Len(jtag_dev.ir_length)
    BY <2>1, <2>2 DEF OnChain, Configured
  <2>6. d - 1 \in Nat /\ After(d) \in Nat /\ d \in Nat \ {0}
    BY <2>5 DEF After
  <2>7. /\ Share("idcode", d, d) = 32 /\ Share("abort", d, d) = 35
        /\ Share("dr", d, d) = 35 /\ Share("refused", d, d) = 3
    <3>1. ASSUME NEW kind \in DataKinds
          PROVE  Share(kind, d, d) = IF kind = "idcode" THEN 32 ELSE IF kind = "refused" THEN 3 ELSE 35
      BY <2>6, DataShares
    <3> QED
      BY <2>0, <3>1
  <2>8. Reaches(scan, d)
    <3>1. CASE scan = [kind |-> "idcode", clocks |-> JTAG_ReadIDCode(d)]
      <4>1. TapRun(JTAG_ReadIDCode(d)) = Tap("idle", Framed("x", d - 1, Share("idcode", d, d), 0))
        BY <2>2, <2>6, <2>7, DataScanBits
      <4> QED
        BY <2>2, <2>5, <3>1, <4>1, <2>0, DataReach
    <3>2. CASE scan = [kind |-> "abort", clocks |-> JTAG_WriteAbort(d)]
      <4>1. TapRun(JTAG_WriteAbort(d)) = Tap("idle", Framed("x", d - 1, Share("abort", d, d), After(d)))
        BY <2>2, <2>6, <2>7, DataScanBits
      <4> QED
        BY <2>2, <2>5, <2>6, <3>2, <4>1, <2>0, DataReach
    <3>3. ASSUME NEW ack \in Acks,
                 scan = [kind |-> IF ack = "OK" THEN "dr" ELSE "refused", clocks |-> JTAG_Transfer(d, ack)]
          PROVE  Reaches(scan, d)
      <4>1. CASE ack = "OK"
        <5>1. TapRun(JTAG_Transfer(d, ack)) = Tap("idle", Framed("x", d - 1, Share("dr", d, d), After(d)))
          BY <2>2, <2>6, <2>7, <4>1, DataScanBits
        <5> QED
          BY <2>2, <2>5, <2>6, <3>3, <4>1, <5>1, <2>0, DataReach
      <4>2. CASE ack # "OK"
        <5>1. TapRun(JTAG_Transfer(d, ack)) = Tap("idle", Framed("x", d - 1, Share("refused", d, d), 1))
          BY <2>2, <2>6, <2>7, <4>2, DataScanBits
        <5> QED
          BY <2>2, <2>5, <3>3, <4>2, <5>1, <2>0, DataReach
      <4> QED
        BY <4>1, <4>2
    <3> QED
      BY <3>1, <3>2, <3>3 DEF DataScans
  <2> QED
    BY <2>3, <2>4, <2>8 DEF d
<1> QED
  BY <1>1, <1>2, ScanInvStep, PTL DEF Spec

=============================================================================
