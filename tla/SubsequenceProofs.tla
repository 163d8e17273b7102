------------------------- MODULE SubsequenceProofs --------------------------
(***************************************************************************)
(* What Subsequence computes, for every array: the entries that stay, in   *)
(* their order. The definition is recursive, so the proof is by induction; *)
(* the least element of a set of numbers takes the place of an induction   *)
(* scheme.                                                                 *)
(***************************************************************************)
EXTENDS Subsequence, WellFoundedInduction, TLAPS

\* Every set of numbers that is not empty has a least one: what the proofs use for
\* induction, since it can be stated for a set instead of a formula.
LEMMA LeastElement ==
    ASSUME NEW T \in SUBSET Nat, T # {}
    PROVE  \E x \in T : \A y \in T : x <= y
  <1>1. IsWellFoundedOn(OpToRel(<, Nat), Nat)
    BY NatLessThanWellFounded
  <1>2. PICK x \in T : \A y \in T : ~ (<<y, x>> \in OpToRel(<, Nat))
    BY <1>1, WFMin
  <1>3. \A y \in T : ~ (y < x)
    BY <1>2 DEF OpToRel
  <1> QED
    BY <1>3

\* A set of numbers that has 0 and with each number below n the next one has all up to n.
LEMMA Induction ==
    ASSUME NEW S \in SUBSET Nat, 0 \in S, NEW n \in Nat,
           \A i \in 0 .. n - 1 : i \in S => i + 1 \in S
    PROVE  \A i \in 0 .. n : i \in S
  <1> DEFINE T == {i \in 0 .. n : i \notin S}
  <1>1. ASSUME T # {} PROVE FALSE
    <2>1. PICK x \in T : \A y \in T : x <= y
      <3>1. T \in SUBSET Nat
        OBVIOUS
      <3> HIDE DEF T
      <3> QED
        BY <1>1, <3>1, LeastElement
    <2>2. x # 0 /\ x - 1 \in 0 .. n - 1
      BY <2>1
    <2>3. x - 1 \in S
      BY <2>1, <2>2
    <2> QED
      BY <2>2, <2>3
  <1> QED
    BY <1>1

-----------------------------------------------------------------------------
\* The function that LeftOf is defined by.
IsLeftOf(f, s, K, n) ==
    f = [i \in 0 .. n |-> IF i = 0 THEN << >>
                          ELSE IF i \in K THEN Append(f[i - 1], s[i]) ELSE f[i - 1]]

\* It exists, whatever the array and the positions are ...
LEMMA LeftOfExists ==
    ASSUME NEW s, NEW K, NEW n \in Nat
    PROVE  \E f : IsLeftOf(f, s, K, n)
  <1> DEFINE S == {m \in Nat : \E f : IsLeftOf(f, s, K, m)}
  <1>1. 0 \in S
    <2>1. IsLeftOf([i \in 0 .. 0 |-> << >>], s, K, 0)
      BY DEF IsLeftOf
    <2> QED
      BY <2>1
  <1>2. ASSUME NEW m \in Nat, m \in S
        PROVE  m + 1 \in S
    <2>1. PICK f : IsLeftOf(f, s, K, m)
      BY <1>2
    <2> DEFINE last == IF m + 1 \in K THEN Append(f[m], s[m + 1]) ELSE f[m]
               g == [i \in 0 .. m + 1 |-> IF i = m + 1 THEN last ELSE f[i]]
               h == [i \in 0 .. m + 1 |-> IF i = 0 THEN << >>
                          ELSE IF i \in K THEN Append(g[i - 1], s[i]) ELSE g[i - 1]]
    <2>2. \A i \in 0 .. m : f[i] = IF i = 0 THEN << >>
                          ELSE IF i \in K THEN Append(f[i - 1], s[i]) ELSE f[i - 1]
      BY <2>1 DEF IsLeftOf
    <2>3. ASSUME NEW i \in 0 .. m + 1
          PROVE  g[i] = h[i]
      <3>1. CASE i = 0
        BY <2>2, <3>1
      <3>2. CASE i = m + 1
        <4>1. g[i - 1] = f[m]
          BY <3>2
        <4> QED
          BY <3>2, <4>1
      <3>3. CASE i # 0 /\ i # m + 1
        <4>1. i - 1 \in 0 .. m /\ i \in 0 .. m
          BY <3>3
        <4>2. g[i - 1] = f[i - 1] /\ g[i] = f[i]
          BY <4>1, <3>3
        <4> QED
          BY <4>1, <4>2, <2>2, <3>3
      <3> QED
        BY <3>1, <3>2, <3>3
    <2>4. g = h
      <3> HIDE DEF last
      <3>1. DOMAIN g = 0 .. m + 1 /\ DOMAIN h = 0 .. m + 1
        OBVIOUS
      <3>2. g = [i \in 0 .. m + 1 |-> g[i]] /\ h = [i \in 0 .. m + 1 |-> h[i]]
        OBVIOUS
      <3> HIDE DEF g, h
      <3> QED
        BY <3>2, <2>3
    <2>5. IsLeftOf(g, s, K, m + 1)
      BY <2>4 DEF IsLeftOf
    <2> HIDE DEF g
    <2> QED
      BY <2>5
  <1> HIDE DEF S
  <1>3. \A i \in 0 .. n : i \in S
    <2>1. S \in SUBSET Nat
      BY DEF S
    <2> QED
      BY <1>1, <1>2, <2>1, Induction
  <1> QED
    BY <1>3 DEF S

\* ... so that LeftOf is this function.
LEMMA LeftOfDef ==
    ASSUME NEW s, NEW K, Len(s) \in Nat
    PROVE  IsLeftOf(LeftOf(s, K), s, K, Len(s))
  <1> DEFINE left == CHOOSE f : IsLeftOf(f, s, K, Len(s))
  <1>1. IsLeftOf(left, s, K, Len(s))
    BY LeftOfExists
  <1>2. LeftOf(s, K) = left
    BY DEF LeftOf, IsLeftOf
  <1> QED
    BY <1>1, <1>2

\* m gives for every entry that is left the position it had.
Places(m, s, K, r) ==
    /\ m \in [1 .. Len(r) -> K]
    /\ \A i, j \in 1 .. Len(r) : i < j => m[i] < m[j]
    /\ \A k \in K : \E j \in 1 .. Len(r) : m[j] = k
    /\ \A j \in 1 .. Len(r) : r[j] = s[m[j]]

\* What the loops of the send buffers leave of an array are its entries at the positions
\* that stay, all of them and in their order (rudpsendbuffer.c, 130-235;
\* takionsendbuffer.c, 137-199; ui_screens.c, 821-852).
THEOREM SubsequenceIsWhatIsLeft ==
    ASSUME NEW A, NEW s \in Seq(A), NEW K \in SUBSET (1 .. Len(s))
    PROVE  /\ Subsequence(s, K) \in Seq(A)
           /\ \E m : Places(m, s, K, Subsequence(s, K))
  <1> DEFINE f == LeftOf(s, K)
             n == Len(s)
             upto(i) == K \cap (1 .. i)
             S == {i \in 0 .. n : f[i] \in Seq(A) /\ \E m : Places(m, s, upto(i), f[i])}
  <1>1. n \in Nat /\ K \subseteq 1 .. n /\ \A i \in 1 .. n : s[i] \in A
    OBVIOUS
  <1>1b. \A k \in K : k \in Int /\ 1 <= k /\ k <= n
    BY <1>1
  <1>2a. IsLeftOf(f, s, K, n)
    BY <1>1, LeftOfDef
  <1> HIDE DEF f, n
  <1>2. \A i \in 0 .. n : f[i] = IF i = 0 THEN << >>
                          ELSE IF i \in K THEN Append(f[i - 1], s[i]) ELSE f[i - 1]
    BY <1>1, <1>2a DEF IsLeftOf
  <1>3. 0 \in S
    <2>1. f[0] = << >>
      BY <1>1, <1>2
    <2>2. upto(0) = {}
      BY <1>1b
    <2>3. Places(<< >>, s, {}, << >>)
      BY DEF Places
    <2>4. f[0] \in Seq(A) /\ Places(<< >>, s, upto(0), f[0]) /\ 0 \in 0 .. n
      BY <2>1, <2>2, <2>3, <1>1
    <2> HIDE DEF upto
    <2> QED
      BY <2>4
  <1>4. ASSUME NEW i \in 0 .. n - 1, i \in S
        PROVE  i + 1 \in S
    <2>1. i + 1 \in 1 .. n /\ s[i + 1] \in A
      BY <1>1
    <2>2. PICK m : Places(m, s, upto(i), f[i])
      BY <1>4
    <2>3. f[i] \in Seq(A)
      BY <1>4
    <2>4. CASE i + 1 \in K
      <3> DEFINE g == Append(f[i], s[i + 1])
                 q == [j \in 1 .. Len(f[i]) + 1 |-> IF j = Len(f[i]) + 1 THEN i + 1 ELSE m[j]]
      <3>1. f[i + 1] = g
        <4>1. i + 1 \in 0 .. n /\ i + 1 # 0 /\ (i + 1) - 1 = i
          BY <1>1
        <4>2. f[i + 1] = Append(f[(i + 1) - 1], s[i + 1])
          BY <4>1, <1>2, <2>4
        <4> QED
          BY <4>1, <4>2
      <3>2. /\ g \in Seq(A) /\ Len(f[i]) \in Nat /\ Len(g) = Len(f[i]) + 1
            /\ g[Len(f[i]) + 1] = s[i + 1]
            /\ \A j \in 1 .. Len(f[i]) : g[j] = f[i][j]
        BY <2>1, <2>3
      <3>3. upto(i + 1) = upto(i) \cup {i + 1}
        BY <2>4, <1>1, <1>1b
      <3> HIDE DEF g
      <3>4. Places(q, s, upto(i + 1), g)
        <4> DEFINE U == upto(i)
        <4>1. \A k \in U : k <= i
          BY DEF U
        <4>2. Places(m, s, U, f[i])
          BY <2>2
        <4>3. upto(i + 1) = U \cup {i + 1}
          BY <3>3
        <4>4. i \in Int /\ U \subseteq Int
          BY <1>1, <1>1b DEF U
        <4> HIDE DEF U
        <4> DEFINE l == Len(f[i])
        <4>5. l \in Nat /\ Len(g) = l + 1
          BY <3>2
        <4>6. q = [j \in 1 .. l + 1 |-> IF j = l + 1 THEN i + 1 ELSE m[j]]
          OBVIOUS
        <4> HIDE DEF q
        <4>7. /\ m \in [1 .. l -> U]
              /\ \A a, b \in 1 .. l : a < b => m[a] < m[b]
              /\ \A k \in U : \E j \in 1 .. l : m[j] = k
              /\ \A j \in 1 .. l : f[i][j] = s[m[j]]
          BY <4>2 DEF Places
        <4>8. /\ g[l + 1] = s[i + 1]
              /\ \A j \in 1 .. l : g[j] = f[i][j]
          BY <3>2
        <4> HIDE DEF l
        <4>9. q \in [1 .. l + 1 -> U \cup {i + 1}]
          BY <4>5, <4>6, <4>7
        <4>10. \A a, b \in 1 .. l + 1 : a < b => q[a] < q[b]
          <5> SUFFICES ASSUME NEW a \in 1 .. l + 1, NEW b \in 1 .. l + 1, a < b
                       PROVE  q[a] < q[b]
            OBVIOUS
          <5>1. a \in 1 .. l /\ q[a] = m[a] /\ m[a] \in U
            BY <4>5, <4>6, <4>7
          <5>2. CASE b = l + 1
            <6>1. m[a] <= i /\ m[a] \in Int /\ q[b] = i + 1
              BY <4>1, <4>4, <4>5, <4>6, <5>1, <5>2
            <6> QED
              BY <6>1, <5>1, <4>4
          <5>3. CASE b # l + 1
            <6>1. b \in 1 .. l /\ q[b] = m[b]
              BY <4>5, <4>6, <5>3
            <6> QED
              BY <6>1, <5>1, <4>7
          <5> QED
            BY <5>2, <5>3
        <4>11. \A k \in U \cup {i + 1} : \E j \in 1 .. l + 1 : q[j] = k
          BY <4>5, <4>6, <4>7
        <4>12. \A j \in 1 .. l + 1 : g[j] = s[q[j]]
          BY <4>5, <4>6, <4>7, <4>8
        <4> QED
          BY <4>3, <4>5, <4>9, <4>10, <4>11, <4>12 DEF Places
      <3>5. /\ i + 1 \in 0 .. n /\ f[i + 1] \in Seq(A)
            /\ Places(q, s, upto(i + 1), f[i + 1])
        BY <1>1, <3>1, <3>2, <3>4
      <3> HIDE DEF q, upto
      <3> QED
        BY <3>5
    <2>5. CASE i + 1 \notin K
      <3>1. f[i + 1] = f[i]
        BY <1>1, <1>2, <2>1, <2>5
      <3>2. upto(i + 1) = upto(i)
        BY <2>5, <1>1, <1>1b
      <3>3. /\ i + 1 \in 0 .. n /\ f[i + 1] \in Seq(A)
            /\ Places(m, s, upto(i + 1), f[i + 1])
        <4>1. Places(m, s, upto(i + 1), f[i + 1])
          BY <2>2, <3>1, <3>2
        <4>2. i + 1 \in 0 .. n
          BY <1>1
        <4> QED
          BY <2>3, <3>1, <4>1, <4>2
      <3> HIDE DEF upto
      <3> QED
        BY <3>3
    <2> QED
      BY <2>4, <2>5
  <1>5. n \in S
    <2>1. S \in SUBSET Nat
      OBVIOUS
    <2> HIDE DEF S, n
    <2> QED
      BY <1>1, <1>3, <1>4, <2>1, Induction, SMTT(40)
  <1>6. upto(n) = K
    BY <1>1, <1>1b
  <1> QED
    BY <1>5, <1>6 DEF Subsequence, f, n
=============================================================================
