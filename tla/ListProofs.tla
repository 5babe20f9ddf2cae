------------------------------ MODULE ListProofs ------------------------------
(***************************************************************************)
(* Lemmas about lists that proofs of several components cite.  Induction   *)
(* over positions is by least counterexample, which needs no theorem with  *)
(* an operator parameter.                                                  *)
(***************************************************************************)
EXTENDS Lists, NaturalsInduction, WellFoundedInduction, TLAPS

(* A set of numbers that has one has a least one. *)
LEMMA LeastNumber ==
    ASSUME NEW T \in SUBSET Nat, T # {}
    PROVE  \E m \in T : \A n \in T : m <= n
<1>1. PICK m \in T : \A n \in T : <<n, m>> \notin OpToRel(<, Nat)
  BY WFMin, NatLessThanWellFounded, Zenon
<1>2. \A n \in T : ~(n < m)
  BY <1>1, Zenon DEF OpToRel
<1>. QED  BY <1>2

(* A bounded one has a greatest. *)
LEMMA GreatestNumber ==
    ASSUME NEW N \in Nat, NEW T \in SUBSET (0..N), T # {}
    PROVE  \E m \in T : \A n \in T : n <= m
<1>. DEFINE U == {N - n : n \in T}
<1>1. U \in SUBSET Nat /\ U # {}
  <2>1. \A n \in T : n \in 0..N
    OBVIOUS
  <2>2. \A n \in T : N - n \in Nat
    BY <2>1
  <2>. QED  BY <2>2
<1>2. PICK u \in U : \A n \in U : u <= n
  <2>. HIDE DEF U
  <2>. QED  BY <1>1, LeastNumber
<1>3. PICK m \in T : u = N - m
  BY <1>2
<1>4. \A n \in T : N - m <= N - n
  BY <1>2, <1>3
<1>. QED  BY <1>4

(* What holds at 0 and goes from each number to the next holds up to N. *)
LEMMA UpTo ==
    ASSUME NEW N \in Nat, NEW T, 0 \in T,
           \A n \in 0..(N - 1) : n \in T => n + 1 \in T
    PROVE  \A n \in 0..N : n \in T
<1>. DEFINE U == {n \in 0..N : n \notin T}
<1>. SUFFICES ASSUME U # {} PROVE FALSE
  OBVIOUS
<1>1. PICK m \in U : \A n \in U : m <= n
  <2>1. U \in SUBSET Nat /\ U # {}
    OBVIOUS
  <2>. HIDE DEF U
  <2>. QED  BY <2>1, LeastNumber
<1>2. m # 0 /\ m - 1 \in 0..(N - 1) /\ m - 1 \in T
  BY <1>1
<1>. QED  BY <1>1, <1>2

-----------------------------------------------------------------------------
(* The equations of Filter. *)
Filters(f, s, S) ==
    /\ f[0] = <<>>
    /\ \A n \in 1..Len(s) : f[n] = IF s[n] \in S THEN Append(f[n - 1], s[n]) ELSE f[n - 1]

LEMMA FilterDefined ==
    ASSUME NEW E, NEW s \in Seq(E), NEW S
    PROVE  \E f \in [0..Len(s) -> Seq(E)] : Filters(f, s, S) /\ Filter(s, S) = f[Len(s)]
<1>. DEFINE N == Len(s)
            Partial(n, g) ==
                /\ g \in [0..n -> Seq(E)]
                /\ g[0] = <<>>
                /\ \A i \in 1..n :
                      g[i] = IF s[i] \in S THEN Append(g[i - 1], s[i]) ELSE g[i - 1]
            T == {n \in 0..N : \E g : Partial(n, g)}
<1>0. N \in Nat /\ 0 \in 0..N /\ N \in 0..N /\ <<>> \in Seq(E) /\ \A i \in 1..N : s[i] \in E
  OBVIOUS
<1>. HIDE DEF N
<1>1. 0 \in T
  <2>1. Partial(0, [i \in 0..0 |-> <<>>])
    OBVIOUS
  <2>. HIDE DEF Partial
  <2>. QED  BY <1>0, <2>1
<1>2. ASSUME NEW n \in 0..(N - 1), n \in T
      PROVE  n + 1 \in T
  <2>1. PICK g : Partial(n, g)
    BY <1>2
  <2>. DEFINE last == IF s[n + 1] \in S THEN Append(g[n], s[n + 1]) ELSE g[n]
              h == [i \in 0..(n + 1) |-> IF i = n + 1 THEN last ELSE g[i]]
  <2>2. n + 1 \in 0..N /\ n + 1 \in 1..N /\ n \in 0..n /\ n \in Nat
    BY <1>0
  <2>3. last \in Seq(E)
    BY <1>0, <2>1, <2>2
  <2>. HIDE DEF last
  <2>4. h \in [0..(n + 1) -> Seq(E)] /\ h[0] = <<>>
    BY <2>1, <2>2, <2>3
  <2>5. h[n + 1] = last /\ \A i \in 0..n : h[i] = g[i]
    BY <2>2
  <2>. HIDE DEF h
  <2>6. ASSUME NEW i \in 1..(n + 1)
        PROVE  h[i] = IF s[i] \in S THEN Append(h[i - 1], s[i]) ELSE h[i - 1]
    <3>1. CASE i = n + 1
      <4>1. h[i - 1] = g[n]
        BY <2>2, <2>5, <3>1
      <4>. QED  BY <2>5, <3>1, <4>1 DEF last
    <3>2. CASE i # n + 1
      <4>1. i \in 1..n /\ h[i] = g[i] /\ h[i - 1] = g[i - 1]
        BY <2>2, <2>5, <3>2
      <4>. QED  BY <2>1, <4>1
    <3>. QED  BY <3>1, <3>2
  <2>7. Partial(n + 1, h)
    BY <2>4, <2>6
  <2>. QED  BY <2>2, <2>7
<1>3. N \in T
  <2>. HIDE DEF T
  <2>1. \A n \in 0..N : n \in T
    BY <1>0, <1>1, <1>2, UpTo
  <2>. QED  BY <1>0, <2>1
<1>4. PICK g : Partial(N, g)
  BY <1>3
<1>. DEFINE Step(f, n) == IF n = 0 THEN <<>>
                          ELSE IF s[n] \in S THEN Append(f[n - 1], s[n]) ELSE f[n - 1]
            kept == CHOOSE f : f = [n \in 0..N |-> Step(f, n)]
<1>5. g = [n \in 0..N |-> Step(g, n)]
  <2>1. ASSUME NEW n \in 0..N
        PROVE  g[n] = Step(g, n)
    <3>1. CASE n = 0
      BY <1>4, <3>1
    <3>2. CASE n # 0
      <4>1. n \in 1..N
        BY <1>0, <3>2
      <4>. QED  BY <1>4, <3>2, <4>1
    <3>. QED  BY <3>1, <3>2
  <2>2. g = [n \in 0..N |-> g[n]]
    BY <1>4
  <2>. HIDE DEF Step
  <2>. QED  BY <2>1, <2>2
<1>6. kept = [n \in 0..N |-> Step(kept, n)]
  <2>. HIDE DEF Step
  <2>. QED  BY <1>5, Zenon
<1>7. Filter(s, S) = kept[N]
  BY Zenon DEF Filter, N
<1>. HIDE DEF kept
<1>8. kept[0] = <<>> /\ \A n \in 1..N : kept[n] = IF s[n] \in S THEN Append(kept[n - 1], s[n]) ELSE kept[n - 1]
  <2>1. \A n \in 0..N : kept[n] = Step(kept, n)
    <3>. HIDE DEF Step
    <3>. QED  BY <1>6
  <2>. QED  BY <1>0, <2>1
<1>. HIDE DEF Step, T, Partial
<1>9. \A n \in 0..N : kept[n] \in Seq(E)
  <2>. DEFINE W == {n \in 0..N : kept[n] \in Seq(E)}
  <2>1. 0 \in W
    <3>1. kept[0] \in Seq(E)
      BY <1>0, <1>8
    <3>. QED  BY <1>0, <3>1
  <2>2. ASSUME NEW n \in 0..(N - 1), n \in W
        PROVE  n + 1 \in W
    <3>1. n + 1 \in 1..N /\ n + 1 - 1 = n /\ n + 1 \in 0..N
      BY <1>0
    <3>2. kept[n] \in Seq(E) /\ s[n + 1] \in E
      BY <1>0, <2>2, <3>1
    <3>3. kept[n + 1] = IF s[n + 1] \in S THEN Append(kept[n], s[n + 1]) ELSE kept[n]
      BY <1>8, <3>1
    <3>4. kept[n + 1] \in Seq(E)
      BY <3>2, <3>3
    <3>. QED  BY <3>1, <3>4
  <2>. HIDE DEF W
  <2>3. \A n \in 0..N : n \in W
    BY <1>0, <2>1, <2>2, UpTo
  <2>. QED  BY <2>3 DEF W
<1>10. kept \in [0..N -> Seq(E)]
  BY <1>6, <1>9
<1>. QED  BY <1>7, <1>8, <1>10 DEF Filters, N

(* What Filter keeps of the first n elements of s: those in S and no       *)
(* others, in their order.                                                 *)
Keeps(u, s, n, S) ==
    /\ Len(u) <= n
    /\ \A a \in 1..Len(u) : u[a] \in S /\ \E i \in 1..n : s[i] = u[a]
    /\ \A i \in 1..n : s[i] \in S => \E a \in 1..Len(u) : u[a] = s[i]
    /\ \A a, b \in 1..Len(u) : a < b => \E i, j \in 1..n : i < j /\ s[i] = u[a] /\ s[j] = u[b]
    /\ n # 0 /\ s[1] \in S => u # <<>> /\ u[1] = s[1]

LEMMA KeepsNext ==
    ASSUME NEW E, NEW u \in Seq(E), NEW s \in Seq(E), NEW S,
           NEW n \in Nat, n + 1 <= Len(s), Keeps(u, s, n, S)
    PROVE  Keeps(IF s[n + 1] \in S THEN Append(u, s[n + 1]) ELSE u, s, n + 1, S)
<1>. DEFINE x == s[n + 1]
<1>0. Len(u) \in Nat /\ n + 1 \in 1..(n + 1) /\ \A i \in 1..n : i \in 1..(n + 1) /\ i < n + 1
  OBVIOUS
<1>1. x \in E
  OBVIOUS
<1>2. CASE x \in S
  <2>. DEFINE v == Append(u, x)
  <2>1. /\ v \in Seq(E) /\ Len(v) = Len(u) + 1 /\ v[Len(u) + 1] = x /\ v # <<>>
        /\ \A a \in 1..Len(u) : v[a] = u[a]
    BY <1>1
  <2>. HIDE DEF v
  <2>2. \A a \in 1..Len(v) : a \in 1..Len(u) \/ a = Len(u) + 1
    BY <1>0, <2>1
  <2>3. \A a \in 1..Len(u) : a \in 1..Len(v)
    BY <1>0, <2>1
  <2>. HIDE DEF x
  <2>4. Len(v) <= n + 1
    BY <1>0, <2>1 DEF Keeps
  <2>5. ASSUME NEW a \in 1..Len(v)
        PROVE  v[a] \in S /\ \E i \in 1..(n + 1) : s[i] = v[a]
    <3>1. CASE a \in 1..Len(u)
      BY <1>0, <2>1, <3>1 DEF Keeps
    <3>2. CASE a = Len(u) + 1
      BY <1>0, <1>2, <2>1, <3>2 DEF x
    <3>. QED  BY <2>2, <3>1, <3>2
  <2>6. ASSUME NEW i \in 1..(n + 1), s[i] \in S
        PROVE  \E a \in 1..Len(v) : v[a] = s[i]
    <3>1. CASE i \in 1..n
      BY <2>1, <2>3, <2>6, <3>1 DEF Keeps
    <3>2. CASE i = n + 1
      <4>1. Len(u) + 1 \in 1..Len(v)
        BY <1>0, <2>1
      <4>. QED  BY <2>1, <3>2, <4>1 DEF x
    <3>3. i \in 1..n \/ i = n + 1
      OBVIOUS
    <3>. QED  BY <3>1, <3>2, <3>3
  <2>7. ASSUME NEW a \in 1..Len(v), NEW b \in 1..Len(v), a < b
        PROVE  \E i, j \in 1..(n + 1) : i < j /\ s[i] = v[a] /\ s[j] = v[b]
    <3>1. a \in 1..Len(u)
      BY <1>0, <2>1, <2>7
    <3>2. CASE b \in 1..Len(u)
      <4>1. PICK i \in 1..n, j \in 1..n : i < j /\ s[i] = u[a] /\ s[j] = u[b]
        BY <2>7, <3>1, <3>2 DEF Keeps
      <4>. QED  BY <1>0, <2>1, <3>1, <3>2, <4>1
    <3>3. CASE b = Len(u) + 1
      <4>1. PICK i \in 1..n : s[i] = u[a]
        BY <3>1 DEF Keeps
      <4>2. i \in 1..(n + 1) /\ i < n + 1 /\ s[i] = v[a] /\ s[n + 1] = v[b]
        BY <1>0, <2>1, <3>1, <3>3, <4>1 DEF x
      <4>. QED  BY <1>0, <4>2
    <3>. QED  BY <2>2, <3>2, <3>3
  <2>8. s[1] \in S => v # <<>> /\ v[1] = s[1]
    <3>1. CASE n = 0
      BY <1>0, <2>1, <3>1 DEF x, Keeps
    <3>2. CASE n # 0 /\ s[1] \in S
      <4>1. u # <<>> /\ u[1] = s[1]
        BY <3>2 DEF Keeps
      <4>2. 1 \in 1..Len(u)
        BY <4>1
      <4>. QED  BY <2>1, <4>1, <4>2
    <3>. QED  BY <3>1, <3>2
  <2>9. Keeps(v, s, n + 1, S)
    BY <2>4, <2>5, <2>6, <2>7, <2>8 DEF Keeps
  <2>. QED  BY <1>2, <2>9 DEF v, x
<1>3. CASE x \notin S
  <2>1. \A i \in 1..(n + 1) : i \in 1..n \/ i = n + 1
    OBVIOUS
  <2>2. Len(u) <= n + 1 /\ \A a \in 1..Len(u) : u[a] \in S /\ \E i \in 1..(n + 1) : s[i] = u[a]
    BY <1>0 DEF Keeps
  <2>3. \A i \in 1..(n + 1) : s[i] \in S => \E a \in 1..Len(u) : u[a] = s[i]
    BY <1>3, <2>1 DEF Keeps
  <2>4. \A a, b \in 1..Len(u) : a < b => \E i, j \in 1..(n + 1) : i < j /\ s[i] = u[a] /\ s[j] = u[b]
    BY <1>0 DEF Keeps
  <2>5. s[1] \in S => u # <<>> /\ u[1] = s[1]
    BY <1>3 DEF Keeps
  <2>6. Keeps(u, s, n + 1, S)
    BY <2>2, <2>3, <2>4, <2>5 DEF Keeps
  <2>. QED  BY <1>3, <2>6
<1>. QED  BY <1>2, <1>3

LEMMA Filtered ==
    ASSUME NEW E, NEW s \in Seq(E), NEW S
    PROVE  Filter(s, S) \in Seq(E) /\ Keeps(Filter(s, S), s, Len(s), S)
<1>1. PICK f \in [0..Len(s) -> Seq(E)] : Filters(f, s, S) /\ Filter(s, S) = f[Len(s)]
  BY FilterDefined
<1>. DEFINE N == Len(s)
            W == {n \in 0..N : Keeps(f[n], s, n, S)}
<1>2. N \in Nat /\ 0 \in 0..N /\ N \in 0..N
  OBVIOUS
<1>3. 0 \in W
  <2>1. f[0] = <<>>
    BY <1>1 DEF Filters
  <2>2. Keeps(<<>>, s, 0, S)
    BY DEF Keeps
  <2>. QED  BY <1>2, <2>1, <2>2
<1>4. ASSUME NEW n \in 0..(N - 1), n \in W
      PROVE  n + 1 \in W
  <2>1. n \in Nat /\ n + 1 <= Len(s) /\ n \in 0..Len(s) /\ n + 1 \in 1..Len(s) /\ n + 1 \in 0..N
    BY <1>2
  <2>2. f[n] \in Seq(E) /\ Keeps(f[n], s, n, S)
    BY <1>4, <2>1
  <2>3. f[n + 1] = IF s[n + 1] \in S THEN Append(f[n], s[n + 1]) ELSE f[n]
    <3>1. n + 1 - 1 = n
      BY <2>1
    <3>. QED  BY <1>1, <2>1, <3>1 DEF Filters
  <2>4. Keeps(f[n + 1], s, n + 1, S)
    BY <2>1, <2>2, <2>3, KeepsNext
  <2>. QED  BY <2>1, <2>4
<1>5. \A n \in 0..N : n \in W
  <2>. HIDE DEF W, N
  <2>. QED  BY <1>2, <1>3, <1>4, UpTo
<1>. QED  BY <1>1, <1>2, <1>5

-----------------------------------------------------------------------------
(* RemoveOne closes the gap at the first x.                                *)

LEMMA Located ==
    ASSUME NEW E, NEW s \in Seq(E), NEW x, NEW n \in DOMAIN s, s[n] = x
    PROVE  /\ Position(s, x) \in DOMAIN s /\ s[Position(s, x)] = x
           /\ \A j \in DOMAIN s : j < Position(s, x) => s[j] # x
<1>. DEFINE T == {i \in DOMAIN s : s[i] = x}
<1>1. T \in SUBSET Nat /\ T # {}
  OBVIOUS
<1>2. PICK m \in T : \A i \in T : m <= i
  <2>. HIDE DEF T
  <2>. QED  BY <1>1, LeastNumber
<1>3. m \in DOMAIN s /\ s[m] = x /\ \A j \in DOMAIN s : j < m => s[j] # x
  BY <1>2
<1>. QED  BY <1>3 DEF Position

LEMMA Removed ==
    ASSUME NEW E, NEW s \in Seq(E), NEW x, NEW n \in DOMAIN s, s[n] = x
    PROVE  /\ RemoveOne(s, x) \in Seq(E) /\ Len(RemoveOne(s, x)) = Len(s) - 1
           /\ Position(s, x) \in DOMAIN s /\ s[Position(s, x)] = x
           /\ \A j \in 1..(Len(s) - 1) :
                 RemoveOne(s, x)[j] = IF j < Position(s, x) THEN s[j] ELSE s[j + 1]
<1>. DEFINE p == Position(s, x)
            r == [j \in 1..(Len(s) - 1) |-> IF j < p THEN s[j] ELSE s[j + 1]]
<1>1. p \in DOMAIN s /\ s[p] = x
  BY Located
<1>. HIDE DEF p
<1>2. Len(s) \in Nat /\ Len(s) - 1 \in Nat /\ \A i \in 1..Len(s) : s[i] \in E
  BY <1>1
<1>3. \A j \in 1..(Len(s) - 1) : j \in 1..Len(s) /\ j + 1 \in 1..Len(s)
  BY <1>2
<1>4. \A j \in 1..(Len(s) - 1) : (IF j < p THEN s[j] ELSE s[j + 1]) \in E
  BY <1>2, <1>3
<1>5. r \in Seq(E) /\ Len(r) = Len(s) - 1
  BY <1>2, <1>4
<1>6. RemoveOne(s, x) = r
  BY DEF RemoveOne, p
<1>. QED  BY <1>1, <1>5, <1>6 DEF p

-----------------------------------------------------------------------------
(* A list gains a last element, or loses its first.                        *)

LEMMA Appended ==
    ASSUME NEW S, NEW s \in Seq(S), NEW x \in S
    PROVE  /\ Append(s, x) \in Seq(S) /\ Append(s, x) # <<>>
           /\ Len(Append(s, x)) = Len(s) + 1 /\ Append(s, x)[Len(s) + 1] = x
           /\ \A i \in 1..Len(s) : Append(s, x)[i] = s[i]
  OBVIOUS

LEMMA Tails ==
    ASSUME NEW S, NEW s \in Seq(S), s # <<>>
    PROVE  /\ Tail(s) \in Seq(S) /\ Head(s) \in S /\ Head(s) = s[1] /\ 1 \in DOMAIN s
           /\ DOMAIN s = 1..Len(s) /\ Len(s) \in Nat /\ Len(Tail(s)) = Len(s) - 1
           /\ \A i \in DOMAIN Tail(s) : i + 1 \in DOMAIN s /\ i + 1 # 1 /\ Tail(s)[i] = s[i + 1]
           /\ \A i \in DOMAIN s : i # 1 => i - 1 \in DOMAIN Tail(s) /\ Tail(s)[i - 1] = s[i]
<1>1. /\ Tail(s) \in Seq(S) /\ Head(s) \in S /\ Head(s) = s[1] /\ 1 \in DOMAIN s
      /\ DOMAIN s = 1..Len(s) /\ Len(s) \in Nat /\ Len(Tail(s)) = Len(s) - 1
      /\ \A i \in 1..(Len(s) - 1) : Tail(s)[i] = s[i + 1]
  OBVIOUS
<1>2. DOMAIN Tail(s) = 1..(Len(s) - 1)
  OBVIOUS
<1>3. \A i \in DOMAIN Tail(s) : i + 1 \in DOMAIN s /\ i + 1 # 1 /\ Tail(s)[i] = s[i + 1]
  BY <1>1, <1>2
<1>4. \A i \in DOMAIN s : i # 1 => i - 1 \in DOMAIN Tail(s) /\ Tail(s)[i - 1] = s[i]
  <2>1. \A i \in DOMAIN s : i # 1 => i - 1 \in 1..(Len(s) - 1) /\ (i - 1) + 1 = i
    BY <1>1
  <2>. QED  BY <1>1, <1>2, <2>1
<1>. QED  BY <1>1, <1>3, <1>4
=============================================================================
