---------------------------- MODULE DaemonProofs ----------------------------
(***************************************************************************)
(* The safety of oprofiled: of its decoder of the kernel's event buffer    *)
(* (OpdTrans), whatever the buffer holds, and of the loop that reads and   *)
(* stores the buffer (OpdMain).                                            *)
(***************************************************************************)
EXTENDS OpdTrans, OpdMain, FiniteSetTheorems, WellFoundedInduction, TLAPS

-----------------------------------------------------------------------------
(* Induction                                                               *)

\* Induction over the naturals, for a set.
LEMMA NatSetInduction ==
  ASSUME NEW T, 0 \in T, \A n \in Nat : n \in T => n + 1 \in T
  PROVE  Nat \subseteq T
<1> SUFFICES ASSUME NEW m \in Nat, m \notin T PROVE FALSE
  OBVIOUS
<1> DEFINE U == {0..n : n \in {k \in Nat : k \notin T}}
<1>1. U # {} /\ 0..m \in U
  OBVIOUS
<1>2. U \subseteq FiniteSubsetsOf(Nat)
  <2> SUFFICES ASSUME NEW n \in Nat PROVE 0..n \in FiniteSubsetsOf(Nat)
    OBVIOUS
  <2>1. IsFiniteSet(0..n) BY FS_Interval
  <2> QED BY <2>1 DEF FiniteSubsetsOf
<1>3. IsWellFoundedOn(StrictSubsetOrdering(Nat), FiniteSubsetsOf(Nat))
  BY FS_StrictSubsetOrderingWellFounded
<1> HIDE DEF U
<1>4. \E x \in U : \A y \in U : ~(<<y, x>> \in StrictSubsetOrdering(Nat))
  BY <1>1, <1>2, <1>3, WFMin
<1> USE DEF U
<1>5. PICK x \in Nat : x \notin T /\ \A y \in U : ~(<<y, 0..x>> \in StrictSubsetOrdering(Nat))
  BY <1>4
<1>6. x # 0
  BY <1>5
<1>7. x - 1 \in Nat /\ (x - 1) + 1 = x
  BY <1>6
<1>8. x - 1 \notin T
  BY <1>5, <1>7
<1>9. 0..(x - 1) \in U
  BY <1>7, <1>8
<1>10. <<0..(x - 1), 0..x>> \in StrictSubsetOrdering(Nat)
  BY SMTT(40), <1>7 DEF StrictSubsetOrdering
<1> QED BY <1>5, <1>9, <1>10

\* g starts at c and goes on by F, n times.
Iterates(g, S, c, F, n) ==
  /\ g \in [0..n -> S]
  /\ g[0] = c
  /\ \A m \in 1..n : g[m] = F[m][g[m - 1]]

\* There is a function that does so.
LEMMA RecursionExists ==
  ASSUME NEW S, NEW c \in S, NEW F \in [Nat -> [S -> S]], NEW n \in Nat
  PROVE  \E g : Iterates(g, S, c, F, n)
<1> DEFINE R(g, k) == g[0] = c /\ \A m \in 1..k : g[m] = F[m][g[m - 1]]
           T == {k \in Nat : \E g \in [0..k -> S] : R(g, k)}
<1>1. 0 \in T
  <2>1. [j \in 0..0 |-> c] \in [0..0 -> S] /\ R([j \in 0..0 |-> c], 0)
    OBVIOUS
  <2> QED BY <2>1
<1>2. ASSUME NEW k \in Nat, k \in T PROVE k + 1 \in T
  <2>1. PICK g \in [0..k -> S] : R(g, k)
    BY <1>2
  <2> DEFINE h == [j \in 0..k + 1 |-> IF j =< k THEN g[j] ELSE F[k + 1][g[k]]]
  <2>2. F[k + 1] \in [S -> S] /\ g[k] \in S
    OBVIOUS
  <2>3. h \in [0..k + 1 -> S]
    BY <2>2
  <2>4. ASSUME NEW m \in 1..k + 1 PROVE h[m] = F[m][h[m - 1]]
    <3>1. CASE m = k + 1
      BY <3>1
    <3>2. CASE m =< k
      <4>1. m \in 1..k /\ m - 1 \in 0..k /\ h[m] = g[m] /\ h[m - 1] = g[m - 1]
        BY <3>2
      <4> QED BY <4>1, <2>1
    <3> QED BY <3>1, <3>2
  <2>5. h[0] = c
    BY <2>1
  <2> HIDE DEF h
  <2>6. R(h, k + 1)
    BY <2>4, <2>5
  <2> QED BY <2>3, <2>6
<1>3. Nat \subseteq T
  <2> HIDE DEF T
  <2> QED BY <1>1, <1>2, NatSetInduction
<1> QED BY <1>3 DEF Iterates

-----------------------------------------------------------------------------
(* Folds                                                                   *)

\* f computes, for the sets of numbers up to n, what F makes of c from the
\* least number of the set to the greatest.
FoldEq(f, W, c, F, n) ==
  \A s \in SUBSET (1..n) :
    /\ s = {} => f[s] = c
    /\ s # {} /\ f[s \ {Max(s)}] \in W => f[s] = F[Max(s)][f[s \ {Max(s)}]]

LEMMA MaxIs ==
  ASSUME NEW n \in Nat, NEW s \in SUBSET (1..n), n \in s
  PROVE  Max(s) = n
<1>1. n \in s /\ \A y \in s : n >= y
  OBVIOUS
<1>2. ASSUME NEW x \in s, \A y \in s : x >= y PROVE x = n
  BY <1>2
<1> QED BY <1>1, <1>2 DEF Max

LEMMA MaxLess ==
  ASSUME NEW n \in Nat, NEW s \in SUBSET (1..n), s # {}
  PROVE  /\ Max(s) \in s /\ s \ {Max(s)} \in SUBSET (1..n)
         /\ s \ {Max(s)} \in SUBSET (1..(Max(s) - 1))
<1> DEFINE T == {k \in Nat : \A z \in SUBSET (1..k) : z # {} => \E x \in z : \A y \in z : x >= y}
<1>1. 0 \in T
  <2>1. 1..0 = {}
    OBVIOUS
  <2> QED BY <2>1
<1>2. ASSUME NEW k \in Nat, k \in T PROVE k + 1 \in T
  <2> SUFFICES ASSUME NEW z \in SUBSET (1..k + 1), z # {}
               PROVE  \E x \in z : \A y \in z : x >= y
    OBVIOUS
  <2>1. CASE k + 1 \in z
    BY <2>1
  <2>2. CASE k + 1 \notin z
    <3>1. z \in SUBSET (1..k)
      BY <2>2
    <3> QED BY <1>2, <3>1
  <2> QED BY <2>1, <2>2
<1>3. Nat \subseteq T
  <2> HIDE DEF T
  <2> QED BY <1>1, <1>2, NatSetInduction
<1>4. \E x \in s : \A y \in s : x >= y
  BY <1>3
<1>5. Max(s) \in s /\ \A y \in s : Max(s) >= y
  BY <1>4 DEF Max
<1> DEFINE m == Max(s)
<1> HIDE DEF m
<1>6. m \in Nat /\ \A y \in s : y \in 1..n /\ m >= y
  <2>1. m \in s /\ \A y \in s : m >= y
    BY <1>5 DEF m
  <2>2. \A y \in s : y \in 1..n
    OBVIOUS
  <2> QED BY <2>1, <2>2
<1>7. \A y \in s \ {m} : y \in 1..(m - 1)
  BY <1>6
<1>8. m \in s
  BY <1>5 DEF m
<1> QED BY <1>7, <1>8 DEF m

\* There is such a function, with values in W.
LEMMA FoldExists ==
  ASSUME NEW W, NEW c \in W, NEW F \in [Nat -> [W -> W]], NEW n \in Nat
  PROVE  \E f \in [SUBSET (1..n) -> W] : FoldEq(f, W, c, F, n)
<1> DEFINE T == {k \in Nat : \E f \in [SUBSET (1..k) -> W] : FoldEq(f, W, c, F, k)}
<1>1. 0 \in T
  <2> DEFINE f == [s \in SUBSET (1..0) |-> c]
  <2>1. f \in [SUBSET (1..0) -> W]
    OBVIOUS
  <2>2. FoldEq(f, W, c, F, 0)
    <3>1. \A s \in SUBSET (1..0) : s = {}
      OBVIOUS
    <3> QED BY <3>1 DEF FoldEq
  <2> HIDE DEF f
  <2> QED BY <2>1, <2>2
<1>2. ASSUME NEW k \in Nat, k \in T PROVE k + 1 \in T
  <2>1. PICK f \in [SUBSET (1..k) -> W] : FoldEq(f, W, c, F, k)
    BY <1>2
  <2> DEFINE h == [s \in SUBSET (1..k + 1) |->
                     IF k + 1 \in s THEN F[k + 1][f[s \ {k + 1}]] ELSE f[s]]
  <2>2. ASSUME NEW s \in SUBSET (1..k + 1)
        PROVE  /\ k + 1 \notin s => s \in SUBSET (1..k)
               /\ s \ {k + 1} \in SUBSET (1..k)
    OBVIOUS
  <2>3. ASSUME NEW s \in SUBSET (1..k + 1)
        PROVE  /\ k + 1 \in s => h[s] = F[k + 1][f[s \ {k + 1}]] /\ f[s \ {k + 1}] \in W
               /\ k + 1 \notin s => h[s] = f[s] /\ f[s] \in W
    BY <2>2
  <2>4. F[k + 1] \in [W -> W]
    OBVIOUS
  <2>5. h \in [SUBSET (1..k + 1) -> W]
    <3>1. ASSUME NEW s \in SUBSET (1..k + 1) PROVE h[s] \in W
      BY <2>3, <2>4
    <3> QED BY <3>1
  <2> HIDE DEF h
  <2>6. FoldEq(h, W, c, F, k + 1)
    <3> SUFFICES ASSUME NEW s \in SUBSET (1..k + 1)
                 PROVE  /\ s = {} => h[s] = c
                        /\ s # {} => h[s] = F[Max(s)][h[s \ {Max(s)}]]
      BY DEF FoldEq
    <3>1. CASE k + 1 \in s
      <4>1. Max(s) = k + 1
        BY <3>1, MaxIs
      <4>2. s \ {k + 1} \in SUBSET (1..k + 1) /\ k + 1 \notin s \ {k + 1}
        OBVIOUS
      <4>3. h[s \ {k + 1}] = f[s \ {k + 1}]
        BY <2>3, <4>2
      <4> QED BY <2>3, <3>1, <4>1, <4>3
    <3>2. CASE k + 1 \notin s
      <4>1. s \in SUBSET (1..k)
        BY <2>2, <3>2
      <4>2. CASE s = {}
        BY <2>1, <2>3, <3>2, <4>1, <4>2 DEF FoldEq
      <4>3. CASE s # {}
        <5>1. Max(s) \in s /\ s \ {Max(s)} \in SUBSET (1..k)
          BY <4>1, <4>3, MaxLess
        <5>2. f[s \ {Max(s)}] \in W
          BY <5>1
        <5>3. f[s] = F[Max(s)][f[s \ {Max(s)}]]
          BY <2>1, <4>1, <4>3, <5>2 DEF FoldEq
        <5>4. h[s \ {Max(s)}] = f[s \ {Max(s)}]
          <6>1. s \ {Max(s)} \in SUBSET (1..k + 1) /\ k + 1 \notin s \ {Max(s)}
            BY <3>2
          <6> QED BY <2>3, <6>1
        <5> QED BY <2>3, <3>2, <4>3, <5>3, <5>4
      <4> QED BY <4>2, <4>3
    <3> QED BY <3>1, <3>2
  <2> QED BY <2>5, <2>6
<1>3. Nat \subseteq T
  <2> HIDE DEF T
  <2> QED BY <1>1, <1>2, NatSetInduction
<1> QED BY <1>3

\* Step by step, it iterates F.
LEMMA FoldIterates ==
  ASSUME NEW W, NEW c \in W, NEW F \in [Nat -> [W -> W]], NEW n \in Nat, NEW f,
         FoldEq(f, W, c, F, n)
  PROVE  \E g : Iterates(g, W, c, F, n) /\ f[1..n] = g[n]
<1>1. PICK g : Iterates(g, W, c, F, n)
  BY RecursionExists
<1> DEFINE T == {k \in Nat : k <= n => f[1..k] = g[k]}
<1>2. 0 \in T
  <2>1. 1..0 = {} /\ 1..0 \in SUBSET (1..n)
    OBVIOUS
  <2>2. f[1..0] = c
    BY <2>1 DEF FoldEq
  <2> QED BY <1>1, <2>2 DEF Iterates
<1>3. ASSUME NEW k \in Nat, k \in T PROVE k + 1 \in T
  <2> SUFFICES ASSUME k + 1 <= n PROVE f[1..k + 1] = g[k + 1]
    OBVIOUS
  <2>1. 1..k + 1 \in SUBSET (1..n) /\ 1..k + 1 # {} /\ (1..k + 1) \ {k + 1} = 1..k
    <3>1. k + 1 \in 1..k + 1
      OBVIOUS
    <3>2. \A i \in 1..k + 1 : i \in 1..n
      OBVIOUS
    <3>3. \A i : i \in 1..k <=> i \in (1..k + 1) \ {k + 1}
      OBVIOUS
    <3> QED BY <3>1, <3>2, <3>3
  <2>2. Max(1..k + 1) = k + 1
    BY MaxIs
  <2>3. f[1..k] = g[k] /\ g[k] \in W
    BY <1>1, <1>3 DEF Iterates
  <2>4. f[1..k + 1] = F[k + 1][g[k]]
    BY <2>1, <2>2, <2>3 DEF FoldEq
  <2>5. g[k + 1] = F[k + 1][g[k]]
    <3>1. k + 1 \in 1..n /\ (k + 1) - 1 = k
      OBVIOUS
    <3> QED BY <1>1, <3>1 DEF Iterates
  <2> QED BY <2>4, <2>5
<1>4. Nat \subseteq T
  <2> HIDE DEF T
  <2> QED BY <1>2, <1>3, NatSetInduction
<1>5. f[1..n] = g[n]
  BY <1>4
<1> QED BY <1>1, <1>5

LEMMA ToSetAppend ==
  ASSUME NEW S, NEW s \in Seq(S), NEW e \in S
  PROVE  ToSet(Append(s, e)) = ToSet(s) \cup {e}
<1> DEFINE a == Append(s, e)
<1>1. DOMAIN a = 1..Len(s) + 1 /\ DOMAIN s = 1..Len(s) /\ Len(s) \in Nat
  OBVIOUS
<1>2. a[Len(s) + 1] = e /\ \A i \in 1..Len(s) : a[i] = s[i]
  OBVIOUS
<1>3. \A i : i \in 1..Len(s) + 1 <=> i \in 1..Len(s) \/ i = Len(s) + 1
  BY <1>1
<1> HIDE DEF a
<1>4. ToSet(a) = ToSet(s) \cup {e}
  BY <1>1, <1>2, <1>3 DEF ToSet
<1> QED BY <1>4 DEF a

\* What is left of a list.
LEMMA WithoutIs ==
  ASSUME NEW S, NEW s \in Seq(S), NEW gone
  PROVE  /\ Without(s, gone) \in Seq(S) /\ ToSet(Without(s, gone)) = ToSet(s) \ gone
         /\ Len(Without(s, gone)) <= Len(s)
         /\ (\E m \in ToSet(s) : m \in gone) => Len(Without(s, gone)) < Len(s)
<1> DEFINE n == Len(s)
           W == Seq(S)
           F == [k \in Nat |-> [q \in W |-> IF k \in 1..n /\ s[k] \notin gone
                                            THEN Append(q, s[k]) ELSE q]]
           Eq(f) == f = [d \in SUBSET (1..n) |->
                           IF d = {} THEN <<>>
                           ELSE IF s[Max(d)] \in gone THEN f[d \ {Max(d)}]
                           ELSE Append(f[d \ {Max(d)}], s[Max(d)])]
<1>1. n \in Nat /\ DOMAIN s = 1..n /\ (\A k \in 1..n : s[k] \in S) /\ <<>> \in W
  OBVIOUS
<1>2. Without(s, gone) = (CHOOSE f : Eq(f))[1..n]
  BY <1>1 DEF Without, FoldLeft, MapThenFoldSet
<1>3. F \in [Nat -> [W -> W]]
  <2>1. ASSUME NEW k \in Nat, NEW q \in W
        PROVE  (IF k \in 1..n /\ s[k] \notin gone THEN Append(q, s[k]) ELSE q) \in W
    BY <1>1
  <2> HIDE DEF W
  <2> QED BY <2>1
<1> HIDE DEF n, W
<1>4. ASSUME NEW d \in SUBSET (1..n), d # {}, NEW q \in W
      PROVE  /\ F[Max(d)][q] = IF s[Max(d)] \in gone THEN q ELSE Append(q, s[Max(d)])
             /\ d \ {Max(d)} \in SUBSET (1..n)
  <2>0. Max(d) \in d /\ d \ {Max(d)} \in SUBSET (1..n)
    BY <1>1, <1>4, MaxLess
  <2>1. Max(d) \in 1..n
    BY <2>0
  <2>2. \A i \in 1..n : i \in Nat
    OBVIOUS
  <2> QED BY <2>0, <2>1, <2>2
<1> HIDE DEF F
<1>5. \E f : Eq(f)
  <2>1. PICK f \in [SUBSET (1..n) -> W] : FoldEq(f, W, <<>>, F, n)
    BY <1>1, <1>3, FoldExists
  <2>2. ASSUME NEW d \in SUBSET (1..n)
        PROVE  f[d] = IF d = {} THEN <<>>
                      ELSE IF s[Max(d)] \in gone THEN f[d \ {Max(d)}]
                      ELSE Append(f[d \ {Max(d)}], s[Max(d)])
    BY <1>4, <2>1 DEF FoldEq
  <2> QED BY <2>2
<1>6. PICK f : Eq(f) /\ Without(s, gone) = f[1..n]
  <2> HIDE DEF Eq
  <2> QED BY <1>2, <1>5
<1>7. FoldEq(f, W, <<>>, F, n)
  BY <1>4, <1>6 DEF FoldEq
<1>8. PICK g : Iterates(g, W, <<>>, F, n) /\ Without(s, gone) = g[n]
  <2>1. \E g : Iterates(g, W, <<>>, F, n) /\ f[1..n] = g[n]
    <3> HIDE DEF Eq
    <3> QED BY <1>1, <1>3, <1>7, FoldIterates
  <2> QED BY <1>6, <2>1
<1> DEFINE Good(k) ==
             /\ ToSet(g[k]) = {s[i] : i \in 1..k} \ gone /\ Len(g[k]) <= k
             /\ (\E i \in 1..k : s[i] \in gone) => Len(g[k]) < k
           T == {k \in Nat : k <= n => Good(k)}
<1>9. 0 \in T
  <2>1. g[0] = <<>> /\ ToSet(<<>>) = {} /\ 1..0 = {}
    BY <1>8 DEF Iterates, ToSet
  <2> QED BY <2>1
<1>10. ASSUME NEW k \in Nat, k \in T PROVE k + 1 \in T
  <2> SUFFICES ASSUME k + 1 <= n PROVE Good(k + 1)
    OBVIOUS
  <2>0. k \in 0..n /\ k + 1 \in 1..n
    BY <1>1
  <2>1. Good(k) /\ g[k] \in Seq(S) /\ k + 1 \in 1..n /\ s[k + 1] \in S
    <3>1. g[k] \in Seq(S)
      BY <1>8, <2>0 DEF Iterates, W
    <3>2. k <= n => Good(k)
      BY <1>10
    <3>3. k <= n
      BY <1>1
    <3> QED BY <1>1, <2>0, <3>1, <3>2, <3>3
  <2>2. g[k + 1] = IF s[k + 1] \in gone THEN g[k] ELSE Append(g[k], s[k + 1])
    <3>1. g[k + 1] = F[k + 1][g[(k + 1) - 1]] /\ (k + 1) - 1 = k
      BY <1>8, <2>1 DEF Iterates
    <3>2. F[k + 1][g[k]] = IF s[k + 1] \in gone THEN g[k] ELSE Append(g[k], s[k + 1])
      BY <2>1 DEF F, W
    <3> QED BY <3>1, <3>2
  <2>3. {s[i] : i \in 1..k + 1} = {s[i] : i \in 1..k} \cup {s[k + 1]}
    <3>1. \A i : i \in 1..k + 1 <=> i \in 1..k \/ i = k + 1
      OBVIOUS
    <3> QED BY <3>1
  <2>4. CASE s[k + 1] \in gone
    BY <2>1, <2>2, <2>3, <2>4
  <2>5. CASE s[k + 1] \notin gone
    <3>1. /\ g[k + 1] = Append(g[k], s[k + 1])
          /\ Len(g[k + 1]) = Len(g[k]) + 1 /\ Len(g[k]) \in Nat
      BY <2>1, <2>2, <2>5
    <3>2. ToSet(g[k + 1]) = ToSet(g[k]) \cup {s[k + 1]}
      BY <2>1, <3>1, ToSetAppend
    <3>3. (\E i \in 1..k + 1 : s[i] \in gone) => \E i \in 1..k : s[i] \in gone
      <4>1. \A i : i \in 1..k + 1 => i \in 1..k \/ i = k + 1
        OBVIOUS
      <4> QED BY <2>5, <4>1
    <3> QED BY <2>1, <2>3, <2>5, <3>1, <3>2, <3>3
  <2> QED BY <2>4, <2>5
<1>11. Nat \subseteq T
  <2> HIDE DEF T
  <2> QED BY <1>9, <1>10, NatSetInduction
<1>12. Good(n) /\ g[n] \in Seq(S)
  <2>1. n \in T
    BY <1>1, <1>11
  <2>2. n <= n /\ n \in 0..n
    BY <1>1
  <2>3. g[n] \in Seq(S)
    BY <1>8, <2>2 DEF Iterates, W
  <2> QED BY <2>1, <2>2, <2>3
<1>13. ToSet(s) = {s[i] : i \in 1..n}
  BY <1>1 DEF ToSet
<1> QED BY <1>8, <1>12, <1>13 DEF n

\* What each region that is added keeps, all of them keep.
LEMMA AllAdded ==
  ASSUME NEW W, NEW w \in W, NEW n \in Nat, NEW list, DOMAIN list = 1..n,
         \A v \in W, k \in 1..n : add_anon_mapping(v, list[k]) \in W
  PROVE  FoldLeft(add_anon_mapping, w, list) \in W
<1> DEFINE F == [k \in Nat |-> [v \in W |-> IF k \in 1..n THEN add_anon_mapping(v, list[k])
                                           ELSE v]]
           Eq(f) == f = [d \in SUBSET (1..n) |->
                           IF d = {} THEN w
                           ELSE add_anon_mapping(f[d \ {Max(d)}], list[Max(d)])]
<1>1. FoldLeft(add_anon_mapping, w, list) = (CHOOSE f : Eq(f))[1..n]
  BY DEF FoldLeft, MapThenFoldSet
<1>2. F \in [Nat -> [W -> W]]
  OBVIOUS
<1>3. ASSUME NEW d \in SUBSET (1..n), d # {}, NEW v \in W
      PROVE  /\ F[Max(d)][v] = add_anon_mapping(v, list[Max(d)])
             /\ d \ {Max(d)} \in SUBSET (1..n)
  <2>0. Max(d) \in d /\ d \ {Max(d)} \in SUBSET (1..n)
    BY <1>3, MaxLess
  <2>1. Max(d) \in 1..n
    BY <2>0
  <2>2. \A i \in 1..n : i \in Nat
    OBVIOUS
  <2> QED BY <2>0, <2>1, <2>2
<1> HIDE DEF F
<1>4. \E f : Eq(f)
  <2>1. PICK f \in [SUBSET (1..n) -> W] : FoldEq(f, W, w, F, n)
    BY <1>2, FoldExists
  <2>2. ASSUME NEW d \in SUBSET (1..n)
        PROVE  f[d] = IF d = {} THEN w
                      ELSE add_anon_mapping(f[d \ {Max(d)}], list[Max(d)])
    BY <1>3, <2>1 DEF FoldEq
  <2> QED BY <2>2
<1>5. PICK f : Eq(f) /\ FoldLeft(add_anon_mapping, w, list) = f[1..n]
  <2> HIDE DEF Eq
  <2> QED BY <1>1, <1>4
<1>6. FoldEq(f, W, w, F, n)
  BY <1>3, <1>5 DEF FoldEq
<1>7. PICK g : Iterates(g, W, w, F, n) /\ f[1..n] = g[n]
  BY <1>2, <1>6, FoldIterates
<1>8. g[n] \in W
  <2>1. g \in [0..n -> W] /\ n \in 0..n
    BY <1>7 DEF Iterates
  <2> QED BY <2>1
<1> QED BY <1>5, <1>7, <1>8

-----------------------------------------------------------------------------
(* The inductive invariant                                                 *)

AppCookies == {INVALID_COOKIE} \cup {t.app_cookie : t \in UNION {Load[c].tasks : c \in Configs}}
Mappings == [tgid : Tgids, app_cookie : AppCookies, start : Nat \ {0}, end : Nat]

Fields == {"in_kernel", "cookie", "app_cookie", "tid", "tgid", "cpu", "tracing", "current",
           "anon", "last", "last_anon", "last_pc", "pc", "event"}

\* What the program's types say.
ShapeInv ==
  /\ TypeOK
  /\ DOMAIN trans = Fields /\ trans.app_cookie \in AppCookies
  /\ anons \in Seq(Mappings)
  /\ \A m \in modules : m.start \in Nat \ {0}
  /\ kcmd \in [Tgids -> {"unknown", "has", "none"}]

\* What is folded into the hash is what the match compares: an sfile has the
\* hash that its own fields give.
HashOf(x) ==
  <<IF "thread" \in config THEN <<x.tid, x.tgid>> ELSE <<>>,
    IF OwnedByApp(x.anon, x.kernel) THEN <<x.app_cookie>> ELSE <<>>,
    IF "cpu" \in config THEN <<x.cpu>> ELSE <<>>,
    IF x.kernel # NULL THEN <<"kernel", x.kernel.start, x.kernel.end>>
    ELSE IF x.cookie # NO_COOKIE THEN <<"binary", x.cookie>>
    ELSE <<"anon", x.anon.tgid, x.anon.start, x.anon.end>> >>

IsSfile(x) ==
  /\ x # NULL
  /\ x.hashval = HashOf(x)
  /\ x.kernel # NULL => x.anon = NULL
  /\ x.kernel = NULL => (x.cookie = NO_COOKIE) = (x.anon # NULL)

\* What an sfile refers to exists.
Refers(x, an, mods) == /\ x.anon \in ToSet(an) \cup {NULL}
                       /\ x.kernel \in mods \cup {NULL, Vmlinux, Xen}

SfilesInv == /\ \A x \in sfiles : IsSfile(x) /\ Refers(x, anons, modules)
             /\ UniqueSfiles

\* The mapping m is one of the process of t.
OfProcess(m, t) == m.tgid = t.tgid /\ m.app_cookie = t.app_cookie

\* The sfile x is one of the context t.
OfContext(x, t) ==
  /\ t.in_kernel \in {0, 1} /\ (t.in_kernel = 0) = (x.kernel = NULL)
  /\ t.in_kernel = 0 => x.cookie = t.cookie
  /\ "thread" \in config => x.tid = t.tid /\ x.tgid = t.tgid
  /\ "cpu" \in config => x.cpu = t.cpu
  /\ OwnedByApp(x.anon, x.kernel) => x.app_cookie = t.app_cookie
  /\ x.anon # NULL => OfProcess(x.anon, t)

\* What is cached exists and is of the context.
CacheOf(t, sf, an) ==
  /\ t.anon \in ToSet(an) \cup {NULL}
  /\ t.anon # NULL => OfProcess(t.anon, t) /\ t.cookie = NO_COOKIE
  /\ t.current \in sf \cup {NULL}
  /\ t.current # NULL => OfContext(t.current, t)

CacheInv == /\ CacheOf(trans, sfiles, anons)
            /\ trans.last \in sfiles \cup {NULL}
            /\ trans.last # NULL => prev = <<trans.last_pc, trans.last>>

\* Whoever frees the mapping of the last sample's sfile knows of the sfile, if
\* that is the mapping the last sample was in.
LastOf(t, sf) == t.last # NULL /\ t.last.anon = t.last_anon => t.last \in sf

\* The cached sfile is that of the mapping in which the first sample was that it
\* was used for.
FoundInv == trans.current # NULL /\ trans.in_kernel = 0 /\ trans.cookie = NO_COOKIE
              => InRange(trans.current.anon, found_pc)

\* The sample was taken in the image of its sfile.
LoggedInv ==
  logged \in {"sample", "arc"} =>
    /\ trans.current # NULL
    /\ trans.in_kernel # 0 /\ "no_vmlinux" \notin config
         => InRange(trans.current.kernel, trans.last_pc)

TransInv == ShapeInv /\ SfilesInv /\ CacheInv /\ FoundInv /\ LoggedInv

-----------------------------------------------------------------------------
(* opd_anon.c                                                              *)

LEMMA NullIs == NULL \notin Mappings
BY DEF NULL, Mappings

\* A field that is no pointer to what a cache holds.
Steady == Fields \ {"current", "anon", "last", "last_anon"}

LEMMA ClearedCurrent ==
  ASSUME NEW t, DOMAIN t = Fields
  PROVE  LET c == clear_trans_current(t)
         IN  /\ DOMAIN c = Fields /\ c.current = NULL /\ c.anon = NULL
             /\ \A f \in Fields \ {"current", "anon"} : c[f] = t[f]
BY DEF clear_trans_current, Fields

LEMMA ClearedLast ==
  ASSUME NEW t, DOMAIN t = Fields
  PROVE  LET c == clear_trans_last(t)
         IN  /\ DOMAIN c = Fields /\ c.last = NULL /\ c.last_anon = NULL
             /\ \A f \in Fields \ {"last", "last_anon"} : c[f] = t[f]
BY DEF clear_trans_last, Fields

\* The transient loses what refers to a mapping that is freed.
LEMMA Forgotten ==
  ASSUME NEW w, DOMAIN w.t = Fields, w.an \in Seq(Mappings), NEW gone
  PROVE  LET v == ForgetAnons(w, gone)
         IN  /\ DOMAIN v.t = Fields /\ \A f \in Steady : v.t[f] = w.t[f]
             /\ IF w.t.anon \in gone THEN v.t.current = NULL /\ v.t.anon = NULL
                ELSE v.t.current = w.t.current /\ v.t.anon = w.t.anon
             /\ IF w.t.last_anon \in gone THEN v.t.last = NULL /\ v.t.last_anon = NULL
                ELSE v.t.last = w.t.last /\ v.t.last_anon = w.t.last_anon
             /\ v.sf = {x \in w.sf : x.anon \notin gone}
             /\ v.an \in Seq(Mappings) /\ ToSet(v.an) = ToSet(w.an) \ gone
             /\ Len(v.an) <= Len(w.an)
             /\ (\E m \in ToSet(w.an) : m \in gone) => Len(v.an) < Len(w.an)
<1> DEFINE v == ForgetAnons(w, gone)
           u == IF w.t.anon \in gone THEN clear_trans_current(w.t) ELSE w.t
<1>1. /\ v.t = IF u.last_anon \in gone THEN clear_trans_last(u) ELSE u
      /\ v.sf = {x \in w.sf : x.anon \notin gone} /\ v.an = Without(w.an, gone)
  BY DEF ForgetAnons, sfile_clear_anon
<1>2. /\ DOMAIN u = Fields /\ \A f \in Fields \ {"current", "anon"} : u[f] = w.t[f]
      /\ IF w.t.anon \in gone THEN u.current = NULL /\ u.anon = NULL
         ELSE u.current = w.t.current /\ u.anon = w.t.anon
  BY ClearedCurrent
<1> HIDE DEF u, v
<1>3. /\ DOMAIN v.t = Fields /\ \A f \in Fields \ {"last", "last_anon"} : v.t[f] = u[f]
      /\ IF u.last_anon \in gone THEN v.t.last = NULL /\ v.t.last_anon = NULL
         ELSE v.t.last = u.last /\ v.t.last_anon = u.last_anon
  BY <1>1, <1>2, ClearedLast
<1>4. u.last = w.t.last /\ u.last_anon = w.t.last_anon
  BY <1>2 DEF Fields
<1>5. v.t.current = u.current /\ v.t.anon = u.anon /\ \A f \in Steady : v.t[f] = w.t[f]
  BY <1>2, <1>3 DEF Fields, Steady
<1>6. /\ v.an \in Seq(Mappings) /\ ToSet(v.an) = ToSet(w.an) \ gone
      /\ Len(v.an) <= Len(w.an)
      /\ (\E m \in ToSet(w.an) : m \in gone) => Len(v.an) < Len(w.an)
  BY <1>1, WithoutIs
<1> QED BY <1>1, <1>2, <1>3, <1>4, <1>5, <1>6 DEF v

LEMMA LastKept ==
  ASSUME NEW w, DOMAIN w.t = Fields, w.an \in Seq(Mappings), NEW gone, LastOf(w.t, w.sf)
  PROVE  LastOf(ForgetAnons(w, gone).t, ForgetAnons(w, gone).sf)
BY Forgotten DEF LastOf

\* A mapping of the process of t.
MappingOf(t, r) == [tgid |-> t.tgid, app_cookie |-> t.app_cookie,
                    start |-> r.start, end |-> r.end]

\* What may come of w when regions are added to its process: older mappings
\* go, with their sfiles, but not what refers to them.
Grown(w, regions) ==
  {v \in [t : {w.t, clear_trans_last(w.t)}, sf : SUBSET w.sf, an : Seq(Mappings)] :
     /\ Len(v.an) < LRU_SIZE
     /\ \A x \in v.sf : x.anon \in ToSet(v.an) \cup {NULL}
     /\ \A m \in ToSet(v.an) : m \in ToSet(w.an) \/ \E r \in regions : m = MappingOf(w.t, r)
     /\ LastOf(w.t, w.sf) => LastOf(v.t, v.sf)}

LEMMA Grows ==
  ASSUME NEW w, DOMAIN w.t = Fields, w.t.anon = NULL, w.t.tgid \in Tgids,
         w.t.app_cookie \in AppCookies, NEW regions,
         \A r \in regions : r.start \in Nat \ {0} /\ r.end \in Nat,
         NEW v \in Grown(w, regions), NEW r \in regions
  PROVE  add_anon_mapping(v, r) \in Grown(w, regions)
<1> DEFINE m == MappingOf(w.t, r)
           u == [t |-> v.t, sf |-> v.sf, an |-> Append(v.an, m)]
<1>1. /\ v = [t |-> v.t, sf |-> v.sf, an |-> v.an]
      /\ v.t \in {w.t, clear_trans_last(w.t)} /\ v.sf \subseteq w.sf /\ v.an \in Seq(Mappings)
      /\ Len(v.an) < LRU_SIZE /\ \A x \in v.sf : x.anon \in ToSet(v.an) \cup {NULL}
      /\ \A n \in ToSet(v.an) : n \in ToSet(w.an) \/ \E q \in regions : n = MappingOf(w.t, q)
      /\ LastOf(w.t, w.sf) => LastOf(v.t, v.sf)
  BY DEF Grown
<1>2. /\ DOMAIN v.t = Fields /\ v.t.tgid = w.t.tgid /\ v.t.app_cookie = w.t.app_cookie
      /\ v.t.anon = NULL
      /\ v.t = clear_trans_last(w.t) => v.t.last_anon = NULL
  <2>1. ASSUME NEW c, c = clear_trans_last(w.t)
        PROVE  /\ DOMAIN c = Fields /\ c.tgid = w.t.tgid /\ c.app_cookie = w.t.app_cookie
               /\ c.anon = NULL /\ c.last_anon = NULL
    BY <2>1, ClearedLast DEF Fields
  <2> QED BY <1>1, <2>1
<1>3. m \in Mappings
  BY DEF Mappings, MappingOf
<1>4. [v EXCEPT !.an = Append(@, [tgid |-> v.t.tgid, app_cookie |-> v.t.app_cookie,
                                  start |-> r.start, end |-> r.end])] = u
  <2>1. ASSUME NEW a, NEW b, NEW c, NEW d
        PROVE  [[t |-> a, sf |-> b, an |-> c] EXCEPT !.an = d] = [t |-> a, sf |-> b, an |-> d]
    OBVIOUS
  <2>2. [v EXCEPT !.an = Append(v.an, m)] = u
    <3>1. PICK a, b, c : v = [t |-> a, sf |-> b, an |-> c]
      BY <1>1
    <3>2. v.t = a /\ v.sf = b /\ v.an = c
      BY <3>1
    <3>3. \A d : [v EXCEPT !.an = d] = [t |-> a, sf |-> b, an |-> d]
      BY <2>1, <3>1
    <3> QED BY <3>2, <3>3
  <2> QED BY <1>2, <2>2 DEF MappingOf
<1>5. /\ u.t = v.t /\ u.sf = v.sf /\ u.an \in Seq(Mappings)
      /\ Len(u.an) = Len(v.an) + 1 /\ ToSet(u.an) = ToSet(v.an) \cup {m}
  <2>1. u.an = Append(v.an, m) /\ u.an \in Seq(Mappings) /\ Len(u.an) = Len(v.an) + 1
    BY <1>1, <1>3
  <2>2. ToSet(Append(v.an, m)) = ToSet(v.an) \cup {m}
    BY <1>1, <1>3, ToSetAppend
  <2> QED BY <2>1, <2>2
<1>6. add_anon_mapping(v, r) = IF Len(u.an) = LRU_SIZE THEN do_lru(u) ELSE u
  BY <1>4 DEF add_anon_mapping
<1> HIDE DEF u, m
<1>7. CASE Len(u.an) # LRU_SIZE
  <2>1. Len(u.an) < LRU_SIZE
    BY <1>1, <1>5, <1>7, TransAssumption
  <2>2. \A n \in ToSet(u.an) : n \in ToSet(w.an) \/ \E q \in regions : n = MappingOf(w.t, q)
    BY <1>1, <1>5 DEF m
  <2>3. u \in [t : {w.t, clear_trans_last(w.t)}, sf : SUBSET w.sf, an : Seq(Mappings)]
    BY <1>1, <1>5 DEF u
  <2> QED BY <1>1, <1>5, <1>6, <1>7, <2>1, <2>2, <2>3 DEF Grown
<1>8. CASE Len(u.an) = LRU_SIZE
  <2> DEFINE gone == {u.an[i] : i \in 1..(LRU_AMOUNT + 1)}
             y == ForgetAnons(u, gone)
  <2>1. add_anon_mapping(v, r) = y
    BY <1>6, <1>8 DEF do_lru
  <2>2. u.an[1] \in gone /\ u.an[1] \in ToSet(u.an) /\ gone \subseteq Mappings
    <3>1. 1 \in 1..(LRU_AMOUNT + 1) /\ \A i \in 1..(LRU_AMOUNT + 1) : i \in 1..Len(u.an)
      BY <1>8, TransAssumption
    <3>2. \A i \in 1..Len(u.an) : u.an[i] \in ToSet(u.an) /\ u.an[i] \in Mappings
      BY <1>5 DEF ToSet
    <3> QED BY <3>1, <3>2
  <2> HIDE DEF gone
  <2>3. /\ DOMAIN u.t = Fields /\ u.t.anon \notin gone
    BY <1>2, <1>5, <2>2, NullIs
  <2>4. /\ y.sf = {x \in u.sf : x.anon \notin gone}
        /\ y.an \in Seq(Mappings) /\ ToSet(y.an) = ToSet(u.an) \ gone /\ Len(y.an) < Len(u.an)
    BY <1>5, <2>2, <2>3, Forgotten
  <2>5. y.t \in {w.t, clear_trans_last(w.t)}
    <3>1. y.t = IF u.t.last_anon \in gone THEN clear_trans_last(u.t) ELSE u.t
      BY <2>3 DEF ForgetAnons
    <3>2. NULL \notin gone
      BY <2>2, NullIs
    <3> QED BY <1>1, <1>2, <1>5, <3>1, <3>2
  <2>6. y = [t |-> y.t, sf |-> y.sf, an |-> y.an]
    BY DEF ForgetAnons
  <2>7. LastOf(w.t, w.sf) => LastOf(y.t, y.sf)
    BY <1>1, <1>5, <2>3, LastKept
  <2> HIDE DEF y
  <2>8. y \in [t : {w.t, clear_trans_last(w.t)}, sf : SUBSET w.sf, an : Seq(Mappings)]
    <3>1. y.sf \in SUBSET w.sf
      BY <1>1, <1>5, <2>4
    <3> QED BY <2>4, <2>5, <2>6, <3>1
  <2>9. \A n \in ToSet(y.an) : n \in ToSet(w.an) \/ \E q \in regions : n = MappingOf(w.t, q)
    BY <1>1, <1>5, <2>4 DEF m
  <2>10. \A x \in y.sf : x.anon \in ToSet(y.an) \cup {NULL}
    BY <1>1, <1>5, <2>4
  <2>11. Len(y.an) < LRU_SIZE
    BY <1>8, <2>4
  <2> QED BY <2>1, <2>7, <2>8, <2>9, <2>10, <2>11 DEF Grown
<1> QED BY <1>7, <1>8

\* What opd_put_sample has in hand: its context with what is cached, and the
\* lists, of which only entries that nothing refers to are missing.
Held(w) ==
  /\ DOMAIN w = {"t", "sf", "an"} /\ DOMAIN w.t = Fields
  /\ w.t.in_kernel \in {-1, 0, 1} /\ w.t.app_cookie \in AppCookies
  /\ w.an \in Seq(Mappings) /\ Len(w.an) < LRU_SIZE
  /\ w.sf \subseteq sfiles /\ \A x \in w.sf : x.anon \in ToSet(w.an) \cup {NULL}
  /\ CacheOf(w.t, w.sf, w.an)
  /\ w.t.in_kernel # 0 => w.t.current = NULL /\ w.t.anon = NULL
  /\ w.t.current \in {trans.current, NULL}
  /\ LastOf(w.t, w.sf)
  /\ w.t.last # NULL => w.t.last = trans.last /\ w.t.last_anon = trans.last_anon

Anonymous(t) == t.in_kernel = 0 /\ t.cookie = NO_COOKIE

\* The context, which a lookup leaves alone.
SameContext(u, t) == \A f \in Steady : u[f] = t[f]

LEMMA ContextSame ==
  ASSUME NEW t, NEW u, SameContext(u, t)
  PROVE  /\ \A x : OfContext(x, u) = OfContext(x, t)
         /\ \A m : OfProcess(m, u) = OfProcess(m, t)
         /\ \A m : anon_match(u, m) = anon_match(t, m)
         /\ u.in_kernel = t.in_kernel /\ u.cookie = t.cookie /\ u.app_cookie = t.app_cookie
         /\ u.tgid = t.tgid /\ u.tid = t.tid /\ u.cpu = t.cpu /\ u.pc = t.pc
         /\ u.tracing = t.tracing
<1>1. /\ u.in_kernel = t.in_kernel /\ u.cookie = t.cookie /\ u.app_cookie = t.app_cookie
      /\ u.tgid = t.tgid /\ u.tid = t.tid /\ u.cpu = t.cpu /\ u.pc = t.pc
      /\ u.tracing = t.tracing
  BY DEF SameContext, Steady, Fields
<1>2. \A m : OfProcess(m, u) = OfProcess(m, t)
  BY <1>1 DEF OfProcess
<1>3. \A m : anon_match(u, m) = anon_match(t, m)
  BY <1>1 DEF anon_match
<1>4. \A x : OfContext(x, u) = OfContext(x, t)
  BY <1>1, <1>2 DEF OfContext
<1> QED BY <1>1, <1>2, <1>3, <1>4

LEMMA ListingIs ==
  ASSUME config \in Configs, NEW list, list = <<>> \/ list \in Listings
  PROVE  \E n \in 0..MaxRegions :
           /\ DOMAIN list = 1..n
           /\ \A i \in 1..n : list[i].start \in Nat \ {0} /\ list[i].end \in Nat
<1>1. MaxRegions \in Nat
  BY TransAssumption
<1>2. CASE list = <<>>
  BY <1>1, <1>2
<1>3. CASE list \in Listings
  <2>1. PICK n \in 0..MaxRegions : list \in [1..n -> Load[config].regions]
    BY <1>3 DEF Listings
  <2>2. \A r \in Load[config].regions : r.start \in Nat \ {0} /\ r.end \in Nat
    <3>1. ASSUME NEW r \in Load[config].regions
          PROVE  r.start \in Nat /\ r.end \in Nat /\ 0 < r.start
      BY TransAssumption
    <3> QED BY <3>1
  <2> QED BY <2>1, <2>2
<1> QED BY <1>2, <1>3

\* A mapping that is found in the list.
LEMMA FoundAtOnce ==
  ASSUME SfilesInv, NEW w, Held(w), Anonymous(w.t), NEW m \in Matches(w),
         NEW v, v = [w EXCEPT !.t.anon = m]
  PROVE  /\ Held(v) /\ SameContext(v.t, w.t)
         /\ v.t.anon # NULL /\ InRange(v.t.anon, v.t.pc)
<1>1. /\ m \in ToSet(w.an) /\ OfProcess(m, w.t) /\ InRange(m, w.t.pc) /\ m # NULL
  <2>1. ToSet(w.an) \subseteq Mappings
    BY DEF Held, ToSet
  <2> QED BY <2>1, NullIs DEF Matches, anon_match, OfProcess
<1>2. /\ DOMAIN v = {"t", "sf", "an"} /\ v.sf = w.sf /\ v.an = w.an
      /\ v.t = [w.t EXCEPT !.anon = m]
  BY DEF Held
<1>3. /\ DOMAIN v.t = Fields /\ v.t.anon = m
      /\ \A f \in Fields \ {"anon"} : v.t[f] = w.t[f]
  BY <1>2 DEF Held, Fields
<1>4. SameContext(v.t, w.t)
  BY <1>3 DEF SameContext, Steady
<1>5. /\ v.t.current = w.t.current /\ v.t.last = w.t.last /\ v.t.last_anon = w.t.last_anon
  BY <1>3 DEF Fields
<1>6. CacheOf(v.t, v.sf, v.an)
  BY <1>1, <1>2, <1>3, <1>4, <1>5, ContextSame DEF Held, CacheOf, Anonymous
<1>8. LastOf(v.t, v.sf)
  BY <1>2, <1>5 DEF Held, LastOf
<1>9. Held(v)
  BY <1>2, <1>3, <1>4, <1>5, <1>6, <1>8, ContextSame DEF Held, Anonymous
<1> QED BY <1>1, <1>3, <1>4, <1>9, ContextSame

\* After a second look at /proc nothing of the process is left but what that
\* says, and no sfile is cached.
LEMMA FoundAgain ==
  ASSUME config \in Configs, SfilesInv, NEW w, Held(w), Anonymous(w.t),
         NEW list, list = <<>> \/ list \in Listings,
         NEW v, v = get_anon_maps(clear_anon_maps(w), list)
  PROVE  Held(v) /\ SameContext(v.t, w.t) /\ v.t.current = NULL /\ v.t.anon = NULL
<1> DEFINE w1 == [w EXCEPT !.t = clear_trans_current(@)]
           gone == {m \in ToSet(w.an) : OfProcess(m, w.t)}
           c == ForgetAnons(w1, gone)
<1>1. ToSet(w.an) \subseteq Mappings /\ w.an \in Seq(Mappings)
  BY DEF Held, ToSet
<1>2. /\ w1.t = clear_trans_current(w.t) /\ w1.sf = w.sf /\ w1.an = w.an
  BY DEF Held
<1>3. /\ DOMAIN w1.t = Fields /\ w1.t.current = NULL /\ w1.t.anon = NULL
      /\ \A f \in Fields \ {"current", "anon"} : w1.t[f] = w.t[f]
  BY <1>2, ClearedCurrent DEF Held
<1>4. clear_anon_maps(w) = c
  <2>1. w1.t.tgid = w.t.tgid /\ w1.t.app_cookie = w.t.app_cookie
    BY <1>3 DEF Fields
  <2>2. {m \in ToSet(w1.an) : m.tgid = w1.t.tgid /\ m.app_cookie = w1.t.app_cookie} = gone
    BY <1>2, <2>1 DEF OfProcess
  <2> QED BY <1>2, <2>1, <2>2 DEF clear_anon_maps, OfProcess
<1>5. NULL \notin gone
  BY <1>1, NullIs
<1> HIDE DEF w1, gone
<1>6. /\ DOMAIN c.t = Fields /\ \A f \in Steady : c.t[f] = w1.t[f]
      /\ c.t.current = NULL /\ c.t.anon = NULL
      /\ c.t.last # NULL => c.t.last = w1.t.last /\ c.t.last_anon = w1.t.last_anon
      /\ c.sf = {x \in w.sf : x.anon \notin gone}
      /\ c.an \in Seq(Mappings) /\ ToSet(c.an) = ToSet(w.an) \ gone
      /\ Len(c.an) <= Len(w.an)
      /\ LastOf(w1.t, w1.sf) => LastOf(c.t, c.sf)
  <2>1. w1.an \in Seq(Mappings) /\ w1.t.anon \notin gone
    BY <1>1, <1>2, <1>3, <1>5
  <2>2. /\ DOMAIN c.t = Fields /\ \A f \in Steady : c.t[f] = w1.t[f]
        /\ c.t.current = w1.t.current /\ c.t.anon = w1.t.anon
        /\ c.t.last # NULL => c.t.last = w1.t.last /\ c.t.last_anon = w1.t.last_anon
        /\ c.sf = {x \in w1.sf : x.anon \notin gone}
        /\ c.an \in Seq(Mappings) /\ ToSet(c.an) = ToSet(w1.an) \ gone
        /\ Len(c.an) <= Len(w1.an)
    <3>1. /\ DOMAIN c.t = Fields /\ \A f \in Steady : c.t[f] = w1.t[f]
          /\ IF w1.t.anon \in gone THEN c.t.current = NULL /\ c.t.anon = NULL
             ELSE c.t.current = w1.t.current /\ c.t.anon = w1.t.anon
          /\ IF w1.t.last_anon \in gone THEN c.t.last = NULL /\ c.t.last_anon = NULL
             ELSE c.t.last = w1.t.last /\ c.t.last_anon = w1.t.last_anon
          /\ c.sf = {x \in w1.sf : x.anon \notin gone}
          /\ c.an \in Seq(Mappings) /\ ToSet(c.an) = ToSet(w1.an) \ gone
          /\ Len(c.an) <= Len(w1.an)
      BY <1>3, <2>1, Forgotten
    <3> HIDE DEF c
    <3> QED BY <2>1, <3>1
  <2>3. LastOf(w1.t, w1.sf) => LastOf(c.t, c.sf)
    BY <1>3, <2>1, LastKept
  <2> QED BY <1>2, <1>3, <2>2, <2>3
<1>7. c = [t |-> c.t, sf |-> c.sf, an |-> c.an]
  BY DEF ForgetAnons
<1> HIDE DEF c
<1>8. /\ SameContext(c.t, w.t)
      /\ c.t.last # NULL => c.t.last = w.t.last /\ c.t.last_anon = w.t.last_anon
  BY <1>3, <1>6 DEF SameContext, Steady, Fields
<1>9. LastOf(w.t, w.sf) => LastOf(c.t, c.sf)
  <2>1. w1.t.last = w.t.last /\ w1.t.last_anon = w.t.last_anon
    BY <1>3 DEF Fields
  <2> QED BY <1>2, <1>6, <2>1 DEF LastOf
<1>10. PICK n \in 0..MaxRegions :
         /\ DOMAIN list = 1..n
         /\ \A i \in 1..n : list[i].start \in Nat \ {0} /\ list[i].end \in Nat
  BY ListingIs
<1> DEFINE R == {list[i] : i \in 1..n}
<1>11. c \in Grown(c, R)
  <2>1. Len(c.an) < LRU_SIZE
    <3>1. Len(c.an) \in Nat /\ Len(w.an) \in Nat /\ Len(w.an) < LRU_SIZE
      BY <1>1, <1>6 DEF Held
    <3> QED BY <1>6, <3>1, TransAssumption
  <2>2. \A x \in c.sf : x.anon \in ToSet(c.an) \cup {NULL}
    BY <1>6 DEF Held
  <2>3. c \in [t : {c.t, clear_trans_last(c.t)}, sf : SUBSET c.sf, an : Seq(Mappings)]
    BY <1>6, <1>7
  <2> QED BY <2>1, <2>2, <2>3 DEF Grown
<1>12. v \in Grown(c, R)
  <2>1. CASE c.t.tgid \notin Tgids
    BY <1>4, <1>11, <2>1 DEF get_anon_maps
  <2>2. CASE c.t.tgid \in Tgids
    <3>1. v = FoldLeft(add_anon_mapping, c, list)
      BY <1>4, <2>2 DEF get_anon_maps
    <3>2. c.t.app_cookie \in AppCookies
      BY <1>8, ContextSame DEF Held
    <3>3. ASSUME NEW u \in Grown(c, R), NEW k \in 1..n
          PROVE  add_anon_mapping(u, list[k]) \in Grown(c, R)
      <4>1. list[k] \in R /\ \A r \in R : r.start \in Nat \ {0} /\ r.end \in Nat
        BY <1>10
      <4> HIDE DEF R
      <4> QED BY <1>6, <2>2, <3>2, <4>1, Grows
    <3>4. n \in Nat /\ DOMAIN list = 1..n
      BY <1>10, TransAssumption
    <3> DEFINE W == Grown(c, R)
    <3>5. c \in W /\ \A u \in W, k \in 1..n : add_anon_mapping(u, list[k]) \in W
      BY <1>11, <3>3
    <3> HIDE DEF W
    <3>6. FoldLeft(add_anon_mapping, c, list) \in W
      BY <3>4, <3>5, AllAdded
    <3> QED BY <3>1, <3>6 DEF W
  <2> QED BY <2>1, <2>2
<1>13. /\ v = [t |-> v.t, sf |-> v.sf, an |-> v.an]
       /\ v.t \in {c.t, clear_trans_last(c.t)} /\ v.sf \subseteq c.sf /\ v.an \in Seq(Mappings)
       /\ Len(v.an) < LRU_SIZE /\ \A x \in v.sf : x.anon \in ToSet(v.an) \cup {NULL}
       /\ \A m \in ToSet(v.an) : m \in ToSet(c.an) \/ \E r \in R : m = MappingOf(c.t, r)
       /\ LastOf(c.t, c.sf) => LastOf(v.t, v.sf)
  BY <1>12 DEF Grown
<1>14. /\ DOMAIN v.t = Fields /\ SameContext(v.t, c.t)
       /\ v.t.current = NULL /\ v.t.anon = NULL
       /\ v.t.last # NULL => v.t.last = c.t.last /\ v.t.last_anon = c.t.last_anon
  <2>1. ASSUME NEW u, u = clear_trans_last(c.t)
        PROVE  /\ DOMAIN u = Fields /\ SameContext(u, c.t)
               /\ u.current = NULL /\ u.anon = NULL /\ u.last = NULL
    BY <1>6, <2>1, ClearedLast DEF SameContext, Steady, Fields
  <2>2. SameContext(c.t, c.t)
    BY DEF SameContext
  <2> QED BY <1>6, <1>13, <2>1, <2>2
<1>15. SameContext(v.t, w.t)
  BY <1>8, <1>14 DEF SameContext
<1>16. LastOf(v.t, v.sf)
  BY <1>9, <1>13 DEF Held
<1>17. CacheOf(v.t, v.sf, v.an)
  BY <1>14 DEF CacheOf
<1>18. DOMAIN v = {"t", "sf", "an"}
  BY <1>13
<1>19. v.sf \subseteq sfiles
  BY <1>6, <1>13 DEF Held
<1>20. v.t.last # NULL => v.t.last = trans.last /\ v.t.last_anon = trans.last_anon
  BY <1>8, <1>14 DEF Held
<1>21. v.t.in_kernel \in {-1, 0, 1} /\ v.t.app_cookie \in AppCookies
  BY <1>15, ContextSame DEF Held
<1> QED
  BY <1>13, <1>14, <1>15, <1>16, <1>17, <1>18, <1>19, <1>20, <1>21 DEF Held

\* Nothing is found, whatever is read.
LEMMA FoundNothing ==
  ASSUME NEW w, Held(w), w.t.current = NULL, w.t.anon = NULL,
         NEW v, v = [w EXCEPT !.t.anon = NULL]
  PROVE  Held(v) /\ SameContext(v.t, w.t) /\ v.t.current = NULL /\ v.t.anon = NULL
<1>1. /\ DOMAIN v = {"t", "sf", "an"} /\ v.sf = w.sf /\ v.an = w.an
      /\ v.t = [w.t EXCEPT !.anon = NULL]
  BY DEF Held
<1>2. DOMAIN v.t = Fields /\ \A f \in Fields : v.t[f] = w.t[f]
  BY <1>1 DEF Held, Fields
<1>3. SameContext(v.t, w.t)
  BY <1>2 DEF SameContext, Steady
<1>4. /\ v.t.current = NULL /\ v.t.anon = NULL
      /\ v.t.last = w.t.last /\ v.t.last_anon = w.t.last_anon
  BY <1>2 DEF Fields
<1>5. CacheOf(v.t, v.sf, v.an) /\ LastOf(v.t, v.sf)
  BY <1>1, <1>4 DEF Held, CacheOf, LastOf
<1> QED BY <1>1, <1>2, <1>3, <1>4, <1>5, ContextSame DEF Held

\* find_anon_mapping, where opd_put_sample calls it.
LEMMA LocatedHeld ==
  ASSUME config \in Configs, SfilesInv, NEW w, Held(w), NEW v \in Located(w)
  PROVE  /\ Held(v) /\ SameContext(v.t, w.t)
         /\ Anonymous(v.t) /\ v.t.anon # NULL => InRange(v.t.anon, v.t.pc)
<1>1. CASE ~Anonymous(w.t)
  <2>1. v = w
    BY <1>1 DEF Located, Anonymous
  <2> QED BY <1>1, <2>1 DEF SameContext
<1>2. CASE Anonymous(w.t) /\ Matches(w) # {}
  <2>1. PICK m \in Matches(w) : v = [w EXCEPT !.t.anon = m]
    BY <1>2 DEF Located, Anonymous, find_anon_mapping
  <2> QED BY <1>2, <2>1, FoundAtOnce
<1>3. CASE Anonymous(w.t) /\ Matches(w) = {}
  <2>1. PICK list \in Listings : v = find_anon_mapping(w, list)
    BY <1>3 DEF Located, Anonymous
  <2> DEFINE again == get_anon_maps(clear_anon_maps(w), list)
  <2>2. /\ Held(again) /\ SameContext(again.t, w.t)
        /\ again.t.current = NULL /\ again.t.anon = NULL
    BY <1>3, FoundAgain
  <2>3. Anonymous(again.t)
    BY <1>3, <2>2, ContextSame DEF Anonymous
  <2>4. v = [again EXCEPT !.t.anon = IF Matches(again) = {} THEN NULL
                                     ELSE CHOOSE m \in Matches(again) : TRUE]
    BY <1>3, <2>1 DEF find_anon_mapping
  <2> HIDE DEF again
  <2>5. CASE Matches(again) = {}
    <3>1. Held(v) /\ SameContext(v.t, again.t) /\ v.t.current = NULL /\ v.t.anon = NULL
      BY <2>2, <2>4, <2>5, FoundNothing
    <3> QED BY <2>2, <3>1 DEF SameContext
  <2>6. CASE Matches(again) # {}
    <3>1. PICK m \in Matches(again) : v = [again EXCEPT !.t.anon = m]
      BY <2>4, <2>6
    <3>2. /\ Held(v) /\ SameContext(v.t, again.t)
          /\ v.t.anon # NULL /\ InRange(v.t.anon, v.t.pc)
      BY <2>2, <2>3, <3>1, FoundAtOnce
    <3> QED BY <2>2, <3>2 DEF SameContext
  <2> QED BY <2>5, <2>6
<1> QED BY <1>1, <1>2, <1>3

-----------------------------------------------------------------------------
(* opd_put_sample                                                          *)

\* A sample that is taken: the rest of the context is that of the codes, but
\* IBS may find that it was taken in the kernel.
Begun(t) ==
  /\ DOMAIN t = Fields /\ t.in_kernel \in {trans.in_kernel, 1}
  /\ \A f \in Fields \ {"pc", "event", "in_kernel"} : t[f] = trans[f]

LEMMA Begins ==
  ASSUME ShapeInv, NEW addr, NEW event
  PROVE  Begun(Taken(addr, event)) /\ Begun(IbsTaken(addr))
<1>1. ASSUME NEW e PROVE Begun(Taken(addr, e))
  BY DEF ShapeInv, Begun, Taken, Fields
<1>2. Begun([Taken(addr, 0) EXCEPT !.in_kernel = 1])
  <2> DEFINE t == Taken(addr, 0)
  <2>1. Begun(t)
    BY <1>1
  <2> HIDE DEF t
  <2>2. Begun([t EXCEPT !.in_kernel = 1])
    BY <2>1 DEF Begun, Fields
  <2> QED BY <2>2 DEF t
<1> QED BY <1>1, <1>2 DEF IbsTaken

LEMMA SampledHeld ==
  ASSUME ShapeInv, SfilesInv, CacheInv, NEW t, Begun(t)
  PROVE  Held(Sampled(t)) /\ SameContext(Sampled(t).t, t)
<1> DEFINE w == Sampled(t)
<1>1. /\ DOMAIN w = {"t", "sf", "an"} /\ w.sf = sfiles /\ w.an = anons
      /\ w.t = IF t.in_kernel # 0 THEN clear_trans_current(t) ELSE t
  BY DEF Sampled
<1> HIDE DEF w
<1>2. /\ DOMAIN w.t = Fields /\ \A f \in Fields \ {"current", "anon"} : w.t[f] = t[f]
      /\ IF t.in_kernel # 0 THEN w.t.current = NULL /\ w.t.anon = NULL
         ELSE w.t.current = t.current /\ w.t.anon = t.anon
  BY <1>1, ClearedCurrent DEF Begun
<1>3. SameContext(w.t, t)
  BY <1>2 DEF SameContext, Steady
<1>4. /\ t.app_cookie = trans.app_cookie /\ t.tid = trans.tid /\ t.tgid = trans.tgid
      /\ t.cpu = trans.cpu /\ t.cookie = trans.cookie
      /\ t.current = trans.current /\ t.anon = trans.anon
      /\ t.last = trans.last /\ t.last_anon = trans.last_anon
      /\ w.t.last = t.last /\ w.t.last_anon = t.last_anon
  BY <1>2 DEF Begun, Fields
<1>5. t.in_kernel \in {-1, 0, 1} /\ w.t.in_kernel = t.in_kernel
  BY <1>3, ContextSame DEF Begun, ShapeInv, TypeOK
<1>6. CASE t.in_kernel # 0
  <2>1. CacheOf(w.t, w.sf, w.an) /\ LastOf(w.t, w.sf)
    BY <1>1, <1>2, <1>4, <1>6 DEF CacheOf, CacheInv, LastOf
  <2>2. \A x \in w.sf : x.anon \in ToSet(w.an) \cup {NULL}
    BY <1>1 DEF SfilesInv, Refers
  <2> QED BY <1>1, <1>2, <1>3, <1>4, <1>5, <1>6, <2>1, <2>2, ContextSame
          DEF Held, ShapeInv, TypeOK, w
<1>7. CASE t.in_kernel = 0
  <2>1. trans.in_kernel = 0
    BY <1>7 DEF Begun
  <2>2. /\ \A x : OfContext(x, w.t) = OfContext(x, trans)
        /\ \A m : OfProcess(m, w.t) = OfProcess(m, trans)
    <3>1. \A m : OfProcess(m, t) = OfProcess(m, trans)
      BY <1>4 DEF OfProcess
    <3>2. \A x : OfContext(x, t) = OfContext(x, trans)
      BY <1>4, <1>7, <2>1, <3>1 DEF OfContext
    <3> QED BY <1>3, <3>1, <3>2, ContextSame
  <2>3. CacheOf(w.t, w.sf, w.an) /\ LastOf(w.t, w.sf)
    <3>1. w.t.cookie = trans.cookie
      BY <1>3, <1>4, ContextSame
    <3> QED BY <1>1, <1>2, <1>4, <1>7, <2>2, <3>1 DEF CacheInv, CacheOf, LastOf
  <2>4. \A x \in w.sf : x.anon \in ToSet(w.an) \cup {NULL}
    BY <1>1 DEF SfilesInv, Refers
  <2> QED BY <1>1, <1>2, <1>3, <1>4, <1>5, <1>7, <2>3, <2>4, ContextSame
          DEF Held, ShapeInv, TypeOK, w
<1> QED BY <1>6, <1>7

\* The fields by which sfiles are told apart, as UniqueSfiles lists them.
Alike(x, y) ==
  /\ x.kernel = y.kernel /\ x.anon = y.anon /\ x.cookie = y.cookie
  /\ x.cpu = y.cpu /\ x.app_cookie = y.app_cookie
  /\ "thread" \in config => x.tid = y.tid /\ x.tgid = y.tgid

Unique(sf) == \A x, y \in sf : Alike(x, y) => x = y

LEMMA UniqueIs == Unique(sfiles) => UniqueSfiles
<1> SUFFICES ASSUME Unique(sfiles), NEW x \in sfiles, NEW y \in sfiles,
                    x.kernel = y.kernel, x.anon = y.anon, x.cookie = y.cookie,
                    x.cpu = y.cpu, x.app_cookie = y.app_cookie,
                    "thread" \in config => x.tid = y.tid /\ x.tgid = y.tgid
             PROVE  x = y
  BY DEF UniqueSfiles
<1>1. Alike(x, y)
  BY DEF Alike
<1> QED BY <1>1 DEF Unique

\* A kernel image that is found exists and contains the address.
LEMMA ImageIs ==
  ASSUME ShapeInv, NEW t, NEW ki, ki = find_kernel_image(t)
  PROVE  /\ ki \in modules \cup {NULL, Vmlinux, Xen}
         /\ "no_vmlinux" \notin config /\ ki # NULL => InRange(ki, t.pc)
<1>1. CASE "no_vmlinux" \in config \/ InRange(Vmlinux, t.pc)
  BY <1>1 DEF find_kernel_image
<1>2. CASE ~("no_vmlinux" \in config \/ InRange(Vmlinux, t.pc))
  <2>1. CASE \E m \in modules : InRange(m, t.pc)
    <3>1. ki = CHOOSE m \in modules : InRange(m, t.pc)
      BY <1>2, <2>1 DEF find_kernel_image
    <3> QED BY <2>1, <3>1
  <2>2. CASE ~\E m \in modules : InRange(m, t.pc)
    BY <1>2, <2>2 DEF find_kernel_image
  <2> QED BY <2>1, <2>2
<1> QED BY <1>1, <1>2

\* The context and the image that sfile_find goes by.
Asked(t, ki) ==
  /\ t.in_kernel \in {0, 1} /\ (t.in_kernel = 0) = (ki = NULL)
  /\ t.in_kernel # 0 => t.anon = NULL
  /\ t.in_kernel = 0 => (t.cookie = NO_COOKIE) = (t.anon # NULL)
  /\ t.anon # NULL => OfProcess(t.anon, t)

\* A new sfile is one of the context, with the hash it is looked up by.
LEMMA NewSfile ==
  ASSUME NEW t, NEW ki, Asked(t, ki),
         NEW x, x = create_sfile(sfile_hash(t, ki), t, ki)
  PROVE  /\ IsSfile(x) /\ OfContext(x, t) /\ x.anon = t.anon /\ x.kernel = ki
         /\ x.hashval = sfile_hash(t, ki)
         /\ ki = NULL => x.cookie = t.cookie
         /\ "thread" \in config => x.tid = t.tid /\ x.tgid = t.tgid
         /\ "cpu" \in config => x.cpu = t.cpu
         /\ OwnedByApp(t.anon, ki) => x.app_cookie = t.app_cookie
<1>1. /\ DOMAIN x = {"hashval", "cookie", "app_cookie", "tid", "tgid", "cpu", "kernel", "anon",
                     "ignored"}
      /\ x.hashval = sfile_hash(t, ki) /\ x.anon = t.anon /\ x.kernel = ki
      /\ x.cookie = IF t.in_kernel # 0 THEN INVALID_COOKIE ELSE t.cookie
      /\ OwnedByApp(t.anon, ki) => x.app_cookie = t.app_cookie
      /\ "thread" \in config => x.tid = t.tid /\ x.tgid = t.tgid
      /\ "cpu" \in config => x.cpu = t.cpu
  BY DEF create_sfile
<1>2. x # NULL
  <2>1. DOMAIN NULL = {"start"}
    BY DEF NULL
  <2> QED BY <1>1, <2>1
<1>3. ki = NULL => x.cookie = t.cookie
  BY <1>1 DEF Asked
<1>4. x.hashval = HashOf(x)
  <2> DEFINE a1 == IF "thread" \in config THEN <<t.tid, t.tgid>> ELSE <<>>
             b1 == IF "thread" \in config THEN <<x.tid, x.tgid>> ELSE <<>>
             a2 == IF OwnedByApp(t.anon, ki) THEN <<t.app_cookie>> ELSE <<>>
             b2 == IF OwnedByApp(x.anon, x.kernel) THEN <<x.app_cookie>> ELSE <<>>
             a3 == IF "cpu" \in config THEN <<t.cpu>> ELSE <<>>
             b3 == IF "cpu" \in config THEN <<x.cpu>> ELSE <<>>
             a4 == IF t.in_kernel # 0 /\ ki # NULL THEN <<"kernel", ki.start, ki.end>>
                   ELSE IF t.cookie # NO_COOKIE THEN <<"binary", t.cookie>>
                   ELSE <<"anon", t.tgid, t.anon.start, t.anon.end>>
             b4 == IF x.kernel # NULL THEN <<"kernel", x.kernel.start, x.kernel.end>>
                   ELSE IF x.cookie # NO_COOKIE THEN <<"binary", x.cookie>>
                   ELSE <<"anon", x.anon.tgid, x.anon.start, x.anon.end>>
  <2>1. a1 = b1 /\ a2 = b2 /\ a3 = b3
    BY <1>1
  <2>2. a4 = b4
    <3>1. CASE ki # NULL
      BY <1>1, <3>1 DEF Asked
    <3>2. CASE ki = NULL /\ t.cookie # NO_COOKIE
      BY <1>1, <1>3, <3>2 DEF Asked
    <3>3. CASE ki = NULL /\ t.cookie = NO_COOKIE
      <4>1. t.anon.tgid = t.tgid
        BY <3>3 DEF Asked, OfProcess
      <4> QED BY <1>1, <1>3, <3>3, <4>1
    <3> QED BY <3>1, <3>2, <3>3
  <2>3. sfile_hash(t, ki) = <<a1, a2, a3, a4>>
    BY DEF sfile_hash
  <2>4. HashOf(x) = <<b1, b2, b3, b4>>
    BY DEF HashOf
  <2> HIDE DEF a1, a2, a3, a4, b1, b2, b3, b4
  <2> QED BY <1>1, <2>1, <2>2, <2>3, <2>4
<1>5. OfContext(x, t)
  BY <1>1, <1>3 DEF Asked, OfContext
<1>6. IsSfile(x)
  BY <1>1, <1>2, <1>3, <1>4 DEF IsSfile, Asked
<1> QED BY <1>1, <1>3, <1>5, <1>6

\* Sfiles that are alike have one hash.
LEMMA HashAlike ==
  ASSUME NEW x, NEW y, Alike(x, y)
  PROVE  HashOf(x) = HashOf(y)
BY DEF Alike, HashOf

\* v is w with an sfile of the context and of the image.
SfileOf(v, w, ki) ==
  /\ DOMAIN v.t = Fields /\ \A f \in Fields \ {"current"} : v.t[f] = w.t[f]
  /\ v.t.current # NULL /\ v.t.current \in v.sf /\ OfContext(v.t.current, w.t)
  /\ v.t.current.kernel = ki /\ v.t.current.anon = w.t.anon
  /\ v.an = w.an /\ w.sf \subseteq v.sf
  /\ \A x \in v.sf : IsSfile(x) /\ Refers(x, w.an, modules)
  /\ Unique(v.sf)

\* sfile_find: the one sfile of the context and of the image, which is made if
\* there is none.
LEMMA SfileFound ==
  ASSUME ShapeInv, SfilesInv, NEW w, Held(w), w.t.current = NULL,
         NEW ki, ki \in modules \cup {NULL, Vmlinux, Xen}, Asked(w.t, ki),
         NEW v, v = sfile_find(w, ki)
  PROVE  SfileOf(v, w, ki)
<1> DEFINE hash == sfile_hash(w.t, ki)
           found == {x \in w.sf : x.hashval = hash /\ do_match(x, w.t, ki)}
           new == create_sfile(hash, w.t, ki)
<1>1. DOMAIN w = {"t", "sf", "an"} /\ DOMAIN w.t = Fields /\ w.sf \subseteq sfiles
  BY DEF Held
<1>2. Unique(w.sf) /\ \A x \in w.sf : IsSfile(x) /\ Refers(x, w.an, modules)
  <2>1. Unique(sfiles)
    BY DEF SfilesInv, UniqueSfiles, Unique, Alike
  <2>2. \A x \in w.sf : x.anon \in ToSet(w.an) \cup {NULL}
    BY DEF Held
  <2>3. Unique(w.sf)
    BY <1>1, <2>1 DEF Unique
  <2> QED BY <1>1, <2>2, <2>3 DEF SfilesInv, Refers
<1>3. v = IF found # {} THEN [w EXCEPT !.t.current = CHOOSE x \in found : TRUE]
          ELSE [w EXCEPT !.t.current = new, !.sf = @ \cup {new}]
  BY DEF sfile_find
<1>4. ASSUME NEW x, NEW u, u = [w.t EXCEPT !.current = x]
      PROVE  DOMAIN u = Fields /\ u.current = x /\ \A f \in Fields \ {"current"} : u[f] = w.t[f]
  BY <1>1, <1>4 DEF Fields
<1>5. CASE found # {}
  <2>1. PICK x \in found : v = [w EXCEPT !.t.current = x]
    BY <1>3, <1>5
  <2>2. v.t = [w.t EXCEPT !.current = x] /\ v.sf = w.sf /\ v.an = w.an
    BY <1>1, <2>1
  <2>3. x \in w.sf /\ IsSfile(x) /\ do_match(x, w.t, ki)
    BY <1>2, <2>1
  <2>4. x.kernel = ki /\ x.anon = w.t.anon
    BY <2>3 DEF do_match, IsSfile, Asked
  <2>5. OfContext(x, w.t)
    BY <2>3, <2>4 DEF do_match, OfContext, Asked
  <2>6. x # NULL
    BY <2>3 DEF IsSfile
  <2> QED BY <1>2, <1>4, <2>2, <2>3, <2>4, <2>5, <2>6 DEF SfileOf
<1>6. CASE found = {}
  <2>1. v.t = [w.t EXCEPT !.current = new] /\ v.sf = w.sf \cup {new} /\ v.an = w.an
    BY <1>1, <1>3, <1>6
  <2>2. /\ IsSfile(new) /\ OfContext(new, w.t) /\ new.anon = w.t.anon /\ new.kernel = ki
        /\ new.hashval = hash
        /\ ki = NULL => new.cookie = w.t.cookie
        /\ "thread" \in config => new.tid = w.t.tid /\ new.tgid = w.t.tgid
        /\ "cpu" \in config => new.cpu = w.t.cpu
        /\ OwnedByApp(w.t.anon, ki) => new.app_cookie = w.t.app_cookie
    BY NewSfile
  <2> HIDE DEF new
  <2>3. ASSUME NEW y \in w.sf, Alike(y, new) PROVE FALSE
    <3>1. y.hashval = hash
      <4>1. HashOf(y) = HashOf(new)
        BY <2>3, HashAlike
      <4>2. y.hashval = HashOf(y) /\ new.hashval = HashOf(new)
        BY <1>2, <2>2 DEF IsSfile
      <4> QED BY <2>2, <4>1, <4>2
    <3>2. do_match(y, w.t, ki)
      BY <2>2, <2>3 DEF do_match, Alike
    <3> QED BY <1>6, <3>1, <3>2
  <2>4. \A x, y : Alike(x, y) => Alike(y, x)
    BY DEF Alike
  <2>5. Unique(v.sf)
    BY <1>2, <2>1, <2>3, <2>4 DEF Unique
  <2>6. Refers(new, w.an, modules)
    BY <2>2 DEF Refers, Held, CacheOf
  <2>7. new # NULL
    BY <2>2 DEF IsSfile
  <2> QED BY <1>2, <1>4, <2>1, <2>2, <2>5, <2>6, <2>7 DEF SfileOf
<1> QED BY <1>5, <1>6

\* What opd_put_sample is left with, when it has looked for an sfile for t;
\* first is the address of the first sample the sfile was used for.
Ready(w, t, first) ==
  /\ DOMAIN w.t = Fields /\ SameContext(w.t, t)
  /\ w.t.in_kernel \in {-1, 0, 1} /\ w.t.app_cookie \in AppCookies
  /\ w.an \in Seq(Mappings) /\ Len(w.an) < LRU_SIZE
  /\ Unique(w.sf) /\ \A x \in w.sf : IsSfile(x) /\ Refers(x, w.an, modules)
  /\ CacheOf(w.t, w.sf, w.an)
  /\ LastOf(w.t, w.sf)
  /\ w.t.last # NULL => w.t.last = trans.last /\ w.t.last_anon = trans.last_anon
  /\ w.t.current # NULL =>
       /\ w.t.in_kernel # 0 /\ "no_vmlinux" \notin config
            => InRange(w.t.current.kernel, w.t.pc)
       /\ Anonymous(w.t) => InRange(w.t.current.anon, first)

\* The sfile is the one that is cached, if there is one, or that sfile_find
\* finds, if it looks for one.
LEMMA FoundReady ==
  ASSUME ShapeInv, SfilesInv, FoundInv, NEW t, NEW w, Held(w), SameContext(w.t, t),
         Anonymous(w.t) /\ w.t.anon # NULL => InRange(w.t.anon, w.t.pc),
         Anonymous(w.t) /\ w.t.current # NULL => Anonymous(trans),
         NEW cmdline, NEW v, v = Found(w, cmdline)
  PROVE  Ready(v, t, IF w.t.current = NULL THEN t.pc ELSE found_pc)
<1> DEFINE ki == ImageOf(w.t)
           reason == Reason(w, cmdline)
<1>1. Unique(w.sf) /\ \A x \in w.sf : IsSfile(x) /\ Refers(x, w.an, modules)
  <2>1. Unique(sfiles)
    BY DEF SfilesInv, UniqueSfiles, Unique, Alike
  <2>2. w.sf \subseteq sfiles /\ \A x \in w.sf : x.anon \in ToSet(w.an) \cup {NULL}
    BY DEF Held
  <2>3. Unique(w.sf)
    BY <2>1, <2>2 DEF Unique
  <2> QED BY <2>2, <2>3 DEF SfilesInv, Refers
<1>2. CASE ~(w.t.current = NULL /\ reason = "")
  <2>1. v = w
    BY <1>2 DEF Found
  <2>2. ASSUME w.t.current # NULL PROVE w.t.in_kernel = 0
    BY <2>2 DEF Held
  <2>3. w.t.current # NULL /\ Anonymous(w.t) => InRange(w.t.current.anon, found_pc)
    BY DEF Held, FoundInv, Anonymous
  <2>4. w.t.current = NULL \/ w.t.current # NULL
    OBVIOUS
  <2> QED BY <1>1, <2>1, <2>2, <2>3, <2>4 DEF Held, Ready
<1>3. CASE w.t.current = NULL /\ reason = ""
  <2>1. v = sfile_find(w, ki)
    BY <1>3 DEF Found
  <2>2. /\ ki \in modules \cup {NULL, Vmlinux, Xen}
        /\ "no_vmlinux" \notin config /\ ki # NULL => InRange(ki, w.t.pc)
    BY ImageIs DEF ImageOf
  <2>3. Asked(w.t, ki)
    <3>1. w.t.in_kernel # -1 /\ ~(w.t.in_kernel = 1 /\ ki = NULL)
          /\ ~(w.t.in_kernel = 0 /\ w.t.cookie = NO_COOKIE /\ w.t.anon = NULL)
      BY <1>3 DEF Reason, LossReason
    <3>2. w.t.in_kernel \in {0, 1} /\ (w.t.in_kernel = 0) = (ki = NULL)
      BY <3>1 DEF Held, ImageOf
    <3> QED BY <3>1, <3>2 DEF Asked, Held, CacheOf
  <2> HIDE DEF ki
  <2>12. SfileOf(v, w, ki)
    BY <1>3, <2>1, <2>2, <2>3, SfileFound
  <2>4. /\ DOMAIN v.t = Fields /\ \A f \in Fields \ {"current"} : v.t[f] = w.t[f]
        /\ v.t.current # NULL /\ v.t.current \in v.sf /\ OfContext(v.t.current, w.t)
        /\ v.t.current.kernel = ki /\ v.t.current.anon = w.t.anon
        /\ v.an = w.an /\ w.sf \subseteq v.sf
        /\ \A x \in v.sf : IsSfile(x) /\ Refers(x, w.an, modules)
        /\ Unique(v.sf)
    BY <2>12 DEF SfileOf
  <2>5. SameContext(v.t, w.t)
    BY <2>4 DEF SameContext, Steady
  <2>6. v.t.anon = w.t.anon /\ v.t.last = w.t.last /\ v.t.last_anon = w.t.last_anon
    BY <2>4 DEF Fields
  <2>7. CacheOf(v.t, v.sf, v.an)
    BY <2>4, <2>5, <2>6, ContextSame DEF CacheOf, Held
  <2>8. LastOf(v.t, v.sf)
    BY <2>4, <2>6 DEF LastOf, Held
  <2>9. /\ v.t.in_kernel # 0 /\ "no_vmlinux" \notin config
             => InRange(v.t.current.kernel, v.t.pc)
        /\ Anonymous(v.t) => InRange(v.t.current.anon, t.pc)
    <3>1. v.t.in_kernel = w.t.in_kernel /\ v.t.pc = w.t.pc /\ w.t.pc = t.pc /\ Anonymous(v.t) = Anonymous(w.t)
      BY <2>5, ContextSame DEF Anonymous
    <3>2. Anonymous(w.t) => w.t.anon # NULL
      BY <2>3 DEF Asked, Anonymous
    <3>3. w.t.in_kernel # 0 => ki # NULL
      BY <2>3 DEF Asked
    <3> QED BY <2>2, <2>4, <3>1, <3>2, <3>3
  <2>10. SameContext(v.t, t)
    BY <2>5 DEF SameContext
  <2>11. v.t.in_kernel = w.t.in_kernel /\ v.t.app_cookie = w.t.app_cookie
    BY <2>5, ContextSame
  <2> QED BY <2>4, <2>6, <2>7, <2>8, <2>9, <2>10, <2>11, <1>3 DEF Held, Ready
<1> QED BY <1>2, <1>3

\* The table of open files may be full.
LEMMA OpenedReady ==
  ASSUME NEW t, NEW first, NEW w, Ready(w, t, first), DOMAIN w = {"t", "sf", "an"},
         NEW fate, NEW v \in Opened(w, fate)
  PROVE  Ready(v, t, first) /\ v.t = w.t
<1>1. v.t = w.t /\ v.an = w.an /\ (v.sf = w.sf \/ v.sf = w.sf \cap {w.t.current, w.t.last})
  BY DEF Opened, sfile_lru_clear
<1>2. Unique(v.sf) /\ \A x \in v.sf : IsSfile(x) /\ Refers(x, v.an, modules)
  BY <1>1 DEF Ready, Unique
<1>3. CacheOf(v.t, v.sf, v.an)
  BY <1>1 DEF Ready, CacheOf
<1>4. LastOf(v.t, v.sf)
  BY <1>1 DEF Ready, LastOf
<1> QED BY <1>1, <1>2, <1>3, <1>4 DEF Ready

\* The whole of opd_put_sample.
LEMMA PutIs ==
  ASSUME ShapeInv, SfilesInv, CacheInv, FoundInv, NEW t, Begun(t), NEW log, Put(t, log)
  PROVE  \E x, first :
           /\ Ready(x, t, first) /\ found_pc' = (IF x.t.current = NULL THEN 0 ELSE first)
           /\ trans' = Done(x.t) /\ sfiles' = x.sf /\ anons' = x.an
           /\ kcmd' \in [Tgids -> {"unknown", "has", "none"}]
           /\ prev' = IF x.t.current = NULL THEN NoPrev ELSE <<t.pc, x.t.current>>
           /\ logged' \in {"sample", "arc"} => x.t.current # NULL
           /\ logged' = "arc" => x.t.last # NULL
           /\ config' = config /\ modules' = modules
<1> DEFINE Result(w, cmdline, x) ==
             /\ trans' = Done(x.t) /\ sfiles' = x.sf /\ anons' = x.an
             /\ kcmd' = IF Asks(w) THEN [kcmd EXCEPT ![w.t.tgid] = cmdline] ELSE kcmd
             /\ logged' = Fate(log, Found(w, cmdline).t, Reason(w, cmdline))
             /\ prev' = IF x.t.current = NULL THEN NoPrev ELSE <<t.pc, x.t.current>>
             /\ found_pc' = IF x.t.current = NULL THEN 0
                            ELSE IF w.t.current = NULL THEN t.pc ELSE found_pc
             /\ config' = config /\ modules' = modules
<1>1. \E w \in Located(Sampled(t)) : \E cmdline \in Cmdlines(w, Asks(w)) :
        \E x \in Opened(Found(w, cmdline), Fate(log, Found(w, cmdline).t, Reason(w, cmdline))) :
          Result(w, cmdline, x)
  BY DEF Put
<1> HIDE DEF Result
<1>13. PICK w, cmdline, x :
         /\ w \in Located(Sampled(t))
         /\ cmdline \in Cmdlines(w, Asks(w))
         /\ x \in Opened(Found(w, cmdline), Fate(log, Found(w, cmdline).t, Reason(w, cmdline)))
         /\ Result(w, cmdline, x)
  BY <1>1
<1> USE DEF Result
<1> DEFINE found == Found(w, cmdline)
           reason == Reason(w, cmdline)
<1>2. config \in Configs
  BY DEF ShapeInv, TypeOK
<1>3. Held(Sampled(t)) /\ SameContext(Sampled(t).t, t)
  BY SampledHeld
<1>4. /\ Held(w) /\ SameContext(w.t, Sampled(t).t)
      /\ Anonymous(w.t) /\ w.t.anon # NULL => InRange(w.t.anon, w.t.pc)
  BY <1>13, <1>2, <1>3, LocatedHeld
<1>5. SameContext(w.t, t)
  BY <1>3, <1>4 DEF SameContext
<1> DEFINE first == IF w.t.current = NULL THEN t.pc ELSE found_pc
<1>14. Anonymous(w.t) => Anonymous(trans)
  <2>1. w.t.in_kernel = t.in_kernel /\ w.t.cookie = t.cookie
    BY <1>5, ContextSame
  <2>2. t.in_kernel \in {trans.in_kernel, 1} /\ t.cookie = trans.cookie
    BY DEF Begun, Fields
  <2> QED BY <2>1, <2>2 DEF Anonymous
<1>6. Ready(found, t, first)
  BY <1>4, <1>5, <1>14, FoundReady
<1>7. DOMAIN found = {"t", "sf", "an"}
  <2>1. DOMAIN w = {"t", "sf", "an"}
    BY <1>4 DEF Held
  <2>2. DOMAIN sfile_find(w, ImageOf(w.t)) = {"t", "sf", "an"}
    BY <2>1 DEF sfile_find
  <2> QED BY <2>1, <2>2 DEF Found
<1>8. reason \notin {"sample", "arc"}
  BY DEF Reason, LossReason
<1>9. logged' = Fate(log, found.t, reason)
  BY <1>13
<1>15. found_pc' = (IF x.t.current = NULL THEN 0 ELSE first)
  BY <1>13
<1> HIDE DEF reason, found, first
<1>10. Ready(x, t, first) /\ x.t = found.t
  <2>1. x \in Opened(found, Fate(log, found.t, reason))
    BY <1>13 DEF found, reason
  <2> QED BY <1>6, <1>7, <2>1, OpenedReady
<1>11. /\ logged' \in {"sample", "arc"} => x.t.current # NULL
       /\ logged' = "arc" => x.t.last # NULL
  <2>1. /\ Fate(log, found.t, reason) \in {"sample", "arc"} => found.t.current # NULL
        /\ Fate(log, found.t, reason) = "arc" => found.t.last # NULL
    BY <1>8 DEF Fate, NoLog
  <2> QED BY <1>9, <1>10, <2>1
<1>12. kcmd' \in [Tgids -> {"unknown", "has", "none"}]
  <2>1. CASE ~Asks(w)
    BY <1>13, <2>1 DEF ShapeInv
  <2>2. CASE Asks(w)
    <3>1. kcmd' = [kcmd EXCEPT ![w.t.tgid] = cmdline]
      BY <1>13, <2>2
    <3>2. CASE w.t.tgid \notin Tgids
      BY <3>1, <3>2 DEF ShapeInv
    <3>3. CASE w.t.tgid \in Tgids
      <4>1. cmdline \in {"has", "none", "unknown"}
        BY <1>13, <3>3 DEF Cmdlines, ShapeInv
      <4> QED BY <3>1, <4>1 DEF ShapeInv
    <3> QED BY <3>2, <3>3
  <2> QED BY <2>1, <2>2
<1> QED BY <1>13, <1>10, <1>11, <1>12, <1>15

\* The daemon's configuration does not change.
LEMMA ConfigSame ==
  ASSUME config' = config
  PROVE  /\ \A x : IsSfile(x)' = IsSfile(x)
         /\ \A x, t : OfContext(x, t)' = OfContext(x, t)
         /\ \A t, sf, an : CacheOf(t, sf, an)' = CacheOf(t, sf, an)
         /\ \A x, y : Alike(x, y)' = Alike(x, y)
<1>1. \A x : IsSfile(x)' = IsSfile(x)
  BY DEF IsSfile, HashOf, OwnedByApp
<1>2. \A x, t : OfContext(x, t)' = OfContext(x, t)
  BY DEF OfContext, OwnedByApp, OfProcess
<1>3. \A t, sf, an : CacheOf(t, sf, an)' = CacheOf(t, sf, an)
  BY <1>2 DEF CacheOf, OfProcess
<1>4. \A x, y : Alike(x, y)' = Alike(x, y)
  BY DEF Alike
<1> QED BY <1>1, <1>2, <1>3, <1>4

\* What is left after a sample.
LEMMA DoneIs ==
  ASSUME NEW t, DOMAIN t = Fields, NEW d, d = Done(t)
  PROVE  /\ DOMAIN d = Fields /\ d.current = t.current /\ d.anon = t.anon
         /\ d.last = t.current /\ d.last_anon = t.anon /\ d.last_pc = t.pc
         /\ d.in_kernel = t.in_kernel /\ d.cookie = t.cookie /\ d.app_cookie = t.app_cookie
         /\ d.tid = t.tid /\ d.tgid = t.tgid /\ d.cpu = t.cpu
         /\ t.tracing \in {"OFF", "START", "ON"} => d.tracing \in {"OFF", "START", "ON"}
<1> DEFINE u == update_trans_last(t)
<1>1. /\ DOMAIN u = Fields /\ \A f \in Fields \ {"last", "last_anon", "last_pc"} : u[f] = t[f]
      /\ u.last = t.current /\ u.last_anon = t.anon /\ u.last_pc = t.pc
  BY DEF update_trans_last, Fields
<1>2. d = [u EXCEPT !.pc = 0, !.tracing = IF t.tracing = "START" THEN "ON" ELSE t.tracing]
  BY DEF Done
<1> HIDE DEF u
<1>3. /\ DOMAIN d = Fields /\ \A f \in Fields \ {"pc", "tracing"} : d[f] = u[f]
      /\ d.tracing = IF t.tracing = "START" THEN "ON" ELSE t.tracing
  BY <1>1, <1>2 DEF Fields
<1> QED BY <1>1, <1>3 DEF Fields

\* A sample leaves the caches and the lists sound.
LEMMA PutKeeps ==
  ASSUME TransInv, NEW t, Begun(t), NEW log, Put(t, log)
  PROVE  TransInv'
<1>1. PICK x, first :
        /\ Ready(x, t, first) /\ found_pc' = (IF x.t.current = NULL THEN 0 ELSE first)
        /\ trans' = Done(x.t) /\ sfiles' = x.sf /\ anons' = x.an
        /\ kcmd' \in [Tgids -> {"unknown", "has", "none"}]
        /\ prev' = IF x.t.current = NULL THEN NoPrev ELSE <<t.pc, x.t.current>>
        /\ logged' \in {"sample", "arc"} => x.t.current # NULL
        /\ logged' = "arc" => x.t.last # NULL
        /\ config' = config /\ modules' = modules
  BY PutIs DEF TransInv
<1>2. /\ DOMAIN x.t = Fields /\ SameContext(x.t, t)
      /\ x.t.in_kernel \in {-1, 0, 1} /\ x.t.app_cookie \in AppCookies
      /\ x.an \in Seq(Mappings) /\ Len(x.an) < LRU_SIZE
      /\ Unique(x.sf) /\ \A y \in x.sf : IsSfile(y) /\ Refers(y, x.an, modules)
      /\ CacheOf(x.t, x.sf, x.an)
  BY <1>1 DEF Ready
<1>3. x.t.tracing \in {"OFF", "START", "ON"} /\ x.t.pc = t.pc
  <2>1. x.t.tracing = t.tracing /\ x.t.pc = t.pc
    BY <1>2, ContextSame
  <2>2. t.tracing = trans.tracing
    BY DEF Begun, Fields
  <2> QED BY <2>1, <2>2 DEF TransInv, ShapeInv, TypeOK
<1>4. /\ DOMAIN trans' = Fields /\ trans'.current = x.t.current /\ trans'.anon = x.t.anon
      /\ trans'.last = x.t.current /\ trans'.last_anon = x.t.anon /\ trans'.last_pc = x.t.pc
      /\ trans'.in_kernel = x.t.in_kernel /\ trans'.cookie = x.t.cookie
      /\ trans'.app_cookie = x.t.app_cookie
      /\ trans'.tid = x.t.tid /\ trans'.tgid = x.t.tgid /\ trans'.cpu = x.t.cpu
      /\ trans'.tracing \in {"OFF", "START", "ON"}
  BY <1>1, <1>2, <1>3, DoneIs
<1>5. ShapeInv'
  BY <1>1, <1>2, <1>4 DEF TransInv, ShapeInv, TypeOK
<1>6. SfilesInv'
  <2>1. \A y \in sfiles' : IsSfile(y)' /\ Refers(y, anons, modules)'
    BY <1>1, <1>2, ConfigSame DEF Refers
  <2>2. \A a, b \in sfiles' : Alike(a, b)' => a = b
    BY <1>1, <1>2, ConfigSame DEF Unique
  <2>3. UniqueSfiles'
    <3>1. Unique(sfiles)'
      BY <2>2 DEF Unique
    <3> QED BY <3>1, UniqueIs, PTL
  <2> QED BY <2>1, <2>3 DEF SfilesInv
<1>7. CacheInv'
  <2>1. \A y : OfContext(y, trans') = OfContext(y, x.t)
    BY <1>4 DEF OfContext, OfProcess
  <2>2. CacheOf(trans', sfiles', anons')
    BY <1>1, <1>2, <1>4, <2>1 DEF CacheOf, OfProcess
  <2>3. CacheOf(trans, sfiles, anons)'
    BY <1>1, <2>2, ConfigSame
  <2>4. (trans.last # NULL => prev = <<trans.last_pc, trans.last>>)'
    BY <1>1, <1>3, <1>4
  <2>5. trans'.last \in sfiles' \cup {NULL}
    BY <1>1, <1>2, <1>4 DEF CacheOf
  <2> QED BY <2>3, <2>4, <2>5 DEF CacheInv
<1>8. FoundInv'
  <2>1. x.t.current # NULL /\ Anonymous(x.t) => InRange(x.t.current.anon, first)
    BY <1>1 DEF Ready
  <2> QED BY <1>1, <1>4, <2>1 DEF FoundInv, Anonymous
<1>9. LoggedInv'
  <2>1. x.t.current # NULL /\ x.t.in_kernel # 0 /\ "no_vmlinux" \notin config
          => InRange(x.t.current.kernel, x.t.pc)
    BY <1>1 DEF Ready
  <2> QED BY <1>1, <1>4, <2>1 DEF LoggedInv
<1> QED BY <1>5, <1>6, <1>7, <1>8, <1>9 DEF TransInv

-----------------------------------------------------------------------------
(* The escape codes                                                        *)

\* What a code may make of the context: what stays in a cache was found in the
\* same context.
Moved(u, before) ==
  /\ DOMAIN u = Fields /\ u.app_cookie \in AppCookies
  /\ u.in_kernel \in {-1, 0, 1} /\ u.tracing \in {"OFF", "START", "ON"}
  /\ u.current # NULL =>
       /\ u.current = trans.current /\ u.anon = trans.anon
       /\ u.in_kernel = trans.in_kernel /\ u.tid = trans.tid /\ u.cpu = trans.cpu
       /\ u.cookie = trans.cookie /\ u.tgid = trans.tgid /\ u.app_cookie = trans.app_cookie
  /\ u.anon # NULL =>
       /\ u.anon = trans.anon
       /\ u.cookie = trans.cookie /\ u.tgid = trans.tgid /\ u.app_cookie = trans.app_cookie
  /\ u.last # NULL =>
       /\ u.last = trans.last /\ u.last_anon = trans.last_anon /\ u.last_pc = trans.last_pc
       /\ before = prev

\* So the caches stay sound, if what is freed is in none.
LEMMA CodeKeeps ==
  ASSUME TransInv, Moved(trans', prev'), logged' = NoLog,
         config' = config, anons' = anons, kcmd' = kcmd,
         found_pc' = (IF trans'.current = NULL THEN 0 ELSE found_pc),
         sfiles' \subseteq sfiles,
         sfiles' = sfiles \/ (trans'.current = NULL /\ trans'.last = NULL),
         \A x \in sfiles' : x.kernel \in modules' \cup {NULL, Vmlinux, Xen},
         \A m \in modules' : m.start \in Nat \ {0}
  PROVE  TransInv'
<1>1. ShapeInv'
  BY DEF Moved, TransInv, ShapeInv, TypeOK
<1>2. SfilesInv'
  <2>1. \A x \in sfiles' : IsSfile(x)' /\ Refers(x, anons, modules)'
    BY ConfigSame DEF TransInv, SfilesInv, Refers
  <2>2. UniqueSfiles'
    BY DEF TransInv, SfilesInv, UniqueSfiles
  <2> QED BY <2>1, <2>2 DEF SfilesInv
<1>3. CacheInv'
  <2>1. CacheOf(trans, sfiles, anons) /\ (trans.last # NULL => prev = <<trans.last_pc, trans.last>>)
    BY DEF TransInv, CacheInv
  <2>2. trans'.anon \in ToSet(anons) \cup {NULL}
    BY <2>1 DEF CacheOf, Moved
  <2>3. trans'.anon # NULL => OfProcess(trans'.anon, trans') /\ trans'.cookie = NO_COOKIE
    BY <2>1 DEF CacheOf, Moved, OfProcess
  <2>4. trans'.current \in sfiles' \cup {NULL}
    BY <2>1 DEF CacheOf, Moved
  <2>5. trans'.current # NULL => OfContext(trans'.current, trans')
    BY <2>1 DEF CacheOf, Moved, OfContext, OfProcess
  <2>6. CacheOf(trans', sfiles', anons')
    BY <2>2, <2>3, <2>4, <2>5 DEF CacheOf
  <2>7. CacheOf(trans, sfiles, anons)'
    BY <2>6, ConfigSame
  <2>8. (trans.last # NULL => prev = <<trans.last_pc, trans.last>>)'
    BY <2>1 DEF Moved
  <2>9. trans'.last \in sfiles' \cup {NULL}
    BY DEF TransInv, CacheInv, Moved
  <2> QED BY <2>7, <2>8, <2>9 DEF CacheInv
<1>4. FoundInv'
  BY DEF TransInv, FoundInv, Moved
<1>5. LoggedInv'
  BY DEF LoggedInv, NoLog
<1> QED BY <1>1, <1>2, <1>3, <1>4, <1>5 DEF TransInv

LEMMA ImagesExist ==
  ASSUME TransInv
  PROVE  /\ \A x \in sfiles : x.kernel \in modules \cup {NULL, Vmlinux, Xen}
         /\ \A m \in modules : m.start \in Nat \ {0}
         /\ DOMAIN trans = Fields /\ trans.app_cookie \in AppCookies
         /\ trans.in_kernel \in {-1, 0, 1} /\ trans.tracing \in {"OFF", "START", "ON"}
         /\ config \in Configs
BY DEF TransInv, SfilesInv, Refers, ShapeInv, TypeOK

\* The fresh transient.
LEMMA FreshMoves == \A before : Moved(InitTrans, before)
BY DEF Moved, InitTrans, Fields, AppCookies

LEMMA NextKeeps ==
  ASSUME TransInv, [Next]_vars
  PROVE  TransInv'
<1> DEFINE c == clear_trans_current(trans)
<1>1. /\ DOMAIN c = Fields /\ c.current = NULL /\ c.anon = NULL
      /\ \A f \in Fields \ {"current", "anon"} : c[f] = trans[f]
  BY ImagesExist, ClearedCurrent
<1> DEFINE d == clear_trans_last(c)
<1>2. /\ DOMAIN d = Fields /\ d.current = NULL /\ d.anon = NULL /\ d.last = NULL
      /\ \A f \in Fields \ {"current", "anon", "last", "last_anon"} : d[f] = trans[f]
  <2> HIDE DEF c
  <2>1. /\ d.last = NULL /\ DOMAIN d = Fields
        /\ \A f \in Fields \ {"last", "last_anon"} : d[f] = c[f]
    BY <1>1, ClearedLast
  <2> QED BY <1>1, <2>1 DEF Fields
<1> HIDE DEF c, d
<1>3. ASSUME NEW addr, NEW event, opd_put_sample(addr, event) PROVE TransInv'
  BY <1>3, Begins, PutKeeps DEF opd_put_sample, TransInv
<1>4. ASSUME NEW addr, NEW derived, opd_put_ibs_sample(addr, derived) PROVE TransInv'
  BY <1>4, Begins, PutKeeps DEF opd_put_ibs_sample, TransInv
<1>5. ASSUME Moved(trans', prev'), logged' = NoLog, config' = config, anons' = anons,
             kcmd' = kcmd, sfiles' = sfiles, modules' = modules,
             found_pc' = (IF trans'.current = NULL THEN 0 ELSE found_pc)
      PROVE  TransInv'
  BY <1>5, ImagesExist, CodeKeeps
<1>6. ASSUME NEW task \in Load[config].tasks, code_ctx_switch(task) PROVE TransInv'
  <2>1. trans' = [c EXCEPT !.tid = task.tid, !.tgid = task.tgid,
                           !.app_cookie = task.app_cookie] /\ prev' = prev
    BY <1>6 DEF code_ctx_switch, Code, c
  <2>2. task.app_cookie \in AppCookies
    BY ImagesExist DEF AppCookies
  <2>3. Moved(trans', prev')
    BY <1>1, <2>1, <2>2, ImagesExist DEF Moved, Fields
  <2> QED BY <1>5, <1>6, <2>3 DEF code_ctx_switch, Code
<1>7. ASSUME NEW cpu, code_cpu_switch(cpu) PROVE TransInv'
  <2>1. trans' = [c EXCEPT !.cpu = cpu] /\ prev' = prev
    BY <1>7 DEF code_cpu_switch, Code, c
  <2>2. Moved(trans', prev')
    BY <1>1, <2>1, ImagesExist DEF Moved, Fields
  <2> QED BY <1>5, <1>7, <2>2 DEF code_cpu_switch, Code
<1>8. ASSUME NEW cookie, code_cookie_switch(cookie) PROVE TransInv'
  <2>1. trans' = [c EXCEPT !.cookie = cookie] /\ prev' = prev
    BY <1>8 DEF code_cookie_switch, Code, c
  <2>2. Moved(trans', prev')
    BY <1>1, <2>1, ImagesExist DEF Moved, Fields
  <2> QED BY <1>5, <1>8, <2>2 DEF code_cookie_switch, Code
<1>9. ASSUME code_kernel_enter PROVE TransInv'
  <2>1. trans' = [c EXCEPT !.in_kernel = 1] /\ prev' = prev
    BY <1>9 DEF code_kernel_enter, Code, c
  <2>2. Moved(trans', prev')
    BY <1>1, <2>1, ImagesExist DEF Moved, Fields
  <2> QED BY <1>5, <1>9, <2>2 DEF code_kernel_enter, Code
<1>10. ASSUME code_user_enter PROVE TransInv'
  <2>1. trans' = [d EXCEPT !.in_kernel = 0]
    BY <1>10 DEF code_user_enter, Code, c, d
  <2>2. Moved(trans', prev')
    BY <1>2, <2>1, ImagesExist DEF Moved, Fields
  <2> QED BY <1>5, <1>10, <2>2 DEF code_user_enter, Code
<1>11. ASSUME code_xen_enter PROVE TransInv'
  <2>1. trans' = [trans EXCEPT !.in_kernel = 1, !.current = NULL] /\ prev' = prev
    BY <1>11 DEF code_xen_enter, Code
  <2>2. Moved(trans', prev')
    BY <2>1, ImagesExist DEF Moved, Fields
  <2> QED BY <1>5, <1>11, <2>2 DEF code_xen_enter, Code
<1>12. ASSUME code_trace_begin PROVE TransInv'
  <2>1. trans' = [trans EXCEPT !.tracing = "START"] /\ prev' = prev
    BY <1>12 DEF code_trace_begin, Code
  <2>2. Moved(trans', prev')
    BY <2>1, ImagesExist DEF Moved, Fields
  <2> QED BY <1>5, <1>12, <2>2 DEF code_trace_begin, Code
<1>13. ASSUME NEW ranges \in SUBSET Load[config].modules, code_module_loaded(ranges)
       PROVE  TransInv'
  <2>1. /\ trans' = d /\ prev' = NoPrev /\ logged' = NoLog
        /\ config' = config /\ anons' = anons /\ kcmd' = kcmd
        /\ found_pc' = (IF trans'.current = NULL THEN 0 ELSE found_pc)
    BY <1>13 DEF code_module_loaded, Code, c, d
  <2>2. Moved(trans', prev')
    BY <1>2, <2>1, ImagesExist DEF Moved, Fields
  <2>3. CASE "no_vmlinux" \in config
    BY <1>5, <1>13, <2>1, <2>2, <2>3 DEF code_module_loaded
  <2>4. CASE "no_vmlinux" \notin config
    <3>1. /\ modules' = LET gen == IF \E m \in modules : m.gen = 1 THEN 2 ELSE 1
                        IN  {[start |-> r.start, end |-> r.end, gen |-> gen] : r \in ranges}
          /\ sfiles' = {x \in sfiles : x.kernel = NULL}
      BY <1>13, <2>4 DEF code_module_loaded
    <3>2. \A m \in modules' : \E r \in ranges : m.start = r.start
      BY <3>1
    <3>3. \A r \in ranges : r.start \in Nat \ {0}
      BY ImagesExist, TransAssumption
    <3>4. trans'.current = NULL /\ trans'.last = NULL
      BY <1>2, <2>1
    <3> QED BY <2>1, <2>2, <3>1, <3>2, <3>3, <3>4, CodeKeeps
  <2> QED BY <2>3, <2>4
<1>14. ASSUME EndOfBuffer PROVE TransInv'
  <2>1. Moved(trans', prev')
    BY <1>14, FreshMoves DEF EndOfBuffer, Code
  <2> QED BY <1>5, <1>14, <2>1 DEF EndOfBuffer, Code
<1>15. ASSUME UNCHANGED vars PROVE TransInv'
  <2>1. ShapeInv'
    BY <1>15 DEF vars, TransInv, ShapeInv, TypeOK
  <2>2. SfilesInv'
    BY <1>15, ConfigSame DEF vars, TransInv, SfilesInv, Refers, UniqueSfiles
  <2>3. CacheInv'
    BY <1>15, ConfigSame DEF vars, TransInv, CacheInv
  <2>4. FoundInv' /\ LoggedInv'
    BY <1>15 DEF vars, TransInv, FoundInv, LoggedInv
  <2> QED BY <2>1, <2>2, <2>3, <2>4 DEF TransInv
<1> QED BY <1>3, <1>4, <1>6, <1>7, <1>8, <1>9, <1>10, <1>11, <1>12, <1>13, <1>14, <1>15 DEF Next

LEMMA InitSound ==
  ASSUME Init
  PROVE  TransInv
<1>1. /\ DOMAIN trans = Fields /\ trans.app_cookie \in AppCookies /\ trans.in_kernel = -1
      /\ trans.tracing = "OFF" /\ trans.current = NULL /\ trans.anon = NULL /\ trans.last = NULL
  BY DEF Init, InitTrans, Fields, AppCookies
<1>2. anons = <<>> /\ ToSet(anons) = {} /\ sfiles = {} /\ modules = {} /\ config \in Configs
  BY DEF Init, ToSet
<1>3. ShapeInv
  BY <1>1, <1>2, TransAssumption DEF ShapeInv, TypeOK, Init
<1>4. SfilesInv /\ CacheInv /\ FoundInv
  BY <1>1, <1>2 DEF SfilesInv, UniqueSfiles, CacheInv, CacheOf, FoundInv
<1>5. LoggedInv
  BY DEF Init, LoggedInv, NoLog
<1> QED BY <1>3, <1>4, <1>5 DEF TransInv

\* Whatever the buffer holds, the caches and the lists stay sound.
THEOREM TransInvariant == Spec => []TransInv
<1>1. Init => TransInv
  BY InitSound
<1>2. TransInv /\ [Next]_vars => TransInv'
  BY NextKeeps
<1> QED BY <1>1, <1>2, PTL DEF Spec

-----------------------------------------------------------------------------
(* What it shows                                                           *)

\* However many regions a process has, the lists keep to their limits, no two
\* sfiles stand for the same files, and neither the cached sfile nor what an
\* sfile refers to has been freed.
ListsSound ==
  /\ TypeOK /\ UniqueSfiles
  /\ trans.current \in sfiles \cup {NULL} /\ trans.anon \in ToSet(anons) \cup {NULL}
  /\ \A x \in sfiles : /\ x.anon \in ToSet(anons) \cup {NULL}
                       /\ x.kernel \in modules \cup {NULL, Vmlinux, Xen}

\* Of do_lru, clear_anon_maps, opd_reread_module_info and sfile_lru_clear none
\* frees what is still referred to, for any load and any sizes of the lists.
THEOREM ListsAlwaysSound == Spec => []ListsSound
<1>1. TransInv => ListsSound
  BY DEF TransInv, ShapeInv, SfilesInv, Refers, CacheInv, CacheOf, ListsSound
<1> QED BY <1>1, TransInvariant, PTL

\* A sample is stored for its context and for an image that contains its address;
\* if it was taken in anonymous memory, for a mapping of its process.
ContextRight ==
  logged \in {"sample", "arc"} =>
    LET sf == trans.current
        user == trans.in_kernel = 0
    IN  /\ user = (sf.kernel = NULL)
        /\ (~user /\ "no_vmlinux" \notin config) => InRange(sf.kernel, trans.last_pc)
        /\ user => sf.cookie = trans.cookie
        /\ (user /\ trans.cookie = NO_COOKIE) = (sf.anon # NULL)
        /\ sf.anon # NULL => sf.anon.tgid = trans.tgid /\ sf.anon.app_cookie = trans.app_cookie
        /\ "thread" \in config => sf.tid = trans.tid /\ sf.tgid = trans.tgid
        /\ "cpu" \in config => sf.cpu = trans.cpu
        /\ (user /\ "lib" \in config) \/ "kernel" \in config => sf.app_cookie = trans.app_cookie

LEMMA InContext == TransInv => ContextRight
<1> SUFFICES ASSUME TransInv, logged \in {"sample", "arc"} PROVE ContextRight
  BY DEF ContextRight
<1> DEFINE sf == trans.current
<1>1. /\ sf # NULL
      /\ trans.in_kernel # 0 /\ "no_vmlinux" \notin config => InRange(sf.kernel, trans.last_pc)
  BY DEF TransInv, LoggedInv
<1>2. OfContext(sf, trans) /\ IsSfile(sf)
  BY <1>1 DEF TransInv, SfilesInv, CacheInv, CacheOf
<1>3. trans.in_kernel \in {0, 1} /\ (trans.in_kernel = 0) = (sf.kernel = NULL)
  BY <1>2 DEF OfContext
<1>4. trans.in_kernel = 0 => sf.cookie = trans.cookie
  BY <1>2 DEF OfContext
<1>5. (trans.in_kernel = 0 /\ trans.cookie = NO_COOKIE) = (sf.anon # NULL)
  BY <1>2, <1>3, <1>4 DEF IsSfile
<1>6. (trans.in_kernel = 0 /\ "lib" \in config) \/ "kernel" \in config
        => sf.app_cookie = trans.app_cookie
  BY <1>2, <1>3 DEF OfContext, OwnedByApp
<1> QED BY <1>1, <1>2, <1>3, <1>4, <1>5, <1>6 DEF OfContext, OfProcess, ContextRight

\* Whichever sfile opd_put_sample stores the sample in, cached, found or new, it
\* is one of the context that the codes announced and of the image, or of the
\* region that contains the address of the first sample it was cached for, however
\* many regions a process has.
THEOREM SampleAttribution == Spec => []Attribution
<1>1. TransInv => Attribution
  <2> SUFFICES ASSUME TransInv PROVE Attribution
    OBVIOUS
  <2>1. UniqueSfiles /\ ContextRight
    BY InContext DEF TransInv, SfilesInv
  <2>2. logged \in {"sample", "arc"} /\ trans.in_kernel = 0 /\ trans.cookie = NO_COOKIE
          => InRange(trans.current.anon, found_pc)
    BY DEF TransInv, LoggedInv, FoundInv
  <2> QED BY <2>1, <2>2 DEF ContextRight, Attribution
<1> QED BY <1>1, TransInvariant, PTL

\* However many regions a process has: the sfile of the last sample is not freed
\* either while it is cached between two entries of the buffer, since each sample
\* sets it anew, and each code that frees sfiles clears it.
THEOREM NothingDangles == Spec => []NoDangling
<1>1. TransInv => NoDangling
  BY DEF TransInv, ShapeInv, SfilesInv, Refers, CacheInv, CacheOf, NoDangling
<1> QED BY <1>1, TransInvariant, PTL

\* The arc of a call trace leads to the sample before it: each sample that has
\* no sfile, and each code that frees sfiles, has reset the cache.
LEMMA ArcStep ==
  ASSUME TransInv, [Next]_vars
  PROVE  logged' = "arc" => \/ UNCHANGED vars
                            \/ /\ prev = <<trans.last_pc, trans.last>>
                               /\ trans.last.anon = trans.last_anon => trans.last \in sfiles'
<1> SUFFICES ASSUME logged' = "arc", ~UNCHANGED vars
             PROVE  /\ prev = <<trans.last_pc, trans.last>>
                    /\ trans.last.anon = trans.last_anon => trans.last \in sfiles'
  OBVIOUS
<1>1. ASSUME NEW t, Begun(t), NEW log, Put(t, log)
      PROVE  /\ prev = <<trans.last_pc, trans.last>>
             /\ trans.last.anon = trans.last_anon => trans.last \in sfiles'
  <2>1. PICK x, first : Ready(x, t, first) /\ sfiles' = x.sf /\ x.t.last # NULL
    BY <1>1, PutIs DEF TransInv
  <2>2. x.t.last = trans.last /\ x.t.last_anon = trans.last_anon /\ trans.last # NULL
    BY <2>1 DEF Ready
  <2>3. LastOf(x.t, x.sf)
    BY <2>1 DEF Ready
  <2> QED BY <2>1, <2>2, <2>3 DEF TransInv, CacheInv, LastOf
<1>2. ASSUME NEW t, NEW before, Code(t, before) PROVE FALSE
  BY <1>2 DEF Code, NoLog
<1>3. \/ \E addr, event : opd_put_sample(addr, event)
      \/ \E addr, derived : opd_put_ibs_sample(addr, derived)
      \/ \E t, before : Code(t, before)
  <2>1. Next
    OBVIOUS
  <2>2. ASSUME NEW task, code_ctx_switch(task) PROVE \E t, before : Code(t, before)
    BY <2>2 DEF code_ctx_switch
  <2>3. ASSUME NEW cpu, code_cpu_switch(cpu) PROVE \E t, before : Code(t, before)
    BY <2>3 DEF code_cpu_switch
  <2>4. ASSUME NEW cookie, code_cookie_switch(cookie) PROVE \E t, before : Code(t, before)
    BY <2>4 DEF code_cookie_switch
  <2>5. ASSUME NEW ranges, code_module_loaded(ranges) PROVE \E t, before : Code(t, before)
    BY <2>5 DEF code_module_loaded
  <2>6. ASSUME code_kernel_enter \/ code_user_enter \/ code_xen_enter \/ code_trace_begin
               \/ EndOfBuffer
        PROVE  \E t, before : Code(t, before)
    BY <2>6 DEF code_kernel_enter, code_user_enter, code_xen_enter, code_trace_begin,
                EndOfBuffer
  <2> QED BY <2>1, <2>2, <2>3, <2>4, <2>5, <2>6 DEF Next
<1>4. CASE \E addr, event : opd_put_sample(addr, event)
  BY <1>1, <1>4, Begins DEF opd_put_sample, TransInv
<1>5. CASE \E addr, derived : opd_put_ibs_sample(addr, derived)
  BY <1>1, <1>5, Begins DEF opd_put_ibs_sample, TransInv
<1> QED BY <1>2, <1>3, <1>4, <1>5

\* update_trans_last: an arc comes from the sample just before it; and the sfile of
\* that sample exists, if last_anon is its mapping: whoever frees the mapping
\* (sfile_clear_anon) has then cleared it (clear_trans_last).
THEOREM ArcsConsecutive == Spec => ArcConsecutive
<1>1. TransInv /\ [Next]_vars
        => [logged' = "arc" =>
              /\ prev = <<trans.last_pc, trans.last>>
              /\ trans.last.anon = trans.last_anon => trans.last \in sfiles']_vars
  BY ArcStep
<1> QED BY <1>1, TransInvariant, PTL DEF Spec, ArcConsecutive

-----------------------------------------------------------------------------
(* The loop of the daemon: any number of samples, signals and dumps          *)

One(b) == IF b THEN 1 ELSE 0

\* Where the daemon may have a buffer in hand that is not stored yet.
Holding == {"alarm", "hup", "term", "child", "wait", "pipe", "samples"}

\* There is nothing to store but what read has returned (got): a read that is
\* interrupted leaves got false, and only what was got is processed.
BufferInv ==
  /\ pc \in {"enter", "reading", "dump"} => stored = read
  /\ pc \in Holding /\ got = FALSE => stored = read
  /\ pc = "reading" => got = FALSE
  /\ pc = "samples" => got = TRUE

\* Every child, running or ended, and the line in the pipe go back to a dump,
\* but for the last conversion, of a daemon that ends.
ChildrenInv ==
  /\ dumps \in 0..MaxDumps
  /\ running + zombies + One(pipe = TRUE) <= dumps + One(pc = "exited")

MainInv == MainTypeOK /\ BufferInv /\ ChildrenInv

\* The steps of the daemon keep MainInv: what is done between a read and its
\* use changes neither the buffer nor, but for opd_do_jitdumps and wait, the
\* children.
LEMMA DaemonStep == MainInv /\ Daemon => MainInv'
<1> SUFFICES ASSUME MainInv, Daemon PROVE MainInv'
  OBVIOUS
<1> USE MainAssumption DEF MainInv, BufferInv, Holding, Points, Signals, Places
<1>1. CASE EnterRead
  <2>1. MainTypeOK'
    BY <1>1 DEF EnterRead, children, device, opcontrol, MainTypeOK, ChildrenInv, One
  <2>2. BufferInv'
    BY <1>1 DEF EnterRead, children, device, opcontrol, MainTypeOK
  <2>3. ChildrenInv'
    BY <1>1 DEF EnterRead, children, device, opcontrol, MainTypeOK, ChildrenInv, One
  <2> QED
    BY <2>1, <2>2, <2>3
<1>2. CASE ReadReturns
  <2>1. MainTypeOK'
    <3>1. (pc \in Points /\ flags \subseteq Signals /\ octl \in Places)'
      BY <1>2 DEF ReadReturns, children, opcontrol, MainTypeOK
    <3>2. got' \in BOOLEAN /\ jit_conversion_running' \in BOOLEAN /\ killing' \in BOOLEAN
      BY <1>2 DEF ReadReturns, children, opcontrol, MainTypeOK
    <3>3. ready' \in BOOLEAN /\ pipe' \in BOOLEAN /\ dumped' \in BOOLEAN
      BY <1>2 DEF ReadReturns, children, opcontrol, MainTypeOK
    <3>4. (running \in 0..(MaxDumps + 1) /\ zombies \in 0..(MaxDumps + 1))'
      BY <1>2 DEF ReadReturns, children, opcontrol, MainTypeOK, ChildrenInv, One
    <3>5. (taken \in 0..MaxSamples /\ read \in 0..taken /\ stored \in 0..read)'
      BY <1>2 DEF ReadReturns, children, opcontrol, MainTypeOK
    <3> QED
      BY <3>1, <3>2, <3>3, <3>4, <3>5 DEF MainTypeOK
  <2>2. BufferInv'
    BY <1>2 DEF ReadReturns, children, opcontrol, MainTypeOK
  <2>3. ChildrenInv'
    BY <1>2 DEF ReadReturns, children, opcontrol, MainTypeOK, ChildrenInv, One
  <2> QED
    BY <2>1, <2>2, <2>3
<1>3. CASE CheckAlarm
  <2>1. MainTypeOK'
    BY <1>3 DEF CheckAlarm, children, device, opcontrol, MainTypeOK, ChildrenInv, One
  <2>2. BufferInv'
    BY <1>3 DEF CheckAlarm, children, device, opcontrol, MainTypeOK
  <2>3. ChildrenInv'
    BY <1>3 DEF CheckAlarm, children, device, opcontrol, MainTypeOK, ChildrenInv, One
  <2> QED
    BY <2>1, <2>2, <2>3
<1>4. CASE CheckHup
  <2>1. MainTypeOK'
    BY <1>4 DEF CheckHup, children, device, opcontrol, MainTypeOK, ChildrenInv, One
  <2>2. BufferInv'
    BY <1>4 DEF CheckHup, children, device, opcontrol, MainTypeOK
  <2>3. ChildrenInv'
    BY <1>4 DEF CheckHup, children, device, opcontrol, MainTypeOK, ChildrenInv, One
  <2> QED
    BY <2>1, <2>2, <2>3
<1>5. CASE CheckTerm
  <2>1. MainTypeOK'
    <3>1. (pc \in Points /\ flags \subseteq Signals /\ octl \in Places)'
      BY <1>5 DEF CheckTerm, opd_do_jitdumps, children, device, opcontrol, MainTypeOK
    <3>2. got' \in BOOLEAN /\ jit_conversion_running' \in BOOLEAN /\ killing' \in BOOLEAN
      BY <1>5 DEF CheckTerm, opd_do_jitdumps, children, device, opcontrol, MainTypeOK
    <3>3. ready' \in BOOLEAN /\ pipe' \in BOOLEAN /\ dumped' \in BOOLEAN
      BY <1>5 DEF CheckTerm, opd_do_jitdumps, children, device, opcontrol, MainTypeOK
    <3>4. (running \in 0..(MaxDumps + 1) /\ zombies \in 0..(MaxDumps + 1))'
      BY <1>5 DEF CheckTerm, opd_do_jitdumps, children, device, opcontrol, MainTypeOK, ChildrenInv, One
    <3>5. (taken \in 0..MaxSamples /\ read \in 0..taken /\ stored \in 0..read)'
      BY <1>5 DEF CheckTerm, opd_do_jitdumps, children, device, opcontrol, MainTypeOK
    <3> QED
      BY <3>1, <3>2, <3>3, <3>4, <3>5 DEF MainTypeOK
  <2>2. BufferInv'
    BY <1>5 DEF CheckTerm, opd_do_jitdumps, children, device, opcontrol, MainTypeOK
  <2>3. ChildrenInv'
    BY <1>5 DEF CheckTerm, opd_do_jitdumps, children, device, opcontrol, MainTypeOK, ChildrenInv, One
  <2> QED
    BY <2>1, <2>2, <2>3
<1>6. CASE CheckChild
  <2>1. MainTypeOK'
    BY <1>6 DEF CheckChild, children, device, opcontrol, MainTypeOK, ChildrenInv, One
  <2>2. BufferInv'
    BY <1>6 DEF CheckChild, children, device, opcontrol, MainTypeOK
  <2>3. ChildrenInv'
    BY <1>6 DEF CheckChild, children, device, opcontrol, MainTypeOK, ChildrenInv, One
  <2> QED
    BY <2>1, <2>2, <2>3
<1>7. CASE WaitReturns
  <2>1. MainTypeOK'
    <3>1. (pc \in Points /\ flags \subseteq Signals /\ octl \in Places)'
      BY <1>7 DEF WaitReturns, device, opcontrol, MainTypeOK
    <3>2. got' \in BOOLEAN /\ jit_conversion_running' \in BOOLEAN /\ killing' \in BOOLEAN
      BY <1>7 DEF WaitReturns, device, opcontrol, MainTypeOK
    <3>3. ready' \in BOOLEAN /\ pipe' \in BOOLEAN /\ dumped' \in BOOLEAN
      BY <1>7 DEF WaitReturns, device, opcontrol, MainTypeOK
    <3>4. (running \in 0..(MaxDumps + 1) /\ zombies \in 0..(MaxDumps + 1))'
      BY <1>7 DEF WaitReturns, device, opcontrol, MainTypeOK, ChildrenInv, One
    <3>5. (taken \in 0..MaxSamples /\ read \in 0..taken /\ stored \in 0..read)'
      BY <1>7 DEF WaitReturns, device, opcontrol, MainTypeOK
    <3> QED
      BY <3>1, <3>2, <3>3, <3>4, <3>5 DEF MainTypeOK
  <2>2. BufferInv'
    BY <1>7 DEF WaitReturns, device, opcontrol, MainTypeOK
  <2>3. ChildrenInv'
    BY <1>7 DEF WaitReturns, device, opcontrol, MainTypeOK, ChildrenInv, One
  <2> QED
    BY <2>1, <2>2, <2>3
<1>8. CASE CheckPipe
  <2>1. MainTypeOK'
    <3>1. (pc \in Points /\ flags \subseteq Signals /\ octl \in Places)'
      BY <1>8 DEF CheckPipe, opd_do_jitdumps, children, device, opcontrol, MainTypeOK
    <3>2. got' \in BOOLEAN /\ jit_conversion_running' \in BOOLEAN /\ killing' \in BOOLEAN
      BY <1>8 DEF CheckPipe, opd_do_jitdumps, children, device, opcontrol, MainTypeOK
    <3>3. ready' \in BOOLEAN /\ pipe' \in BOOLEAN /\ dumped' \in BOOLEAN
      BY <1>8 DEF CheckPipe, opd_do_jitdumps, children, device, opcontrol, MainTypeOK
    <3>4. (running \in 0..(MaxDumps + 1) /\ zombies \in 0..(MaxDumps + 1))'
      BY <1>8 DEF CheckPipe, opd_do_jitdumps, children, device, opcontrol, MainTypeOK, ChildrenInv, One
    <3>5. (taken \in 0..MaxSamples /\ read \in 0..taken /\ stored \in 0..read)'
      BY <1>8 DEF CheckPipe, opd_do_jitdumps, children, device, opcontrol, MainTypeOK
    <3> QED
      BY <3>1, <3>2, <3>3, <3>4, <3>5 DEF MainTypeOK
  <2>2. BufferInv'
    BY <1>8 DEF CheckPipe, opd_do_jitdumps, children, device, opcontrol, MainTypeOK
  <2>3. ChildrenInv'
    BY <1>8 DEF CheckPipe, opd_do_jitdumps, children, device, opcontrol, MainTypeOK, ChildrenInv, One
  <2> QED
    BY <2>1, <2>2, <2>3
<1>9. CASE ProcessSamples
  <2>1. MainTypeOK'
    BY <1>9 DEF ProcessSamples, children, opcontrol, MainTypeOK, ChildrenInv, One
  <2>2. BufferInv'
    BY <1>9 DEF ProcessSamples, children, opcontrol, MainTypeOK
  <2>3. ChildrenInv'
    BY <1>9 DEF ProcessSamples, children, opcontrol, MainTypeOK, ChildrenInv, One
  <2> QED
    BY <2>1, <2>2, <2>3
<1>10. CASE complete_dump
  <2>1. MainTypeOK'
    BY <1>10 DEF complete_dump, children, device, opcontrol, MainTypeOK, ChildrenInv, One
  <2>2. BufferInv'
    BY <1>10 DEF complete_dump, children, device, opcontrol, MainTypeOK
  <2>3. ChildrenInv'
    BY <1>10 DEF complete_dump, children, device, opcontrol, MainTypeOK, ChildrenInv, One
  <2> QED
    BY <2>1, <2>2, <2>3
<1> QED
  BY <1>1, <1>2, <1>3, <1>4, <1>5, <1>6, <1>7, <1>8, <1>9, <1>10 DEF Daemon

\* A signal leaves the buffer alone, wherever it finds the daemon: a read that
\* it interrupts has got nothing.
LEMMA DeliverStep ==
  ASSUME MainInv, Alive, NEW s \in Signals, Deliver(s),
         UNCHANGED <<read, stored>>
  PROVE  /\ pc' \in Points /\ pc' # "exited"
         /\ flags' \subseteq Signals
         /\ got' \in BOOLEAN /\ jit_conversion_running' \in BOOLEAN
         /\ BufferInv'
<1> USE DEF MainInv, MainTypeOK, Points, Signals, Alive, Deliver, SleepsInRead, SleepsInWait
<1>1. pc' \in Points /\ pc' # "exited" /\ flags' \subseteq Signals
  OBVIOUS
<1>2. got' \in BOOLEAN /\ jit_conversion_running' \in BOOLEAN
  OBVIOUS
<1>3. BufferInv'
  <2>1. CASE SleepsInRead
    BY <2>1 DEF BufferInv, Holding
  <2>2. CASE SleepsInWait
    BY <2>2 DEF BufferInv, Holding
  <2>3. CASE ~SleepsInRead /\ ~SleepsInWait
    BY <2>3 DEF BufferInv, Holding
  <2> QED
    BY <2>1, <2>2, <2>3
<1> QED
  BY <1>1, <1>2, <1>3

\* opcontrol asks for dumps and waits: only DumpRequest touches what MainInv
\* counts, and it counts the dump first.
LEMMA OpcontrolStep == MainInv /\ (Opcontrol \/ DumpRequest) => MainInv'
<1> SUFFICES ASSUME MainInv, Opcontrol \/ DumpRequest PROVE MainInv'
  OBVIOUS
<1> USE MainAssumption DEF MainInv, MainTypeOK, BufferInv, Holding, ChildrenInv, One,
                           daemon, children, device, Places
<1>1. CASE DumpRemove
  BY <1>1 DEF DumpRemove
<1>2. CASE DumpTrigger
  BY <1>2 DEF DumpTrigger
<1>3. CASE DumpDone
  BY <1>3 DEF DumpDone
<1>4. CASE DumpDaemonGone
  BY <1>4 DEF DumpDaemonGone
<1>5. CASE OpcontrolExits
  BY <1>5 DEF OpcontrolExits
<1>6. CASE DumpRequest
  BY <1>6 DEF DumpRequest, Alive
<1> QED
  BY <1>1, <1>2, <1>3, <1>4, <1>5, <1>6 DEF Opcontrol

\* Signals, the end of a child, and samples.
LEMMA OutsideStep ==
  ASSUME MainInv,
         \/ ChildEnds \/ TakeSample \/ KillDaemon
         \/ \E s \in {"alarm", "hup"} : Signal(s)
  PROVE  MainInv'
<1> USE MainAssumption DEF MainInv
<1>1. CASE TakeSample
  <2>1. MainTypeOK'
    <3>1. ready' \in BOOLEAN
      BY <1>1 DEF TakeSample, MainTypeOK
    <3>2. (taken \in 0..MaxSamples /\ read \in 0..taken /\ stored \in 0..read)'
      BY <1>1 DEF TakeSample, MainTypeOK
    <3> QED
      BY <1>1, <3>1, <3>2 DEF TakeSample, daemon, children, opcontrol, MainTypeOK
  <2>2. BufferInv' /\ ChildrenInv'
    BY <1>1 DEF TakeSample, daemon, children, opcontrol, BufferInv, Holding, ChildrenInv, One
  <2> QED
    BY <2>1, <2>2
<1>2. CASE ChildEnds
  <2>1. /\ pc' \in Points /\ (pc' = "exited") = (pc = "exited")
        /\ flags' \subseteq Signals
        /\ got' \in BOOLEAN /\ jit_conversion_running' \in BOOLEAN
        /\ BufferInv'
    <3>1. CASE ~Alive \/ pc = "wait"
      BY <1>2, <3>1 DEF ChildEnds, device, MainTypeOK, Signals, BufferInv, Holding
    <3>2. CASE ~(~Alive \/ pc = "wait")
      <4>1. Deliver("child") /\ UNCHANGED <<read, stored>> /\ Alive
        BY <1>2, <3>2 DEF ChildEnds, device
      <4> QED
        BY <4>1, DeliverStep DEF Signals, Alive
    <3> QED
      BY <3>1, <3>2
  <2>2. (running \in 0..(MaxDumps + 1) /\ zombies \in 0..(MaxDumps + 1))' /\ ChildrenInv'
    BY <1>2, <2>1 DEF ChildEnds, opcontrol, MainTypeOK, ChildrenInv, One
  <2> QED
    BY <1>2, <2>1, <2>2 DEF ChildEnds, device, opcontrol, MainTypeOK
<1>3. CASE KillDaemon
  <2>1. Deliver("term") /\ UNCHANGED <<read, stored>> /\ Alive
    BY <1>3 DEF KillDaemon, device
  <2>2. /\ pc' \in Points /\ pc' # "exited" /\ flags' \subseteq Signals
        /\ got' \in BOOLEAN /\ jit_conversion_running' \in BOOLEAN /\ BufferInv'
    BY <2>1, DeliverStep DEF Signals
  <2>3. MainTypeOK'
    BY <1>3, <2>2 DEF KillDaemon, children, device, MainTypeOK
  <2>4. ChildrenInv'
    BY <1>3, <2>1, <2>2 DEF KillDaemon, children, ChildrenInv, One, Alive
  <2> QED
    BY <2>2, <2>3, <2>4
<1>4. ASSUME NEW s \in {"alarm", "hup"}, Signal(s) PROVE MainInv'
  <2>1. Deliver(s) /\ UNCHANGED <<read, stored>> /\ Alive
    BY <1>4 DEF Signal, device
  <2>2. /\ pc' \in Points /\ pc' # "exited" /\ flags' \subseteq Signals
        /\ got' \in BOOLEAN /\ jit_conversion_running' \in BOOLEAN /\ BufferInv'
    BY <2>1, DeliverStep DEF Signals
  <2>3. MainTypeOK'
    BY <1>4, <2>2 DEF Signal, children, device, opcontrol, MainTypeOK
  <2>4. ChildrenInv'
    BY <1>4, <2>1, <2>2 DEF Signal, children, opcontrol, ChildrenInv, One, Alive
  <2> QED
    BY <2>2, <2>3, <2>4
<1> QED
  BY <1>1, <1>2, <1>3, <1>4

\* MainInv holds throughout: types, the buffer, and the number of children.
THEOREM MainInvariance == MainSpec => []MainInv
<1>1. MainInit => MainInv
  <2>1. MainInit => MainTypeOK
    <3> SUFFICES ASSUME MainInit PROVE MainTypeOK
      OBVIOUS
    <3>1. pc \in Points /\ flags \subseteq Signals /\ octl \in Places
      BY DEF MainInit, Points, Signals, Places
    <3>2. /\ got \in BOOLEAN /\ jit_conversion_running \in BOOLEAN
          /\ killing \in BOOLEAN
      BY Zenon DEF MainInit
    <3>3. ready \in BOOLEAN /\ pipe \in BOOLEAN /\ dumped \in BOOLEAN
      BY Zenon DEF MainInit
    <3>4. /\ running = 0 /\ zombies = 0 /\ taken = 0 /\ read = 0 /\ stored = 0
      BY Zenon DEF MainInit
    <3>5. /\ running \in 0..(MaxDumps + 1) /\ zombies \in 0..(MaxDumps + 1)
          /\ taken \in 0..MaxSamples /\ read \in 0..taken /\ stored \in 0..read
      BY <3>4, MainAssumption
    <3> QED
      BY <3>1, <3>2, <3>3, <3>5, Zenon DEF MainTypeOK
  <2>2. MainInit => BufferInv /\ ChildrenInv
    BY MainAssumption DEF MainInit, BufferInv, Holding, ChildrenInv, One
  <2> QED
    BY <2>1, <2>2 DEF MainInv
<1>2. MainInv /\ [MainNext]_mainVars => MainInv'
  <2>1. MainInv /\ UNCHANGED mainVars => MainInv'
    BY DEF MainInv, MainTypeOK, BufferInv, Holding, ChildrenInv, One,
           mainVars, daemon, children, device, opcontrol
  <2> QED
    BY <2>1, DaemonStep, OpcontrolStep, OutsideStep DEF MainNext
<1> QED
  BY <1>1, <1>2, PTL DEF MainSpec

\* The types of OpdMain: in particular there are never more children than dumps
\* were asked for, and the one of the end, and nothing is stored that was not
\* read.
THEOREM MainTypeCorrect == MainSpec => []MainTypeOK
<1>1. MainInv => MainTypeOK
  BY DEF MainInv
<1> QED
  BY <1>1, MainInvariance, PTL

\* No buffer is overwritten or announced before it was stored, whatever signals
\* arrive and however many conversions run (opd_do_read).
THEOREM BufferSafe == MainSpec => []BufferStored
<1>1. MainInv => BufferStored
  BY DEF MainInv, BufferInv, BufferStored
<1> QED
  BY <1>1, MainInvariance, PTL

=============================================================================
