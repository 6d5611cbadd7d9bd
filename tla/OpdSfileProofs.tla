--------------------------- MODULE OpdSfileProofs ---------------------------
(***************************************************************************)
(* The list of sfiles stays a list, and what is in use is never freed, for *)
(* any number of sfiles, of open files and of entries for arcs.            *)
(*                                                                         *)
(* ListOf(l, S) says what the pointers of op_list.h mean: some numbering q *)
(* of the entries, with the head at both ends, is followed by the next     *)
(* links and against it by the prev links.  list_del and list_add_tail     *)
(* keep a list a list; the walk of for_each_sfile visits the numbering in  *)
(* order; so freeing what is found on the walk keeps it one too.  Walk and *)
(* DelEach are recursive functions; what they compute is shown by          *)
(* induction on the position, in the form NatSetInduction gives it.        *)
(***************************************************************************)
EXTENDS OpdSfile, FiniteSetTheorems, FunctionTheorems, WellFoundedInduction, TLAPS

-----------------------------------------------------------------------------
(* Induction and recursion                                                 *)

\* Induction over the naturals, for a set.
LEMMA NatSetInduction ==
  ASSUME NEW T, 0 \in T, \A n \in Nat : n \in T => n + 1 \in T
  PROVE  Nat \subseteq T
<1> SUFFICES ASSUME NEW m \in Nat, m \notin T PROVE FALSE
  OBVIOUS
<1> DEFINE U == {0..n : n \in {k \in Nat : k \notin T}}
<1>1. U # {} /\ 0..m \in U
  OBVIOUS
<1>2. U \subseteq FiniteSubsetsOf(Nat)
  <2> SUFFICES ASSUME NEW n \in Nat PROVE 0..n \in FiniteSubsetsOf(Nat)
    OBVIOUS
  <2>1. IsFiniteSet(0..n) BY FS_Interval
  <2> QED BY <2>1 DEF FiniteSubsetsOf
<1>3. IsWellFoundedOn(StrictSubsetOrdering(Nat), FiniteSubsetsOf(Nat))
  BY FS_StrictSubsetOrderingWellFounded
<1> HIDE DEF U
<1>4. \E x \in U : \A y \in U : ~(<<y, x>> \in StrictSubsetOrdering(Nat))
  BY <1>1, <1>2, <1>3, WFMin
<1> USE DEF U
<1>5. PICK x \in Nat : x \notin T /\ \A y \in U : ~(<<y, 0..x>> \in StrictSubsetOrdering(Nat))
  BY <1>4
<1>6. x # 0
  BY <1>5
<1>7. x - 1 \in Nat /\ (x - 1) + 1 = x
  BY <1>6
<1>8. x - 1 \notin T
  BY <1>5, <1>7
<1>9. 0..(x - 1) \in U
  BY <1>7, <1>8
<1>10. <<0..(x - 1), 0..x>> \in StrictSubsetOrdering(Nat)
  BY <1>7 DEF StrictSubsetOrdering
<1> QED BY <1>5, <1>9, <1>10

-----------------------------------------------------------------------------
(* Lists                                                                   *)

\* The type of the links.
AllLinks == [next : [Links -> Links], prev : [Links -> Links]]

\* The head and the k entries after it, numbered as the links lead from one to the next.
IsList(l, q, k) ==
  /\ q \in [0..k + 1 -> Links]
  /\ q[0] = lru_list /\ q[k + 1] = lru_list
  /\ \A i \in 1..k : q[i] \in Sfiles
  /\ \A i, j \in 1..k : q[i] = q[j] => i = j
  /\ \A i \in 0..k : l.next[q[i]] = q[i + 1] /\ l.prev[q[i + 1]] = q[i]

\* What is numbered.
Entries(q, k) == {q[i] : i \in 1..k}

\* The links from the head form one list, of exactly the members of S.
ListOf(l, S) ==
  \E k \in Nat : \E q : IsList(l, q, k) /\ Entries(q, k) = S

\* The head of the list, NULL and NoTo are no sfiles.
LEMMA Distinct == lru_list \notin Sfiles /\ NULL \notin Links /\ NoTo \notin Sfiles
BY NamesDistinct DEF lru_list, NULL, NoTo, Links

\* The operations of op_list.h store links where there were links.
LEMMA ListTypes ==
  ASSUME NEW l \in AllLinks, NEW x \in Sfiles, NEW gone
  PROVE  /\ list_del(l, x) \in AllLinks
         /\ list_add_tail(l, x) \in AllLinks
         /\ Unlinked(l, gone) \in AllLinks
BY DEF AllLinks, list_del, list_add_tail, Unlinked, Links

\* list_del of an entry leaves a list of the others.
LEMMA DelKeeps ==
  ASSUME NEW l \in AllLinks, NEW S, ListOf(l, S), NEW x \in S
  PROVE  ListOf(list_del(l, x), S \ {x})
<1>0. PICK k \in Nat : \E q : IsList(l, q, k) /\ Entries(q, k) = S
  BY DEF ListOf
<1>1. PICK q : IsList(l, q, k) /\ Entries(q, k) = S
  BY <1>0
<1>a. q \in [0..k + 1 -> Links]
  BY <1>1 DEF IsList
<1>2. PICK j \in 1..k : x = q[j]
  BY <1>1 DEF Entries
<1> DEFINE r == [i \in 0..k |-> IF i < j THEN q[i] ELSE q[i + 1]]
           d == list_del(l, x)
<1>3. k - 1 \in Nat /\ (k - 1) + 1 = k /\ k \in Nat /\ j \in Nat /\ j >= 1 /\ j =< k
  BY <1>2
<1>4. r \in [0..k -> Links]
  BY <1>3, <1>a
<1>5. d.next = [l.next EXCEPT ![l.prev[x]] = l.next[x]] /\ d.prev = [l.prev EXCEPT ![l.next[x]] = l.prev[x]]
  BY DEF list_del
<1>6. l.prev[x] = q[j - 1] /\ l.next[x] = q[j + 1]
  <2>1. j - 1 \in 0..k /\ (j - 1) + 1 = j /\ j \in 0..k
    BY <1>3
  <2> QED BY <2>1, <1>1, <1>2 DEF IsList
<1>7. l.next \in [Links -> Links] /\ l.prev \in [Links -> Links]
  BY DEF AllLinks
<1>8. \A i \in 0..k + 1 : q[i] = lru_list <=> i \in {0, k + 1}
  BY <1>1, <1>3, Distinct DEF IsList
<1>9. ASSUME NEW i \in 0..k - 1
      PROVE  d.next[r[i]] = r[i + 1] /\ d.prev[r[i + 1]] = r[i]
  <2>1. CASE i < j - 1
    <3>1. r[i] = q[i] /\ r[i + 1] = q[i + 1]
      BY <2>1, <1>3
    <3>2. q[i] # q[j - 1] /\ q[i + 1] # q[j + 1]
      <4>1. i \in 0..k + 1 /\ j - 1 \in 1..k /\ i + 1 \in 1..k /\ j + 1 \in 1..k + 1 /\ i # k + 1
        BY <2>1, <1>3
      <4>2. q[i] # q[j - 1]
        BY <4>1, <2>1, <1>1, <1>3, <1>8 DEF IsList
      <4>3. q[i + 1] # q[j + 1]
        BY <4>1, <2>1, <1>1, <1>3, <1>8 DEF IsList
      <4> QED BY <4>2, <4>3
    <3> QED BY <3>1, <3>2, <1>1, <1>3, <1>5, <1>6, <1>7 DEF IsList
  <2>2. CASE i = j - 1
    <3>1. r[i] = q[j - 1] /\ r[i + 1] = q[j + 1]
      BY <2>2, <1>3
    <3>2. q[j - 1] \in Links /\ q[j + 1] \in Links
      BY <1>a, <1>3
    <3> QED BY <3>1, <3>2, <1>5, <1>6, <1>7, <1>3
  <2>3. CASE i > j - 1
    <3>1. r[i] = q[i + 1] /\ r[i + 1] = q[i + 2]
      BY <2>3, <1>3
    <3>2. q[i + 1] # q[j - 1] /\ q[i + 2] # q[j + 1]
      BY <2>3, <1>1, <1>3, <1>8 DEF IsList
    <3>3. l.next[q[i + 1]] = q[i + 2] /\ l.prev[q[i + 2]] = q[i + 1]
      BY <2>3, <1>1, <1>3 DEF IsList
    <3> QED BY <3>1, <3>2, <3>3, <1>3, <1>5, <1>6, <1>7
  <2> QED BY <2>1, <2>2, <2>3, <1>3
<1>10. IsList(d, r, k - 1)
  <2>1. r[0] = lru_list /\ r[k] = lru_list
    BY <1>1, <1>3 DEF IsList
  <2>2. \A i \in 1..k - 1 : r[i] \in Sfiles
    BY <1>1, <1>3 DEF IsList
  <2>3. \A i, m \in 1..k - 1 : r[i] = r[m] => i = m
    BY <1>1, <1>3 DEF IsList
  <2> HIDE DEF r, d
  <2> QED BY <1>3, <1>4, <1>9, <2>1, <2>2, <2>3 DEF IsList
<1>11. Entries(r, k - 1) = S \ {x}
  <2>1. ASSUME NEW e \in Entries(r, k - 1) PROVE e \in S \ {x}
    <3>1. PICK m \in 1..k - 1 : e = r[m]
      BY DEF Entries
    <3>2. PICK i \in 1..k : e = q[i] /\ i # j
      <4>1. CASE m < j
        BY <3>1, <4>1, <1>3
      <4>2. CASE m >= j
        <5>1. m + 1 \in 1..k /\ m + 1 # j /\ e = q[m + 1]
          BY <3>1, <4>2, <1>3
        <5> QED BY <5>1
      <4> QED BY <4>1, <4>2, <1>3
    <3> QED BY <3>2, <1>1, <1>2 DEF Entries, IsList
  <2>2. ASSUME NEW e \in S \ {x} PROVE e \in Entries(r, k - 1)
    <3>1. PICK m \in 1..k : e = q[m] /\ m # j
      BY <1>1, <1>2 DEF Entries
    <3>2. CASE m < j
      <4>1. m \in 1..k - 1 /\ r[m] = e
        BY <3>1, <3>2, <1>3
      <4> QED BY <4>1 DEF Entries
    <3>3. CASE m > j
      <4>1. m - 1 \in 1..k - 1 /\ r[m - 1] = e
        BY <3>1, <3>3, <1>3
      <4> QED BY <4>1 DEF Entries
    <3> QED BY <3>1, <3>2, <3>3, <1>3
  <2> QED BY <2>1, <2>2
<1> HIDE DEF r, d
<1>12. r \in [0..(k - 1) + 1 -> Links]
  BY <1>3, <1>4
<1>13. ListOf(d, S \ {x})
  BY <1>3, <1>10, <1>11, <1>12 DEF ListOf
<1> QED BY <1>13 DEF d

\* list_add_tail of what is not on a list leaves a list with one more entry.
LEMMA AddKeeps ==
  ASSUME NEW l \in AllLinks, NEW S, ListOf(l, S), NEW x \in Sfiles \ S
  PROVE  ListOf(list_add_tail(l, x), S \cup {x})
<1>0. PICK k \in Nat : \E q : IsList(l, q, k) /\ Entries(q, k) = S
  BY DEF ListOf
<1>1. PICK q : IsList(l, q, k) /\ Entries(q, k) = S
  BY <1>0
<1>a. q \in [0..k + 1 -> Links]
  BY <1>1 DEF IsList
<1> DEFINE r == [i \in 0..k + 2 |-> IF i =< k THEN q[i] ELSE IF i = k + 1 THEN x ELSE lru_list]
           d == list_add_tail(l, x)
<1>2. x # lru_list /\ x \in Links
  BY Distinct DEF Links
<1>3. r \in [0..k + 2 -> Links]
  BY <1>2, <1>a DEF Links
<1>4. l.prev[lru_list] = q[k]
  BY <1>1 DEF IsList
<1>5. /\ d.next = [[l.next EXCEPT ![x] = lru_list] EXCEPT ![q[k]] = x]
      /\ d.prev = [[l.prev EXCEPT ![lru_list] = x] EXCEPT ![x] = q[k]]
  BY <1>4 DEF list_add_tail
<1>6. l.next \in [Links -> Links] /\ l.prev \in [Links -> Links]
  BY DEF AllLinks
<1>7. \A i \in 0..k : q[i] # x
  BY <1>1, <1>2 DEF IsList, Entries
<1>8. \A i \in 1..k : q[i] # lru_list
  BY <1>1, Distinct DEF IsList
<1>9. ASSUME NEW i \in 0..k + 1
      PROVE  d.next[r[i]] = r[i + 1] /\ d.prev[r[i + 1]] = r[i]
  <2>1. CASE i < k
    <3>1. r[i] = q[i] /\ r[i + 1] = q[i + 1]
      BY <2>1
    <3>2. q[i] # q[k]
      BY <2>1, <1>1, <1>8 DEF IsList
    <3>3. q[i] # x /\ q[i + 1] # x /\ q[i + 1] # lru_list
      BY <2>1, <1>7, <1>8
    <3>4. l.next[q[i]] = q[i + 1] /\ l.prev[q[i + 1]] = q[i]
      BY <2>1, <1>1 DEF IsList
    <3>5. q[i] \in Links /\ q[i + 1] \in Links
      BY <2>1, <1>a
    <3> QED BY <3>1, <3>2, <3>3, <3>4, <3>5, <1>5, <1>6
  <2>2. CASE i = k
    <3>1. r[i] = q[k] /\ r[i + 1] = x /\ q[k] \in Links
      BY <2>2, <1>a
    <3> QED BY <3>1, <1>2, <1>5, <1>6
  <2>3. CASE i = k + 1
    <3>1. r[i] = x /\ r[i + 1] = lru_list /\ lru_list \in Links /\ q[k] # x
      BY <2>3, <1>7 DEF Links
    <3> QED BY <3>1, <1>2, <1>5, <1>6
  <2> QED BY <2>1, <2>2, <2>3
<1>10. IsList(d, r, k + 1)
  <2>1. r[0] = lru_list /\ r[k + 2] = lru_list
    BY <1>1 DEF IsList
  <2>2. \A i \in 1..k + 1 : r[i] \in Sfiles
    BY <1>1 DEF IsList
  <2>3. \A i, m \in 1..k + 1 : r[i] = r[m] => i = m
    BY <1>1, <1>7 DEF IsList
  <2>4. (k + 1) + 1 = k + 2
    OBVIOUS
  <2> HIDE DEF r, d
  <2> QED BY <1>3, <1>9, <2>1, <2>2, <2>3, <2>4 DEF IsList
<1>11. Entries(r, k + 1) = S \cup {x}
  <2>1. r[k + 1] = x /\ \A i \in 1..k : r[i] = q[i] /\ i \in 1..k + 1
    OBVIOUS
  <2>2. \A i \in 1..k + 1 : i \in 1..k \/ i = k + 1
    OBVIOUS
  <2> HIDE DEF r
  <2>3. k + 1 \in 1..k + 1
    OBVIOUS
  <2> QED BY <2>1, <2>2, <2>3, <1>1 DEF Entries
<1> HIDE DEF r, d
<1>12. r \in [0..(k + 1) + 1 -> Links] /\ k + 1 \in Nat
  BY <1>3
<1>13. ListOf(d, S \cup {x})
  BY <1>10, <1>11, <1>12 DEF ListOf
<1> QED BY <1>13 DEF d

\* g starts at c and goes on by F, n times.
Iterates(g, S, c, F, n) ==
  /\ g \in [0..n -> S]
  /\ g[0] = c
  /\ \A m \in 1..n : g[m] = F[m][g[m - 1]]

\* There is a function that does so.
LEMMA RecursionExists ==
  ASSUME NEW S, NEW c \in S, NEW F \in [Nat -> [S -> S]], NEW n \in Nat
  PROVE  \E g : Iterates(g, S, c, F, n)
<1> DEFINE R(g, k) == g[0] = c /\ \A m \in 1..k : g[m] = F[m][g[m - 1]]
           T == {k \in Nat : \E g \in [0..k -> S] : R(g, k)}
<1>1. 0 \in T
  <2>1. [i \in 0..0 |-> c] \in [0..0 -> S] /\ R([i \in 0..0 |-> c], 0)
    OBVIOUS
  <2> QED BY <2>1
<1>2. ASSUME NEW k \in Nat, k \in T PROVE k + 1 \in T
  <2>1. PICK g \in [0..k -> S] : R(g, k)
    BY <1>2
  <2> DEFINE h == [i \in 0..k + 1 |-> IF i =< k THEN g[i] ELSE F[k + 1][g[k]]]
  <2>2. F[k + 1] \in [S -> S] /\ g[k] \in S
    OBVIOUS
  <2>3. h \in [0..k + 1 -> S]
    BY <2>2
  <2>4. ASSUME NEW m \in 1..k + 1 PROVE h[m] = F[m][h[m - 1]]
    <3>1. CASE m = k + 1
      BY <3>1
    <3>2. CASE m =< k
      <4>1. m \in 1..k /\ m - 1 \in 0..k /\ h[m] = g[m] /\ h[m - 1] = g[m - 1]
        BY <3>2
      <4> QED BY <4>1, <2>1
    <3> QED BY <3>1, <3>2
  <2>5. h[0] = c
    BY <2>1
  <2> HIDE DEF h
  <2>6. R(h, k + 1)
    BY <2>4, <2>5
  <2> QED BY <2>3, <2>6
<1>3. Nat \subseteq T
  <2> HIDE DEF T
  <2> QED BY <1>1, <1>2, NatSetInduction
<1> QED BY <1>3 DEF Iterates

-----------------------------------------------------------------------------
(* The walk of for_each_sfile                                              *)

\* How many sfiles there can be.
N == Cardinality(Sfiles)

\* There are finitely many sfiles.
LEMMA NumberOfSfiles == N \in Nat
BY SfileAssumption, FS_CardinalityType DEF N, Sfiles

\* A list has no more entries than there are sfiles.
LEMMA ListFits ==
  ASSUME NEW l, NEW q, NEW k \in Nat, IsList(l, q, k)
  PROVE  k =< N
<1> DEFINE f == [i \in 1..k |-> q[i]]
<1>1. IsFiniteSet(1..k) /\ Cardinality(1..k) = k
  BY FS_Interval
<1>2. f \in Injection(1..k, Sfiles)
  BY DEF Injection, IsInjective, IsList
<1>3. IsFiniteSet(Sfiles)
  BY SfileAssumption DEF Sfiles
<1> HIDE DEF f
<1>4. Cardinality(1..k) =< Cardinality(Sfiles)
  BY <1>2, <1>3, FS_Injection
<1> QED BY <1>1, <1>4 DEF N

\* The walk from the head meets the entries in their order, then the head.
LEMMA WalkIs ==
  ASSUME NEW l, NEW q, NEW k \in Nat, IsList(l, q, k)
  PROVE  \A n \in 0..N : Walk(l)[n] = IF n < k THEN q[n + 1] ELSE lru_list
<1> DEFINE w == [n \in 0..N |-> IF n < k THEN q[n + 1] ELSE lru_list]
           Eqs(at) == at = [n \in 0..N |->
                         IF n = 0 THEN l.next[lru_list]
                         ELSE IF at[n - 1] = lru_list THEN lru_list ELSE l.next[at[n - 1]]]
<1>0. N \in Nat
  BY NumberOfSfiles
<1>1. ASSUME NEW n \in 0..N
      PROVE  w[n] = IF n = 0 THEN l.next[lru_list]
                    ELSE IF w[n - 1] = lru_list THEN lru_list ELSE l.next[w[n - 1]]
  <2>1. CASE n = 0
    BY <2>1, <1>0 DEF IsList
  <2>2. CASE n # 0 /\ n - 1 < k
    <3>1. n - 1 \in 0..N /\ n \in 1..k /\ (n - 1) + 1 = n
      BY <2>2, <1>0
    <3>2. w[n - 1] = q[n] /\ q[n] # lru_list
      BY <3>1, <2>2, Distinct DEF IsList
    <3>3. l.next[q[n]] = q[n + 1]
      BY <3>1 DEF IsList
    <3>4. w[n] = q[n + 1]
      BY <3>1 DEF IsList
    <3> QED BY <2>2, <3>2, <3>3, <3>4
  <2>3. CASE n # 0 /\ ~(n - 1 < k)
    <3>1. n - 1 \in 0..N /\ ~(n < k)
      BY <2>3, <1>0
    <3> QED BY <3>1, <2>3
  <2> QED BY <2>1, <2>2, <2>3
<1>2. Eqs(w)
  <2>1. w = [n \in 0..N |-> w[n]]
    OBVIOUS
  <2> HIDE DEF w
  <2> QED BY <1>1, <2>1
<1>3. Eqs(Walk(l))
  <2>1. Walk(l) = CHOOSE at : Eqs(at)
    BY DEF Walk, N
  <2> HIDE DEF Eqs, w
  <2> QED BY <1>2, <2>1
<1> DEFINE T == {n \in Nat : n \in 0..N => Walk(l)[n] = w[n]}
<1>4. \A n \in 0..N : Walk(l)[n] =
         IF n = 0 THEN l.next[lru_list]
         ELSE IF Walk(l)[n - 1] = lru_list THEN lru_list ELSE l.next[Walk(l)[n - 1]]
  BY <1>3
<1> HIDE DEF w, Eqs
<1>5. 0 \in T
  BY <1>0, <1>1, <1>4
<1>6. ASSUME NEW n \in Nat, n \in T PROVE n + 1 \in T
  <2>1. CASE n + 1 \in 0..N
    <3>1. n \in 0..N /\ (n + 1) - 1 = n /\ n + 1 # 0
      BY <2>1, <1>0
    <3>2. Walk(l)[n] = w[n]
      BY <3>1, <1>6
    <3> QED BY <2>1, <3>1, <3>2, <1>1, <1>4
  <2> QED BY <2>1
<1>7. Nat \subseteq T
  <2> HIDE DEF T
  <2> QED BY <1>5, <1>6, NatSetInduction
<1>8. \A n \in 0..N : Walk(l)[n] = w[n]
  BY <1>0, <1>7
<1> QED BY <1>8 DEF w

\* What the walk finds on a list of S is S; it ends, what comes first is part of
\* it, and the links agree in both directions.
LEMMA WalkOfList ==
  ASSUME NEW l, NEW S, ListOf(l, S)
  PROVE  /\ S \subseteq Sfiles
         /\ OnList(l) = S
         /\ \A m \in Nat : First(l, m) \subseteq S
         /\ Walk(l)[N] = lru_list
         /\ \A x \in S \cup {lru_list} : l.prev[l.next[x]] = x
<1>0. PICK k \in Nat : \E q : IsList(l, q, k) /\ Entries(q, k) = S
  BY DEF ListOf
<1>1. PICK q : IsList(l, q, k) /\ Entries(q, k) = S
  BY <1>0
<1>2. k =< N /\ N \in Nat
  BY <1>1, ListFits, NumberOfSfiles
<1>3. \A n \in 0..N : Walk(l)[n] = IF n < k THEN q[n + 1] ELSE lru_list
  BY <1>1, WalkIs
<1>4. \A i \in 1..k : q[i] \in Sfiles /\ q[i] # lru_list
  BY <1>1, Distinct DEF IsList
<1>5. S \subseteq Sfiles
  BY <1>1, <1>4 DEF Entries
<1>6. \A m \in Nat : First(l, m) \subseteq S
  <2> SUFFICES ASSUME NEW m \in Nat, NEW n \in 0..N, n < m, Walk(l)[n] # lru_list
               PROVE  Walk(l)[n] \in S
    BY DEF First, N
  <2>1. n + 1 \in 1..k /\ Walk(l)[n] = q[n + 1]
    BY <1>2, <1>3
  <2> QED BY <1>1, <2>1 DEF Entries
<1>7. S \subseteq OnList(l)
  <2> SUFFICES ASSUME NEW i \in 1..k PROVE q[i] \in OnList(l)
    BY <1>1 DEF Entries
  <2>1. i - 1 \in {m \in 0..N : m < N + 1} /\ Walk(l)[i - 1] = q[i]
    BY <1>2, <1>3
  <2> QED BY <2>1, <1>4 DEF OnList, First, N
<1>8. OnList(l) \subseteq S
  <2>1. N + 1 \in Nat
    BY <1>2
  <2> QED BY <1>6, <2>1 DEF OnList, N
<1>9. Walk(l)[N] = lru_list
  BY <1>2, <1>3
<1>10. ASSUME NEW x \in S \cup {lru_list} PROVE l.prev[l.next[x]] = x
  <2>1. PICK i \in 0..k : x = q[i]
    BY <1>1 DEF Entries, IsList
  <2> QED BY <1>1, <2>1 DEF IsList
<1> QED BY <1>5, <1>6, <1>7, <1>8, <1>9, <1>10

-----------------------------------------------------------------------------
(* Freeing what the walk finds                                             *)

\* What list_for_each_safe does at its nth entry.
DelOf(l, gone) ==
  [n \in Nat |-> [a \in AllLinks |->
     IF Walk(l)[n - 1] \in gone THEN list_del(a, Walk(l)[n - 1]) ELSE a]]

\* The links after each step of that loop.
Deletes(g, l, gone) ==
  /\ g \in [0..N -> AllLinks]
  /\ g[0] = l
  /\ \A n \in 1..N : g[n] = IF Walk(l)[n - 1] \in gone
                            THEN list_del(g[n - 1], Walk(l)[n - 1]) ELSE g[n - 1]

\* DelEach is the result of such a loop.
LEMMA DelEachIs ==
  ASSUME NEW l \in AllLinks, NEW gone \in SUBSET Sfiles
  PROVE  \E g : Deletes(g, l, gone) /\ DelEach(l, gone) = g[N]
<1>0. N \in Nat
  BY NumberOfSfiles
<1> DEFINE w == Walk(l)
           Eqs(a) == a = [n \in 0..N |->
                       IF n = 0 THEN l
                       ELSE IF w[n - 1] \in gone THEN list_del(a[n - 1], w[n - 1])
                       ELSE a[n - 1]]
           F == DelOf(l, gone)
<1>1. F \in [Nat -> [AllLinks -> AllLinks]]
  <2> SUFFICES ASSUME NEW n \in Nat, NEW a \in AllLinks
               PROVE  (IF Walk(l)[n - 1] \in gone THEN list_del(a, Walk(l)[n - 1]) ELSE a) \in AllLinks
    BY DEF DelOf
  <2> QED BY ListTypes
<1>a. PICK g : Iterates(g, AllLinks, l, F, N)
  <2> HIDE DEF F, w, Eqs
  <2> QED BY <1>0, <1>1, RecursionExists
<1>2. /\ g \in [0..N -> AllLinks]
      /\ g[0] = l
      /\ \A m \in 1..N : g[m] = F[m][g[m - 1]]
  <2> HIDE DEF F
  <2> QED BY <1>a DEF Iterates
<1>3. ASSUME NEW m \in 1..N
      PROVE  g[m] = IF w[m - 1] \in gone THEN list_del(g[m - 1], w[m - 1]) ELSE g[m - 1]
  <2>1. m \in Nat /\ g[m - 1] \in AllLinks /\ g[m] = F[m][g[m - 1]]
    BY <1>0, <1>2
  <2> QED BY <2>1 DEF DelOf
<1>4. Eqs(g)
  <2> HIDE DEF w, F
  <2>1. g = [n \in 0..N |-> g[n]]
    BY <1>2
  <2>2. \A n \in 0..N : n = 0 \/ n \in 1..N
    BY <1>0
  <2> QED BY <1>2, <1>3, <2>1, <2>2
<1>5. PICK a : Eqs(a) /\ DelEach(l, gone) = a[N]
  <2>1. DelEach(l, gone) = (CHOOSE a : Eqs(a))[N]
    BY DEF DelEach, N
  <2> HIDE DEF Eqs
  <2>2. Eqs(CHOOSE a : Eqs(a))
    BY <1>4
  <2> QED BY <2>1, <2>2
<1> HIDE DEF w, F
<1>6. \A n \in 0..N : a[n] = IF n = 0 THEN l
                       ELSE IF w[n - 1] \in gone THEN list_del(a[n - 1], w[n - 1])
                       ELSE a[n - 1]
  BY <1>5
<1> HIDE DEF Eqs
<1> DEFINE T == {n \in Nat : n \in 0..N => a[n] = g[n]}
<1>7. 0 \in T
  BY <1>0, <1>2, <1>6
<1>8. ASSUME NEW n \in Nat, n \in T PROVE n + 1 \in T
  <2>1. CASE n + 1 \in 0..N
    <3>1. n \in 0..N /\ (n + 1) - 1 = n /\ n + 1 \in 1..N /\ n + 1 # 0
      BY <2>1, <1>0
    <3>2. a[n] = g[n]
      BY <3>1, <1>8
    <3>3. g[n + 1] = IF w[n] \in gone THEN list_del(g[n], w[n]) ELSE g[n]
      BY <3>1, <1>3
    <3> QED BY <3>1, <3>2, <3>3, <1>6
  <2> QED BY <2>1
<1>9. Nat \subseteq T
  <2> HIDE DEF T
  <2> QED BY <1>7, <1>8, NatSetInduction
<1>10. DelEach(l, gone) = g[N]
  BY <1>0, <1>5, <1>9
<1> USE DEF w
<1> QED BY <1>2, <1>3, <1>10 DEF Deletes

\* Deleting entries while walking leaves a list of the others: the walk of
\* list_for_each_safe is not disturbed by its own deletions.
LEMMA DelEachKeeps ==
  ASSUME NEW l \in AllLinks, NEW S, ListOf(l, S), NEW gone \in SUBSET S
  PROVE  /\ DelEach(l, gone) \in AllLinks
         /\ ListOf(DelEach(l, gone), S \ gone)
<1>0. PICK k \in Nat : \E q : IsList(l, q, k) /\ Entries(q, k) = S
  BY DEF ListOf
<1>1. PICK q : IsList(l, q, k) /\ Entries(q, k) = S
  BY <1>0
<1>2. k =< N /\ N \in Nat
  BY <1>1, ListFits, NumberOfSfiles
<1>3. \A n \in 0..N : Walk(l)[n] = IF n < k THEN q[n + 1] ELSE lru_list
  BY <1>1, WalkIs
<1>4. gone \in SUBSET Sfiles /\ lru_list \notin gone
  BY WalkOfList, Distinct
<1>a. PICK g : Deletes(g, l, gone) /\ DelEach(l, gone) = g[N]
  BY <1>4, DelEachIs
<1>5. /\ g \in [0..N -> AllLinks]
      /\ g[0] = l
      /\ \A n \in 1..N : g[n] = IF Walk(l)[n - 1] \in gone
                                THEN list_del(g[n - 1], Walk(l)[n - 1]) ELSE g[n - 1]
      /\ DelEach(l, gone) = g[N]
  BY <1>a DEF Deletes
<1> DEFINE Left(n) == S \ {e \in gone : \E i \in 1..k : i =< n /\ e = q[i]}
           T == {n \in Nat : n \in 0..N => ListOf(g[n], Left(n))}
<1>6. 0 \in T
  <2>1. Left(0) = S
    OBVIOUS
  <2> HIDE DEF Left
  <2> QED BY <1>5, <2>1
<1>7. ASSUME NEW n \in Nat, n \in T PROVE n + 1 \in T
  <2>1. CASE n + 1 \in 0..N /\ Walk(l)[n] \in gone
    <3>1. n \in 0..N /\ (n + 1) - 1 = n /\ n + 1 \in 1..N
      BY <2>1, <1>2
    <3>2. n + 1 \in 1..k /\ Walk(l)[n] = q[n + 1]
      BY <2>1, <3>1, <1>3, <1>4
    <3>3. g[n + 1] = list_del(g[n], q[n + 1])
      BY <2>1, <3>1, <3>2, <1>5
    <3>4. q[n + 1] \in Left(n)
      BY <2>1, <3>2, <1>1 DEF IsList
    <3>5. Left(n + 1) = Left(n) \ {q[n + 1]}
      <4>1. \A i \in 1..k : i =< n + 1 <=> (i =< n \/ i = n + 1)
        OBVIOUS
      <4>2. q[n + 1] \in gone
        BY <2>1, <3>2
      <4> QED BY <4>1, <4>2, <3>2
    <3>6. ListOf(g[n], Left(n)) /\ g[n] \in AllLinks
      BY <3>1, <1>5, <1>7
    <3> HIDE DEF Left
    <3>7. ListOf(list_del(g[n], q[n + 1]), Left(n) \ {q[n + 1]})
      BY <3>4, <3>6, DelKeeps
    <3> QED BY <3>3, <3>5, <3>7
  <2>2. CASE n + 1 \in 0..N /\ Walk(l)[n] \notin gone
    <3>1. n \in 0..N /\ (n + 1) - 1 = n /\ n + 1 \in 1..N
      BY <2>2, <1>2
    <3>2. g[n + 1] = g[n]
      BY <2>2, <3>1, <1>5
    <3>3. \A i \in 1..k : i =< n + 1 <=> (i =< n \/ i = n + 1)
      OBVIOUS
    <3>4. n + 1 \in 1..k => q[n + 1] \notin gone
      BY <2>2, <3>1, <1>3
    <3>5. Left(n + 1) = Left(n)
      BY <3>3, <3>4
    <3> HIDE DEF Left
    <3> QED BY <3>1, <3>2, <3>5, <1>7
  <2> HIDE DEF Left
  <2> QED BY <2>1, <2>2
<1>8. Nat \subseteq T
  <2> HIDE DEF T
  <2> QED BY <1>6, <1>7, NatSetInduction
<1>9. Left(N) = S \ gone
  <2>1. \A i \in 1..k : i =< N
    BY <1>2
  <2>2. \A e \in gone : \E i \in 1..k : e = q[i]
    BY <1>1 DEF Entries
  <2> QED BY <2>1, <2>2
<1> HIDE DEF Left
<1>10. N \in 0..N /\ ListOf(g[N], Left(N))
  BY <1>2, <1>8
<1> QED BY <1>5, <1>9, <1>10

\* The links of freed sfiles are no part of the list.
LEMMA UnlinkedKeeps ==
  ASSUME NEW l \in AllLinks, NEW S, ListOf(l, S), NEW gone \in SUBSET Sfiles, gone \cap S = {}
  PROVE  ListOf(Unlinked(l, gone), S)
<1>0. PICK k \in Nat : \E q : IsList(l, q, k) /\ Entries(q, k) = S
  BY DEF ListOf
<1>1. PICK q : IsList(l, q, k) /\ Entries(q, k) = S
  BY <1>0
<1>2. \A i \in 0..k + 1 : q[i] \in Links /\ q[i] \notin gone
  BY <1>1, Distinct DEF IsList, Entries
<1>3. \A x \in Links \ gone : Unlinked(l, gone).next[x] = l.next[x] /\ Unlinked(l, gone).prev[x] = l.prev[x]
  BY DEF Unlinked
<1>4. IsList(Unlinked(l, gone), q, k)
  <2>1. \A i \in 0..k : i \in 0..k + 1 /\ i + 1 \in 0..k + 1
    OBVIOUS
  <2>2. \A i \in 0..k : /\ Unlinked(l, gone).next[q[i]] = q[i + 1]
                        /\ Unlinked(l, gone).prev[q[i + 1]] = q[i]
    BY <1>1, <1>2, <1>3, <2>1 DEF IsList
  <2> QED BY <1>1, <2>2 DEF IsList
<1> QED BY <1>1, <1>4 DEF ListOf

-----------------------------------------------------------------------------
(* The inductive invariant                                                 *)

\* What LruComplete, InUseLive and AbortJustified rest on: the links are a list
\* of what is not in use (stronger than what a walk can see of it), and a file
\* being opened belongs to the current sfile.
SfileInv ==
  /\ TypeOK
  /\ pc # "broken" => ListOf(links, live \ InUse)
  /\ InUseLive
  /\ pc = "opening" => /\ file \in Handles
                       /\ file[1] = current
                       /\ file[2] \in cg[current] \cup {NoTo}
  /\ AbortJustified

\* Links that lead to themselves are an empty list.
LEMMA EmptyList == Init => links \in AllLinks /\ ListOf(links, {})
<1> HAVE Init
<1> DEFINE q == [i \in 0..1 |-> lru_list]
<1>1. links \in AllLinks /\ lru_list \in Links
  BY DEF Init, AllLinks, Links
<1>2. IsList(links, q, 0)
  BY <1>1 DEF Init, IsList
<1>3. Entries(q, 0) = {}
  BY DEF Entries
<1> HIDE DEF q
<1> QED BY <1>1, <1>2, <1>3 DEF ListOf

\* The daemon starts with the invariant.
LEMMA SfileInit == Init => SfileInv
<1> HAVE Init
<1>1. links \in AllLinks /\ ListOf(links, {})
  BY EmptyList
<1>2. live \ InUse = {}
  BY DEF Init, InUse
<1> QED
  BY <1>1, <1>2 DEF Init, SfileInv, TypeOK, InUseLive, HandlesOwned, AbortJustified, AllLinks

\* sfile_get takes an sfile off the list; NULL is none.
LEMMA GetKeeps ==
  ASSUME NEW l \in AllLinks, NEW S, ListOf(l, S), NEW x \in S \cup {NULL}
  PROVE  sfile_get(l, x) \in AllLinks /\ ListOf(sfile_get(l, x), S \ {x})
<1>1. S \subseteq Sfiles
  BY WalkOfList
<1>2. CASE x = NULL
  <2>1. S \ {x} = S
    BY <1>1, <1>2, Distinct DEF Links
  <2> QED BY <1>2, <2>1 DEF sfile_get
<1>3. CASE x # NULL
  BY <1>1, <1>3, DelKeeps, ListTypes DEF sfile_get
<1> QED BY <1>2, <1>3

\* sfile_put puts one that is off the list at its end.
LEMMA PutKeeps ==
  ASSUME NEW l \in AllLinks, NEW S, ListOf(l, S), NEW x \in (Sfiles \ S) \cup {NULL}
  PROVE  /\ sfile_put(l, x) \in AllLinks
         /\ ListOf(sfile_put(l, x), S \cup ({x} \ {NULL}))
<1>1. CASE x = NULL
  <2>1. S \cup ({x} \ {NULL}) = S
    BY <1>1
  <2> QED BY <1>1, <2>1 DEF sfile_put
<1>2. CASE x # NULL
  <2>1. S \cup ({x} \ {NULL}) = S \cup {x}
    BY <1>2
  <2> QED BY <1>2, <2>1, AddKeeps, ListTypes DEF sfile_put
<1> QED BY <1>1, <1>2

\* sfile_put of any sfile, on the list or not, stores links.
LEMMA PutTypes ==
  ASSUME NEW l \in AllLinks, NEW x \in Sfiles \cup {NULL}
  PROVE  sfile_put(l, x) \in AllLinks
BY ListTypes DEF sfile_put

\* opd_open_sample_file takes both sfiles in use off the list, and puts back
\* exactly those, also when they are the same or one is NULL.
LEMMA BothKeep ==
  ASSUME TypeOK, {current, last} \subseteq live \cup {NULL}, NEW l \in AllLinks
  PROVE  /\ ListOf(l, live) => /\ GetBoth(l) \in AllLinks
                               /\ ListOf(GetBoth(l), live \ {current, last})
         /\ PutBoth(l) \in AllLinks
         /\ ListOf(l, live \ {current, last}) => ListOf(PutBoth(l), live)
<1>0. live \subseteq Sfiles /\ NULL \notin live /\ NULL \notin Sfiles
  BY Distinct DEF TypeOK, Links
<1>1. ASSUME ListOf(l, live)
      PROVE  GetBoth(l) \in AllLinks /\ ListOf(GetBoth(l), live \ {current, last})
  <2> DEFINE m == sfile_get(l, current)
  <2>1. m \in AllLinks /\ ListOf(m, live \ {current})
    BY <1>1, GetKeeps
  <2>2. CASE current = last
    <3>1. live \ {current, last} = live \ {current}
      BY <2>2
    <3> HIDE DEF m
    <3> QED BY <2>1, <2>2, <3>1 DEF GetBoth, m
  <2>3. CASE current # last
    <3>1. last \in (live \ {current}) \cup {NULL}
      BY <2>3
    <3>2. (live \ {current}) \ {last} = live \ {current, last}
      OBVIOUS
    <3>3. sfile_get(m, last) \in AllLinks /\ ListOf(sfile_get(m, last), (live \ {current}) \ {last})
      <4> HIDE DEF m
      <4> QED BY <2>1, <3>1, GetKeeps
    <3> QED BY <2>3, <3>2, <3>3 DEF GetBoth
  <2> QED BY <2>2, <2>3
<1>2. PutBoth(l) \in AllLinks
  BY <1>0, PutTypes DEF PutBoth
<1>3. ASSUME ListOf(l, live \ {current, last})
      PROVE  ListOf(PutBoth(l), live)
  <2> DEFINE m == sfile_put(l, current)
             S == (live \ {current, last}) \cup ({current} \ {NULL})
  <2>1. m \in AllLinks /\ ListOf(m, S)
    <3>1. current \in (Sfiles \ (live \ {current, last})) \cup {NULL}
      BY <1>0
    <3> QED BY <1>3, <3>1, PutKeeps
  <2>2. CASE current = last
    <3>1. S = live
      BY <1>0, <2>2
    <3> HIDE DEF m, S
    <3> QED BY <2>1, <2>2, <3>1 DEF PutBoth, m
  <2>3. CASE current # last
    <3>1. last \in (Sfiles \ S) \cup {NULL}
      BY <1>0, <2>3
    <3>2. S \cup ({last} \ {NULL}) = live
      BY <1>0, <2>3
    <3>3. ListOf(sfile_put(m, last), S \cup ({last} \ {NULL}))
      <4> HIDE DEF m, S
      <4> QED BY <2>1, <3>1, PutKeeps
    <3> QED BY <2>3, <3>2, <3>3 DEF PutBoth
  <2> QED BY <2>2, <2>3
<1> QED BY <1>1, <1>2, <1>3

\* for_one_sfile over visited sfiles, none in use: the list is that of the sfiles
\* left, and every file still open has its owner.
LEMMA FreeKeeps ==
  ASSUME SfileInv, pc # "broken",
         NEW visited \in SUBSET (live \ InUse), NEW selected,
         FreeSelected(links, visited, selected)
  PROVE  /\ live' = live \ (visited \cap selected)
         /\ links' \in AllLinks
         /\ ListOf(links', live' \ InUse)
         /\ cg' \in [Sfiles -> SUBSET Sfiles]
         /\ \A s \in Sfiles \ visited : cg'[s] = cg[s]
         /\ open' \subseteq open
         /\ HandlesOwned'
<1> DEFINE gone == visited \cap selected
           S == live \ InUse
           m == DelEach(links, gone)
<1>1. links \in AllLinks /\ ListOf(links, S) /\ live \subseteq Sfiles
  BY DEF SfileInv, TypeOK, AllLinks
<1>2. gone \in SUBSET S /\ gone \in SUBSET Sfiles /\ gone \cap (S \ gone) = {}
  BY <1>1
<1>3. live' = live \ gone /\ links' = Unlinked(m, gone)
  BY DEF FreeSelected
<1>4. m \in AllLinks /\ ListOf(m, S \ gone)
  <2> HIDE DEF S, gone
  <2> QED BY <1>1, <1>2, DelEachKeeps
<1>5. links' \in AllLinks /\ ListOf(links', S \ gone)
  <2>1. Unlinked(m, gone) \in AllLinks
    <3> HIDE DEF m, gone
    <3> QED BY <1>4 DEF AllLinks, Unlinked, Links
  <2>2. ListOf(Unlinked(m, gone), S \ gone)
    <3> HIDE DEF S, gone, m
    <3> QED BY <1>2, <1>4, UnlinkedKeeps
  <2> QED BY <1>3, <2>1, <2>2
<1>6. live' \ InUse = S \ gone
  BY <1>3
<1>7. /\ cg' \in [Sfiles -> SUBSET Sfiles]
      /\ \A s \in Sfiles \ visited : cg'[s] = cg[s]
      /\ \A s \in visited \ gone : cg'[s] = cg[s] \ selected
  BY <1>1 DEF FreeSelected, SfileInv, TypeOK
<1>8. open' = {h \in open : h[1] \notin gone /\ ~(h[1] \in visited /\ h[2] \in selected)}
  BY DEF FreeSelected
<1>9. HandlesOwned'
  <2> SUFFICES ASSUME NEW h \in open'
               PROVE  h[1] \in live' /\ h[2] \in cg'[h[1]] \cup {NoTo}
    BY DEF HandlesOwned
  <2>1. h[1] \in live /\ h[2] \in cg[h[1]] \cup {NoTo} /\ h[1] \notin gone
        /\ ~(h[1] \in visited /\ h[2] \in selected)
    BY <1>8 DEF SfileInv, InUseLive, HandlesOwned
  <2> QED BY <1>1, <1>3, <1>7, <2>1
<1> QED BY <1>3, <1>5, <1>6, <1>7, <1>8, <1>9

-----------------------------------------------------------------------------
(* The steps                                                               *)

\* sfile_find keeps the invariant.
LEMMA FindStep ==
  ASSUME SfileInv, NEW sf \in Sfiles, sfile_find(sf)
  PROVE  SfileInv'
<1>1. /\ links \in AllLinks /\ live \subseteq Sfiles /\ ListOf(links, live)
      /\ NULL \notin Sfiles /\ InUse' = {}
  <2>1. live \ InUse = live
    BY DEF sfile_find, InUse
  <2> QED BY <2>1, Distinct DEF SfileInv, TypeOK, AllLinks, sfile_find, InUse, Links
<1>2. links' \in AllLinks /\ ListOf(links', live')
  <2>1. CASE sf \in live
    <3> DEFINE m == sfile_get(links, sf)
    <3>1. m \in AllLinks /\ ListOf(m, live \ {sf})
      BY <1>1, <2>1, GetKeeps
    <3>2. (live \ {sf}) \cup ({sf} \ {NULL}) = live' /\ sf \in (Sfiles \ (live \ {sf})) \cup {NULL}
      BY <1>1, <2>1 DEF sfile_find
    <3>3. links' = sfile_put(m, sf)
      BY <2>1 DEF sfile_find
    <3> HIDE DEF m
    <3> QED BY <3>1, <3>2, <3>3, PutKeeps
  <2>2. CASE sf \notin live
    <3>1. links' = sfile_put(links, sf)
      BY <2>2 DEF sfile_find
    <3>2. live \cup ({sf} \ {NULL}) = live' /\ sf \in (Sfiles \ live) \cup {NULL}
      BY <1>1, <2>2 DEF sfile_find
    <3> QED BY <1>1, <3>1, <3>2, PutKeeps
  <2> QED BY <2>1, <2>2
<1>3. live' \ InUse' = live'
  BY <1>1
<1>4. TypeOK'
  BY <1>1, <1>2 DEF SfileInv, TypeOK, AllLinks, sfile_find
<1>5. InUseLive'
  BY DEF SfileInv, InUseLive, HandlesOwned, sfile_find
<1> QED BY <1>2, <1>3, <1>4, <1>5 DEF SfileInv, AbortJustified, sfile_find

\* So does the end of a sample, once nothing is off the list.
LEMMA LogStep ==
  ASSUME SfileInv, pc = "idle" \/ pc = "opening", links' \in AllLinks, ListOf(links', live),
         cg' \in [Sfiles -> SUBSET Sfiles], \A s \in Sfiles : cg[s] \subseteq cg'[s],
         open' \subseteq Handles,
         \A h \in open' : h[1] \in live /\ h[2] \in cg'[h[1]] \cup {NoTo},
         Logged
  PROVE  SfileInv'
<1>1. InUse' = {} /\ live' \ InUse' = live
  BY DEF Logged, InUse
<1>2. TypeOK'
  BY DEF SfileInv, TypeOK, AllLinks, Logged
<1>3. InUseLive'
  BY DEF SfileInv, InUseLive, HandlesOwned, Logged
<1> QED BY <1>1, <1>2, <1>3 DEF SfileInv, AbortJustified, Logged

\* get_file: the entry for arcs is there, and the handle belongs to it.
LEMMA EntryKept ==
  ASSUME SfileInv, NEW is_cg \in BOOLEAN, Logs(is_cg), GetEntry(is_cg)
  PROVE  /\ cg' \in [Sfiles -> SUBSET Sfiles]
         /\ \A s \in Sfiles : cg[s] \subseteq cg'[s]
         /\ FileOf(is_cg) \in Handles
         /\ FileOf(is_cg)[1] = current
         /\ FileOf(is_cg)[2] \in cg'[current] \cup {NoTo}
<1>1. current \in Sfiles /\ cg \in [Sfiles -> SUBSET Sfiles] /\ (is_cg => last \in Sfiles)
  BY DEF SfileInv, TypeOK, Logs
<1>2. CASE is_cg
  <2>1. cg' = [cg EXCEPT ![current] = @ \cup {last}]
    BY <1>2 DEF GetEntry
  <2> QED BY <1>1, <1>2, <2>1 DEF FileOf, Handles
<1>3. CASE ~is_cg
  BY <1>1, <1>3 DEF GetEntry, FileOf, Handles
<1> QED BY <1>2, <1>3

\* Logging a sample, up to the opening of a file, keeps the invariant.
LEMMA SampleStep ==
  ASSUME SfileInv, NEW is_cg \in BOOLEAN,
         GetOpenFile(is_cg) \/ BeginOpen(is_cg) \/ MangleFails(is_cg) \/ PathFails(is_cg)
           \/ SampleIgnored
  PROVE  SfileInv'
<1>0. pc = "idle"
  BY DEF GetOpenFile, BeginOpen, MangleFails, PathFails, Logs, SampleIgnored
<1>1. /\ links \in AllLinks /\ live \subseteq Sfiles /\ ListOf(links, live)
      /\ cg \in [Sfiles -> SUBSET Sfiles] /\ open \subseteq Handles
      /\ {current, last} \subseteq live \cup {NULL} /\ TypeOK
      /\ \A h \in open : h[1] \in live /\ h[2] \in cg[h[1]] \cup {NoTo}
  <2>1. live \ InUse = live
    BY <1>0 DEF InUse
  <2> QED BY <1>0, <2>1 DEF SfileInv, TypeOK, AllLinks, InUseLive, HandlesOwned
<1>2. CASE GetOpenFile(is_cg) \/ SampleIgnored
  BY <1>0, <1>1, <1>2, LogStep DEF GetOpenFile, SampleIgnored
<1>3. CASE MangleFails(is_cg)
  <2>1. cg' \in [Sfiles -> SUBSET Sfiles] /\ \A s \in Sfiles : cg[s] \subseteq cg'[s]
    BY <1>3, EntryKept DEF MangleFails
  <2>2. links' = links /\ open' = open /\ Logged
    BY <1>3 DEF MangleFails
  <2> QED BY <1>0, <1>1, <2>1, <2>2, LogStep
<1>4. CASE PathFails(is_cg)
  <2>1. cg' \in [Sfiles -> SUBSET Sfiles] /\ \A s \in Sfiles : cg[s] \subseteq cg'[s]
    BY <1>4, EntryKept DEF PathFails
  <2>2. links' \in AllLinks
    BY <1>1, <1>4, BothKeep DEF PathFails
  <2>3. /\ live' = live /\ open' = open /\ current' = current /\ last' = current
        /\ pc' = "broken" /\ file' = NoFile
    BY <1>4 DEF PathFails
  <2>4. TypeOK'
    BY <1>1, <2>1, <2>2, <2>3 DEF TypeOK, AllLinks
  <2>5. InUseLive'
    BY <1>1, <2>1, <2>3 DEF InUseLive, HandlesOwned
  <2> QED BY <2>3, <2>4, <2>5 DEF SfileInv, AbortJustified
<1>5. CASE BeginOpen(is_cg)
  <2>1. /\ cg' \in [Sfiles -> SUBSET Sfiles] /\ \A s \in Sfiles : cg[s] \subseteq cg'[s]
        /\ FileOf(is_cg) \in Handles
        /\ FileOf(is_cg)[1] = current
        /\ FileOf(is_cg)[2] \in cg'[current] \cup {NoTo}
    BY <1>5, EntryKept DEF BeginOpen
  <2>2. links' \in AllLinks /\ ListOf(links', live \ {current, last})
    BY <1>1, <1>5, BothKeep DEF BeginOpen
  <2>3. /\ live' = live /\ open' = open /\ current' = current /\ last' = last
        /\ pc' = "opening" /\ file' = FileOf(is_cg)
    BY <1>5 DEF BeginOpen
  <2>4. TypeOK'
    BY <1>1, <2>1, <2>2, <2>3 DEF TypeOK, AllLinks
  <2>5. InUseLive'
    BY <1>1, <2>1, <2>3 DEF InUseLive, HandlesOwned
  <2>6. live' \ InUse' = live \ {current, last}
    BY <2>3 DEF InUse
  <2> QED BY <2>1, <2>2, <2>3, <2>4, <2>5, <2>6 DEF SfileInv, AbortJustified
<1> QED BY <1>2, <1>3, <1>4, <1>5

\* The retry loop of opd_open_sample_file keeps it.
LEMMA OpeningStep ==
  ASSUME SfileInv, Opening
  PROVE  SfileInv'
<1>0. pc = "opening"
  BY DEF Opening, OpenSucceeds, OpenFails, OpenEMFILE, OpenAborts
<1>1. /\ links \in AllLinks /\ live \subseteq Sfiles /\ ListOf(links, live \ {current, last})
      /\ live \ InUse = live \ {current, last}
      /\ cg \in [Sfiles -> SUBSET Sfiles] /\ open \subseteq Handles
      /\ {current, last} \subseteq live \cup {NULL} /\ TypeOK
      /\ \A h \in open : h[1] \in live /\ h[2] \in cg[h[1]] \cup {NoTo}
      /\ file \in Handles /\ file[1] = current /\ file[2] \in cg[current] \cup {NoTo}
  <2>1. live \ InUse = live \ {current, last}
    BY <1>0 DEF InUse
  <2> QED BY <1>0, <2>1 DEF SfileInv, TypeOK, AllLinks, InUseLive, HandlesOwned
<1>a. current \in live
  BY <1>1, Distinct DEF Handles, Links
<1>2. CASE OpenSucceeds \/ OpenFails
  <2>1. links' \in AllLinks /\ ListOf(links', live)
    BY <1>1, <1>2, BothKeep DEF OpenSucceeds, OpenFails
  <2>2. cg' = cg /\ Logged /\ open' \subseteq open \cup {file}
    BY <1>2 DEF OpenSucceeds, OpenFails
  <2> QED BY <1>0, <1>1, <1>a, <2>1, <2>2, LogStep
<1>3. CASE OpenEMFILE
  <2> DEFINE visited == First(links, LRU_AMOUNT - 1)
  <2>1. visited \in SUBSET (live \ InUse)
    <3>1. LRU_AMOUNT - 1 \in Nat
      BY SfileAssumption
    <3> QED BY <3>1, <1>1, WalkOfList
  <2>2. FreeSelected(links, visited, Sfiles) /\ UNCHANGED <<current, last, pc, file>>
    BY <1>3 DEF OpenEMFILE, sfile_lru_clear
  <2> HIDE DEF visited
  <2>3. /\ live' = live \ (visited \cap Sfiles)
        /\ links' \in AllLinks
        /\ ListOf(links', live' \ InUse)
        /\ cg' \in [Sfiles -> SUBSET Sfiles]
        /\ \A s \in Sfiles \ visited : cg'[s] = cg[s]
        /\ open' \subseteq open
        /\ HandlesOwned'
    BY <1>0, <2>1, <2>2, FreeKeeps
  <2>4. InUse' = InUse /\ current \notin visited /\ last \notin visited
    BY <1>1, <2>1, <2>2 DEF InUse
  <2>5. TypeOK'
    BY <1>1, <2>2, <2>3 DEF TypeOK, AllLinks
  <2>6. InUseLive'
    BY <1>1, <2>2, <2>3, <2>4 DEF InUseLive
  <2>7. cg'[current] = cg[current]
    BY <1>1, <1>a, <2>3, <2>4
  <2> QED BY <1>0, <1>1, <2>2, <2>3, <2>4, <2>5, <2>6, <2>7 DEF SfileInv, AbortJustified
<1>4. CASE OpenAborts
  <2>1. live \ {current, last} = {}
    BY <1>1, <1>4, WalkOfList DEF OpenAborts
  <2>2. UNCHANGED <<live, links, cg, open, current, last, file>> /\ pc' = "aborted"
    BY <1>4 DEF OpenAborts
  <2>3. AbortJustified'
    BY <1>1, <2>1, <2>2 DEF AbortJustified
  <2>4. InUse' = InUse
    BY <1>0, <2>2 DEF InUse
  <2>5. TypeOK'
    BY <1>1, <2>2 DEF TypeOK
  <2>6. InUseLive'
    BY <1>1, <2>2 DEF InUseLive, HandlesOwned
  <2> QED BY <1>1, <2>2, <2>3, <2>4, <2>5, <2>6 DEF SfileInv
<1> QED BY <1>2, <1>3, <1>4 DEF Opening

\* So do the calls that free sfiles between two samples.
LEMMA ClearStep ==
  ASSUME SfileInv,
         \/ CompleteDumpEMFILE \/ sfile_clear_kernel
         \/ \E sf \in OtherSfiles : sfile_clear_anon(sf)
  PROVE  SfileInv'
<1>0. pc = "idle" /\ pc' = "idle" /\ file' = file
  BY DEF CompleteDumpEMFILE, sfile_clear_kernel, sfile_clear_anon
<1>1. /\ links \in AllLinks /\ live \subseteq Sfiles /\ ListOf(links, live)
      /\ live \ InUse = live /\ InUse = {} /\ InUse' = {} /\ TypeOK
      /\ {current, last} \subseteq live \cup {NULL}
  <2>1. live \ InUse = live
    BY <1>0 DEF InUse
  <2> QED BY <1>0, <2>1 DEF SfileInv, TypeOK, AllLinks, InUseLive, InUse
<1>2. ASSUME NEW visited \in SUBSET live, NEW selected,
             FreeSelected(links, visited, selected),
             {current', last'} \subseteq (live \ selected) \cup {NULL}
      PROVE  SfileInv'
  <2>1. /\ live' = live \ (visited \cap selected)
        /\ links' \in AllLinks
        /\ ListOf(links', live' \ InUse)
        /\ cg' \in [Sfiles -> SUBSET Sfiles]
        /\ open' \subseteq open
        /\ HandlesOwned'
    BY <1>0, <1>1, <1>2, FreeKeeps
  <2>2. TypeOK'
    BY <1>0, <1>1, <1>2, <2>1 DEF TypeOK, AllLinks
  <2>3. InUseLive'
    BY <1>2, <2>1 DEF InUseLive
  <2>4. live' \ InUse' = live' \ InUse
    BY <1>1
  <2> QED BY <1>0, <2>1, <2>2, <2>3, <2>4 DEF SfileInv, AbortJustified
<1>3. /\ OnList(links) \in SUBSET live
      /\ First(links, LRU_AMOUNT - 1) \in SUBSET live
  <2>1. LRU_AMOUNT - 1 \in Nat
    BY SfileAssumption
  <2> QED BY <1>1, <2>1, WalkOfList
<1>4. CASE CompleteDumpEMFILE
  <2>1. FreeSelected(links, First(links, LRU_AMOUNT - 1), Sfiles) /\ current' = NULL /\ last' = NULL
    BY <1>4 DEF CompleteDumpEMFILE, sfile_lru_clear
  <2> QED BY <1>2, <1>3, <2>1
<1>5. CASE sfile_clear_kernel
  <2>1. FreeSelected(links, OnList(links), KernelSfiles) /\ current' = NULL /\ last' = NULL
    BY <1>5 DEF sfile_clear_kernel
  <2> QED BY <1>2, <1>3, <2>1
<1>6. ASSUME NEW sf \in OtherSfiles, sfile_clear_anon(sf) PROVE SfileInv'
  <2>1. /\ FreeSelected(links, OnList(links), {sf})
        /\ current' = (IF current = sf THEN NULL ELSE current)
        /\ last' = (IF last = sf THEN NULL ELSE last)
    BY <1>6 DEF sfile_clear_anon
  <2>2. {current', last'} \subseteq (live \ {sf}) \cup {NULL}
    BY <1>1, <2>1
  <2> QED BY <1>2, <1>3, <2>1, <2>2
<1> QED BY <1>4, <1>5, <1>6

\* And what only closes files or clears the transient.
LEMMA OtherStep ==
  ASSUME SfileInv, sfile_close_files \/ ClearCurrent \/ ClearBoth \/ UNCHANGED vars
  PROVE  SfileInv'
<1>1. /\ UNCHANGED <<live, links, cg, pc, file>> /\ open' \subseteq open
      /\ current' \in {current, NULL} /\ last' \in {last, NULL}
      /\ pc # "idle" => UNCHANGED <<current, last>>
  BY DEF sfile_close_files, ClearCurrent, ClearBoth, vars
<1>2. TypeOK'
  BY <1>1 DEF SfileInv, TypeOK
<1>3. InUseLive'
  BY <1>1 DEF SfileInv, InUseLive, HandlesOwned
<1>4. InUse' = InUse
  BY <1>1 DEF InUse
<1>5. AbortJustified'
  BY <1>1 DEF SfileInv, AbortJustified
<1> QED BY <1>1, <1>2, <1>3, <1>4, <1>5 DEF SfileInv

-----------------------------------------------------------------------------
\* The invariant holds in every state of the daemon.
THEOREM SfileInvariant == Spec => []SfileInv
<1>1. Init => SfileInv
  BY SfileInit
<1>2. SfileInv /\ [Next]_vars => SfileInv'
  <2> SUFFICES ASSUME SfileInv, [Next]_vars PROVE SfileInv'
    OBVIOUS
  <2>1. ASSUME NEW sf \in Sfiles, sfile_find(sf) PROVE SfileInv'
    BY <2>1, FindStep
  <2>2. ASSUME NEW is_cg \in BOOLEAN,
               GetOpenFile(is_cg) \/ BeginOpen(is_cg) \/ MangleFails(is_cg) \/ PathFails(is_cg)
                 \/ SampleIgnored
        PROVE  SfileInv'
    BY <2>2, SampleStep
  <2>3. CASE Opening
    BY <2>3, OpeningStep
  <2>4. CASE CompleteDumpEMFILE \/ sfile_clear_kernel \/ \E sf \in OtherSfiles : sfile_clear_anon(sf)
    BY <2>4, ClearStep
  <2>5. CASE sfile_close_files \/ ClearCurrent \/ ClearBoth \/ UNCHANGED vars
    BY <2>5, OtherStep
  <2> QED BY <2>1, <2>2, <2>3, <2>4, <2>5 DEF Next
<1> QED BY <1>1, <1>2, PTL DEF Spec

\* LruComplete: every sfile that exists and is not in use is on the list, once,
\* and nothing else is; the walks end (the error path PathFails aside).
THEOREM ListComplete == Spec => []LruComplete
<1>1. SfileInv => LruComplete
  <2> SUFFICES ASSUME SfileInv PROVE LruComplete
    OBVIOUS
  <2>1. TypeOK
    BY DEF SfileInv
  <2>2. CASE pc = "broken"
    BY <2>1, <2>2 DEF LruComplete
  <2>3. CASE pc # "broken"
    <3>1. ListOf(links, live \ InUse)
      BY <2>3 DEF SfileInv
    <3>2. /\ OnList(links) = live \ InUse
          /\ Walk(links)[N] = lru_list
          /\ \A x \in (live \ InUse) \cup {lru_list} : links.prev[links.next[x]] = x
      BY <3>1, WalkOfList
    <3> QED BY <2>1, <3>2 DEF LruComplete, N
  <2> QED BY <2>2, <2>3
<1> QED BY <1>1, SfileInvariant, PTL

\* InUseLive: sfile_lru_clear and the clear functions never free an sfile the
\* transient refers to, and no sample file stays open without its owner.
THEOREM InUseNotFreed == Spec => []InUseLive
<1>1. SfileInv => InUseLive
  BY DEF SfileInv
<1> QED BY <1>1, SfileInvariant, PTL

\* AbortJustified: the daemon aborts for lack of files only when all that are
\* open belong to the sfiles in use.
THEOREM AbortsOnlyWhenFull == Spec => []AbortJustified
<1>1. SfileInv => AbortJustified
  BY DEF SfileInv
<1> QED BY <1>1, SfileInvariant, PTL
=============================================================================
