-------------------------- MODULE PerfStreamProofs --------------------------
(***************************************************************************)
(* Every record that the kernel stores reaches the converter, whole, once, *)
(* in order and with its event: for any number of threads, processors,     *)
(* events and records, any sizes of records, rings, pipe and window.       *)
(***************************************************************************)
EXTENDS PerfStream, FiniteSetTheorems, SequenceTheorems, WellFoundedInduction, TLAPS

-----------------------------------------------------------------------------
(* Sequences                                                               *)

\* A sequence, whatever it holds
IsRow(s) == s \in Seq({s[k] : k \in DOMAIN s})

LEMMA RowIs ==
  ASSUME NEW s, IsRow(s)
  PROVE  /\ Len(s) \in Nat /\ DOMAIN s = 1..Len(s) /\ s = [k \in 1..Len(s) |-> s[k]]
         /\ (s = <<>>) = (Len(s) = 0)
  BY DEF IsRow

LEMMA FunctionIsRow ==
  ASSUME NEW n \in Nat, NEW s, DOMAIN s = 1..n, s = [k \in 1..n |-> s[k]]
  PROVE  IsRow(s) /\ Len(s) = n
<1>1. s \in [1..n -> {s[k] : k \in DOMAIN s}]
  OBVIOUS
<1> QED BY SMTT(40), <1>1 DEF IsRow

LEMMA SeqIsRow == ASSUME NEW S, NEW s \in Seq(S) PROVE IsRow(s)
<1>1. Len(s) \in Nat /\ DOMAIN s = 1..Len(s) /\ s = [k \in 1..Len(s) |-> s[k]]
  OBVIOUS
<1> QED BY <1>1, FunctionIsRow

LEMMA EmptyIsRow == IsRow(<<>>) /\ Len(<<>>) = 0
<1>1. <<>> \in Seq({})
  OBVIOUS
<1> QED BY <1>1, SeqIsRow

LEMMA RowInSeq ==
  ASSUME NEW S, NEW s, IsRow(s), \A k \in 1..Len(s) : s[k] \in S
  PROVE  s \in Seq(S)
<1>1. Len(s) \in Nat /\ s \in [1..Len(s) -> S]
  BY RowIs
<1> QED BY <1>1

LEMMA RowEqual ==
  ASSUME NEW s, NEW t, IsRow(s), IsRow(t), Len(s) = Len(t), \A k \in 1..Len(s) : s[k] = t[k]
  PROVE  s = t
  BY RowIs

LEMMA JoinIs ==
  ASSUME NEW s, NEW t, IsRow(s), IsRow(t)
  PROVE  /\ IsRow(s \o t) /\ Len(s \o t) = Len(s) + Len(t)
         /\ \A k \in 1..Len(s) : (s \o t)[k] = s[k]
         /\ \A k \in 1..Len(t) : (s \o t)[Len(s) + k] = t[k]
         /\ \A k \in 1..Len(s) + Len(t) : (s \o t)[k] = IF k <= Len(s) THEN s[k] ELSE t[k - Len(s)]
<1> DEFINE S == {s[k] : k \in DOMAIN s} \cup {t[k] : k \in DOMAIN t}
           j == s \o t
<1>1. s \in Seq(S) /\ t \in Seq(S) /\ Len(s) \in Nat /\ Len(t) \in Nat
  BY RowIs, RowInSeq
<1> HIDE DEF S
<1>2. /\ j \in Seq(S) /\ Len(j) = Len(s) + Len(t)
      /\ \A k \in 1..Len(s) + Len(t) : j[k] = IF k <= Len(s) THEN s[k] ELSE t[k - Len(s)]
  BY <1>1, ConcatProperties
<1>3. IsRow(j)
  BY <1>2, SeqIsRow
<1> HIDE DEF j
<1>4. \A k \in 1..Len(s) : j[k] = s[k]
  BY <1>1, <1>2
<1>5. \A k \in 1..Len(t) : Len(s) + k \in 1..Len(s) + Len(t) /\ ~(Len(s) + k <= Len(s))
                           /\ Len(s) + k - Len(s) = k
  BY <1>1
<1>6. \A k \in 1..Len(t) : j[Len(s) + k] = t[k]
  BY <1>2, <1>5
<1> QED BY <1>2, <1>3, <1>4, <1>6 DEF j

LEMMA PartIs ==
  ASSUME NEW s, IsRow(s), NEW m \in Nat \ {0}, NEW n \in Int, n <= Len(s)
  PROVE  /\ IsRow(SubSeq(s, m, n)) /\ Len(SubSeq(s, m, n)) = IF m <= n THEN n - m + 1 ELSE 0
         /\ \A k \in 1..n - m + 1 : SubSeq(s, m, n)[k] = s[m + k - 1]
<1> DEFINE S == {s[k] : k \in DOMAIN s}
           p == SubSeq(s, m, n)
<1>1. \A k \in m..n : s[k] \in S
  BY RowIs
<1> HIDE DEF S
<1>2. /\ p \in Seq(S) /\ Len(p) = IF m <= n THEN n - m + 1 ELSE 0
      /\ \A k \in 1..n - m + 1 : p[k] = s[m + k - 1]
  BY <1>1, SubSeqProperties
<1> HIDE DEF p
<1>3. IsRow(p)
  BY <1>2, SeqIsRow
<1> QED BY <1>2, <1>3 DEF p

\* The first n elements, and those after them
LEMMA FirstIs ==
  ASSUME NEW s, IsRow(s), NEW n \in 0..Len(s)
  PROVE  /\ IsRow(SubSeq(s, 1, n)) /\ Len(SubSeq(s, 1, n)) = n
         /\ \A k \in 1..n : SubSeq(s, 1, n)[k] = s[k]
<1> DEFINE a == SubSeq(s, 1, n)
<1>0. Len(s) \in Nat /\ n \in Nat /\ 1 \in Nat \ {0} /\ n \in Int /\ n <= Len(s)
  BY RowIs
<1>1. /\ IsRow(a) /\ Len(a) = IF 1 <= n THEN n - 1 + 1 ELSE 0
      /\ \A k \in 1..n - 1 + 1 : a[k] = s[1 + k - 1]
  BY <1>0, PartIs
<1> HIDE DEF a
<1>2. ASSUME NEW k \in 1..n PROVE a[k] = s[k]
  <2>1. k \in 1..n - 1 + 1 /\ 1 + k - 1 = k
    BY <1>0
  <2> QED BY <1>1, <2>1
<1>3. Len(a) = n
  BY <1>0, <1>1
<1> QED BY <1>1, <1>2, <1>3 DEF a

LEMMA RestIs ==
  ASSUME NEW s, IsRow(s), NEW n \in 0..Len(s)
  PROVE  /\ IsRow(SubSeq(s, n + 1, Len(s))) /\ Len(SubSeq(s, n + 1, Len(s))) = Len(s) - n
         /\ \A k \in 1..Len(s) - n : SubSeq(s, n + 1, Len(s))[k] = s[n + k]
<1> DEFINE b == SubSeq(s, n + 1, Len(s))
<1>0. Len(s) \in Nat /\ n \in Nat /\ n + 1 \in Nat \ {0} /\ Len(s) \in Int /\ Len(s) <= Len(s)
  BY RowIs
<1>1. /\ IsRow(b) /\ Len(b) = IF n + 1 <= Len(s) THEN Len(s) - (n + 1) + 1 ELSE 0
      /\ \A k \in 1..Len(s) - (n + 1) + 1 : b[k] = s[(n + 1) + k - 1]
  BY <1>0, PartIs
<1> HIDE DEF b
<1>2. ASSUME NEW k \in 1..Len(s) - n PROVE b[k] = s[n + k]
  <2>1. k \in 1..Len(s) - (n + 1) + 1 /\ (n + 1) + k - 1 = n + k
    BY <1>0
  <2> QED BY <1>1, <2>1
<1>3. Len(b) = Len(s) - n
  BY <1>0, <1>1
<1> QED BY <1>1, <1>2, <1>3 DEF b

LEMMA AppendIs ==
  ASSUME NEW s, IsRow(s), NEW x
  PROVE  /\ IsRow(Append(s, x)) /\ Len(Append(s, x)) = Len(s) + 1
         /\ \A k \in 1..Len(s) : Append(s, x)[k] = s[k]
         /\ Append(s, x)[Len(s) + 1] = x
<1> DEFINE S == {s[k] : k \in DOMAIN s} \cup {x}
           t == Append(s, x)
<1>1. s \in Seq(S) /\ x \in S
  BY RowIs, RowInSeq
<1> HIDE DEF S
<1>2. /\ t \in Seq(S) /\ Len(t) = Len(s) + 1
      /\ \A k \in 1..Len(s) : t[k] = s[k]
      /\ t[Len(s) + 1] = x
  BY <1>1, AppendProperties
<1> HIDE DEF t
<1>3. IsRow(t)
  BY <1>2, SeqIsRow
<1> QED BY <1>2, <1>3 DEF t

LEMMA TailIs ==
  ASSUME NEW s, IsRow(s), s # <<>>
  PROVE  /\ IsRow(Tail(s)) /\ Len(s) \in Nat \ {0} /\ Len(Tail(s)) = Len(s) - 1
         /\ Head(s) = s[1] /\ \A k \in 1..Len(s) - 1 : Tail(s)[k] = s[k + 1]
         /\ Tail(s) = SubSeq(s, 2, Len(s))
<1> DEFINE S == {s[k] : k \in DOMAIN s}
<1>1. s \in Seq(S)
  BY DEF IsRow
<1> HIDE DEF S
<1>2. /\ Tail(s) \in Seq(S) /\ Len(s) \in Nat \ {0} /\ Len(Tail(s)) = Len(s) - 1
      /\ Head(s) = s[1] /\ \A k \in 1..Len(s) - 1 : Tail(s)[k] = s[k + 1]
  BY <1>1, HeadTailProperties, EmptySeq
<1>3. Tail(s) = SubSeq(s, 2, Len(s))
  BY <1>1, TailIsSubSeq
<1> QED BY <1>2, <1>3, SeqIsRow

\* Parts of joined sequences
LEMMA PartOfJoin ==
  ASSUME NEW s, NEW t, IsRow(s), IsRow(t), NEW n \in 0..Len(s)
  PROVE  SubSeq(s \o t, n + 1, Len(s) + Len(t)) = SubSeq(s, n + 1, Len(s)) \o t
<1> DEFINE j == s \o t
           a == SubSeq(j, n + 1, Len(s) + Len(t))
           b == SubSeq(s, n + 1, Len(s))
<1>0. Len(s) \in Nat /\ Len(t) \in Nat
  BY RowIs
<1>1. IsRow(j) /\ Len(j) = Len(s) + Len(t)
      /\ \A k \in 1..Len(s) + Len(t) : j[k] = IF k <= Len(s) THEN s[k] ELSE t[k - Len(s)]
  BY JoinIs
<1> HIDE DEF j
<1>2. /\ IsRow(a) /\ Len(a) = Len(s) + Len(t) - n
      /\ \A k \in 1..Len(s) + Len(t) - n : a[k] = j[n + k]
  <2> DEFINE r == SubSeq(j, n + 1, Len(j))
  <2>1. n \in 0..Len(j) /\ a = r
    BY <1>0, <1>1
  <2>2. /\ IsRow(r) /\ Len(r) = Len(j) - n
        /\ \A k \in 1..Len(j) - n : r[k] = j[n + k]
    <3>1. n \in 0..Len(j)
      BY <2>1
    <3> QED BY <1>1, <3>1, RestIs
  <2> HIDE DEF r
  <2> HIDE DEF a
  <2> QED BY <1>1, <2>1, <2>2
<1>3. /\ IsRow(b) /\ Len(b) = Len(s) - n
      /\ \A k \in 1..Len(s) - n : b[k] = s[n + k]
  BY RestIs
<1> HIDE DEF a, b
<1>4. /\ IsRow(b \o t) /\ Len(b \o t) = Len(s) - n + Len(t)
      /\ \A k \in 1..Len(s) - n + Len(t) :
           (b \o t)[k] = IF k <= Len(s) - n THEN b[k] ELSE t[k - (Len(s) - n)]
  <2>1. /\ IsRow(b \o t) /\ Len(b \o t) = Len(b) + Len(t)
        /\ \A k \in 1..Len(b) + Len(t) : (b \o t)[k] = IF k <= Len(b) THEN b[k] ELSE t[k - Len(b)]
    BY <1>3, JoinIs
  <2> QED BY <1>3, <2>1
<1>5. ASSUME NEW k \in 1..Len(a) PROVE a[k] = (b \o t)[k]
  <2>1. n + k \in 1..Len(s) + Len(t) /\ k \in 1..Len(s) - n + Len(t) /\ a[k] = j[n + k]
    BY <1>0, <1>2
  <2>2. CASE k <= Len(s) - n
    <3>1. n + k <= Len(s) /\ k \in 1..Len(s) - n
      BY <1>0, <2>2
    <3> QED BY <1>1, <1>3, <1>4, <2>1, <2>2, <3>1
  <2>3. CASE ~(k <= Len(s) - n)
    <3>1. ~(n + k <= Len(s)) /\ n + k - Len(s) = k - (Len(s) - n)
      BY <1>0, <2>3
    <3>2. a[k] = t[n + k - Len(s)]
      BY SMTT(40), <1>1, <2>1, <3>1
    <3>3. (b \o t)[k] = t[k - (Len(s) - n)]
      BY <1>4, <2>1, <2>3
    <3> QED BY <3>1, <3>2, <3>3
  <2> QED BY <2>2, <2>3
<1>6. Len(a) = Len(b \o t)
  BY <1>0, <1>2, <1>4
<1>7. a = b \o t
  BY <1>2, <1>4, <1>5, <1>6, RowEqual
<1> QED BY <1>7 DEF a, b, j

LEMMA JoinEmpty == ASSUME NEW s, IsRow(s) PROVE s \o <<>> = s /\ <<>> \o s = s
<1> DEFINE S == {s[k] : k \in DOMAIN s}
<1>1. s \in Seq(S)
  BY DEF IsRow
<1> HIDE DEF S
<1> QED BY <1>1, ConcatEmptySeq

LEMMA JoinAssociative ==
  ASSUME NEW s, NEW t, NEW r, IsRow(s), IsRow(t), IsRow(r)
  PROVE  (s \o t) \o r = s \o (t \o r)
<1> DEFINE S == {s[k] : k \in DOMAIN s} \cup {t[k] : k \in DOMAIN t} \cup {r[k] : k \in DOMAIN r}
<1>1. s \in Seq(S) /\ t \in Seq(S) /\ r \in Seq(S)
  BY RowIs, RowInSeq
<1> HIDE DEF S
<1> QED BY <1>1, ConcatAssociative

LEMMA SplitIs ==
  ASSUME NEW s, IsRow(s), NEW n \in 0..Len(s)
  PROVE  SubSeq(s, 1, n) \o SubSeq(s, n + 1, Len(s)) = s
<1> DEFINE a == SubSeq(s, 1, n)
           b == SubSeq(s, n + 1, Len(s))
<1>0. Len(s) \in Nat /\ n \in Nat
  BY RowIs
<1>3. IsRow(a) /\ Len(a) = n /\ \A k \in 1..n : a[k] = s[k]
  BY FirstIs
<1>4. IsRow(b) /\ Len(b) = Len(s) - n /\ \A k \in 1..Len(s) - n : b[k] = s[n + k]
  BY RestIs
<1> HIDE DEF a, b
<1>5. /\ IsRow(a \o b) /\ Len(a \o b) = Len(a) + Len(b)
      /\ \A k \in 1..Len(a) + Len(b) : (a \o b)[k] = IF k <= Len(a) THEN a[k] ELSE b[k - Len(a)]
  BY <1>3, <1>4, JoinIs
<1>6. Len(a \o b) = Len(s)
  BY <1>0, <1>3, <1>4, <1>5
<1>7. ASSUME NEW k \in 1..Len(s) PROVE (a \o b)[k] = s[k]
  <2>1. CASE k <= n
    BY <1>0, <1>3, <1>4, <1>5, <2>1
  <2>2. CASE ~(k <= n)
    <3>1. k - n \in 1..Len(s) - n /\ n + (k - n) = k /\ k \in 1..Len(a) + Len(b) /\ ~(k <= Len(a))
      BY <1>0, <1>3, <1>4, <2>2
    <3> QED BY <1>3, <1>4, <1>5, <3>1
  <2> QED BY <2>1, <2>2
<1>8. a \o b = s
  BY <1>5, <1>6, <1>7, RowEqual
<1> QED BY <1>8 DEF a, b

-----------------------------------------------------------------------------
(* Induction and recursion                                                 *)

\* Induction over the naturals, for a set.
LEMMA NatSetInduction ==
  ASSUME NEW T, 0 \in T, \A n \in Nat : n \in T => n + 1 \in T
  PROVE  Nat \subseteq T
<1> SUFFICES ASSUME NEW m \in Nat, m \notin T PROVE FALSE
  OBVIOUS
<1> DEFINE U == {0..n : n \in {k \in Nat : k \notin T}}
<1>1. U # {} /\ 0..m \in U
  OBVIOUS
<1>2. U \subseteq FiniteSubsetsOf(Nat)
  <2> SUFFICES ASSUME NEW n \in Nat PROVE 0..n \in FiniteSubsetsOf(Nat)
    OBVIOUS
  <2>1. IsFiniteSet(0..n) BY FS_Interval
  <2> QED BY <2>1 DEF FiniteSubsetsOf
<1>3. IsWellFoundedOn(StrictSubsetOrdering(Nat), FiniteSubsetsOf(Nat))
  BY FS_StrictSubsetOrderingWellFounded
<1> HIDE DEF U
<1>4. \E x \in U : \A y \in U : ~(<<y, x>> \in StrictSubsetOrdering(Nat))
  BY <1>1, <1>2, <1>3, WFMin
<1> USE DEF U
<1>5. PICK x \in Nat : x \notin T /\ \A y \in U : ~(<<y, 0..x>> \in StrictSubsetOrdering(Nat))
  BY <1>4
<1>6. x # 0
  BY <1>5
<1>7. x - 1 \in Nat /\ (x - 1) + 1 = x
  BY <1>6
<1>8. x - 1 \notin T
  BY <1>5, <1>7
<1>9. 0..(x - 1) \in U
  BY <1>7, <1>8
<1>10. <<0..(x - 1), 0..x>> \in StrictSubsetOrdering(Nat)
  BY SMTT(40), <1>7 DEF StrictSubsetOrdering
<1> QED BY <1>5, <1>9, <1>10

\* g starts at c and goes on by F, n times.
Iterates(g, S, c, F, n) ==
  /\ g \in [0..n -> S]
  /\ g[0] = c
  /\ \A m \in 1..n : g[m] = F[m][g[m - 1]]

\* There is a function that does so.
LEMMA RecursionExists ==
  ASSUME NEW S, NEW c \in S, NEW F \in [Nat -> [S -> S]], NEW n \in Nat
  PROVE  \E g : Iterates(g, S, c, F, n)
<1> DEFINE R(g, k) == g[0] = c /\ \A m \in 1..k : g[m] = F[m][g[m - 1]]
           T == {k \in Nat : \E g \in [0..k -> S] : R(g, k)}
<1>1. 0 \in T
  <2>1. [j \in 0..0 |-> c] \in [0..0 -> S] /\ R([j \in 0..0 |-> c], 0)
    OBVIOUS
  <2> QED BY <2>1
<1>2. ASSUME NEW k \in Nat, k \in T PROVE k + 1 \in T
  <2>1. PICK g \in [0..k -> S] : R(g, k)
    BY <1>2
  <2> DEFINE h == [j \in 0..k + 1 |-> IF j =< k THEN g[j] ELSE F[k + 1][g[k]]]
  <2>2. F[k + 1] \in [S -> S] /\ g[k] \in S
    OBVIOUS
  <2>3. h \in [0..k + 1 -> S]
    BY <2>2
  <2>4. ASSUME NEW m \in 1..k + 1 PROVE h[m] = F[m][h[m - 1]]
    <3>1. CASE m = k + 1
      BY <3>1
    <3>2. CASE m =< k
      <4>1. m \in 1..k /\ m - 1 \in 0..k /\ h[m] = g[m] /\ h[m - 1] = g[m - 1]
        BY <3>2
      <4> QED BY <4>1, <2>1
    <3> QED BY <3>1, <3>2
  <2>5. h[0] = c
    BY <2>1
  <2> HIDE DEF h
  <2>6. R(h, k + 1)
    BY <2>4, <2>5
  <2> QED BY <2>3, <2>6
<1>3. Nat \subseteq T
  <2> HIDE DEF T
  <2> QED BY <1>1, <1>2, NatSetInduction
<1> QED BY <1>3 DEF Iterates


-----------------------------------------------------------------------------
(* What a stream of units says                                             *)

Rings == Nat \ {0}
Counts == [Rings -> Nat]
Units == [k : {"rec"}, ring : Nat, n : Nat, i : Nat, size : Nat, id : Nat]
NoUnit == Unit(0, 0, 0, 0, 0)

\* A state between two units: how many records of each ring are complete, and
\* the last unit of the record under way, if there is one.
Partial == {u \in Units : u.i < u.size} \cup {NoUnit}
States == Counts \X Partial

\* The unit v may come in state q, with counters 1..m: it goes on with the
\* record under way, or begins the next of its ring.  Records of ring 0 are
\* those the recorder makes itself.
Begins(m, c, v) ==
  /\ v \in Units /\ v.i = 1 /\ 2 <= v.size
  /\ v.ring # 0 => v.n = c[v.ring] + 1 /\ v.id \in 1..m
May(m, q, v) ==
  IF q[2] = NoUnit THEN Begins(m, q[1], v) ELSE v = [q[2] EXCEPT !.i = @ + 1]
Tally(c, r) == IF r = 0 THEN c ELSE [c EXCEPT ![r] = @ + 1]
After(q, v) == IF v.i = v.size THEN <<Tally(q[1], v.ring), NoUnit>> ELSE <<q[1], v>>

\* The units of s lead from state q to state z; at has the states between.
Path(m, s, q, z, at) ==
  /\ at \in [0..Len(s) -> States]
  /\ at[0] = q /\ at[Len(s)] = z
  /\ \A k \in 1..Len(s) : May(m, at[k - 1], s[k]) /\ at[k] = After(at[k - 1], s[k])
Leads(m, s, q, z) == \E at : Path(m, s, q, z, at)

-----------------------------------------------------------------------------
(* Streams are joined and cut                                              *)

LEMMA NoUnitIs == NoUnit \in Units /\ NoUnit.i = 0 /\ NoUnit.size = 0 /\ NoUnit \in Partial
  BY DEF NoUnit, Unit, Units, Partial

\* The state after a unit that may come is a state.
LEMMA AfterIs ==
  ASSUME NEW m, NEW q \in States, NEW v, May(m, q, v)
  PROVE  After(q, v) \in States /\ v \in Units /\ v.i \in 1..v.size
<1>1. v \in Units /\ v.i \in 1..v.size
  <2>1. CASE q[2] = NoUnit
    <3>1. v \in Units /\ v.i = 1 /\ 2 <= v.size
      BY <2>1 DEF May, Begins
    <3> QED BY <3>1 DEF Units
  <2>2. CASE q[2] # NoUnit
    <3>1. q[2] \in Units /\ q[2].i < q[2].size /\ v = [q[2] EXCEPT !.i = @ + 1]
      BY <2>2 DEF States, Partial, May
    <3> QED BY <3>1 DEF Units
  <2> QED BY <2>1, <2>2
<1>2. q[1] \in Counts /\ v.ring \in Nat
  BY <1>1 DEF States, Units
<1>3. Tally(q[1], v.ring) \in Counts
  BY <1>2 DEF Tally, Counts, Rings
<1>4. CASE v.i = v.size
  <2>1. After(q, v) = <<Tally(q[1], v.ring), NoUnit>>
    BY <1>4 DEF After
  <2>2. NoUnit \in Partial
    BY NoUnitIs
  <2> QED BY <1>1, <1>3, <2>1, <2>2 DEF States
<1>5. CASE v.i # v.size
  <2>1. v \in Partial
    BY <1>1, <1>5 DEF Partial, Units
  <2>2. After(q, v) = <<q[1], v>>
    BY <1>5 DEF After
  <2> QED BY <1>1, <1>2, <2>1, <2>2 DEF States
<1> QED BY <1>1, <1>4, <1>5

LEMMA LeadsNothing == ASSUME NEW m, NEW q \in States PROVE Leads(m, <<>>, q, q)
<1>1. Path(m, <<>>, q, q, [k \in 0..0 |-> q])
  BY EmptyIsRow DEF Path
<1> QED BY <1>1 DEF Leads

LEMMA LeadsNowhere ==
  ASSUME NEW m, NEW q, NEW z, Leads(m, <<>>, q, z)
  PROVE  q = z
  BY EmptyIsRow DEF Leads, Path

LEMMA LeadsTypes ==
  ASSUME NEW m, NEW s, IsRow(s), NEW q, NEW z, Leads(m, s, q, z)
  PROVE  q \in States /\ z \in States /\ s \in Seq(Units)
<1>1. PICK at : Path(m, s, q, z, at)
  BY DEF Leads
<1>2. Len(s) \in Nat
  BY RowIs
<1>3. q \in States /\ z \in States
  <2>1. 0 \in 0..Len(s) /\ Len(s) \in 0..Len(s)
    BY <1>2
  <2> QED BY <1>1, <2>1 DEF Path
<1>4. ASSUME NEW k \in 1..Len(s) PROVE s[k] \in Units
  <2>1. k - 1 \in 0..Len(s)
    BY <1>2
  <2>2. at[k - 1] \in States /\ May(m, at[k - 1], s[k])
    BY <1>1, <2>1 DEF Path
  <2> QED BY <2>2, AfterIs
<1> QED BY <1>3, <1>4, RowInSeq

LEMMA LeadsJoin ==
  ASSUME NEW m, NEW s, NEW t, IsRow(s), IsRow(t), NEW q, NEW y, NEW z,
         Leads(m, s, q, y), Leads(m, t, y, z)
  PROVE  Leads(m, s \o t, q, z)
<1>1. PICK a : Path(m, s, q, y, a)
  BY DEF Leads
<1>2. PICK b : Path(m, t, y, z, b)
  BY DEF Leads
<1>0. Len(s) \in Nat /\ Len(t) \in Nat
  BY RowIs
<1> DEFINE j == s \o t
           at == [k \in 0..Len(s) + Len(t) |-> IF k <= Len(s) THEN a[k] ELSE b[k - Len(s)]]
<1>3. /\ Len(j) = Len(s) + Len(t)
      /\ \A k \in 1..Len(s) : j[k] = s[k]
      /\ \A k \in 1..Len(t) : j[Len(s) + k] = t[k]
  BY JoinIs
<1> HIDE DEF j
<1>4. /\ a \in [0..Len(s) -> States] /\ a[0] = q /\ a[Len(s)] = y
      /\ b \in [0..Len(t) -> States] /\ b[0] = y /\ b[Len(t)] = z
  BY <1>1, <1>2 DEF Path
<1>5. at \in [0..Len(j) -> States]
  <2>1. ASSUME NEW k \in 0..Len(s) + Len(t), ~(k <= Len(s)) PROVE k - Len(s) \in 0..Len(t)
    BY <1>0, <2>1
  <2> QED BY <1>0, <1>3, <1>4, <2>1
<1>6. \A k \in 0..Len(s) : at[k] = a[k]
  BY <1>0
<1>7. \A k \in 0..Len(t) : at[Len(s) + k] = b[k]
  <2> SUFFICES ASSUME NEW k \in 0..Len(t) PROVE at[Len(s) + k] = b[k]
    OBVIOUS
  <2>1. CASE k = 0
    BY <1>0, <1>4, <2>1
  <2>2. CASE k # 0
    <3>1. Len(s) + k \in 0..Len(s) + Len(t) /\ ~(Len(s) + k <= Len(s)) /\ Len(s) + k - Len(s) = k
      BY <1>0, <2>2
    <3> QED BY <3>1
  <2> QED BY <2>1, <2>2
<1> HIDE DEF at
<1>8. at[0] = q /\ at[Len(j)] = z
  BY <1>0, <1>3, <1>4, <1>6, <1>7
<1>9. ASSUME NEW k \in 1..Len(j)
      PROVE  May(m, at[k - 1], j[k]) /\ at[k] = After(at[k - 1], j[k])
  <2>1. CASE k <= Len(s)
    <3>1. k \in 1..Len(s) /\ k - 1 \in 0..Len(s) /\ k \in 0..Len(s)
      BY <1>0, <1>3, <2>1
    <3>2. at[k - 1] = a[k - 1] /\ at[k] = a[k] /\ j[k] = s[k]
      BY <1>3, <1>6, <3>1
    <3> QED BY <1>1, <3>1, <3>2 DEF Path
  <2>2. CASE ~(k <= Len(s))
    <3> DEFINE n == k - Len(s)
    <3>1. n \in 1..Len(t) /\ n - 1 \in 0..Len(t) /\ n \in 0..Len(t)
          /\ Len(s) + n = k /\ Len(s) + (n - 1) = k - 1
      BY <1>0, <1>3, <2>2
    <3> HIDE DEF n
    <3>2. at[k - 1] = b[n - 1] /\ at[k] = b[n] /\ j[k] = t[n]
      BY <1>3, <1>7, <3>1
    <3> QED BY <1>2, <3>1, <3>2 DEF Path
  <2> QED BY <2>1, <2>2
<1>10. Path(m, j, q, z, at)
  BY <1>5, <1>8, <1>9 DEF Path
<1> QED BY <1>10 DEF Leads, j

LEMMA PathSplit ==
  ASSUME NEW m, NEW s, NEW t, IsRow(s), IsRow(t), NEW q, NEW z, NEW at, Path(m, s \o t, q, z, at)
  PROVE  at[Len(s)] \in States /\ Leads(m, s, q, at[Len(s)]) /\ Leads(m, t, at[Len(s)], z)
<1> DEFINE j == s \o t
<1>1. Path(m, j, q, z, at)
  OBVIOUS
<1>0. Len(s) \in Nat /\ Len(t) \in Nat
  BY RowIs
<1>2. /\ Len(j) = Len(s) + Len(t)
      /\ \A k \in 1..Len(s) : j[k] = s[k]
      /\ \A k \in 1..Len(t) : j[Len(s) + k] = t[k]
  BY JoinIs
<1> HIDE DEF j
<1> DEFINE y == at[Len(s)]
           b == [k \in 0..Len(t) |-> at[Len(s) + k]]
           a == [k \in 0..Len(s) |-> at[k]]
<1>3. /\ at \in [0..Len(s) + Len(t) -> States] /\ at[0] = q /\ at[Len(s) + Len(t)] = z
      /\ \A k \in 1..Len(s) + Len(t) : May(m, at[k - 1], j[k]) /\ at[k] = After(at[k - 1], j[k])
  BY <1>1, <1>2 DEF Path
<1>4. /\ \A k \in 0..Len(s) : k \in 0..Len(s) + Len(t)
      /\ \A k \in 0..Len(t) : Len(s) + k \in 0..Len(s) + Len(t)
  BY <1>0
<1>5. Path(m, s, q, y, a)
  <2>1. a \in [0..Len(s) -> States] /\ a[0] = q /\ a[Len(s)] = y
    BY <1>0, <1>3, <1>4
  <2>2. ASSUME NEW k \in 1..Len(s) PROVE May(m, a[k - 1], s[k]) /\ a[k] = After(a[k - 1], s[k])
    <3>1. k \in 1..Len(s) + Len(t) /\ a[k - 1] = at[k - 1] /\ a[k] = at[k] /\ s[k] = j[k]
      BY <1>0, <1>2
    <3> QED BY <1>3, <3>1
  <2> HIDE DEF a, y
  <2> QED BY <2>1, <2>2 DEF Path
<1>6. Path(m, t, y, z, b)
  <2>1. b \in [0..Len(t) -> States] /\ b[0] = y /\ b[Len(t)] = z
    <3>1. Len(s) + 0 = Len(s) /\ 0 \in 0..Len(t) /\ Len(t) \in 0..Len(t)
      BY <1>0
    <3> QED BY <1>0, <1>3, <1>4, <3>1
  <2>2. ASSUME NEW k \in 1..Len(t) PROVE May(m, b[k - 1], t[k]) /\ b[k] = After(b[k - 1], t[k])
    <3>1. /\ Len(s) + k \in 1..Len(s) + Len(t) /\ k - 1 \in 0..Len(t) /\ k \in 0..Len(t)
          /\ Len(s) + (k - 1) = (Len(s) + k) - 1
      BY <1>0
    <3>2. b[k - 1] = at[(Len(s) + k) - 1] /\ b[k] = at[Len(s) + k] /\ t[k] = j[Len(s) + k]
      BY <1>2, <3>1
    <3> QED BY <1>3, <3>1, <3>2
  <2> HIDE DEF b, y
  <2> QED BY <2>1, <2>2 DEF Path
<1>7. y \in States
  BY <1>0, <1>3, <1>4
<1> QED BY <1>5, <1>6, <1>7 DEF Leads

LEMMA LeadsSplit ==
  ASSUME NEW m, NEW s, NEW t, IsRow(s), IsRow(t), NEW q, NEW z, Leads(m, s \o t, q, z)
  PROVE  \E y \in States : Leads(m, s, q, y) /\ Leads(m, t, y, z)
<1>1. PICK at : Path(m, s \o t, q, z, at)
  BY DEF Leads
<1> QED BY <1>1, PathSplit

LEMMA PathAt ==
  ASSUME NEW m, NEW s, IsRow(s), NEW q, NEW z, NEW at, Path(m, s, q, z, at), NEW n \in 0..Len(s)
  PROVE  /\ at[n] \in States /\ Leads(m, SubSeq(s, 1, n), q, at[n])
         /\ Leads(m, SubSeq(s, n + 1, Len(s)), at[n], z)
<1> DEFINE a == SubSeq(s, 1, n)
           b == SubSeq(s, n + 1, Len(s))
<1>1. a \o b = s /\ IsRow(a) /\ IsRow(b) /\ Len(a) = n
  BY SplitIs, FirstIs, RestIs
<1> HIDE DEF a, b
<1>2. Path(m, a \o b, q, z, at)
  BY <1>1
<1>3. at[Len(a)] \in States /\ Leads(m, a, q, at[Len(a)]) /\ Leads(m, b, at[Len(a)], z)
  BY <1>1, <1>2, PathSplit
<1> QED BY <1>1, <1>3 DEF a, b

\* The first unit of a stream may come, and the rest goes on after it.
LEMMA LeadsFirst ==
  ASSUME NEW m, NEW s, IsRow(s), s # <<>>, NEW q, NEW z, Leads(m, s, q, z)
  PROVE  /\ q \in States /\ May(m, q, s[1]) /\ After(q, s[1]) \in States /\ s[1] \in Units
         /\ Leads(m, Tail(s), After(q, s[1]), z)
<1>1. PICK at : Path(m, s, q, z, at)
  BY DEF Leads
<1>0. /\ IsRow(Tail(s)) /\ Len(s) \in Nat \ {0} /\ Len(Tail(s)) = Len(s) - 1
      /\ \A k \in 1..Len(s) - 1 : Tail(s)[k] = s[k + 1]
  BY TailIs
<1> DEFINE t == Tail(s)
           b == [k \in 0..Len(s) - 1 |-> at[k + 1]]
<1> HIDE DEF t
<1>2. /\ at \in [0..Len(s) -> States] /\ at[0] = q /\ at[Len(s)] = z
      /\ \A k \in 1..Len(s) : May(m, at[k - 1], s[k]) /\ at[k] = After(at[k - 1], s[k])
  BY <1>1 DEF Path
<1>3. 1 \in 1..Len(s) /\ 0 \in 0..Len(s) /\ 1 - 1 = 0
  BY <1>0
<1>4. q \in States /\ May(m, q, s[1]) /\ at[1] = After(q, s[1])
  BY <1>2, <1>3
<1>5. Path(m, t, at[1], z, b)
  <2>1. b \in [0..Len(t) -> States] /\ b[0] = at[1] /\ b[Len(t)] = z
    <3>1. \A k \in 0..Len(s) - 1 : k + 1 \in 0..Len(s)
      BY <1>0
    <3>2. 0 \in 0..Len(s) - 1 /\ 0 + 1 = 1 /\ Len(s) - 1 \in 0..Len(s) - 1 /\ Len(s) - 1 + 1 = Len(s)
      BY <1>0
    <3> QED BY <1>0, <1>2, <3>1, <3>2 DEF t
  <2>2. ASSUME NEW k \in 1..Len(t) PROVE May(m, b[k - 1], t[k]) /\ b[k] = After(b[k - 1], t[k])
    <3>1. /\ k \in 1..Len(s) - 1 /\ k + 1 \in 1..Len(s) /\ k - 1 \in 0..Len(s) - 1
          /\ k \in 0..Len(s) - 1 /\ (k - 1) + 1 = k /\ (k + 1) - 1 = k
      BY <1>0 DEF t
    <3>2. b[k - 1] = at[k] /\ b[k] = at[k + 1] /\ t[k] = s[k + 1]
      BY <1>0, <3>1 DEF t
    <3> QED BY <1>2, <3>1, <3>2
  <2> HIDE DEF b
  <2> QED BY <2>1, <2>2 DEF Path
<1> QED BY <1>4, <1>5, AfterIs DEF Leads, t

-----------------------------------------------------------------------------
(* Records in a stream                                                     *)

\* The n units after u of its record, and the state after them
Others(s, u, n) == \A k \in 1..n : s[k] = [u EXCEPT !.i = u.i + k]
On(c, u, n) == IF n = u.size - u.i THEN <<Tally(c, u.ring), NoUnit>>
               ELSE <<c, [u EXCEPT !.i = u.i + n]>>

\* Once a record is under way, its other units follow.
LEMMA PathOn ==
  ASSUME NEW m, NEW s, IsRow(s), NEW c, NEW u, u # NoUnit, NEW z, NEW at,
         Path(m, s, <<c, u>>, z, at), NEW n \in 0..Len(s), n <= u.size - u.i
  PROVE  /\ u \in Units /\ u.i < u.size /\ Others(s, u, n)
         /\ Leads(m, SubSeq(s, n + 1, Len(s)), On(c, u, n), z)
         /\ n = Len(s) => On(c, u, n) = z
<1> DEFINE v(k) == [u EXCEPT !.i = u.i + k]
           P(k) == at[k] = IF k = u.size - u.i THEN <<Tally(c, u.ring), NoUnit>> ELSE <<c, v(k)>>
           T == {k \in Nat : k <= n => P(k) /\ (k # 0 => s[k] = v(k))}
<1>0. Len(s) \in Nat /\ n \in Nat /\ n <= Len(s)
  BY RowIs
<1>1. /\ at[0] = <<c, u>> /\ at[0] \in States
      /\ \A k \in 1..Len(s) : May(m, at[k - 1], s[k]) /\ at[k] = After(at[k - 1], s[k])
  <2>1. 0 \in 0..Len(s)
    BY <1>0
  <2> QED BY <2>1 DEF Path
<1>2. u \in Units /\ u.i < u.size /\ u.i \in Nat /\ u.size \in Nat
  BY <1>1 DEF States, Partial, Units
<1>3. /\ \A k \in Nat : v(k) \in Units /\ v(k).i = u.i + k /\ v(k).size = u.size /\ v(k).ring = u.ring
                        /\ v(k) # NoUnit
      /\ \A k \in Nat : [v(k) EXCEPT !.i = @ + 1] = v(k + 1)
      /\ v(0) = u
  <2>1. NoUnit.size = 0
    BY NoUnitIs
  <2>2. \A k \in Nat : v(k) \in Units /\ v(k).i = u.i + k /\ v(k).size = u.size /\ v(k).ring = u.ring
    BY SMTT(40), <1>2 DEF Units
  <2>3. ASSUME NEW k \in Nat PROVE [v(k) EXCEPT !.i = @ + 1] = v(k + 1)
    <3>1. (u.i + k) + 1 = u.i + (k + 1)
      BY SMTT(40), <1>2
    <3> QED BY <1>2, <3>1 DEF Units
  <2>4. v(0) = u
    <3>1. u.i + 0 = u.i
      BY <1>2
    <3> QED BY <1>2, <3>1 DEF Units
  <2>5. u.size # 0
    BY <1>2
  <2>6. \A k \in Nat : v(k) # NoUnit
    BY <2>1, <2>2, <2>5
  <2> HIDE DEF v
  <2> QED BY <2>2, <2>3, <2>4, <2>6
<1> HIDE DEF v
<1>4. 0 \in T
  <2>1. 0 # u.size - u.i
    BY <1>2
  <2> QED BY <1>1, <1>3, <2>1
<1>5. ASSUME NEW k \in Nat, k \in T PROVE k + 1 \in T
  <2> SUFFICES ASSUME k + 1 <= n PROVE P(k + 1) /\ s[k + 1] = v(k + 1)
    OBVIOUS
  <2>1. k <= n /\ k # u.size - u.i /\ k + 1 \in 1..Len(s) /\ (k + 1) - 1 = k
    BY <1>0, <1>2
  <2>2. at[k] = <<c, v(k)>>
    BY <1>5, <2>1
  <2>3. May(m, at[k], s[k + 1]) /\ at[k + 1] = After(at[k], s[k + 1])
    BY <1>1, <2>1
  <2>4. s[k + 1] = v(k + 1)
    <3>1. <<c, v(k)>>[2] = v(k)
      OBVIOUS
    <3> QED BY <1>3, <2>2, <2>3, <3>1 DEF May
  <2>5. /\ v(k + 1).i = u.i + (k + 1) /\ v(k + 1).size = u.size /\ v(k + 1).ring = u.ring
        /\ (v(k + 1).i = v(k + 1).size) = (k + 1 = u.size - u.i)
    <3>1. k + 1 \in Nat
      OBVIOUS
    <3>2. v(k + 1).i = u.i + (k + 1) /\ v(k + 1).size = u.size /\ v(k + 1).ring = u.ring
      BY <1>3, <3>1
    <3> QED BY <1>2, <3>2
  <2>6. P(k + 1)
    BY <2>2, <2>3, <2>4, <2>5 DEF After
  <2> QED BY <2>4, <2>6
<1>6. Nat \subseteq T
  <2> HIDE DEF T
  <2> QED BY <1>4, <1>5, NatSetInduction
<1>7. P(n) /\ \A k \in 1..n : s[k] = v(k)
  <2>1. n \in T /\ n <= n /\ \A k \in 1..n : k \in T /\ k <= n /\ k # 0
    <3> HIDE DEF T
    <3> QED BY <1>0, <1>6
  <2> HIDE DEF P
  <2> QED BY <2>1
<1>8. at[n] = On(c, u, n) /\ Others(s, u, n)
  BY <1>7 DEF v, On, Others
<1>9. Leads(m, SubSeq(s, n + 1, Len(s)), at[n], z)
  BY PathAt
<1>10. at[Len(s)] = z
  BY DEF Path
<1> HIDE DEF T
<1> QED BY <1>2, <1>8, <1>9, <1>10

LEMMA LeadsOn ==
  ASSUME NEW m, NEW s, IsRow(s), NEW c, NEW u, u # NoUnit, NEW z, Leads(m, s, <<c, u>>, z),
         NEW n \in 0..Len(s), n <= u.size - u.i
  PROVE  /\ u \in Units /\ u.i < u.size /\ Others(s, u, n)
         /\ Leads(m, SubSeq(s, n + 1, Len(s)), On(c, u, n), z)
         /\ n = Len(s) => On(c, u, n) = z
<1>1. PICK at : Path(m, s, <<c, u>>, z, at)
  BY DEF Leads
<1> QED BY <1>1, PathOn

\* A stream that ends with a whole record holds all of the one under way.
LEMMA LeadsToEnd ==
  ASSUME NEW m, NEW s, IsRow(s), NEW c, NEW u, u # NoUnit, NEW d, Leads(m, s, <<c, u>>, <<d, NoUnit>>)
  PROVE  u \in Units /\ u.i < u.size /\ u.size - u.i <= Len(s)
<1>0. Len(s) \in Nat
  BY RowIs
<1>1. PICK at : Path(m, s, <<c, u>>, <<d, NoUnit>>, at)
  BY DEF Leads
<1>2. <<c, u>> \in States
  BY LeadsTypes
<1>3. u \in Units /\ u.i < u.size /\ u.i \in Nat /\ u.size \in Nat
  BY <1>2 DEF States, Partial, Units
<1>4. ASSUME Len(s) < u.size - u.i PROVE FALSE
  <2>1. Len(s) \in 0..Len(s) /\ Len(s) <= u.size - u.i /\ Len(s) # u.size - u.i
    BY <1>0, <1>3, <1>4
  <2>2. at[Len(s)] = <<c, [u EXCEPT !.i = u.i + Len(s)]>>
    <3> DEFINE z == <<d, NoUnit>>
    <3>0. Leads(m, s, <<c, u>>, z)
      OBVIOUS
    <3> HIDE DEF z
    <3>5. ASSUME NEW n \in 0..Len(s), n <= u.size - u.i PROVE n = Len(s) => On(c, u, n) = z
      <4>1. /\ u \in Units /\ u.i < u.size /\ Others(s, u, n)
            /\ Leads(m, SubSeq(s, n + 1, Len(s)), On(c, u, n), z)
            /\ n = Len(s) => On(c, u, n) = z
        BY <3>0, <3>5, LeadsOn
      <4> QED BY <4>1
    <3>4. On(c, u, Len(s)) = z
      BY <2>1, <3>5
    <3>1. On(c, u, Len(s)) = <<d, NoUnit>>
      BY <3>4 DEF z
    <3>2. On(c, u, Len(s)) = <<c, [u EXCEPT !.i = u.i + Len(s)]>>
      BY <2>1 DEF On
    <3>3. at[Len(s)] = <<d, NoUnit>>
      BY <1>1 DEF Path
    <3> QED BY <3>1, <3>2, <3>3
  <2>3. at[Len(s)] = <<d, NoUnit>>
    BY <1>1 DEF Path
  <2>4. [u EXCEPT !.i = u.i + Len(s)] = NoUnit
    BY <2>2, <2>3
  <2>5. [u EXCEPT !.i = u.i + Len(s)].size = u.size
    BY <1>3 DEF Units
  <2>6. u.size = 0
    BY <2>4, <2>5, NoUnitIs
  <2> QED BY <1>3, <2>6
<1> QED BY <1>0, <1>3, <1>4

\* The first record of a stream of whole records
LEMMA LeadsWhole ==
  ASSUME NEW m, NEW s, IsRow(s), s # <<>>, NEW c, NEW d, Leads(m, s, <<c, NoUnit>>, <<d, NoUnit>>)
  PROVE  /\ Begins(m, c, s[1]) /\ s[1].size \in Nat /\ s[1].size <= Len(s)
         /\ \A k \in 1..s[1].size : s[k] = [s[1] EXCEPT !.i = k]
         /\ Leads(m, SubSeq(s, s[1].size + 1, Len(s)), <<Tally(c, s[1].ring), NoUnit>>, <<d, NoUnit>>)
<1> DEFINE t == Tail(s)
           v == s[1]
<1>1. /\ IsRow(t) /\ Len(s) \in Nat \ {0} /\ Len(t) = Len(s) - 1
      /\ \A k \in 1..Len(s) - 1 : t[k] = s[k + 1]
      /\ t = SubSeq(s, 2, Len(s))
  BY TailIs
<1>2. May(m, <<c, NoUnit>>, v) /\ Leads(m, t, After(<<c, NoUnit>>, v), <<d, NoUnit>>)
  BY LeadsFirst
<1> HIDE DEF t, v
<1>3. Begins(m, c, v)
  BY <1>2 DEF May
<1>4. v \in Units /\ v.i = 1 /\ v.size \in Nat /\ 2 <= v.size
  BY <1>3 DEF Begins, Units
<1>5. After(<<c, NoUnit>>, v) = <<c, v>> /\ v # NoUnit
  BY <1>4, NoUnitIs DEF After
<1>6. Leads(m, t, <<c, v>>, <<d, NoUnit>>)
  BY <1>2, <1>5
<1> DEFINE n == v.size - 1
<1>7. n <= Len(t) /\ n \in 0..Len(t) /\ n <= v.size - v.i /\ n = v.size - v.i
  <2>1. v.size - v.i <= Len(t)
    BY <1>1, <1>5, <1>6, LeadsToEnd
  <2> QED BY <1>1, <1>4, <2>1
<1> HIDE DEF n
<1>8. /\ \A k \in 1..n : t[k] = [v EXCEPT !.i = v.i + k]
      /\ Leads(m, SubSeq(t, n + 1, Len(t)), <<Tally(c, v.ring), NoUnit>>, <<d, NoUnit>>)
  <2>1. IsRow(t) /\ v # NoUnit /\ n \in 0..Len(t) /\ n <= v.size - v.i
    BY <1>1, <1>5, <1>7
  <2>2. Others(t, v, n) /\ Leads(m, SubSeq(t, n + 1, Len(t)), On(c, v, n), <<d, NoUnit>>)
    BY <1>6, <2>1, LeadsOn
  <2>3. On(c, v, n) = <<Tally(c, v.ring), NoUnit>>
    BY <1>7 DEF On
  <2>4. \A k \in 1..n : t[k] = [v EXCEPT !.i = v.i + k]
    BY <2>2 DEF Others
  <2> QED BY <2>2, <2>3, <2>4
<1>9. ASSUME NEW k \in 1..v.size PROVE s[k] = [v EXCEPT !.i = k]
  <2>1. CASE k = 1
    BY <1>4, <2>1 DEF v, Units
  <2>2. CASE k # 1
    <3>1. k - 1 \in 1..n /\ v.i + (k - 1) = k /\ k - 1 \in 1..Len(s) - 1 /\ (k - 1) + 1 = k
      BY <1>1, <1>4, <1>7, <2>2 DEF n
    <3>2. t[k - 1] = s[k]
      BY <1>1, <3>1
    <3>3. t[k - 1] = [v EXCEPT !.i = v.i + (k - 1)]
      BY <1>8, <3>1
    <3> QED BY <3>1, <3>2, <3>3
  <2> QED BY <2>1, <2>2
<1>10. v.size <= Len(s)
  BY <1>1, <1>4, <1>7 DEF n
<1>11. SubSeq(t, n + 1, Len(t)) = SubSeq(s, v.size + 1, Len(s))
  <2> DEFINE x == SubSeq(t, n + 1, Len(t))
             y == SubSeq(s, v.size + 1, Len(s))
  <2>1. /\ IsRow(x) /\ Len(x) = Len(t) - n /\ \A k \in 1..Len(t) - n : x[k] = t[n + k]
    BY ZenonT(60), <1>1, <1>7, RestIs
  <2>2. v.size \in 0..Len(s)
    BY <1>1, <1>4, <1>10
  <2>3. IsRow(y) /\ Len(y) = Len(s) - v.size /\ \A k \in 1..Len(s) - v.size : y[k] = s[v.size + k]
    BY <2>2, RestIs
  <2> HIDE DEF x, y
  <2>4. Len(t) - n = Len(s) - v.size
    BY <1>1, <1>4 DEF n
  <2>5. ASSUME NEW k \in 1..Len(x) PROVE x[k] = y[k]
    <3>0. /\ Len(x) = Len(s) - v.size /\ Len(x) = Len(t) - n /\ v.size \in Nat /\ n \in Nat
          /\ n = v.size - 1 /\ Len(s) \in Nat /\ Len(x) \in Nat
      BY <1>1, <1>4, <1>7, <2>1, <2>4 DEF n
    <3>1. k \in 1..Len(t) - n /\ k \in 1..Len(s) - v.size
      BY <3>0
    <3>2. n + k \in 1..Len(s) - 1 /\ (n + k) + 1 = v.size + k
      <4> DEFINE l == Len(s)
      <4> HIDE DEF l
      <4>1. k \in 1..l - v.size /\ l \in Nat
        BY <3>0, <3>1 DEF l
      <4>2. v.size \in Nat /\ n = v.size - 1 /\ n \in Nat
        BY <3>0
      <4>3. n + k \in 1..l - 1 /\ (n + k) + 1 = v.size + k
        BY ONLY SMTT(40), <4>1, <4>2
      <4> QED BY <4>3 DEF l
    <3> QED BY SMTT(40), <1>1, <2>1, <2>3, <3>1, <3>2
  <2>6. x = y
    BY <2>1, <2>3, <2>4, <2>5, RowEqual
  <2> QED BY <2>6 DEF x, y
<1> QED BY <1>3, <1>4, <1>8, <1>9, <1>10, <1>11 DEF v

\* One whole record
LEMMA LeadsRecord ==
  ASSUME NEW m, NEW c \in Counts, NEW r \in Nat, NEW n \in Nat, NEW size \in Nat, 2 <= size,
         NEW id \in Nat, r # 0 => n = c[r] + 1 /\ id \in 1..m
  PROVE  /\ IsRow(Record(r, n, size, id)) /\ Len(Record(r, n, size, id)) = size
         /\ Record(r, n, size, id) \in Seq(Units)
         /\ Leads(m, Record(r, n, size, id), <<c, NoUnit>>, <<Tally(c, r), NoUnit>>)
<1> DEFINE s == Record(r, n, size, id)
           v(k) == Unit(r, n, k, size, id)
           at == [k \in 0..size |-> IF k = 0 THEN <<c, NoUnit>>
                                    ELSE IF k < size THEN <<c, v(k)>>
                                    ELSE <<Tally(c, r), NoUnit>>]
<1>1. IsRow(s) /\ Len(s) = size /\ \A k \in 1..size : s[k] = v(k)
  BY FunctionIsRow DEF Record
<1> HIDE DEF s
<1>2. /\ \A k \in Nat : v(k) \in Units /\ v(k).i = k /\ v(k).size = size /\ v(k).ring = r /\ v(k).n = n
                        /\ v(k).id = id /\ v(k) # NoUnit
      /\ \A k \in Nat : [v(k) EXCEPT !.i = @ + 1] = v(k + 1)
  BY NoUnitIs DEF Unit, Units
<1> HIDE DEF v
<1>3. Tally(c, r) \in Counts
  BY DEF Tally, Counts, Rings
<1>4. at \in [0..size -> States]
  <2>1. <<c, NoUnit>> \in States /\ <<Tally(c, r), NoUnit>> \in States
    BY <1>3, NoUnitIs DEF States
  <2>2. ASSUME NEW k \in 0..size, k < size PROVE <<c, v(k)>> \in States
    BY <1>2, <2>2 DEF States, Partial
  <2> QED BY <2>1, <2>2
<1>5. at[0] = <<c, NoUnit>> /\ at[size] = <<Tally(c, r), NoUnit>>
      /\ \A k \in 1..size - 1 : at[k] = <<c, v(k)>>
  OBVIOUS
<1> HIDE DEF at
<1>6. ASSUME NEW k \in 1..size PROVE May(m, at[k - 1], s[k]) /\ at[k] = After(at[k - 1], s[k])
  <2>0. s[k] = v(k) /\ k \in Nat /\ k - 1 \in Nat /\ (k - 1) + 1 = k
    BY <1>1
  <2>1. CASE k = 1
    <3>1. at[k - 1] = <<c, NoUnit>> /\ at[k] = <<c, v(k)>> /\ k # size
      BY <1>5, <2>1
    <3>2. Begins(m, c, v(k))
      BY <1>2, <2>0, <2>1 DEF Begins
    <3>3. May(m, <<c, NoUnit>>, v(k))
      BY <3>2 DEF May
    <3>4. After(<<c, NoUnit>>, v(k)) = <<c, v(k)>>
      BY <1>2, <2>0, <3>1 DEF After
    <3> QED BY <2>0, <3>1, <3>3, <3>4
  <2>2. CASE k # 1
    <3>1. k - 1 \in 1..size - 1 /\ at[k - 1] = <<c, v(k - 1)>>
      BY <1>5, <2>2
    <3>2. v(k) = [v(k - 1) EXCEPT !.i = @ + 1] /\ v(k - 1) # NoUnit
      BY <1>2, <2>0
    <3>3. May(m, <<c, v(k - 1)>>, v(k))
      BY <3>2 DEF May
    <3>4. at[k] = After(<<c, v(k - 1)>>, v(k))
      <4>0. v(k).i = k /\ v(k).size = size /\ v(k).ring = r
        BY <1>2, <2>0
      <4>1. CASE k = size
        BY <1>5, <4>0, <4>1 DEF After
      <4>2. CASE k # size
        <5>1. k \in 1..size - 1
          BY <4>2
        <5> QED BY <1>5, <4>0, <4>2, <5>1 DEF After
      <4> QED BY <4>1, <4>2
    <3> QED BY <2>0, <3>1, <3>3, <3>4
  <2> QED BY <2>1, <2>2
<1>7. Path(m, s, <<c, NoUnit>>, <<Tally(c, r), NoUnit>>, at)
  BY <1>1, <1>4, <1>5, <1>6 DEF Path
<1>8. s \in Seq(Units)
  BY <1>1, <1>2, RowInSeq
<1> QED BY <1>1, <1>7, <1>8 DEF Leads, s

\* Units of one ring change the count of that ring alone, ...
LEMMA LeadsOnly ==
  ASSUME NEW m, NEW s, IsRow(s), NEW r \in Rings, \A k \in 1..Len(s) : s[k].ring = r,
         NEW q, NEW z, Leads(m, s, q, z)
  PROVE  \A x \in Rings \ {r} : z[1][x] = q[1][x]
<1>1. PICK at : Path(m, s, q, z, at)
  BY DEF Leads
<1>2. /\ at \in [0..Len(s) -> States] /\ at[0] = q /\ at[Len(s)] = z
      /\ \A k \in 1..Len(s) : May(m, at[k - 1], s[k]) /\ at[k] = After(at[k - 1], s[k])
  BY <1>1 DEF Path
<1>3. Len(s) \in Nat
  BY RowIs
<1> DEFINE T == {k \in Nat : k <= Len(s) => \A x \in Rings \ {r} : at[k][1][x] = q[1][x]}
<1>4. 0 \in T
  BY <1>2
<1>5. ASSUME NEW k \in Nat, k \in T PROVE k + 1 \in T
  <2> SUFFICES ASSUME k + 1 <= Len(s), NEW x \in Rings \ {r} PROVE at[k + 1][1][x] = q[1][x]
    OBVIOUS
  <2>1. k + 1 \in 1..Len(s) /\ (k + 1) - 1 = k /\ k \in 0..Len(s) /\ k <= Len(s)
    BY <1>3
  <2>2. at[k] \in States /\ at[k + 1] = After(at[k], s[k + 1]) /\ s[k + 1].ring = r
    BY <1>2, <2>1
  <2>3. at[k][1] \in Counts /\ at[k][1][x] = q[1][x]
    BY <1>5, <2>1, <2>2 DEF States
  <2>4. Tally(at[k][1], r)[x] = at[k][1][x]
    BY <2>3 DEF Tally, Counts
  <2> QED BY <2>2, <2>3, <2>4 DEF After
<1>6. Nat \subseteq T
  <2> HIDE DEF T
  <2> QED BY <1>4, <1>5, NatSetInduction
<1> QED BY <1>2, <1>3, <1>6

\* ... whatever the counts of the others.
LEMMA LeadsFrame ==
  ASSUME NEW m, NEW s, IsRow(s), NEW r \in Rings, \A k \in 1..Len(s) : s[k].ring = r,
         NEW c, NEW u, NEW z, NEW v, Leads(m, s, <<c, u>>, <<z, v>>),
         NEW d \in Counts, d[r] = c[r]
  PROVE  Leads(m, s, <<d, u>>, <<[d EXCEPT ![r] = z[r]], v>>)
<1>1. PICK at : Path(m, s, <<c, u>>, <<z, v>>, at)
  BY DEF Leads
<1>2. /\ at \in [0..Len(s) -> States] /\ at[0] = <<c, u>> /\ at[Len(s)] = <<z, v>>
      /\ \A k \in 1..Len(s) : May(m, at[k - 1], s[k]) /\ at[k] = After(at[k - 1], s[k])
  BY <1>1 DEF Path
<1>3. Len(s) \in Nat
  BY RowIs
<1> DEFINE e(x) == [d EXCEPT ![r] = x[1][r]]
           b == [k \in 0..Len(s) |-> <<e(at[k]), at[k][2]>>]
<1>4. ASSUME NEW x \in States PROVE e(x) \in Counts /\ e(x)[r] = x[1][r] /\ <<e(x), x[2]>> \in States
  <2>1. x[1] \in Counts /\ x[2] \in Partial
    BY DEF States
  <2>2. e(x) \in Counts /\ e(x)[r] = x[1][r]
    BY <2>1 DEF Counts
  <2> HIDE DEF e
  <2> QED BY <2>1, <2>2 DEF States
<1>5. b \in [0..Len(s) -> States]
  <2> HIDE DEF e
  <2> QED BY <1>2, <1>4
<1>6. b[0] = <<d, u>> /\ b[Len(s)] = <<[d EXCEPT ![r] = z[r]], v>>
  <2>1. e(<<c, u>>) = d
    BY DEF Counts
  <2>2. e(<<z, v>>) = [d EXCEPT ![r] = z[r]]
    OBVIOUS
  <2>3. 0 \in 0..Len(s) /\ Len(s) \in 0..Len(s)
    BY <1>3
  <2> HIDE DEF e
  <2>4. at[0] = <<c, u>> /\ at[Len(s)] = <<z, v>>
    BY <1>2
  <2>5. b[0] = <<e(at[0]), at[0][2]>> /\ b[Len(s)] = <<e(at[Len(s)]), at[Len(s)][2]>>
    BY <2>3
  <2>6. <<c, u>>[2] = u /\ <<z, v>>[2] = v
    OBVIOUS
  <2> HIDE DEF b
  <2> QED BY <2>1, <2>2, <2>4, <2>5, <2>6
<1>7. ASSUME NEW k \in 1..Len(s) PROVE May(m, b[k - 1], s[k]) /\ b[k] = After(b[k - 1], s[k])
  <2>1. k - 1 \in 0..Len(s) /\ k \in 0..Len(s)
    BY <1>3
  <2> DEFINE x == at[k - 1]
             w == s[k]
  <2>2. x \in States /\ May(m, x, w) /\ at[k] = After(x, w) /\ w.ring = r
    BY <1>2, <2>1
  <2>3. b[k - 1] = <<e(x), x[2]>> /\ b[k] = <<e(After(x, w)), After(x, w)[2]>>
    BY <2>1, <2>2
  <2> HIDE DEF x, w, b
  <2>4. May(m, <<e(x), x[2]>>, w)
    <3>1. e(x)[r] = x[1][r]
      BY <1>4, <2>2
    <3> HIDE DEF e
    <3>2. Begins(m, x[1], w) => Begins(m, e(x), w)
      BY <2>2, <3>1 DEF Begins
    <3> QED BY <2>2, <3>2 DEF May
  <2>5. <<e(After(x, w)), After(x, w)[2]>> = After(<<e(x), x[2]>>, w)
    <3>1. CASE w.i = w.size
      <4>1. After(x, w) = <<Tally(x[1], r), NoUnit>> /\ After(<<e(x), x[2]>>, w) = <<Tally(e(x), r), NoUnit>>
        BY <2>2, <3>1 DEF After
      <4>2. x[1] \in Counts /\ r # 0
        BY <2>2 DEF States, Rings
      <4>3. Tally(x[1], r)[r] = x[1][r] + 1
        BY <4>2 DEF Tally, Counts
      <4>4. e(<<Tally(x[1], r), NoUnit>>) = Tally(e(x), r)
        BY <4>2, <4>3 DEF Tally, Counts
      <4> QED BY <4>1, <4>4
    <3>2. CASE w.i # w.size
      <4>1. After(x, w) = <<x[1], w>> /\ After(<<e(x), x[2]>>, w) = <<e(x), w>>
        BY <3>2 DEF After
      <4>2. e(<<x[1], w>>) = e(x)
        OBVIOUS
      <4> QED BY <4>1, <4>2
    <3> QED BY <3>1, <3>2
  <2> QED BY <2>3, <2>4, <2>5 DEF w
<1> HIDE DEF b, e
<1>8. Path(m, s, <<d, u>>, <<[d EXCEPT ![r] = z[r]], v>>, b)
  BY <1>5, <1>6, <1>7 DEF Path
<1> QED BY <1>8 DEF Leads

-----------------------------------------------------------------------------
(* Arithmetic                                                              *)

LEMMA ModRange == ASSUME NEW a \in Nat, NEW n \in Nat \ {0} PROVE a % n \in 0..(n - 1)
  OBVIOUS

LEMMA DivIs ==
  ASSUME NEW a \in Nat, NEW d \in Nat \ {0}
  PROVE  /\ a \div d \in Nat /\ a % d \in 0..d - 1 /\ a = d * (a \div d) + (a % d)
<1>1. a \div d \in Int
  OBVIOUS
<1>5. a % d \in 0..(d - 1)
  BY ModRange
<1>2. a = d * (a \div d) + (a % d)
  OBVIOUS
<1>3. a \div d \in Nat
  <2> DEFINE q == a \div d
             r == a % d
  <2>1. q \in Int /\ r \in 0..d - 1 /\ a = d * q + r
    BY <1>1, <1>2, <1>5
  <2> HIDE DEF q, r
  <2>2. ASSUME q <= -1 PROVE FALSE
    <3>1. d * q <= -d
      BY <2>1, <2>2
    <3> QED BY <2>1, <3>1
  <2>3. q \in Nat
    BY <2>1, <2>2
  <2> QED BY <2>3 DEF q
<1> QED BY <1>1, <1>2, <1>3, <1>5

LEMMA DivUnique ==
  ASSUME NEW a \in Nat, NEW d \in Nat \ {0}, NEW q \in Int, NEW r \in 0..d - 1, a = d * q + r
  PROVE  a \div d = q /\ a % d = r
<1> DEFINE p == a \div d
           s == a % d
<1>1. p \in Int /\ s \in 0..d - 1 /\ a = d * p + s
  BY SMTT(40), DivIs
<1> HIDE DEF p, s
<1>2. d * (p - q) = r - s
  BY <1>1
<1>3. p - q = 0
  <2>1. CASE p - q >= 1
    <3>1. d * (p - q) >= d
      BY <1>1, <2>1
    <3> QED BY <1>1, <1>2, <3>1
  <2>2. CASE p - q <= -1
    <3>1. d * (p - q) <= -d
      BY <1>1, <2>2
    <3> QED BY <1>1, <1>2, <3>1
  <2> QED BY <1>1, <2>1, <2>2
<1> QED BY <1>1, <1>2, <1>3 DEF p, s

\* Places less than d apart are the same place modulo d only if they are one.
LEMMA ModUnique ==
  ASSUME NEW a \in Nat, NEW b \in Nat, NEW d \in Nat \ {0}, a % d = b % d, a - b < d, b - a < d
  PROVE  a = b
<1> DEFINE p == a \div d
           q == b \div d
           s == b % d
<1>1. p \in Int /\ q \in Int /\ s \in Int /\ a = d * p + s /\ b = d * q + s
  BY DivIs
<1> HIDE DEF p, q, s
<1>2. a - b = d * (p - q)
  BY <1>1
<1>3. p - q = 0
  <2>1. CASE p - q >= 1
    <3>1. d * (p - q) >= d
      BY <1>1, <2>1
    <3> QED BY <1>1, <1>2, <3>1
  <2>2. CASE p - q <= -1
    <3>1. d * (p - q) <= -d
      BY <1>1, <2>2
    <3> QED BY <1>1, <1>2, <3>1
  <2> QED BY <1>1, <2>1, <2>2
<1> QED BY <1>1, <1>2, <1>3

\* The next number
LEMMA DivNext ==
  ASSUME NEW a \in Nat, NEW d \in Nat \ {0}
  PROVE  \/ /\ (a % d) + 1 < d /\ (a + 1) \div d = a \div d /\ (a + 1) % d = (a % d) + 1
         \/ /\ (a % d) + 1 = d /\ (a + 1) \div d = a \div d + 1 /\ (a + 1) % d = 0
<1> DEFINE q == a \div d
           r == a % d
<1>1. q \in Int /\ r \in 0..d - 1 /\ a = d * q + r
  BY DivIs
<1> HIDE DEF q, r
<1>2. CASE r + 1 < d
  <2>1. a + 1 = d * q + (r + 1) /\ r + 1 \in 0..d - 1 /\ a + 1 \in Nat
    BY <1>1, <1>2
  <2> QED BY <1>2, <2>1, <1>1, DivUnique DEF q, r
<1>3. CASE r + 1 = d
  <2>1. a + 1 = d * (q + 1) + 0 /\ 0 \in 0..d - 1 /\ a + 1 \in Nat /\ q + 1 \in Int
    BY <1>1, <1>3
  <2>2. (a + 1) \div d = q + 1 /\ (a + 1) % d = 0
    BY <2>1, DivUnique
  <2> QED BY <1>3, <2>2 DEF q, r
<1> QED BY <1>1, <1>2, <1>3
-----------------------------------------------------------------------------
(* A sequence of sequences, one after the other                            *)

Joins(f, s) == f[0] = <<>> /\ \A k \in 1..Len(s) : f[k] = f[k - 1] \o s[k]

LEMMA FlattenIs ==
  ASSUME NEW S, NEW s, IsRow(s), \A k \in 1..Len(s) : s[k] \in Seq(S)
  PROVE  \E f \in [0..Len(s) -> Seq(S)] : Joins(f, s) /\ FlattenSeq(s) = f[Len(s)]
<1> DEFINE n == Len(s)
           X == Seq(S)
           Next_(x, k) == IF k \in 1..n THEN x \o s[k] ELSE x
           F == [k \in Nat |-> [x \in X |-> Next_(x, k)]]
           Eqs(g) == g = [k \in 1..n |-> IF k = 1 THEN s[k] ELSE g[k - 1] \o s[k]]
<1>0. n \in Nat /\ <<>> \in X /\ \A x \in X : <<>> \o x = x
  <2>1. \A x \in X : <<>> \o x = x
    BY ConcatEmptySeq
  <2> QED BY <2>1, RowIs
<1>1. F \in [Nat -> [X -> X]]
  <2>1. \A k \in Nat, x \in X : Next_(x, k) \in X
    <3> SUFFICES ASSUME NEW k \in Nat, NEW x \in X PROVE Next_(x, k) \in X
      OBVIOUS
    <3>1. CASE k \in 1..n
      <4>1. s[k] \in Seq(S) /\ x \in Seq(S)
        BY <3>1
      <4>2. x \o s[k] \in Seq(S)
        BY <4>1, ConcatProperties
      <4> QED BY <3>1, <4>2
    <3> QED BY <3>1
  <2> HIDE DEF Next_, X
  <2> QED BY <2>1
<1>2. PICK h : Iterates(h, X, <<>>, F, n)
  <2> HIDE DEF F, X, n
  <2> QED BY <1>0, <1>1, RecursionExists
<1>3. /\ h \in [0..n -> X] /\ h[0] = <<>>
      /\ \A k \in 1..n : h[k] = F[k][h[k - 1]]
  <2> HIDE DEF F, X
  <2> QED BY <1>2 DEF Iterates
<1>4. ASSUME NEW k \in 1..n PROVE h[k] = h[k - 1] \o s[k]
  <2>1. k \in Nat /\ k - 1 \in 0..n
    BY <1>0
  <2>2. h[k - 1] \in X /\ h[k] = F[k][h[k - 1]]
    <3> HIDE DEF F, X
    <3> QED BY <1>3, <2>1
  <2>3. \A x : Next_(x, k) = x \o s[k]
    OBVIOUS
  <2> HIDE DEF Next_, X
  <2> QED BY <2>1, <2>2, <2>3
<1> HIDE DEF F, Next_
<1>5. Joins(h, s)
  BY <1>3, <1>4 DEF Joins
<1>6. CASE n = 0
  <2>1. s = <<>>
    BY <1>6, RowIs
  <2>2. FlattenSeq(s) = h[n]
    BY <1>3, <1>6, <2>1 DEF FlattenSeq
  <2> QED BY <1>3, <1>5, <2>2
<1>7. CASE n # 0
  <2> DEFINE g == [k \in 1..n |-> h[k]]
  <2>4. ASSUME NEW k \in 1..n
        PROVE  h[k] = IF k = 1 THEN s[k] ELSE h[k - 1] \o s[k]
    <3>1. CASE k = 1
      <4>1. s[k] \in X /\ k - 1 = 0
        BY <3>1
      <4>2. h[k] = <<>> \o s[k]
        BY <1>3, <1>4, <4>1
      <4>3. <<>> \o s[k] = s[k]
        BY <1>0, <4>1
      <4> QED BY <3>1, <4>2, <4>3
    <3>2. CASE k # 1
      BY <1>4, <3>2
    <3> QED BY <3>1, <3>2
  <2>1. Eqs(g)
    <3>1. \A k \in 1..n : g[k] = h[k] /\ (k # 1 => g[k - 1] = h[k - 1])
      BY <1>0
    <3>2. g = [k \in 1..n |-> g[k]]
      OBVIOUS
    <3> HIDE DEF g, n
    <3> QED BY ZenonT(60), <2>4, <3>1, <3>2
  <2> HIDE DEF g
  <2>2. PICK f : Eqs(f) /\ FlattenSeq(s) = f[n]
    <3>1. FlattenSeq(s) = (CHOOSE f : Eqs(f))[n]
      BY <1>7 DEF FlattenSeq
    <3> HIDE DEF Eqs
    <3>2. Eqs(CHOOSE f : Eqs(f))
      BY <2>1
    <3> QED BY <3>1, <3>2
  <2>3. \A k \in 1..n : f[k] = IF k = 1 THEN s[k] ELSE f[k - 1] \o s[k]
    BY <2>2
  <2> HIDE DEF Eqs
  <2> DEFINE T == {k \in Nat : k \in 1..n => f[k] = h[k]}
  <2>5. 0 \in T
    OBVIOUS
  <2>6. ASSUME NEW k \in Nat, k \in T PROVE k + 1 \in T
    <3> SUFFICES ASSUME k + 1 \in 1..n PROVE f[k + 1] = h[k + 1]
      OBVIOUS
    <3>1. CASE k = 0
      <4>1. k + 1 = 1
        BY <3>1
      <4> QED BY <2>3, <2>4, <4>1
    <3>2. CASE k # 0
      <4>1. k \in 1..n /\ (k + 1) - 1 = k /\ k + 1 # 1
        BY <1>0, <3>2
      <4> QED BY <2>3, <2>4, <2>6, <4>1
    <3> QED BY <3>1, <3>2
  <2>7. Nat \subseteq T
    <3> HIDE DEF T
    <3> QED BY <2>5, <2>6, NatSetInduction
  <2>8. f[n] = h[n]
    <3>1. n \in 1..n /\ n \in T
      <4> HIDE DEF T
      <4> QED BY <1>0, <1>7, <2>7
    <3> QED BY <3>1
  <2> QED BY <1>3, <1>5, <2>2, <2>8
<1> QED BY <1>6, <1>7

\* Sequences of one length
Even(s, S, m) == \A k \in 1..Len(s) : s[k] \in Seq(S) /\ Len(s[k]) = m
Laid(f, s, m) ==
  /\ Len(f) = Len(s) * m
  /\ \A k \in 1..Len(s), j \in 1..m : f[(k - 1) * m + j] = s[k][j]
LEMMA FlattenEven ==
  ASSUME NEW S, NEW s, IsRow(s), NEW m \in Nat, Even(s, S, m)
  PROVE  FlattenSeq(s) \in Seq(S) /\ Laid(FlattenSeq(s), s, m)
<1> USE DEF Even
<1>1. PICK f \in [0..Len(s) -> Seq(S)] : Joins(f, s) /\ FlattenSeq(s) = f[Len(s)]
  BY FlattenIs
<1> DEFINE n == Len(s)
           P(l) == Len(f[l]) = l * m /\ \A k \in 1..l, j \in 1..m : f[l][(k - 1) * m + j] = s[k][j]
           T == {l \in Nat : l <= n => P(l)}
<1>0. n \in Nat
  BY RowIs
<1>2. 0 \in T
  BY <1>1 DEF Joins
<1>3. ASSUME NEW l \in Nat, l \in T PROVE l + 1 \in T
  <2> SUFFICES ASSUME l + 1 <= n PROVE P(l + 1)
    OBVIOUS
  <2>1. l \in 0..n /\ l + 1 \in 1..n /\ (l + 1) - 1 = l /\ l <= n
    BY <1>0
  <2>2. Len(f[l]) = l * m /\ \A k \in 1..l, j \in 1..m : f[l][(k - 1) * m + j] = s[k][j]
    BY <1>3, <2>1
  <2> DEFINE a == f[l]
             b == s[l + 1]
  <2>3. a \in Seq(S) /\ b \in Seq(S) /\ Len(b) = m /\ f[l + 1] = a \o b
    BY <1>1, <2>1 DEF Joins
  <2>4. IsRow(a) /\ IsRow(b)
    <3> HIDE DEF a, b
    <3> QED BY <2>3, SeqIsRow
  <2> HIDE DEF a, b
  <2>5. /\ Len(a \o b) = Len(a) + Len(b)
        /\ \A k \in 1..Len(a) : (a \o b)[k] = a[k]
        /\ \A k \in 1..Len(b) : (a \o b)[Len(a) + k] = b[k]
    BY <2>4, JoinIs
  <2>6. Len(a) = l * m
    BY <2>2 DEF a
  <2>7. Len(f[l + 1]) = (l + 1) * m
    <3>1. l * m + m = (l + 1) * m
      OBVIOUS
    <3> QED BY <2>3, <2>5, <2>6, <3>1
  <2>8. ASSUME NEW k \in 1..l + 1, NEW j \in 1..m PROVE f[l + 1][(k - 1) * m + j] = s[k][j]
    <3>1. CASE k = l + 1
      <4>1. (k - 1) * m + j = Len(a) + j
        BY <2>6, <3>1
      <4>2. (a \o b)[Len(a) + j] = b[j]
        BY <2>3, <2>5
      <4> QED BY <2>3, <3>1, <4>1, <4>2 DEF b
    <3>2. CASE k # l + 1
      <4> DEFINE p == (k - 1) * m + j
      <4>1. k \in 1..l
        BY <3>2
      <4>2. p \in 1..l * m
        <5>1. (k - 1) * m \in Nat
          OBVIOUS
        <5>2. (k - 1) * m + m = k * m
          OBVIOUS
        <5>3. k * m <= l * m
          BY <4>1
        <5>4. l * m \in Nat
          OBVIOUS
        <5> DEFINE x == (k - 1) * m
                   y == l * m
        <5>5. x \in Nat /\ y \in Nat /\ x + m <= y
          BY <5>1, <5>2, <5>3, <5>4
        <5> HIDE DEF x, y
        <5>6. x + j \in 1..y
          BY <5>5
        <5> QED BY <5>6 DEF x, y
      <4>3. a[p] = s[k][j]
        BY <2>2, <4>1 DEF a
      <4> HIDE DEF p
      <4>4. (a \o b)[p] = a[p]
        BY <2>5, <2>6, <4>2
      <4>5. f[l + 1][p] = s[k][j]
        BY <2>3, <4>3, <4>4
      <4> QED BY <4>5 DEF p
    <3> QED BY <3>1, <3>2
  <2> QED BY <2>7, <2>8
<1>4. Nat \subseteq T
  <2> HIDE DEF T
  <2> QED BY <1>2, <1>3, NatSetInduction
<1>5. P(n)
  <2>1. n \in T /\ n <= n
    <3> HIDE DEF T
    <3> QED BY <1>0, <1>4
  <2> HIDE DEF P
  <2> QED BY <2>1
<1> QED BY <1>0, <1>1, <1>5 DEF Laid

\* Whole records of the recorder's own
LEMMA FlattenLeads ==
  ASSUME NEW m, NEW c \in Counts, NEW s, IsRow(s),
         \A k \in 1..Len(s) : s[k] \in Seq(Units) /\ Leads(m, s[k], <<c, NoUnit>>, <<c, NoUnit>>)
  PROVE  /\ FlattenSeq(s) \in Seq(Units)
         /\ Leads(m, FlattenSeq(s), <<c, NoUnit>>, <<c, NoUnit>>)
<1>1. PICK f \in [0..Len(s) -> Seq(Units)] : Joins(f, s) /\ FlattenSeq(s) = f[Len(s)]
  BY FlattenIs
<1> DEFINE n == Len(s)
           q == <<c, NoUnit>>
           T == {k \in Nat : k <= n => Leads(m, f[k], q, q)}
<1>0. n \in Nat /\ q \in States
  BY RowIs, NoUnitIs DEF States
<1> HIDE DEF q
<1>2. 0 \in T
  <2>1. f[0] = <<>>
    BY <1>1 DEF Joins
  <2>2. Leads(m, <<>>, q, q)
    BY <1>0, LeadsNothing
  <2> QED BY <2>1, <2>2
<1>3. ASSUME NEW k \in Nat, k \in T PROVE k + 1 \in T
  <2> SUFFICES ASSUME k + 1 <= n PROVE Leads(m, f[k + 1], q, q)
    OBVIOUS
  <2>1. k \in 0..n /\ k + 1 \in 1..n /\ (k + 1) - 1 = k /\ k <= n
    BY <1>0
  <2>2. f[k + 1] = f[k] \o s[k + 1] /\ f[k] \in Seq(Units) /\ s[k + 1] \in Seq(Units)
    BY <1>1, <2>1 DEF Joins
  <2>3. Leads(m, f[k], q, q) /\ Leads(m, s[k + 1], q, q)
    BY <1>3, <2>1 DEF q
  <2>4. IsRow(f[k]) /\ IsRow(s[k + 1])
    BY <2>2, SeqIsRow
  <2>5. Leads(m, f[k] \o s[k + 1], q, q)
    BY <2>3, <2>4, LeadsJoin
  <2> QED BY <2>2, <2>5
<1>4. Nat \subseteq T
  <2> HIDE DEF T
  <2> QED BY <1>2, <1>3, NatSetInduction
<1>5. Leads(m, f[n], q, q)
  <2>1. n \in T
    <3> HIDE DEF T
    <3> QED BY <1>0, <1>4
  <2> QED BY <1>0, <2>1
<1> QED BY SMTT(40), <1>0, <1>1, <1>5 DEF q

-----------------------------------------------------------------------------
(* The inductive invariant                                                 *)

Before == {"procs", "open", "invalid", "failed"}
Writing == {"info", "drain", "copy", "closed"}

\* Counters are opened event by event; a counter's position is its id.
CounterFields == {"pid", "cpu", "evt_num", "ring", "enabled"}
CountersInv ==
  /\ pc \in Before \cup Writing /\ write_to_file \in BOOLEAN /\ use_cpu_minus_one \in BOOLEAN
  /\ IsRow(procs) /\ IsRow(perfCounters) /\ IsFiniteSet(alive)
  /\ \A c \in DOMAIN perfCounters :
       /\ DOMAIN perfCounters[c] = CounterFields
       /\ perfCounters[c].evt_num = 1 + ((c - 1) % NumEvents)
       /\ perfCounters[c].enabled \in BOOLEAN
  /\ Len(perfCounters) <= Wanted
  /\ pc = "procs" => perfCounters = <<>>
  /\ pc \in Writing => Len(perfCounters) = Wanted
  /\ h_attrs \in [evts -> Seq(Nat)]
  /\ \A e \in evts :
       /\ h_attrs[e] \in Seq(Nat)
       /\ Len(h_attrs[e]) = Len(perfCounters) \div NumEvents
                            + (IF e <= Len(perfCounters) % NumEvents THEN 1 ELSE 0)
       /\ \A j \in DOMAIN h_attrs[e] : h_attrs[e][j] = (j - 1) * NumEvents + e

\* The rings are made while the counters are enabled one by one, a ring for
\* the events of each processor or thread.
RingBuffers == [data : [0..RingSize - 1 -> Units], data_head : Nat, data_tail : Nat, prev : Nat]
NumRings(done) == done \div NumEvents + (IF done % NumEvents = 0 THEN 0 ELSE 1)
RingsInv ==
  /\ samples_array \in Seq(RingBuffers) /\ stored \in Seq(Nat)
  /\ Len(stored) = Len(samples_array)
  /\ pc \in {"procs", "open"} =>
       \E done \in 0..Len(perfCounters) :
         /\ Len(perfCounters) < Wanted => done = 0
         /\ Len(samples_array) = NumRings(done)
         /\ \A c \in DOMAIN perfCounters : perfCounters[c].enabled = (c <= done)
  /\ \A c \in DOMAIN perfCounters :
       perfCounters[c].enabled => perfCounters[c].ring \in 1..Len(samples_array)
  /\ \A r \in DOMAIN samples_array : LET md == samples_array[r] IN
       /\ md.data_tail = md.prev /\ md.prev <= md.data_head
       /\ md.data_head <= md.data_tail + RingSize

\* What is copied lies in the ring; once the counters are disabled, the rings
\* that were visited stay empty.
CopyInv ==
  /\ i \in Rings /\ old \in Nat /\ head \in Nat
  /\ pc \in Before \cup {"info"} => i = 1
  /\ pc \notin {"info", "drain"} => pending = <<>>
  /\ pc = "copy" =>
       /\ i \in DOMAIN samples_array
       /\ samples_array[i].prev <= old /\ old <= head /\ head <= samples_array[i].data_head
       /\ ~Enabled => head = samples_array[i].data_head
  /\ pc \in {"drain", "copy"} /\ ~Enabled =>
       \A r \in DOMAIN samples_array : r < i => samples_array[r].prev = samples_array[r].data_head
  /\ pc = "closed" =>
       /\ ~Enabled
       /\ \A r \in DOMAIN samples_array : samples_array[r].prev = samples_array[r].data_head

\* The units from position a to b
Slice(data, a, b) == [k \in 1..b - a |-> data[(a + k - 1) % RingSize]]
Content(r, a, b) == Slice(samples_array[r].data, a, b)

\* From the state that the recorder has written up to, a ring leads to the
\* number of records that it was given; what is being copied ends with a record.
RingOwn(r) ==
  LET md == samples_array[r]
  IN  \A k \in 1..md.data_head - md.prev : Content(r, md.prev, md.data_head)[k].ring = r
RingIdle(r, c) ==
  LET md == samples_array[r]
  IN  Leads(Wanted, Content(r, md.prev, md.data_head), <<c, NoUnit>>,
            <<[c EXCEPT ![r] = stored[r]], NoUnit>>)
RingCopied(r, c, u) ==
  \E n \in Nat : LET read == [c EXCEPT ![r] = n] IN
    /\ Leads(Wanted, Content(r, old, head), <<c, u>>, <<read, NoUnit>>)
    /\ Leads(Wanted, Content(r, head, samples_array[r].data_head),
             <<read, NoUnit>>, <<[c EXCEPT ![r] = stored[r]], NoUnit>>)
RingHolds(r, c, u) ==
  RingOwn(r) /\ IF pc = "copy" /\ r = i THEN RingCopied(r, c, u) ELSE RingIdle(r, c)

Zero == [r \in Rings |-> 0]
RingsHold(c, u) ==
  /\ \A r \in Rings \ DOMAIN samples_array : c[r] = 0
  /\ \A r \in DOMAIN samples_array : RingHolds(r, c, u)
Written ==
  /\ IsRow(out) /\ IsRow(pending)
  /\ pc \in Before => out = <<>>
  /\ write_to_file => total_bytes_recorded = Len(out)
WriterInv(c, u) ==
  /\ c \in Counts /\ u \in Partial
  /\ pc # "copy" => u = NoUnit
  /\ pc \in Before \cup {"info"} => c = Zero
  /\ Written /\ RingsHold(c, u)

\* The header, and what follows it
HeaderLen == 1 + Wanted + NumEvents
Header == IF write_to_file
          THEN _write_header_to_file(IF pc = "closed" THEN total_bytes_recorded ELSE 0)
          ELSE _write_header_to_pipe
Flow == out \o pending
Leftover(k) == SubSeq(Header, k + 1, HeaderLen)
Follows(k, c, u) ==
  \E recs \in Seq(Units) : /\ Flow = Leftover(k) \o recs
                           /\ Leads(Wanted, recs, <<Zero, NoUnit>>, <<c, u>>)

\* The reader of a pipe has read the attributes, then the ids of the first
\* events, then some of the next event.
IdsPerEvent == num_cpus * num_procs
AttrsRead(n) ==
  /\ n < NumEvents /\ rd.ids = reader.ids
  /\ rd.nids = [e \in 1..n |-> IdsPerEvent]
IdsRead(e, n) ==
  /\ rd.nids = [k \in evts |-> IdsPerEvent]
  /\ rd.ids = [k \in evts |-> IF k < e THEN h_attrs[k]
                              ELSE IF k = e THEN SubSeq(h_attrs[e], 1, n) ELSE <<>>]

\* What the reader has counted, and the unit it has read last of a record
Cut(s, r) == {k \in DOMAIN s : s[k].event[1].ring = r}
Read == [r \in Rings |-> Cardinality(Cut(got, r))]
LastUnit == IF rd.event = <<>> THEN NoUnit ELSE rd.event[Len(rd.event)]

AtHeader(c, u) ==
  /\ rd = reader /\ got = <<>>
  /\ pc \in Writing => Follows(0, c, u)
AtIds(e, n, c, u) ==
  /\ IdsRead(e, n) /\ (e = NumEvents + 1 => n = 0)
  /\ Follows(1 + NumEvents + (e - 1) * IdsPerEvent + n, c, u)
AtAttrs(c, u) ==
  /\ ~write_to_file /\ pc \in Writing /\ got = <<>> /\ rd.nattrs = NumEvents
  /\ rd.event = <<>>
  /\ \/ \E n \in Nat : AttrsRead(n) /\ Follows(1 + n, c, u)
     \/ \E e \in 1..NumEvents + 1, n \in 0..IdsPerEvent - 1 : AtIds(e, n, c, u)
AtRecords(c, u) ==
  /\ ~write_to_file /\ pc \in Writing /\ rd.ids = h_attrs
  /\ Leads(Wanted, Flow, <<Read, LastUnit>>, <<c, u>>)
AtOpen(c, u) ==
  /\ write_to_file /\ pc = "closed" /\ got = <<>> /\ rd.ids = h_attrs
  /\ rd.event = <<>> /\ rd.offset = 0 /\ rd.head = HeaderLen /\ rd.end = Len(out)
  /\ Follows(0, c, u)
AtPlace(c, u) ==
  /\ write_to_file /\ pc = "closed" /\ rd.ids = h_attrs /\ rd.event = <<>>
  /\ rd.offset \in Int /\ rd.head \in Int /\ rd.offset + rd.head \in 0..Len(out)
  /\ rd.end = Len(out)
  /\ Leads(Wanted, SubSeq(out, rd.offset + rd.head + 1, Len(out)), <<Read, NoUnit>>, <<c, u>>)
ReaderInv(c, u) ==
  /\ rd.pc = "header" => AtHeader(c, u)
  /\ rd.pc = "attrs" => AtAttrs(c, u)
  /\ rd.pc \in {"pipe", "body"} => AtRecords(c, u)
  /\ rd.pc = "open" => AtOpen(c, u)
  /\ rd.pc = "file" => AtPlace(c, u)
  /\ rd.pc = "done" => pc = "closed" /\ c = Read
  /\ rd.pc = "failed" => pc \in {"closed", "failed"}

\* The record under way is the next of its ring.
ReaderFields == {"pc", "nattrs", "nids", "ids", "event", "offset", "head", "mmap_size", "end"}
EventInv ==
  /\ DOMAIN rd = ReaderFields
  /\ rd.pc \in {"header", "attrs", "pipe", "body", "open", "file", "done", "failed"}
  /\ rd.pc \in {"pipe", "file"} => rd.event = <<>>
  /\ rd.pc = "body" =>
       /\ rd.event \in Seq(Units) /\ Len(rd.event) \in 1..rd.event[1].size - 1
       /\ Begins(Wanted, Read, rd.event[1])
       /\ \A k \in DOMAIN rd.event : rd.event[k] = [rd.event[1] EXCEPT !.i = k]

\* Each record that was cut out is whole, the next of its ring, and its event
\* was found.
GotInv ==
  /\ IsRow(got)
  /\ \A k \in DOMAIN got : LET g == got[k] IN
       /\ Intact(g) /\ g.event[1].ring \in Nat
       /\ g.event[1].ring # 0 =>
            /\ g.event[1].n = Cardinality({j \in Cut(got, g.event[1].ring) : j <= k})
            /\ g.event[1].id \in DOMAIN perfCounters
            /\ g.evt = perfCounters[g.event[1].id].evt_num

StreamInv ==
  /\ CountersInv /\ RingsInv /\ CopyInv /\ EventInv /\ GotInv
  /\ \E c, u : WriterInv(c, u) /\ ReaderInv(c, u)


-----------------------------------------------------------------------------
(* The counters                                                            *)

LEMMA ConstantsAre ==
  /\ RingSize \in Nat \ {0} /\ MmapWindow \in Nat \ {0} /\ PageSize \in Nat \ {0}
  /\ NumCpus \in Nat \ {0} /\ NumEvents \in Nat \ {0}
  /\ \A s \in Sizes : s \in Nat /\ 2 <= s /\ s <= RingSize /\ s + PageSize - 1 <= MmapWindow
  BY StreamAssumption

LEMMA WantedIs ==
  ASSUME IsRow(procs)
  PROVE  /\ num_cpus \in Nat \ {0} /\ num_procs \in Nat \ {0} /\ IdsPerEvent \in Nat \ {0}
         /\ Wanted = IdsPerEvent * NumEvents /\ Wanted \in Nat \ {0}
         /\ HeaderLen = 1 + NumEvents + Wanted /\ HeaderLen \in Nat
<1>1. num_cpus \in Nat \ {0}
  BY ConstantsAre DEF num_cpus
<1>2. num_procs \in Nat \ {0}
  <2>1. Len(procs) \in Nat
    BY RowIs
  <2> QED BY <2>1 DEF num_procs, profile_process_group
<1>3. IdsPerEvent \in Nat \ {0}
  BY <1>1, <1>2 DEF IdsPerEvent
<1>4. Wanted = IdsPerEvent * NumEvents
  BY DEF Wanted, IdsPerEvent
<1>5. Wanted \in Nat \ {0}
  BY <1>3, <1>4, ConstantsAre
<1>6. HeaderLen = 1 + NumEvents + Wanted /\ HeaderLen \in Nat
  BY SMTT(40), <1>5, ConstantsAre DEF HeaderLen
<1> QED BY <1>1, <1>2, <1>3, <1>4, <1>5, <1>6

\* The reader changes nothing of the recorder.
LEMMA ReaderFrame == ASSUME Reader PROVE UNCHANGED recorder
  BY ZenonT(60) DEF Reader, ReadHeaderFromPipe, ReadAttr, ReadId, HeaderRead, PipeClosed,
         _read_header_info_with_ifstream, op_mmap_trace_file, ReadRecordHeader, ReadBody,
         EndOfFile, Remap, _get_perf_event_from_file

\* Steps that leave the counters alone
Setup == <<mode, write_to_file, use_cpu_minus_one, procs, h_attrs>>
PcMoves ==
  /\ pc' \in Before \cup Writing
  /\ pc' = "procs" => pc = "procs"
  /\ pc' \in Writing => pc \in Writing

LEMMA WantedSame ==
  ASSUME UNCHANGED Setup
  PROVE  Wanted' = Wanted /\ IdsPerEvent' = IdsPerEvent /\ HeaderLen' = HeaderLen
<1>1. num_cpus' = num_cpus /\ num_procs' = num_procs
  BY DEF Setup, num_cpus, num_procs, profile_process_group, pid_started
<1> QED BY <1>1 DEF Wanted, IdsPerEvent, HeaderLen

LEMMA CountersSame ==
  ASSUME CountersInv, UNCHANGED <<Setup, perfCounters, alive>>, PcMoves
  PROVE  CountersInv'
<1>1. Wanted' = Wanted /\ UNCHANGED Setup
  BY WantedSame
<1> QED BY <1>1 DEF CountersInv, PcMoves, Setup, IsRow

LEMMA OtherSteps ==
  ASSUME CountersInv,
         \/ Reader \/ op_write_output \/ RecordInfo \/ ReadHead \/ CopyOut \/ UpdateTail \/ Close
         \/ \E c \in DOMAIN perfCounters, size \in Sizes : Store(c, size)
         \/ UNCHANGED vars
  PROVE  UNCHANGED <<Setup, perfCounters, alive>> /\ PcMoves
<1>0. pc \in Before \cup Writing
  BY DEF CountersInv
<1>1. CASE Reader
  BY <1>0, <1>1, ReaderFrame DEF recorder, setupVars, ringVars, Setup, PcMoves
<1>2. CASE op_write_output
  BY <1>0, <1>2 DEF op_write_output, setupVars, ringVars, Setup, PcMoves
<1>3. CASE RecordInfo
  BY <1>0, <1>3 DEF RecordInfo, setupVars, ringVars, Setup, PcMoves, Before, Writing
<1>4. CASE ReadHead
  BY SMTT(40), <1>0, <1>4 DEF ReadHead, setupVars, ringVars, Setup, PcMoves, Before, Writing
<1>5. CASE CopyOut
  BY ZenonT(60), <1>0, <1>5 DEF CopyOut, setupVars, ringVars, Setup, PcMoves, Before, Writing
<1>6. CASE UpdateTail
  BY <1>0, <1>6 DEF UpdateTail, setupVars, ringVars, Setup, PcMoves, Before, Writing
<1>7. CASE Close
  BY SMTT(40), <1>0, <1>7 DEF Close, setupVars, ringVars, Setup, PcMoves, Before, Writing
<1>8. ASSUME NEW c \in DOMAIN perfCounters, NEW size \in Sizes, Store(c, size)
      PROVE  UNCHANGED <<Setup, perfCounters, alive>> /\ PcMoves
  BY ZenonT(60), <1>0, <1>8 DEF Store, setupVars, ringVars, Setup, PcMoves, Before, Writing
<1>9. CASE UNCHANGED vars
  BY <1>0, <1>9 DEF vars, setupVars, ringVars, Setup, PcMoves, Before, Writing
<1> QED BY <1>1, <1>2, <1>3, <1>4, <1>5, <1>6, <1>7, <1>8, <1>9

\* Setting up
LEMMA OpenStep ==
  ASSUME CountersInv, perf_event_open
  PROVE  CountersInv'
<1> DEFINE L == Len(perfCounters)
           ctr == operf_counter(L + 1)
<1>1. /\ pc = "open" /\ L < Wanted /\ pc' \in {"open", "invalid"}
      /\ UNCHANGED <<mode, write_to_file, use_cpu_minus_one, procs, alive>>
      /\ \/ /\ perfCounters' = Append(perfCounters, ctr)
            /\ h_attrs' = [h_attrs EXCEPT ![ctr.evt_num] = Append(@, L + 1)]
         \/ UNCHANGED <<perfCounters, h_attrs>>
  BY DEF perf_event_open, register_perf_event_id
<1>2. Wanted' = Wanted
  BY <1>1 DEF Wanted, num_cpus, num_procs, profile_process_group, pid_started
<1>3. L \in Nat /\ NumEvents \in Nat \ {0} /\ Wanted \in Nat /\ IsRow(perfCounters) /\ DOMAIN perfCounters = 1..L
  BY RowIs, WantedIs, ConstantsAre DEF CountersInv
<1>4. DOMAIN ctr = CounterFields /\ ctr.evt_num = 1 + (L % NumEvents) /\ ctr.enabled \in BOOLEAN
  <2>1. (L + 1) - 1 = L
    BY <1>3
  <2> QED BY <2>1 DEF operf_counter, CounterFields
<1> HIDE DEF ctr
<1>5. CASE UNCHANGED <<perfCounters, h_attrs>>
  BY <1>1, <1>2, <1>5 DEF CountersInv, Before, Writing, IsRow
<1>6. CASE /\ perfCounters' = Append(perfCounters, ctr)
           /\ h_attrs' = [h_attrs EXCEPT ![ctr.evt_num] = Append(@, L + 1)]
  <2> DEFINE e0 == 1 + (L % NumEvents)
             q == L \div NumEvents
             r == L % NumEvents
  <2>1. q \in Nat /\ r \in 0..NumEvents - 1 /\ L = NumEvents * q + r /\ e0 = 1 + r
    BY ZenonT(60), <1>3, DivIs
  <2>2. /\ IsRow(perfCounters') /\ Len(perfCounters') = L + 1
        /\ \A k \in 1..L : perfCounters'[k] = perfCounters[k]
        /\ perfCounters'[L + 1] = ctr
    <3>1. /\ IsRow(Append(perfCounters, ctr)) /\ Len(Append(perfCounters, ctr)) = L + 1
          /\ \A k \in 1..L : Append(perfCounters, ctr)[k] = perfCounters[k]
          /\ Append(perfCounters, ctr)[L + 1] = ctr
      BY <1>3, AppendIs
    <3> QED BY <1>6, <3>1
  <2>3. DOMAIN perfCounters' = 1..L + 1
    BY <2>2, RowIs
  <2>4. \A c \in 1..L + 1 :
          /\ DOMAIN perfCounters'[c] = CounterFields
          /\ perfCounters'[c].evt_num = 1 + ((c - 1) % NumEvents)
          /\ perfCounters'[c].enabled \in BOOLEAN
    <3> SUFFICES ASSUME NEW c \in 1..L + 1
                 PROVE  /\ DOMAIN perfCounters'[c] = CounterFields
                        /\ perfCounters'[c].evt_num = 1 + ((c - 1) % NumEvents)
                        /\ perfCounters'[c].enabled \in BOOLEAN
      OBVIOUS
    <3>1. CASE c = L + 1
      <4>1. c - 1 = L
        BY SMTT(40), <1>3, <3>1
      <4> QED BY <1>4, <2>2, <3>1, <4>1
    <3>2. CASE c # L + 1
      <4>1. c \in 1..L
        BY <1>3, <3>2
      <4> QED BY <1>3, <2>2, <4>1 DEF CountersInv
    <3> QED BY <3>1, <3>2
  <2>5. /\ h_attrs \in [evts -> Seq(Nat)] /\ DOMAIN h_attrs = evts
        /\ \A e \in evts :
             /\ h_attrs[e] \in Seq(Nat)
             /\ Len(h_attrs[e]) = q + (IF e <= r THEN 1 ELSE 0)
             /\ \A j \in DOMAIN h_attrs[e] : h_attrs[e][j] = (j - 1) * NumEvents + e
    BY DEF CountersInv
  <2> DEFINE q2 == (L + 1) \div NumEvents
             r2 == (L + 1) % NumEvents
  <2>6. \/ r + 1 < NumEvents /\ q2 = q /\ r2 = r + 1
        \/ r + 1 = NumEvents /\ q2 = q + 1 /\ r2 = 0
    BY ZenonT(60), <1>3, DivNext
  <2>7. e0 \in evts /\ h_attrs' = [h_attrs EXCEPT ![e0] = Append(@, L + 1)]
    <3>1. e0 = ctr.evt_num
      BY <1>4
    <3>2. e0 \in 1..NumEvents
      <4>1. e0 = 1 + r /\ r \in 0..NumEvents - 1 /\ NumEvents \in Nat
        BY ZenonT(60), <1>3, <2>1
      <4> HIDE DEF e0, r
      <4> QED BY <4>1
    <3> HIDE DEF e0
    <3> QED BY <1>6, <3>1, <3>2 DEF evts
  <2> HIDE DEF e0, q, r, q2, r2
  <2>8. ASSUME NEW e \in evts
        PROVE  /\ h_attrs'[e] \in Seq(Nat)
               /\ Len(h_attrs'[e]) = q2 + (IF e <= r2 THEN 1 ELSE 0)
               /\ \A j \in DOMAIN h_attrs'[e] : h_attrs'[e][j] = (j - 1) * NumEvents + e
    <3>0. e \in 1..NumEvents
      BY DEF evts
    <3>1. CASE e = e0
      <4> DEFINE h == h_attrs[e]
      <4>1. h \in Seq(Nat) /\ Len(h) = q /\ h_attrs'[e] = Append(h, L + 1)
        BY <2>1, <2>5, <2>7, <3>1
      <4>2. \A j \in 1..q : h[j] = (j - 1) * NumEvents + e
        <5>1. DOMAIN h = 1..q
          <6> HIDE DEF h
          <6> QED BY <2>1, <4>1
        <5> QED BY <2>5, <5>1
      <4> HIDE DEF h
      <4>3. /\ Append(h, L + 1) \in Seq(Nat) /\ Len(Append(h, L + 1)) = q + 1
            /\ \A j \in 1..q : Append(h, L + 1)[j] = h[j]
            /\ Append(h, L + 1)[q + 1] = L + 1
        BY <1>3, <4>1, AppendProperties
      <4>4. q2 + (IF e <= r2 THEN 1 ELSE 0) = q + 1
        BY <1>3, <2>1, <2>6, <3>0, <3>1
      <4>5. ASSUME NEW j \in 1..q + 1 PROVE Append(h, L + 1)[j] = (j - 1) * NumEvents + e
        <5>1. CASE j = q + 1
          <6>1. (j - 1) * NumEvents + e = L + 1
            BY <1>3, <2>1, <3>1, <5>1
          <6> QED BY <4>3, <5>1, <6>1
        <5>2. CASE j # q + 1
          <6>1. j \in 1..q
            BY <2>1, <5>2
          <6> QED BY <4>2, <4>3, <6>1
        <5> QED BY <5>1, <5>2
      <4>6. DOMAIN Append(h, L + 1) = 1..q + 1
        BY <4>3
      <4> QED BY <4>1, <4>3, <4>4, <4>5, <4>6
    <3>2. CASE e # e0
      <4>1. h_attrs'[e] = h_attrs[e]
        BY <2>5, <2>7, <3>2
      <4>2. q2 + (IF e <= r2 THEN 1 ELSE 0) = q + (IF e <= r THEN 1 ELSE 0)
        BY <1>3, <2>1, <2>6, <3>0, <3>2
      <4> QED BY <2>5, <4>1, <4>2
    <3> QED BY <3>1, <3>2
  <2>9. h_attrs' \in [evts -> Seq(Nat)]
    <3>1. DOMAIN h_attrs' = evts /\ h_attrs' = [e \in evts |-> h_attrs'[e]]
      BY <2>5, <2>7
    <3> QED BY <2>8, <3>1
  <2>10. L + 1 <= Wanted /\ (pc' \in Writing => L + 1 = Wanted) /\ pc' # "procs"
         /\ pc' \in Before \cup Writing
    BY <1>1, <1>3 DEF Before, Writing
  <2>11. /\ write_to_file' \in BOOLEAN /\ use_cpu_minus_one' \in BOOLEAN
         /\ IsRow(procs') /\ IsFiniteSet(alive')
    BY <1>1 DEF CountersInv, IsRow
  <2> QED
    BY SMTT(40), <1>2, <2>2, <2>3, <2>4, <2>8, <2>9, <2>10, <2>11 DEF CountersInv, q2, r2
<1> QED BY <1>1, <1>5, <1>6

\* Counters get their ring and are enabled, or disabled.
LEMMA EnableSteps ==
  ASSUME CountersInv, prepareToRecord \/ NextRound
  PROVE  CountersInv'
<1>1. UNCHANGED <<Setup, alive, pc>>
  BY DEF prepareToRecord, NextRound, setupVars, Setup
<1>2. Wanted' = Wanted
  BY <1>1, WantedSame
<1>3. IsRow(perfCounters) /\ Len(perfCounters) \in Nat /\ DOMAIN perfCounters = 1..Len(perfCounters)
  BY RowIs DEF CountersInv
<1>4. /\ DOMAIN perfCounters' = DOMAIN perfCounters
      /\ perfCounters' = [c \in DOMAIN perfCounters |-> perfCounters'[c]]
      /\ \A c \in DOMAIN perfCounters :
           /\ DOMAIN perfCounters'[c] = CounterFields
           /\ perfCounters'[c].evt_num = perfCounters[c].evt_num
           /\ perfCounters'[c].enabled \in BOOLEAN
  <2>0. \A c \in DOMAIN perfCounters : DOMAIN perfCounters[c] = CounterFields
                                       /\ perfCounters[c].enabled \in BOOLEAN
    BY DEF CountersInv
  <2>1. CASE prepareToRecord
    <3> DEFINE done == Cardinality({c \in DOMAIN perfCounters : perfCounters[c].enabled})
               ring == 1 + done \div NumEvents
    <3>1. perfCounters' = [perfCounters EXCEPT ![done + 1].ring = ring, ![done + 1].enabled = TRUE]
      BY <2>1 DEF prepareToRecord
    <3> HIDE DEF done, ring
    <3> QED BY <2>0, <3>1 DEF CounterFields
  <2>2. CASE NextRound
    <3>1. \/ perfCounters' = [c \in DOMAIN perfCounters |-> [perfCounters[c] EXCEPT !.enabled = FALSE]]
          \/ perfCounters' = perfCounters
      BY <2>2 DEF NextRound
    <3>2. perfCounters = [c \in DOMAIN perfCounters |-> perfCounters[c]]
      BY RowIs DEF CountersInv
    <3> QED BY ZenonT(60), <2>0, <3>1, <3>2 DEF CounterFields
  <2> QED BY <2>1, <2>2
<1>5. IsRow(perfCounters') /\ Len(perfCounters') = Len(perfCounters)
  <2>1. DOMAIN perfCounters' = 1..Len(perfCounters)
        /\ perfCounters' = [c \in 1..Len(perfCounters) |-> perfCounters'[c]]
    BY <1>3, <1>4
  <2> QED BY <1>3, <2>1, FunctionIsRow
<1>6. perfCounters = <<>> => perfCounters' = <<>>
  BY <1>3, <1>5, RowIs
<1> QED BY SMTT(40), <1>1, <1>2, <1>4, <1>5, <1>6 DEF CountersInv, Setup, IsRow

\* The processes are listed before that; then the header is made.
LEMMA ListSteps ==
  ASSUME CountersInv,
         \/ \E t \in alive : Exit(t)
         \/ \E p \in listed : _get_one_process_info(p)
         \/ op_get_process_info \/ PrepareFails \/ write_op_header_info
  PROVE  CountersInv'
<1>1. ASSUME NEW t \in alive, Exit(t) PROVE CountersInv'
  <2>1. UNCHANGED <<Setup, perfCounters, pc>> /\ alive' = alive \ {t}
    BY <1>1 DEF Exit, setupVars, ringVars, Setup
  <2>2. IsFiniteSet(alive')
    BY <2>1, FS_RemoveElement DEF CountersInv
  <2>3. Wanted' = Wanted
    BY <2>1, WantedSame
  <2> QED BY <2>1, <2>2, <2>3 DEF CountersInv, Setup, IsRow
<1>2. ASSUME NEW p \in listed, _get_one_process_info(p) PROVE CountersInv'
  <2>1. /\ UNCHANGED <<mode, write_to_file, use_cpu_minus_one, h_attrs, perfCounters, alive>>
        /\ pc = "procs" /\ pc' \in {"procs", "invalid"}
    BY <1>2 DEF _get_one_process_info, ringVars
  <2>2. IsRow(procs')
    <3> DEFINE S == {t \in alive : Tgid[t] = p}
               new == [k \in 1..Cardinality(S) |-> [tid |-> SetToSortSeq(S, <)[k], pid |-> p]]
    <3>1. \/ procs' = procs
          \/ procs' = Append(procs, [tid |-> p, pid |-> Tgid[p]])
          \/ procs' = procs \o new
      BY <1>2 DEF _get_one_process_info
    <3>2. IsRow(procs)
      BY DEF CountersInv
    <3>3. Cardinality(S) \in Nat
      BY FS_Subset, FS_CardinalityType DEF CountersInv
    <3>4. IsRow(new)
      <4>1. DOMAIN new = 1..Cardinality(S) /\ new = [k \in 1..Cardinality(S) |-> new[k]]
        OBVIOUS
      <4> HIDE DEF new, S
      <4> QED BY <3>3, <4>1, FunctionIsRow
    <3> HIDE DEF new
    <3> DEFINE one == [tid |-> p, pid |-> Tgid[p]]
    <3> HIDE DEF one
    <3>5. IsRow(procs \o new) /\ IsRow(Append(procs, one))
      BY <3>2, <3>4, JoinIs, AppendIs
    <3>6. procs' = procs \/ procs' = Append(procs, one) \/ procs' = procs \o new
      BY <3>1 DEF one
    <3> QED BY <3>2, <3>5, <3>6
  <2>3. Wanted' \in Nat \ {0}
    <3>1. num_cpus' \in Nat \ {0}
      BY ConstantsAre DEF num_cpus
    <3>2. Len(procs') \in Nat
      BY <2>2, RowIs
    <3>3. num_procs' \in Nat \ {0}
      BY <3>2 DEF num_procs, profile_process_group
    <3>4. Wanted' = num_cpus' * num_procs' * NumEvents
      BY DEF Wanted
    <3>5. \A a, b, d \in Nat \ {0} : a * b * d \in Nat \ {0}
      <4>1. \A a, b \in Nat \ {0} : a * b \in Nat \ {0}
        OBVIOUS
      <4> QED BY <4>1
    <3> QED BY <3>1, <3>3, <3>4, <3>5, ConstantsAre
  <2>4. perfCounters = <<>> /\ Len(perfCounters) = 0
    BY <2>1, RowIs DEF CountersInv
  <2> QED BY <2>1, <2>2, <2>3, <2>4 DEF CountersInv, Before, Writing, IsRow
<1>3. CASE op_get_process_info
  <2>1. UNCHANGED <<Setup, perfCounters, alive>> /\ pc' = "open"
    BY <1>3 DEF op_get_process_info, setupVars, ringVars, Setup
  <2> QED BY <2>1, CountersSame DEF PcMoves, Before, Writing
<1>4. CASE PrepareFails
  <2>1. UNCHANGED <<Setup, perfCounters, alive>> /\ pc' = "invalid"
    BY <1>4 DEF PrepareFails, setupVars, ringVars, Setup
  <2> QED BY <2>1, CountersSame DEF PcMoves, Before, Writing
<1>5. CASE write_op_header_info
  <2>1. UNCHANGED <<Setup, perfCounters, alive>> /\ pc' = "info" /\ Len(perfCounters) = Wanted
    BY <1>5 DEF write_op_header_info, setupVars, ringVars, Setup
  <2>2. Wanted' = Wanted
    BY <2>1, WantedSame
  <2> QED BY <2>1, <2>2 DEF CountersInv, Setup, Before, Writing, IsRow
<1> QED BY <1>1, <1>2, <1>3, <1>4, <1>5

LEMMA CountersStep == ASSUME CountersInv, [Next]_vars PROVE CountersInv'
<1>1. ASSUME \/ Reader \/ op_write_output \/ RecordInfo \/ ReadHead \/ CopyOut \/ UpdateTail \/ Close
             \/ \E c \in DOMAIN perfCounters, size \in Sizes : Store(c, size)
             \/ UNCHANGED vars
      PROVE  CountersInv'
  BY <1>1, OtherSteps, CountersSame
<1> QED BY <1>1, OpenStep, EnableSteps, ListSteps DEF Next, Recorder, Kernel

-----------------------------------------------------------------------------
(* The rings                                                               *)

LEMMA RingIs ==
  ASSUME RingsInv, NEW r \in DOMAIN samples_array
  PROVE  LET md == samples_array[r] IN
         /\ r \in Rings /\ r \in DOMAIN stored /\ stored[r] \in Nat
         /\ md \in RingBuffers /\ md.data \in [0..RingSize - 1 -> Units]
         /\ md.data_head \in Nat /\ md.data_tail \in Nat /\ md.prev \in Nat
         /\ md.data_tail = md.prev /\ md.prev <= md.data_head
         /\ md.data_head <= md.prev + RingSize
<1>1. /\ samples_array \in Seq(RingBuffers) /\ stored \in Seq(Nat)
      /\ Len(stored) = Len(samples_array)
      /\ samples_array[r].data_tail = samples_array[r].prev
      /\ samples_array[r].prev <= samples_array[r].data_head
      /\ samples_array[r].data_head <= samples_array[r].data_tail + RingSize
  BY DEF RingsInv
<1>2. r \in Rings /\ r \in DOMAIN stored /\ samples_array[r] \in RingBuffers
  BY <1>1 DEF Rings
<1>3. stored[r] \in Nat
  BY <1>1, <1>2
<1> QED BY <1>1, <1>2, <1>3 DEF RingBuffers

\* One ring changes.
LEMMA RingChanges ==
  ASSUME RingsInv, NEW r \in DOMAIN samples_array, NEW md \in RingBuffers,
         samples_array' = [samples_array EXCEPT ![r] = md]
  PROVE  /\ samples_array' \in Seq(RingBuffers) /\ Len(samples_array') = Len(samples_array)
         /\ DOMAIN samples_array' = DOMAIN samples_array /\ samples_array'[r] = md
         /\ \A x \in DOMAIN samples_array : x # r => samples_array'[x] = samples_array[x]
<1>1. samples_array \in Seq(RingBuffers)
  BY DEF RingsInv
<1>2. /\ [samples_array EXCEPT ![r] = md] \in Seq(RingBuffers)
      /\ Len([samples_array EXCEPT ![r] = md]) = Len(samples_array)
  <2>1. r \in 1..Len(samples_array)
    BY <1>1
  <2> QED BY <1>1, <2>1, ExceptSeq
<1> QED BY <1>1, <1>2

LEMMA RingsSame ==
  ASSUME RingsInv, UNCHANGED <<samples_array, stored, perfCounters>>, Wanted' = Wanted,
         pc' \in {"procs", "open"} => pc \in {"procs", "open"}
  PROVE  RingsInv'
  BY DEF RingsInv

\* What the kernel stores
NewData(r, c, size) ==
  LET md == samples_array[r]
      At(k, u) == k = (md.data_head + u - 1) % RingSize
  IN  [k \in DOMAIN md.data |->
         IF \E u \in 1..size : At(k, u)
         THEN Unit(r, stored[r] + 1, CHOOSE u \in 1..size : At(k, u), size, c)
         ELSE md.data[k]]
LEMMA StoreIs ==
  ASSUME CountersInv, RingsInv, NEW c \in DOMAIN perfCounters, NEW size \in Sizes, Store(c, size)
  PROVE  LET r == perfCounters[c].ring
             md == samples_array[r]
         IN  /\ perfCounters[c].enabled /\ r \in DOMAIN samples_array
             /\ size \in Nat /\ 2 <= size /\ size <= RingSize
             /\ md.data_head + size <= md.prev + RingSize
             /\ NewData(r, c, size) \in [0..RingSize - 1 -> Units]
             /\ samples_array' = [samples_array EXCEPT ![r] =
                  [md EXCEPT !.data_head = @ + size, !.data = NewData(r, c, size)]]
             /\ stored' = [stored EXCEPT ![r] = @ + 1]
             /\ UNCHANGED <<setupVars, perfCounters, copyVars, alive, pc, pending, out,
                            total_bytes_recorded, rd, got>>
<1> DEFINE r == perfCounters[c].ring
           md == samples_array[r]
<1>0. size \in Nat /\ 2 <= size /\ size <= RingSize /\ RingSize \in Nat \ {0}
  BY ConstantsAre
<1>1. /\ perfCounters[c].enabled /\ md.data_head + size - md.data_tail <= RingSize
      /\ samples_array' =
          [samples_array EXCEPT
             ![r].data_head = @ + size,
             ![r].data = [k \in DOMAIN @ |->
               IF \E u \in 1..size : k = (md.data_head + u - 1) % RingSize
               THEN Unit(r, stored[r] + 1,
                         CHOOSE u \in 1..size : k = (md.data_head + u - 1) % RingSize, size, c)
               ELSE @[k]]]
      /\ stored' = [stored EXCEPT ![r] = @ + 1]
      /\ UNCHANGED <<setupVars, perfCounters, copyVars, alive, pc, pending, out,
                     total_bytes_recorded, rd, got>>
  BY DEF Store
<1>2. r \in DOMAIN samples_array
  <2>1. r \in 1..Len(samples_array)
    BY <1>1 DEF RingsInv
  <2>2. samples_array \in Seq(RingBuffers)
    BY DEF RingsInv
  <2> HIDE DEF r
  <2> QED BY <2>1, <2>2
<1>3. /\ stored[r] \in Nat /\ md \in RingBuffers /\ md.data \in [0..RingSize - 1 -> Units]
      /\ md.data_head \in Nat /\ md.data_tail \in Nat /\ md.prev \in Nat /\ md.data_tail = md.prev
      /\ r \in Rings
  BY <1>2, RingIs
<1>4. md.data_head + size <= md.prev + RingSize
  BY SMTT(40), <1>0, <1>1, <1>3
<1>5. NewData(r, c, size) \in [0..RingSize - 1 -> Units]
  <2>1. c \in Nat
    BY RowIs DEF CountersInv
  <2> DEFINE At(k, u) == k = (md.data_head + u - 1) % RingSize
  <2>2. ASSUME NEW k \in 0..RingSize - 1, \E u \in 1..size : At(k, u)
        PROVE  Unit(r, stored[r] + 1, CHOOSE u \in 1..size : At(k, u), size, c) \in Units
    <3> DEFINE v == CHOOSE u \in 1..size : At(k, u)
    <3>1. v \in 1..size
      <4> HIDE DEF At
      <4> QED BY <2>2
    <3> HIDE DEF v, r
    <3>2. Unit(r, stored[r] + 1, v, size, c) \in Units
      <4>1. r \in Nat /\ stored[r] + 1 \in Nat /\ v \in Nat
        BY <1>3, <3>1 DEF Rings
      <4> QED BY <1>0, <2>1, <4>1 DEF Unit, Units
    <3> QED BY <3>2 DEF v
  <2>3. NewData(r, c, size) =
          [k \in DOMAIN md.data |->
             IF \E u \in 1..size : At(k, u)
             THEN Unit(r, stored[r] + 1, CHOOSE u \in 1..size : At(k, u), size, c)
             ELSE md.data[k]]
    BY DEF NewData
  <2> HIDE DEF At, md, r
  <2> QED BY <1>3, <2>2, <2>3
<1>6. samples_array' = [samples_array EXCEPT ![r] =
                          [md EXCEPT !.data_head = @ + size, !.data = NewData(r, c, size)]]
  <2> DEFINE d == NewData(r, c, size)
  <2>1. d = [k \in DOMAIN md.data |->
               IF \E u \in 1..size : k = (md.data_head + u - 1) % RingSize
               THEN Unit(r, stored[r] + 1,
                         CHOOSE u \in 1..size : k = (md.data_head + u - 1) % RingSize, size, c)
               ELSE md.data[k]]
    BY DEF NewData
  <2>2. samples_array' = [samples_array EXCEPT ![r].data_head = @ + size, ![r].data = d]
    BY <1>1, <2>1
  <2> HIDE DEF d, r
  <2> QED BY <1>2, <1>3, <2>2 DEF RingBuffers, d
<1> QED BY <1>0, <1>1, <1>2, <1>4, <1>5, <1>6

LEMMA RingsStored ==
  ASSUME CountersInv, RingsInv, NEW c \in DOMAIN perfCounters, NEW size \in Sizes, Store(c, size)
  PROVE  RingsInv'
<1> DEFINE r == perfCounters[c].ring
           md == samples_array[r]
           new == [md EXCEPT !.data_head = @ + size, !.data = NewData(r, c, size)]
<1>1. /\ r \in DOMAIN samples_array
      /\ size \in Nat /\ md.data_head + size <= md.prev + RingSize
      /\ NewData(r, c, size) \in [0..RingSize - 1 -> Units]
      /\ samples_array' = [samples_array EXCEPT ![r] = new]
      /\ stored' = [stored EXCEPT ![r] = @ + 1]
      /\ UNCHANGED <<setupVars, perfCounters, copyVars, alive, pc, pending, out,
                     total_bytes_recorded, rd, got>>
  BY StoreIs
<1>2. /\ stored[r] \in Nat /\ r \in DOMAIN stored
      /\ md \in RingBuffers /\ md.data_head \in Nat /\ md.data_tail \in Nat /\ md.prev \in Nat
      /\ md.data_tail = md.prev /\ md.prev <= md.data_head
  BY <1>1, RingIs
<1>0. RingSize \in Nat
  BY ConstantsAre
<1> DEFINE data == NewData(r, c, size)
<1>3. /\ new \in RingBuffers /\ new.data_head = md.data_head + size /\ new.data_tail = md.data_tail
      /\ new.prev = md.prev
  <2> HIDE DEF data, md
  <2>1. data \in [0..RingSize - 1 -> Units]
    BY <1>1 DEF data, md
  <2>2. [md EXCEPT !.data_head = @ + size, !.data = data] \in RingBuffers
        /\ [md EXCEPT !.data_head = @ + size, !.data = data].data_head = md.data_head + size
        /\ [md EXCEPT !.data_head = @ + size, !.data = data].data_tail = md.data_tail
        /\ [md EXCEPT !.data_head = @ + size, !.data = data].prev = md.prev
    <3> DEFINE h == md.data_head + size
    <3>1. h \in Nat
      BY <1>1, <1>2 DEF md
    <3> HIDE DEF h
    <3>2. [md EXCEPT !.data_head = h, !.data = data] \in RingBuffers
          /\ [md EXCEPT !.data_head = h, !.data = data].data_head = h
          /\ [md EXCEPT !.data_head = h, !.data = data].data_tail = md.data_tail
          /\ [md EXCEPT !.data_head = h, !.data = data].prev = md.prev
      <4>1. md \in RingBuffers
        BY <1>2 DEF md
      <4> QED BY <2>1, <3>1, <4>1 DEF RingBuffers
    <3> QED BY <3>2 DEF h
  <2> QED BY <2>2 DEF data, md
<1> HIDE DEF new
<1>4. /\ samples_array' \in Seq(RingBuffers) /\ Len(samples_array') = Len(samples_array)
      /\ DOMAIN samples_array' = DOMAIN samples_array /\ samples_array'[r] = new
      /\ \A x \in DOMAIN samples_array : x # r => samples_array'[x] = samples_array[x]
  BY <1>1, <1>3, RingChanges
<1>5. stored' \in Seq(Nat) /\ Len(stored') = Len(stored)
  <2>1. stored \in Seq(Nat) /\ r \in 1..Len(stored) /\ stored[r] + 1 \in Nat
    BY <1>2 DEF RingsInv
  <2>2. stored' = [stored EXCEPT ![r] = stored[r] + 1]
    BY <1>1
  <2> HIDE DEF r
  <2> QED BY <2>1, <2>2, ExceptSeq
<1>6. \A x \in DOMAIN samples_array' : LET m == samples_array'[x] IN
       /\ m.data_tail = m.prev /\ m.prev <= m.data_head
       /\ m.data_head <= m.data_tail + RingSize
  <2> SUFFICES ASSUME NEW x \in DOMAIN samples_array
               PROVE  LET m == samples_array'[x] IN
                      /\ m.data_tail = m.prev /\ m.prev <= m.data_head
                      /\ m.data_head <= m.data_tail + RingSize
    BY <1>4
  <2>1. CASE x = r
    <3> HIDE DEF md, r
    <3> QED BY SMTT(40), <1>0, <1>1, <1>2, <1>3, <1>4, <2>1
  <2>2. CASE x # r
    BY <1>4, <2>2 DEF RingsInv
  <2> QED BY <2>1, <2>2
<1>7. UNCHANGED <<perfCounters, pc>> /\ Wanted' = Wanted
  BY <1>1 DEF Wanted, num_cpus, num_procs, profile_process_group, pid_started, setupVars
<1> QED BY <1>4, <1>5, <1>6, <1>7 DEF RingsInv

LEMMA RingsRead ==
  ASSUME CountersInv, RingsInv, CopyInv, UpdateTail
  PROVE  RingsInv'
<1> DEFINE md == samples_array[i]
           new == [md EXCEPT !.prev = old, !.data_tail = old]
<1>1. /\ pc = "copy" /\ old = head /\ pc' = "drain"
      /\ samples_array' = [samples_array EXCEPT ![i].prev = old, ![i].data_tail = old]
      /\ UNCHANGED <<setupVars, perfCounters, stored>>
  BY DEF UpdateTail
<1>2. i \in DOMAIN samples_array /\ md.prev <= old /\ old <= md.data_head /\ old \in Nat
  BY <1>1 DEF CopyInv
<1>3. /\ md \in RingBuffers /\ md.data_head \in Nat /\ md.prev \in Nat /\ md.data_tail = md.prev
      /\ md.data_head <= md.prev + RingSize /\ RingSize \in Nat
  BY <1>2, RingIs, ConstantsAre
<1>4. /\ new \in RingBuffers /\ new.data_head = md.data_head /\ new.data_tail = old /\ new.prev = old
  <2> HIDE DEF md
  <2> QED BY <1>2, <1>3 DEF RingBuffers
<1>5. samples_array' = [samples_array EXCEPT ![i] = new]
  BY <1>1
<1> HIDE DEF new
<1>6. /\ samples_array' \in Seq(RingBuffers) /\ Len(samples_array') = Len(samples_array)
      /\ DOMAIN samples_array' = DOMAIN samples_array /\ samples_array'[i] = new
      /\ \A x \in DOMAIN samples_array : x # i => samples_array'[x] = samples_array[x]
  BY <1>2, <1>4, <1>5, RingChanges
<1>7. \A x \in DOMAIN samples_array' : LET m == samples_array'[x] IN
       /\ m.data_tail = m.prev /\ m.prev <= m.data_head
       /\ m.data_head <= m.data_tail + RingSize
  <2> SUFFICES ASSUME NEW x \in DOMAIN samples_array
               PROVE  LET m == samples_array'[x] IN
                      /\ m.data_tail = m.prev /\ m.prev <= m.data_head
                      /\ m.data_head <= m.data_tail + RingSize
    BY <1>6
  <2>1. CASE x = i
    <3> HIDE DEF md
    <3> QED BY SMTT(40), <1>2, <1>3, <1>4, <1>6, <2>1
  <2>2. CASE x # i
    BY <1>6, <2>2 DEF RingsInv
  <2> QED BY <2>1, <2>2
<1> QED BY <1>1, <1>6, <1>7 DEF RingsInv

\* A counter is opened: there is no ring yet.
LEMMA RingsOpen ==
  ASSUME CountersInv, RingsInv, perf_event_open
  PROVE  RingsInv'
<1> DEFINE L == Len(perfCounters)
           ctr == operf_counter(L + 1)
<1>1. /\ pc = "open" /\ L < Wanted /\ pc' \in {"open", "invalid"}
      /\ UNCHANGED <<mode, write_to_file, use_cpu_minus_one, procs, samples_array, stored>>
      /\ perfCounters' = Append(perfCounters, ctr) \/ UNCHANGED perfCounters
  BY DEF perf_event_open
<1>2. L \in Nat /\ IsRow(perfCounters) /\ DOMAIN perfCounters = 1..L
  BY RowIs DEF CountersInv
<1>3. PICK done \in 0..L :
         /\ L < Wanted => done = 0
         /\ Len(samples_array) = NumRings(done)
         /\ \A c \in DOMAIN perfCounters : perfCounters[c].enabled = (c <= done)
  BY <1>1 DEF RingsInv
<1>4. done = 0 /\ \A c \in DOMAIN perfCounters : perfCounters[c].enabled = FALSE
  <2>1. done = 0
    BY <1>1, <1>3
  <2>2. ASSUME NEW c \in DOMAIN perfCounters PROVE perfCounters[c].enabled = FALSE
    <3>1. c \in 1..L
      BY <1>2
    <3>2. (c <= 0) = FALSE
      BY <1>2, <3>1
    <3>3. perfCounters[c].enabled = (c <= 0)
      BY <1>3, <2>1
    <3> QED BY <3>2, <3>3
  <2> QED BY <2>1, <2>2
<1>5. Wanted' = Wanted
  BY <1>1 DEF Wanted, num_cpus, num_procs, profile_process_group, pid_started
<1>6. L' \in Nat /\ DOMAIN perfCounters' = 1..L' /\ \A c \in DOMAIN perfCounters' : perfCounters'[c].enabled = FALSE
  <2>1. CASE UNCHANGED perfCounters
    BY <1>2, <1>3, <1>4, <2>1
  <2>2. CASE perfCounters' = Append(perfCounters, ctr)
    <3>1. ctr.enabled = FALSE
      BY DEF operf_counter
    <3> HIDE DEF ctr
    <3>2. /\ IsRow(Append(perfCounters, ctr)) /\ Len(Append(perfCounters, ctr)) = L + 1
          /\ \A k \in 1..L : Append(perfCounters, ctr)[k] = perfCounters[k]
          /\ Append(perfCounters, ctr)[L + 1] = ctr
      BY <1>2, AppendIs
    <3>3. IsRow(perfCounters') /\ L' = L + 1 /\ L' \in Nat
      BY <1>2, <2>2, <3>2
    <3>4. DOMAIN perfCounters' = 1..L'
      BY <3>3, RowIs
    <3>5. ASSUME NEW c \in 1..L + 1 PROVE perfCounters'[c].enabled = FALSE
      <4>1. CASE c = L + 1
        BY <2>2, <3>1, <3>2, <4>1
      <4>2. CASE c # L + 1
        <5>1. c \in 1..L
          BY <1>2, <4>2
        <5>2. perfCounters'[c] = perfCounters[c]
          BY <2>2, <3>2, <5>1
        <5> QED BY <1>2, <1>3, <1>4, <5>1, <5>2
      <4> QED BY <4>1, <4>2
    <3> QED BY <3>3, <3>4, <3>5
  <2> QED BY <1>1, <2>1, <2>2
<1>7. /\ 0 \in 0..L' /\ (L' < Wanted' => 0 = 0) /\ Len(samples_array') = NumRings(0)
      /\ \A c \in DOMAIN perfCounters' : perfCounters'[c].enabled = (c <= 0)
  <2>1. ASSUME NEW c \in DOMAIN perfCounters' PROVE perfCounters'[c].enabled = (c <= 0)
    <3>1. c \in 1..L'
      BY <1>6
    <3>2. (c <= 0) = FALSE
      BY <1>6, <3>1
    <3>3. perfCounters'[c].enabled = FALSE
      BY <1>6
    <3> QED BY <3>2, <3>3
  <2>2. 0 \in 0..L'
    BY <1>6
  <2>3. Len(samples_array') = NumRings(0)
    BY <1>1, <1>3, <1>4
  <2> QED BY <2>1, <2>2, <2>3
<1>8. \E done_ \in 0..L' :
         /\ L' < Wanted' => done_ = 0
         /\ Len(samples_array') = NumRings(done_)
         /\ \A c \in DOMAIN perfCounters' : perfCounters'[c].enabled = (c <= done_)
  BY <1>7
<1> QED BY ZenonT(60), <1>1, <1>6, <1>8 DEF RingsInv

\* Counters are enabled one by one, each group of them with its ring.
LEMMA RingsPrepared ==
  ASSUME CountersInv, RingsInv, prepareToRecord
  PROVE  RingsInv'
<1> DEFINE done == Cardinality({c \in DOMAIN perfCounters : perfCounters[c].enabled})
           first == done % NumEvents = 0
           ring == 1 + done \div NumEvents
           W == Wanted
<1>1. /\ pc = "open" /\ Len(perfCounters) = W /\ done < W
      /\ IF first THEN _prepare_to_record_one_fd ELSE samples_array' = samples_array
      /\ stored' = IF first THEN Append(stored, 0) ELSE stored
      /\ perfCounters' = [perfCounters EXCEPT ![done + 1].ring = ring, ![done + 1].enabled = TRUE]
      /\ UNCHANGED <<setupVars, pc>>
  BY DEF prepareToRecord
<1>0. W \in Nat /\ NumEvents \in Nat \ {0} /\ DOMAIN perfCounters = 1..W /\ RingSize \in Nat \ {0}
      /\ \A c \in DOMAIN perfCounters : DOMAIN perfCounters[c] = CounterFields
  BY <1>1, RowIs, WantedIs, ConstantsAre DEF CountersInv
<1>2. PICK n \in 0..W : /\ Len(samples_array) = NumRings(n)
                        /\ \A c \in DOMAIN perfCounters : perfCounters[c].enabled = (c <= n)
  BY <1>1 DEF RingsInv
<1>3. done = n
  <2>1. {c \in DOMAIN perfCounters : perfCounters[c].enabled} = 1..n
    <3>1. ASSUME NEW c \in 1..W PROVE perfCounters[c].enabled <=> c \in 1..n
      <4>1. perfCounters[c].enabled = (c <= n)
        BY <1>0, <1>2
      <4>2. (c <= n) <=> c \in 1..n
        BY <1>0
      <4> QED BY <4>1, <4>2
    <3>2. 1..n \subseteq 1..W
      BY <1>0
    <3> QED BY <1>0, <3>1, <3>2
  <2>2. Cardinality(1..n) = n
    BY <1>0, FS_Interval
  <2> QED BY <2>1, <2>2
<1> HIDE DEF done, W
<1> DEFINE q == n \div NumEvents
           r == n % NumEvents
           q2 == (n + 1) \div NumEvents
           r2 == (n + 1) % NumEvents
<1>4. /\ n \in Nat /\ q \in Nat /\ r \in 0..NumEvents - 1 /\ (first <=> r = 0) /\ ring = 1 + q
      /\ NumRings(n) = q + (IF r = 0 THEN 0 ELSE 1)
      /\ NumRings(n + 1) = q2 + (IF r2 = 0 THEN 0 ELSE 1)
  BY SMTT(40), <1>0, <1>3, DivIs DEF NumRings
<1>5. \/ r + 1 < NumEvents /\ q2 = q /\ r2 = r + 1
      \/ r + 1 = NumEvents /\ q2 = q + 1 /\ r2 = 0
  BY <1>0, <1>4, DivNext
<1> HIDE DEF q, r, q2, r2, ring, first
<1>6. /\ NumRings(n + 1) = NumRings(n) + (IF first THEN 1 ELSE 0)
      /\ ring \in 1..NumRings(n + 1) /\ NumRings(n) \in Nat
  <2>1. CASE r + 1 < NumEvents /\ q2 = q /\ r2 = r + 1
    <3>1. r2 # 0 /\ NumRings(n + 1) = q + 1
      BY <1>0, <1>4, <2>1
    <3>2. CASE r = 0
      <4>1. first /\ NumRings(n) = q
        BY <1>4, <3>2
      <4> QED BY <1>4, <3>1, <4>1
    <3>3. CASE r # 0
      <4>1. ~first /\ NumRings(n) = q + 1
        BY <1>4, <3>3
      <4> QED BY <1>4, <3>1, <4>1
    <3> QED BY <3>2, <3>3
  <2>2. CASE r + 1 = NumEvents /\ q2 = q + 1 /\ r2 = 0
    <3>1. NumRings(n + 1) = q + 1
      BY <1>0, <1>4, <2>2
    <3>2. CASE r = 0
      <4>1. first /\ NumRings(n) = q
        BY <1>4, <3>2
      <4> QED BY <1>4, <3>1, <4>1
    <3>3. CASE r # 0
      <4>1. ~first /\ NumRings(n) = q + 1
        BY <1>4, <3>3
      <4> QED BY <1>4, <3>1, <4>1
    <3> QED BY <3>2, <3>3
  <2> QED BY <1>5, <2>1, <2>2
<1> DEFINE empty == [data |-> [k \in 0..RingSize - 1 |-> Unit(0, 0, 0, 0, 0)],
                     data_head |-> 0, data_tail |-> 0, prev |-> 0]
<1>7. /\ empty \in RingBuffers /\ empty.data_tail = empty.prev /\ empty.prev <= empty.data_head
      /\ empty.data_head <= empty.data_tail + RingSize
  BY <1>0, NoUnitIs DEF RingBuffers, NoUnit
<1>8. samples_array' = IF first THEN Append(samples_array, empty) ELSE samples_array
  BY <1>1 DEF _prepare_to_record_one_fd
<1> HIDE DEF empty
<1>9. /\ samples_array \in Seq(RingBuffers) /\ stored \in Seq(Nat)
      /\ Len(stored) = Len(samples_array)
      /\ \A x \in DOMAIN samples_array : LET md == samples_array[x] IN
           /\ md.data_tail = md.prev /\ md.prev <= md.data_head
           /\ md.data_head <= md.data_tail + RingSize
      /\ \A c \in DOMAIN perfCounters :
           perfCounters[c].enabled => perfCounters[c].ring \in 1..Len(samples_array)
  BY DEF RingsInv
<1>10. /\ samples_array' \in Seq(RingBuffers) /\ stored' \in Seq(Nat)
       /\ Len(stored') = Len(samples_array') /\ Len(samples_array') = NumRings(n + 1)
       /\ \A x \in DOMAIN samples_array' : LET md == samples_array'[x] IN
            /\ md.data_tail = md.prev /\ md.prev <= md.data_head
            /\ md.data_head <= md.data_tail + RingSize
  <2>1. CASE first
    <3>1. /\ samples_array' = Append(samples_array, empty) /\ stored' = Append(stored, 0)
      BY <1>1, <1>8, <2>1
    <3>2. /\ samples_array' \in Seq(RingBuffers) /\ Len(samples_array') = Len(samples_array) + 1
          /\ \A x \in 1..Len(samples_array) : samples_array'[x] = samples_array[x]
          /\ samples_array'[Len(samples_array) + 1] = empty
      BY <1>7, <1>9, <3>1, AppendProperties
    <3>3. stored' \in Seq(Nat) /\ Len(stored') = Len(stored) + 1
      BY <1>9, <3>1, AppendProperties
    <3>4. ASSUME NEW x \in DOMAIN samples_array'
          PROVE  LET md == samples_array'[x] IN
                 /\ md.data_tail = md.prev /\ md.prev <= md.data_head
                 /\ md.data_head <= md.data_tail + RingSize
      <4>1. x \in 1..Len(samples_array) + 1 /\ Len(samples_array) \in Nat
            /\ DOMAIN samples_array = 1..Len(samples_array)
        BY <1>9, <3>2
      <4>2. CASE x = Len(samples_array) + 1
        BY <1>7, <3>2, <4>2
      <4>3. CASE x # Len(samples_array) + 1
        <5>1. x \in 1..Len(samples_array)
          BY <4>1, <4>3
        <5> QED BY <1>9, <3>2, <4>1, <5>1
      <4> QED BY <4>2, <4>3
    <3> QED BY <1>2, <1>6, <1>9, <2>1, <3>2, <3>3, <3>4
  <2>2. CASE ~first
    BY <1>1, <1>2, <1>6, <1>8, <1>9, <2>2
  <2> QED BY <2>1, <2>2
<1>11. /\ DOMAIN perfCounters' = DOMAIN perfCounters
       /\ \A c \in DOMAIN perfCounters :
            /\ c # n + 1 => perfCounters'[c] = perfCounters[c]
            /\ c = n + 1 => perfCounters'[c].enabled = TRUE /\ perfCounters'[c].ring = ring
  BY <1>0, <1>1, <1>3 DEF CounterFields
<1>12. \A c \in DOMAIN perfCounters' : perfCounters'[c].enabled = (c <= n + 1)
  <2> SUFFICES ASSUME NEW c \in 1..W PROVE perfCounters'[c].enabled = (c <= n + 1)
    BY <1>0, <1>11
  <2>1. CASE c = n + 1
    <3>1. (c <= n + 1) = TRUE
      BY <1>4, <2>1
    <3> QED BY <1>0, <1>11, <2>1, <3>1
  <2>2. CASE c # n + 1
    <3>1. (c <= n + 1) = (c <= n)
      BY <1>0, <1>4, <2>2
    <3> QED BY <1>0, <1>2, <1>11, <2>2, <3>1
  <2> QED BY <2>1, <2>2
<1>13. \A c \in DOMAIN perfCounters' :
         perfCounters'[c].enabled => perfCounters'[c].ring \in 1..Len(samples_array')
  <2>1. Len(samples_array) \in Nat /\ Len(samples_array) <= Len(samples_array')
        /\ Len(samples_array') \in Nat /\ ring \in 1..Len(samples_array')
    BY <1>2, <1>4, <1>6, <1>10
  <2> QED BY <1>9, <1>11, <2>1
<1>14. n + 1 \in 0..W /\ Len(perfCounters') = W /\ Wanted' = W
  <2>1. n + 1 \in 0..W
    BY SMTT(40), <1>0, <1>1, <1>3, <1>4
  <2>2. Wanted' = W
    BY <1>1 DEF W, Wanted, num_cpus, num_procs, profile_process_group, pid_started, setupVars
  <2>3. Len(perfCounters') = W
    <3>1. IsRow(perfCounters')
      BY EnableSteps DEF CountersInv
    <3>2. DOMAIN perfCounters' = 1..Len(perfCounters') /\ Len(perfCounters') \in Nat
      BY <3>1, RowIs
    <3>3. 1..Len(perfCounters') = 1..W
      BY <1>0, <1>11, <3>2
    <3>4. \A a, b \in Nat : 1..a = 1..b => a = b
      <4> SUFFICES ASSUME NEW a \in Nat, NEW b \in Nat, 1..a = 1..b, a # b PROVE FALSE
        OBVIOUS
      <4>1. a < b \/ b < a
        OBVIOUS
      <4>2. (b \in 1..b /\ b \notin 1..a) \/ (a \in 1..a /\ a \notin 1..b)
        BY <4>1
      <4> QED BY <4>2
    <3> QED BY ZenonT(60), <1>0, <3>2, <3>3, <3>4
  <2> QED BY <2>1, <2>2, <2>3
<1>15. \E d \in 0..Len(perfCounters') :
         /\ Len(perfCounters') < Wanted' => d = 0
         /\ Len(samples_array') = NumRings(d)
         /\ \A c \in DOMAIN perfCounters' : perfCounters'[c].enabled = (c <= d)
  <2>1. n + 1 \in 0..Len(perfCounters') /\ ~(Len(perfCounters') < Wanted')
    BY <1>0, <1>14
  <2> QED BY <1>10, <1>12, <2>1
<1> QED BY <1>10, <1>13, <1>15 DEF RingsInv

LEMMA RingsStep == ASSUME CountersInv, RingsInv, CopyInv, [Next]_vars PROVE RingsInv'
<1>1. ASSUME \/ Reader \/ op_write_output \/ RecordInfo \/ ReadHead \/ CopyOut \/ Close
             \/ op_get_process_info \/ PrepareFails \/ write_op_header_info
             \/ \E t \in alive : Exit(t)
             \/ UNCHANGED vars
      PROVE  RingsInv'
  <2>1. UNCHANGED <<samples_array, stored, perfCounters, mode, write_to_file, use_cpu_minus_one, procs>>
        /\ (pc' \in {"procs", "open"} => pc \in {"procs", "open"})
    <3>1. CASE Reader
      BY SMTT(40), <3>1, ReaderFrame DEF recorder, setupVars, ringVars
    <3>2. CASE \/ op_write_output \/ RecordInfo \/ ReadHead \/ CopyOut \/ Close
      BY <3>2 DEF op_write_output, RecordInfo, ReadHead, CopyOut, Close, setupVars, ringVars
    <3>3. CASE \/ op_get_process_info \/ PrepareFails \/ write_op_header_info
               \/ \E t \in alive : Exit(t)
      BY <3>3 DEF op_get_process_info, PrepareFails, write_op_header_info, Exit, setupVars, ringVars
    <3>4. CASE UNCHANGED vars
      BY <3>4 DEF vars, setupVars, ringVars
    <3> QED BY <1>1, <3>1, <3>2, <3>3, <3>4
  <2>2. Wanted' = Wanted
    BY <2>1 DEF Wanted, num_cpus, num_procs, profile_process_group, pid_started
  <2> QED BY <2>1, <2>2, RingsSame
<1>2. ASSUME NEW p \in listed, _get_one_process_info(p) PROVE RingsInv'
  <2>1. UNCHANGED <<samples_array, stored, perfCounters>> /\ pc = "procs"
    BY <1>2 DEF _get_one_process_info, ringVars
  <2>2. perfCounters = <<>> /\ Len(perfCounters) = 0
    BY <2>1, RowIs DEF CountersInv
  <2>3. PICK d \in 0..Len(perfCounters) :
           /\ Len(samples_array) = NumRings(d)
           /\ \A c \in DOMAIN perfCounters : perfCounters[c].enabled = (c <= d)
    BY <2>1 DEF RingsInv
  <2>4. d = 0
    BY <2>2, <2>3
  <2>5. \E x \in 0..Len(perfCounters') :
           /\ Len(perfCounters') < Wanted' => x = 0
           /\ Len(samples_array') = NumRings(x)
           /\ \A c \in DOMAIN perfCounters' : perfCounters'[c].enabled = (c <= x)
    BY <2>1, <2>3, <2>4
  <2> QED BY <2>1, <2>5 DEF RingsInv
<1>3. CASE NextRound
  <2>1. /\ UNCHANGED <<samples_array, stored, pc>> /\ pc = "drain"
        /\ \/ perfCounters' = [c \in DOMAIN perfCounters |-> [perfCounters[c] EXCEPT !.enabled = FALSE]]
           \/ perfCounters' = perfCounters
    BY <1>3 DEF NextRound
  <2>2. \A c \in DOMAIN perfCounters' :
           perfCounters'[c].enabled => perfCounters'[c].ring \in 1..Len(samples_array')
    BY <2>1 DEF RingsInv, CountersInv, CounterFields
  <2> QED BY <2>1, <2>2 DEF RingsInv
<1> QED BY <1>1, <1>2, <1>3, RingsStored, RingsRead, RingsOpen, RingsPrepared DEF Next, Recorder, Kernel

-----------------------------------------------------------------------------
(* Copying from a ring                                                     *)

\* What is written at a time ends within what there is to copy.
LEMMA ChunkEndIs ==
  ASSUME old \in Nat, head \in Nat
  PROVE  ChunkEnd \in Nat /\ (old < head => ChunkEnd <= head)
<1>0. RingSize \in Nat \ {0}
  BY ConstantsAre
<1> DEFINE a == old \div RingSize
           b == head \div RingSize
<1>1. a \in Nat /\ b \in Nat /\ head % RingSize \in 0..RingSize - 1
      /\ head = RingSize * b + (head % RingSize)
  BY <1>0, DivIs
<1>2. ChunkEnd = IF Wraps /\ a < b THEN RingSize * (1 + a) ELSE head
  BY DEF ChunkEnd
<1> HIDE DEF a, b
<1>3. RingSize * (1 + a) \in Nat
  BY <1>0, <1>1
<1>4. a < b => RingSize * (1 + a) <= head
  <2> SUFFICES ASSUME a < b PROVE RingSize * (1 + a) <= head
    OBVIOUS
  <2>1. 1 + a <= b
    BY <1>1
  <2>2. RingSize * (1 + a) <= RingSize * b
    BY <1>0, <1>1, <2>1
  <2>3. RingSize * b <= head
    BY <1>0, <1>1
  <2> QED BY <1>0, <1>1, <1>3, <2>2, <2>3
<1> QED BY <1>2, <1>3, <1>4

LEMMA CopySame ==
  ASSUME CopyInv, UNCHANGED <<copyVars, samples_array, perfCounters, pc, pending>>
  PROVE  CopyInv'
<1>1. Enabled' = Enabled
  BY DEF Enabled
<1> QED BY <1>1 DEF CopyInv, copyVars

\* Before the first round
LEMMA CopyBefore ==
  ASSUME CopyInv, pc \in Before \cup {"info"}, UNCHANGED copyVars,
         pc' \in Before \cup {"info"}, pc' # "info" => pending' = <<>>
  PROVE  CopyInv'
  BY DEF CopyInv, copyVars, Before

LEMMA CopyStep == ASSUME CountersInv, RingsInv, CopyInv, [Next]_vars PROVE CopyInv'
<1>0. pc \in Before \cup Writing
  BY DEF CountersInv
<1>1. ASSUME \/ \E t \in alive : Exit(t)
             \/ \E p \in listed : _get_one_process_info(p)
             \/ op_get_process_info \/ perf_event_open \/ prepareToRecord \/ PrepareFails
             \/ write_op_header_info
             \/ Close /\ pc = "invalid"
      PROVE  CopyInv'
  <2>1. pc \in {"procs", "open", "invalid"} /\ UNCHANGED copyVars
    BY <1>1 DEF Exit, _get_one_process_info, op_get_process_info, perf_event_open, prepareToRecord,
                PrepareFails, write_op_header_info, Close
  <2>2. pending = <<>>
    BY <2>1 DEF CopyInv
  <2>3. pc' \in Before \cup {"info"} /\ (pc' # "info" => pending' = pending)
    <3>1. CASE \E t \in alive : Exit(t)
      BY <2>1, <3>1 DEF Exit, Before
    <3>2. CASE \E p \in listed : _get_one_process_info(p)
      BY <2>1, <3>2 DEF _get_one_process_info, Before
    <3>3. CASE op_get_process_info \/ perf_event_open \/ prepareToRecord \/ PrepareFails
      BY <2>1, <3>3 DEF op_get_process_info, perf_event_open, prepareToRecord, PrepareFails, Before
    <3>4. CASE write_op_header_info
      BY <3>4 DEF write_op_header_info
    <3>5. CASE Close /\ pc = "invalid"
      BY <3>5 DEF Close, Before
    <3> QED BY <1>1, <3>1, <3>2, <3>3, <3>4, <3>5
  <2> QED BY SMTT(40), <2>1, <2>2, <2>3, CopyBefore DEF Before
<1>2. CASE Reader
  BY <1>2, ReaderFrame, CopySame DEF recorder, ringVars
<1>3. CASE UNCHANGED vars
  BY <1>3, CopySame DEF vars, ringVars
<1>4. CASE op_write_output
  <2>1. UNCHANGED <<copyVars, samples_array, perfCounters, pc>> /\ pending # <<>>
    BY <1>4 DEF op_write_output, ringVars
  <2>2. pc \in {"info", "drain"} /\ Enabled' = Enabled
    BY <2>1 DEF CopyInv, Enabled
  <2> QED BY <2>1, <2>2 DEF CopyInv, copyVars
<1>5. CASE RecordInfo
  <2>1. UNCHANGED <<copyVars, samples_array, perfCounters>> /\ pc = "info" /\ pc' = "drain"
    BY <1>5 DEF RecordInfo, ringVars
  <2>2. i = 1 /\ i' = i /\ i \in Rings /\ old' \in Nat /\ head' \in Nat
    BY <2>1 DEF CopyInv, copyVars
  <2>3. \A r \in DOMAIN samples_array' : ~(r < i')
    <3>1. \A r \in DOMAIN samples_array : r \in Rings
      BY RingIs
    <3> QED BY <2>1, <2>2, <3>1 DEF Rings
  <2> QED BY <2>1, <2>2, <2>3 DEF CopyInv, Before
<1>6. CASE ReadHead
  <2>1. /\ pc = "drain" /\ pending = <<>> /\ i <= Len(samples_array)
        /\ UNCHANGED <<samples_array, perfCounters, pending>>
        /\ \/ /\ samples_array[i].prev = samples_array[i].data_head
              /\ i' = i + 1 /\ UNCHANGED <<head, old, pc>>
           \/ /\ head' = samples_array[i].data_head /\ old' = samples_array[i].prev
              /\ pc' = "copy" /\ i' = i
    BY <1>6 DEF ReadHead, ringVars
  <2>2. Enabled' = Enabled
    BY <2>1 DEF Enabled
  <2>3. i \in Rings /\ i \in DOMAIN samples_array /\ old \in Nat /\ head \in Nat
    <3>1. samples_array \in Seq(RingBuffers) /\ i \in Rings /\ old \in Nat /\ head \in Nat
      BY DEF RingsInv, CopyInv
    <3> QED BY <2>1, <3>1 DEF Rings
  <2>4. /\ samples_array[i].data_head \in Nat /\ samples_array[i].prev \in Nat
        /\ samples_array[i].prev <= samples_array[i].data_head
    BY <2>3, RingIs
  <2>5. ~Enabled => \A r \in DOMAIN samples_array : r < i => samples_array[r].prev = samples_array[r].data_head
    BY <2>1 DEF CopyInv
  <2>6. CASE /\ samples_array[i].prev = samples_array[i].data_head
             /\ i' = i + 1 /\ UNCHANGED <<head, old, pc>>
    <3>1. \A r \in DOMAIN samples_array : r < i' => r < i \/ r = i
      <4>1. \A r \in DOMAIN samples_array : r \in Rings
        BY RingIs
      <4> QED BY <2>3, <2>6, <4>1 DEF Rings
    <3>2. i' \in Rings
      BY <2>3, <2>6 DEF Rings
    <3>3. ~Enabled' => \A r \in DOMAIN samples_array' : r < i' => samples_array'[r].prev = samples_array'[r].data_head
      BY <2>1, <2>2, <2>5, <2>6, <3>1
    <3> QED BY <2>1, <2>3, <2>6, <3>2, <3>3 DEF CopyInv, Before
  <2>7. CASE /\ head' = samples_array[i].data_head /\ old' = samples_array[i].prev
             /\ pc' = "copy" /\ i' = i
    <3>1. ~Enabled' => \A r \in DOMAIN samples_array' : r < i' => samples_array'[r].prev = samples_array'[r].data_head
      BY <2>1, <2>2, <2>5, <2>7
    <3> QED BY <2>1, <2>3, <2>4, <2>7, <3>1 DEF CopyInv, Before
  <2> QED BY <2>1, <2>6, <2>7
<1>7. CASE CopyOut
  <2>1. PICK n \in 1..ChunkEnd - old : old' = old + n
    BY <1>7 DEF CopyOut
  <2>2. /\ pc = "copy" /\ old < head /\ UNCHANGED <<samples_array, perfCounters, i, head, pc, pending>>
    BY <1>7 DEF CopyOut, ringVars
  <2>3. old \in Nat /\ head \in Nat
    BY DEF CopyInv
  <2>4. old <= old' /\ old' <= head /\ old' \in Nat
    <3>1. ChunkEnd \in Nat /\ ChunkEnd <= head
      BY <2>2, <2>3, ChunkEndIs
    <3> QED BY <2>1, <2>3, <3>1
  <2>5. Enabled' = Enabled
    BY <2>2 DEF Enabled
  <2>6. i \in DOMAIN samples_array /\ samples_array[i].prev <= old
    BY <2>2 DEF CopyInv
  <2>7. samples_array[i].prev \in Nat
    BY <2>6, RingIs
  <2>8. samples_array[i].prev <= old'
    BY <2>3, <2>4, <2>6, <2>7
  <2> QED BY <2>2, <2>4, <2>5, <2>8 DEF CopyInv, Before
<1>8. CASE UpdateTail
  <2>1. /\ pc = "copy" /\ old = head /\ pc' = "drain" /\ i' = i + 1
        /\ samples_array' = [samples_array EXCEPT ![i].prev = old, ![i].data_tail = old]
        /\ UNCHANGED <<perfCounters, head, old, pending>>
    BY <1>8 DEF UpdateTail
  <2>2. /\ i \in DOMAIN samples_array /\ i \in Rings /\ pending = <<>> /\ old \in Nat /\ head \in Nat
        /\ ~Enabled => head = samples_array[i].data_head
        /\ ~Enabled => \A r \in DOMAIN samples_array : r < i => samples_array[r].prev = samples_array[r].data_head
    BY <2>1 DEF CopyInv
  <2>3. Enabled' = Enabled
    BY <2>1 DEF Enabled
  <2>4. samples_array[i] \in RingBuffers /\ \A r \in DOMAIN samples_array : r \in Rings
    BY <2>2, RingIs
  <2>5. /\ samples_array'[i].prev = old /\ samples_array'[i].data_head = samples_array[i].data_head
        /\ DOMAIN samples_array' = DOMAIN samples_array
        /\ \A r \in DOMAIN samples_array : r # i => samples_array'[r] = samples_array[r]
    BY <2>1, <2>2, <2>4 DEF RingBuffers
  <2>6. ~Enabled' => \A r \in DOMAIN samples_array' : r < i' => samples_array'[r].prev = samples_array'[r].data_head
    <3> SUFFICES ASSUME ~Enabled, NEW r \in DOMAIN samples_array, r < i + 1
                 PROVE  samples_array'[r].prev = samples_array'[r].data_head
      BY <2>1, <2>3, <2>5
    <3>1. r < i \/ r = i
      BY <2>2, <2>4 DEF Rings
    <3>2. CASE r = i
      BY <2>1, <2>2, <2>5, <3>2
    <3>3. CASE r < i /\ r # i
      BY <2>2, <2>5, <3>3
    <3> QED BY <3>1, <3>2, <3>3
  <2>7. i' \in Rings
    BY <2>1, <2>2 DEF Rings
  <2> QED BY <2>1, <2>2, <2>6, <2>7 DEF CopyInv, Before
<1>9. CASE NextRound
  <2>1. /\ pc = "drain" /\ i' = 1 /\ UNCHANGED <<samples_array, pc, old, head, pending>>
    BY <1>9 DEF NextRound
  <2>2. \A r \in DOMAIN samples_array' : ~(r < i')
    <3>1. \A r \in DOMAIN samples_array : r \in Rings
      BY RingIs
    <3> QED BY <2>1, <3>1 DEF Rings
  <2>3. i' \in Rings
    BY <2>1 DEF Rings
  <2> QED BY <2>1, <2>2, <2>3 DEF CopyInv, Before
<1>10. CASE Close /\ pc # "invalid"
  <2>1. /\ pc = "drain" /\ pending = <<>> /\ i > Len(samples_array) /\ ~Enabled /\ pc' = "closed"
        /\ UNCHANGED <<samples_array, perfCounters, copyVars, pending>>
    BY <1>10 DEF Close, ringVars
  <2>2. \A r \in DOMAIN samples_array : r < i
    <3>1. samples_array \in Seq(RingBuffers) /\ i \in Rings
      BY DEF RingsInv, CopyInv
    <3>2. Len(samples_array) \in Nat /\ DOMAIN samples_array = 1..Len(samples_array)
      BY <3>1
    <3> QED BY <2>1, <3>1, <3>2 DEF Rings
  <2>3. Enabled' = Enabled
    BY <2>1 DEF Enabled
  <2> QED BY <2>1, <2>2, <2>3 DEF CopyInv, copyVars, Before
<1>11. ASSUME NEW c \in DOMAIN perfCounters, NEW size \in Sizes, Store(c, size) PROVE CopyInv'
  <2> DEFINE r == perfCounters[c].ring
             md == samples_array[r]
             new == [md EXCEPT !.data_head = @ + size, !.data = NewData(r, c, size)]
  <2>1. /\ perfCounters[c].enabled /\ r \in DOMAIN samples_array /\ size \in Nat
        /\ samples_array' = [samples_array EXCEPT ![r] = new]
        /\ UNCHANGED <<setupVars, perfCounters, copyVars, alive, pc, pending, out,
                       total_bytes_recorded, rd, got>>
    BY <1>11, StoreIs
  <2>2. Enabled /\ Enabled'
    BY <2>1 DEF Enabled
  <2>3. md \in RingBuffers /\ md.data_head \in Nat
    BY <2>1, RingIs
  <2>4. new.prev = md.prev /\ new.data_head = md.data_head + size
    <3> HIDE DEF md
    <3> QED BY <2>3 DEF RingBuffers
  <2> HIDE DEF new
  <2>5. /\ DOMAIN samples_array' = DOMAIN samples_array /\ samples_array'[r] = new
        /\ \A x \in DOMAIN samples_array : x # r => samples_array'[x] = samples_array[x]
    BY <2>1
  <2>6. pc = "copy" => /\ i \in DOMAIN samples_array
                       /\ samples_array'[i].prev <= old /\ head <= samples_array'[i].data_head
    <3> SUFFICES ASSUME pc = "copy"
                 PROVE  /\ i \in DOMAIN samples_array
                        /\ samples_array'[i].prev <= old /\ head <= samples_array'[i].data_head
      OBVIOUS
    <3>1. /\ i \in DOMAIN samples_array /\ head \in Nat
          /\ samples_array[i].prev <= old /\ head <= samples_array[i].data_head
      BY DEF CopyInv
    <3>2. CASE i = r
      <4>1. md.prev <= old /\ head <= md.data_head
        BY <3>1, <3>2
      <4> HIDE DEF md
      <4> QED BY <2>1, <2>3, <2>4, <2>5, <3>1, <3>2, <4>1
    <3>3. CASE i # r
      BY <2>5, <3>1, <3>3
    <3> QED BY <3>2, <3>3
  <2> HIDE DEF md, r
  <2> QED BY SMTT(40), <2>1, <2>2, <2>5, <2>6 DEF CopyInv, copyVars
<1>12. Close => pc = "invalid" \/ pc # "invalid"
  OBVIOUS
<1> QED
  BY <1>1, <1>2, <1>3, <1>4, <1>5, <1>6, <1>7, <1>8, <1>9, <1>10, <1>11, <1>12
     DEF Next, Recorder, Kernel

-----------------------------------------------------------------------------
(* What the rings hold                                                     *)

LEMMA SliceIs ==
  ASSUME NEW data \in [0..RingSize - 1 -> Units], NEW a \in Nat, NEW b \in Nat, a <= b
  PROVE  /\ IsRow(Slice(data, a, b)) /\ Len(Slice(data, a, b)) = b - a
         /\ Slice(data, a, b) \in Seq(Units)
         /\ \A k \in 1..b - a : Slice(data, a, b)[k] = data[(a + k - 1) % RingSize]
<1> DEFINE s == Slice(data, a, b)
<1>1. DOMAIN s = 1..b - a /\ s = [k \in 1..b - a |-> s[k]] /\ b - a \in Nat
      /\ \A k \in 1..b - a : s[k] = data[(a + k - 1) % RingSize]
  BY DEF Slice
<1>2. RingSize \in Nat \ {0}
  BY ConstantsAre
<1> HIDE DEF s
<1>3. IsRow(s) /\ Len(s) = b - a
  BY <1>1, FunctionIsRow
<1>4. ASSUME NEW k \in 1..b - a PROVE s[k] \in Units
  <2>1. (a + k - 1) \in Nat
    OBVIOUS
  <2>2. (a + k - 1) % RingSize \in 0..RingSize - 1
    BY <1>2, <2>1, ModRange
  <2> QED BY <1>1, <1>2, <2>2
<1>5. s \in Seq(Units)
  BY <1>1, <1>3, <1>4, RowInSeq
<1> QED BY <1>1, <1>3, <1>5 DEF s

LEMMA SliceEmpty ==
  ASSUME NEW data \in [0..RingSize - 1 -> Units], NEW a \in Nat
  PROVE  Slice(data, a, a) = <<>>
<1>0. a <= a /\ a - a = 0
  OBVIOUS
<1>1. /\ IsRow(Slice(data, a, a)) /\ Len(Slice(data, a, a)) = a - a
      /\ Slice(data, a, a) \in Seq(Units)
      /\ \A k \in 1..a - a : Slice(data, a, a)[k] = data[(a + k - 1) % RingSize]
  BY ZenonT(60), <1>0, SliceIs
<1> DEFINE s == Slice(data, a, a)
<1>2. IsRow(s) /\ Len(s) = 0
  BY <1>0, <1>1
<1> HIDE DEF s
<1>3. s = <<>>
  BY <1>2, RowIs
<1> QED BY <1>3 DEF s

LEMMA SliceJoin ==
  ASSUME NEW data \in [0..RingSize - 1 -> Units], NEW a \in Nat, NEW m \in Nat, NEW b \in Nat,
         a <= m, m <= b
  PROVE  Slice(data, a, m) \o Slice(data, m, b) = Slice(data, a, b)
<1> DEFINE x == Slice(data, a, m)
           y == Slice(data, m, b)
           s == Slice(data, a, b)
<1>1. /\ IsRow(x) /\ Len(x) = m - a /\ \A k \in 1..m - a : x[k] = data[(a + k - 1) % RingSize]
      /\ IsRow(y) /\ Len(y) = b - m /\ \A k \in 1..b - m : y[k] = data[(m + k - 1) % RingSize]
      /\ IsRow(s) /\ Len(s) = b - a /\ \A k \in 1..b - a : s[k] = data[(a + k - 1) % RingSize]
  <2>1. /\ IsRow(x) /\ Len(x) = m - a /\ x \in Seq(Units)
        /\ \A k \in 1..m - a : x[k] = data[(a + k - 1) % RingSize]
    BY SliceIs
  <2>2. /\ IsRow(y) /\ Len(y) = b - m /\ y \in Seq(Units)
        /\ \A k \in 1..b - m : y[k] = data[(m + k - 1) % RingSize]
    BY SliceIs
  <2>3. a <= b
    OBVIOUS
  <2>4. /\ IsRow(s) /\ Len(s) = b - a /\ s \in Seq(Units)
        /\ \A k \in 1..b - a : s[k] = data[(a + k - 1) % RingSize]
    BY <2>3, SliceIs
  <2> QED BY <2>1, <2>2, <2>4
<1> HIDE DEF x, y, s
<1>2. /\ IsRow(x \o y) /\ Len(x \o y) = Len(x) + Len(y)
      /\ \A k \in 1..Len(x) + Len(y) : (x \o y)[k] = IF k <= Len(x) THEN x[k] ELSE y[k - Len(x)]
  BY SMTT(40), <1>1, JoinIs
<1>3. Len(x \o y) = Len(s)
  BY <1>1, <1>2
<1>4. ASSUME NEW k \in 1..Len(s) PROVE (x \o y)[k] = s[k]
  <2>1. k \in 1..Len(x) + Len(y) /\ k \in 1..b - a
    BY <1>1
  <2>2. CASE k <= m - a
    <3>1. k \in 1..m - a
      BY <2>1, <2>2
    <3> QED BY <1>1, <1>2, <2>1, <2>2, <3>1
  <2>3. CASE ~(k <= m - a)
    <3>1. k - (m - a) \in 1..b - m /\ m + (k - (m - a)) - 1 = a + k - 1
      BY <2>1, <2>3
    <3>2. (x \o y)[k] = y[k - (m - a)]
      BY <1>1, <1>2, <2>1, <2>3
    <3>3. y[k - (m - a)] = data[(m + (k - (m - a)) - 1) % RingSize]
      BY <1>1, <3>1
    <3>4. s[k] = data[(a + k - 1) % RingSize]
      BY <1>1, <2>1
    <3> QED BY <3>1, <3>2, <3>3, <3>4
  <2> QED BY <2>2, <2>3
<1>5. x \o y = s
  <2>1. \A k \in 1..Len(x \o y) : (x \o y)[k] = s[k]
    BY <1>3, <1>4
  <2> QED BY <1>1, <1>2, <1>3, <2>1, RowEqual
<1> QED BY <1>5 DEF x, y, s

\* What is stored comes after what is there, ...
LEMMA NewDataIs ==
  ASSUME RingsInv, NEW r \in DOMAIN samples_array, NEW c, NEW size \in Nat,
         samples_array[r].data_head + size <= samples_array[r].prev + RingSize
  PROVE  LET md == samples_array[r] IN
         /\ \A u \in 1..size : NewData(r, c, size)[(md.data_head + u - 1) % RingSize]
                                 = Unit(r, stored[r] + 1, u, size, c)
         /\ \A p \in Nat : md.prev <= p /\ p < md.data_head =>
              NewData(r, c, size)[p % RingSize] = md.data[p % RingSize]
<1> DEFINE md == samples_array[r]
           h == md.data_head
           t == md.prev
           At(k, u) == k = (h + u - 1) % RingSize
           data == NewData(r, c, size)
<1>1. h \in Nat /\ t \in Nat /\ t <= h /\ md.data \in [0..RingSize - 1 -> Units]
      /\ RingSize \in Nat \ {0} /\ h + size <= t + RingSize
  BY RingIs, ConstantsAre
<1>2. data = [k \in 0..RingSize - 1 |->
                IF \E u \in 1..size : At(k, u)
                THEN Unit(r, stored[r] + 1, CHOOSE u \in 1..size : At(k, u), size, c)
                ELSE md.data[k]]
  <2>1. DOMAIN md.data = 0..RingSize - 1
    BY <1>1
  <2> QED BY <2>1 DEF NewData
<1> HIDE DEF h, t, data, md
<1>3. ASSUME NEW u \in 1..size PROVE data[(h + u - 1) % RingSize] = Unit(r, stored[r] + 1, u, size, c)
  <2> DEFINE k == (h + u - 1) % RingSize
             v == CHOOSE v \in 1..size : At(k, v)
  <2>1. h + u - 1 \in Nat
    BY <1>1
  <2>2. k \in 0..RingSize - 1
    BY <1>1, <2>1, ModRange
  <2>3. At(k, u) /\ u \in 1..size
    OBVIOUS
  <2>4. v \in 1..size /\ At(k, v)
    <3> HIDE DEF At, k
    <3> QED BY <2>3
  <2> HIDE DEF v
  <2>5. (h + u - 1) % RingSize = (h + v - 1) % RingSize
    BY <2>4
  <2>6. h + v - 1 \in Nat /\ (h + u - 1) - (h + v - 1) < RingSize /\ (h + v - 1) - (h + u - 1) < RingSize
    BY <1>1, <2>4
  <2>7. h + u - 1 = h + v - 1
    BY <1>1, <2>1, <2>5, <2>6, ModUnique
  <2>8. v = u
    BY <1>1, <2>4, <2>7
  <2>9. data[k] = Unit(r, stored[r] + 1, v, size, c)
    <3>1. \E w \in 1..size : At(k, w)
      BY <2>3
    <3> HIDE DEF At, k
    <3> QED BY <1>2, <2>2, <3>1 DEF v
  <2> QED BY <2>8, <2>9
<1>4. ASSUME NEW p \in Nat, t <= p, p < h PROVE data[p % RingSize] = md.data[p % RingSize]
  <2> DEFINE k == p % RingSize
  <2>1. k \in 0..RingSize - 1
    BY <1>1, ModRange
  <2>2. ASSUME NEW u \in 1..size, At(k, u) PROVE FALSE
    <3>1. h + u - 1 \in Nat /\ p - (h + u - 1) < RingSize /\ (h + u - 1) - p < RingSize
      BY <1>1, <1>4
    <3>2. p = h + u - 1
      BY <1>1, <2>2, <3>1, ModUnique
    <3> QED BY <1>1, <1>4, <3>2
  <2> HIDE DEF k, At
  <2>3. data[k] = md.data[k]
    BY <1>2, <2>1, <2>2
  <2> QED BY <2>3 DEF k
<1> QED BY <1>3, <1>4 DEF data, h, t, md

LEMMA ContentStored ==
  ASSUME CountersInv, RingsInv, NEW c \in DOMAIN perfCounters, NEW size \in Sizes, Store(c, size)
  PROVE  LET r == perfCounters[c].ring
             md == samples_array[r]
         IN  /\ samples_array'[r].prev = md.prev
             /\ samples_array'[r].data_head = md.data_head + size
             /\ \A a \in Nat, b \in Nat : md.prev <= a /\ a <= b /\ b <= md.data_head =>
                  Slice(samples_array'[r].data, a, b) = Slice(md.data, a, b)
             /\ Slice(samples_array'[r].data, md.data_head, md.data_head + size)
                  = Record(r, stored[r] + 1, size, c)
             /\ samples_array'[r].data \in [0..RingSize - 1 -> Units]
             /\ \A x \in DOMAIN samples_array \ {r} :
                  samples_array'[x] = samples_array[x] /\ stored'[x] = stored[x]
             /\ stored'[r] = stored[r] + 1 /\ DOMAIN samples_array' = DOMAIN samples_array
<1> DEFINE r == perfCounters[c].ring
           md == samples_array[r]
           h == md.data_head
           data == NewData(r, c, size)
           new == [md EXCEPT !.data_head = @ + size, !.data = data]
<1>1. /\ r \in DOMAIN samples_array /\ size \in Nat
      /\ samples_array[r].data_head + size <= samples_array[r].prev + RingSize
      /\ samples_array' = [samples_array EXCEPT ![r] = new]
      /\ stored' = [stored EXCEPT ![r] = @ + 1]
  BY StoreIs
<1>2. md \in RingBuffers /\ r \in DOMAIN stored /\ h \in Nat /\ md.prev \in Nat /\ r \in Rings
      /\ RingSize \in Nat \ {0}
  BY <1>1, RingIs, ConstantsAre
<1>3. /\ samples_array'[r].prev = md.prev /\ samples_array'[r].data_head = h + size
      /\ samples_array'[r].data = data
      /\ DOMAIN samples_array' = DOMAIN samples_array
      /\ \A x \in DOMAIN samples_array \ {r} : samples_array'[x] = samples_array[x]
  <2>1. new.prev = md.prev /\ new.data_head = md.data_head + size /\ new.data = data
    <3> HIDE DEF md, data
    <3> QED BY <1>2 DEF RingBuffers
  <2> HIDE DEF new
  <2> QED BY <1>1, <2>1
<1>4. /\ stored'[r] = stored[r] + 1
      /\ \A x \in DOMAIN samples_array \ {r} : stored'[x] = stored[x]
  <2>1. \A x \in DOMAIN samples_array : x \in DOMAIN stored
    BY RingIs
  <2> HIDE DEF r
  <2> QED BY <1>1, <1>2, <2>1
<1>5. /\ \A u \in 1..size : data[(h + u - 1) % RingSize] = Unit(r, stored[r] + 1, u, size, c)
      /\ \A p \in Nat : md.prev <= p /\ p < h => data[p % RingSize] = md.data[p % RingSize]
  BY <1>1, NewDataIs
<1> HIDE DEF data, h
<1>6. ASSUME NEW a \in Nat, NEW b \in Nat, md.prev <= a, a <= b, b <= h
      PROVE  Slice(data, a, b) = Slice(md.data, a, b)
  <2>1. ASSUME NEW k \in 1..b - a PROVE data[(a + k - 1) % RingSize] = md.data[(a + k - 1) % RingSize]
    <3> DEFINE p == a + k - 1
    <3>1. p \in Nat /\ md.prev <= p /\ p < h
      BY <1>2, <1>6
    <3> HIDE DEF p
    <3>2. data[p % RingSize] = md.data[p % RingSize]
      BY <1>5, <3>1
    <3> QED BY <3>2 DEF p
  <2> HIDE DEF md
  <2> QED BY <2>1 DEF Slice
<1>7. Slice(data, h, h + size) = Record(r, stored[r] + 1, size, c)
  <2>1. (h + size) - h = size
    BY SMTT(40), <1>1, <1>2
  <2> HIDE DEF md, r
  <2> QED BY <1>5, <2>1 DEF Slice, Record
<1>8. data \in [0..RingSize - 1 -> Units]
  BY StoreIs DEF data
<1> QED BY <1>3, <1>4, <1>6, <1>7, <1>8 DEF h


-----------------------------------------------------------------------------
(* What the recorder has written, and what the rings still hold            *)

LEMMA SamePart ==
  ASSUME NEW r, NEW c, NEW u, RingHolds(r, c, u), Wanted' = Wanted,
         samples_array'[r] = samples_array[r], stored'[r] = stored[r],
         (pc' = "copy" /\ r = i') <=> (pc = "copy" /\ r = i),
         pc = "copy" /\ r = i => old' = old /\ head' = head
  PROVE  RingHolds(r, c, u)'
<1>1. \A a, b : Content(r, a, b)' = Content(r, a, b)
  BY DEF Content
<1>2. RingOwn(r)'
  BY <1>1 DEF RingHolds, RingOwn, Content
<1>3. CASE pc = "copy" /\ r = i
  <2>1. RingCopied(r, c, u) /\ old' = old /\ head' = head
    BY <1>3 DEF RingHolds
  <2>2. RingCopied(r, c, u)'
    BY <2>1 DEF RingCopied, Content
  <2> QED BY <1>2, <1>3, <2>2 DEF RingHolds
<1>4. CASE ~(pc = "copy" /\ r = i)
  <2>1. RingIdle(r, c)
    BY <1>4 DEF RingHolds
  <2>2. RingIdle(r, c)'
    BY <2>1 DEF RingIdle, Content
  <2> QED BY <1>2, <1>4, <2>2 DEF RingHolds
<1> QED BY <1>3, <1>4

LEMMA ContentIs ==
  ASSUME RingsInv, NEW r \in DOMAIN samples_array, NEW a \in Nat, NEW b \in Nat, a <= b
  PROVE  /\ IsRow(Content(r, a, b)) /\ Len(Content(r, a, b)) = b - a
         /\ Content(r, a, b) \in Seq(Units)
<1> DEFINE data == samples_array[r].data
<1>1. data \in [0..RingSize - 1 -> Units]
  BY RingIs
<1> HIDE DEF data
<1>2. /\ IsRow(Slice(data, a, b)) /\ Len(Slice(data, a, b)) = b - a
      /\ Slice(data, a, b) \in Seq(Units)
      /\ \A k \in 1..b - a : Slice(data, a, b)[k] = data[(a + k - 1) % RingSize]
  BY <1>1, SliceIs
<1> QED BY <1>2 DEF Content, data

\* A ring that is not being copied from does not depend on what the others hold.
LEMMA RingFrame ==
  ASSUME RingsInv, NEW r \in DOMAIN samples_array, NEW c \in Counts, RingOwn(r), RingIdle(r, c),
         NEW d \in Counts, d[r] = c[r]
  PROVE  RingIdle(r, d)
<1> DEFINE md == samples_array[r]
           s == Content(r, md.prev, md.data_head)
           z == [c EXCEPT ![r] = stored[r]]
<1>1. md.prev \in Nat /\ md.data_head \in Nat /\ md.prev <= md.data_head /\ r \in Rings
  BY RingIs
<1>2. /\ IsRow(s) /\ Len(s) = md.data_head - md.prev /\ s \in Seq(Units)
  BY <1>1, ContentIs
<1>3. \A k \in 1..Len(s) : s[k].ring = r
  BY <1>2 DEF RingOwn
<1>4. Leads(Wanted, s, <<c, NoUnit>>, <<z, NoUnit>>)
  BY DEF RingIdle
<1>5. z[r] = stored[r]
  BY <1>1 DEF Counts
<1> HIDE DEF s, z
<1>6. Leads(Wanted, s, <<d, NoUnit>>, <<[d EXCEPT ![r] = z[r]], NoUnit>>)
  BY <1>1, <1>2, <1>3, <1>4, LeadsFrame
<1> QED BY <1>5, <1>6 DEF RingIdle, s

LEMMA RingsHoldSame ==
  ASSUME NEW c, NEW u, RingsHold(c, u), UNCHANGED <<samples_array, stored>>, Wanted' = Wanted,
         (pc' = "copy") <=> (pc = "copy"), pc = "copy" => UNCHANGED copyVars
  PROVE  RingsHold(c, u)'
<1>1. ASSUME NEW r \in DOMAIN samples_array PROVE RingHolds(r, c, u)'
  <2>1. RingHolds(r, c, u)
    BY DEF RingsHold
  <2> QED BY <2>1, SamePart DEF copyVars
<1> QED BY <1>1 DEF RingsHold

-----------------------------------------------------------------------------
(* The header                                                              *)

LEMMA ThreePieces ==
  ASSUME NEW x, NEW s, NEW t, IsRow(s), IsRow(t)
  PROVE  /\ IsRow(<<x>> \o s \o t) /\ Len(<<x>> \o s \o t) = 1 + Len(s) + Len(t)
         /\ (<<x>> \o s \o t)[1] = x
         /\ \A j \in 1..Len(s) : (<<x>> \o s \o t)[1 + j] = s[j]
         /\ \A j \in 1..Len(t) : (<<x>> \o s \o t)[1 + Len(s) + j] = t[j]
<1> DEFINE f == <<x>>
           g == f \o s
<1>1. IsRow(f) /\ Len(f) = 1 /\ f[1] = x
  <2>1. <<x>> \in Seq({x}) /\ Len(<<x>>) = 1 /\ <<x>>[1] = x
    OBVIOUS
  <2> HIDE DEF f
  <2>2. IsRow(<<x>>)
    BY <2>1, SeqIsRow
  <2> QED BY <2>1, <2>2 DEF f
<1> HIDE DEF f
<1>0. Len(s) \in Nat /\ Len(t) \in Nat
  BY RowIs
<1>2. /\ IsRow(g) /\ Len(g) = 1 + Len(s) /\ \A j \in 1..1 : g[j] = f[j]
      /\ \A j \in 1..Len(s) : g[1 + j] = s[j]
  <2>1. /\ IsRow(f \o s) /\ Len(f \o s) = Len(f) + Len(s)
        /\ \A j \in 1..Len(f) : (f \o s)[j] = f[j]
        /\ \A j \in 1..Len(s) : (f \o s)[Len(f) + j] = s[j]
        /\ \A j \in 1..Len(f) + Len(s) : (f \o s)[j] = IF j <= Len(f) THEN f[j] ELSE s[j - Len(f)]
    BY <1>1, JoinIs
  <2> QED BY <1>1, <2>1
<1> HIDE DEF g
<1>3. /\ IsRow(g \o t) /\ Len(g \o t) = Len(g) + Len(t)
      /\ \A j \in 1..Len(g) : (g \o t)[j] = g[j]
      /\ \A j \in 1..Len(t) : (g \o t)[Len(g) + j] = t[j]
      /\ \A j \in 1..Len(g) + Len(t) : (g \o t)[j] = IF j <= Len(g) THEN g[j] ELSE t[j - Len(g)]
  BY SMTT(40), <1>2, JoinIs
<1>4. (g \o t)[1] = x
  BY <1>0, <1>1, <1>2, <1>3
<1>5. ASSUME NEW j \in 1..Len(s) PROVE (g \o t)[1 + j] = s[j]
  <2>1. 1 + j \in 1..Len(g)
    BY <1>0, <1>2
  <2> QED BY <1>2, <1>3, <2>1
<1>6. (<<x>> \o s \o t) = g \o t
  BY DEF f, g
<1> HIDE DEF g, f
<1>7. \A j \in 1..Len(t) : (g \o t)[1 + Len(s) + j] = t[j]
  BY <1>2, <1>3
<1>8. IsRow(g \o t) /\ Len(g \o t) = 1 + Len(s) + Len(t)
  BY <1>2, <1>3
<1> QED BY <1>4, <1>5, <1>6, <1>7, <1>8

\* Each event has its ids, as many as there are processors or threads.
LEMMA IdsAre ==
  ASSUME CountersInv, Len(perfCounters) = Wanted
  PROVE  /\ \A e \in evts : /\ h_attrs[e] \in Seq(Nat) /\ Len(h_attrs[e]) = IdsPerEvent
                            /\ IsRow(h_attrs[e]) /\ IdsBefore(e) = (e - 1) * IdsPerEvent
         /\ \A e \in evts, j \in 1..IdsPerEvent : h_attrs[e][j] = (j - 1) * NumEvents + e
         /\ AllIds \in Seq(Nat) /\ Len(AllIds) = Wanted
         /\ \A e \in evts, j \in 1..IdsPerEvent :
              AllIds[(e - 1) * IdsPerEvent + j] = h_attrs[e][j]
<1> DEFINE m == IdsPerEvent
<1>1. m \in Nat \ {0} /\ Wanted = m * NumEvents /\ Wanted \in Nat /\ NumEvents \in Nat \ {0}
  BY WantedIs, ConstantsAre DEF CountersInv
<1> HIDE DEF m
<1>2. Wanted \div NumEvents = m /\ Wanted % NumEvents = 0
  <2>1. Wanted = NumEvents * m + 0 /\ 0 \in 0..NumEvents - 1 /\ m \in Int
    BY <1>1
  <2> QED BY <1>1, <2>1, DivUnique
<1>3. ASSUME NEW e \in evts
      PROVE  /\ h_attrs[e] \in Seq(Nat) /\ Len(h_attrs[e]) = m
             /\ \A j \in 1..m : h_attrs[e][j] = (j - 1) * NumEvents + e
  <2>1. e \in Nat \ {0}
    BY <1>1 DEF evts
  <2>2. /\ h_attrs[e] \in Seq(Nat)
        /\ Len(h_attrs[e]) = m + (IF e <= 0 THEN 1 ELSE 0)
        /\ \A j \in DOMAIN h_attrs[e] : h_attrs[e][j] = (j - 1) * NumEvents + e
    BY <1>2 DEF CountersInv
  <2> DEFINE h == h_attrs[e]
  <2> HIDE DEF h
  <2>3. Len(h) = m
    BY <1>1, <2>1, <2>2 DEF h
  <2>4. DOMAIN h = 1..m
    BY <2>2, <2>3 DEF h
  <2> QED BY <2>2, <2>3, <2>4 DEF h
<1>4. IsRow(h_attrs) /\ Len(h_attrs) = NumEvents
  <2>1. DOMAIN h_attrs = 1..NumEvents /\ h_attrs = [e \in 1..NumEvents |-> h_attrs[e]]
    BY DEF CountersInv, evts
  <2> QED BY <1>1, <2>1, FunctionIsRow
<1>5. \A e \in 1..Len(h_attrs) : h_attrs[e] \in Seq(Nat) /\ Len(h_attrs[e]) = m
  BY <1>3, <1>4 DEF evts
<1>6. /\ FlattenSeq(h_attrs) \in Seq(Nat) /\ Len(FlattenSeq(h_attrs)) = Len(h_attrs) * m
      /\ \A e \in 1..Len(h_attrs), j \in 1..m : FlattenSeq(h_attrs)[(e - 1) * m + j] = h_attrs[e][j]
  <2>1. Even(h_attrs, Nat, m)
    BY <1>5 DEF Even
  <2>2. FlattenSeq(h_attrs) \in Seq(Nat) /\ Laid(FlattenSeq(h_attrs), h_attrs, m)
    BY <1>1, <1>4, <2>1, FlattenEven
  <2> QED BY <2>2 DEF Laid
<1>7. ASSUME NEW e \in evts PROVE IdsBefore(e) = (e - 1) * m
  <2> DEFINE t == SubSeq(h_attrs, 1, e - 1)
  <2>1. e - 1 \in 0..Len(h_attrs) /\ e \in Nat
    BY <1>1, <1>4 DEF evts
  <2>2. /\ IsRow(t) /\ Len(t) = e - 1
        /\ \A j \in 1..e - 1 : t[j] = h_attrs[j]
    BY <1>4, <2>1, FirstIs
  <2> HIDE DEF t
  <2>3. \A j \in 1..Len(t) : t[j] \in Seq(Nat) /\ Len(t[j]) = m
    BY <1>5, <2>1, <2>2
  <2>4. /\ FlattenSeq(t) \in Seq(Nat) /\ Len(FlattenSeq(t)) = Len(t) * m
        /\ \A j \in 1..Len(t), k \in 1..m : FlattenSeq(t)[(j - 1) * m + k] = t[j][k]
    <3>1. Even(t, Nat, m)
      BY <2>3 DEF Even
    <3>2. FlattenSeq(t) \in Seq(Nat) /\ Laid(FlattenSeq(t), t, m)
      BY <1>1, <2>2, <3>1, FlattenEven
    <3> QED BY <3>2 DEF Laid
  <2> QED BY <2>2, <2>4 DEF IdsBefore, t
<1>8. \A e \in evts : IsRow(h_attrs[e])
  BY <1>3, SeqIsRow
<1>9. /\ AllIds \in Seq(Nat) /\ Len(AllIds) = Wanted
      /\ \A e \in evts, j \in 1..m : AllIds[(e - 1) * m + j] = h_attrs[e][j]
  <2>1. Len(h_attrs) * m = Wanted
    BY <1>1, <1>4
  <2> QED BY <1>4, <1>6, <2>1 DEF AllIds, evts
<1> QED BY <1>3, <1>7, <1>8, <1>9 DEF m

IdUnit(e, j) == [k |-> "id", id |-> h_attrs[e][j]]
LEMMA IdUnitsAre ==
  ASSUME CountersInv, Len(perfCounters) = Wanted
  PROVE  /\ IsRow(IdUnits) /\ Len(IdUnits) = Wanted
         /\ \A e \in evts, j \in 1..IdsPerEvent :
              IdUnits[(e - 1) * IdsPerEvent + j] = IdUnit(e, j)
<1> DEFINE m == IdsPerEvent
<1>0. m \in Nat \ {0} /\ Wanted = m * NumEvents /\ Wanted \in Nat /\ NumEvents \in Nat \ {0}
  BY WantedIs, ConstantsAre DEF CountersInv
<1>1. /\ AllIds \in Seq(Nat) /\ Len(AllIds) = Wanted
      /\ \A e \in evts, j \in 1..m : AllIds[(e - 1) * m + j] = h_attrs[e][j]
  BY IdsAre
<1> HIDE DEF m
<1> DEFINE s == [j \in 1..Wanted |-> [k |-> "id", id |-> AllIds[j]]]
<1>2. IdUnits = s
  <2>1. DOMAIN AllIds = 1..Wanted
    BY <1>0, <1>1
  <2> QED BY <2>1 DEF IdUnits
<1>3. DOMAIN s = 1..Wanted /\ s = [j \in 1..Wanted |-> s[j]]
  OBVIOUS
<1>4. ASSUME NEW e \in evts, NEW j \in 1..m PROVE s[(e - 1) * m + j] = IdUnit(e, j)
  <2>1. (e - 1) * m + j \in 1..Wanted
    <3>1. e \in Nat /\ 1 <= e /\ e <= NumEvents
      BY <1>0 DEF evts
    <3>2. (e - 1) * m \in Nat /\ (e - 1) * m + m = e * m /\ e * m <= m * NumEvents
      BY <1>0, <3>1
    <3> QED BY <1>0, <3>1, <3>2
  <2> QED BY <1>1, <2>1 DEF IdUnit
<1> HIDE DEF s
<1>5. IsRow(s) /\ Len(s) = Wanted
  BY <1>0, <1>3, FunctionIsRow
<1> QED BY <1>2, <1>4, <1>5 DEF m

\* The header of a file, whatever size it says
FileHeader(size) == [k |-> "header", attr_offset |-> 1 + Wanted, nattrs |-> NumEvents,
                     data_offset |-> HeaderLen, data_size |-> size]
FileAttr(e) == [k |-> "attr", offset |-> 1 + (e - 1) * IdsPerEvent, nids |-> IdsPerEvent]
LEMMA FileHeaderIs ==
  ASSUME CountersInv, Len(perfCounters) = Wanted, NEW size
  PROVE  LET h == _write_header_to_file(size) IN
         /\ IsRow(h) /\ Len(h) = HeaderLen /\ h[1] = FileHeader(size)
         /\ \A e \in evts, j \in 1..IdsPerEvent :
              h[1 + ((e - 1) * IdsPerEvent + j)] = IdUnit(e, j)
         /\ \A e \in evts : h[1 + Wanted + e] = FileAttr(e)
<1> DEFINE m == IdsPerEvent
           t == [e \in evts |-> FileAttr(e)]
           h == <<FileHeader(size)>> \o IdUnits \o t
<1>0. /\ m \in Nat \ {0} /\ Wanted = m * NumEvents /\ Wanted \in Nat /\ NumEvents \in Nat \ {0}
      /\ HeaderLen = 1 + NumEvents + Wanted
  BY WantedIs, ConstantsAre DEF CountersInv
<1>1. /\ IsRow(IdUnits) /\ Len(IdUnits) = Wanted
      /\ \A e \in evts, j \in 1..m : IdUnits[(e - 1) * m + j] = IdUnit(e, j)
  BY IdUnitsAre
<1>2. /\ Len(AllIds) = Wanted
      /\ \A e \in evts : Len(h_attrs[e]) = m /\ IdsBefore(e) = (e - 1) * m
  BY IdsAre
<1>3. IsRow(t) /\ Len(t) = NumEvents
  <2>1. DOMAIN t = 1..NumEvents /\ t = [j \in 1..NumEvents |-> t[j]]
    BY DEF evts
  <2> HIDE DEF t
  <2> QED BY <1>0, <2>1, FunctionIsRow
<1>4. _write_header_to_file(size) = h
  <2>1. \A e \in evts : [k |-> "attr", offset |-> 1 + IdsBefore(e), nids |-> Len(h_attrs[e])] = FileAttr(e)
    BY <1>2 DEF FileAttr
  <2>2. [e \in evts |-> [k |-> "attr", offset |-> 1 + IdsBefore(e), nids |-> Len(h_attrs[e])]] = t
    BY <2>1
  <2>3. 1 + Wanted + NumEvents = HeaderLen
    BY <1>0
  <2>4. [k |-> "header", attr_offset |-> 1 + Len(AllIds), nattrs |-> NumEvents,
         data_offset |-> 1 + Len(AllIds) + NumEvents, data_size |-> size] = FileHeader(size)
    BY <1>2, <2>3 DEF FileHeader
  <2> HIDE DEF t
  <2> QED BY <2>2, <2>4 DEF _write_header_to_file
<1>5. \A e \in evts : t[e] = FileAttr(e)
  OBVIOUS
<1> HIDE DEF t
<1>6. /\ IsRow(h) /\ Len(h) = 1 + Len(IdUnits) + Len(t) /\ h[1] = FileHeader(size)
      /\ \A j \in 1..Len(IdUnits) : h[1 + j] = IdUnits[j]
      /\ \A j \in 1..Len(t) : h[1 + Len(IdUnits) + j] = t[j]
  BY SMTT(40), <1>1, <1>3, ThreePieces
<1> HIDE DEF h
<1>7. ASSUME NEW e \in evts, NEW j \in 1..m PROVE h[1 + ((e - 1) * m + j)] = IdUnit(e, j)
  <2>1. (e - 1) * m + j \in 1..Wanted
    <3>1. e \in Nat /\ 1 <= e /\ e <= NumEvents
      BY <1>0 DEF evts
    <3>2. (e - 1) * m \in Nat /\ (e - 1) * m + m = e * m /\ e * m <= m * NumEvents
      BY <1>0, <3>1
    <3> QED BY <1>0, <3>1, <3>2
  <2> QED BY <1>1, <1>6, <2>1
<1>8. \A e \in evts : h[1 + Wanted + e] = FileAttr(e)
  BY <1>1, <1>3, <1>5, <1>6 DEF evts
<1>9. Len(h) = HeaderLen
  BY <1>0, <1>1, <1>3, <1>6
<1> QED BY <1>4, <1>6, <1>7, <1>8, <1>9 DEF m

PipeHeader == [k |-> "header", nattrs |-> NumEvents]
PipeAttr == [k |-> "attr", nids |-> IdsPerEvent]
LEMMA PipeHeaderIs ==
  ASSUME CountersInv, Len(perfCounters) = Wanted
  PROVE  LET h == _write_header_to_pipe IN
         /\ IsRow(h) /\ Len(h) = HeaderLen /\ h[1] = PipeHeader
         /\ \A e \in evts : h[1 + e] = PipeAttr
         /\ \A e \in evts, j \in 1..IdsPerEvent :
              h[1 + NumEvents + ((e - 1) * IdsPerEvent + j)] = IdUnit(e, j)
<1> DEFINE m == IdsPerEvent
           t == [e \in evts |-> PipeAttr]
           h == <<PipeHeader>> \o t \o IdUnits
<1>0. /\ m \in Nat \ {0} /\ Wanted = m * NumEvents /\ Wanted \in Nat /\ NumEvents \in Nat \ {0}
      /\ HeaderLen = 1 + NumEvents + Wanted
  BY WantedIs, ConstantsAre DEF CountersInv
<1>1. /\ IsRow(IdUnits) /\ Len(IdUnits) = Wanted
      /\ \A e \in evts, j \in 1..m : IdUnits[(e - 1) * m + j] = IdUnit(e, j)
  BY IdUnitsAre
<1>2. \A e \in evts : Len(h_attrs[e]) = m
  BY IdsAre
<1>3. IsRow(t) /\ Len(t) = NumEvents
  <2>1. DOMAIN t = 1..NumEvents /\ t = [j \in 1..NumEvents |-> t[j]]
    BY DEF evts
  <2> HIDE DEF t
  <2> QED BY <1>0, <2>1, FunctionIsRow
<1>4. _write_header_to_pipe = h
  <2>1. \A e \in evts : [k |-> "attr", nids |-> Len(h_attrs[e])] = PipeAttr
    BY <1>2 DEF PipeAttr
  <2>2. [e \in evts |-> [k |-> "attr", nids |-> Len(h_attrs[e])]] = t
    BY <2>1
  <2> HIDE DEF t
  <2> QED BY <2>2 DEF _write_header_to_pipe, PipeHeader
<1>5. \A e \in evts : t[e] = PipeAttr
  OBVIOUS
<1> HIDE DEF t
<1>6. /\ IsRow(h) /\ Len(h) = 1 + Len(t) + Len(IdUnits) /\ h[1] = PipeHeader
      /\ \A j \in 1..Len(t) : h[1 + j] = t[j]
      /\ \A j \in 1..Len(IdUnits) : h[1 + Len(t) + j] = IdUnits[j]
  BY SMTT(40), <1>1, <1>3, ThreePieces
<1> HIDE DEF h
<1>7. ASSUME NEW e \in evts, NEW j \in 1..m
      PROVE  h[1 + NumEvents + ((e - 1) * m + j)] = IdUnit(e, j)
  <2>1. (e - 1) * m + j \in 1..Wanted
    <3>1. e \in Nat /\ 1 <= e /\ e <= NumEvents
      BY <1>0 DEF evts
    <3>2. (e - 1) * m \in Nat /\ (e - 1) * m + m = e * m /\ e * m <= m * NumEvents
      BY <1>0, <3>1
    <3> QED BY <1>0, <3>1, <3>2
  <2> QED BY <1>1, <1>3, <1>6, <2>1
<1>8. \A e \in evts : h[1 + e] = PipeAttr
  BY <1>3, <1>5, <1>6 DEF evts
<1>9. Len(h) = HeaderLen
  BY <1>0, <1>1, <1>3, <1>6
<1> QED BY <1>4, <1>6, <1>7, <1>8, <1>9 DEF m

-----------------------------------------------------------------------------
(* What the rings hold, step by step                                       *)

\* What is stored is the next record of its ring.
LEMMA StoredNext ==
  ASSUME CountersInv, RingsInv, NEW c \in Counts, NEW r \in DOMAIN samples_array,
         NEW ctr \in DOMAIN perfCounters, NEW size \in Nat, 2 <= size
  PROVE  LET rec == Record(r, stored[r] + 1, size, ctr) IN
         /\ IsRow(rec) /\ Len(rec) = size /\ rec \in Seq(Units)
         /\ Leads(Wanted, rec, <<[c EXCEPT ![r] = stored[r]], NoUnit>>,
                  <<[c EXCEPT ![r] = stored[r] + 1], NoUnit>>)
<1> DEFINE rec == Record(r, stored[r] + 1, size, ctr)
           was == [c EXCEPT ![r] = stored[r]]
           is == [c EXCEPT ![r] = stored[r] + 1]
<1>1. r \in Rings /\ stored[r] \in Nat
  BY RingIs
<1>2. ctr \in 1..Wanted /\ ctr \in Nat
  <2>1. /\ IsRow(perfCounters) /\ Len(perfCounters) <= Wanted /\ IsRow(procs)
    BY DEF CountersInv
  <2>2. DOMAIN perfCounters = 1..Len(perfCounters) /\ Len(perfCounters) \in Nat /\ Wanted \in Nat
    BY <2>1, RowIs, WantedIs
  <2> QED BY <2>1, <2>2
<1>3. was \in Counts /\ is \in Counts /\ Tally(was, r) = is /\ was[r] = stored[r]
  BY <1>1 DEF Counts, Tally, Rings
<1>4. r \in Nat /\ stored[r] + 1 \in Nat /\ (r # 0 => stored[r] + 1 = was[r] + 1 /\ ctr \in 1..Wanted)
  BY <1>1, <1>2, <1>3 DEF Rings
<1> HIDE DEF was, is
<1>5. /\ IsRow(rec) /\ Len(rec) = size /\ rec \in Seq(Units)
      /\ Leads(Wanted, rec, <<was, NoUnit>>, <<Tally(was, r), NoUnit>>)
  BY SMTT(40), <1>2, <1>3, <1>4, LeadsRecord
<1> QED BY <1>3, <1>5 DEF was, is

\* From any place in what the ring holds, it comes last.
StoredIn(r) == samples_array'[r].data
LEMMA StoredLast ==
  ASSUME CountersInv, RingsInv, NEW r, NEW ctr \in DOMAIN perfCounters, NEW size \in Sizes,
         Store(ctr, size), r = perfCounters[ctr].ring,
         NEW a \in Nat, samples_array[r].prev <= a, a <= samples_array[r].data_head
  PROVE  LET h == samples_array[r].data_head
             rec == Record(r, stored[r] + 1, size, ctr)
         IN  /\ r \in DOMAIN samples_array /\ h \in Nat /\ size \in Nat /\ 2 <= size
             /\ Slice(StoredIn(r), a, h + size) = Content(r, a, h) \o rec
             /\ IsRow(Content(r, a, h)) /\ Len(Content(r, a, h)) = h - a
<1> DEFINE md == samples_array[r]
           h == md.data_head
           rec == Record(r, stored[r] + 1, size, ctr)
           data == StoredIn(r)
<1>1. r \in DOMAIN samples_array /\ size \in Nat /\ 2 <= size
  BY StoreIs
<1>2. /\ \A x \in Nat, y \in Nat : md.prev <= x /\ x <= y /\ y <= md.data_head =>
           Slice(data, x, y) = Slice(md.data, x, y)
      /\ Slice(data, h, h + size) = rec
      /\ data \in [0..RingSize - 1 -> Units]
  BY ContentStored DEF StoredIn
<1>3. md.prev \in Nat /\ h \in Nat /\ md.prev <= h
  BY <1>1, RingIs
<1>4. Slice(data, a, h) = Slice(md.data, a, h)
  BY <1>2, <1>3
<1>5. /\ IsRow(Content(r, a, h)) /\ Len(Content(r, a, h)) = h - a
      /\ Content(r, a, h) \in Seq(Units)
  BY <1>1, <1>3, ContentIs
<1>6. Slice(data, a, h) \o Slice(data, h, h + size) = Slice(data, a, h + size)
  <2>1. a <= h /\ h <= h + size /\ h + size \in Nat /\ h \in Nat
    BY <1>1, <1>3
  <2> HIDE DEF data, h, md
  <2> QED BY ZenonT(60), <1>2, <2>1, SliceJoin
<1> QED BY SMTT(40), <1>1, <1>2, <1>3, <1>4, <1>5, <1>6 DEF Content

LEMMA StoreHolds ==
  ASSUME CountersInv, RingsInv, CopyInv, NEW c \in Counts, NEW u, RingsHold(c, u),
         NEW ctr \in DOMAIN perfCounters, NEW size \in Sizes, Store(ctr, size),
         NEW r, r = perfCounters[ctr].ring
  PROVE  RingsHold(c, u)'
<1> DEFINE md == samples_array[r]
           h == md.data_head
           rec == Record(r, stored[r] + 1, size, ctr)
           data == StoredIn(r)
           was == [c EXCEPT ![r] = stored[r]]
           is == [c EXCEPT ![r] = stored[r] + 1]
<1>1. /\ r \in DOMAIN samples_array /\ size \in Nat /\ 2 <= size
      /\ UNCHANGED <<setupVars, perfCounters, copyVars, alive, pc, pending, out,
                     total_bytes_recorded, rd, got>>
  BY StoreIs
<1>2. /\ samples_array'[r].prev = md.prev /\ samples_array'[r].data_head = h + size
      /\ \A a \in Nat, b \in Nat : md.prev <= a /\ a <= b /\ b <= h =>
           Slice(data, a, b) = Slice(md.data, a, b)
      /\ \A x \in DOMAIN samples_array \ {r} :
           samples_array'[x] = samples_array[x] /\ stored'[x] = stored[x]
      /\ stored'[r] = stored[r] + 1 /\ DOMAIN samples_array' = DOMAIN samples_array
  BY ContentStored DEF StoredIn
<1>3. md.prev \in Nat /\ h \in Nat /\ md.prev <= h /\ r \in Rings /\ stored[r] \in Nat
  BY <1>1, RingIs
<1>4. Wanted' = Wanted
  BY <1>1, WantedSame DEF Setup, setupVars
<1>5. /\ IsRow(rec) /\ Len(rec) = size /\ rec \in Seq(Units)
      /\ Leads(Wanted, rec, <<was, NoUnit>>, <<is, NoUnit>>)
  BY ZenonT(60), <1>1, StoredNext
<1>6. ASSUME NEW a \in Nat, md.prev <= a, a <= h
      PROVE  /\ Slice(data, a, h + size) = Content(r, a, h) \o rec
             /\ IsRow(Content(r, a, h)) /\ Len(Content(r, a, h)) = h - a
  BY <1>6, StoredLast
<1>7. ASSUME NEW a \in Nat, md.prev <= a, a <= h, NEW q,
             Leads(Wanted, Content(r, a, h), q, <<was, NoUnit>>)
      PROVE  Leads(Wanted, Slice(data, a, h + size), q, <<is, NoUnit>>)
  <2>1. /\ Slice(data, a, h + size) = Content(r, a, h) \o rec
        /\ IsRow(Content(r, a, h)) /\ Len(Content(r, a, h)) = h - a
    BY <1>6, <1>7
  <2> HIDE DEF data, rec, was, is, md, h
  <2> QED BY <1>5, <1>7, <2>1, LeadsJoin
<1>8. RingOwn(r) /\ RingHolds(r, c, u)
  BY SMTT(40), <1>1 DEF RingsHold, RingHolds
<1>9. RingOwn(r)'
  <2> DEFINE s == Content(r, md.prev, h)
             t == Slice(data, md.prev, h + size)
  <2>0. md.prev <= md.prev /\ md.prev <= h /\ md.prev \in Nat
    BY <1>3
  <2>1. t = s \o rec /\ IsRow(s) /\ Len(s) = h - md.prev
    BY <1>6, <2>0
  <2>2. \A k \in 1..h - md.prev : s[k].ring = r
    BY <1>8 DEF RingOwn
  <2>3. \A k \in 1..size : rec[k].ring = r
    BY SMTT(40) DEF Record, Unit
  <2> HIDE DEF s, rec
  <2>4. /\ IsRow(s \o rec) /\ Len(s \o rec) = Len(s) + Len(rec)
        /\ \A k \in 1..Len(s) : (s \o rec)[k] = s[k]
        /\ \A k \in 1..Len(rec) : (s \o rec)[Len(s) + k] = rec[k]
        /\ \A k \in 1..Len(s) + Len(rec) : (s \o rec)[k] = IF k <= Len(s) THEN s[k] ELSE rec[k - Len(s)]
    BY <1>5, <2>1, JoinIs
  <2> HIDE DEF t
  <2>5. ASSUME NEW k \in 1..(h + size) - md.prev PROVE t[k].ring = r
    <3>1. k \in 1..Len(s) + Len(rec) /\ Len(s) \in Nat /\ Len(rec) \in Nat
      BY SMTT(40), <1>1, <1>3, <1>5, <2>1
    <3>2. CASE k <= Len(s)
      <4>1. k \in 1..h - md.prev
        BY <1>3, <2>1, <3>1, <3>2
      <4>2. t[k] = s[k]
        BY <2>1, <2>4, <3>1, <3>2
      <4> QED BY <2>2, <4>1, <4>2
    <3>3. CASE ~(k <= Len(s))
      <4>1. k - Len(s) \in 1..size
        BY <1>5, <3>1, <3>3
      <4>2. t[k] = rec[k - Len(s)]
        BY <2>1, <2>4, <3>1, <3>3
      <4> QED BY <2>3, <4>1, <4>2
    <3> QED BY <3>2, <3>3
  <2>6. \A k \in 1..(h + size) - md.prev : Slice(data, md.prev, h + size)[k].ring = r
    BY <2>5 DEF t
  <2> QED BY <1>2, <2>6 DEF RingOwn, Content, StoredIn
<1>10. RingHolds(r, c, u)'
  <2>1. CASE pc = "copy" /\ r = i
    <3>0. md.prev <= head /\ head <= h /\ head \in Nat /\ md.prev <= old /\ old <= head /\ old \in Nat
      <4>1. md.prev <= old /\ old <= head /\ head <= h /\ old \in Nat /\ head \in Nat
        BY <2>1 DEF CopyInv
      <4> HIDE DEF h, md
      <4> QED BY <1>3, <4>1
    <3>1. RingCopied(r, c, u)
      BY <1>8, <2>1 DEF RingHolds
    <3>2. PICK n \in Nat : LET read == [c EXCEPT ![r] = n] IN
            /\ Leads(Wanted, Content(r, old, head), <<c, u>>, <<read, NoUnit>>)
            /\ Leads(Wanted, Content(r, head, h), <<read, NoUnit>>, <<was, NoUnit>>)
      BY <3>1 DEF RingCopied
    <3>3. Leads(Wanted, Slice(data, head, h + size), <<[c EXCEPT ![r] = n], NoUnit>>, <<is, NoUnit>>)
      BY <1>7, <3>0, <3>2
    <3>4. Slice(data, old, head) = Content(r, old, head)
      BY <1>2, <3>0 DEF Content
    <3>5. RingCopied(r, c, u)'
      <4>1. old' = old /\ head' = head
        BY <1>1 DEF copyVars
      <4> HIDE DEF data
      <4>2. /\ Leads(Wanted, Slice(data, old, head), <<c, u>>, <<[c EXCEPT ![r] = n], NoUnit>>)
            /\ Leads(Wanted, Slice(data, head, h + size), <<[c EXCEPT ![r] = n], NoUnit>>,
                     <<[c EXCEPT ![r] = stored'[r]], NoUnit>>)
        BY <1>2, <3>2, <3>3, <3>4
      <4> QED BY <1>2, <1>4, <4>1, <4>2 DEF RingCopied, Content, StoredIn, data
    <3>6. pc' = "copy" /\ r = i'
      BY <1>1, <2>1 DEF copyVars
    <3> QED BY <1>9, <3>5, <3>6 DEF RingHolds
  <2>2. CASE ~(pc = "copy" /\ r = i)
    <3>1. Leads(Wanted, Content(r, md.prev, h), <<c, NoUnit>>, <<was, NoUnit>>)
      BY <1>8, <2>2 DEF RingHolds, RingIdle
    <3>2. Leads(Wanted, Slice(data, md.prev, h + size), <<c, NoUnit>>, <<is, NoUnit>>)
      <4>1. md.prev <= md.prev /\ md.prev <= h /\ md.prev \in Nat
        BY <1>3
      <4> QED BY <1>7, <3>1, <4>1
    <3>3. RingIdle(r, c)'
      BY <1>2, <1>4, <3>2 DEF RingIdle, Content, StoredIn
    <3>4. ~(pc' = "copy" /\ r = i')
      BY <1>1, <2>2 DEF copyVars
    <3> QED BY <1>9, <3>3, <3>4 DEF RingHolds
  <2> QED BY <2>1, <2>2
<1>11. ASSUME NEW x \in DOMAIN samples_array \ {r} PROVE RingHolds(x, c, u)'
  <2>1. RingHolds(x, c, u)
    BY DEF RingsHold
  <2>2. /\ samples_array'[x] = samples_array[x] /\ stored'[x] = stored[x]
        /\ UNCHANGED <<copyVars, pc>>
    BY <1>1, <1>2
  <2> QED BY <1>4, <2>1, <2>2, SamePart DEF copyVars
<1> QED BY SMTT(40), <1>2, <1>10, <1>11 DEF RingsHold

\* A ring is made: it holds nothing, and the reader knows nothing of it.
LEMMA PrepareHolds ==
  ASSUME CountersInv, RingsInv, RingsHold(Zero, NoUnit), prepareToRecord
  PROVE  RingsHold(Zero, NoUnit)'
<1> DEFINE new == [data |-> [k \in 0..RingSize - 1 |-> Unit(0, 0, 0, 0, 0)],
                   data_head |-> 0, data_tail |-> 0, prev |-> 0]
           n == Len(samples_array)
<1>1. /\ pc = "open" /\ pc' = pc /\ UNCHANGED <<setupVars, copyVars>>
      /\ \/ samples_array' = Append(samples_array, new) /\ stored' = Append(stored, 0)
         \/ samples_array' = samples_array /\ stored' = stored
  BY DEF prepareToRecord, _prepare_to_record_one_fd
<1>2. Wanted' = Wanted
  BY <1>1, WantedSame DEF Setup, setupVars
<1>3. CASE samples_array' = samples_array /\ stored' = stored
  BY <1>1, <1>2, <1>3, RingsHoldSame
<1>4. CASE samples_array' = Append(samples_array, new) /\ stored' = Append(stored, 0)
  <2>1. /\ samples_array \in Seq(RingBuffers) /\ stored \in Seq(Nat)
        /\ Len(stored) = n /\ n \in Nat
    BY DEF RingsInv
  <2> HIDE DEF new, n
  <2>2. /\ DOMAIN samples_array = 1..n /\ DOMAIN samples_array' = 1..n + 1
        /\ samples_array'[n + 1] = new /\ stored'[n + 1] = 0
        /\ \A r \in 1..n : samples_array'[r] = samples_array[r] /\ stored'[r] = stored[r]
    <3>1. IsRow(samples_array) /\ IsRow(stored) /\ Len(samples_array) = n
      BY <2>1, SeqIsRow DEF n
    <3>2. /\ IsRow(Append(samples_array, new)) /\ Len(Append(samples_array, new)) = n + 1
          /\ \A k \in 1..n : Append(samples_array, new)[k] = samples_array[k]
          /\ Append(samples_array, new)[n + 1] = new
      BY <3>1, AppendIs
    <3>3. /\ IsRow(Append(stored, 0)) /\ Len(Append(stored, 0)) = n + 1
          /\ \A k \in 1..n : Append(stored, 0)[k] = stored[k]
          /\ Append(stored, 0)[n + 1] = 0
      BY <2>1, <3>1, AppendIs
    <3>4. DOMAIN Append(samples_array, new) = 1..n + 1 /\ DOMAIN samples_array = 1..n
      BY <3>1, <3>2, RowIs
    <3> QED BY <1>4, <3>2, <3>3, <3>4
  <2>3. ASSUME NEW r \in 1..n PROVE RingHolds(r, Zero, NoUnit)'
    <3>1. RingHolds(r, Zero, NoUnit)
      BY <2>2 DEF RingsHold
    <3> QED BY <1>1, <1>2, <2>2, <3>1, SamePart
  <2>4. ASSUME NEW r, r = n + 1 PROVE RingHolds(r, Zero, NoUnit)'
    <3>1. new.prev = 0 /\ new.data_head = 0 /\ new.data \in [0..RingSize - 1 -> Units]
      BY NoUnitIs DEF new, NoUnit
    <3>2. Slice(new.data, 0, 0) = <<>>
      BY <3>1, SliceEmpty
    <3>3. samples_array'[r] = new /\ stored'[r] = 0 /\ r \in Rings
      BY <2>1, <2>2, <2>4 DEF Rings
    <3>4. Content(r, 0, 0)' = <<>>
      BY <3>2, <3>3 DEF Content
    <3>5. RingOwn(r)'
      BY <3>1, <3>3 DEF RingOwn
    <3>6. <<Zero, NoUnit>> \in States /\ [Zero EXCEPT ![r] = 0] = Zero
      BY <3>3, NoUnitIs DEF States, Counts, Zero
    <3>7. Leads(Wanted', <<>>, <<Zero, NoUnit>>, <<Zero, NoUnit>>)
      BY <3>6, LeadsNothing
    <3>8. RingIdle(r, Zero)'
      BY <3>1, <3>2, <3>3, <3>6, <3>7 DEF RingIdle, Content
    <3> QED BY <1>1, <3>5, <3>8 DEF RingHolds
  <2>5. \A r \in 1..n + 1 : RingHolds(r, Zero, NoUnit)'
    <3>1. \A r \in 1..n + 1 : r \in 1..n \/ r = n + 1
      BY <2>1
    <3> QED BY <2>3, <2>4, <3>1
  <2> QED BY <2>2, <2>5 DEF RingsHold, Zero
<1> QED BY <1>1, <1>3, <1>4

\* While processes are listed there is no ring.
LEMMA ListHolds ==
  ASSUME CountersInv, RingsInv, pc = "procs", UNCHANGED <<samples_array, stored>>
  PROVE  RingsHold(Zero, NoUnit)'
<1>1. Len(perfCounters) = 0
  BY EmptyIsRow DEF CountersInv
<1>2. PICK done \in 0..Len(perfCounters) : Len(samples_array) = NumRings(done)
  BY DEF RingsInv
<1>3. done = 0
  BY <1>1, <1>2
<1>4. NumRings(0) = 0
  <2>1. 0 \div NumEvents = 0 /\ 0 % NumEvents = 0
    <3>1. 0 = NumEvents * 0 + 0 /\ 0 \in 0..NumEvents - 1 /\ NumEvents \in Nat \ {0}
      BY ConstantsAre
    <3> QED BY <3>1, DivUnique
  <2> QED BY <2>1 DEF NumRings
<1>5. DOMAIN samples_array = {}
  <2>1. samples_array \in Seq(RingBuffers)
    BY DEF RingsInv
  <2> QED BY <1>2, <1>3, <1>4, <2>1
<1> QED BY <1>5 DEF RingsHold, Zero

\* The recorder looks at a ring: what it will copy ends with a record.
LEMMA ReadHeadHolds ==
  ASSUME CountersInv, RingsInv, CopyInv, NEW c \in Counts, RingsHold(c, NoUnit), ReadHead
  PROVE  RingsHold(c, NoUnit)'
<1>1. /\ pc = "drain" /\ i <= Len(samples_array) /\ UNCHANGED <<setupVars, ringVars>>
      /\ \/ pc' = pc
         \/ /\ head' = samples_array[i].data_head /\ old' = samples_array[i].prev
            /\ pc' = "copy" /\ i' = i
  BY DEF ReadHead
<1>2. Wanted' = Wanted
  BY <1>1, WantedSame DEF Setup, setupVars
<1>3. CASE pc' = pc
  BY <1>1, <1>2, <1>3, RingsHoldSame DEF ringVars
<1>4. CASE /\ head' = samples_array[i].data_head /\ old' = samples_array[i].prev
           /\ pc' = "copy" /\ i' = i
  <2>1. ASSUME NEW r \in DOMAIN samples_array, r # i PROVE RingHolds(r, c, NoUnit)'
    <3>1. RingHolds(r, c, NoUnit)
      BY DEF RingsHold
    <3> QED BY <1>1, <1>2, <1>4, <2>1, <3>1, SamePart DEF ringVars
  <2>2. ASSUME NEW r \in DOMAIN samples_array, r = i PROVE RingHolds(r, c, NoUnit)'
    <3> DEFINE md == samples_array[r]
               h == md.data_head
               n == stored[r]
               read == [c EXCEPT ![r] = n]
    <3>1. RingHolds(r, c, NoUnit) /\ RingOwn(r) /\ RingIdle(r, c)
      BY <1>1 DEF RingsHold, RingHolds
    <3>2. /\ r \in Rings /\ h \in Nat /\ n \in Nat /\ md.data \in [0..RingSize - 1 -> Units]
      BY RingIs
    <3>3. Leads(Wanted, Content(r, md.prev, h), <<c, NoUnit>>, <<read, NoUnit>>)
      BY <3>1 DEF RingIdle
    <3>4. Slice(md.data, h, h) = <<>>
      BY <3>2, SliceEmpty
    <3>5. <<read, NoUnit>> \in States /\ [read EXCEPT ![r] = n] = read
      BY <3>2, NoUnitIs DEF States, Counts
    <3>6. Leads(Wanted, <<>>, <<read, NoUnit>>, <<read, NoUnit>>)
      BY <3>5, LeadsNothing
    <3>7. UNCHANGED <<samples_array, stored>> /\ head' = h /\ old' = md.prev
      BY <1>1, <1>4, <2>2 DEF ringVars
    <3>8. RingCopied(r, c, NoUnit)'
      <4>1. /\ Leads(Wanted', Content(r, old, head)', <<c, NoUnit>>, <<read, NoUnit>>)
            /\ Leads(Wanted', Content(r, head, samples_array[r].data_head)', <<read, NoUnit>>,
                     <<[c EXCEPT ![r] = stored'[r]], NoUnit>>)
        BY <1>2, <3>3, <3>4, <3>6, <3>7 DEF Content
      <4> QED BY <3>2, <4>1 DEF RingCopied
    <3>9. RingOwn(r)'
      BY <3>1, <3>7 DEF RingOwn, Content
    <3> QED BY <1>4, <2>2, <3>8, <3>9 DEF RingHolds
  <2>3. DOMAIN samples_array' = DOMAIN samples_array
    BY <1>1 DEF ringVars
  <2> QED BY <2>1, <2>2, <2>3 DEF RingsHold
<1> QED BY <1>1, <1>3, <1>4

\* Part of what is copied is written.
Wrote(c, u, add, d, v) ==
  /\ d \in Counts /\ v \in Partial /\ add \in Seq(Units) /\ IsRow(add)
  /\ Leads(Wanted, add, <<c, u>>, <<d, v>>)
LEMMA CopyHolds ==
  ASSUME CountersInv, RingsInv, CopyInv, NEW c \in Counts, NEW u \in Partial, RingsHold(c, u), CopyOut,
         NEW r, r = i
  PROVE  \E add, d, v : /\ Wrote(c, u, add, d, v) /\ out' = out \o add
                        /\ total_bytes_recorded' = total_bytes_recorded + Len(add)
                        /\ RingsHold(d, v)'
<1> DEFINE md == samples_array[r]
           h == md.data_head
           data == md.data
<1>1. /\ pc = "copy" /\ old < head
      /\ UNCHANGED <<setupVars, ringVars, i, head, alive, pc, pending, rd, got>>
  BY DEF CopyOut
<1>2. /\ r \in DOMAIN samples_array /\ md.prev <= old /\ old <= head /\ head <= h
      /\ old \in Nat /\ head \in Nat
  BY <1>1 DEF CopyInv
<1>3. /\ md.prev \in Nat /\ h \in Nat /\ r \in Rings /\ stored[r] \in Nat
      /\ data \in [0..RingSize - 1 -> Units]
  BY <1>2, RingIs
<1>4. ChunkEnd \in Nat /\ ChunkEnd <= head
  BY <1>1, <1>2, ChunkEndIs
<1>5. PICK n \in 1..ChunkEnd - old :
        /\ out' = out \o [k \in 1..n |-> data[(old + k - 1) % RingSize]]
        /\ old' = old + n /\ total_bytes_recorded' = total_bytes_recorded + n
  BY DEF CopyOut
<1> DEFINE mid == old + n
           add == Slice(data, old, mid)
           rest == Slice(data, mid, head)
<1>6. n \in Nat /\ mid \in Nat /\ old <= mid /\ mid <= head /\ mid - old = n
  BY <1>2, <1>4
<1>0. /\ data \in [0..RingSize - 1 -> Units] /\ old \in Nat /\ mid \in Nat /\ head \in Nat
      /\ old <= mid /\ mid <= head
  BY <1>2, <1>3, <1>6
<1> HIDE DEF data
<1>7. out' = out \o add
  <2>1. add = [k \in 1..n |-> data[(old + k - 1) % RingSize]]
    BY <1>6 DEF Slice
  <2> HIDE DEF add, mid
  <2> QED BY <1>5, <2>1 DEF data
<1>8. /\ IsRow(add) /\ Len(add) = mid - old /\ add \in Seq(Units)
      /\ \A k \in 1..mid - old : add[k] = data[(old + k - 1) % RingSize]
  <2> HIDE DEF mid
  <2> QED BY <1>0, SliceIs
<1>9. /\ IsRow(rest) /\ Len(rest) = head - mid /\ rest \in Seq(Units)
      /\ \A k \in 1..head - mid : rest[k] = data[(mid + k - 1) % RingSize]
  <2> HIDE DEF mid
  <2> QED BY <1>0, SliceIs
<1>10. Content(r, old, head) = add \o rest
  <2>1. add \o rest = Slice(data, old, head)
    <3> HIDE DEF mid
    <3> QED BY <1>0, SliceJoin
  <2> QED BY <2>1 DEF Content, data
<1>11. \A k \in 1..Len(add) : add[k].ring = r
  <2> DEFINE s == Slice(data, md.prev, h)
  <2>1. md.prev <= h
    BY <1>2, <1>3
  <2>2. /\ IsRow(s) /\ Len(s) = h - md.prev /\ s \in Seq(Units)
        /\ \A k \in 1..h - md.prev : s[k] = data[(md.prev + k - 1) % RingSize]
    <3> DEFINE p == md.prev
    <3>1. p \in Nat /\ h \in Nat /\ p <= h
      BY <1>3, <2>1
    <3> HIDE DEF p, h
    <3>2. /\ IsRow(Slice(data, p, h)) /\ Len(Slice(data, p, h)) = h - p
          /\ Slice(data, p, h) \in Seq(Units)
          /\ \A k \in 1..h - p : Slice(data, p, h)[k] = data[(p + k - 1) % RingSize]
      BY ZenonT(60), <1>0, <3>1, SliceIs
    <3> QED BY <3>2 DEF p
  <2>3. \A k \in 1..h - md.prev : s[k].ring = r
    BY <1>2 DEF RingsHold, RingHolds, RingOwn, Content, data
  <2> HIDE DEF s
  <2>4. ASSUME NEW k \in 1..n PROVE add[k].ring = r
    <3> DEFINE j == (old - md.prev) + k
    <3>1. j \in 1..h - md.prev /\ md.prev + j - 1 = old + k - 1
      BY SMTT(40), <1>2, <1>3, <1>6
    <3> HIDE DEF j, add, data
    <3>2. s[j] = data[(old + k - 1) % RingSize]
      BY <2>2, <3>1
    <3>3. add[k] = data[(old + k - 1) % RingSize]
      BY <1>6, <1>8
    <3> QED BY <2>3, <3>1, <3>2, <3>3
  <2> HIDE DEF add, mid
  <2> QED BY <1>6, <1>8, <2>4
<1>12. PICK m \in Nat : LET read == [c EXCEPT ![r] = m] IN
         /\ Leads(Wanted, Content(r, old, head), <<c, u>>, <<read, NoUnit>>)
         /\ Leads(Wanted, Content(r, head, h), <<read, NoUnit>>,
                  <<[c EXCEPT ![r] = stored[r]], NoUnit>>)
  BY <1>1, <1>2 DEF RingsHold, RingHolds, RingCopied
<1> DEFINE read == [c EXCEPT ![r] = m]
<1>13. \E y \in States : /\ Leads(Wanted, add, <<c, u>>, y)
                         /\ Leads(Wanted, rest, y, <<read, NoUnit>>)
  <2>1. Leads(Wanted, add \o rest, <<c, u>>, <<read, NoUnit>>)
    BY <1>10, <1>12
  <2> HIDE DEF add, rest, read
  <2> QED BY <1>8, <1>9, <2>1, LeadsSplit
<1>14. PICK d \in Counts, v \in Partial :
          /\ Leads(Wanted, add, <<c, u>>, <<d, v>>)
          /\ Leads(Wanted, rest, <<d, v>>, <<read, NoUnit>>)
  <2> HIDE DEF add, rest, read
  <2> QED BY <1>13 DEF States
<1>15. d = [c EXCEPT ![r] = d[r]]
  <2> DEFINE q == <<c, u>>
             z == <<d, v>>
  <2>1. q[1] = c /\ z[1] = d
    OBVIOUS
  <2> HIDE DEF add, rest, read
  <2>2. Leads(Wanted, add, q, z)
    BY <1>14
  <2> HIDE DEF q, z
  <2>3. \A x \in Rings \ {r} : z[1][x] = q[1][x]
    BY <1>3, <1>8, <1>11, <2>2, LeadsOnly
  <2> QED BY <1>3, <2>1, <2>3 DEF Counts
<1> HIDE DEF add, rest, data
<1>16. /\ [d EXCEPT ![r] = m] = read
       /\ [d EXCEPT ![r] = stored[r]] = [c EXCEPT ![r] = stored[r]]
       /\ \A x \in Rings : x # r => d[x] = c[x]
  BY <1>3, <1>15 DEF Counts
<1>17. Wanted' = Wanted
  BY <1>1, WantedSame DEF Setup, setupVars
<1>18. ASSUME NEW x \in DOMAIN samples_array, x # r PROVE RingHolds(x, d, v)'
  <2>1. RingHolds(x, c, u)
    BY DEF RingsHold
  <2>2. RingOwn(x) /\ RingIdle(x, c)
    BY <1>18, <2>1 DEF RingHolds
  <2>3. d[x] = c[x]
    BY <1>16, <1>18, RingIs
  <2>4. RingIdle(x, d)
    BY <2>2, <2>3, RingFrame
  <2>5. RingHolds(x, d, v)
    BY <1>18, <2>2, <2>4 DEF RingHolds
  <2> QED BY <1>1, <1>17, <1>18, <2>5, SamePart DEF ringVars
<1>19. RingHolds(r, d, v)'
  <2>1. RingOwn(r)
    BY <1>2 DEF RingsHold, RingHolds
  <2>2. UNCHANGED <<samples_array, stored, head>> /\ old' = mid
    BY <1>1, <1>5 DEF ringVars
  <2>3. RingOwn(r)'
    BY <2>1, <2>2 DEF RingOwn, Content
  <2>4. /\ Leads(Wanted', Content(r, old, head)', <<d, v>>, <<[d EXCEPT ![r] = m], NoUnit>>)
        /\ Leads(Wanted', Content(r, head, samples_array[r].data_head)',
                 <<[d EXCEPT ![r] = m], NoUnit>>, <<[d EXCEPT ![r] = stored'[r]], NoUnit>>)
    <3>1. Content(r, old, head)' = rest
      BY <2>2 DEF Content, rest, data
    <3>2. Content(r, head, samples_array[r].data_head)' = Content(r, head, h)
      BY <2>2 DEF Content
    <3> QED BY <1>12, <1>14, <1>16, <1>17, <2>2, <3>1, <3>2
  <2>5. RingCopied(r, d, v)'
    BY <2>4 DEF RingCopied
  <2>6. pc' = "copy" /\ r = i'
    BY <1>1
  <2> QED BY <2>3, <2>5, <2>6 DEF RingHolds
<1>20. RingsHold(d, v)'
  <2>1. \A x \in Rings \ DOMAIN samples_array : d[x] = 0
    <3>1. \A x \in Rings \ DOMAIN samples_array : c[x] = 0
      BY DEF RingsHold
    <3> QED BY <1>2, <1>16, <3>1
  <2>2. DOMAIN samples_array' = DOMAIN samples_array
    BY <1>1 DEF ringVars
  <2> QED BY <1>18, <1>19, <2>1, <2>2 DEF RingsHold
<1>21. Wrote(c, u, add, d, v) /\ Len(add) = n
  BY <1>6, <1>8, <1>14 DEF Wrote
<1> QED BY <1>5, <1>7, <1>20, <1>21

\* The ring is given back: what was written ended with a record.
LEMMA TailHolds ==
  ASSUME CountersInv, RingsInv, CopyInv, NEW c \in Counts, NEW u, RingsHold(c, u), UpdateTail,
         NEW r, r = i
  PROVE  u = NoUnit /\ RingsHold(c, NoUnit)'
<1> DEFINE md == samples_array[r]
           h == md.data_head
           new == [md EXCEPT !.prev = head, !.data_tail = head]
<1>1. /\ pc = "copy" /\ old = head /\ pc' = "drain"
      /\ samples_array' = [samples_array EXCEPT ![r].prev = head, ![r].data_tail = head]
      /\ UNCHANGED <<setupVars, perfCounters, stored>>
  BY DEF UpdateTail
<1>2. /\ r \in DOMAIN samples_array /\ md.prev <= head /\ head <= h /\ head \in Nat
  BY <1>1 DEF CopyInv
<1>3. /\ md \in RingBuffers /\ md.prev \in Nat /\ h \in Nat /\ r \in Rings /\ stored[r] \in Nat
      /\ md.data \in [0..RingSize - 1 -> Units]
  BY <1>2, RingIs
<1>4. /\ new.prev = head /\ new.data_head = h /\ new.data = md.data
      /\ samples_array' = [samples_array EXCEPT ![r] = new]
  <2>1. new.prev = head /\ new.data_head = h /\ new.data = md.data
    <3> HIDE DEF md
    <3> QED BY <1>3 DEF RingBuffers
  <2>2. samples_array' = [samples_array EXCEPT ![r] = new]
    BY <1>1, <1>2
  <2> QED BY <2>1, <2>2
<1> HIDE DEF new
<1>5. /\ DOMAIN samples_array' = DOMAIN samples_array /\ samples_array'[r] = new
      /\ \A x \in DOMAIN samples_array : x # r => samples_array'[x] = samples_array[x]
  BY <1>2, <1>4
<1>6. PICK m \in Nat : LET read == [c EXCEPT ![r] = m] IN
        /\ Leads(Wanted, Content(r, old, head), <<c, u>>, <<read, NoUnit>>)
        /\ Leads(Wanted, Content(r, head, h), <<read, NoUnit>>,
                 <<[c EXCEPT ![r] = stored[r]], NoUnit>>)
  BY <1>1, <1>2 DEF RingsHold, RingHolds, RingCopied
<1> DEFINE read == [c EXCEPT ![r] = m]
<1>7. u = NoUnit /\ read = c
  <2>1. Content(r, old, head) = <<>>
    <3>1. Slice(md.data, head, head) = <<>>
      BY <1>2, <1>3, SliceEmpty
    <3> QED BY <1>1, <3>1 DEF Content
  <2>2. Leads(Wanted, <<>>, <<c, u>>, <<read, NoUnit>>)
    BY <1>6, <2>1
  <2> HIDE DEF read
  <2>3. <<c, u>> = <<read, NoUnit>>
    BY <2>2, LeadsNowhere
  <2> QED BY <2>3
<1>8. Wanted' = Wanted
  BY <1>1, WantedSame DEF Setup, setupVars
<1>9. RingHolds(r, c, NoUnit)'
  <2>1. RingOwn(r)'
    <3> DEFINE s == Slice(md.data, md.prev, h)
               t == Slice(md.data, head, h)
    <3>1. \A k \in 1..h - md.prev : s[k].ring = r
      BY <1>2 DEF RingsHold, RingHolds, RingOwn, Content
    <3>2. md.prev <= h
      BY <1>2, <1>3
    <3>3. /\ IsRow(s) /\ Len(s) = h - md.prev /\ s \in Seq(Units)
          /\ \A k \in 1..h - md.prev : s[k] = md.data[(md.prev + k - 1) % RingSize]
      <4> DEFINE p == md.prev
      <4>1. p \in Nat /\ h \in Nat /\ p <= h
        BY <1>3, <3>2
      <4> HIDE DEF p, h
      <4>2. /\ IsRow(Slice(md.data, p, h)) /\ Len(Slice(md.data, p, h)) = h - p
            /\ Slice(md.data, p, h) \in Seq(Units)
            /\ \A k \in 1..h - p : Slice(md.data, p, h)[k] = md.data[(p + k - 1) % RingSize]
        BY ZenonT(60), <1>3, <4>1, SliceIs
      <4> QED BY <4>2 DEF p
    <3>4. /\ IsRow(t) /\ Len(t) = h - head /\ t \in Seq(Units)
          /\ \A k \in 1..h - head : t[k] = md.data[(head + k - 1) % RingSize]
      <4> DEFINE p == head
      <4>1. p \in Nat /\ h \in Nat /\ p <= h
        BY <1>2, <1>3
      <4> HIDE DEF p, h
      <4>2. /\ IsRow(Slice(md.data, p, h)) /\ Len(Slice(md.data, p, h)) = h - p
            /\ Slice(md.data, p, h) \in Seq(Units)
            /\ \A k \in 1..h - p : Slice(md.data, p, h)[k] = md.data[(p + k - 1) % RingSize]
        BY ZenonT(60), <1>3, <4>1, SliceIs
      <4> QED BY <4>2 DEF p
    <3> HIDE DEF s, t
    <3>5. ASSUME NEW k \in 1..h - head PROVE t[k].ring = r
      <4> DEFINE j == (head - md.prev) + k
      <4>1. j \in 1..h - md.prev /\ md.prev + j - 1 = head + k - 1
        BY SMTT(40), <1>2, <1>3
      <4> HIDE DEF j, md, h
      <4>2. s[j] = t[k]
        BY <3>3, <3>4, <4>1
      <4> QED BY <3>1, <4>1, <4>2
    <3>6. \A k \in 1..h - head : Slice(md.data, head, h)[k].ring = r
      BY <3>5 DEF t
    <3> QED BY <1>4, <1>5, <3>6 DEF RingOwn, Content
  <2>2. RingIdle(r, c)'
    <3>1. Content(r, head, h) = Slice(md.data, head, h)
      BY DEF Content
    <3>2. Leads(Wanted', Slice(md.data, head, h), <<c, NoUnit>>,
                <<[c EXCEPT ![r] = stored[r]], NoUnit>>)
      BY <1>6, <1>7, <1>8, <3>1
    <3> QED BY <1>1, <1>4, <1>5, <3>2 DEF RingIdle, Content
  <2> QED BY <1>1, <2>1, <2>2 DEF RingHolds
<1>10. ASSUME NEW x \in DOMAIN samples_array, x # r PROVE RingHolds(x, c, NoUnit)'
  <2>1. RingHolds(x, c, u)
    BY DEF RingsHold
  <2>2. RingHolds(x, c, NoUnit)
    BY <1>7, <2>1
  <2> QED BY <1>1, <1>5, <1>8, <1>10, <2>2, SamePart
<1> QED BY <1>5, <1>7, <1>9, <1>10 DEF RingsHold

-----------------------------------------------------------------------------
(* What is still to be read                                                *)

LEMMA HeaderIs ==
  ASSUME CountersInv, pc \in Writing
  PROVE  IsRow(Header) /\ Len(Header) = HeaderLen
<1>0. Len(perfCounters) = Wanted
  BY DEF CountersInv
<1> DEFINE size == IF pc = "closed" THEN total_bytes_recorded ELSE 0
<1>1. IsRow(_write_header_to_file(size)) /\ Len(_write_header_to_file(size)) = HeaderLen
  <2> HIDE DEF size
  <2> QED BY <1>0, FileHeaderIs
<1>2. IsRow(_write_header_to_pipe) /\ Len(_write_header_to_pipe) = HeaderLen
  BY <1>0, PipeHeaderIs
<1> QED BY <1>1, <1>2 DEF Header

LEMMA LeftoverIs ==
  ASSUME CountersInv, pc \in Writing, NEW k \in 0..HeaderLen
  PROVE  /\ IsRow(Leftover(k)) /\ Len(Leftover(k)) = HeaderLen - k
         /\ \A j \in 1..HeaderLen - k : Leftover(k)[j] = Header[k + j]
<1>1. IsRow(Header) /\ Len(Header) = HeaderLen
  BY HeaderIs
<1> QED BY <1>1, RestIs DEF Leftover

LEMMA HeaderSame ==
  ASSUME UNCHANGED Setup,
         \/ ~write_to_file
         \/ pc # "closed" /\ pc' # "closed"
         \/ UNCHANGED <<pc, total_bytes_recorded>>
  PROVE  Header' = Header /\ \A k : Leftover(k)' = Leftover(k)
<1>1. /\ Wanted' = Wanted /\ HeaderLen' = HeaderLen
      /\ h_attrs' = h_attrs /\ write_to_file' = write_to_file
  BY WantedSame DEF Setup
<1>2. AllIds' = AllIds
  BY <1>1 DEF AllIds
<1>3. IdUnits' = IdUnits /\ \A e : IdsBefore(e)' = IdsBefore(e)
  BY <1>1, <1>2 DEF IdUnits, IdsBefore
<1>4. \A size : _write_header_to_file(size)' = _write_header_to_file(size)
  BY <1>1, <1>2, <1>3 DEF _write_header_to_file, IdsBefore
<1>5. _write_header_to_pipe' = _write_header_to_pipe
  BY <1>1, <1>3 DEF _write_header_to_pipe
<1>6. Header' = Header
  BY <1>1, <1>4, <1>5 DEF Header
<1> QED BY <1>1, <1>6 DEF Leftover

LEMMA FlowIs == ASSUME Written PROVE IsRow(Flow) /\ IsRow(out) /\ IsRow(pending)
  BY JoinIs DEF Written, Flow

\* More records are written.
LEMMA FollowsMore ==
  ASSUME CountersInv, pc \in Writing, NEW k \in 0..HeaderLen, NEW c, NEW u, Follows(k, c, u),
         NEW add, NEW d, NEW v, Wrote(c, u, add, d, v), Flow' = Flow \o add,
         Wanted' = Wanted, Leftover(k)' = Leftover(k)
  PROVE  Follows(k, d, v)'
<1>1. PICK recs \in Seq(Units) : /\ Flow = Leftover(k) \o recs
                                 /\ Leads(Wanted, recs, <<Zero, NoUnit>>, <<c, u>>)
  BY DEF Follows
<1>2. IsRow(recs) /\ IsRow(add) /\ add \in Seq(Units) /\ IsRow(Leftover(k))
  BY SeqIsRow, LeftoverIs DEF Wrote
<1>3. (Leftover(k) \o recs) \o add = Leftover(k) \o (recs \o add)
  BY SMTT(40), <1>2, JoinAssociative
<1>4. Leads(Wanted, recs \o add, <<Zero, NoUnit>>, <<d, v>>)
  BY <1>1, <1>2, LeadsJoin DEF Wrote
<1>5. recs \o add \in Seq(Units)
  BY <1>2
<1> QED BY <1>1, <1>3, <1>4, <1>5 DEF Follows

LEMMA IdPlace ==
  ASSUME CountersInv, NEW e \in 1..NumEvents + 1, NEW n \in 0..IdsPerEvent - 1,
         e = NumEvents + 1 => n = 0
  PROVE  /\ 1 + NumEvents + (e - 1) * IdsPerEvent + n \in 0..HeaderLen
         /\ e = NumEvents + 1 => 1 + NumEvents + (e - 1) * IdsPerEvent + n = HeaderLen
         /\ e # NumEvents + 1 => 1 + NumEvents + (e - 1) * IdsPerEvent + n < HeaderLen
<1> DEFINE m == IdsPerEvent
<1>0. /\ m \in Nat \ {0} /\ Wanted = m * NumEvents /\ Wanted \in Nat /\ NumEvents \in Nat \ {0}
      /\ HeaderLen = 1 + NumEvents + Wanted
  BY WantedIs, ConstantsAre DEF CountersInv
<1> HIDE DEF m
<1>1. CASE e = NumEvents + 1
  <2>1. (e - 1) * m = m * NumEvents
    BY <1>0, <1>1
  <2> QED BY <1>0, <1>1, <2>1 DEF m
<1>2. CASE e # NumEvents + 1
  <2>1. e \in Nat /\ 1 <= e /\ e <= NumEvents
    BY <1>0, <1>2
  <2>2. (e - 1) * m \in Nat /\ (e - 1) * m + m = e * m /\ e * m <= m * NumEvents
    BY <1>0, <2>1
  <2> DEFINE x == (e - 1) * m
  <2>3. x \in Nat /\ x + m <= Wanted
    BY <1>0, <2>2
  <2>4. n \in 0..m - 1
    BY DEF m
  <2> HIDE DEF x
  <2>5. 1 + NumEvents + x + n \in 0..HeaderLen /\ 1 + NumEvents + x + n < HeaderLen
    BY <1>0, <2>3, <2>4
  <2> QED BY <1>2, <2>5 DEF x, m
<1> QED BY <1>1, <1>2

\* The reader does nothing while more is written.
LEMMA ReaderKeeps ==
  ASSUME CountersInv, Written, pc \in Writing \ {"closed"}, pc' \in Writing,
         NEW c, NEW u, ReaderInv(c, u), UNCHANGED <<rd, got, Setup>>,
         ~write_to_file \/ pc' # "closed",
         NEW add, NEW d, NEW v, Wrote(c, u, add, d, v), Flow' = Flow \o add
  PROVE  ReaderInv(d, v)'
<1>1. /\ Wanted' = Wanted /\ IdsPerEvent' = IdsPerEvent
      /\ write_to_file' = write_to_file /\ h_attrs' = h_attrs
  BY WantedSame DEF Setup
<1>2. \A k : Leftover(k)' = Leftover(k)
  BY HeaderSame
<1>3. ASSUME NEW k \in 0..HeaderLen, Follows(k, c, u) PROVE Follows(k, d, v)'
  BY <1>1, <1>2, <1>3, FollowsMore
<1>4. NumEvents \in Nat /\ HeaderLen \in Nat /\ 1 + NumEvents <= HeaderLen
  <2>1. Wanted \in Nat /\ HeaderLen = 1 + NumEvents + Wanted /\ NumEvents \in Nat
    BY WantedIs, ConstantsAre DEF CountersInv
  <2> QED BY <2>1
<1>5. AtHeader(c, u) => AtHeader(d, v)'
  BY <1>3, <1>4 DEF AtHeader, reader, evts
<1>6. AtAttrs(c, u) => AtAttrs(d, v)'
  <2> SUFFICES ASSUME AtAttrs(c, u) PROVE AtAttrs(d, v)'
    OBVIOUS
  <2>1. ~write_to_file /\ got = <<>> /\ rd.nattrs = NumEvents /\ rd.event = <<>>
    BY DEF AtAttrs
  <2>2. ASSUME NEW n \in Nat, AttrsRead(n), Follows(1 + n, c, u)
        PROVE  AttrsRead(n)' /\ Follows(1 + n, d, v)'
    <3>1. AttrsRead(n)'
      BY <1>1, <2>2 DEF AttrsRead, reader, evts
    <3>2. 1 + n \in 0..HeaderLen
      BY <1>4, <2>2 DEF AttrsRead
    <3> QED BY <1>3, <2>2, <3>1, <3>2
  <2>3. ASSUME NEW e \in 1..NumEvents + 1, NEW n \in 0..IdsPerEvent - 1, AtIds(e, n, c, u)
        PROVE  AtIds(e, n, d, v)'
    <3>1. /\ IdsRead(e, n) /\ (e = NumEvents + 1 => n = 0)
          /\ Follows(1 + NumEvents + (e - 1) * IdsPerEvent + n, c, u)
      BY <2>3 DEF AtIds
    <3>2. PICK k \in 0..HeaderLen : k = 1 + NumEvents + (e - 1) * IdsPerEvent + n
      BY <3>1, IdPlace
    <3>3. IdsRead(e, n)'
      BY <1>1, <3>1 DEF IdsRead, evts
    <3>4. Follows(k, d, v)'
      BY <1>3, <3>1, <3>2
    <3> QED BY <1>1, <3>1, <3>2, <3>3, <3>4 DEF AtIds
  <2>4. CASE \E n \in Nat : AttrsRead(n) /\ Follows(1 + n, c, u)
    BY <1>1, <2>1, <2>2, <2>4 DEF AtAttrs
  <2>5. CASE \E e \in 1..NumEvents + 1, n \in 0..IdsPerEvent - 1 : AtIds(e, n, c, u)
    <3>1. \E e \in 1..NumEvents + 1, n \in 0..IdsPerEvent' - 1 : AtIds(e, n, d, v)'
      BY <1>1, <2>3, <2>5
    <3> QED BY <1>1, <2>1, <3>1 DEF AtAttrs
  <2> QED BY <2>4, <2>5 DEF AtAttrs
<1>7. AtRecords(c, u) => AtRecords(d, v)'
  <2> SUFFICES ASSUME AtRecords(c, u) PROVE AtRecords(d, v)'
    OBVIOUS
  <2>1. ~write_to_file /\ rd.ids = h_attrs /\ Leads(Wanted, Flow, <<Read, LastUnit>>, <<c, u>>)
    BY DEF AtRecords
  <2>2. IsRow(Flow) /\ IsRow(add) /\ Leads(Wanted, add, <<c, u>>, <<d, v>>)
    BY FlowIs DEF Wrote
  <2>3. Leads(Wanted, Flow \o add, <<Read, LastUnit>>, <<d, v>>)
    BY <2>1, <2>2, LeadsJoin
  <2>4. Read' = Read /\ LastUnit' = LastUnit
    BY DEF Read, LastUnit
  <2> QED BY <1>1, <2>1, <2>3, <2>4 DEF AtRecords
<1>8. rd.pc \notin {"open", "file", "done", "failed"}
  BY DEF ReaderInv, AtOpen, AtPlace, Writing
<1> QED BY <1>5, <1>6, <1>7, <1>8 DEF ReaderInv

-----------------------------------------------------------------------------
(* The recorder's and the kernel's steps                                   *)

LEMMA WholeIs == ASSUME NEW s, IsRow(s) PROVE SubSeq(s, 1, Len(s)) = s
<1>1. Len(s) \in Nat /\ Len(s) \in 0..Len(s)
  BY RowIs
<1>2. /\ IsRow(SubSeq(s, 1, Len(s))) /\ Len(SubSeq(s, 1, Len(s))) = Len(s)
      /\ \A k \in 1..Len(s) : SubSeq(s, 1, Len(s))[k] = s[k]
  BY <1>1, FirstIs
<1> QED BY <1>2, RowEqual

LEMMA WroteNothing ==
  ASSUME NEW c \in Counts, NEW u \in Partial
  PROVE  Wrote(c, u, <<>>, c, u)
<1>1. <<c, u>> \in States
  BY DEF States
<1>2. Leads(Wanted, <<>>, <<c, u>>, <<c, u>>)
  BY <1>1, LeadsNothing
<1>3. IsRow(<<>>) /\ <<>> \in Seq(Units)
  BY EmptyIsRow
<1> QED BY <1>2, <1>3 DEF Wrote

\* Nothing is written before the counters are open.
LEMMA BeforeSteps ==
  ASSUME CountersInv, RingsInv, CopyInv, EventInv, NEW c, NEW u, WriterInv(c, u), ReaderInv(c, u),
         \/ \E t \in alive : Exit(t)
         \/ \E p \in listed : _get_one_process_info(p)
         \/ op_get_process_info \/ perf_event_open \/ prepareToRecord \/ PrepareFails
         \/ Close /\ pc = "invalid"
  PROVE  WriterInv(c, u)' /\ ReaderInv(c, u)'
<1> DEFINE before == {"procs", "open", "invalid"}
<1>1. /\ pc \in before /\ pc' \in Before
      /\ UNCHANGED <<write_to_file, out, pending, total_bytes_recorded, rd, got>>
  <2>1. CASE \E t \in alive : Exit(t)
    BY <2>1 DEF Exit, setupVars, Before
  <2>2. CASE \E p \in listed : _get_one_process_info(p)
    BY <2>2 DEF _get_one_process_info, Before
  <2>3. CASE op_get_process_info
    BY <2>3 DEF op_get_process_info, setupVars, Before
  <2>4. CASE perf_event_open
    BY <2>4 DEF perf_event_open, Before
  <2>5. CASE prepareToRecord
    BY <2>5 DEF prepareToRecord, setupVars, Before
  <2>6. CASE PrepareFails
    BY <2>6 DEF PrepareFails, setupVars, Before
  <2>7. CASE Close /\ pc = "invalid"
    BY <2>7 DEF Close, setupVars, Before
  <2> QED BY <2>1, <2>2, <2>3, <2>4, <2>5, <2>6, <2>7
<1>2. c = Zero /\ u = NoUnit /\ Zero \in Counts /\ RingsHold(Zero, NoUnit) /\ Written
  BY <1>1 DEF WriterInv, Before
<1>3. RingsHold(Zero, NoUnit)'
  <2>1. CASE \/ \E t \in alive : Exit(t)
             \/ op_get_process_info \/ PrepareFails
             \/ Close /\ pc = "invalid"
    <3>1. UNCHANGED <<setupVars, samples_array, stored>> /\ pc' # "copy" /\ pc # "copy"
      <4>1. CASE \E t \in alive : Exit(t)
        BY <1>1, <4>1 DEF Exit, Before, ringVars
      <4>2. CASE op_get_process_info
        BY <1>1, <4>2 DEF op_get_process_info, Before, ringVars
      <4>3. CASE PrepareFails
        BY <1>1, <4>3 DEF PrepareFails, Before, ringVars
      <4>4. CASE Close /\ pc = "invalid"
        BY <1>1, <4>4 DEF Close, Before, ringVars
      <4> QED BY <2>1, <4>1, <4>2, <4>3, <4>4
    <3>2. Wanted' = Wanted
      BY <3>1, WantedSame DEF setupVars, Setup
    <3> QED BY <1>2, <3>1, <3>2, RingsHoldSame
  <2>2. CASE perf_event_open
    <3>1. /\ UNCHANGED <<mode, write_to_file, use_cpu_minus_one, procs, samples_array, stored>>
          /\ pc' # "copy" /\ pc # "copy"
      BY <1>1, <2>2 DEF perf_event_open, Before
    <3>2. Wanted' = Wanted
      BY <3>1 DEF Wanted, num_cpus, num_procs, profile_process_group, pid_started
    <3> QED BY <1>2, <3>1, <3>2, RingsHoldSame
  <2>3. CASE prepareToRecord
    BY <1>2, <2>3, PrepareHolds
  <2>4. CASE \E p \in listed : _get_one_process_info(p)
    <3>1. pc = "procs" /\ UNCHANGED <<samples_array, stored>>
      BY <2>4 DEF _get_one_process_info, ringVars
    <3> QED BY <3>1, ListHolds
  <2> QED BY <2>1, <2>2, <2>3, <2>4
<1>4. Written'
  BY <1>1, <1>2 DEF Written, Before, IsRow
<1>5. WriterInv(c, u)'
  <2>1. u \in Partial /\ c \in Counts
    BY DEF WriterInv
  <2> QED BY <1>1, <1>2, <1>3, <1>4, <2>1 DEF WriterInv, Zero
<1>6. rd.pc = "header" /\ rd = reader /\ got = <<>>
  BY <1>1 DEF ReaderInv, EventInv, AtHeader, AtAttrs, AtRecords, AtOpen, AtPlace, Writing
<1>7. ReaderInv(c, u)'
  <2>1. AtHeader(c, u)'
    BY <1>1, <1>6 DEF AtHeader, Before, Writing, reader, evts
  <2> QED BY <1>1, <1>6, <2>1 DEF ReaderInv
<1> QED BY <1>5, <1>7

\* The header comes first.
LEMMA HeaderStep ==
  ASSUME CountersInv, RingsInv, CopyInv, EventInv, NEW c, NEW u, WriterInv(c, u), ReaderInv(c, u),
         write_op_header_info
  PROVE  WriterInv(c, u)' /\ ReaderInv(c, u)'
<1>1. /\ pc = "open" /\ pc' = "info" /\ Len(perfCounters) = Wanted
      /\ pending' = IF write_to_file THEN _write_header_to_file(0) ELSE _write_header_to_pipe
      /\ UNCHANGED <<setupVars, ringVars, copyVars, alive, out, total_bytes_recorded, rd, got>>
  BY DEF write_op_header_info
<1>2. c = Zero /\ u = NoUnit /\ Zero \in Counts /\ RingsHold(Zero, NoUnit) /\ Written /\ out = <<>>
      /\ u \in Partial
  BY <1>1 DEF WriterInv, Before, Written
<1>3. UNCHANGED Setup /\ Wanted' = Wanted /\ HeaderLen' = HeaderLen
  BY <1>1, WantedSame DEF Setup, setupVars
<1> DEFINE H == IF write_to_file THEN _write_header_to_file(0) ELSE _write_header_to_pipe
<1>4. IsRow(H) /\ Len(H) = HeaderLen
  BY <1>1, FileHeaderIs, PipeHeaderIs
<1>5. Header' = pending'
  <2>1. CountersInv' /\ pc' \in Writing
    BY <1>1, CountersStep DEF Next, Recorder, Writing
  <2>2. _write_header_to_file(0)' = _write_header_to_file(0) /\ _write_header_to_pipe' = _write_header_to_pipe
    <3>1. h_attrs' = h_attrs
      BY <1>3 DEF Setup
    <3> QED BY <3>1 DEF _write_header_to_file, _write_header_to_pipe, IdUnits, AllIds, IdsBefore
  <2> QED BY <1>1, <2>2 DEF Header, setupVars
<1>6. RingsHold(Zero, NoUnit)'
  BY <1>1, <1>2, <1>3, RingsHoldSame DEF ringVars
<1>7. Written'
  BY <1>1, <1>2, <1>4 DEF Written, Before, IsRow, setupVars
<1>8. WriterInv(c, u)'
  BY <1>1, <1>2, <1>6, <1>7 DEF WriterInv, Zero
<1>9. Follows(0, c, u)'
  <2>1. Flow' = pending'
    <3>1. <<>> \o H = H
      BY <1>4, JoinEmpty
    <3> QED BY <1>1, <1>2, <3>1 DEF Flow
  <2>2. Leftover(0)' = pending'
    <3>1. SubSeq(H, 1, HeaderLen) = H
      BY <1>4, WholeIs
    <3>2. pending' = H
      BY <1>1
    <3> QED BY <1>3, <1>5, <3>1, <3>2 DEF Leftover
  <2>3. pending' \o <<>> = pending'
    BY <1>1, <1>4, JoinEmpty
  <2>4. Leads(Wanted', <<>>, <<Zero, NoUnit>>, <<c, u>>) /\ <<>> \in Seq(Units)
    BY <1>2, <1>3, WroteNothing DEF Wrote
  <2>5. Flow' = Leftover(0)' \o <<>>
    BY <2>1, <2>2, <2>3
  <2> QED BY <2>4, <2>5 DEF Follows, Zero
<1>10. rd.pc = "header" /\ rd = reader /\ got = <<>>
  BY <1>1 DEF ReaderInv, EventInv, AtHeader, AtAttrs, AtRecords, AtOpen, AtPlace, Writing
<1>11. AtHeader(c, u)'
  BY <1>1, <1>9, <1>10 DEF AtHeader, reader, evts
<1> QED BY <1>1, <1>8, <1>10, <1>11 DEF ReaderInv

\* What the recorder writes before the samples are whole records of its own.
OwnRecords(p) ==
  Record(0, p, 2, 0) \o
  IF (\A q \in 1..p - 1 : procs[q].pid # procs[p].pid) /\ procs[p].pid \in alive
  THEN Record(0, p + Len(procs), 2, 0) ELSE <<>>
LEMMA OwnRecord ==
  ASSUME NEW m, NEW n \in Nat
  PROVE  /\ IsRow(Record(0, n, 2, 0)) /\ Record(0, n, 2, 0) \in Seq(Units)
         /\ Leads(m, Record(0, n, 2, 0), <<Zero, NoUnit>>, <<Zero, NoUnit>>)
<1>1. Zero \in Counts /\ Tally(Zero, 0) = Zero
  BY DEF Zero, Counts, Tally
<1> HIDE DEF Zero
<1>2. /\ IsRow(Record(0, n, 2, 0)) /\ Len(Record(0, n, 2, 0)) = 2
      /\ Record(0, n, 2, 0) \in Seq(Units)
      /\ Leads(m, Record(0, n, 2, 0), <<Zero, NoUnit>>, <<Tally(Zero, 0), NoUnit>>)
  <2> DEFINE r == 0
             size == 2
             id == 0
  <2>1. r \in Nat /\ size \in Nat /\ 2 <= size /\ id \in Nat /\ r = 0
    OBVIOUS
  <2> HIDE DEF r, size, id
  <2>2. /\ IsRow(Record(r, n, size, id)) /\ Len(Record(r, n, size, id)) = size
        /\ Record(r, n, size, id) \in Seq(Units)
        /\ Leads(m, Record(r, n, size, id), <<Zero, NoUnit>>, <<Tally(Zero, r), NoUnit>>)
    BY <1>1, <2>1, LeadsRecord
  <2> QED BY <2>2 DEF r, size, id
<1> QED BY <1>1, <1>2

LEMMA InfoWrote ==
  ASSUME CountersInv
  PROVE  /\ Wrote(Zero, NoUnit, Record(0, 1, 2, 0), Zero, NoUnit)
         /\ Wrote(Zero, NoUnit, record_process_info, Zero, NoUnit)
<1>0. Zero \in Counts /\ NoUnit \in Partial /\ <<Zero, NoUnit>> \in States
  BY NoUnitIs DEF Zero, Counts, States
<1>1. Wrote(Zero, NoUnit, Record(0, 1, 2, 0), Zero, NoUnit)
  BY <1>0, OwnRecord DEF Wrote
<1>2. IsRow(procs) /\ Len(procs) \in Nat /\ DOMAIN procs = 1..Len(procs)
  BY RowIs DEF CountersInv
<1>3. ASSUME NEW p \in 1..Len(procs)
      PROVE  /\ OwnRecords(p) \in Seq(Units)
             /\ Leads(Wanted, OwnRecords(p), <<Zero, NoUnit>>, <<Zero, NoUnit>>)
  <2> DEFINE a == Record(0, p, 2, 0)
             b == Record(0, p + Len(procs), 2, 0)
             P == (\A q \in 1..p - 1 : procs[q].pid # procs[p].pid) /\ procs[p].pid \in alive
             x == IF P THEN b ELSE <<>>
  <2>1. p \in Nat /\ p + Len(procs) \in Nat
    BY <1>2
  <2>2. /\ IsRow(a) /\ a \in Seq(Units) /\ Leads(Wanted, a, <<Zero, NoUnit>>, <<Zero, NoUnit>>)
    BY <2>1, OwnRecord
  <2>3. /\ IsRow(b) /\ b \in Seq(Units) /\ Leads(Wanted, b, <<Zero, NoUnit>>, <<Zero, NoUnit>>)
    BY <2>1, OwnRecord
  <2>4. /\ IsRow(<<>>) /\ <<>> \in Seq(Units)
        /\ Leads(Wanted, <<>>, <<Zero, NoUnit>>, <<Zero, NoUnit>>)
    BY <1>0, EmptyIsRow, LeadsNothing
  <2>5. OwnRecords(p) = a \o x
    BY DEF OwnRecords
  <2> HIDE DEF a, b, P
  <2>6. /\ IsRow(x) /\ x \in Seq(Units) /\ Leads(Wanted, x, <<Zero, NoUnit>>, <<Zero, NoUnit>>)
    BY <2>3, <2>4
  <2> HIDE DEF x
  <2>7. Leads(Wanted, a \o x, <<Zero, NoUnit>>, <<Zero, NoUnit>>)
    BY <2>2, <2>6, LeadsJoin
  <2>8. a \o x \in Seq(Units)
    BY <2>2, <2>6
  <2> QED BY <2>5, <2>7, <2>8
<1> DEFINE s == [p \in DOMAIN procs |-> OwnRecords(p)]
<1>4. record_process_info = FlattenSeq(s)
  BY DEF record_process_info, OwnRecords
<1>5. DOMAIN s = 1..Len(procs) /\ s = [p \in 1..Len(procs) |-> s[p]]
      /\ \A p \in 1..Len(procs) : s[p] = OwnRecords(p)
  BY <1>2
<1> HIDE DEF s
<1>6. IsRow(s) /\ Len(s) = Len(procs)
  BY <1>2, <1>5, FunctionIsRow
<1>7. \A k \in 1..Len(s) : s[k] \in Seq(Units) /\ Leads(Wanted, s[k], <<Zero, NoUnit>>, <<Zero, NoUnit>>)
  BY <1>3, <1>5, <1>6
<1>8. /\ FlattenSeq(s) \in Seq(Units)
      /\ Leads(Wanted, FlattenSeq(s), <<Zero, NoUnit>>, <<Zero, NoUnit>>)
  BY <1>0, <1>6, <1>7, FlattenLeads
<1>9. IsRow(FlattenSeq(s))
  BY <1>8, SeqIsRow
<1> QED BY <1>0, <1>1, <1>4, <1>8, <1>9 DEF Wrote

\* What the steps of the writing recorder have in common
LEMMA WriterKeeps ==
  ASSUME CountersInv, pc \in Writing \ {"closed"}, pc' \in Writing,
         NEW c, NEW u, WriterInv(c, u), ReaderInv(c, u), UNCHANGED <<rd, got, Setup>>,
         ~write_to_file \/ pc' # "closed",
         NEW add, NEW d, NEW v, Wrote(c, u, add, d, v), Flow' = Flow \o add,
         RingsHold(d, v)', Written', pc' # "copy" => v = NoUnit, pc' = "info" => d = Zero
  PROVE  WriterInv(d, v)' /\ ReaderInv(d, v)'
<1>1. Written
  BY DEF WriterInv
<1>2. ReaderInv(d, v)'
  BY <1>1, ReaderKeeps
<1>3. pc' \in Before \cup {"info"} => d = Zero
  BY DEF Writing, Before
<1> QED BY <1>2, <1>3 DEF WriterInv, Wrote, Zero

LEMMA WritingSteps ==
  ASSUME CountersInv, RingsInv, CopyInv, EventInv, NEW c, NEW u, WriterInv(c, u), ReaderInv(c, u),
         \/ op_write_output \/ RecordInfo \/ ReadHead \/ CopyOut \/ UpdateTail \/ NextRound
         \/ \E ctr \in DOMAIN perfCounters, size \in Sizes : Store(ctr, size)
  PROVE  \E d, v : WriterInv(d, v)' /\ ReaderInv(d, v)'
<1>0. /\ c \in Counts /\ u \in Partial /\ Written /\ RingsHold(c, u) /\ (pc # "copy" => u = NoUnit)
      /\ (pc = "info" => c = Zero) /\ IsRow(out) /\ IsRow(pending) /\ IsRow(Flow)
  BY FlowIs DEF WriterInv, Written
<1>1. Wrote(c, u, <<>>, c, u) /\ Flow \o <<>> = Flow
  BY <1>0, WroteNothing, JoinEmpty
<1>2. CASE op_write_output
  <2>1. PICK n \in 1..Len(pending) :
          /\ pending # <<>> /\ out' = out \o SubSeq(pending, 1, n)
          /\ pending' = SubSeq(pending, n + 1, Len(pending))
          /\ total_bytes_recorded' = total_bytes_recorded + n
          /\ UNCHANGED <<setupVars, ringVars, copyVars, alive, pc, rd, got>>
    BY <1>2 DEF op_write_output
  <2>2. pc \in Writing \ {"closed"} /\ pc' \in Writing /\ pc' = pc /\ pc # "copy"
    BY <2>1 DEF CopyInv, Writing
  <2>3. UNCHANGED Setup /\ Wanted' = Wanted
    BY <2>1, WantedSame DEF Setup, setupVars
  <2> DEFINE a == SubSeq(pending, 1, n)
             b == SubSeq(pending, n + 1, Len(pending))
  <2>4. n \in 0..Len(pending) /\ Len(pending) \in Nat /\ Len(out) \in Nat
    BY <1>0, RowIs
  <2>5. /\ IsRow(a) /\ Len(a) = n /\ \A k \in 1..n : a[k] = pending[k]
    BY <1>0, <2>4, FirstIs
  <2>6. /\ IsRow(b) /\ Len(b) = Len(pending) - n
        /\ \A k \in 1..Len(pending) - n : b[k] = pending[n + k]
    BY <1>0, <2>4, RestIs
  <2>7. a \o b = pending
    BY <1>0, <2>4, SplitIs
  <2> HIDE DEF a, b
  <2>8. /\ IsRow(out \o a) /\ Len(out \o a) = Len(out) + Len(a)
        /\ \A k \in 1..Len(out) : (out \o a)[k] = out[k]
        /\ \A k \in 1..Len(a) : (out \o a)[Len(out) + k] = a[k]
        /\ \A k \in 1..Len(out) + Len(a) : (out \o a)[k] = IF k <= Len(out) THEN out[k] ELSE a[k - Len(out)]
    BY <1>0, <2>5, JoinIs
  <2>9. Flow' = Flow \o <<>>
    <3>1. (out \o a) \o b = out \o (a \o b)
      <4>1. IsRow(out) /\ IsRow(a) /\ IsRow(b)
        BY <1>0, <2>5, <2>6
      <4> QED BY SMTT(40), <4>1, JoinAssociative
    <3>2. out' = out \o a /\ pending' = b
      BY <2>1 DEF a, b
    <3> QED BY <1>1, <2>7, <3>1, <3>2 DEF Flow
  <2>10. Written'
    <3>1. out' = out \o a /\ pending' = b
      BY <2>1 DEF a, b
    <3>2. pc' \notin Before
      BY <2>2 DEF Writing, Before
    <3>3. write_to_file' => total_bytes_recorded' = Len(out')
      BY <1>0, <2>1, <2>5, <2>8, <3>1 DEF Written, setupVars
    <3> QED BY ZenonT(60), <2>6, <2>8, <3>1, <3>2, <3>3 DEF Written, IsRow
  <2>11. RingsHold(c, u)'
    BY <1>0, <2>1, <2>2, <2>3, RingsHoldSame DEF ringVars
  <2>12. WriterInv(c, u)' /\ ReaderInv(c, u)'
    BY <1>0, <1>1, <2>1, <2>2, <2>3, <2>9, <2>10, <2>11, WriterKeeps
  <2> QED BY <2>12
<1>3. CASE RecordInfo
  <2> DEFINE P == IF pid_started \/ system_wide THEN record_process_info ELSE Record(0, 1, 2, 0)
  <2>1. /\ pc = "info" /\ pending = <<>> /\ pc' = "drain" /\ pending' = P
        /\ UNCHANGED <<setupVars, ringVars, copyVars, alive, out, total_bytes_recorded, rd, got>>
    BY <1>3 DEF RecordInfo
  <2>2. pc \in Writing \ {"closed"} /\ pc' \in Writing /\ pc # "copy" /\ c = Zero /\ u = NoUnit
    BY <1>0, <2>1 DEF Writing
  <2>3. UNCHANGED Setup /\ Wanted' = Wanted
    BY <2>1, WantedSame DEF Setup, setupVars
  <2>4. Wrote(c, u, P, c, u)
    BY <2>2, InfoWrote
  <2> HIDE DEF P
  <2>5. Flow' = Flow \o P
    <3>1. out \o <<>> = out
      BY <1>0, JoinEmpty
    <3> QED BY <2>1, <3>1 DEF Flow
  <2>6. Written'
    <3>1. IsRow(P)
      BY <2>4 DEF Wrote
    <3> QED BY <1>0, <2>1, <3>1 DEF Written, Before, setupVars, IsRow
  <2>7. RingsHold(c, u)'
    BY <1>0, <2>1, <2>2, <2>3, RingsHoldSame DEF ringVars
  <2>8. WriterInv(c, u)' /\ ReaderInv(c, u)'
    BY <2>1, <2>2, <2>3, <2>4, <2>5, <2>6, <2>7, WriterKeeps
  <2> QED BY <2>8
<1>4. CASE ReadHead
  <2>1. /\ pc = "drain" /\ pc' \in {"drain", "copy"}
        /\ UNCHANGED <<setupVars, ringVars, alive, pending, out, total_bytes_recorded, rd, got>>
    BY <1>4 DEF ReadHead
  <2>2. pc \in Writing \ {"closed"} /\ pc' \in Writing /\ u = NoUnit /\ pc' # "info" /\ pc' # "closed"
    BY <1>0, <2>1 DEF Writing
  <2>3. UNCHANGED Setup
    BY <2>1 DEF Setup, setupVars
  <2>4. Flow' = Flow \o <<>>
    BY <1>1, <2>1 DEF Flow
  <2>5. Written'
    BY <1>0, <2>1 DEF Written, Before, setupVars, IsRow
  <2>6. RingsHold(c, u)'
    BY <1>0, <1>4, <2>2, ReadHeadHolds
  <2>7. WriterInv(c, u)' /\ ReaderInv(c, u)'
    BY ZenonT(60), <1>1, <2>1, <2>2, <2>3, <2>4, <2>5, <2>6, WriterKeeps
  <2> QED BY <2>7
<1>5. CASE CopyOut
  <2>1. /\ pc = "copy" /\ pc' = pc /\ UNCHANGED <<setupVars, ringVars, pending, rd, got>>
    BY ZenonT(60), <1>5 DEF CopyOut
  <2>2. PICK add, d, v : /\ Wrote(c, u, add, d, v) /\ out' = out \o add
                         /\ total_bytes_recorded' = total_bytes_recorded + Len(add)
                         /\ RingsHold(d, v)'
    BY <1>0, <1>5, CopyHolds
  <2>3. pc \in Writing \ {"closed"} /\ pc' \in Writing
    BY <2>1 DEF Writing
  <2>4. UNCHANGED Setup
    BY <2>1 DEF Setup, setupVars
  <2>5. IsRow(add)
    BY <2>2 DEF Wrote
  <2>6. pending = <<>>
    BY <2>1 DEF CopyInv
  <2>7. /\ IsRow(out \o add) /\ Len(out \o add) = Len(out) + Len(add)
        /\ \A k \in 1..Len(out) : (out \o add)[k] = out[k]
        /\ \A k \in 1..Len(add) : (out \o add)[Len(out) + k] = add[k]
        /\ \A k \in 1..Len(out) + Len(add) :
             (out \o add)[k] = IF k <= Len(out) THEN out[k] ELSE add[k - Len(out)]
    BY <1>0, <2>5, JoinIs
  <2>8. Flow' = Flow \o add
    <3>1. out \o <<>> = out /\ (out \o add) \o <<>> = out \o add
      BY <1>0, <2>7, JoinEmpty
    <3> QED BY <2>1, <2>2, <2>6, <3>1 DEF Flow
  <2>9. Written'
    <3>1. write_to_file' => total_bytes_recorded' = Len(out')
      BY <1>0, <2>1, <2>2, <2>7 DEF Written, setupVars
    <3> QED BY ZenonT(60), <1>0, <2>1, <2>2, <2>7, <3>1 DEF Written, Before, IsRow
  <2>10. WriterInv(d, v)' /\ ReaderInv(d, v)'
    BY <2>1, <2>2, <2>3, <2>4, <2>8, <2>9, WriterKeeps
  <2> QED BY <2>10
<1>6. CASE UpdateTail
  <2>1. /\ pc = "copy" /\ pc' = "drain"
        /\ UNCHANGED <<setupVars, pending, out, total_bytes_recorded, rd, got>>
    BY <1>6 DEF UpdateTail
  <2>2. u = NoUnit /\ RingsHold(c, u)'
    BY <1>0, <1>6, TailHolds
  <2>3. pc \in Writing \ {"closed"} /\ pc' \in Writing
    BY <2>1 DEF Writing
  <2>4. UNCHANGED Setup
    BY <2>1 DEF Setup, setupVars
  <2>5. Flow' = Flow \o <<>>
    BY <1>1, <2>1 DEF Flow
  <2>6. Written'
    BY <1>0, <2>1 DEF Written, Before, setupVars, IsRow
  <2>7. WriterInv(c, u)' /\ ReaderInv(c, u)'
    BY <1>1, <2>1, <2>2, <2>3, <2>4, <2>5, <2>6, WriterKeeps
  <2> QED BY <2>7
<1>7. CASE NextRound
  <2>1. /\ pc = "drain" /\ pc' = pc
        /\ UNCHANGED <<setupVars, samples_array, stored, pending, out, total_bytes_recorded, rd, got>>
    BY <1>7 DEF NextRound
  <2>3. pc \in Writing \ {"closed"} /\ pc' \in Writing /\ u = NoUnit
    BY <1>0, <2>1 DEF Writing
  <2>4. UNCHANGED Setup /\ Wanted' = Wanted
    BY <2>1, WantedSame DEF Setup, setupVars
  <2>5. Flow' = Flow \o <<>>
    BY <1>1, <2>1 DEF Flow
  <2>6. Written'
    BY <1>0, <2>1 DEF Written, Before, setupVars, IsRow
  <2>7. RingsHold(c, u)'
    BY <1>0, <2>1, <2>4, RingsHoldSame
  <2>8. WriterInv(c, u)' /\ ReaderInv(c, u)'
    BY <1>1, <2>1, <2>3, <2>4, <2>5, <2>6, <2>7, WriterKeeps
  <2> QED BY <2>8
<1>8. ASSUME NEW ctr \in DOMAIN perfCounters, NEW size \in Sizes, Store(ctr, size)
      PROVE  WriterInv(c, u)' /\ ReaderInv(c, u)'
  <2>1. /\ perfCounters[ctr].enabled
        /\ UNCHANGED <<setupVars, perfCounters, copyVars, alive, pc, pending, out,
                       total_bytes_recorded, rd, got>>
    BY <1>8, StoreIs
  <2>2. UNCHANGED Setup
    BY <2>1 DEF Setup, setupVars
  <2>3. Flow' = Flow \o <<>>
    BY <1>1, <2>1 DEF Flow
  <2>4. Written'
    BY <1>0, <2>1 DEF Written, setupVars, IsRow
  <2>5. RingsHold(c, u)'
    BY <1>0, <1>8, StoreHolds
  <2>6. CASE pc \in Writing
    <3>1. pc # "closed"
      BY <2>1 DEF CopyInv, Enabled
    <3> QED BY <1>0, <1>1, <2>1, <2>2, <2>3, <2>4, <2>5, <2>6, <3>1, WriterKeeps
  <2>7. CASE pc \notin Writing
    <3>1. WriterInv(c, u)'
      BY <1>0, <2>1, <2>4, <2>5 DEF WriterInv, Zero
    <3>2. rd.pc \in {"header", "failed"}
      BY <2>7 DEF ReaderInv, EventInv, AtAttrs, AtRecords, AtOpen, AtPlace, Writing
    <3>3. ReaderInv(c, u)'
      BY <2>1, <2>7, <3>2 DEF ReaderInv, AtHeader, reader, evts
    <3> QED BY <3>1, <3>3
  <2> QED BY <2>6, <2>7
<1> QED BY <1>2, <1>3, <1>4, <1>5, <1>6, <1>7, <1>8

\* The recorder ends: in a file, the header now says how much follows.
LEMMA CloseStep ==
  ASSUME CountersInv, RingsInv, CopyInv, EventInv, NEW c, NEW u, WriterInv(c, u), ReaderInv(c, u),
         Close, pc = "drain"
  PROVE  WriterInv(c, u)' /\ ReaderInv(c, u)'
<1>0. /\ c \in Counts /\ u \in Partial /\ Written /\ RingsHold(c, u) /\ u = NoUnit
      /\ IsRow(out) /\ IsRow(pending) /\ IsRow(Flow) /\ pc \in Writing
  BY FlowIs DEF WriterInv, Written, Writing
<1>1. /\ pending = <<>> /\ pc' = "closed"
      /\ out' = IF write_to_file
                THEN _write_header_to_file(total_bytes_recorded)
                       \o SubSeq(out, 2 + Len(AllIds) + NumEvents, Len(out))
                ELSE out
      /\ UNCHANGED <<setupVars, ringVars, copyVars, alive, pending, total_bytes_recorded, rd, got>>
  BY DEF Close
<1>2. UNCHANGED Setup /\ Wanted' = Wanted /\ HeaderLen' = HeaderLen /\ pc' \in Writing
  BY <1>1, WantedSame DEF Setup, setupVars, Writing
<1>3. RingsHold(c, u)'
  BY <1>0, <1>1, <1>2, RingsHoldSame DEF ringVars
<1>4. CASE ~write_to_file
  <2>1. Wrote(c, u, <<>>, c, u) /\ Flow \o <<>> = Flow
    BY <1>0, WroteNothing, JoinEmpty
  <2>2. Flow' = Flow \o <<>>
    BY <1>1, <1>4, <2>1 DEF Flow
  <2>3. Written'
    BY <1>0, <1>1, <1>4 DEF Written, Before, setupVars, IsRow
  <2> QED BY <1>0, <1>1, <1>2, <1>3, <1>4, <2>1, <2>2, <2>3, WriterKeeps
<1>5. CASE write_to_file
  <2>1. rd.pc = "header" /\ AtHeader(c, u)
    BY <1>1, <1>5 DEF ReaderInv, EventInv, AtAttrs, AtRecords, AtOpen, AtPlace, Writing, Close
  <2>2. rd = reader /\ got = <<>> /\ Follows(0, c, u)
    BY <1>0, <2>1 DEF AtHeader
  <2>3. PICK recs \in Seq(Units) : /\ Flow = Leftover(0) \o recs
                                   /\ Leads(Wanted, recs, <<Zero, NoUnit>>, <<c, u>>)
    BY <2>2 DEF Follows
  <2> DEFINE H == _write_header_to_file(total_bytes_recorded)
  <2>4. IsRow(Header) /\ Len(Header) = HeaderLen /\ HeaderLen \in Nat
    BY <1>0, HeaderIs, WantedIs DEF CountersInv
  <2>5. IsRow(H) /\ Len(H) = HeaderLen /\ Len(AllIds) = Wanted
    <3>1. Len(perfCounters) = Wanted
      BY <1>0 DEF CountersInv
    <3>2. IsRow(H) /\ Len(H) = HeaderLen
      BY <3>1, FileHeaderIs
    <3>3. Len(AllIds) = Wanted
      BY <3>1, IdsAre
    <3> QED BY <3>2, <3>3
  <2> HIDE DEF H
  <2>6. Leftover(0) = Header /\ SubSeq(H, 1, HeaderLen) = H
    BY <2>4, <2>5, WholeIs DEF Leftover
  <2>7. out = Header \o recs /\ IsRow(recs)
    <3>1. out \o <<>> = out
      BY <1>0, JoinEmpty
    <3> QED BY <1>1, <2>3, <2>6, <3>1, SeqIsRow DEF Flow
  <2>8. Len(out) = HeaderLen + Len(recs) /\ Len(recs) \in Nat
    BY <2>4, <2>7, JoinIs, RowIs
  <2>9. SubSeq(out, 2 + Len(AllIds) + NumEvents, Len(out)) = recs
    <3>1. HeaderLen \in 0..HeaderLen /\ 2 + Len(AllIds) + NumEvents = HeaderLen + 1
      <4>1. HeaderLen = 1 + NumEvents + Wanted /\ Wanted \in Nat /\ NumEvents \in Nat
        BY WantedIs, ConstantsAre DEF CountersInv
      <4> QED BY <2>5, <4>1
    <3>2. SubSeq(Header \o recs, HeaderLen + 1, HeaderLen + Len(recs))
            = SubSeq(Header, HeaderLen + 1, HeaderLen) \o recs
      BY <2>4, <2>7, <3>1, PartOfJoin
    <3>3. SubSeq(Header, HeaderLen + 1, HeaderLen) = <<>>
      <4>1. /\ IsRow(SubSeq(Header, HeaderLen + 1, Len(Header)))
            /\ Len(SubSeq(Header, HeaderLen + 1, Len(Header))) = Len(Header) - HeaderLen
            /\ \A k \in 1..Len(Header) - HeaderLen :
                 SubSeq(Header, HeaderLen + 1, Len(Header))[k] = Header[HeaderLen + k]
        BY <2>4, <3>1, RestIs
      <4> QED BY <2>4, <4>1, RowIs
    <3>4. <<>> \o recs = recs
      BY <2>7, JoinEmpty
    <3> QED BY <2>7, <2>8, <3>1, <3>2, <3>3, <3>4
  <2>10. out' = H \o recs
    BY <1>1, <1>5, <2>9 DEF H
  <2>11. IsRow(H \o recs) /\ Len(H \o recs) = Len(out)
    BY <2>5, <2>7, <2>8, JoinIs
  <2>12. Header' = H
    <3>1. H' = H
      <4>1. h_attrs' = h_attrs /\ total_bytes_recorded' = total_bytes_recorded
        BY <1>1, <1>2 DEF Setup
      <4> QED BY <4>1 DEF H, _write_header_to_file, IdUnits, AllIds, IdsBefore
    <3>2. Header' = H'
      BY <1>1, <1>5 DEF Header, H, setupVars
    <3> QED BY <3>1, <3>2
  <2>13. Written'
    <3>1. IsRow(out') /\ Len(out') = Len(out)
      BY <2>10, <2>11
    <3>2. IsRow(pending')
      BY <1>0, <1>1
    <3> QED BY <1>0, <1>1, <1>5, <3>1, <3>2 DEF Written, Before, IsRow
  <2>14. WriterInv(c, u)'
    BY <1>0, <1>1, <1>3, <2>13 DEF WriterInv, Before
  <2>15. Follows(0, c, u)'
    <3>1. Leftover(0)' = H
      BY <1>2, <2>6, <2>12 DEF Leftover
    <3>2. Flow' = H \o recs
      <4>1. (H \o recs) \o <<>> = H \o recs
        BY <2>11, JoinEmpty
      <4> QED BY <1>1, <2>10, <4>1 DEF Flow
    <3> QED BY <1>2, <2>3, <3>1, <3>2 DEF Follows
  <2>16. AtHeader(c, u)'
    BY <1>1, <2>2, <2>15 DEF AtHeader, reader, evts
  <2> QED BY <1>1, <2>1, <2>14, <2>16 DEF ReaderInv
<1> QED BY <1>4, <1>5

-----------------------------------------------------------------------------
(* What the reader has cut out                                             *)

\* The ids in the header say which event a counter counts.
LEMMA EventNumIs ==
  ASSUME CountersInv, Len(perfCounters) = Wanted, rd.ids = h_attrs, NEW id \in 1..Wanted
  PROVE  /\ id \in DOMAIN perfCounters
         /\ get_eventnum_by_perf_event_id(id) = perfCounters[id].evt_num
<1> DEFINE m == IdsPerEvent
           q == (id - 1) \div NumEvents
           e0 == 1 + ((id - 1) % NumEvents)
           E == {e \in evts : \E k \in DOMAIN rd.ids[e] : rd.ids[e][k] = id}
<1>0. /\ m \in Nat \ {0} /\ Wanted = m * NumEvents /\ Wanted \in Nat /\ NumEvents \in Nat \ {0}
  BY WantedIs, ConstantsAre DEF CountersInv
<1>1. /\ \A e \in evts : h_attrs[e] \in Seq(Nat) /\ Len(h_attrs[e]) = m
      /\ \A e \in evts, j \in 1..m : h_attrs[e][j] = (j - 1) * NumEvents + e
  BY IdsAre
<1> HIDE DEF m
<1>2. /\ id \in Nat /\ id - 1 \in Nat /\ q \in Nat /\ (id - 1) % NumEvents \in 0..NumEvents - 1
      /\ id - 1 = NumEvents * q + ((id - 1) % NumEvents)
  <2>1. id - 1 \in Nat /\ id \in Nat
    BY <1>0
  <2> QED BY <1>0, <2>1, DivIs
<1>3. e0 \in evts
  <2> DEFINE x == (id - 1) % NumEvents
  <2>1. x \in 0..NumEvents - 1
    BY <1>2
  <2> HIDE DEF x
  <2>2. 1 + x \in 1..NumEvents
    BY <1>0, <2>1
  <2> QED BY <2>2 DEF evts, x
<1>4. \A e \in evts : DOMAIN rd.ids[e] = 1..m
  BY <1>1
<1>5. q + 1 \in 1..m
  <2> DEFINE x == (id - 1) % NumEvents
             y == NumEvents * q
  <2>1. x \in Nat /\ id - 1 = y + x
    BY <1>2
  <2>2. y \in Nat
    BY <1>0, <1>2
  <2> HIDE DEF x, q
  <2>3. ASSUME ~(q < m) PROVE FALSE
    <3>1. m <= q
      BY <1>0, <1>2, <2>3
    <3>2. m * NumEvents <= NumEvents * q
      BY <1>0, <1>2, <3>1
    <3>3. Wanted <= y
      BY <1>0, <3>2
    <3> HIDE DEF y
    <3> QED BY <1>0, <2>1, <2>2, <3>3
  <2> QED BY <1>0, <1>2, <2>3
<1>6. h_attrs[e0][q + 1] = id
  <2>1. h_attrs[e0][q + 1] = ((q + 1) - 1) * NumEvents + e0
    BY <1>1, <1>3, <1>5
  <2> DEFINE x == (id - 1) % NumEvents
  <2>2. x \in Nat /\ id - 1 = NumEvents * q + x /\ e0 = 1 + x
    BY <1>2
  <2> HIDE DEF x, q, e0
  <2>3. ((q + 1) - 1) * NumEvents = NumEvents * q /\ NumEvents * q \in Nat
    BY <1>0, <1>2
  <2> DEFINE y == NumEvents * q
  <2>4. y \in Nat /\ id - 1 = y + x /\ h_attrs[e0][q + 1] = y + e0
    BY <2>1, <2>2, <2>3
  <2> HIDE DEF y
  <2> QED BY SMTT(40), <1>2, <2>2, <2>4
<1>7. ASSUME NEW e \in evts, NEW k \in 1..m, h_attrs[e][k] = id PROVE e = e0
  <2>1. (k - 1) * NumEvents + e = id
    BY <1>1, <1>7
  <2>2. e \in Nat /\ 1 <= e /\ e <= NumEvents /\ k \in Nat /\ 1 <= k
    BY <1>0 DEF evts
  <2>3. NumEvents * (k - 1) = (k - 1) * NumEvents /\ (k - 1) * NumEvents \in Nat
    BY <1>0, <2>2
  <2>4. id - 1 = NumEvents * (k - 1) + (e - 1) /\ e - 1 \in 0..NumEvents - 1 /\ k - 1 \in Int
    <3> DEFINE y == (k - 1) * NumEvents
    <3>1. y \in Nat /\ y + e = id /\ NumEvents * (k - 1) = y
      BY <2>1, <2>3
    <3> HIDE DEF y
    <3> QED BY <1>0, <2>2, <3>1
  <2>5. (id - 1) \div NumEvents = k - 1 /\ (id - 1) % NumEvents = e - 1
    BY ZenonT(60), <1>0, <1>2, <2>4, DivUnique
  <2> QED BY <2>2, <2>5
<1>8. E = {e0}
  <2>1. e0 \in E
    BY <1>3, <1>4, <1>5, <1>6
  <2>2. \A e \in E : e = e0
    BY <1>4, <1>7
  <2> QED BY <2>1, <2>2
<1>9. Min(E) = e0 /\ E # {}
  <2>1. e0 \in Nat
    BY <1>0, <1>3 DEF evts
  <2> HIDE DEF E, e0
  <2>2. Min({e0}) = e0
    BY <2>1 DEF Min
  <2> QED BY <1>8, <2>2
<1>10. get_eventnum_by_perf_event_id(id) = e0
  <2>1. get_eventnum_by_perf_event_id(id) = IF E = {} THEN -1 ELSE Min(E)
    BY DEF get_eventnum_by_perf_event_id
  <2> HIDE DEF E, e0
  <2> QED BY <1>9, <2>1
<1>11. id \in DOMAIN perfCounters
  <2>1. DOMAIN perfCounters = 1..Len(perfCounters)
    BY RowIs DEF CountersInv
  <2> QED BY <2>1
<1>12. perfCounters[id].evt_num = e0
  BY <1>11 DEF CountersInv
<1> QED BY <1>10, <1>11, <1>12

LEMMA ReadIs ==
  ASSUME GotInv
  PROVE  /\ Read \in Counts /\ Len(got) \in Nat /\ DOMAIN got = 1..Len(got)
         /\ \A r : IsFiniteSet(Cut(got, r)) /\ Cut(got, r) \subseteq 1..Len(got)
         /\ got = <<>> => Read = Zero
<1>1. Len(got) \in Nat /\ DOMAIN got = 1..Len(got)
  BY RowIs DEF GotInv
<1>2. ASSUME NEW r PROVE IsFiniteSet(Cut(got, r)) /\ Cut(got, r) \subseteq 1..Len(got)
  <2>1. Cut(got, r) \subseteq 1..Len(got)
    BY <1>1 DEF Cut
  <2>2. IsFiniteSet(1..Len(got))
    BY <1>1, FS_Interval
  <2> QED BY <2>1, <2>2, FS_Subset
<1>3. Read \in Counts
  <2>1. \A r \in Rings : Cardinality(Cut(got, r)) \in Nat
    BY <1>2, FS_CardinalityType
  <2> QED BY <2>1 DEF Read, Counts
<1>4. got = <<>> => Read = Zero
  <2> SUFFICES ASSUME got = <<>> PROVE Read = Zero
    OBVIOUS
  <2>1. ASSUME NEW r \in Rings PROVE Cardinality(Cut(got, r)) = 0
    <3>1. Cut(got, r) = {}
      BY DEF Cut
    <3> QED BY <3>1, FS_EmptySet
  <2> QED BY <2>1 DEF Read, Zero
<1> QED BY <1>1, <1>2, <1>3, <1>4

\* Nothing is cut out.
LEMMA GotSame ==
  ASSUME CountersInv, CountersInv', GotInv, got' = got,
         got = <<>> \/ DOMAIN perfCounters' = DOMAIN perfCounters
  PROVE  GotInv' /\ Read' = Read
<1>1. \A r : Cut(got', r) = Cut(got, r)
  BY DEF Cut
<1>2. Read' = Read
  BY <1>1 DEF Read
<1>3. \A c \in DOMAIN perfCounters : perfCounters[c].evt_num = 1 + ((c - 1) % NumEvents)
  BY DEF CountersInv
<1>4. \A c \in DOMAIN perfCounters' : perfCounters'[c].evt_num = 1 + ((c - 1) % NumEvents)
  BY DEF CountersInv
<1>5. GotInv'
  <2>1. CASE got = <<>>
    BY <2>1, EmptyIsRow DEF GotInv, IsRow
  <2>2. CASE DOMAIN perfCounters' = DOMAIN perfCounters
    <3>1. \A c \in DOMAIN perfCounters : perfCounters'[c].evt_num = perfCounters[c].evt_num
      BY <1>3, <1>4, <2>2
    <3>2. ASSUME NEW k \in DOMAIN got
          PROVE  /\ Intact(got[k]) /\ got[k].event[1].ring \in Nat
                 /\ got[k].event[1].ring # 0 =>
                      /\ got[k].event[1].n =
                           Cardinality({x \in Cut(got, got[k].event[1].ring) : x <= k})
                      /\ got[k].event[1].id \in DOMAIN perfCounters'
                      /\ got[k].evt = perfCounters'[got[k].event[1].id].evt_num
      BY <2>2, <3>1 DEF GotInv
    <3>3. IsRow(got)
      BY DEF GotInv
    <3> QED BY ZenonT(60), <3>2, <3>3 DEF GotInv, Intact
  <2> QED BY <2>1, <2>2
<1> QED BY <1>2, <1>5

\* The next record is cut out.
LEMMA GotMore ==
  ASSUME CountersInv, Len(perfCounters) = Wanted, rd.ids = h_attrs, GotInv,
         perfCounters' = perfCounters,
         NEW event, DOMAIN event = 1..event[1].size, Begins(Wanted, Read, event[1]),
         \A k \in 1..event[1].size : event[k] = [event[1] EXCEPT !.i = k],
         got' = Append(got, Converted(event))
  PROVE  GotInv' /\ Read' = Tally(Read, event[1].ring)
<1> DEFINE v == event[1]
           L == Len(got)
           R == v.ring
           g == Converted(event)
<1>0. /\ v \in Units /\ v.i = 1 /\ 2 <= v.size /\ v.size \in Nat /\ R \in Nat /\ v.n \in Nat
      /\ R # 0 => v.n = Read[R] + 1 /\ v.id \in 1..Wanted /\ R \in Rings
  BY DEF Begins, Units, Rings
<1>1. g.event = event /\ g.evt = get_eventnum_by_perf_event_id(v.id)
  BY DEF Converted
<1> HIDE DEF g, v, R
<1>2. /\ Read \in Counts /\ L \in Nat /\ DOMAIN got = 1..L
      /\ \A r : IsFiniteSet(Cut(got, r)) /\ Cut(got, r) \subseteq 1..L
      /\ got = <<>> => Read = Zero
  BY ReadIs
<1>3. /\ IsRow(got') /\ Len(got') = L + 1 /\ DOMAIN got' = 1..L + 1
      /\ \A k \in 1..L : got'[k] = got[k]
      /\ got'[L + 1] = g
  <2>1. IsRow(got)
    BY DEF GotInv
  <2>2. /\ IsRow(Append(got, g)) /\ Len(Append(got, g)) = L + 1
        /\ \A k \in 1..L : Append(got, g)[k] = got[k]
        /\ Append(got, g)[L + 1] = g
    BY <2>1, AppendIs
  <2>3. DOMAIN Append(got, g) = 1..L + 1
    BY <2>2, RowIs
  <2> QED BY <2>2, <2>3 DEF g
<1> HIDE DEF L
<1>4. ASSUME NEW r PROVE Cut(got', r) = IF r = R THEN Cut(got, r) \cup {L + 1} ELSE Cut(got, r)
  <2>1. \A k \in 1..L + 1 : k \in 1..L \/ k = L + 1
    BY <1>2
  <2>2. g.event[1].ring = R
    BY <1>1 DEF v, R
  <2>3. Cut(got', r) = {k \in 1..L + 1 : got'[k].event[1].ring = r}
    BY <1>3 DEF Cut
  <2>4. Cut(got, r) = {k \in 1..L : got[k].event[1].ring = r}
    BY <1>2 DEF Cut
  <2> QED BY <1>2, <1>3, <2>1, <2>2, <2>3, <2>4
<1>5. Cardinality(Cut(got, R) \cup {L + 1}) = Cardinality(Cut(got, R)) + 1
  <2>1. L + 1 \notin Cut(got, R) /\ IsFiniteSet(Cut(got, R))
    BY <1>2
  <2> QED BY <2>1, FS_AddElement
<1>6. Read' = Tally(Read, R)
  <2>1. Read' = [r \in Rings |-> Cardinality(Cut(got', r))]
    BY DEF Read
  <2>2. ASSUME NEW r \in Rings PROVE Cardinality(Cut(got', r)) = Tally(Read, R)[r]
    <3>1. Read[r] = Cardinality(Cut(got, r))
      BY DEF Read
    <3>2. CASE r = R
      <4>1. Tally(Read, R)[r] = Read[r] + 1
        BY <1>0, <1>2, <3>2 DEF Tally, Counts, Rings
      <4> QED BY <1>4, <1>5, <3>1, <3>2, <4>1
    <3>3. CASE r # R
      <4>1. Tally(Read, R)[r] = Read[r]
        BY <1>0, <1>2, <3>3 DEF Tally, Counts, Rings
      <4> QED BY <1>4, <3>1, <3>3, <4>1
    <3> QED BY <3>2, <3>3
  <2>3. Tally(Read, R) \in Counts
    BY SMTT(40), <1>0, <1>2 DEF Tally, Counts, Rings
  <2> QED BY <2>1, <2>2, <2>3 DEF Counts
<1>7. ASSUME NEW k \in 1..L + 1
      PROVE  /\ Intact(got'[k]) /\ got'[k].event[1].ring \in Nat
             /\ got'[k].event[1].ring # 0 =>
                  /\ got'[k].event[1].n =
                       Cardinality({j \in Cut(got', got'[k].event[1].ring) : j <= k})
                  /\ got'[k].event[1].id \in DOMAIN perfCounters
                  /\ got'[k].evt = perfCounters[got'[k].event[1].id].evt_num
  <2>1. CASE k = L + 1
    <3>1. got'[k] = g /\ got'[k].event[1] = v
      BY <1>1, <1>3, <2>1 DEF v
    <3>2. Intact(g)
      BY <1>1 DEF Intact
    <3>3. R # 0 => v.n = Cardinality({j \in Cut(got', R) : j <= k})
      <4>1. {j \in Cut(got', R) : j <= k} = Cut(got, R) \cup {L + 1}
        BY <1>2, <1>4, <2>1
      <4>2. R # 0 => Read[R] = Cardinality(Cut(got, R))
        BY <1>0 DEF Read
      <4> QED BY <1>0, <1>5, <4>1, <4>2
    <3>4. R # 0 => v.id \in DOMAIN perfCounters /\ g.evt = perfCounters[v.id].evt_num
      BY SMTT(40), <1>0, <1>1, EventNumIs
    <3> QED BY <1>0, <3>1, <3>2, <3>3, <3>4 DEF R
  <2>2. CASE k # L + 1
    <3>1. k \in 1..L /\ got'[k] = got[k] /\ k < L + 1
      BY <1>2, <1>3, <2>2
    <3>2. ASSUME NEW r PROVE {j \in Cut(got', r) : j <= k} = {j \in Cut(got, r) : j <= k}
      BY SMTT(40), <1>2, <1>4, <3>1
    <3>3. /\ Intact(got[k]) /\ got[k].event[1].ring \in Nat
          /\ got[k].event[1].ring # 0 =>
               /\ got[k].event[1].n = Cardinality({j \in Cut(got, got[k].event[1].ring) : j <= k})
               /\ got[k].event[1].id \in DOMAIN perfCounters
               /\ got[k].evt = perfCounters[got[k].event[1].id].evt_num
      BY <1>2, <3>1 DEF GotInv
    <3>4. {j \in Cut(got', got[k].event[1].ring) : j <= k}
            = {j \in Cut(got, got[k].event[1].ring) : j <= k}
      BY SMTT(40), <3>2
    <3> QED BY <3>1, <3>3, <3>4
  <2> QED BY <2>1, <2>2
<1>8. GotInv'
  BY <1>3, <1>7 DEF GotInv, Intact
<1> QED BY <1>6, <1>8 DEF R, v

-----------------------------------------------------------------------------
(* The reader of a pipe reads the header                                   *)

LEMMA ReaderWriter ==
  ASSUME CountersInv, NEW c, NEW u, WriterInv(c, u), UNCHANGED recorder,
         \/ out' = out
         \/ ~write_to_file /\ pc \in Writing /\ IsRow(out')
  PROVE  WriterInv(c, u)'
<1>1. UNCHANGED <<setupVars, ringVars, copyVars, alive, pc, pending, total_bytes_recorded>>
  BY DEF recorder
<1>2. Wanted' = Wanted
  BY <1>1, WantedSame DEF Setup, setupVars
<1>3. RingsHold(c, u)'
  BY <1>1, <1>2, RingsHoldSame DEF WriterInv, ringVars
<1>4. Written'
  BY <1>1 DEF WriterInv, Written, Writing, Before, setupVars, IsRow
<1> QED BY <1>1, <1>3, <1>4 DEF WriterInv, Zero

LEMMA RecorderSame ==
  ASSUME UNCHANGED recorder
  PROVE  /\ UNCHANGED <<Setup, perfCounters, pc, pending>> /\ Wanted' = Wanted
         /\ IdsPerEvent' = IdsPerEvent /\ HeaderLen' = HeaderLen /\ Header' = Header
         /\ \A k : Leftover(k)' = Leftover(k)
<1>1. UNCHANGED <<Setup, perfCounters, pc, pending, total_bytes_recorded>>
  BY DEF recorder, Setup, setupVars, ringVars
<1> QED BY <1>1, WantedSame, HeaderSame

\* One unit of the header is read.
LEMMA FollowsStep ==
  ASSUME CountersInv, Written, pc \in Writing, NEW k \in Nat, k < HeaderLen,
         NEW c, NEW u, Follows(k, c, u), out # <<>>, out' = Tail(out), UNCHANGED recorder
  PROVE  /\ Head(out) = Header[k + 1] /\ IsRow(out')
         /\ k + 1 \in 0..HeaderLen /\ Follows(k + 1, c, u)'
<1>0. HeaderLen \in Nat /\ k \in 0..HeaderLen /\ k + 1 \in 0..HeaderLen
  BY WantedIs DEF CountersInv
<1>1. PICK recs \in Seq(Units) : /\ Flow = Leftover(k) \o recs
                                 /\ Leads(Wanted, recs, <<Zero, NoUnit>>, <<c, u>>)
  BY DEF Follows
<1> DEFINE a == Leftover(k)
           b == Leftover(k + 1)
<1>2. /\ IsRow(a) /\ Len(a) = HeaderLen - k
      /\ \A j \in 1..HeaderLen - k : a[j] = Header[k + j]
  BY <1>0, LeftoverIs
<1>3. /\ IsRow(b) /\ Len(b) = HeaderLen - (k + 1)
      /\ \A j \in 1..HeaderLen - (k + 1) : b[j] = Header[(k + 1) + j]
  BY <1>0, LeftoverIs
<1> HIDE DEF a, b
<1>4. IsRow(out) /\ IsRow(pending) /\ IsRow(Flow) /\ IsRow(recs)
  BY FlowIs, SeqIsRow
<1>5. /\ IsRow(Tail(out)) /\ Len(out) \in Nat \ {0} /\ Len(Tail(out)) = Len(out) - 1
      /\ Head(out) = out[1] /\ \A j \in 1..Len(out) - 1 : Tail(out)[j] = out[j + 1]
      /\ Tail(out) = SubSeq(out, 2, Len(out))
  BY <1>4, TailIs
<1>6. Flow = a \o recs
  BY <1>1 DEF a
<1>7. /\ IsRow(a \o recs) /\ Len(a \o recs) = Len(a) + Len(recs)
      /\ \A j \in 1..Len(a) : (a \o recs)[j] = a[j]
      /\ \A j \in 1..Len(recs) : (a \o recs)[Len(a) + j] = recs[j]
      /\ \A j \in 1..Len(a) + Len(recs) : (a \o recs)[j] = IF j <= Len(a) THEN a[j] ELSE recs[j - Len(a)]
  BY ZenonT(60), <1>2, <1>4, JoinIs
<1>8. /\ IsRow(out \o pending) /\ Len(out \o pending) = Len(out) + Len(pending)
      /\ \A j \in 1..Len(out) : (out \o pending)[j] = out[j]
      /\ \A j \in 1..Len(pending) : (out \o pending)[Len(out) + j] = pending[j]
      /\ \A j \in 1..Len(out) + Len(pending) :
           (out \o pending)[j] = IF j <= Len(out) THEN out[j] ELSE pending[j - Len(out)]
  BY <1>4, JoinIs
<1>9. Head(out) = Header[k + 1]
  <2>1. (out \o pending)[1] = out[1]
    BY <1>5, <1>8
  <2>2. (a \o recs)[1] = a[1] /\ a[1] = Header[k + 1]
    <3>1. 1 \in 1..Len(a) /\ 1 \in 1..HeaderLen - k
      BY <1>0, <1>2
    <3> QED BY <1>2, <1>7, <3>1
  <2> QED BY <1>5, <1>6, <2>1, <2>2 DEF Flow
<1>10. Tail(out) \o pending = SubSeq(a, 2, Len(a)) \o recs
  <2>1. 1 \in 0..Len(out) /\ 1 \in 0..Len(a)
    BY <1>0, <1>2, <1>5
  <2>2. SubSeq(out \o pending, 1 + 1, Len(out) + Len(pending)) = SubSeq(out, 1 + 1, Len(out)) \o pending
    BY <1>4, <2>1, PartOfJoin
  <2>3. SubSeq(a \o recs, 1 + 1, Len(a) + Len(recs)) = SubSeq(a, 1 + 1, Len(a)) \o recs
    BY <1>2, <1>4, <2>1, PartOfJoin
  <2>4. Len(out) + Len(pending) = Len(a) + Len(recs) /\ out \o pending = a \o recs
    BY <1>6, <1>7, <1>8 DEF Flow
  <2>5. 1 + 1 = 2
    OBVIOUS
  <2> QED BY <1>5, <2>2, <2>3, <2>4, <2>5
<1>11. SubSeq(a, 2, Len(a)) = b
  <2> DEFINE t == SubSeq(a, 2, Len(a))
  <2>1. 1 \in 0..Len(a) /\ 1 + 1 = 2
    BY <1>0, <1>2
  <2>2. /\ IsRow(SubSeq(a, 1 + 1, Len(a))) /\ Len(SubSeq(a, 1 + 1, Len(a))) = Len(a) - 1
        /\ \A j \in 1..Len(a) - 1 : SubSeq(a, 1 + 1, Len(a))[j] = a[1 + j]
    BY <1>2, <2>1, RestIs
  <2>3. IsRow(t) /\ Len(t) = Len(a) - 1 /\ \A j \in 1..Len(a) - 1 : t[j] = a[1 + j]
    BY <2>1, <2>2
  <2> HIDE DEF t
  <2>4. Len(t) = Len(b)
    BY <1>0, <1>2, <1>3, <2>3
  <2>5. ASSUME NEW j \in 1..Len(t) PROVE t[j] = b[j]
    <3>1. /\ j \in 1..HeaderLen - (k + 1) /\ j \in 1..Len(a) - 1 /\ 1 + j \in 1..HeaderLen - k
          /\ k + (1 + j) = (k + 1) + j
      BY SMTT(40), <1>0, <1>2, <1>3, <2>4
    <3> QED BY <1>2, <1>3, <2>3, <3>1
  <2>6. t = b
    BY <1>3, <2>3, <2>4, <2>5, RowEqual
  <2> QED BY <2>6 DEF t
<1>12. Follows(k + 1, c, u)'
  <2>1. Flow' = b \o recs
    <3>1. pending' = pending
      BY RecorderSame
    <3> QED BY <1>10, <1>11, <3>1 DEF Flow
  <2>2. Wanted' = Wanted /\ Leftover(k + 1)' = b
    BY RecorderSame DEF b
  <2> QED BY <1>1, <2>1, <2>2 DEF Follows
<1> QED BY <1>0, <1>5, <1>9, <1>12

LEMMA ReadHeaderStep ==
  ASSUME CountersInv, EventInv, GotInv, NEW c, NEW u, WriterInv(c, u), ReaderInv(c, u),
         ReadHeaderFromPipe
  PROVE  EventInv' /\ GotInv' /\ WriterInv(c, u)' /\ ReaderInv(c, u)'
<1>1. /\ ~write_to_file /\ rd.pc = "header" /\ out # <<>> /\ out' = Tail(out)
      /\ UNCHANGED recorder /\ got' = got
      /\ rd' = IF Head(out).k = "header" THEN [rd EXCEPT !.pc = "attrs", !.nattrs = Head(out).nattrs]
               ELSE [rd EXCEPT !.pc = "failed"]
  BY DEF ReadHeaderFromPipe
<1>2. Written /\ pc \in Writing
  BY <1>1 DEF WriterInv, Written, CountersInv
<1>3. rd = reader /\ got = <<>> /\ Follows(0, c, u)
  BY <1>1, <1>2 DEF ReaderInv, AtHeader
<1>4. 0 < HeaderLen /\ NumEvents \in Nat \ {0} /\ IdsPerEvent \in Nat \ {0}
  <2>1. HeaderLen = 1 + NumEvents + Wanted /\ Wanted \in Nat /\ IdsPerEvent \in Nat \ {0}
    BY WantedIs DEF CountersInv
  <2> QED BY <2>1, ConstantsAre
<1>5. /\ Head(out) = Header[0 + 1] /\ IsRow(out')
      /\ 0 + 1 \in 0..HeaderLen /\ Follows(0 + 1, c, u)'
  BY <1>1, <1>2, <1>3, <1>4, FollowsStep
<1>6. Head(out) = PipeHeader
  <2>1. Len(perfCounters) = Wanted
    BY <1>2 DEF CountersInv
  <2>2. _write_header_to_pipe[1] = PipeHeader
    BY <2>1, PipeHeaderIs
  <2> QED BY <1>1, <1>5, <2>2 DEF Header
<1>7. rd' = [reader EXCEPT !.pc = "attrs", !.nattrs = NumEvents]
  <2>1. Head(out).k = "header" /\ Head(out).nattrs = NumEvents
    BY <1>6 DEF PipeHeader
  <2> QED BY <1>1, <1>3, <2>1
<1>8. rd'.pc = "attrs" /\ rd'.nattrs = NumEvents /\ rd'.nids = <<>> /\ rd'.ids = reader.ids
      /\ rd'.event = <<>> /\ DOMAIN rd' = ReaderFields
  BY <1>7 DEF reader, ReaderFields
<1>9. /\ UNCHANGED <<Setup, perfCounters, pc, pending>>
      /\ Wanted' = Wanted /\ IdsPerEvent' = IdsPerEvent
  BY <1>1, RecorderSame
<1>10. EventInv'
  BY <1>8 DEF EventInv
<1>11. GotInv'
  BY <1>1, <1>3, EmptyIsRow DEF GotInv, IsRow
<1>12. AtAttrs(c, u)'
  <2>1. AttrsRead(0)'
    <3>1. <<>> = [e \in 1..0 |-> IdsPerEvent']
      OBVIOUS
    <3>2. reader.ids' = reader.ids
      BY DEF reader, evts
    <3> QED BY <1>4, <1>8, <3>1, <3>2 DEF AttrsRead
  <2>2. Follows(1 + 0, c, u)'
    <3>1. 1 + 0 = 0 + 1
      OBVIOUS
    <3> QED BY <1>5, <3>1
  <2> QED BY <1>1, <1>2, <1>3, <1>8, <1>9, <2>1, <2>2 DEF AtAttrs, Setup
<1>13. ReaderInv(c, u)'
  BY <1>8, <1>12 DEF ReaderInv
<1>14. WriterInv(c, u)'
  BY <1>1, <1>2, <1>5, ReaderWriter
<1> QED BY <1>10, <1>11, <1>13, <1>14

LEMMA ReadAttrStep ==
  ASSUME CountersInv, EventInv, GotInv, NEW c, NEW u, WriterInv(c, u), ReaderInv(c, u), ReadAttr
  PROVE  EventInv' /\ GotInv' /\ WriterInv(c, u)' /\ ReaderInv(c, u)'
<1>1. /\ rd.pc = "attrs" /\ Len(rd.nids) < rd.nattrs /\ out # <<>> /\ out' = Tail(out)
      /\ rd' = [rd EXCEPT !.nids = Append(@, Head(out).nids)]
      /\ UNCHANGED recorder /\ got' = got
  BY DEF ReadAttr
<1>2. /\ ~write_to_file /\ pc \in Writing /\ got = <<>> /\ rd.nattrs = NumEvents /\ rd.event = <<>>
      /\ AtAttrs(c, u) /\ Written /\ DOMAIN rd = ReaderFields
  BY <1>1 DEF ReaderInv, AtAttrs, WriterInv, EventInv
<1> DEFINE m == IdsPerEvent
<1>3. /\ m \in Nat \ {0} /\ Wanted \in Nat /\ NumEvents \in Nat \ {0}
      /\ HeaderLen = 1 + NumEvents + Wanted /\ Len(perfCounters) = Wanted
  BY <1>2, WantedIs, ConstantsAre DEF CountersInv
<1>4. PICK n \in Nat : AttrsRead(n) /\ Follows(1 + n, c, u)
  <2>1. ASSUME NEW e \in 1..NumEvents + 1, NEW n \in 0..m - 1, AtIds(e, n, c, u) PROVE FALSE
    <3>1. Len(rd.nids) = NumEvents
      BY <1>3, <2>1 DEF AtIds, IdsRead, evts
    <3> QED BY <1>1, <1>2, <1>3, <3>1
  <2> QED BY <1>2, <2>1 DEF AtAttrs
<1>5. n < NumEvents /\ rd.ids = reader.ids /\ rd.nids = [e \in 1..n |-> m]
  BY <1>4 DEF AttrsRead
<1> HIDE DEF m
<1>6. 1 + n \in Nat /\ 1 + n < HeaderLen
  BY <1>3, <1>5
<1>7. /\ Head(out) = Header[(1 + n) + 1] /\ IsRow(out')
      /\ (1 + n) + 1 \in 0..HeaderLen /\ Follows((1 + n) + 1, c, u)'
  <2> DEFINE k == 1 + n
  <2> HIDE DEF k
  <2>1. k \in Nat /\ k < HeaderLen /\ Follows(k, c, u)
    BY <1>4, <1>6 DEF k
  <2>2. /\ Head(out) = Header[k + 1] /\ IsRow(out')
        /\ k + 1 \in 0..HeaderLen /\ Follows(k + 1, c, u)'
    BY <1>1, <1>2, <2>1, FollowsStep
  <2> QED BY <2>2 DEF k
<1>8. Head(out).nids = m
  <2>1. n + 1 \in evts /\ 1 + (n + 1) = (1 + n) + 1
    BY <1>3, <1>5 DEF evts
  <2>2. _write_header_to_pipe[1 + (n + 1)] = PipeAttr
    BY <1>3, <2>1, PipeHeaderIs
  <2>3. Head(out) = PipeAttr
    BY <1>2, <1>7, <2>1, <2>2 DEF Header
  <2> QED BY <2>3 DEF PipeAttr, m
<1>9. rd'.nids = [e \in 1..n + 1 |-> m]
  <2>1. rd'.nids = Append([e \in 1..n |-> m], m)
    BY <1>1, <1>2, <1>5, <1>8 DEF ReaderFields
  <2>2. Append([e \in 1..n |-> m], m) = [e \in 1..n + 1 |-> m]
    BY <1>3
  <2> QED BY <2>1, <2>2
<1>10. /\ rd'.pc = "attrs" /\ rd'.nattrs = NumEvents /\ rd'.ids = reader.ids
       /\ rd'.event = <<>> /\ DOMAIN rd' = ReaderFields
  BY <1>1, <1>2, <1>5 DEF ReaderFields
<1>11. /\ UNCHANGED <<Setup, perfCounters, pc, pending>>
       /\ Wanted' = Wanted /\ m' = m
  BY <1>1, RecorderSame DEF m
<1>12. EventInv'
  BY <1>10 DEF EventInv
<1>13. GotInv'
  BY <1>1, <1>2, EmptyIsRow DEF GotInv, IsRow
<1>14. CASE n + 1 < NumEvents
  <2>1. AttrsRead(n + 1)'
    <3>1. reader.ids' = reader.ids
      BY DEF reader, evts
    <3> QED BY <1>9, <1>10, <1>11, <1>14, <3>1 DEF AttrsRead, m
  <2>2. Follows(1 + (n + 1), c, u)'
    <3>1. 1 + (n + 1) = (1 + n) + 1
      OBVIOUS
    <3> QED BY <1>7, <3>1
  <2>3. AtAttrs(c, u)'
    BY <1>1, <1>2, <1>10, <1>11, <2>1, <2>2 DEF AtAttrs, Setup
  <2>4. ReaderInv(c, u)'
    BY <1>10, <2>3 DEF ReaderInv
  <2>5. WriterInv(c, u)'
    BY <1>1, <1>2, <1>7, ReaderWriter
  <2> QED BY <1>12, <1>13, <2>4, <2>5
<1>15. CASE ~(n + 1 < NumEvents)
  <2>0. n + 1 = NumEvents
    BY <1>3, <1>5, <1>15
  <2>1. IdsRead(1, 0)'
    <3>1. rd'.nids = [k \in evts |-> m]
      BY <1>9, <2>0 DEF evts
    <3>2. rd'.ids = [k \in evts |-> IF k < 1 THEN h_attrs[k]
                                    ELSE IF k = 1 THEN SubSeq(h_attrs[1], 1, 0) ELSE <<>>]
      <4>1. rd'.ids = [k \in evts |-> <<>>]
        BY <1>10 DEF reader
      <4>2. SubSeq(h_attrs[1], 1, 0) = <<>>
        <5>1. 1 \in evts
          BY <1>3 DEF evts
        <5>2. IsRow(h_attrs[1]) /\ 0 \in 0..Len(h_attrs[1])
          BY <1>3, <5>1, IdsAre DEF m
        <5>3. IsRow(SubSeq(h_attrs[1], 1, 0)) /\ Len(SubSeq(h_attrs[1], 1, 0)) = 0
              /\ \A k \in 1..0 : SubSeq(h_attrs[1], 1, 0)[k] = h_attrs[1][k]
          BY <5>2, FirstIs
        <5> QED BY <5>3, RowIs
      <4>3. \A k \in evts : ~(k < 1)
        BY <1>3 DEF evts
      <4> QED BY <4>1, <4>2, <4>3
    <3> QED BY <1>11, <3>1, <3>2 DEF IdsRead, m, evts, Setup
  <2>2. AtIds(1, 0, c, u)'
    <3>1. 1 # NumEvents + 1 \/ 0 = 0
      OBVIOUS
    <3>2. 1 + NumEvents + (1 - 1) * m' + 0 = (1 + n) + 1
      BY <1>3, <1>11, <2>0
    <3>3. Follows(1 + NumEvents + (1 - 1) * m + 0, c, u)'
      BY <1>7, <3>2
    <3> QED BY <2>1, <3>3 DEF AtIds, m
  <2>3. 1 \in 1..NumEvents + 1 /\ 0 \in 0..m' - 1
    BY <1>3, <1>11
  <2>4. AtAttrs(c, u)'
    BY <1>1, <1>2, <1>10, <1>11, <2>2, <2>3 DEF AtAttrs, Setup, m
  <2>5. ReaderInv(c, u)'
    BY <1>10, <2>4 DEF ReaderInv
  <2>6. WriterInv(c, u)'
    BY <1>1, <1>2, <1>7, ReaderWriter
  <2> QED BY <1>12, <1>13, <2>5, <2>6
<1> QED BY <1>14, <1>15

\* The events whose ids are not all read
LEMMA NextEventIs ==
  ASSUME CountersInv, pc \in Writing, rd.nattrs = NumEvents,
         NEW e \in 1..NumEvents + 1, NEW n \in 0..IdsPerEvent - 1, IdsRead(e, n)
  PROVE  /\ NextEvent = e..NumEvents
         /\ e <= NumEvents => Min(NextEvent) = e
<1> DEFINE m == IdsPerEvent
<1>1. m \in Nat \ {0} /\ NumEvents \in Nat \ {0} /\ Len(perfCounters) = Wanted
  BY WantedIs, ConstantsAre DEF CountersInv
<1>2. /\ rd.nids = [k \in evts |-> m]
      /\ rd.ids = [k \in evts |-> IF k < e THEN h_attrs[k]
                                  ELSE IF k = e THEN SubSeq(h_attrs[e], 1, n) ELSE <<>>]
  BY DEF IdsRead
<1>3. \A k \in evts : Len(h_attrs[k]) = m /\ IsRow(h_attrs[k])
  BY <1>1, IdsAre
<1>4. n \in Nat /\ n < m /\ n \in 0..m /\ e \in Nat /\ 1 <= e
  BY <1>1
<1> HIDE DEF m
<1>5. rd.nids[1] = m
  BY <1>1, <1>2 DEF evts
<1>6. ASSUME NEW k \in 1..NumEvents PROVE Len(rd.ids[k]) < m <=> e <= k
  <2>0. k \in evts /\ k \in Nat
    BY <1>1 DEF evts
  <2>1. CASE k < e
    <3>1. rd.ids[k] = h_attrs[k]
      BY <1>2, <2>0, <2>1
    <3> QED BY <1>1, <1>3, <1>4, <2>0, <2>1, <3>1
  <2>2. CASE k = e
    <3>1. rd.ids[k] = SubSeq(h_attrs[e], 1, n)
      BY <1>2, <1>4, <2>0, <2>2
    <3>2. IsRow(h_attrs[e]) /\ n \in 0..Len(h_attrs[e])
      BY <1>3, <1>4, <2>0, <2>2
    <3>3. /\ IsRow(SubSeq(h_attrs[e], 1, n)) /\ Len(SubSeq(h_attrs[e], 1, n)) = n
          /\ \A j \in 1..n : SubSeq(h_attrs[e], 1, n)[j] = h_attrs[e][j]
      BY <3>2, FirstIs
    <3> QED BY <1>4, <2>2, <3>1, <3>3
  <2>3. CASE ~(k < e) /\ k # e
    <3>1. rd.ids[k] = <<>>
      BY <1>2, <2>0, <2>3
    <3> QED BY <1>1, <1>4, <2>0, <2>3, <3>1, EmptyIsRow
  <2> QED BY <2>1, <2>2, <2>3
<1>7. NextEvent = e..NumEvents
  <2>1. \A k \in e..NumEvents : k \in 1..NumEvents /\ e <= k
    BY <1>1, <1>4
  <2>2. NextEvent = {k \in 1..NumEvents : Len(rd.ids[k]) < m}
    BY <1>5 DEF NextEvent
  <2> QED BY <1>1, <1>4, <1>6, <2>1, <2>2
<1>8. ASSUME e <= NumEvents PROVE Min(NextEvent) = e
  <2> DEFINE S == e..NumEvents
  <2>1. e \in S /\ S \subseteq Int /\ \A y \in S : e <= y
    BY <1>1, <1>4, <1>8
  <2> HIDE DEF S
  <2>2. Min(S) = e
    <3>1. \A x \in S : (\A y \in S : x =< y) => x = e
      BY <1>4, <2>1
    <3>2. Min(S) \in S /\ \A y \in S : Min(S) =< y
      BY <2>1 DEF Min
    <3> QED BY <3>1, <3>2
  <2> QED BY <1>7, <2>2 DEF S
<1> QED BY <1>7, <1>8

\* The ids of the events before e, and n of those of e
IdsTo(e, n) == [k \in evts |-> IF k < e THEN h_attrs[k]
                               ELSE IF k = e THEN SubSeq(h_attrs[e], 1, n) ELSE <<>>]

\* One more id of an event, or its last
LEMMA IdsMore ==
  ASSUME CountersInv, Len(perfCounters) = Wanted, NEW e \in evts, NEW n \in 0..IdsPerEvent - 1,
         NEW more, more = [IdsTo(e, n) EXCEPT ![e] = Append(@, h_attrs[e][n + 1])]
  PROVE  /\ more = IdsTo(e, n + 1)
         /\ n + 1 = IdsPerEvent => more = IdsTo(e + 1, 0)
<1> DEFINE m == IdsPerEvent
           a == SubSeq(h_attrs[e], 1, n)
           b == SubSeq(h_attrs[e], 1, n + 1)
           x == h_attrs[e][n + 1]
<1>1. m \in Nat \ {0} /\ NumEvents \in Nat \ {0}
  BY WantedIs, ConstantsAre DEF CountersInv
<1>2. \A k \in evts : IsRow(h_attrs[k]) /\ Len(h_attrs[k]) = m
  BY IdsAre
<1>3. n \in Nat /\ n + 1 \in 0..m /\ n \in 0..m
  BY <1>1
<1> HIDE DEF m
<1>4. /\ IsRow(a) /\ Len(a) = n /\ \A k \in 1..n : a[k] = h_attrs[e][k]
  BY <1>2, <1>3, FirstIs
<1>5. IsRow(b) /\ Len(b) = n + 1 /\ \A k \in 1..n + 1 : b[k] = h_attrs[e][k]
  BY <1>2, <1>3, FirstIs
<1> HIDE DEF a, b
<1>6. /\ IsRow(Append(a, x)) /\ Len(Append(a, x)) = n + 1
      /\ \A k \in 1..n : Append(a, x)[k] = a[k]
      /\ Append(a, x)[n + 1] = x
  <2> HIDE DEF x
  <2> QED BY <1>4, AppendIs
<1>7. Append(a, x) = b
  <2> DEFINE t == Append(a, x)
  <2>1. ASSUME NEW k \in 1..n + 1 PROVE t[k] = b[k]
    <3>1. CASE k = n + 1
      BY <1>5, <1>6, <3>1
    <3>2. CASE k # n + 1
      <4>1. k \in 1..n
        BY <1>3, <3>2
      <4> QED BY <1>4, <1>5, <1>6, <4>1
    <3> QED BY <3>1, <3>2
  <2>2. IsRow(t) /\ Len(t) = n + 1
    BY <1>6
  <2> HIDE DEF t
  <2>3. t = b
    BY <1>5, <2>1, <2>2, RowEqual
  <2> QED BY <2>3 DEF t
<1>8. more = IdsTo(e, n + 1)
  <2> DEFINE G(k) == IF k < e THEN h_attrs[k] ELSE IF k = e THEN b ELSE <<>>
  <2>0. e \in Nat /\ IdsTo(e, n + 1) = [k \in evts |-> G(k)]
    BY <1>1 DEF evts, IdsTo, b
  <2>1. DOMAIN IdsTo(e, n) = evts /\ IdsTo(e, n)[e] = a
    BY <2>0 DEF a, IdsTo
  <2>2. \A k \in evts : k # e => IdsTo(e, n)[k] = IF k < e THEN h_attrs[k] ELSE <<>>
    BY DEF IdsTo
  <2>3. more = [IdsTo(e, n) EXCEPT ![e] = b]
    BY <1>7, <2>1 DEF x
  <2>4. /\ more = [k \in evts |-> more[k]] /\ more[e] = b
        /\ \A k \in evts : k # e => more[k] = IdsTo(e, n)[k]
    BY <2>1, <2>3
  <2>5. \A k \in evts : more[k] = G(k)
    <3>1. \A k \in evts : k # e => more[k] = G(k)
      BY <2>2, <2>4
    <3>2. G(e) = b
      BY <2>0
    <3> HIDE DEF G
    <3> QED BY <2>4, <3>1, <3>2
  <2> HIDE DEF G
  <2> QED BY <2>0, <2>4, <2>5
<1>9. ASSUME n + 1 = m PROVE more = IdsTo(e + 1, 0)
  <2> DEFINE z == SubSeq(h_attrs[e + 1], 1, 0)
             G(k) == IF k < e THEN h_attrs[k] ELSE IF k = e THEN b ELSE <<>>
             H(k) == IF k < e + 1 THEN h_attrs[k] ELSE IF k = e + 1 THEN z ELSE <<>>
  <2>0. e \in Nat
    BY <1>1 DEF evts
  <2>1. b = h_attrs[e]
    BY <1>2, <1>5, <1>9, RowEqual
  <2>2. e + 1 \in evts => z = <<>>
    <3> SUFFICES ASSUME e + 1 \in evts PROVE z = <<>>
      OBVIOUS
    <3>1. IsRow(h_attrs[e + 1]) /\ 0 \in 0..Len(h_attrs[e + 1])
      BY <1>1, <1>2
    <3>2. /\ IsRow(z) /\ Len(z) = 0 /\ \A j \in 1..0 : z[j] = h_attrs[e + 1][j]
      BY <3>1, FirstIs
    <3> QED BY <3>2, RowIs
  <2>3. IdsTo(e, n + 1) = [k \in evts |-> G(k)] /\ IdsTo(e + 1, 0) = [k \in evts |-> H(k)]
    BY DEF IdsTo, b
  <2> HIDE DEF z
  <2>4. \A k \in evts : G(k) = H(k)
    BY <1>1, <2>0, <2>1, <2>2 DEF evts
  <2> HIDE DEF G, H
  <2> QED BY <1>8, <2>3, <2>4
<1> QED BY <1>8, <1>9 DEF m

LEMMA ReadIdStep ==
  ASSUME CountersInv, EventInv, GotInv, NEW c, NEW u, WriterInv(c, u), ReaderInv(c, u), ReadId
  PROVE  EventInv' /\ GotInv' /\ WriterInv(c, u)' /\ ReaderInv(c, u)'
<1>1. /\ rd.pc = "attrs" /\ Len(rd.nids) = rd.nattrs /\ NextEvent # {} /\ out # <<>>
      /\ out' = Tail(out)
      /\ rd' = [rd EXCEPT !.ids[Min(NextEvent)] = Append(@, Head(out).id)]
      /\ UNCHANGED recorder /\ got' = got
  BY DEF ReadId
<1>2. /\ ~write_to_file /\ pc \in Writing /\ got = <<>> /\ rd.nattrs = NumEvents /\ rd.event = <<>>
      /\ AtAttrs(c, u) /\ Written /\ DOMAIN rd = ReaderFields
  BY <1>1 DEF ReaderInv, AtAttrs, WriterInv, EventInv
<1> DEFINE m == IdsPerEvent
<1>3. /\ m \in Nat \ {0} /\ Wanted \in Nat /\ NumEvents \in Nat \ {0}
      /\ HeaderLen = 1 + NumEvents + Wanted /\ Len(perfCounters) = Wanted
  BY <1>2, WantedIs, ConstantsAre DEF CountersInv
<1>4. PICK e \in 1..NumEvents + 1, n \in 0..IdsPerEvent - 1 : AtIds(e, n, c, u)
  <2>1. ASSUME NEW k \in Nat, AttrsRead(k) PROVE FALSE
    <3>1. Len(rd.nids) = k /\ k < NumEvents
      BY <2>1 DEF AttrsRead
    <3> QED BY <1>1, <1>2, <1>3, <3>1
  <2> QED BY <1>2, <2>1 DEF AtAttrs
<1>5. /\ IdsRead(e, n) /\ (e = NumEvents + 1 => n = 0)
      /\ Follows(1 + NumEvents + (e - 1) * IdsPerEvent + n, c, u)
  BY <1>4 DEF AtIds
<1>6. NextEvent = e..NumEvents /\ (e <= NumEvents => Min(NextEvent) = e)
  BY <1>2, <1>5, NextEventIs
<1>7. e \in evts /\ e \in Nat /\ e # NumEvents + 1 /\ Min(NextEvent) = e /\ e <= NumEvents
  <2>1. PICK x \in NextEvent : TRUE
    BY <1>1
  <2>2. x \in e..NumEvents
    BY <1>6
  <2>3. e <= NumEvents /\ e \in Nat /\ 1 <= e
    BY <1>3, <2>2
  <2> QED BY <1>3, <1>6, <2>3 DEF evts
<1>8. PICK k \in Nat : /\ k = 1 + NumEvents + (e - 1) * IdsPerEvent + n /\ k < HeaderLen
  <2>1. /\ 1 + NumEvents + (e - 1) * IdsPerEvent + n \in 0..HeaderLen
        /\ e = NumEvents + 1 => 1 + NumEvents + (e - 1) * IdsPerEvent + n = HeaderLen
        /\ e # NumEvents + 1 => 1 + NumEvents + (e - 1) * IdsPerEvent + n < HeaderLen
    BY <1>5, IdPlace
  <2> QED BY <1>7, <2>1
<1>9. Follows(k, c, u)
  BY <1>5, <1>8
<1>10. /\ Head(out) = Header[k + 1] /\ IsRow(out')
       /\ k + 1 \in 0..HeaderLen /\ Follows(k + 1, c, u)'
  BY <1>1, <1>2, <1>8, <1>9, FollowsStep
<1>11. Head(out).id = h_attrs[e][n + 1]
  <2>1. n + 1 \in 1..IdsPerEvent
    BY <1>3
  <2>2. _write_header_to_pipe[1 + NumEvents + ((e - 1) * IdsPerEvent + (n + 1))] = IdUnit(e, n + 1)
    BY <1>3, <1>7, <2>1, PipeHeaderIs
  <2>3. k + 1 = 1 + NumEvents + ((e - 1) * IdsPerEvent + (n + 1))
    <3> DEFINE x == (e - 1) * m
    <3>1. x \in Nat
      BY <1>3, <1>7
    <3>2. k = 1 + NumEvents + x + n
      BY <1>8
    <3>3. n \in Nat
      BY <1>3
    <3> HIDE DEF x
    <3>4. k + 1 = 1 + NumEvents + (x + (n + 1))
      BY <1>3, <3>1, <3>2, <3>3
    <3> QED BY <3>4 DEF x
  <2>4. Head(out) = IdUnit(e, n + 1)
    BY <1>2, <1>10, <2>2, <2>3 DEF Header
  <2> QED BY <2>4 DEF IdUnit
<1>12. /\ rd'.pc = "attrs" /\ rd'.nattrs = NumEvents /\ rd'.nids = rd.nids
       /\ rd'.event = <<>> /\ DOMAIN rd' = ReaderFields
       /\ rd'.ids = [rd.ids EXCEPT ![e] = Append(@, h_attrs[e][n + 1])]
  BY <1>1, <1>2, <1>7, <1>11 DEF ReaderFields
<1>13. /\ UNCHANGED <<Setup, perfCounters, pc, pending>> /\ h_attrs' = h_attrs
       /\ Wanted' = Wanted /\ IdsPerEvent' = IdsPerEvent /\ write_to_file' = write_to_file
  BY <1>1, RecorderSame DEF Setup
<1>14. /\ rd'.ids = IdsTo(e, n + 1)
       /\ n + 1 = IdsPerEvent => rd'.ids = IdsTo(e + 1, 0)
  <2>1. rd.ids = IdsTo(e, n)
    BY <1>5 DEF IdsRead, IdsTo
  <2>2. n \in 0..IdsPerEvent - 1 /\ rd'.ids = [IdsTo(e, n) EXCEPT ![e] = Append(@, h_attrs[e][n + 1])]
    BY <1>12, <2>1
  <2> QED BY <1>3, <1>7, <2>2, IdsMore
<1>15. rd'.nids = [j \in evts |-> IdsPerEvent']
  BY <1>5, <1>12, <1>13 DEF IdsRead
<1>16. EventInv'
  BY <1>12 DEF EventInv
<1>17. GotInv'
  BY <1>1, <1>2, EmptyIsRow DEF GotInv, IsRow
<1>18. WriterInv(c, u)'
  BY <1>1, <1>2, <1>10, ReaderWriter
<1>19. CASE n + 1 < IdsPerEvent
  <2>1. IdsRead(e, n + 1)'
    BY <1>13, <1>14, <1>15 DEF IdsRead, IdsTo, evts
  <2>2. k + 1 = 1 + NumEvents + (e - 1) * IdsPerEvent + (n + 1)
    <3> DEFINE x == (e - 1) * m
    <3>1. x \in Nat
      BY <1>3, <1>7
    <3>2. k = 1 + NumEvents + x + n
      BY <1>8
    <3>3. n \in Nat
      BY <1>3
    <3> HIDE DEF x
    <3>4. k + 1 = 1 + NumEvents + x + (n + 1)
      BY <1>3, <3>1, <3>2, <3>3
    <3> QED BY <3>4 DEF x
  <2>3. AtIds(e, n + 1, c, u)'
    BY <1>7, <1>10, <1>13, <2>1, <2>2 DEF AtIds
  <2>4. n + 1 \in 0..IdsPerEvent' - 1
    BY <1>3, <1>13, <1>19
  <2>5. AtAttrs(c, u)'
    BY <1>1, <1>2, <1>12, <1>13, <2>3, <2>4 DEF AtAttrs
  <2>6. ReaderInv(c, u)'
    BY <1>12, <2>5 DEF ReaderInv
  <2> QED BY <1>16, <1>17, <1>18, <2>6
<1>20. CASE ~(n + 1 < IdsPerEvent)
  <2>0. n + 1 = IdsPerEvent
    BY <1>3, <1>20
  <2>1. IdsRead(e + 1, 0)'
    BY <1>13, <1>14, <1>15, <2>0 DEF IdsRead, IdsTo, evts
  <2>2. k + 1 = 1 + NumEvents + ((e + 1) - 1) * IdsPerEvent + 0
    <3> DEFINE x == (e - 1) * m
               y == ((e + 1) - 1) * m
    <3>1. x \in Nat /\ y \in Nat /\ y = x + m
      BY <1>3, <1>7
    <3>2. k = 1 + NumEvents + x + n
      BY <1>8
    <3>3. n \in Nat /\ n + 1 = m
      BY <1>3, <2>0
    <3> HIDE DEF x, y, m
    <3>4. k + 1 = 1 + NumEvents + y + 0
      BY <1>3, <3>1, <3>2, <3>3
    <3> QED BY <3>4 DEF y, m
  <2>3. AtIds(e + 1, 0, c, u)'
    BY <1>7, <1>10, <1>13, <2>1, <2>2 DEF AtIds
  <2>4. 0 \in 0..IdsPerEvent' - 1 /\ e + 1 \in 1..NumEvents + 1
    BY <1>3, <1>7, <1>13
  <2>5. AtAttrs(c, u)'
    BY <1>1, <1>2, <1>12, <1>13, <2>3, <2>4 DEF AtAttrs
  <2>6. ReaderInv(c, u)'
    BY <1>12, <2>5 DEF ReaderInv
  <2> QED BY <1>16, <1>17, <1>18, <2>6
<1> QED BY <1>19, <1>20

\* The header of a pipe has been read.
LEMMA HeaderReadStep ==
  ASSUME CountersInv, EventInv, GotInv, NEW c, NEW u, WriterInv(c, u), ReaderInv(c, u), HeaderRead
  PROVE  EventInv' /\ GotInv' /\ WriterInv(c, u)' /\ ReaderInv(c, u)'
<1>1. /\ rd.pc = "attrs" /\ Len(rd.nids) = rd.nattrs /\ NextEvent = {}
      /\ rd' = [rd EXCEPT !.pc = "pipe"]
      /\ UNCHANGED recorder /\ out' = out /\ got' = got
  BY DEF HeaderRead
<1>2. /\ ~write_to_file /\ pc \in Writing /\ got = <<>> /\ rd.nattrs = NumEvents /\ rd.event = <<>>
      /\ AtAttrs(c, u) /\ Written /\ DOMAIN rd = ReaderFields
  BY <1>1 DEF ReaderInv, AtAttrs, WriterInv, EventInv
<1>3. /\ IdsPerEvent \in Nat \ {0} /\ Wanted \in Nat /\ NumEvents \in Nat \ {0}
      /\ HeaderLen = 1 + NumEvents + Wanted /\ Len(perfCounters) = Wanted
  BY <1>2, WantedIs, ConstantsAre DEF CountersInv
<1>4. PICK e \in 1..NumEvents + 1, n \in 0..IdsPerEvent - 1 : AtIds(e, n, c, u)
  <2>1. ASSUME NEW k \in Nat, AttrsRead(k) PROVE FALSE
    <3>1. Len(rd.nids) = k /\ k < NumEvents
      BY <2>1 DEF AttrsRead
    <3> QED BY <1>1, <1>2, <1>3, <3>1
  <2> QED BY <1>2, <2>1 DEF AtAttrs
<1>5. /\ IdsRead(e, n) /\ (e = NumEvents + 1 => n = 0)
      /\ Follows(1 + NumEvents + (e - 1) * IdsPerEvent + n, c, u)
  BY <1>4 DEF AtIds
<1>6. NextEvent = e..NumEvents /\ (e <= NumEvents => Min(NextEvent) = e)
  BY <1>2, <1>5, NextEventIs
<1>7. e = NumEvents + 1
  <2>1. e..NumEvents = {}
    BY <1>1, <1>6
  <2>2. e \in Nat /\ ~(e <= NumEvents)
    BY <1>3, <2>1
  <2> QED BY <1>3, <2>2
<1>8. 1 + NumEvents + (e - 1) * IdsPerEvent + n = HeaderLen
  BY <1>5, <1>7, IdPlace
<1>9. Follows(HeaderLen, c, u)
  BY <1>5, <1>8
<1>10. Leads(Wanted, Flow, <<Zero, NoUnit>>, <<c, u>>)
  <2>1. PICK recs \in Seq(Units) : /\ Flow = Leftover(HeaderLen) \o recs
                                   /\ Leads(Wanted, recs, <<Zero, NoUnit>>, <<c, u>>)
    BY <1>9 DEF Follows
  <2>2. IsRow(Leftover(HeaderLen)) /\ Len(Leftover(HeaderLen)) = 0 /\ IsRow(recs)
    <3>1. HeaderLen \in Nat /\ HeaderLen \in 0..HeaderLen
      BY <1>3
    <3>2. /\ IsRow(Leftover(HeaderLen)) /\ Len(Leftover(HeaderLen)) = HeaderLen - HeaderLen
          /\ \A j \in 1..HeaderLen - HeaderLen : Leftover(HeaderLen)[j] = Header[HeaderLen + j]
      BY <1>2, <3>1, LeftoverIs
    <3> QED BY <3>1, <3>2, SeqIsRow
  <2>3. Leftover(HeaderLen) = <<>>
    BY <2>2, RowIs
  <2>4. Flow = recs
    BY <2>1, <2>2, <2>3, JoinEmpty
  <2> QED BY <2>1, <2>4
<1>11. rd.ids = h_attrs
  <2>1. rd.ids = [k \in evts |-> IF k < e THEN h_attrs[k]
                                 ELSE IF k = e THEN SubSeq(h_attrs[e], 1, n) ELSE <<>>]
    BY <1>5 DEF IdsRead
  <2>2. \A k \in evts : k < e
    BY <1>3, <1>7 DEF evts
  <2>3. rd.ids = [k \in evts |-> h_attrs[k]]
    BY <2>1, <2>2
  <2> QED BY <2>3 DEF CountersInv
<1>12. /\ rd'.pc = "pipe" /\ rd'.event = <<>> /\ rd'.ids = h_attrs /\ DOMAIN rd' = ReaderFields
  BY <1>1, <1>2, <1>11 DEF ReaderFields
<1>13. /\ UNCHANGED <<Setup, perfCounters, pc, pending>> /\ h_attrs' = h_attrs
       /\ Wanted' = Wanted /\ write_to_file' = write_to_file
  BY <1>1, RecorderSame DEF Setup
<1>14. EventInv'
  BY <1>12 DEF EventInv
<1>15. GotInv'
  BY <1>1, <1>2, EmptyIsRow DEF GotInv, IsRow
<1>16. WriterInv(c, u)'
  BY <1>1, ReaderWriter
<1>17. Read' = Zero /\ LastUnit' = NoUnit
  <2>1. Read = Zero
    BY <1>2, ReadIs
  <2>2. Read' = Read
    BY <1>1 DEF Read
  <2> QED BY <1>12, <2>1, <2>2 DEF LastUnit
<1>18. AtRecords(c, u)'
  <2>1. Flow' = Flow
    BY <1>1, <1>13 DEF Flow
  <2> QED BY <1>2, <1>10, <1>12, <1>13, <1>17, <2>1 DEF AtRecords
<1>19. ReaderInv(c, u)'
  BY <1>12, <1>18 DEF ReaderInv
<1> QED BY <1>14, <1>15, <1>16, <1>19

\* The pipe ends: everything has been read.
LEMMA PipeClosedStep ==
  ASSUME CountersInv, CopyInv, EventInv, GotInv, NEW c, NEW u, WriterInv(c, u), ReaderInv(c, u),
         PipeClosed
  PROVE  EventInv' /\ GotInv' /\ WriterInv(c, u)' /\ ReaderInv(c, u)'
<1>1. /\ ~write_to_file /\ rd.pc \in {"header", "attrs", "pipe", "body"} /\ out = <<>>
      /\ pc \in {"closed", "failed"}
      /\ rd' = [rd EXCEPT !.pc = IF @ \in {"header", "attrs"} THEN "failed" ELSE "done"]
      /\ UNCHANGED recorder /\ out' = out /\ got' = got
  BY DEF PipeClosed, Ended
<1>2. DOMAIN rd = ReaderFields /\ rd'.pc \in {"failed", "done"} /\ DOMAIN rd' = ReaderFields
  BY <1>1 DEF EventInv, ReaderFields
<1>3. EventInv'
  BY <1>2 DEF EventInv
<1>4. /\ UNCHANGED <<Setup, perfCounters, pc, pending>>
  BY <1>1, RecorderSame
<1>5. GotInv' /\ Read' = Read
  BY <1>1, <1>4 DEF GotInv, Intact, Read
<1>6. WriterInv(c, u)'
  BY <1>1, ReaderWriter
<1>7. CASE rd.pc \in {"header", "attrs"}
  <2>1. rd'.pc = "failed"
    BY <1>1, <1>2, <1>7 DEF ReaderFields
  <2>2. ReaderInv(c, u)'
    BY <1>1, <1>4, <2>1 DEF ReaderInv
  <2> QED BY <1>3, <1>5, <1>6, <2>2
<1>8. CASE rd.pc \in {"pipe", "body"}
  <2>1. rd'.pc = "done"
    BY <1>1, <1>2, <1>8 DEF ReaderFields
  <2>2. pc = "closed" /\ Leads(Wanted, Flow, <<Read, LastUnit>>, <<c, u>>)
    BY <1>1, <1>8 DEF ReaderInv, AtRecords, Writing
  <2>3. pending = <<>>
    BY <2>2 DEF CopyInv
  <2>4. Flow = <<>>
    BY <1>1, <2>3, JoinEmpty, EmptyIsRow DEF Flow
  <2>5. <<Read, LastUnit>> = <<c, u>>
    BY <2>2, <2>4, LeadsNowhere
  <2>6. c = Read
    BY <2>5
  <2>7. ReaderInv(c, u)'
    BY <1>4, <1>5, <2>1, <2>2, <2>6 DEF ReaderInv
  <2> QED BY <1>3, <1>5, <1>6, <2>7
<1> QED BY <1>1, <1>7, <1>8

-----------------------------------------------------------------------------
(* The reader of a file                                                    *)

\* What is in a file that was closed
LEMMA FileIs ==
  ASSUME CountersInv, CopyInv, write_to_file, pc = "closed", NEW c, NEW u, WriterInv(c, u),
         Follows(0, c, u)
  PROVE  /\ IsRow(out) /\ HeaderLen \in 0..Len(out)
         /\ \A j \in 1..HeaderLen : out[j] = _write_header_to_file(Len(out))[j]
         /\ Leads(Wanted, SubSeq(out, HeaderLen + 1, Len(out)), <<Zero, NoUnit>>, <<c, u>>)
<1>1. Written /\ IsRow(out) /\ pending = <<>> /\ total_bytes_recorded = Len(out) /\ pc \in Writing
  BY DEF WriterInv, Written, CopyInv, Writing
<1>2. PICK recs \in Seq(Units) : /\ Flow = Leftover(0) \o recs
                                 /\ Leads(Wanted, recs, <<Zero, NoUnit>>, <<c, u>>)
  BY DEF Follows
<1>3. HeaderLen \in Nat /\ IsRow(recs)
  BY WantedIs, SeqIsRow DEF CountersInv
<1> DEFINE h == Leftover(0)
<1>4. IsRow(h) /\ Len(h) = HeaderLen /\ \A j \in 1..HeaderLen : h[j] = Header[j]
  <2>1. 0 \in 0..HeaderLen
    BY <1>3
  <2>2. /\ IsRow(Leftover(0)) /\ Len(Leftover(0)) = HeaderLen - 0
        /\ \A j \in 1..HeaderLen - 0 : Leftover(0)[j] = Header[0 + j]
    BY <1>1, <2>1, LeftoverIs
  <2> QED BY <1>3, <2>2
<1>5. Header = _write_header_to_file(Len(out))
  BY <1>1 DEF Header
<1>6. out = h \o recs
  BY <1>1, <1>2, JoinEmpty DEF Flow
<1> HIDE DEF h
<1>7. /\ IsRow(h \o recs) /\ Len(h \o recs) = Len(h) + Len(recs)
      /\ \A j \in 1..Len(h) : (h \o recs)[j] = h[j]
      /\ \A j \in 1..Len(recs) : (h \o recs)[Len(h) + j] = recs[j]
      /\ \A j \in 1..Len(h) + Len(recs) : (h \o recs)[j] = IF j <= Len(h) THEN h[j] ELSE recs[j - Len(h)]
  BY <1>3, <1>4, JoinIs
<1>8. Len(recs) \in Nat
  BY <1>3, RowIs
<1>9. HeaderLen \in 0..Len(out) /\ \A j \in 1..HeaderLen : out[j] = Header[j]
  BY <1>3, <1>4, <1>6, <1>7, <1>8
<1>10. SubSeq(out, HeaderLen + 1, Len(out)) = recs
  <2>1. Len(h) \in 0..Len(h)
    BY <1>3, <1>4
  <2>2. SubSeq(h \o recs, Len(h) + 1, Len(h) + Len(recs)) = SubSeq(h, Len(h) + 1, Len(h)) \o recs
    BY <1>3, <1>4, <2>1, PartOfJoin
  <2>3. /\ IsRow(SubSeq(h, Len(h) + 1, Len(h))) /\ Len(SubSeq(h, Len(h) + 1, Len(h))) = Len(h) - Len(h)
        /\ \A k \in 1..Len(h) - Len(h) : SubSeq(h, Len(h) + 1, Len(h))[k] = h[Len(h) + k]
    BY <1>4, <2>1, RestIs
  <2>4. Len(SubSeq(h, Len(h) + 1, Len(h))) = 0
    BY <1>3, <1>4, <2>3
  <2>5. SubSeq(h, Len(h) + 1, Len(h)) = <<>>
    BY <2>3, <2>4, RowIs
  <2> QED BY <1>3, <1>4, <1>6, <1>7, <2>2, <2>5, JoinEmpty
<1> QED BY <1>1, <1>2, <1>5, <1>9, <1>10

LEMMA OpenFileStep ==
  ASSUME CountersInv, CopyInv, EventInv, GotInv, NEW c, NEW u, WriterInv(c, u), ReaderInv(c, u),
         _read_header_info_with_ifstream
  PROVE  EventInv' /\ GotInv' /\ WriterInv(c, u)' /\ ReaderInv(c, u)'
<1> DEFINE attr(e) == out[1 + out[1].attr_offset + e - 1]
           read == [e \in evts |-> [k \in 1..attr(e).nids |-> out[1 + attr(e).offset + k - 1].id]]
<1>1. /\ write_to_file /\ pc \in {"closed", "failed"} /\ rd.pc = "header"
      /\ UNCHANGED recorder /\ out' = out /\ got' = got
      /\ out = <<>> => rd' = [rd EXCEPT !.pc = "failed"]
      /\ out # <<>> => rd' = [rd EXCEPT !.pc = "open", !.nattrs = out[1].nattrs,
                                        !.head = out[1].data_offset, !.end = out[1].data_size,
                                        !.ids = read]
  BY DEF _read_header_info_with_ifstream, Ended
<1>2. rd = reader /\ got = <<>> /\ (pc = "closed" => Follows(0, c, u)) /\ DOMAIN rd = ReaderFields
  BY <1>1 DEF ReaderInv, AtHeader, Writing, EventInv
<1>3. /\ UNCHANGED <<Setup, perfCounters, pc, pending>> /\ h_attrs' = h_attrs
      /\ Wanted' = Wanted /\ write_to_file' = write_to_file /\ HeaderLen' = HeaderLen
      /\ Leftover(0)' = Leftover(0)
  BY <1>1, RecorderSame DEF Setup
<1>4. GotInv'
  BY <1>1, <1>2, EmptyIsRow DEF GotInv, IsRow
<1>5. WriterInv(c, u)'
  BY <1>1, ReaderWriter
<1>6. CASE out = <<>>
  <2>1. rd'.pc = "failed" /\ DOMAIN rd' = ReaderFields
    BY <1>1, <1>2, <1>6 DEF ReaderFields
  <2>2. EventInv' /\ ReaderInv(c, u)'
    BY <1>1, <1>3, <2>1 DEF EventInv, ReaderInv
  <2> QED BY <1>4, <1>5, <2>2
<1>7. CASE out # <<>>
  <2>1. pc = "closed" /\ Follows(0, c, u)
    BY ZenonT(60), <1>1, <1>2, <1>7 DEF WriterInv, Written, Before
  <2>2. /\ IsRow(out) /\ HeaderLen \in 0..Len(out)
        /\ \A j \in 1..HeaderLen : out[j] = _write_header_to_file(Len(out))[j]
        /\ Leads(Wanted, SubSeq(out, HeaderLen + 1, Len(out)), <<Zero, NoUnit>>, <<c, u>>)
    BY <1>1, <2>1, FileIs
  <2> DEFINE m == IdsPerEvent
             h == _write_header_to_file(Len(out))
             L == Len(out)
  <2>3. /\ m \in Nat \ {0} /\ Wanted \in Nat /\ NumEvents \in Nat \ {0} /\ Wanted = m * NumEvents
        /\ HeaderLen = 1 + NumEvents + Wanted /\ Len(perfCounters) = Wanted
    BY <2>1, WantedIs, ConstantsAre DEF CountersInv, Writing
  <2>4. /\ h[1] = FileHeader(L)
        /\ \A e \in evts, j \in 1..m : h[1 + ((e - 1) * m + j)] = IdUnit(e, j)
        /\ \A e \in evts : h[1 + Wanted + e] = FileAttr(e)
    <3> HIDE DEF L
    <3>1. LET t == _write_header_to_file(L) IN
          /\ IsRow(t) /\ Len(t) = HeaderLen /\ t[1] = FileHeader(L)
          /\ \A e \in evts, j \in 1..IdsPerEvent : t[1 + ((e - 1) * IdsPerEvent + j)] = IdUnit(e, j)
          /\ \A e \in evts : t[1 + Wanted + e] = FileAttr(e)
      BY <2>3, FileHeaderIs
    <3> QED BY <3>1 DEF L
  <2>5. \A e \in evts : h_attrs[e] \in Seq(Nat) /\ Len(h_attrs[e]) = m
    BY <2>3, IdsAre
  <2> HIDE DEF m, h, L
  <2>6. \A j \in 1..HeaderLen : out[j] = h[j]
    BY <2>2 DEF h
  <2>7. out[1] = FileHeader(L)
    BY <2>3, <2>4, <2>6
  <2>8. ASSUME NEW e \in evts PROVE attr(e) = FileAttr(e)
    <3>1. e \in Nat /\ 1 <= e /\ e <= NumEvents
      BY <2>3 DEF evts
    <3>2. out[1].attr_offset = 1 + Wanted
      BY <2>7 DEF FileHeader
    <3>3. 1 + (1 + Wanted) + e - 1 = 1 + Wanted + e /\ 1 + Wanted + e \in 1..HeaderLen
      BY <2>3, <3>1
    <3> QED BY <2>4, <2>6, <3>2, <3>3
  <2>9. ASSUME NEW e \in evts, NEW j \in 1..m
        PROVE  out[1 + (1 + (e - 1) * m) + j - 1].id = h_attrs[e][j]
    <3>1. e \in Nat /\ 1 <= e /\ e <= NumEvents /\ j \in Nat /\ 1 <= j /\ j <= m
      BY <2>3 DEF evts
    <3> DEFINE x == (e - 1) * m
    <3>2. x \in Nat /\ x + m = e * m /\ e * m <= m * NumEvents
      BY <2>3, <3>1
    <3>3. x \in Nat /\ x + m <= Wanted /\ h[1 + (x + j)] = IdUnit(e, j)
      BY <2>3, <2>4, <3>2
    <3> HIDE DEF x
    <3>4. 1 + (1 + x) + j - 1 = 1 + (x + j) /\ 1 + (x + j) \in 1..HeaderLen
      BY <2>3, <3>1, <3>3
    <3>5. out[1 + (1 + x) + j - 1] = IdUnit(e, j)
      BY <2>6, <3>3, <3>4
    <3> QED BY <3>5 DEF IdUnit, x
  <2>10. read = h_attrs
    <3>1. ASSUME NEW e \in evts PROVE read[e] = h_attrs[e]
      <4>1. attr(e).nids = m /\ attr(e).offset = 1 + (e - 1) * m
        <5>1. FileAttr(e).nids = m /\ FileAttr(e).offset = 1 + (e - 1) * m
          BY DEF FileAttr, m
        <5>2. attr(e) = FileAttr(e)
          BY <2>8
        <5> HIDE DEF attr
        <5> QED BY <5>1, <5>2
      <4>2. read[e] = [k \in 1..attr(e).nids |-> out[1 + attr(e).offset + k - 1].id]
        OBVIOUS
      <4> HIDE DEF attr, read
      <4>3. read[e] = [k \in 1..m |-> out[1 + (1 + (e - 1) * m) + k - 1].id]
        BY <4>1, <4>2
      <4>4. read[e] = [k \in 1..m |-> h_attrs[e][k]]
        BY <2>9, <4>3
      <4> QED BY <2>5, <4>4
    <3>2. DOMAIN read = evts /\ read = [e \in evts |-> read[e]]
      OBVIOUS
    <3> HIDE DEF read
    <3> QED BY <3>1, <3>2 DEF CountersInv
  <2> HIDE DEF read
  <2>11. /\ rd'.pc = "open" /\ rd'.event = <<>> /\ rd'.offset = 0 /\ rd'.ids = h_attrs
         /\ rd'.head = HeaderLen /\ rd'.end = Len(out) /\ DOMAIN rd' = ReaderFields
    <3>1. out[1].data_offset = HeaderLen /\ out[1].data_size = Len(out)
      BY <2>3, <2>7 DEF FileHeader, L
    <3> QED BY <1>1, <1>2, <1>7, <2>10, <3>1 DEF ReaderFields, reader
  <2>12. EventInv'
    BY <2>11 DEF EventInv
  <2>13. Follows(0, c, u)'
    <3>1. Flow' = Flow
      BY <1>1, <1>3 DEF Flow
    <3> QED BY <1>3, <2>1, <3>1 DEF Follows
  <2>14. AtOpen(c, u)'
    BY <1>1, <1>2, <1>3, <2>1, <2>11, <2>13 DEF AtOpen
  <2>15. ReaderInv(c, u)'
    BY <2>11, <2>14 DEF ReaderInv
  <2> QED BY SMTT(40), <1>4, <1>5, <2>12, <2>15
<1> QED BY SMTT(40), <1>6, <1>7

\* The parts of a sequence after n elements, and after some more
LEMMA RestOfRest ==
  ASSUME NEW s, IsRow(s), NEW n \in 0..Len(s), NEW m \in 0..Len(s) - n
  PROVE  LET t == SubSeq(s, n + 1, Len(s)) IN
         /\ Len(t) = Len(s) - n
         /\ SubSeq(t, m + 1, Len(t)) = SubSeq(s, n + m + 1, Len(s))
<1> DEFINE t == SubSeq(s, n + 1, Len(s))
           a == SubSeq(t, m + 1, Len(t))
           b == SubSeq(s, n + m + 1, Len(s))
<1>0. Len(s) \in Nat
  BY RowIs
<1>1. IsRow(t) /\ Len(t) = Len(s) - n /\ \A k \in 1..Len(s) - n : t[k] = s[n + k]
  BY RestIs
<1> HIDE DEF t
<1>2. m \in 0..Len(t)
  BY <1>1
<1>3. IsRow(a) /\ Len(a) = Len(t) - m /\ \A k \in 1..Len(t) - m : a[k] = t[m + k]
  BY <1>1, <1>2, RestIs
<1>4. n + m \in 0..Len(s)
  BY <1>0
<1>5. IsRow(b) /\ Len(b) = Len(s) - (n + m) /\ \A k \in 1..Len(s) - (n + m) : b[k] = s[(n + m) + k]
  <2> DEFINE l == n + m
  <2> HIDE DEF l
  <2>1. /\ IsRow(SubSeq(s, l + 1, Len(s))) /\ Len(SubSeq(s, l + 1, Len(s))) = Len(s) - l
        /\ \A k \in 1..Len(s) - l : SubSeq(s, l + 1, Len(s))[k] = s[l + k]
    BY <1>4, RestIs DEF l
  <2> QED BY <2>1 DEF l
<1> HIDE DEF a, b
<1>6. Len(a) = Len(b)
  BY <1>0, <1>1, <1>3, <1>5
<1>7. ASSUME NEW k \in 1..Len(a) PROVE a[k] = b[k]
  <2>1. k \in 1..Len(t) - m /\ k \in 1..Len(s) - (n + m) /\ m + k \in 1..Len(s) - n
        /\ n + (m + k) = (n + m) + k
    BY <1>0, <1>1, <1>2, <1>3
  <2> QED BY <1>1, <1>3, <1>5, <2>1
<1>8. a = b
  BY <1>3, <1>5, <1>6, <1>7, RowEqual
<1> QED BY <1>1, <1>8 DEF a, b, t

\* The file is mapped, or the window is moved: the reader stays where it is.
LEMMA MapStep ==
  ASSUME CountersInv, CopyInv, EventInv, GotInv, NEW c, NEW u, WriterInv(c, u), ReaderInv(c, u),
         op_mmap_trace_file \/ Remap
  PROVE  EventInv' /\ GotInv' /\ WriterInv(c, u)' /\ ReaderInv(c, u)'
<1> DEFINE shift == PageSize * (rd.head \div PageSize)
<1>1. UNCHANGED recorder /\ out' = out /\ got' = got /\ DOMAIN rd = ReaderFields
  BY DEF op_mmap_trace_file, Remap, EventInv
<1>2. /\ UNCHANGED <<Setup, perfCounters, pc, pending>> /\ h_attrs' = h_attrs
      /\ Wanted' = Wanted /\ write_to_file' = write_to_file
  BY <1>1, RecorderSame DEF Setup
<1>3. GotInv' /\ Read' = Read
  BY <1>1, <1>2 DEF GotInv, Intact, Read
<1>4. WriterInv(c, u)'
  BY <1>1, ReaderWriter
<1>5. ASSUME NEW h \in Int PROVE PageSize * (h \div PageSize) \in Int
  <2>1. h \div PageSize \in Int
    BY ConstantsAre
  <2> QED BY <2>1, ConstantsAre
<1>6. CASE op_mmap_trace_file
  <2>1. /\ rd.pc = "open"
        /\ rd' = IF rd.end = 0 THEN [rd EXCEPT !.pc = "failed"]
                 ELSE [rd EXCEPT !.pc = "file", !.offset = shift, !.head = @ - shift,
                                 !.mmap_size = Min({MmapWindow, rd.end})]
    BY <1>6 DEF op_mmap_trace_file
  <2>2. /\ write_to_file /\ pc = "closed" /\ got = <<>> /\ rd.ids = h_attrs
        /\ rd.event = <<>> /\ rd.offset = 0 /\ rd.head = HeaderLen /\ rd.end = Len(out)
        /\ Follows(0, c, u)
    BY <2>1 DEF ReaderInv, AtOpen
  <2>3. /\ IsRow(out) /\ HeaderLen \in 0..Len(out)
        /\ \A j \in 1..HeaderLen : out[j] = _write_header_to_file(Len(out))[j]
        /\ Leads(Wanted, SubSeq(out, HeaderLen + 1, Len(out)), <<Zero, NoUnit>>, <<c, u>>)
    BY <2>2, FileIs
  <2>4. CASE rd.end = 0
    <3>1. rd'.pc = "failed" /\ DOMAIN rd' = ReaderFields
      BY <1>1, <2>1, <2>4 DEF ReaderFields
    <3>2. EventInv' /\ ReaderInv(c, u)'
      BY <1>2, <2>2, <3>1 DEF EventInv, ReaderInv
    <3> QED BY <1>3, <1>4, <3>2
  <2>5. CASE rd.end # 0
    <3>1. HeaderLen \in Int
      BY WantedIs DEF CountersInv
    <3>2. shift \in Int
      BY <1>5, <2>2, <3>1
    <3>3. /\ rd'.pc = "file" /\ rd'.ids = h_attrs /\ rd'.event = <<>> /\ DOMAIN rd' = ReaderFields
          /\ rd'.offset = shift /\ rd'.head = HeaderLen - shift /\ rd'.end = Len(out)
      <4> HIDE DEF shift
      <4> QED BY <1>1, <2>1, <2>2, <2>5 DEF ReaderFields
    <3> HIDE DEF shift
    <3>4. rd'.offset \in Int /\ rd'.head \in Int /\ rd'.offset + rd'.head = HeaderLen
      BY <3>1, <3>2, <3>3
    <3>5. Read' = Zero
      BY <1>3, <2>2, ReadIs
    <3>6. AtPlace(c, u)'
      BY <1>1, <1>2, <2>2, <2>3, <3>3, <3>4, <3>5 DEF AtPlace
    <3>7. EventInv' /\ ReaderInv(c, u)'
      BY <3>3, <3>6 DEF EventInv, ReaderInv
    <3> QED BY <1>3, <1>4, <3>7
  <2> QED BY <2>4, <2>5
<1>7. CASE Remap
  <2>1. rd.pc = "file" /\ rd' = [rd EXCEPT !.offset = @ + shift, !.head = @ - shift]
    BY <1>7 DEF Remap
  <2>2. /\ write_to_file /\ pc = "closed" /\ rd.ids = h_attrs /\ rd.event = <<>>
        /\ rd.offset \in Int /\ rd.head \in Int /\ rd.offset + rd.head \in 0..Len(out)
        /\ rd.end = Len(out)
        /\ Leads(Wanted, SubSeq(out, rd.offset + rd.head + 1, Len(out)), <<Read, NoUnit>>, <<c, u>>)
    BY <2>1 DEF ReaderInv, AtPlace
  <2>3. shift \in Int
    BY <1>5, <2>2
  <2> HIDE DEF shift
  <2>4. /\ rd'.pc = "file" /\ rd'.ids = h_attrs /\ rd'.event = <<>> /\ DOMAIN rd' = ReaderFields
        /\ rd'.offset = rd.offset + shift /\ rd'.head = rd.head - shift /\ rd'.end = Len(out)
    BY <1>1, <2>1, <2>2 DEF ReaderFields
  <2>5. rd'.offset \in Int /\ rd'.head \in Int /\ rd'.offset + rd'.head = rd.offset + rd.head
    <3> DEFINE x == rd.offset
               y == rd.head
    <3>1. x \in Int /\ y \in Int /\ rd'.offset = x + shift /\ rd'.head = y - shift
      BY <2>2, <2>4
    <3> HIDE DEF x, y
    <3>2. rd'.offset + rd'.head = x + y
      BY <2>3, <3>1
    <3> QED BY <2>3, <3>1, <3>2 DEF x, y
  <2>6. AtPlace(c, u)'
    BY <1>1, <1>2, <1>3, <2>2, <2>4, <2>5 DEF AtPlace
  <2>7. EventInv' /\ ReaderInv(c, u)'
    BY <2>4, <2>6 DEF EventInv, ReaderInv
  <2> QED BY <1>3, <1>4, <2>7
<1> QED BY <1>6, <1>7

\* The end of the file: everything has been read.
LEMMA EndOfFileStep ==
  ASSUME CountersInv, EventInv, GotInv, NEW c, NEW u, WriterInv(c, u), ReaderInv(c, u), EndOfFile
  PROVE  EventInv' /\ GotInv' /\ WriterInv(c, u)' /\ ReaderInv(c, u)'
<1>1. /\ rd.pc = "file" /\ rd.offset + rd.head + 1 > rd.end /\ rd' = [rd EXCEPT !.pc = "done"]
      /\ UNCHANGED recorder /\ out' = out /\ got' = got /\ DOMAIN rd = ReaderFields
  BY DEF EndOfFile, NoMore, EventInv
<1>2. /\ UNCHANGED <<Setup, perfCounters, pc, pending>>
  BY <1>1, RecorderSame
<1>3. GotInv' /\ Read' = Read
  BY <1>1, <1>2 DEF GotInv, Intact, Read
<1>4. WriterInv(c, u)'
  BY <1>1, ReaderWriter
<1>5. rd'.pc = "done" /\ DOMAIN rd' = ReaderFields
  BY <1>1 DEF ReaderFields
<1>6. EventInv'
  BY <1>5 DEF EventInv
<1>7. /\ pc = "closed" /\ rd.offset \in Int /\ rd.head \in Int
      /\ rd.offset + rd.head \in 0..Len(out) /\ rd.end = Len(out)
      /\ Leads(Wanted, SubSeq(out, rd.offset + rd.head + 1, Len(out)), <<Read, NoUnit>>, <<c, u>>)
  BY <1>1 DEF ReaderInv, AtPlace
<1> DEFINE p == rd.offset + rd.head
           s == SubSeq(out, p + 1, Len(out))
<1>8. IsRow(out) /\ Len(out) \in Nat
  BY RowIs DEF WriterInv, Written
<1>9. p \in 0..Len(out) /\ p = Len(out) /\ Leads(Wanted, s, <<Read, NoUnit>>, <<c, u>>)
  BY <1>1, <1>7, <1>8
<1> HIDE DEF p
<1>10. IsRow(s) /\ Len(s) = Len(out) - p /\ \A k \in 1..Len(out) - p : s[k] = out[p + k]
  BY <1>8, <1>9, RestIs
<1>11. s = <<>>
  <2>1. Len(s) = 0
    BY <1>8, <1>9, <1>10
  <2> HIDE DEF s
  <2> QED BY <1>10, <2>1, RowIs
<1>12. <<Read, NoUnit>> = <<c, u>>
  BY <1>9, <1>11, LeadsNowhere
<1>13. c = Read
  BY <1>12
<1>14. ReaderInv(c, u)'
  BY <1>2, <1>3, <1>5, <1>7, <1>13 DEF ReaderInv
<1> QED BY <1>3, <1>4, <1>6, <1>14

\* The next record of the file
LEMMA NextRecordStep ==
  ASSUME CountersInv, EventInv, GotInv, NEW c, NEW u, WriterInv(c, u), ReaderInv(c, u),
         _get_perf_event_from_file
  PROVE  EventInv' /\ GotInv' /\ WriterInv(c, u)' /\ ReaderInv(c, u)'
<1> DEFINE p == rd.offset + rd.head
           s == SubSeq(out, p + 1, Len(out))
           event == [k \in 1..InFile(0).size |-> InFile(k - 1)]
<1>1. /\ rd.pc = "file" /\ ~(rd.offset + rd.head + 1 > rd.end)
      /\ UNCHANGED recorder /\ out' = out /\ DOMAIN rd = ReaderFields
      /\ IF InFile(0).k = "rec" /\ InFile(0).i = 1
         THEN got' = Append(got, Converted(event)) /\ rd' = [rd EXCEPT !.head = @ + InFile(0).size]
         ELSE rd' = [rd EXCEPT !.pc = "bad"] /\ got' = got
  BY DEF _get_perf_event_from_file, NoMore, EventInv
<1>2. /\ write_to_file /\ pc = "closed" /\ rd.ids = h_attrs /\ rd.event = <<>>
      /\ rd.offset \in Int /\ rd.head \in Int /\ rd.offset + rd.head \in 0..Len(out)
      /\ rd.end = Len(out)
      /\ Leads(Wanted, SubSeq(out, rd.offset + rd.head + 1, Len(out)), <<Read, NoUnit>>, <<c, u>>)
  BY <1>1 DEF ReaderInv, AtPlace
<1>3. /\ UNCHANGED <<Setup, perfCounters, pc, pending>> /\ h_attrs' = h_attrs
      /\ Wanted' = Wanted /\ write_to_file' = write_to_file
  BY <1>1, RecorderSame DEF Setup
<1>4. WriterInv(c, u)' /\ u = NoUnit /\ Len(perfCounters) = Wanted
  BY <1>1, <1>2, ReaderWriter DEF WriterInv, CountersInv, Writing
<1>5. IsRow(out) /\ Len(out) \in Nat
  BY RowIs DEF WriterInv, Written
<1>6. p \in 0..Len(out) /\ p < Len(out) /\ Leads(Wanted, s, <<Read, NoUnit>>, <<c, NoUnit>>)
  BY <1>1, <1>2, <1>4, <1>5
<1>7. \A k \in Int : InFile(k) = out[1 + rd.offset + rd.head + k] /\ 1 + rd.offset + rd.head + k = p + 1 + k
  BY <1>2 DEF InFile
<1> HIDE DEF p
<1>8. IsRow(s) /\ Len(s) = Len(out) - p /\ \A k \in 1..Len(out) - p : s[k] = out[p + k]
  BY <1>5, <1>6, RestIs
<1> HIDE DEF s
<1>9. s # <<>> /\ Len(s) \in Nat
  BY <1>5, <1>6, <1>8, EmptyIsRow
<1> DEFINE v == s[1]
<1>10. /\ Begins(Wanted, Read, v) /\ v.size \in Nat /\ v.size <= Len(s)
       /\ \A k \in 1..v.size : s[k] = [v EXCEPT !.i = k]
       /\ Leads(Wanted, SubSeq(s, v.size + 1, Len(s)), <<Tally(Read, v.ring), NoUnit>>, <<c, NoUnit>>)
  BY <1>6, <1>8, <1>9, LeadsWhole
<1>11. \A k \in 1..Len(s) : InFile(k - 1) = s[k]
  <2> SUFFICES ASSUME NEW k \in 1..Len(s) PROVE InFile(k - 1) = s[k]
    OBVIOUS
  <2>1. k - 1 \in Int /\ p + 1 + (k - 1) = p + k /\ k \in 1..Len(out) - p
    BY <1>6, <1>8, <1>9
  <2> QED BY <1>7, <1>8, <2>1
<1>12. InFile(0) = v
  <2>1. 1 \in 1..Len(s) /\ 1 - 1 = 0
    BY <1>5, <1>6, <1>8
  <2> QED BY <1>11, <2>1
<1> HIDE DEF v
<1>13. v.k = "rec" /\ v.i = 1 /\ 2 <= v.size /\ v.ring \in Nat
  BY <1>10 DEF Begins, Units
<1>14. /\ event = [k \in 1..v.size |-> s[k]] /\ event[1] = v /\ DOMAIN event = 1..v.size
       /\ \A k \in 1..v.size : event[k] = [v EXCEPT !.i = k]
  <2>1. \A k \in 1..v.size : k \in 1..Len(s)
    BY <1>9, <1>10
  <2>2. event = [k \in 1..v.size |-> s[k]]
    BY <1>11, <1>12, <2>1
  <2>3. 1 \in 1..v.size
    BY <1>10, <1>13
  <2> HIDE DEF event
  <2>4. event[1] = v
    BY <2>2, <2>3 DEF v
  <2> QED BY <1>10, <2>2, <2>4
<1>15. got' = Append(got, Converted(event)) /\ rd' = [rd EXCEPT !.head = @ + v.size]
  BY <1>1, <1>12, <1>13
<1> HIDE DEF event
<1>16. GotInv' /\ Read' = Tally(Read, v.ring)
  <2>1. perfCounters' = perfCounters
    BY <1>3
  <2>2. /\ DOMAIN event = 1..event[1].size /\ Begins(Wanted, Read, event[1])
        /\ \A k \in 1..event[1].size : event[k] = [event[1] EXCEPT !.i = k]
    BY <1>10, <1>14
  <2>3. GotInv' /\ Read' = Tally(Read, event[1].ring)
    BY <1>2, <1>4, <1>15, <2>1, <2>2, GotMore
  <2> QED BY <1>14, <2>3
<1>17. /\ rd'.pc = "file" /\ rd'.ids = h_attrs /\ rd'.event = <<>> /\ DOMAIN rd' = ReaderFields
       /\ rd'.offset = rd.offset /\ rd'.head = rd.head + v.size /\ rd'.end = Len(out)
  BY <1>1, <1>2, <1>15 DEF ReaderFields
<1>18. /\ rd'.offset \in Int /\ rd'.head \in Int /\ rd'.offset + rd'.head = p + v.size
       /\ p + v.size \in 0..Len(out)
  <2> DEFINE z == v.size
             x == rd.offset
             y == rd.head
  <2>1. z \in Nat /\ z <= Len(out) - p
    BY <1>8, <1>10
  <2>2. x \in Int /\ y \in Int /\ p = x + y /\ rd'.offset = x /\ rd'.head = y + z
    BY <1>2, <1>17 DEF p
  <2> HIDE DEF x, y, z
  <2>3. /\ rd'.offset \in Int /\ rd'.head \in Int /\ rd'.offset + rd'.head = p + z
        /\ p + z \in 0..Len(out)
    BY <1>5, <1>6, <2>1, <2>2
  <2> QED BY <2>3 DEF z
<1>19. SubSeq(s, v.size + 1, Len(s)) = SubSeq(out, p + v.size + 1, Len(out))
  <2>1. v.size \in 0..Len(out) - p
    BY <1>8, <1>10
  <2> DEFINE z == v.size
  <2>2. z \in 0..Len(out) - p
    BY <2>1
  <2> HIDE DEF z
  <2>3. LET t == SubSeq(out, p + 1, Len(out)) IN
        /\ Len(t) = Len(out) - p
        /\ SubSeq(t, z + 1, Len(t)) = SubSeq(out, p + z + 1, Len(out))
    BY <1>5, <1>6, <2>2, RestOfRest
  <2> QED BY <2>3 DEF s, z
<1>20. AtPlace(c, u)'
  <2>1. Leads(Wanted, SubSeq(out, p + v.size + 1, Len(out)), <<Tally(Read, v.ring), NoUnit>>, <<c, u>>)
    BY <1>4, <1>10, <1>19
  <2>2. Leads(Wanted, SubSeq(out, rd'.offset + rd'.head + 1, Len(out)), <<Read', NoUnit>>, <<c, u>>)
    BY <1>16, <1>18, <2>1
  <2>3. rd'.offset + rd'.head \in 0..Len(out)
    BY <1>18
  <2> QED BY <1>1, <1>2, <1>3, <1>17, <1>18, <2>2, <2>3 DEF AtPlace
<1>21. EventInv' /\ ReaderInv(c, u)'
  BY <1>17, <1>20 DEF EventInv, ReaderInv
<1> QED BY <1>4, <1>16, <1>21

-----------------------------------------------------------------------------
(* The reader of a pipe reads the records                                  *)

\* Some of what is in the pipe is read.
LEMMA FlowRead ==
  ASSUME Written, NEW n \in 0..Len(out), out' = SubSeq(out, n + 1, Len(out)), pending' = pending
  PROVE  /\ IsRow(Flow) /\ Len(Flow) = Len(out) + Len(pending) /\ n \in 0..Len(Flow)
         /\ \A k \in 1..n : Flow[k] = out[k]
         /\ Flow' = SubSeq(Flow, n + 1, Len(Flow)) /\ IsRow(out')
<1>1. IsRow(Flow) /\ IsRow(out) /\ IsRow(pending) /\ Len(out) \in Nat /\ Len(pending) \in Nat
  BY FlowIs, RowIs
<1>2. /\ IsRow(out \o pending) /\ Len(out \o pending) = Len(out) + Len(pending)
      /\ \A k \in 1..Len(out) : (out \o pending)[k] = out[k]
      /\ \A k \in 1..Len(pending) : (out \o pending)[Len(out) + k] = pending[k]
      /\ \A k \in 1..Len(out) + Len(pending) :
           (out \o pending)[k] = IF k <= Len(out) THEN out[k] ELSE pending[k - Len(out)]
  BY <1>1, JoinIs
<1>3. SubSeq(out \o pending, n + 1, Len(out) + Len(pending)) = SubSeq(out, n + 1, Len(out)) \o pending
  BY <1>1, PartOfJoin
<1>4. \A k \in 1..n : k \in 1..Len(out)
  BY <1>1
<1>5. n \in 0..Len(out) + Len(pending)
  BY <1>1
<1>6. IsRow(out')
  <2>1. /\ IsRow(SubSeq(out, n + 1, Len(out))) /\ Len(SubSeq(out, n + 1, Len(out))) = Len(out) - n
        /\ \A k \in 1..Len(out) - n : SubSeq(out, n + 1, Len(out))[k] = out[n + k]
    BY <1>1, RestIs
  <2> QED BY <2>1
<1> QED BY <1>1, <1>2, <1>3, <1>4, <1>5, <1>6 DEF Flow

LEMMA RecordHeaderStep ==
  ASSUME CountersInv, EventInv, GotInv, NEW c, NEW u, WriterInv(c, u), ReaderInv(c, u),
         ReadRecordHeader
  PROVE  EventInv' /\ GotInv' /\ WriterInv(c, u)' /\ ReaderInv(c, u)'
<1> DEFINE v == Head(out)
<1>1. /\ rd.pc = "pipe" /\ out # <<>> /\ out' = Tail(out) /\ UNCHANGED recorder /\ got' = got
      /\ rd' = [rd EXCEPT !.event = <<v>>,
                          !.pc = IF v.k = "rec" /\ v.i = 1 THEN "body" ELSE "bad"]
      /\ DOMAIN rd = ReaderFields /\ rd.event = <<>>
  BY DEF ReadRecordHeader, EventInv
<1>2. /\ ~write_to_file /\ pc \in Writing /\ rd.ids = h_attrs
      /\ Leads(Wanted, Flow, <<Read, NoUnit>>, <<c, u>>) /\ Written
  BY <1>1 DEF ReaderInv, AtRecords, LastUnit, WriterInv
<1>3. /\ UNCHANGED <<Setup, perfCounters, pc>> /\ pending' = pending /\ h_attrs' = h_attrs
      /\ Wanted' = Wanted /\ write_to_file' = write_to_file
  BY <1>1, RecorderSame DEF Setup
<1>4. /\ IsRow(Tail(out)) /\ Len(out) \in Nat \ {0} /\ Len(Tail(out)) = Len(out) - 1
      /\ Head(out) = out[1] /\ \A k \in 1..Len(out) - 1 : Tail(out)[k] = out[k + 1]
      /\ Tail(out) = SubSeq(out, 2, Len(out))
  BY <1>1, <1>2, FlowIs, TailIs
<1>5. /\ IsRow(Flow) /\ Len(Flow) = Len(out) + Len(pending) /\ 1 \in 0..Len(Flow)
      /\ \A k \in 1..1 : Flow[k] = out[k]
      /\ Flow' = SubSeq(Flow, 1 + 1, Len(Flow)) /\ IsRow(out')
  <2>1. 1 \in 0..Len(out) /\ out' = SubSeq(out, 1 + 1, Len(out))
    BY <1>1, <1>4
  <2> QED BY <1>2, <1>3, <2>1, FlowRead
<1>6. Flow # <<>> /\ Flow[1] = v /\ Flow' = Tail(Flow)
  <2>1. Flow # <<>>
    BY <1>4, <1>5, EmptyIsRow, FlowIs, <1>2, RowIs
  <2>2. /\ IsRow(Tail(Flow)) /\ Len(Flow) \in Nat \ {0} /\ Len(Tail(Flow)) = Len(Flow) - 1
        /\ Head(Flow) = Flow[1] /\ \A k \in 1..Len(Flow) - 1 : Tail(Flow)[k] = Flow[k + 1]
        /\ Tail(Flow) = SubSeq(Flow, 2, Len(Flow))
    BY <1>5, <2>1, TailIs
  <2>3. Flow[1] = v
    BY <1>4, <1>5
  <2> QED BY <1>5, <2>1, <2>2, <2>3
<1> HIDE DEF v
<1>7. /\ <<Read, NoUnit>> \in States /\ May(Wanted, <<Read, NoUnit>>, Flow[1])
      /\ After(<<Read, NoUnit>>, Flow[1]) \in States /\ Flow[1] \in Units
      /\ Leads(Wanted, Tail(Flow), After(<<Read, NoUnit>>, Flow[1]), <<c, u>>)
  BY <1>2, <1>5, <1>6, LeadsFirst
<1>8. Begins(Wanted, Read, v) /\ v \in Units /\ v.i = 1 /\ 2 <= v.size /\ v.size \in Nat /\ v.k = "rec"
  <2>1. Begins(Wanted, Read, v)
    BY <1>6, <1>7 DEF May
  <2> QED BY <2>1 DEF Begins, Units
<1>9. After(<<Read, NoUnit>>, v) = <<Read, v>>
  BY <1>8 DEF After
<1>10. Leads(Wanted, Flow', <<Read, v>>, <<c, u>>)
  BY <1>6, <1>7, <1>9
<1>11. /\ rd'.pc = "body" /\ rd'.event = <<v>> /\ rd'.ids = h_attrs /\ DOMAIN rd' = ReaderFields
  BY <1>1, <1>2, <1>8 DEF ReaderFields
<1>12. GotInv' /\ Read' = Read
  BY <1>1, <1>3 DEF GotInv, Intact, Read
<1>13. WriterInv(c, u)'
  BY <1>1, <1>2, <1>5, ReaderWriter
<1>14. LastUnit' = v
  BY <1>11 DEF LastUnit
<1>15. AtRecords(c, u)'
  BY <1>2, <1>3, <1>10, <1>11, <1>12, <1>14 DEF AtRecords
<1>16. ReaderInv(c, u)'
  BY <1>11, <1>15 DEF ReaderInv
<1>17. EventInv'
  <2>1. rd'.event[1] = v /\ Len(rd'.event) = 1 /\ DOMAIN rd'.event = {1}
    BY <1>11
  <2>2. rd'.event \in Seq(Units)
    BY <1>8, <1>11
  <2>3. Begins(Wanted', Read', rd'.event[1])
    BY <1>3, <1>8, <1>12, <2>1
  <2>4. v = [v EXCEPT !.i = 1]
    BY <1>8 DEF Units
  <2>5. Len(rd'.event) \in 1..rd'.event[1].size - 1
    BY <1>8, <2>1
  <2>6. \A k \in DOMAIN rd'.event : rd'.event[k] = [rd'.event[1] EXCEPT !.i = k]
    BY <2>1, <2>4
  <2> QED BY <1>11, <2>2, <2>3, <2>5, <2>6 DEF EventInv
<1> QED BY <1>12, <1>13, <1>16, <1>17

\* The n first units of the record of v
FirstUnits(s, v, n) == \A k \in 1..n : s[k] = [v EXCEPT !.i = k]
UnitAt(v, k) == [v EXCEPT !.i = k]
Grown(event, s, n) == event \o SubSeq(s, 1, n)

\* More of a record is read, to its end or not.
LEMMA BodyGrows ==
  ASSUME NEW v, v \in Units, NEW event \in Seq(Units), NEW n \in Nat, n # 0,
         Len(event) >= 1, Len(event) + n <= v.size,
         NEW s, IsRow(s), n \in 0..Len(s), Others(s, UnitAt(v, Len(event)), n),
         FirstUnits(event, v, Len(event))
  PROVE  /\ Grown(event, s, n) \in Seq(Units) /\ Len(Grown(event, s, n)) = Len(event) + n
         /\ DOMAIN Grown(event, s, n) = 1..Len(event) + n
         /\ FirstUnits(Grown(event, s, n), v, Len(event) + n) /\ Grown(event, s, n)[1] = event[1]
<1> DEFINE a == SubSeq(s, 1, n)
           l == Len(event)
           w == [v EXCEPT !.i = l]
           more == Grown(event, s, n)
<1>1. IsRow(a) /\ Len(a) = n /\ \A k \in 1..n : a[k] = s[k]
  BY FirstIs
<1>2. /\ l \in Nat /\ DOMAIN event = 1..l /\ IsRow(event)
      /\ \A k \in 1..l : event[k] = [v EXCEPT !.i = k]
  BY SeqIsRow, RowIs DEF FirstUnits
<1> HIDE DEF a
<1>3. /\ IsRow(event \o a) /\ Len(event \o a) = Len(event) + Len(a)
      /\ \A k \in 1..Len(event) : (event \o a)[k] = event[k]
      /\ \A k \in 1..Len(a) : (event \o a)[Len(event) + k] = a[k]
      /\ \A k \in 1..Len(event) + Len(a) :
           (event \o a)[k] = IF k <= Len(event) THEN event[k] ELSE a[k - Len(event)]
  <2>1. IsRow(event) /\ IsRow(a)
    BY <1>1, <1>2
  <2> QED BY <2>1, JoinIs
<1>4. w.i = l /\ \A k \in 1..n : s[k] = [w EXCEPT !.i = l + k]
  <2>1. w.i = l
    BY DEF Units
  <2> HIDE DEF w, l
  <2>2. Others(s, w, n)
    BY DEF w, l, UnitAt
  <2> QED BY <2>1, <2>2 DEF Others
<1>5. \A k \in 1..n : s[k] = [v EXCEPT !.i = l + k]
  BY <1>4 DEF Units
<1>6. more = event \o a
  BY DEF a, Grown
<1> HIDE DEF l, w, more
<1>7. Len(more) = l + n
  BY <1>1, <1>3, <1>6 DEF l
<1>8. ASSUME NEW k \in 1..l + n PROVE more[k] = [v EXCEPT !.i = k]
  <2>1. CASE k <= l
    <3>1. k \in 1..l
      BY <1>2, <2>1
    <3> QED BY <1>2, <1>3, <1>6, <3>1 DEF l
  <2>2. CASE ~(k <= l)
    <3>1. k - l \in 1..n /\ l + (k - l) = k
      BY <1>2, <2>2
    <3>2. more[k] = a[k - l]
      BY <1>1, <1>3, <1>6, <3>1 DEF l
    <3> QED BY <1>1, <1>5, <3>1, <3>2
  <2> QED BY <2>1, <2>2
<1>9. DOMAIN more = 1..l + n
  BY <1>3, <1>6, <1>7, RowIs
<1>10. \A k \in 1..l + n : more[k] \in Units
  <2>1. \A k \in 1..l + n : k \in Nat
    BY <1>2
  <2> SUFFICES ASSUME NEW k \in 1..l + n PROVE more[k] \in Units
    OBVIOUS
  <2>2. [v EXCEPT !.i = k] \in Units
    BY <2>1 DEF Units
  <2>3. more[k] = [v EXCEPT !.i = k]
    BY <1>8
  <2> QED BY <2>2, <2>3
<1>11. more \in Seq(Units)
  <2>1. IsRow(more) /\ \A k \in 1..Len(more) : more[k] \in Units
    BY <1>3, <1>6, <1>7, <1>10
  <2> QED BY <2>1, RowInSeq
<1>12. more[1] = event[1]
  BY <1>2, <1>3, <1>6 DEF l
<1> QED BY <1>7, <1>8, <1>9, <1>11, <1>12 DEF l, more, FirstUnits

LEMMA BodyStep ==
  ASSUME CountersInv, EventInv, GotInv, NEW c, NEW u, WriterInv(c, u), ReaderInv(c, u), ReadBody
  PROVE  EventInv' /\ GotInv' /\ WriterInv(c, u)' /\ ReaderInv(c, u)'
<1> DEFINE n == Min({Len(out), rd.event[1].size - Len(rd.event)})
           more == rd.event \o SubSeq(out, 1, n)
           v == rd.event[1]
           l == Len(rd.event)
           w == [v EXCEPT !.i = l]
<1>1. /\ rd.pc = "body" /\ out # <<>> /\ out' = SubSeq(out, n + 1, Len(out)) /\ UNCHANGED recorder
      /\ IF Len(more) < more[1].size
         THEN rd' = [rd EXCEPT !.event = more] /\ got' = got
         ELSE rd' = [rd EXCEPT !.event = <<>>, !.pc = "pipe"] /\ got' = Append(got, Converted(more))
      /\ DOMAIN rd = ReaderFields
  BY DEF ReadBody, EventInv
<1>2. /\ rd.event \in Seq(Units) /\ l \in 1..v.size - 1 /\ Begins(Wanted, Read, v)
      /\ \A k \in DOMAIN rd.event : rd.event[k] = [v EXCEPT !.i = k]
  BY <1>1 DEF EventInv
<1>3. v \in Units /\ v.size \in Nat /\ v.i = 1 /\ v.ring \in Nat
  BY <1>2 DEF Begins, Units
<1>4. l \in Nat /\ 1 <= l /\ l < v.size /\ IsRow(rd.event) /\ DOMAIN rd.event = 1..l /\ rd.event # <<>>
  <2>1. IsRow(rd.event)
    BY <1>2, SeqIsRow
  <2> QED BY <1>2, <1>3, <2>1, RowIs, EmptyIsRow
<1>5. /\ ~write_to_file /\ pc \in Writing /\ rd.ids = h_attrs
      /\ Leads(Wanted, Flow, <<Read, LastUnit>>, <<c, u>>) /\ Written /\ Len(perfCounters) = Wanted
  BY <1>1 DEF ReaderInv, AtRecords, WriterInv, CountersInv
<1>6. LastUnit = w
  <2>1. l \in DOMAIN rd.event
    BY <1>4
  <2>2. rd.event[l] = w
    BY <1>2, <2>1
  <2> HIDE DEF w
  <2> QED BY <1>4, <2>2 DEF LastUnit
<1>7. IsRow(out) /\ Len(out) \in Nat \ {0}
  <2>1. IsRow(out)
    BY <1>5, FlowIs
  <2> QED BY <1>1, <2>1, RowIs
<1>8. n \in Nat \ {0} /\ n <= Len(out) /\ n <= v.size - l
  <2> DEFINE a == Len(out)
             b == v.size - l
  <2>1. a \in Int /\ b \in Int /\ 1 <= a /\ 1 <= b
    BY <1>3, <1>4, <1>7
  <2>2. n = Min({a, b})
    OBVIOUS
  <2> HIDE DEF a, b, n
  <2>3. Min({a, b}) \in {a, b} /\ \A y \in {a, b} : Min({a, b}) =< y
    <3>1. \E x \in {a, b} : \A y \in {a, b} : x =< y
      BY <2>1
    <3> QED BY <3>1 DEF Min
  <2>4. n \in Nat \ {0} /\ n <= a /\ n <= b
    BY <2>1, <2>2, <2>3
  <2> QED BY <2>4 DEF a, b
<1> HIDE DEF n
<1>9. /\ UNCHANGED <<Setup, perfCounters, pc>> /\ pending' = pending /\ h_attrs' = h_attrs
      /\ Wanted' = Wanted /\ write_to_file' = write_to_file
  BY <1>1, RecorderSame DEF Setup
<1>10. /\ IsRow(Flow) /\ Len(Flow) = Len(out) + Len(pending) /\ n \in 0..Len(Flow)
       /\ \A k \in 1..n : Flow[k] = out[k]
       /\ Flow' = SubSeq(Flow, n + 1, Len(Flow)) /\ IsRow(out')
  <2>1. n \in 0..Len(out)
    BY <1>7, <1>8
  <2> QED BY <1>1, <1>5, <1>9, <2>1, FlowRead
<1>11. w \in Units /\ w.i = l /\ w.size = v.size /\ w.ring = v.ring /\ w # NoUnit
  <2>1. w \in Units /\ w.i = l /\ w.size = v.size /\ w.ring = v.ring
    BY <1>3, <1>4 DEF Units
  <2>2. NoUnit.i = 0
    BY NoUnitIs
  <2> HIDE DEF w
  <2>3. w # NoUnit
    BY <1>4, <2>1, <2>2
  <2> QED BY <2>1, <2>3
<1>12. /\ w \in Units /\ w.i < w.size /\ Others(Flow, w, n)
       /\ Leads(Wanted, SubSeq(Flow, n + 1, Len(Flow)), On(Read, w, n), <<c, u>>)
       /\ n = Len(Flow) => On(Read, w, n) = <<c, u>>
  <2> HIDE DEF w
  <2> DEFINE f == Flow
             d == Read
             z == <<c, u>>
  <2>1. /\ IsRow(f) /\ w # NoUnit /\ Leads(Wanted, f, <<d, w>>, z) /\ n \in 0..Len(f)
        /\ n <= w.size - w.i
    BY <1>5, <1>6, <1>8, <1>10, <1>11
  <2> HIDE DEF f, d, z
  <2>2. /\ w \in Units /\ w.i < w.size /\ Others(f, w, n)
        /\ Leads(Wanted, SubSeq(f, n + 1, Len(f)), On(d, w, n), z)
        /\ n = Len(f) => On(d, w, n) = z
    BY <2>1, LeadsOn
  <2> QED BY <2>2 DEF f, d, z
<1>13. Leads(Wanted, Flow', On(Read, w, n), <<c, u>>)
  BY <1>10, <1>12
<1>14. /\ more \in Seq(Units) /\ Len(more) = l + n /\ DOMAIN more = 1..l + n
       /\ \A k \in 1..l + n : more[k] = [v EXCEPT !.i = k]
       /\ more[1] = v
  <2>1. Others(out, w, n)
    <3> HIDE DEF w
    <3> QED BY <1>10, <1>12 DEF Others
  <2>2. n \in Nat /\ n # 0 /\ n \in 0..Len(out) /\ l + n <= v.size
    BY <1>3, <1>4, <1>7, <1>8
  <2>3. FirstUnits(rd.event, v, l)
    BY <1>2, <1>4 DEF FirstUnits
  <2>4. Others(out, UnitAt(v, l), n)
    BY <2>1 DEF UnitAt
  <2> DEFINE event == rd.event
  <2>5. /\ v \in Units /\ event \in Seq(Units) /\ Len(event) >= 1 /\ Len(event) + n <= v.size
        /\ n \in Nat /\ n # 0 /\ IsRow(out) /\ n \in 0..Len(out)
        /\ Others(out, UnitAt(v, Len(event)), n) /\ FirstUnits(event, v, Len(event))
        /\ more = Grown(event, out, n)
    BY <1>2, <1>3, <1>4, <1>7, <2>2, <2>3, <2>4 DEF Grown
  <2> HIDE DEF event, more, v, l, w
  <2>6. /\ Grown(event, out, n) \in Seq(Units) /\ Len(Grown(event, out, n)) = Len(event) + n
        /\ DOMAIN Grown(event, out, n) = 1..Len(event) + n
        /\ FirstUnits(Grown(event, out, n), v, Len(event) + n)
        /\ Grown(event, out, n)[1] = event[1]
    BY <2>5, BodyGrows
  <2> QED BY <2>5, <2>6 DEF event, l, v, FirstUnits
<1>15. WriterInv(c, u)'
  BY <1>1, <1>5, <1>10, ReaderWriter
<1> HIDE DEF more
<1>16. CASE l + n < v.size
  <2>1. rd' = [rd EXCEPT !.event = more] /\ got' = got
    BY <1>1, <1>14, <1>16
  <2>2. /\ rd'.pc = "body" /\ rd'.event = more /\ rd'.ids = h_attrs /\ DOMAIN rd' = ReaderFields
    BY <1>1, <1>5, <2>1 DEF ReaderFields
  <2>3. GotInv' /\ Read' = Read
    BY <1>9, <2>1 DEF GotInv, Intact, Read
  <2>4. LastUnit' = [v EXCEPT !.i = l + n]
    <3>1. Len(more) = l + n /\ l + n \in 1..l + n /\ more # <<>>
      BY <1>4, <1>8, <1>14, EmptyIsRow
    <3> QED BY <1>14, <2>2, <3>1 DEF LastUnit
  <2>5. On(Read, w, n) = <<Read, [v EXCEPT !.i = l + n]>>
    <3>1. n # w.size - w.i
      BY <1>3, <1>4, <1>8, <1>11, <1>16
    <3>2. [w EXCEPT !.i = w.i + n] = [v EXCEPT !.i = l + n]
      BY <1>3, <1>11 DEF Units
    <3> HIDE DEF w
    <3> QED BY <3>1, <3>2 DEF On
  <2>6. AtRecords(c, u)'
    BY <1>5, <1>9, <1>13, <2>2, <2>3, <2>4, <2>5 DEF AtRecords
  <2>7. ReaderInv(c, u)'
    BY <2>2, <2>6 DEF ReaderInv
  <2>8. EventInv'
    <3>1. Begins(Wanted', Read', rd'.event[1])
      BY <1>2, <1>9, <1>14, <2>2, <2>3
    <3>2. Len(rd'.event) \in 1..rd'.event[1].size - 1
      BY <1>3, <1>4, <1>8, <1>14, <1>16, <2>2
    <3>3. \A k \in DOMAIN rd'.event : rd'.event[k] = [rd'.event[1] EXCEPT !.i = k]
      BY <1>14, <2>2
    <3> QED BY <1>14, <2>2, <3>1, <3>2, <3>3 DEF EventInv
  <2> QED BY <1>15, <2>3, <2>7, <2>8
<1>17. CASE ~(l + n < v.size)
  <2>1. rd' = [rd EXCEPT !.event = <<>>, !.pc = "pipe"] /\ got' = Append(got, Converted(more))
    BY <1>1, <1>14, <1>17
  <2>2. /\ rd'.pc = "pipe" /\ rd'.event = <<>> /\ rd'.ids = h_attrs /\ DOMAIN rd' = ReaderFields
    BY <1>1, <1>5, <2>1 DEF ReaderFields
  <2>3. l + n = v.size /\ n = w.size - w.i
    <3> DEFINE z == v.size
    <3>1. z \in Nat /\ l \in Nat /\ n \in Nat /\ n <= z - l /\ ~(l + n < z)
      BY <1>3, <1>4, <1>8, <1>17
    <3>2. w.size = z /\ w.i = l
      BY <1>11
    <3> HIDE DEF z, l, w
    <3>3. l + n = z /\ n = z - l
      BY <3>1
    <3> QED BY <3>2, <3>3 DEF z
  <2>4. GotInv' /\ Read' = Tally(Read, v.ring)
    <3>1. /\ DOMAIN more = 1..more[1].size /\ Begins(Wanted, Read, more[1])
          /\ \A k \in 1..more[1].size : more[k] = [more[1] EXCEPT !.i = k]
      BY <1>2, <1>14, <2>3
    <3>2. perfCounters' = perfCounters
      BY <1>9
    <3>3. GotInv' /\ Read' = Tally(Read, more[1].ring)
      BY <1>5, <2>1, <3>1, <3>2, GotMore
    <3> QED BY <1>14, <3>3
  <2>5. LastUnit' = NoUnit
    BY <2>2 DEF LastUnit
  <2>6. On(Read, w, n) = <<Tally(Read, v.ring), NoUnit>>
    <3> HIDE DEF w
    <3> QED BY <1>11, <2>3 DEF On
  <2>7. AtRecords(c, u)'
    BY <1>5, <1>9, <1>13, <2>2, <2>4, <2>5, <2>6 DEF AtRecords
  <2>8. EventInv' /\ ReaderInv(c, u)'
    BY <2>2, <2>7 DEF EventInv, ReaderInv
  <2> QED BY <1>15, <2>4, <2>8
<1> QED BY <1>16, <1>17

-----------------------------------------------------------------------------
(* The invariant                                                           *)

LEMMA StreamInit == ASSUME Init PROVE StreamInv
<1>1. /\ write_to_file \in BOOLEAN /\ use_cpu_minus_one \in BOOLEAN /\ IsFiniteSet(alive)
      /\ procs = <<>> /\ perfCounters = <<>> /\ samples_array = <<>> /\ stored = <<>>
      /\ h_attrs = [e \in evts |-> <<>>] /\ pc = "procs" /\ pending = <<>> /\ out = <<>>
      /\ total_bytes_recorded = 0 /\ i = 1 /\ head = 0 /\ old = 0 /\ rd = reader /\ got = <<>>
  BY StreamAssumption DEF Init
<1>2. IsRow(<<>>) /\ Len(<<>>) = 0
  BY EmptyIsRow
<1>3. Wanted \in Nat \ {0} /\ NumEvents \in Nat \ {0} /\ HeaderLen \in Nat
  BY <1>1, <1>2, WantedIs, ConstantsAre
<1>4. 0 \div NumEvents = 0 /\ 0 % NumEvents = 0
  <2>1. 0 = NumEvents * 0 + 0 /\ 0 \in 0..NumEvents - 1
    BY <1>3
  <2> QED BY <1>3, <2>1, DivUnique
<1>5. CountersInv
  <2>1. \A e \in evts : /\ h_attrs[e] = <<>>
                        /\ ~(e <= 0)
    BY <1>1, <1>3 DEF evts
  <2>2. h_attrs \in [evts -> Seq(Nat)]
    BY <1>1
  <2>3. \A e \in evts :
       /\ h_attrs[e] \in Seq(Nat)
       /\ Len(h_attrs[e]) = Len(perfCounters) \div NumEvents
                            + (IF e <= Len(perfCounters) % NumEvents THEN 1 ELSE 0)
       /\ \A j \in DOMAIN h_attrs[e] : h_attrs[e][j] = (j - 1) * NumEvents + e
    BY <1>1, <1>4, <2>1
  <2>4. DOMAIN perfCounters = {} /\ Len(perfCounters) = 0
    BY <1>1
  <2> QED BY <1>1, <1>2, <1>3, <2>2, <2>3, <2>4 DEF CountersInv, Before, Writing
<1>6. RingsInv
  <2>1. NumRings(0) = 0
    BY <1>4 DEF NumRings
  <2>2. samples_array \in Seq(RingBuffers) /\ stored \in Seq(Nat) /\ Len(stored) = 0
        /\ Len(samples_array) = 0 /\ Len(perfCounters) = 0 /\ DOMAIN perfCounters = {}
        /\ DOMAIN samples_array = {}
    BY <1>1
  <2> QED BY <1>1, <2>1, <2>2 DEF RingsInv
<1>7. CopyInv
  BY <1>1 DEF CopyInv, Rings, Before
<1>8. EventInv
  BY <1>1 DEF EventInv, reader, ReaderFields
<1>9. GotInv
  BY <1>1, <1>2 DEF GotInv
<1>10. WriterInv(Zero, NoUnit)
  <2>1. Zero \in Counts
    BY DEF Zero, Counts
  <2>2. RingsHold(Zero, NoUnit)
    BY <1>1 DEF RingsHold, Zero
  <2>3. Written
    BY <1>1, <1>2 DEF Written
  <2> QED BY <1>1, <2>1, <2>2, <2>3, NoUnitIs DEF WriterInv
<1>11. ReaderInv(Zero, NoUnit)
  BY <1>1 DEF ReaderInv, AtHeader, reader, Writing
<1> QED BY <1>5, <1>6, <1>7, <1>8, <1>9, <1>10, <1>11 DEF StreamInv

\* The recorder and the kernel leave what the reader has as it is.
LEMMA ReaderWaits ==
  ASSUME CountersInv, CountersInv', CopyInv, EventInv, GotInv, NEW c, NEW u, ReaderInv(c, u),
         Recorder \/ Kernel
  PROVE  EventInv' /\ GotInv'
<1>1. rd' = rd /\ got' = got
  <2>1. CASE Kernel
    BY ZenonT(60), <2>1 DEF Kernel, Exit, Store
  <2>2. CASE Recorder
    BY ZenonT(60), <2>2 DEF Recorder, _get_one_process_info, op_get_process_info, perf_event_open,
                prepareToRecord, PrepareFails, write_op_header_info, op_write_output, RecordInfo,
                ReadHead, CopyOut, UpdateTail, NextRound, Close
  <2> QED BY SMTT(40), <2>1, <2>2
<1>2. CASE pc \in {"procs", "open", "invalid"}
  <2>1. rd.pc = "header" /\ got = <<>>
    <3>1. rd.pc = "header"
      BY <1>2 DEF EventInv, ReaderInv, AtAttrs, AtRecords, AtOpen, AtPlace, Writing
    <3> QED BY <3>1 DEF ReaderInv, AtHeader
  <2>2. GotInv'
    BY <1>1, <2>1, GotSame
  <2>3. EventInv'
    BY <1>1, <2>1 DEF EventInv
  <2> QED BY <2>2, <2>3
<1>3. CASE pc \notin {"procs", "open", "invalid"}
  <2>1. UNCHANGED Setup /\ DOMAIN perfCounters' = DOMAIN perfCounters
    <3>1. CASE Kernel
      BY ZenonT(60), <1>3, <3>1 DEF Kernel, Exit, Store, Setup, setupVars
    <3>2. CASE NextRound
      BY <3>2 DEF NextRound, Setup, setupVars
    <3>3. CASE Recorder /\ ~NextRound
      BY ZenonT(60), <1>3, <3>3
         DEF Recorder, _get_one_process_info, op_get_process_info, perf_event_open,
             prepareToRecord, PrepareFails, write_op_header_info, op_write_output, RecordInfo,
             ReadHead, CopyOut, UpdateTail, Close, Setup, setupVars, ringVars
    <3> QED BY SMTT(40), <3>1, <3>2, <3>3
  <2>2. GotInv' /\ Read' = Read
    BY <1>1, <2>1, GotSame
  <2>3. Wanted' = Wanted
    BY <2>1, WantedSame
  <2>4. EventInv'
    BY <1>1, <2>2, <2>3 DEF EventInv
  <2> QED BY <2>2, <2>4
<1> QED BY <1>2, <1>3

LEMMA ReaderSteps ==
  ASSUME CountersInv, CopyInv, EventInv, GotInv, NEW c, NEW u, WriterInv(c, u), ReaderInv(c, u),
         Reader
  PROVE  EventInv' /\ GotInv' /\ WriterInv(c, u)' /\ ReaderInv(c, u)'
<1> DEFINE Goal == EventInv' /\ GotInv' /\ WriterInv(c, u)' /\ ReaderInv(c, u)'
<1>1. CASE ReadHeaderFromPipe
  BY <1>1, ReadHeaderStep
<1>2. CASE ReadAttr
  BY <1>2, ReadAttrStep
<1>3. CASE ReadId
  BY <1>3, ReadIdStep
<1>4. CASE HeaderRead
  BY <1>4, HeaderReadStep
<1>5. CASE PipeClosed
  BY <1>5, PipeClosedStep
<1>6. CASE _read_header_info_with_ifstream
  BY <1>6, OpenFileStep
<1>7. CASE op_mmap_trace_file \/ Remap
  BY <1>7, MapStep
<1>8. CASE ReadRecordHeader
  BY <1>8, RecordHeaderStep
<1>9. CASE ReadBody
  BY <1>9, BodyStep
<1>10. CASE EndOfFile
  BY <1>10, EndOfFileStep
<1>11. CASE _get_perf_event_from_file
  BY <1>11, NextRecordStep
<1> QED BY <1>1, <1>2, <1>3, <1>4, <1>5, <1>6, <1>7, <1>8, <1>9, <1>10, <1>11 DEF Reader

LEMMA StreamUnchanged == ASSUME StreamInv, UNCHANGED vars PROVE StreamInv'
<1>1. CountersInv' /\ RingsInv' /\ CopyInv'
  BY CountersStep, RingsStep, CopyStep DEF StreamInv
<1>2. PICK c, u : WriterInv(c, u) /\ ReaderInv(c, u)
  BY DEF StreamInv
<1>3. /\ UNCHANGED recorder /\ out' = out /\ got' = got /\ rd' = rd
  BY DEF vars, recorder
<1>4. WriterInv(c, u)'
  BY <1>2, <1>3, ReaderWriter DEF StreamInv
<1>5. /\ UNCHANGED <<Setup, perfCounters, pc, pending>> /\ h_attrs' = h_attrs
      /\ Wanted' = Wanted /\ write_to_file' = write_to_file /\ HeaderLen' = HeaderLen
      /\ IdsPerEvent' = IdsPerEvent /\ \A k : Leftover(k)' = Leftover(k)
  BY <1>3, RecorderSame DEF Setup
<1>6. GotInv' /\ Read' = Read
  BY <1>3, <1>5 DEF StreamInv, GotInv, Intact, Read
<1>7. EventInv'
  BY <1>3, <1>5, <1>6 DEF StreamInv, EventInv
<1>8. ReaderInv(c, u)'
  <2>1. LastUnit' = LastUnit /\ Flow' = Flow
    BY <1>3, <1>5 DEF LastUnit, Flow
  <2>2. \A k : Follows(k, c, u) <=> Follows(k, c, u)'
    BY <1>5, <2>1 DEF Follows
  <2>3. AtHeader(c, u) => AtHeader(c, u)'
    BY <1>3, <1>5, <2>2 DEF AtHeader, reader, evts
  <2>4. AtAttrs(c, u) => AtAttrs(c, u)'
    BY <1>3, <1>5, <2>2 DEF AtAttrs, AttrsRead, AtIds, IdsRead, reader, evts
  <2>5. AtRecords(c, u) => AtRecords(c, u)'
    BY <1>3, <1>5, <1>6, <2>1 DEF AtRecords
  <2>6. AtOpen(c, u) => AtOpen(c, u)'
    BY <1>3, <1>5, <2>2 DEF AtOpen
  <2>7. AtPlace(c, u) => AtPlace(c, u)'
    BY <1>3, <1>5, <1>6 DEF AtPlace
  <2> QED BY <1>2, <1>3, <1>5, <1>6, <2>3, <2>4, <2>5, <2>6, <2>7 DEF ReaderInv
<1> QED BY <1>1, <1>4, <1>6, <1>7, <1>8 DEF StreamInv

LEMMA StreamNext == ASSUME StreamInv, [Next]_vars PROVE StreamInv'
<1>1. CountersInv' /\ RingsInv' /\ CopyInv'
  BY CountersStep, RingsStep, CopyStep DEF StreamInv
<1>2. PICK c, u : WriterInv(c, u) /\ ReaderInv(c, u)
  BY DEF StreamInv
<1>3. CountersInv /\ RingsInv /\ CopyInv /\ EventInv /\ GotInv
  BY DEF StreamInv
<1>4. CASE Reader
  <2>1. EventInv' /\ GotInv' /\ WriterInv(c, u)' /\ ReaderInv(c, u)'
    BY <1>2, <1>3, <1>4, ReaderSteps
  <2> QED BY <1>1, <2>1 DEF StreamInv
<1>5. CASE Recorder \/ Kernel
  <2>1. EventInv' /\ GotInv'
    BY <1>1, <1>2, <1>3, <1>5, ReaderWaits
  <2>2. CASE \/ \E t \in alive : Exit(t)
             \/ \E p \in listed : _get_one_process_info(p)
             \/ op_get_process_info \/ perf_event_open \/ prepareToRecord \/ PrepareFails
             \/ Close /\ pc = "invalid"
    <3>1. WriterInv(c, u)' /\ ReaderInv(c, u)'
      BY <1>2, <1>3, <2>2, BeforeSteps
    <3> QED BY <1>1, <2>1, <3>1 DEF StreamInv
  <2>3. CASE write_op_header_info
    <3>1. WriterInv(c, u)' /\ ReaderInv(c, u)'
      BY <1>2, <1>3, <2>3, HeaderStep
    <3> QED BY <1>1, <2>1, <3>1 DEF StreamInv
  <2>4. CASE \/ op_write_output \/ RecordInfo \/ ReadHead \/ CopyOut \/ UpdateTail \/ NextRound
             \/ \E ctr \in DOMAIN perfCounters, size \in Sizes : Store(ctr, size)
    <3>1. \E d, v : WriterInv(d, v)' /\ ReaderInv(d, v)'
      BY <1>2, <1>3, <2>4, WritingSteps
    <3> QED BY <1>1, <2>1, <3>1 DEF StreamInv
  <2>5. CASE Close /\ pc = "drain"
    <3>1. WriterInv(c, u)' /\ ReaderInv(c, u)'
      BY <1>2, <1>3, <2>5, CloseStep
    <3> QED BY <1>1, <2>1, <3>1 DEF StreamInv
  <2>6. Close => pc = "invalid" \/ pc = "drain"
    BY DEF Close
  <2> QED BY <1>5, <2>2, <2>3, <2>4, <2>5, <2>6 DEF Recorder, Kernel
<1>6. CASE UNCHANGED vars
  BY <1>6, StreamUnchanged
<1> QED BY <1>4, <1>5, <1>6 DEF Next

LEMMA StreamDelivers == ASSUME StreamInv PROVE RecordsDelivered
<1>1. CountersInv /\ RingsInv /\ CopyInv /\ EventInv /\ GotInv
  BY DEF StreamInv
<1>2. rd.pc # "bad"
  BY <1>1 DEF EventInv
<1>3. \A k \in DOMAIN got : Intact(got[k])
  BY <1>1 DEF GotInv
<1>4. ASSUME NEW r \in DOMAIN samples_array
      PROVE  /\ \A k \in FromRing(r) :
                  got[k].event[1].n = Cardinality({j \in FromRing(r) : j <= k})
             /\ rd.pc = "done" => Cardinality(FromRing(r)) = stored[r]
  <2>1. FromRing(r) = Cut(got, r)
    BY DEF FromRing, Cut
  <2>2. /\ r \in Rings /\ r # 0 /\ stored[r] \in Nat
        /\ samples_array[r].data \in [0..RingSize - 1 -> Units]
        /\ samples_array[r].data_head \in Nat
    BY <1>1, RingIs DEF Rings
  <2>3. ASSUME NEW k \in FromRing(r)
        PROVE  got[k].event[1].n = Cardinality({j \in FromRing(r) : j <= k})
    <3>1. k \in DOMAIN got /\ got[k].event[1].ring = r
      BY DEF FromRing
    <3>2. got[k].event[1].n = Cardinality({j \in Cut(got, got[k].event[1].ring) : j <= k})
      BY <1>1, <2>2, <3>1 DEF GotInv
    <3> QED BY <2>1, <3>1, <3>2
  <2>4. ASSUME rd.pc = "done" PROVE Cardinality(FromRing(r)) = stored[r]
    <3>1. PICK c, u : WriterInv(c, u) /\ ReaderInv(c, u)
      BY DEF StreamInv
    <3>2. pc = "closed" /\ c = Read /\ c \in Counts
      BY <2>4, <3>1 DEF ReaderInv, WriterInv
    <3>3. RingIdle(r, c)
      BY <3>1, <3>2 DEF WriterInv, RingsHold, RingHolds
    <3>4. samples_array[r].prev = samples_array[r].data_head
      BY <1>1, <3>2 DEF CopyInv
    <3>5. Content(r, samples_array[r].prev, samples_array[r].data_head) = <<>>
      BY <2>2, <3>4, SliceEmpty DEF Content
    <3>6. <<c, NoUnit>> = <<[c EXCEPT ![r] = stored[r]], NoUnit>>
      BY <3>3, <3>5, LeadsNowhere DEF RingIdle
    <3>7. c = [c EXCEPT ![r] = stored[r]]
      BY <3>6
    <3>8. c[r] = stored[r]
      BY <2>2, <3>2, <3>7 DEF Counts
    <3>9. Read[r] = Cardinality(Cut(got, r))
      BY <2>2 DEF Read
    <3> QED BY <2>1, <3>2, <3>8, <3>9
  <2> QED BY <2>3, <2>4
<1> QED BY <1>2, <1>3, <1>4 DEF RecordsDelivered

LEMMA StreamKnows == ASSUME StreamInv PROVE EventKnown
  BY DEF StreamInv, GotInv, EventKnown

-----------------------------------------------------------------------------
(* The theorems                                                            *)

\* Whatever the recorder, the reader and the kernel do in any order: the
\* counters, the rings, what has been written of them and what has been cut
\* out of it agree (setup, op_get_kernel_event_data, operf_read).
THEOREM StreamInvariant == Spec => []StreamInv
<1>1. Init => StreamInv
  BY StreamInit
<1>2. StreamInv /\ [Next]_vars => StreamInv'
  BY StreamNext
<1> QED BY <1>1, <1>2, PTL DEF Spec

\* The reader cuts out the records that the kernel stored, whole, each once and
\* in order, and has all of them when it ends, however the records wrap in a
\* ring, the writes are split and the window on a file lies
\* (op_get_kernel_event_data, _get_perf_event_from_pipe, _get_perf_event_from_file).
THEOREM EveryRecordDelivered == Spec => []RecordsDelivered
<1>1. StreamInv => RecordsDelivered
  BY StreamDelivers
<1> QED BY <1>1, StreamInvariant, PTL

\* From the ids in the header alone the reader finds the event of each sample
\* (write_op_header_info, get_eventnum_by_perf_event_id).
THEOREM EveryEventKnown == Spec => []EventKnown
<1>1. StreamInv => EventKnown
  BY StreamKnows
<1> QED BY <1>1, StreamInvariant, PTL

=============================================================================
