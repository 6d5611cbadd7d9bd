------------------------- MODULE OperfConvertProofs -------------------------
(***************************************************************************)
(* What becomes of the samples that operf converts, for any processes,     *)
(* mappings, kernels and any number and order of the records.              *)
(***************************************************************************)
EXTENDS OperfConvert, TLAPS, FiniteSetTheorems, WellFoundedInduction

-----------------------------------------------------------------------------
(* Each sample is accounted for                                            *)

Kinds == {"fork", "comm", "map", "sample", "throttle"}

\* The samples that wait to be tried again
Waiting == {unresolved_events[k].n : k \in DOMAIN unresolved_events}

IsSeq(s) == \E S : s \in Seq(S)

Types ==
  /\ phase \in {"first", "again", "done", "error"}
  /\ made.sample \in 0..MaxSamples /\ IsSeq(unresolved_events)
  /\ DOMAIN made = Kinds /\ DOMAIN fate = 1..MaxSamples
  /\ \A i \in 1..MaxSamples : IsSeq(fate[i])

\* A sample waits, once, or it has come to an end, once.
FateInv ==
  /\ \A i \in 1..MaxSamples : Len(fate[i]) <= 1
  /\ \A k, l \in DOMAIN unresolved_events :
       unresolved_events[k].n = unresolved_events[l].n => k = l
  /\ Waiting \subseteq 1..made.sample
  /\ \A i \in 1..MaxSamples :
       Len(fate[i]) = IF i <= made.sample /\ i \notin Waiting THEN 1 ELSE 0
  /\ phase = "done" => unresolved_events = <<>>

SamplesInv == Types /\ FateInv

\* A sample that is handled comes to an end and does not wait any more, or it is
\* deferred, for the first time.
Settled(d) == Done /\ \E how : Ends(d, how)
Deferred(d) ==
  phase = "first" /\ unresolved_events' = Append(unresolved_events, d) /\ UNCHANGED fate

\* Whatever is known of the process, the mapping, the kernel and the context,
\* __handle_sample_event does one of the two; bad data is not deferred.
LEMMA SampleHandled ==
  ASSUME NEW d, __handle_sample_event(d)
  PROVE  /\ Settled(d) \/ (Deferred(d) /\ phase' = phase)
         /\ phase' \in {phase, "error"}
<1>1. \/ Done /\ (\E how : Ends(d, how)) /\ phase' \in {phase, "error"}
      \/ (\E how : Defer(d, how)) /\ phase' = phase
  BY DEF __handle_sample_event
<1>2. ASSUME NEW how, Defer(d, how)
      PROVE  Deferred(d) \/ (Done /\ Ends(d, how))
  BY <1>2 DEF Defer, Deferred
<1>3. CASE Done /\ (\E how : Ends(d, how)) /\ phase' \in {phase, "error"}
  BY <1>3 DEF Settled
<1>4. CASE (\E how : Defer(d, how)) /\ phase' = phase
  BY <1>2, <1>4 DEF Settled
<1> QED
  BY <1>1, <1>3, <1>4

\* A sequence with one more element is a sequence.
LEMMA AppendIsSeq ==
  ASSUME NEW s, IsSeq(s), NEW e
  PROVE  /\ IsSeq(Append(s, e)) /\ Len(Append(s, e)) = Len(s) + 1 /\ Len(s) \in Nat
         /\ DOMAIN s = 1..Len(s) /\ DOMAIN Append(s, e) = 1..(Len(s) + 1)
         /\ Append(s, e)[Len(s) + 1] = e
         /\ \A i \in 1..Len(s) : Append(s, e)[i] = s[i]
<1> PICK S : s \in Seq(S)
  BY DEF IsSeq
<1>1. s \in Seq(S \cup {e})
  OBVIOUS
<1>2. Append(s, e) \in Seq(S \cup {e})
  BY <1>1
<1> QED
  BY <1>1, <1>2 DEF IsSeq

\* The first of several elements, and the others
LEMMA TailIsSeq ==
  ASSUME NEW s, IsSeq(s), s # <<>>
  PROVE  /\ IsSeq(Tail(s)) /\ Len(s) \in Nat /\ Len(s) > 0 /\ DOMAIN s = 1..Len(s)
         /\ DOMAIN Tail(s) = 1..(Len(s) - 1) /\ Head(s) = s[1]
         /\ \A i \in 1..(Len(s) - 1) : Tail(s)[i] = s[i + 1]
<1> PICK S : s \in Seq(S)
  BY DEF IsSeq
<1>1. Tail(s) \in Seq(S)
  OBVIOUS
<1> QED
  BY <1>1 DEF IsSeq

\* What happens to a sample that has not come to an end yet (open): it does now.
LEMMA FateStep ==
  ASSUME Types, NEW d, d.n \in 1..MaxSamples, NEW how, Ends(d, how), Len(fate[d.n]) = 0
  PROVE  /\ DOMAIN fate' = 1..MaxSamples
         /\ \A i \in 1..MaxSamples : IsSeq(fate'[i])
         /\ \A i \in 1..MaxSamples : Len(fate'[i]) = IF i = d.n THEN 1 ELSE Len(fate[i])
<1>1. fate' = [fate EXCEPT ![d.n] = Append(fate[d.n], how)]
  BY DEF Ends
<1>2. IsSeq(fate[d.n])
  BY DEF Types
<1>3. IsSeq(Append(fate[d.n], how)) /\ Len(Append(fate[d.n], how)) = 1
  BY <1>2, AppendIsSeq
<1>4. \A i \in 1..MaxSamples :
        fate'[i] = IF i = d.n THEN Append(fate[d.n], how) ELSE fate[i]
  BY <1>1 DEF Types
<1> QED
  BY <1>1, <1>3, <1>4 DEF Types

\* A new sample, which is the next by its number
LEMMA NewSample ==
  ASSUME SamplesInv, NEW d \in Samples, Sample(d)
  PROVE  SamplesInv'
<1> DEFINE i == made.sample + 1
           e == Numbered(d, i)
<1>1. e.n = i
  BY DEF Numbered
<1>2. /\ phase = "first" /\ phase' \in {"first", "error"} /\ i \in 1..MaxSamples
      /\ made' = [made EXCEPT !.sample = i] /\ __handle_sample_event(e)
  <2>1. phase' \in {phase, "error"} /\ __handle_sample_event(e)
    BY SampleHandled DEF Sample
  <2>2. /\ phase = "first" /\ made.sample < MaxSamples
        /\ made' = [made EXCEPT !.sample = i]
    BY DEF Sample, More
  <2> QED
    BY <2>1, <2>2, ConvertAssumption DEF SamplesInv, Types
<1>3. made'.sample = i /\ DOMAIN made' = Kinds /\ i \in 1..MaxSamples
  BY <1>2 DEF SamplesInv, Types, Kinds
<1>4. i \notin Waiting /\ Len(fate[i]) = 0
  BY <1>2, ConvertAssumption DEF SamplesInv, FateInv, Types
<1>5. Settled(e) \/ Deferred(e)
  BY <1>2, SampleHandled
<1> HIDE DEF e
<1>6. CASE Settled(e)
  <2>1. unresolved_events' = unresolved_events
    BY <1>2, <1>6 DEF Settled, Done
  <2>2. PICK how : Ends(e, how)
    BY <1>6 DEF Settled
  <2>3. /\ DOMAIN fate' = 1..MaxSamples
        /\ \A j \in 1..MaxSamples : IsSeq(fate'[j])
        /\ \A j \in 1..MaxSamples : Len(fate'[j]) = IF j = i THEN 1 ELSE Len(fate[j])
    BY <1>1, <1>2, <1>4, <2>2, FateStep DEF SamplesInv
  <2>4. Waiting' = Waiting
    BY <2>1 DEF Waiting
  <2>5. Types'
    BY <1>2, <1>3, <2>1, <2>3, ConvertAssumption DEF SamplesInv, Types
  <2>6. Waiting' \subseteq 1..made'.sample
    BY <1>2, <1>3, <2>4 DEF SamplesInv, Types, FateInv
  <2>7. \A j \in 1..MaxSamples :
          Len(fate'[j]) = IF j <= made'.sample /\ j \notin Waiting' THEN 1 ELSE 0
    BY <1>2, <1>3, <1>4, <2>3, <2>4 DEF SamplesInv, Types, FateInv
  <2>8. FateInv'
    BY <1>2, <2>1, <2>6, <2>7 DEF SamplesInv, FateInv
  <2> QED
    BY <2>5, <2>8 DEF SamplesInv
<1>7. CASE Deferred(e)
  <2>1. unresolved_events' = Append(unresolved_events, e) /\ fate' = fate
    BY <1>7 DEF Deferred
  <2>2. IsSeq(unresolved_events)
    BY DEF SamplesInv, Types
  <2>3. Waiting' = Waiting \cup {i}
    BY <1>1, <2>1, <2>2, AppendIsSeq DEF Waiting
  <2>4. \A k, l \in DOMAIN unresolved_events' :
          unresolved_events'[k].n = unresolved_events'[l].n => k = l
    BY <1>1, <1>4, <2>1, <2>2, AppendIsSeq DEF Waiting, SamplesInv, FateInv
  <2>5. Types'
    BY <1>2, <1>3, <2>1, <2>2, AppendIsSeq, ConvertAssumption DEF SamplesInv, Types
  <2>6. Waiting' \subseteq 1..made'.sample
    BY <1>2, <1>3, <2>3 DEF SamplesInv, Types, FateInv
  <2>7. \A j \in 1..MaxSamples :
          Len(fate'[j]) = IF j <= made'.sample /\ j \notin Waiting' THEN 1 ELSE 0
    BY <1>2, <1>3, <1>4, <2>1, <2>3 DEF SamplesInv, Types, FateInv
  <2>8. FateInv'
    BY <1>2, <2>1, <2>4, <2>6, <2>7 DEF SamplesInv, FateInv
  <2> QED
    BY <2>5, <2>8 DEF SamplesInv
<1> QED
  BY <1>5, <1>6, <1>7

\* The next of the samples that wait: it leaves the list and comes to an end.
LEMMA OldSample ==
  ASSUME SamplesInv, op_reprocess_unresolved_events
  PROVE  SamplesInv'
<1> DEFINE e == Head(unresolved_events)
<1>1. /\ phase = "again" /\ phase' \in {"again", "error"} /\ made' = made
      /\ unresolved_events # <<>> /\ __handle_sample_event(e)
  BY SampleHandled DEF op_reprocess_unresolved_events
<1>2. Settled(e)
  BY <1>1, SampleHandled DEF Deferred
<1>3. unresolved_events' = Tail(unresolved_events)
  BY <1>1, <1>2 DEF Settled, Done
<1>4. IsSeq(unresolved_events)
  BY DEF SamplesInv, Types
<1>5. e = unresolved_events[1] /\ 1 \in DOMAIN unresolved_events
  BY <1>1, <1>4, TailIsSeq
<1> HIDE DEF e
<1>6. e.n \in Waiting /\ e.n \in 1..MaxSamples /\ Len(fate[e.n]) = 0
  <2>1. e.n \in Waiting
    BY <1>5 DEF Waiting
  <2>2. e.n \in 1..MaxSamples
    <3>1. e.n \in 1..made.sample /\ made.sample \in 0..MaxSamples
      BY <2>1 DEF SamplesInv, FateInv, Types
    <3> QED
      BY <3>1, ConvertAssumption
  <2> QED
    BY <2>1, <2>2 DEF SamplesInv, FateInv
<1>7. PICK how : Ends(e, how)
  BY <1>2 DEF Settled
<1>8. /\ DOMAIN fate' = 1..MaxSamples
      /\ \A j \in 1..MaxSamples : IsSeq(fate'[j])
      /\ \A j \in 1..MaxSamples : Len(fate'[j]) = IF j = e.n THEN 1 ELSE Len(fate[j])
  BY <1>6, <1>7, FateStep DEF SamplesInv
<1>9. Waiting' = Waiting \ {e.n}
  <2> DEFINE u == unresolved_events
             m == Len(u)
  <2>1. /\ m \in Nat /\ m > 0 /\ DOMAIN u = 1..m /\ DOMAIN u' = 1..(m - 1)
        /\ \A k \in 1..(m - 1) : u'[k] = u[k + 1]
    BY <1>1, <1>3, <1>4, TailIsSeq
  <2>2. \A k, l \in 1..m : u[k].n = u[l].n => k = l
    BY <2>1 DEF SamplesInv, FateInv
  <2>3. \A x \in Waiting' : x \in Waiting /\ x # e.n
    <3> SUFFICES ASSUME NEW k \in 1..(m - 1) PROVE u[k + 1].n \in Waiting /\ u[k + 1].n # e.n
      BY <2>1 DEF Waiting
    <3>1. k + 1 \in 1..m /\ 1 \in 1..m /\ k + 1 # 1
      BY <2>1
    <3> QED
      BY <1>5, <2>1, <2>2, <3>1 DEF Waiting
  <2>4. \A x \in Waiting : x = e.n \/ x \in Waiting'
    <3> SUFFICES ASSUME NEW k \in 1..m, k # 1 PROVE u[k].n \in Waiting'
      BY <1>5, <2>1 DEF Waiting
    <3>1. k - 1 \in 1..(m - 1) /\ (k - 1) + 1 = k
      BY <2>1
    <3>2. u'[k - 1] = u[k]
      BY <2>1, <3>1
    <3> QED
      BY <2>1, <3>1, <3>2 DEF Waiting
  <2> QED
    BY <2>3, <2>4
<1>10. \A k, l \in DOMAIN unresolved_events' :
          unresolved_events'[k].n = unresolved_events'[l].n => k = l
  BY <1>1, <1>3, <1>4, TailIsSeq DEF SamplesInv, FateInv
<1>11. Types'
  BY <1>1, <1>3, <1>4, <1>8, TailIsSeq DEF SamplesInv, Types
<1>12. FateInv'
  <2>1. Waiting' \subseteq 1..made'.sample
    BY <1>1, <1>9 DEF SamplesInv, FateInv
  <2>2. e.n <= made.sample
    BY <1>6 DEF SamplesInv, Types, FateInv
  <2>3. \A j \in 1..MaxSamples :
          Len(fate'[j]) = IF j <= made'.sample /\ j \notin Waiting' THEN 1 ELSE 0
    BY <1>1, <1>8, <1>9, <2>2 DEF SamplesInv, FateInv
  <2> QED
    BY <1>1, <1>10, <2>1, <2>3 DEF SamplesInv, FateInv
<1> QED
  BY <1>11, <1>12 DEF SamplesInv

\* The other records leave the samples alone.
LEMMA SamplesStep == SamplesInv /\ [Next]_vars => SamplesInv'
<1> SUFFICES ASSUME SamplesInv, [Next]_vars PROVE SamplesInv'
  OBVIOUS
<1>1. ASSUME NEW kind \in Kinds \ {"sample"}, NEW bound, More(kind, bound),
             UNCHANGED <<fate, unresolved_events>>, phase' \in {phase, "error"}
      PROVE  SamplesInv'
  <2>1. made'.sample = made.sample /\ DOMAIN made' = Kinds
    BY <1>1 DEF More, SamplesInv, Types, Kinds
  <2> QED
    BY <1>1, <2>1 DEF SamplesInv, Types, FateInv, Waiting
<1>2. ASSUME NEW pid, NEW ppid, NEW exe, __handle_fork_event(pid, ppid, exe) PROVE SamplesInv'
  BY <1>1, <1>2 DEF __handle_fork_event, samples, Kinds
<1>3. ASSUME NEW pid, NEW main, NEW exe, __handle_comm_event(pid, main, "comm", exe)
      PROVE  SamplesInv'
  BY <1>1, <1>3 DEF __handle_comm_event, samples, Kinds
<1>4. ASSUME NEW pid, NEW m, NEW exe, __handle_mmap_event(pid, m, exe) PROVE SamplesInv'
  BY <1>1, <1>4 DEF __handle_mmap_event, samples, Kinds
<1>5. ASSUME NEW id, __handle_throttle_event(id) PROVE SamplesInv'
  BY <1>1, <1>5 DEF __handle_throttle_event, Kinds
<1>6. CASE ConnectProcesses
  BY <1>6 DEF ConnectProcesses, samples, SamplesInv, Types, FateInv, Waiting
<1>7. CASE op_release_resources
  BY <1>7 DEF op_release_resources, samples, SamplesInv, Types, FateInv, Waiting
<1>8. CASE UNCHANGED vars
  BY <1>8 DEF vars, samples, SamplesInv, Types, FateInv, Waiting
<1> QED
  BY <1>2, <1>3, <1>4, <1>5, <1>6, <1>7, <1>8, NewSample, OldSample DEF Next, Records

LEMMA SamplesInit == Init => SamplesInv
<1> SUFFICES ASSUME Init PROVE SamplesInv
  OBVIOUS
<1>1. <<>> \in Seq({}) /\ Len(<<>>) = 0
  OBVIOUS
<1>2. IsSeq(unresolved_events) /\ \A i \in 1..MaxSamples : IsSeq(fate[i]) /\ Len(fate[i]) = 0
  BY <1>1 DEF Init, IsSeq
<1>3. Waiting = {}
  BY <1>1 DEF Init, Waiting
<1>4. made.sample = 0 /\ DOMAIN made = Kinds
  BY DEF Init, Kinds
<1> QED
  BY <1>1, <1>2, <1>3, <1>4, ConvertAssumption DEF Init, SamplesInv, Types, FateInv

\* For any records in any order: a sample is never logged or lost twice, and at
\* the end each one is, once.
THEOREM EverySampleAccounted == Spec => []SamplesAccounted
<1>1. Init => SamplesInv
  BY SamplesInit
<1>2. SamplesInv => SamplesAccounted
  <2> SUFFICES ASSUME SamplesInv PROVE SamplesAccounted
    OBVIOUS
  <2>1. phase = "done" => Waiting = {}
    BY DEF SamplesInv, FateInv, Waiting
  <2> QED
    BY <2>1, ConvertAssumption DEF SamplesInv, Types, FateInv, SamplesAccounted
<1> QED
  BY <1>1, <1>2, SamplesStep, PTL DEF Spec

-----------------------------------------------------------------------------
(* Processes and the mappings that they inherit                            *)

ProcFields ==
  {"valid", "appname_valid", "look", "parent", "app", "matched", "map", "fromparent"}

Has(pm, q, s) == pm[q].map[s] # NoMap

\* A process was forked by one that is known and has a smaller pid.
Tree(pm) ==
  /\ DOMAIN pm = Pids
  /\ \A q \in Pids : pm[q] # NoProc =>
       /\ DOMAIN pm[q] = ProcFields /\ pm[q].parent \in Pids \cup {0}
       /\ \A s \in AllStarts : pm[q].fromparent[s] \in BOOLEAN
       /\ pm[q].parent # 0 => pm[q].parent < q /\ pm[pm[q].parent] # NoProc

\* Where the parent has a mapping, what it has forked has one.
HandedTo(pm, q) == \A s \in AllStarts : Has(pm, pm[q].parent, s) => Has(pm, q, s)
HandedDown(pm) == \A q \in Pids : forked(pm[q]) => HandedTo(pm, q)

\* Where a process has mapped something itself it has a mapping, which is not
\* marked as one of its parent.
OwnKept(pm, ow) ==
  \A q \in Pids, s \in AllStarts : ow[q][s] # NoMap =>
    pm[q] # NoProc /\ Has(pm, q, s) /\ ~pm[q].fromparent[s]

\* What Inherited says of the process q, and what is its parent's is marked so.
Regular(pm, ow, q) ==
  \A s \in AllStarts :
    /\ pm[q].map[s] = IF ow[q][s] # NoMap THEN ow[q][s]
                      ELSE IF forked(pm[q]) THEN pm[pm[q].parent].map[s] ELSE NoMap
    /\ ow[q][s] = NoMap /\ Has(pm, q, s) => pm[q].fromparent[s]

ProcsInv(pm, ow, mx) ==
  /\ Tree(pm) /\ HandedDown(pm) /\ OwnKept(pm, ow)
  /\ \A q \in Pids : pm[q] # NoProc /\ q \notin mx => Regular(pm, ow, q)

OwnType == DOMAIN own = Pids /\ \A q \in Pids : DOMAIN own[q] = AllStarts

SamePlace(a, k) == a.file = k.file /\ a.start = k.start

\* What all_images has of a name and start is what was reported first for these.
FirstInv ==
  /\ DOMAIN first = Anonymous /\ all_images \subseteq Anonymous
  /\ \A q \in Pids, s \in AllStarts : own[q][s] # NoMap =>
       /\ own[q][s] \in Mapped
       /\ own[q][s].anon => first[own[q][s]] # NoMap
  /\ \A k \in Anonymous :
       {a \in all_images : SamePlace(a, k)} = IF first[k] = NoMap THEN {} ELSE {first[k]}

\* What a process has been given for the mappings that it reported
Given == [q \in Pids |-> [s \in AllStarts |-> FirstReport(own[q][s])]]

ProcessesInv == OwnType /\ FirstInv /\ ProcsInv(process_map, Given, mixed)

\* The other records report no mapping.
LEMMA GivenSame ==
  ASSUME OwnType, FirstInv, UNCHANGED <<own, first, all_images>>
  PROVE  OwnType' /\ FirstInv' /\ Given' = Given
BY DEF OwnType, FirstInv, Given, FirstReport

\* A mapping is reported: the process is given that, or the first of its name and
\* start if it is anonymous.
LEMMA FirstGiven ==
  ASSUME OwnType, FirstInv, NEW pid \in Pids, NEW m \in Mapped, NEW mapping,
         LET same == {k \in all_images : k.file = m.file /\ k.start = m.start}
         IN mapping = IF same # {} THEN CHOOSE k \in same : TRUE ELSE m,
         all_images' = IF m.anon THEN all_images \cup {mapping} ELSE all_images,
         own' = [own EXCEPT ![pid][m.start] = m],
         first' = [k \in Anonymous |->
           IF first[k] = NoMap /\ k.file = m.file /\ k.start = m.start THEN m ELSE first[k]]
  PROVE  /\ OwnType' /\ FirstInv' /\ Given' = [Given EXCEPT ![pid][m.start] = mapping]
         /\ mapping # NoMap /\ mapping.start = m.start
<1> DEFINE same == {a \in all_images : SamePlace(a, m)}
<1>1. mapping = IF same # {} THEN CHOOSE k \in same : TRUE ELSE m
  BY DEF SamePlace
<1>2. /\ m.start \in AllStarts /\ m.start # 0 /\ m.anon \in BOOLEAN /\ m # NoMap
      /\ \A k \in Mapped : k.file = m.file => k.anon = m.anon
  BY ConvertAssumption DEF NoMap
<1>3. \A k \in Anonymous : k \in Mapped /\ k.anon /\ (SamePlace(k, m) => m \in Anonymous)
  BY <1>2 DEF Anonymous, SamePlace
<1>4. ~m.anon => same = {} /\ mapping = m
  BY <1>1, <1>3 DEF FirstInv, Anonymous
<1>5. \A k \in Anonymous : SamePlace(k, m) => first[k] = first[m]
  <2> SUFFICES ASSUME NEW k \in Anonymous, SamePlace(k, m) PROVE first[k] = first[m]
    OBVIOUS
  <2>1. m \in Anonymous
    BY <1>3
  <2>2. {a \in all_images : SamePlace(a, k)} = same
    BY DEF SamePlace
  <2>3. same = IF first[k] = NoMap THEN {} ELSE {first[k]}
    BY <2>2 DEF FirstInv
  <2>4. same = IF first[m] = NoMap THEN {} ELSE {first[m]}
    BY <2>1 DEF FirstInv
  <2> HIDE DEF same
  <2> QED
    BY <2>3, <2>4
<1>6. m.anon => /\ m \in Anonymous
                /\ same = IF first[m] = NoMap THEN {} ELSE {first[m]}
                /\ mapping = IF first[m] = NoMap THEN m ELSE first[m]
  <2> SUFFICES ASSUME m.anon
               PROVE  /\ m \in Anonymous
                      /\ same = IF first[m] = NoMap THEN {} ELSE {first[m]}
                      /\ mapping = IF first[m] = NoMap THEN m ELSE first[m]
    OBVIOUS
  <2>1. m \in Anonymous
    BY DEF Anonymous
  <2>2. same = IF first[m] = NoMap THEN {} ELSE {first[m]}
    BY <2>1 DEF FirstInv
  <2> HIDE DEF same
  <2> QED
    BY <1>1, <2>1, <2>2
<1>7. mapping \in Mapped /\ SamePlace(mapping, m) /\ (mapping \in same \/ mapping = m)
  <2>1. same # {} => mapping \in same
    BY <1>1
  <2>2. \A k \in same : k \in Mapped /\ SamePlace(k, m)
    BY <1>3 DEF FirstInv
  <2> HIDE DEF same
  <2> QED
    BY <1>1, <2>1, <2>2 DEF SamePlace
<1>8. mapping # NoMap /\ mapping.start = m.start
  BY <1>2, <1>7 DEF SamePlace, NoMap
<1>9. \A k \in Anonymous :
        first'[k] = IF first[k] = NoMap /\ SamePlace(k, m) THEN m ELSE first[k]
  BY DEF SamePlace
<1>10. \A q \in Pids, s \in AllStarts :
         own'[q][s] = IF q = pid /\ s = m.start THEN m ELSE own[q][s]
  BY <1>2 DEF OwnType
<1>11. OwnType'
  BY DEF OwnType
<1>12. m.anon => first'[m] = mapping
  BY <1>6, <1>9 DEF SamePlace
<1>13. DOMAIN first' = Anonymous /\ Anonymous' = Anonymous
  BY DEF Anonymous
<1> HIDE DEF same
<1>14. \A q \in Pids, s \in AllStarts :
         FirstReport(own[q][s])' =
           IF q = pid /\ s = m.start THEN mapping ELSE FirstReport(own[q][s])
  <2> SUFFICES ASSUME NEW q \in Pids, NEW s \in AllStarts
               PROVE  FirstReport(own[q][s])' = IF q = pid /\ s = m.start THEN mapping
                                                ELSE FirstReport(own[q][s])
    OBVIOUS
  <2>1. CASE q = pid /\ s = m.start
    <3>1. own'[q][s] = m
      BY <1>10, <2>1
    <3>2. FirstReport(own[q][s])' = IF m.anon THEN first'[m] ELSE m
      BY <3>1 DEF FirstReport
    <3> QED
      BY <1>2, <1>4, <1>12, <2>1, <3>2
  <2>2. CASE ~(q = pid /\ s = m.start)
    <3>1. own'[q][s] = own[q][s]
      BY <1>10, <2>2
    <3>2. CASE own[q][s] = NoMap
      BY <2>2, <3>1, <3>2 DEF FirstReport, NoMap
    <3>3. CASE own[q][s] # NoMap /\ own[q][s].anon
      <4>1. own[q][s] \in Anonymous /\ first[own[q][s]] # NoMap
        BY <3>3 DEF FirstInv, Anonymous
      <4>2. first'[own[q][s]] = first[own[q][s]]
        BY <1>9, <4>1
      <4> QED
        BY <2>2, <3>1, <3>3, <4>2 DEF FirstReport
    <3>4. CASE own[q][s] # NoMap /\ ~own[q][s].anon
      BY <2>2, <3>1, <3>4 DEF FirstReport
    <3> QED
      BY <3>2, <3>3, <3>4
  <2> QED
    BY <2>1, <2>2
<1>15. Given' = [Given EXCEPT ![pid][m.start] = mapping]
  <2>1. Given' = [q \in Pids |-> [s \in AllStarts |-> FirstReport(own[q][s])']]
    BY DEF Given
  <2>2. Given' = [q \in Pids |-> [s \in AllStarts |->
                   IF q = pid /\ s = m.start THEN mapping ELSE FirstReport(own[q][s])]]
    BY <1>14, <2>1
  <2> QED
    BY <1>2, <2>2 DEF Given
<1>16. FirstInv'
  <2>1. all_images' \subseteq Anonymous
    BY <1>6, <1>7 DEF FirstInv, Anonymous
  <2>2. ASSUME NEW q \in Pids, NEW s \in AllStarts, own'[q][s] # NoMap
        PROVE  own'[q][s] \in Mapped /\ (own'[q][s].anon => first'[own'[q][s]] # NoMap)
    <3>1. CASE q = pid /\ s = m.start
      BY <1>8, <1>10, <1>12, <3>1
    <3>2. CASE ~(q = pid /\ s = m.start)
      <4>1. own'[q][s] = own[q][s]
        BY <1>10, <3>2
      <4>2. own[q][s] \in Mapped /\ (own[q][s].anon => first[own[q][s]] # NoMap)
        BY <2>2, <4>1 DEF FirstInv
      <4>3. own[q][s].anon => own[q][s] \in Anonymous
        BY <4>2 DEF Anonymous
      <4> QED
        BY <1>9, <4>1, <4>2, <4>3
    <3> QED
      BY <3>1, <3>2
  <2>3. ASSUME NEW k \in Anonymous
        PROVE  {a \in all_images' : SamePlace(a, k)} =
                 IF first'[k] = NoMap THEN {} ELSE {first'[k]}
    <3>1. {a \in all_images : SamePlace(a, k)} = IF first[k] = NoMap THEN {} ELSE {first[k]}
      BY DEF FirstInv
    <3>2. CASE SamePlace(k, m)
      <4>1. m.anon /\ first[k] = first[m] /\ SamePlace(mapping, k)
        BY <1>3, <1>5, <1>7, <3>2 DEF Anonymous, SamePlace
      <4>2. all_images' = all_images \cup {mapping} /\ first'[k] = mapping
        BY <1>6, <1>9, <3>2, <4>1
      <4> QED
        BY <1>6, <1>8, <3>1, <4>1, <4>2
    <3>3. CASE ~SamePlace(k, m)
      <4>1. ~SamePlace(mapping, k) /\ first'[k] = first[k]
        BY <1>7, <1>9, <3>3 DEF SamePlace
      <4>2. {a \in all_images' : SamePlace(a, k)} = {a \in all_images : SamePlace(a, k)}
        BY <4>1
      <4> QED
        BY <3>1, <4>1, <4>2
    <3> QED
      BY <3>2, <3>3
  <2> QED
    BY <1>13, <2>1, <2>2, <2>3 DEF FirstInv, SamePlace
<1> QED
  BY <1>8, <1>11, <1>15, <1>16

\* The family of a process has it, and what any of the family has forked.
LEMMA FamilyClosed ==
  ASSUME NEW pm, NEW pid \in Pids
  PROVE  /\ pid \in family(pm, pid) /\ family(pm, pid) \subseteq Pids
         /\ \A r \in family(pm, pid) : children(pm, r) \subseteq family(pm, pid)
BY DEF family, children

\* It is the smallest set that does so.
LEMMA FamilyLeast ==
  ASSUME NEW pm, NEW pid \in Pids, NEW F \in SUBSET Pids, pid \in F,
         \A r \in F : children(pm, r) \subseteq F
  PROVE  family(pm, pid) \subseteq F
BY DEF family

\* Who is in the family of a process: those that have their parent there, and it.
LEMMA FamilyMembers ==
  ASSUME NEW pm, Tree(pm), NEW pid \in Pids, pm[pid] # NoProc
  PROVE  /\ \A q \in family(pm, pid) :
              /\ pm[q] # NoProc /\ q >= pid
              /\ q # pid => forked(pm[q]) /\ pm[q].parent \in family(pm, pid)
         /\ \A q \in Pids :
              forked(pm[q]) /\ pm[q].parent \in family(pm, pid) => q \in family(pm, pid)
<1> DEFINE F == family(pm, pid)
           G == {q \in F : /\ pm[q] # NoProc /\ q >= pid
                           /\ q # pid => forked(pm[q]) /\ pm[q].parent \in F}
<1>1. pid \in F /\ F \subseteq Pids /\ \A r \in F : children(pm, r) \subseteq F
  BY FamilyClosed
<1>2. Pids \subseteq Nat \ {0}
  BY ConvertAssumption
<1> HIDE DEF F
<1>3. pid \in G
  BY <1>1, <1>2
<1>4. ASSUME NEW r \in G, NEW q \in children(pm, r) PROVE q \in G
  <2>1. q \in Pids /\ q \in F /\ pm[q] # NoProc /\ pm[q].parent = r /\ r \in Pids
    BY <1>1, <1>4 DEF children
  <2>2. pm[q].parent # 0 /\ pm[q].parent < q
    BY <1>2, <2>1 DEF Tree
  <2>3. r \in F /\ r >= pid /\ r < q
    BY <1>4, <2>1, <2>2
  <2>4. q >= pid
    BY <1>2, <2>1, <2>3
  <2> QED
    BY <2>1, <2>2, <2>3, <2>4 DEF forked
<1>5. G \in SUBSET Pids
  BY <1>1
<1> HIDE DEF G
<1>6. F \subseteq G
  BY <1>3, <1>4, <1>5, FamilyLeast DEF F
<1> QED
  BY <1>1, <1>6 DEF F, G, children, forked

\* The family depends on nothing but who has forked whom, in the family.
LEMMA FamilySame ==
  ASSUME NEW pm, NEW pm2, NEW pid \in Pids,
         \A r \in family(pm, pid) : children(pm2, r) = children(pm, r)
  PROVE  family(pm2, pid) = family(pm, pid)
<1> DEFINE F == family(pm, pid)
           G == family(pm2, pid)
<1>1. pid \in F /\ F \subseteq Pids /\ \A r \in F : children(pm, r) \subseteq F
  BY FamilyClosed
<1>2. pid \in G /\ G \subseteq Pids /\ \A r \in G : children(pm2, r) \subseteq G
  BY FamilyClosed
<1>3. \A r \in F : children(pm2, r) = children(pm, r)
  OBVIOUS
<1>4. G \subseteq F
  <2> HIDE DEF F
  <2> QED
    BY <1>1, <1>3, FamilyLeast
<1>5. F \subseteq G
  <2> DEFINE H == F \cap G
  <2>1. H \in SUBSET Pids /\ pid \in H
    BY <1>1, <1>2
  <2>2. \A r \in H : children(pm, r) \subseteq H
    BY <1>1, <1>2, <1>3
  <2> HIDE DEF H
  <2>3. F \subseteq H
    BY <2>1, <2>2, FamilyLeast
  <2> QED
    BY <2>3 DEF H
<1> QED
  BY <1>4, <1>5

\* What is known of a process is not NoProc.
LEMMA ProcIsKnown ==
  ASSUME NEW p, DOMAIN p = ProcFields
  PROVE  p # NoProc
<1>1. DOMAIN NoProc = {"app"}
  BY DEF NoProc
<1> QED
  BY <1>1 DEF ProcFields

\* p2 has the name of p, and that is as good.
SameName(p, p2) ==
  p2.app = p.app /\ p2.valid = p.valid /\ p2.appname_valid = p.appname_valid

\* after is pm with new handed on to the family of pid.
Handed(pm, pid, new, do_self, after) ==
  /\ DOMAIN after = Pids
  /\ \A q \in Pids : q \notin family(pm, pid) => after[q] = pm[q]
  /\ \A q \in family(pm, pid) :
       /\ DOMAIN after[q] = ProcFields
       /\ after[q].parent = pm[q].parent /\ SameName(pm[q], after[q])
       /\ \A s \in AllStarts :
            /\ after[q].fromparent[s] \in BOOLEAN
            /\ new[s] = NoMap => /\ after[q].map[s] = pm[q].map[s]
                                 /\ after[q].fromparent[s] <=> pm[q].fromparent[s]
            /\ new[s] # NoMap => /\ after[q].map[s] = new[s]
                                 /\ after[q].fromparent[s] <=>
                                      (do_self \/ q # pid) /\ pm[q].map[s] = NoMap

\* That is what set_new_mapping_recursive does.
LEMMA Handing ==
  ASSUME NEW pm, Tree(pm), NEW pid \in Pids, pm[pid] # NoProc, NEW new, NEW do_self \in BOOLEAN
  PROVE  Handed(pm, pid, new, do_self, set_new_mapping_recursive(pm, pid, new, do_self))
<1> DEFINE after == set_new_mapping_recursive(pm, pid, new, do_self)
<1>1. \A q \in family(pm, pid) :
        q \in Pids /\ DOMAIN pm[q] = ProcFields /\ \A s \in AllStarts : pm[q].fromparent[s] \in BOOLEAN
  BY FamilyMembers, FamilyClosed DEF Tree
<1>2. DOMAIN after = Pids /\ \A q \in Pids : q \notin family(pm, pid) => after[q] = pm[q]
  BY DEF set_new_mapping_recursive
<1>3. ASSUME NEW q \in family(pm, pid)
      PROVE  /\ DOMAIN after[q] = ProcFields
             /\ after[q].parent = pm[q].parent /\ SameName(pm[q], after[q])
             /\ \A s \in AllStarts :
                  /\ after[q].map[s] = IF new[s] = NoMap THEN pm[q].map[s] ELSE new[s]
                  /\ after[q].fromparent[s] =
                       IF new[s] = NoMap THEN pm[q].fromparent[s]
                       ELSE (do_self \/ q # pid) /\ pm[q].map[s] = NoMap
  <2> DEFINE mp == [s \in AllStarts |-> IF new[s] = NoMap THEN pm[q].map[s] ELSE new[s]]
             fr == [s \in AllStarts |-> IF new[s] = NoMap THEN pm[q].fromparent[s]
                                        ELSE (do_self \/ q # pid) /\ pm[q].map[s] = NoMap]
  <2>1. after[q] = [pm[q] EXCEPT !.map = mp, !.fromparent = fr]
    BY <1>1 DEF set_new_mapping_recursive
  <2> HIDE DEF mp, fr, after
  <2>2. /\ DOMAIN after[q] = ProcFields
        /\ after[q].parent = pm[q].parent /\ SameName(pm[q], after[q])
        /\ after[q].map = mp /\ after[q].fromparent = fr
    BY <1>1, <2>1 DEF ProcFields, SameName
  <2> QED
    BY <2>2 DEF mp, fr
<1> HIDE DEF after
<1>4. ASSUME NEW q \in family(pm, pid), NEW s \in AllStarts
      PROVE  /\ after[q].fromparent[s] \in BOOLEAN
             /\ new[s] = NoMap => /\ after[q].map[s] = pm[q].map[s]
                                  /\ after[q].fromparent[s] <=> pm[q].fromparent[s]
             /\ new[s] # NoMap => /\ after[q].map[s] = new[s]
                                  /\ after[q].fromparent[s] <=>
                                       (do_self \/ q # pid) /\ pm[q].map[s] = NoMap
  BY <1>1, <1>3
<1>5. Handed(pm, pid, new, do_self, after)
  BY <1>2, <1>3, <1>4 DEF Handed
<1> QED
  BY <1>5 DEF after

\* What a family is told leaves who has forked whom, and that what is forked has
\* a mapping where its parent has one.
LEMMA FamilyHanded ==
  ASSUME NEW pm, Tree(pm), NEW pid \in Pids, pm[pid] # NoProc, NEW new, NEW do_self,
         NEW after, Handed(pm, pid, new, do_self, after)
  PROVE  /\ \A q \in Pids : /\ after[q] = NoProc <=> pm[q] = NoProc
                            /\ pm[q] # NoProc => after[q].parent = pm[q].parent
                            /\ forked(after[q]) <=> forked(pm[q])
         /\ Tree(after)
         /\ \A q \in Pids : forked(pm[q]) /\ HandedTo(pm, q) => HandedTo(after, q)
<1> DEFINE F == family(pm, pid)
<1>1. /\ pid \in F /\ F \subseteq Pids
      /\ \A q \in F : /\ pm[q] # NoProc /\ q >= pid
                      /\ q # pid => forked(pm[q]) /\ pm[q].parent \in F
      /\ \A q \in Pids : forked(pm[q]) /\ pm[q].parent \in F => q \in F
  BY FamilyMembers, FamilyClosed
<1>2. /\ DOMAIN after = Pids
      /\ \A q \in Pids : q \notin F => after[q] = pm[q]
      /\ \A q \in F : DOMAIN after[q] = ProcFields /\ after[q].parent = pm[q].parent
      /\ \A q \in F, s \in AllStarts : after[q].fromparent[s] \in BOOLEAN
      /\ \A q \in F, s \in AllStarts :
           after[q].map[s] = IF new[s] = NoMap THEN pm[q].map[s] ELSE new[s]
  BY DEF Handed
<1> HIDE DEF F
<1>3. ASSUME NEW q \in Pids
      PROVE  /\ after[q] = NoProc <=> pm[q] = NoProc
             /\ pm[q] # NoProc => after[q].parent = pm[q].parent
             /\ forked(after[q]) <=> forked(pm[q])
  <2>1. CASE q \in F
    <3>1. after[q] # NoProc
      BY <1>2, <2>1, ProcIsKnown
    <3> QED
      BY <1>1, <1>2, <2>1, <3>1 DEF forked
  <2>2. CASE q \notin F
    BY <1>2, <2>2
  <2> QED
    BY <2>1, <2>2
<1>4. \A q \in Pids : pm[q] # NoProc => /\ DOMAIN after[q] = ProcFields
                                        /\ \A s \in AllStarts : after[q].fromparent[s] \in BOOLEAN
  BY <1>2 DEF Tree
<1>5. Tree(after)
  <2> SUFFICES ASSUME NEW q \in Pids, after[q] # NoProc
      PROVE  /\ after[q].parent \in Pids \cup {0}
             /\ after[q].parent # 0 => after[q].parent < q /\ after[after[q].parent] # NoProc
    BY <1>2, <1>3, <1>4 DEF Tree
  <2>1. pm[q] # NoProc /\ after[q].parent = pm[q].parent
    BY <1>3
  <2>2. pm[q].parent \in Pids \cup {0} /\ (pm[q].parent # 0 => pm[q].parent < q /\ pm[pm[q].parent] # NoProc)
    BY <2>1 DEF Tree
  <2> QED
    BY <1>3, <2>1, <2>2
<1>6. ASSUME NEW q \in Pids, forked(pm[q]), HandedTo(pm, q),
             NEW s \in AllStarts, Has(after, after[q].parent, s)
      PROVE  Has(after, q, s)
  <2> DEFINE r == pm[q].parent
  <2>1. forked(pm[q]) /\ after[q].parent = r /\ r \in Pids
    BY <1>3, <1>6 DEF Tree, forked
  <2>2. Has(pm, r, s) => Has(pm, q, s)
    BY <1>6, <2>1 DEF HandedTo
  <2> HIDE DEF r
  <2>3. CASE r \in F
    <3>1. q \in F
      BY <1>1, <2>1, <2>3 DEF r
    <3> QED
      BY <1>2, <1>6, <2>1, <2>2, <2>3, <3>1 DEF Has
  <2>4. CASE r \notin F
    <3>1. Has(pm, r, s)
      BY <1>2, <1>6, <2>1, <2>4 DEF Has
    <3> QED
      BY <1>1, <1>2, <2>2, <3>1 DEF Has
  <2> QED
    BY <2>3, <2>4
<1> QED
  BY <1>3, <1>5, <1>6 DEF HandedTo

\* A change of p that leaves its mappings and its parent alone
SameMaps(p, p2) ==
  DOMAIN p2 = ProcFields /\ p2.parent = p.parent /\ p2.map = p.map /\ p2.fromparent = p.fromparent

\* Who is known stays known.
StillKnown(pm, pm2) == \A q \in Pids : pm[q] # NoProc => pm2[q] # NoProc

\* Handing mappings on loses nobody.
LEMMA HandedKnown ==
  ASSUME NEW pm, NEW pid, NEW new, NEW do_self, NEW after, Handed(pm, pid, new, do_self, after)
  PROVE  StillKnown(pm, after)
BY ProcIsKnown DEF Handed, StillKnown

\* Names do not matter to the mappings.
LEMMA Renaming ==
  ASSUME NEW pm, NEW ow, NEW mx, ProcsInv(pm, ow, mx), NEW pm2, DOMAIN pm2 = Pids,
         \A q \in Pids : /\ pm[q] = NoProc => pm2[q] = NoProc
                         /\ pm[q] # NoProc => SameMaps(pm[q], pm2[q])
  PROVE  ProcsInv(pm2, ow, mx) /\ StillKnown(pm, pm2)
<1>1. ASSUME NEW q \in Pids PROVE pm2[q] = NoProc <=> pm[q] = NoProc
  <2>1. DOMAIN pm2[q] = ProcFields => pm2[q] # NoProc
    BY ProcIsKnown
  <2> QED
    BY <2>1 DEF SameMaps
<1>2. Tree(pm2)
  BY <1>1 DEF ProcsInv, Tree, SameMaps
<1>3. \A q \in Pids : forked(pm2[q]) <=> forked(pm[q])
  BY <1>1 DEF SameMaps, forked
<1>4. \A q \in Pids : forked(pm[q]) => pm[q].parent \in Pids /\ pm[pm[q].parent] # NoProc
  BY DEF forked, ProcsInv, Tree
<1>5. HandedDown(pm2)
  BY <1>3, <1>4 DEF ProcsInv, HandedDown, HandedTo, Has, SameMaps, forked
<1>6. OwnKept(pm2, ow)
  BY <1>1 DEF ProcsInv, OwnKept, Has, SameMaps
<1>7. ASSUME NEW q \in Pids, pm2[q] # NoProc, q \notin mx PROVE Regular(pm2, ow, q)
  <2>1. pm[q] # NoProc /\ Regular(pm, ow, q) /\ SameMaps(pm[q], pm2[q])
    BY <1>1, <1>7 DEF ProcsInv
  <2>2. forked(pm[q]) => SameMaps(pm[pm[q].parent], pm2[pm2[q].parent])
    BY <1>4, <2>1 DEF SameMaps
  <2> QED
    BY <1>3, <2>1, <2>2 DEF Regular, Has, SameMaps
<1> QED
  BY <1>1, <1>2, <1>5, <1>6, <1>7 DEF ProcsInv, StillKnown

\* A process that was not forked, and has no mappings yet
Fresh(p) ==
  /\ DOMAIN p = ProcFields /\ p.parent = 0
  /\ \A s \in AllStarts : p.map[s] = NoMap /\ p.fromparent[s] = FALSE

\* A process that is seen for the first time
LEMMA NewProcess ==
  ASSUME NEW pm, NEW ow, NEW mx, ProcsInv(pm, ow, mx), NEW pid \in Pids, pm[pid] = NoProc,
         NEW pm2, DOMAIN pm2 = Pids, \A q \in Pids : q # pid => pm2[q] = pm[q], Fresh(pm2[pid])
  PROVE  /\ ProcsInv(pm2, ow, mx) /\ StillKnown(pm, pm2)
         /\ \A r \in Pids : children(pm2, r) = children(pm, r)
<1>1. pm2[pid] # NoProc /\ \A q \in Pids : q # pid => pm2[q] = pm[q]
  BY ProcIsKnown DEF Fresh
<1>2. 0 \notin Pids
  BY ConvertAssumption
<1>3. \A q \in Pids : forked(pm2[q]) => q # pid /\ pm[q].parent \in Pids \ {pid} /\ forked(pm[q])
  BY <1>1 DEF forked, Fresh, ProcsInv, Tree
<1>4. Tree(pm2)
  <2>1. ASSUME NEW q \in Pids, q # pid, pm2[q] # NoProc
        PROVE  /\ DOMAIN pm2[q] = ProcFields /\ pm2[q].parent \in Pids \cup {0}
               /\ \A s \in AllStarts : pm2[q].fromparent[s] \in BOOLEAN
               /\ pm2[q].parent # 0 => pm2[q].parent < q /\ pm2[pm2[q].parent] # NoProc
    BY <1>1, <1>2, <2>1 DEF ProcsInv, Tree
  <2>2. \A s \in AllStarts : pm2[pid].fromparent[s] \in BOOLEAN
    BY DEF Fresh
  <2> QED
    BY <2>1, <2>2 DEF Tree, Fresh
<1>5. HandedDown(pm2)
  BY <1>1, <1>3 DEF ProcsInv, HandedDown, HandedTo, Has
<1>6. OwnKept(pm2, ow)
  BY <1>1 DEF ProcsInv, OwnKept, Has
<1>7. ASSUME NEW q \in Pids, pm2[q] # NoProc, q \notin mx PROVE Regular(pm2, ow, q)
  <2>1. CASE q = pid
    BY <1>1, <2>1 DEF Regular, Has, Fresh, forked, ProcsInv, OwnKept
  <2>2. CASE q # pid
    BY <1>1, <1>3, <1>7, <2>2 DEF Regular, Has, ProcsInv
  <2> QED
    BY <2>1, <2>2
<1>8. \A r \in Pids : children(pm2, r) = children(pm, r)
  BY <1>1, <1>2 DEF children, Fresh
<1> QED
  BY <1>1, <1>4, <1>5, <1>6, <1>7, <1>8 DEF ProcsInv, StillKnown

\* A process maps m at the start x; what it has forked gets it too.
LEMMA MappingHanded ==
  ASSUME NEW pm, NEW ow, NEW mx, ProcsInv(pm, ow, mx), NEW pid \in Pids, pm[pid] # NoProc,
         DOMAIN ow = Pids, DOMAIN ow[pid] = AllStarts,
         NEW x \in AllStarts, NEW m, m # NoMap, NEW new,
         \A s \in AllStarts : new[s] = IF s = x THEN m ELSE NoMap,
         NEW after, Handed(pm, pid, new, FALSE, after),
         NEW ow2, ow2 = [ow EXCEPT ![pid][x] = m], NEW mx2, mx \subseteq mx2,
         \A q \in family(pm, pid) : q # pid /\ Has(pm, q, x) => q \in mx2
  PROVE  ProcsInv(after, ow2, mx2)
<1> DEFINE F == family(pm, pid)
<1>1. Tree(pm) /\ HandedDown(pm) /\ OwnKept(pm, ow)
  BY DEF ProcsInv
<1>2. /\ pid \in F /\ F \subseteq Pids
      /\ \A q \in F : /\ pm[q] # NoProc /\ q >= pid
                      /\ q # pid => forked(pm[q]) /\ pm[q].parent \in F
      /\ \A q \in Pids : forked(pm[q]) /\ pm[q].parent \in F => q \in F
  BY <1>1, FamilyMembers, FamilyClosed
<1>3. \A q \in Pids : q \notin F => after[q] = pm[q]
  BY DEF Handed
<1>4. \A q \in F, s \in AllStarts : s # x =>
        after[q].map[s] = pm[q].map[s] /\ (after[q].fromparent[s] <=> pm[q].fromparent[s])
  BY DEF Handed
<1>5. \A q \in F : /\ after[q].map[x] = m
                   /\ after[q].fromparent[x] <=> q # pid /\ pm[q].map[x] = NoMap
  BY DEF Handed
<1>6. \A q \in Pids, s \in AllStarts :
        ow2[q][s] = IF q = pid /\ s = x THEN m ELSE ow[q][s]
  OBVIOUS
<1>7. /\ \A q \in Pids : /\ after[q] = NoProc <=> pm[q] = NoProc
                         /\ pm[q] # NoProc => after[q].parent = pm[q].parent
                         /\ forked(after[q]) <=> forked(pm[q])
      /\ Tree(after) /\ HandedDown(after)
  BY <1>1, FamilyHanded DEF HandedDown
<1> HIDE DEF F
<1>8. \A q \in Pids : forked(pm[q]) =>
        /\ pm[q].parent \in Pids /\ pm[q].parent < q /\ pm[q] # NoProc
        /\ pm[pm[q].parent] # NoProc /\ after[q].parent = pm[q].parent
  BY <1>1, <1>7 DEF Tree, forked
<1>9. forked(pm[pid]) => pm[pid].parent \notin F
  BY <1>2, <1>8, ConvertAssumption
<1>10. OwnKept(after, ow2)
  <2> SUFFICES ASSUME NEW q \in Pids, NEW s \in AllStarts, ow2[q][s] # NoMap
      PROVE  after[q] # NoProc /\ Has(after, q, s) /\ ~after[q].fromparent[s]
    BY DEF OwnKept
  <2>1. CASE q = pid /\ s = x
    BY <1>2, <1>5, <1>7, <2>1 DEF Has
  <2>2. CASE ~(q = pid /\ s = x)
    <3>1. pm[q] # NoProc /\ Has(pm, q, s) /\ ~pm[q].fromparent[s]
      BY <1>1, <1>6, <2>2 DEF OwnKept
    <3> QED
      BY <1>3, <1>4, <1>5, <1>7, <3>1 DEF Has
  <2> QED
    BY <2>1, <2>2
<1>11. ASSUME NEW q \in Pids, after[q] # NoProc, q \notin mx2, NEW s \in AllStarts
       PROVE /\ after[q].map[s] = IF ow2[q][s] # NoMap THEN ow2[q][s]
                                  ELSE IF forked(after[q]) THEN after[after[q].parent].map[s]
                                  ELSE NoMap
             /\ ow2[q][s] = NoMap /\ Has(after, q, s) => after[q].fromparent[s]
  <2>1. Regular(pm, ow, q)
    BY <1>7, <1>11 DEF ProcsInv
  <2>2. CASE q \in F /\ s # x
    <3>1. forked(pm[q]) => after[pm[q].parent].map[s] = pm[pm[q].parent].map[s]
      BY <1>3, <1>4, <1>8, <2>2
    <3> QED
      BY <1>4, <1>6, <1>7, <1>8, <2>1, <2>2, <3>1 DEF Regular, Has
  <2>3. CASE q = pid /\ s = x
    BY <1>2, <1>5, <1>6, <2>3
  <2>4. CASE q \in F /\ q # pid /\ s = x
    <3>1. ~Has(pm, q, x) /\ ow[q][x] = NoMap
      BY <1>1, <1>11, <2>4 DEF OwnKept, F
    <3> QED
      BY <1>2, <1>5, <1>6, <1>7, <1>8, <2>4, <3>1 DEF Has
  <2>5. CASE q \notin F
    <3>1. after[q] = pm[q] /\ ow2[q][s] = ow[q][s] /\ (forked(pm[q]) => after[pm[q].parent] = pm[pm[q].parent])
      BY <1>2, <1>3, <1>6, <1>8, <2>5
    <3> QED
      BY <2>1, <3>1 DEF Regular, Has
  <2> QED
    BY <2>2, <2>3, <2>4, <2>5
<1> QED
  BY <1>7, <1>10, <1>11 DEF ProcsInv, Regular

\* pm1 is pm, but that ppid is the parent of pid.
Adopted(pm, pid, ppid, pm1) ==
  /\ DOMAIN pm1 = Pids /\ \A q \in Pids : q # pid => pm1[q] = pm[q]
  /\ DOMAIN pm1[pid] = ProcFields /\ pm1[pid].parent = ppid
  /\ pm1[pid].map = pm[pid].map /\ pm1[pid].fromparent = pm[pid].fromparent
  /\ SameName(pm[pid], pm1[pid])

\* What a fork leaves: the names, and the mappings of those that are not mixed
Unmoved(pm, pm2, mx2) ==
  \A q \in Pids : pm[q] # NoProc =>
    /\ SameName(pm[q], pm2[q])
    /\ q \notin mx2 =>
         \A s \in AllStarts : Has(pm, q, s) => pm2[q].map[s] = pm[q].map[s]

\* A process whose name is valid keeps it, and its mappings if it is not mixed.
NamesKept(pm, pm2) ==
  \A q \in Pids : pm[q] # NoProc /\ is_appname_valid(pm[q]) =>
    is_appname_valid(pm2[q]) /\ pm2[q].app = pm[q].app
MapsKept(pm, pm2, mx2) ==
  \A q \in Pids \ mx2 : pm[q] # NoProc /\ is_appname_valid(pm[q]) =>
    \A s \in AllStarts : Has(pm, q, s) => pm2[q].map[s] = pm[q].map[s]

LEMMA UnmovedIsKept ==
  ASSUME NEW pm, NEW pm2, NEW mx2, Unmoved(pm, pm2, mx2)
  PROVE  NamesKept(pm, pm2) /\ MapsKept(pm, pm2, mx2)
BY DEF Unmoved, NamesKept, MapsKept, SameName, is_appname_valid

\* A process is forked, and gets what its parent has mapped until then.
LEMMA Forking ==
  ASSUME NEW pm, NEW ow, NEW mx, ProcsInv(pm, ow, mx), NEW pid \in Pids, NEW ppid \in Pids,
         ppid < pid, pm[pid] # NoProc, pm[ppid] # NoProc, ~forked(pm[pid]),
         NEW pm1, Adopted(pm, pid, ppid, pm1),
         NEW new, \A s \in AllStarts : new[s] = pm[ppid].map[s],
         NEW after, Handed(pm1, pid, new, TRUE, after), NEW mx2, mx \subseteq mx2,
         \A q \in family(pm, pid), s \in AllStarts :
           Has(pm, ppid, s) /\ Has(pm, q, s) => q \in mx2
  PROVE  ProcsInv(after, ow, mx2) /\ StillKnown(pm, after) /\ Unmoved(pm, after, mx2)
<1> DEFINE F == family(pm, pid)
<1>1. /\ Tree(pm) /\ HandedDown(pm) /\ OwnKept(pm, ow) /\ DOMAIN pm[pid] = ProcFields
      /\ pm[pid].parent = 0
  BY DEF ProcsInv, Tree, forked
<1>2. /\ pid \in F /\ F \subseteq Pids
      /\ \A q \in F : /\ pm[q] # NoProc /\ q >= pid
                      /\ q # pid => forked(pm[q]) /\ pm[q].parent \in F
      /\ \A q \in Pids : forked(pm[q]) /\ pm[q].parent \in F => q \in F
  BY <1>1, FamilyMembers, FamilyClosed
<1>3. /\ DOMAIN pm1 = Pids /\ \A q \in Pids : q # pid => pm1[q] = pm[q]
      /\ DOMAIN pm1[pid] = ProcFields /\ pm1[pid].parent = ppid
      /\ pm1[pid].map = pm[pid].map /\ pm1[pid].fromparent = pm[pid].fromparent
      /\ pm1[pid] # NoProc /\ SameName(pm[pid], pm1[pid])
  BY ProcIsKnown DEF Adopted
<1>4. ppid \notin F /\ ppid # 0 /\ 0 \notin Pids
  BY <1>2, ConvertAssumption
<1> HIDE DEF F
<1>5. family(pm1, pid) = F
  <2>1. \A r \in F : children(pm1, r) = children(pm, r)
    BY <1>1, <1>2, <1>3, <1>4 DEF children
  <2> QED
    BY <2>1, FamilySame DEF F
<1>6. Tree(pm1)
  BY <1>1, <1>3 DEF Tree
<1>7. \A q \in Pids : forked(pm1[q]) <=> q = pid \/ forked(pm[q])
  BY <1>1, <1>3, <1>4 DEF forked
<1>8. ASSUME NEW q \in Pids, forked(pm1[q]), q # pid PROVE HandedTo(pm1, q)
  <2>1. forked(pm[q]) /\ pm[q].parent \in Pids /\ pm1[q].parent = pm[q].parent
    BY <1>1, <1>3, <1>7, <1>8 DEF Tree, forked
  <2> QED
    BY <1>1, <1>3, <1>8, <2>1 DEF Has, HandedDown, HandedTo
<1>9. /\ \A q \in Pids : /\ after[q] = NoProc <=> pm1[q] = NoProc
                         /\ pm1[q] # NoProc => after[q].parent = pm1[q].parent
                         /\ forked(after[q]) <=> forked(pm1[q])
      /\ Tree(after)
      /\ \A q \in Pids : forked(pm1[q]) /\ q # pid => HandedTo(after, q)
  <2>1. Tree(pm1) /\ pm1[pid] # NoProc
    BY <1>3, <1>6
  <2>2. \A q \in Pids : /\ after[q] = NoProc <=> pm1[q] = NoProc
                        /\ pm1[q] # NoProc => after[q].parent = pm1[q].parent
                        /\ forked(after[q]) <=> forked(pm1[q])
    BY <2>1, FamilyHanded
  <2>3. Tree(after)
    BY <2>1, FamilyHanded
  <2>4. ASSUME NEW q \in Pids, forked(pm1[q]), q # pid PROVE HandedTo(after, q)
    BY <1>8, <2>1, <2>4, FamilyHanded
  <2> QED
    BY <2>2, <2>3, <2>4
<1>10. \A q \in Pids : q \notin F => after[q] = pm[q]
  BY <1>2, <1>3, <1>5 DEF Handed
<1>11. ASSUME NEW q \in F, NEW s \in AllStarts, new[s] = NoMap
       PROVE  /\ after[q].map[s] = pm[q].map[s]
              /\ after[q].fromparent[s] <=> pm[q].fromparent[s]
  <2>1. pm1[q].map = pm[q].map /\ pm1[q].fromparent = pm[q].fromparent
    BY <1>2, <1>3
  <2> QED
    BY <1>5, <1>11, <2>1 DEF Handed
<1>12. ASSUME NEW q \in F, NEW s \in AllStarts, new[s] # NoMap
       PROVE  after[q].map[s] = new[s] /\ (after[q].fromparent[s] <=> pm[q].map[s] = NoMap)
  <2>1. pm1[q].map = pm[q].map
    BY <1>2, <1>3
  <2> QED
    BY <1>5, <1>12, <2>1 DEF Handed
<1>13. \A q \in Pids : forked(pm1[q]) =>
         /\ pm1[q].parent \in Pids /\ after[q].parent = pm1[q].parent
         /\ q # pid => pm1[q].parent = pm[q].parent
  BY <1>3, <1>6, <1>9 DEF Tree, forked
<1>14. HandedDown(after)
  <2>1. HandedTo(after, pid)
    <3>1. after[pid].parent = ppid /\ after[ppid] = pm[ppid]
      BY <1>3, <1>4, <1>9, <1>10
    <3> QED
      BY <1>2, <1>12, <3>1 DEF HandedTo, Has
  <2> QED
    BY <1>9, <2>1 DEF HandedDown
<1>15. OwnKept(after, ow)
  <2> SUFFICES ASSUME NEW q \in Pids, NEW s \in AllStarts, ow[q][s] # NoMap
      PROVE  after[q] # NoProc /\ Has(after, q, s) /\ ~after[q].fromparent[s]
    BY DEF OwnKept
  <2>1. pm[q] # NoProc /\ Has(pm, q, s) /\ ~pm[q].fromparent[s] /\ pm1[q] # NoProc
    BY <1>1, <1>3 DEF OwnKept
  <2> QED
    BY <1>9, <1>10, <1>11, <1>12, <2>1 DEF Has
<1>16. ASSUME NEW q \in Pids, after[q] # NoProc, q \notin mx2, NEW s \in AllStarts
       PROVE /\ after[q].map[s] = IF ow[q][s] # NoMap THEN ow[q][s]
                                  ELSE IF forked(after[q]) THEN after[after[q].parent].map[s]
                                  ELSE NoMap
             /\ ow[q][s] = NoMap /\ Has(after, q, s) => after[q].fromparent[s]
  <2>1. Regular(pm, ow, q) /\ pm[q] # NoProc
    BY <1>3, <1>9, <1>16 DEF ProcsInv
  <2>2. CASE q = pid
    <3>1. after[q].parent = ppid /\ forked(after[q]) /\ after[ppid].map[s] = new[s]
      BY <1>3, <1>4, <1>7, <1>9, <1>10, <2>2
    <3>2. pm[q].map[s] = ow[q][s]
      BY <1>1, <2>1, <2>2 DEF Regular, forked
    <3>3. CASE new[s] = NoMap
      <4>1. after[q].map[s] = pm[q].map[s] /\ (after[q].fromparent[s] <=> pm[q].fromparent[s])
        BY <1>2, <1>11, <2>2, <3>3
      <4> QED
        BY <3>1, <3>2, <3>3, <4>1 DEF Has
    <3>4. CASE new[s] # NoMap
      <4>1. ow[q][s] = NoMap
        BY <1>2, <1>16, <2>2, <3>2, <3>4 DEF Has, F
      <4>2. after[q].map[s] = new[s] /\ after[q].fromparent[s]
        BY <1>2, <1>12, <2>2, <3>2, <3>4, <4>1
      <4> QED
        BY <3>1, <4>1, <4>2
    <3> QED
      BY <3>3, <3>4
  <2>3. CASE q \in F /\ q # pid
    <3>1. /\ forked(pm[q]) /\ pm[q].parent \in F /\ forked(after[q])
          /\ after[q].parent = pm[q].parent
      BY <1>2, <1>7, <1>9, <1>13, <2>3
    <3>2. CASE new[s] = NoMap
      <4>1. /\ after[q].map[s] = pm[q].map[s] /\ (after[q].fromparent[s] <=> pm[q].fromparent[s])
            /\ after[pm[q].parent].map[s] = pm[pm[q].parent].map[s]
        BY <1>11, <2>3, <3>1, <3>2
      <4> QED
        BY <2>1, <3>1, <4>1 DEF Regular, Has
    <3>3. CASE new[s] # NoMap
      <4>1. ~Has(pm, q, s) /\ ow[q][s] = NoMap
        BY <1>1, <1>16, <2>3, <3>3 DEF Has, F, OwnKept
      <4> QED
        BY <1>12, <2>3, <3>1, <3>3, <4>1 DEF Has
    <3> QED
      BY <3>2, <3>3
  <2>4. CASE q \notin F
    <3>1. q # pid /\ after[q] = pm[q]
      BY <1>2, <1>10, <2>4
    <3>2. forked(pm[q]) => pm[q].parent \in Pids /\ pm[q].parent \notin F
      BY <1>1, <1>2, <2>4 DEF Tree, forked
    <3>3. forked(pm[q]) => after[pm[q].parent] = pm[pm[q].parent]
      BY <1>10, <3>2
    <3> QED
      BY <2>1, <3>1, <3>3 DEF Regular, Has
  <2> QED
    BY <2>2, <2>3, <2>4
<1>17. StillKnown(pm, after)
  BY <1>3, <1>9 DEF StillKnown
<1>18. Unmoved(pm, after, mx2)
  <2> SUFFICES ASSUME NEW q \in Pids, pm[q] # NoProc
      PROVE  /\ SameName(pm[q], after[q])
             /\ q \notin mx2 =>
                  \A s \in AllStarts : Has(pm, q, s) => after[q].map[s] = pm[q].map[s]
    BY DEF Unmoved
  <2>1. CASE q \notin F
    BY <1>10, <2>1 DEF SameName
  <2>2. CASE q \in F
    <3>1. SameName(pm[q], after[q])
      <4>1. SameName(pm[q], pm1[q])
        BY <1>3 DEF SameName
      <4>2. SameName(pm1[q], after[q])
        BY <1>5, <2>2 DEF Handed
      <4> QED
        BY <4>1, <4>2 DEF SameName
    <3>2. ASSUME q \notin mx2, NEW s \in AllStarts, Has(pm, q, s)
          PROVE  after[q].map[s] = pm[q].map[s]
      <4>1. ~Has(pm, ppid, s)
        BY <2>2, <3>2 DEF F
      <4>2. new[s] = NoMap
        BY <4>1 DEF Has
      <4> QED
        BY <1>11, <2>2, <4>2
    <3> QED
      BY <3>1, <3>2
  <2> QED
    BY <2>1, <2>2
<1> QED
  BY <1>9, <1>14, <1>15, <1>16, <1>17, <1>18 DEF ProcsInv, Regular

\* after is pm, but that pid has no parent.
Orphaned(pm, pid, after) ==
  /\ DOMAIN after = Pids /\ \A q \in Pids : q # pid => after[q] = pm[q]
  /\ DOMAIN after[pid] = ProcFields /\ after[pid].parent = 0
  /\ after[pid].map = pm[pid].map /\ after[pid].fromparent = pm[pid].fromparent

\* A forked process has its own COMM record: it keeps what it has mapped itself,
\* which is handed on once more, and is not forked any more.
LEMMA Disassociating ==
  ASSUME NEW pm, NEW ow, NEW mx, ProcsInv(pm, ow, mx), NEW pid \in Pids, forked(pm[pid]),
         NEW pm1, DOMAIN pm1 = Pids, \A q \in Pids : q # pid => pm1[q] = pm[q],
         DOMAIN pm1[pid] = ProcFields, pm1[pid].parent = pm[pid].parent,
         NEW new,
         \A s \in AllStarts :
           /\ pm1[pid].fromparent[s] \in BOOLEAN
           /\ pm1[pid].map[s] = IF pm[pid].fromparent[s] THEN NoMap ELSE pm[pid].map[s]
           /\ new[s] = pm1[pid].map[s],
         NEW all, Handed(pm1, pid, new, FALSE, all),
         NEW after, Orphaned(all, pid, after),
         NEW mx2, mx \subseteq mx2, descendants(pm, pid) \subseteq mx2
  PROVE  ProcsInv(after, ow, mx2) /\ StillKnown(pm, after)
<1> DEFINE F == family(pm, pid)
<1>1. /\ Tree(pm) /\ HandedDown(pm) /\ OwnKept(pm, ow)
      /\ pm[pid] # NoProc /\ pm[pid].parent \in Pids
  BY DEF ProcsInv, Tree, forked
<1>2. /\ pid \in F /\ F \subseteq Pids
      /\ \A q \in F : /\ pm[q] # NoProc /\ q >= pid
                      /\ q # pid => forked(pm[q]) /\ pm[q].parent \in F
      /\ \A q \in Pids : forked(pm[q]) /\ pm[q].parent \in F => q \in F
  BY <1>1, FamilyMembers, FamilyClosed
<1>3. pm1[pid] # NoProc
  BY ProcIsKnown
<1> HIDE DEF F
<1>4. /\ \A q \in Pids : /\ pm1[q] = NoProc <=> pm[q] = NoProc
                         /\ pm[q] # NoProc => pm1[q].parent = pm[q].parent
                         /\ forked(pm1[q]) <=> forked(pm[q])
      /\ Tree(pm1)
  BY <1>1, <1>3 DEF Tree, forked
<1>5. family(pm1, pid) = F
  <2>1. \A r \in Pids : children(pm1, r) = children(pm, r)
    BY <1>4 DEF children
  <2>2. \A r \in family(pm, pid) : children(pm1, r) = children(pm, r)
    BY <1>2, <2>1 DEF F
  <2> QED
    BY <2>2, FamilySame DEF F
<1>6. \A q \in Pids : forked(pm1[q]) /\ q # pid => HandedTo(pm1, q)
  <2> SUFFICES ASSUME NEW q \in Pids, forked(pm1[q]), q # pid, NEW s \in AllStarts,
                      Has(pm1, pm1[q].parent, s)
      PROVE  Has(pm1, q, s)
    BY DEF HandedTo
  <2>1. forked(pm[q]) /\ pm1[q].parent = pm[q].parent /\ pm[q].parent \in Pids
    BY <1>1, <1>4 DEF Tree, forked
  <2>2. Has(pm, pm[q].parent, s) => Has(pm, q, s)
    BY <1>1, <2>1 DEF HandedDown, HandedTo
  <2> QED
    BY <1>3, <2>1, <2>2 DEF Has
<1>7. /\ \A q \in Pids : /\ all[q] = NoProc <=> pm1[q] = NoProc
                         /\ pm1[q] # NoProc => all[q].parent = pm1[q].parent
                         /\ forked(all[q]) <=> forked(pm1[q])
      /\ Tree(all)
      /\ \A q \in Pids : forked(pm1[q]) /\ q # pid => HandedTo(all, q)
  <2>1. Tree(pm1) /\ pm1[pid] # NoProc
    BY <1>3, <1>4
  <2>2. \A q \in Pids : /\ all[q] = NoProc <=> pm1[q] = NoProc
                        /\ pm1[q] # NoProc => all[q].parent = pm1[q].parent
                        /\ forked(all[q]) <=> forked(pm1[q])
    BY <2>1, FamilyHanded
  <2>3. Tree(all)
    BY <2>1, FamilyHanded
  <2>4. ASSUME NEW q \in Pids, forked(pm1[q]), q # pid PROVE HandedTo(all, q)
    BY <1>6, <2>1, <2>4, FamilyHanded
  <2> QED
    BY <2>2, <2>3, <2>4
<1>8. /\ DOMAIN after = Pids /\ \A q \in Pids : q # pid => after[q] = all[q]
      /\ DOMAIN after[pid] = ProcFields /\ after[pid].parent = 0
      /\ after[pid].map = all[pid].map /\ after[pid].fromparent = all[pid].fromparent
      /\ after[pid] # NoProc
  BY ProcIsKnown DEF Orphaned
<1>9. Tree(after)
  <2>1. \A q \in Pids : after[q] = NoProc <=> all[q] = NoProc
    BY <1>3, <1>7, <1>8
  <2>2. \A s \in AllStarts : after[pid].fromparent[s] \in BOOLEAN
    BY <1>3, <1>7, <1>8 DEF Tree
  <2>3. ASSUME NEW q \in Pids, q # pid, after[q] # NoProc
        PROVE  /\ DOMAIN after[q] = ProcFields /\ after[q].parent \in Pids \cup {0}
               /\ \A s \in AllStarts : after[q].fromparent[s] \in BOOLEAN
               /\ after[q].parent # 0 => after[q].parent < q /\ all[after[q].parent] # NoProc
    BY <1>7, <1>8, <2>1, <2>3 DEF Tree
  <2> QED
    BY <1>8, <2>1, <2>2, <2>3 DEF Tree
<1>10. \A q \in Pids : forked(after[q]) =>
         q # pid /\ forked(pm1[q]) /\ forked(all[q]) /\ all[q].parent \in Pids
  BY <1>7, <1>8 DEF Tree, forked
<1>11. HandedDown(after)
  BY <1>7, <1>8, <1>10 DEF HandedDown, HandedTo, Has
<1>12. \A q \in Pids : q \notin F => after[q] = pm[q]
  BY <1>2, <1>3, <1>5, <1>8 DEF Handed
<1>13. ASSUME NEW q \in F, NEW s \in AllStarts, new[s] = NoMap
       PROVE  /\ after[q].map[s] = pm1[q].map[s]
              /\ after[q].fromparent[s] <=> pm1[q].fromparent[s]
  <2>1. after[q].map = all[q].map /\ after[q].fromparent = all[q].fromparent
    BY <1>2, <1>8
  <2> QED
    BY <1>5, <1>13, <2>1 DEF Handed
<1>14. ASSUME NEW q \in F, NEW s \in AllStarts, new[s] # NoMap
       PROVE  /\ after[q].map[s] = new[s]
              /\ after[q].fromparent[s] <=> q # pid /\ pm1[q].map[s] = NoMap
  <2>1. after[q].map = all[q].map /\ after[q].fromparent = all[q].fromparent
    BY <1>2, <1>8
  <2> QED
    BY <1>5, <1>14, <2>1 DEF Handed
<1>15. OwnKept(after, ow)
  <2> SUFFICES ASSUME NEW q \in Pids, NEW s \in AllStarts, ow[q][s] # NoMap
      PROVE  after[q] # NoProc /\ Has(after, q, s) /\ ~after[q].fromparent[s]
    BY DEF OwnKept
  <2>1. pm[q] # NoProc /\ Has(pm, q, s) /\ ~pm[q].fromparent[s]
    BY <1>1 DEF OwnKept
  <2>2. after[q] # NoProc
    BY <1>4, <1>7, <1>8, <2>1
  <2>3. CASE q = pid
    <3>1. new[s] # NoMap
      BY <2>1, <2>3 DEF Has
    <3> QED
      BY <1>2, <1>14, <2>2, <2>3, <3>1 DEF Has
  <2>4. CASE q # pid
    BY <1>3, <1>12, <1>13, <1>14, <2>1, <2>2, <2>4 DEF Has
  <2> QED
    BY <2>3, <2>4
<1>16. ASSUME NEW q \in Pids, after[q] # NoProc, q \notin mx2 PROVE Regular(after, ow, q)
  <2>1. Regular(pm, ow, q) /\ pm[q] # NoProc
    <3>1. pm[q] # NoProc
      BY <1>1, <1>4, <1>7, <1>8, <1>16
    <3> QED
      BY <1>16, <3>1 DEF ProcsInv
  <2>2. CASE q = pid
    <3> SUFFICES ASSUME NEW s \in AllStarts
        PROVE  after[q].map[s] = ow[q][s]
      BY <1>8, <1>10, <2>2 DEF Regular, Has
    <3>1. after[q].map[s] = new[s]
      BY <1>2, <1>3, <1>13, <1>14, <2>2
    <3>2. new[s] = IF pm[q].fromparent[s] THEN NoMap ELSE pm[q].map[s]
      BY <2>2
    <3>3. CASE ow[q][s] # NoMap
      BY <1>1, <2>1, <3>1, <3>2, <3>3 DEF OwnKept, Regular
    <3>4. CASE ow[q][s] = NoMap
      BY <2>1, <3>1, <3>2, <3>4 DEF Regular, Has
    <3> QED
      BY <3>3, <3>4
  <2>3. CASE q \notin F
    <3>1. q # pid /\ after[q] = pm[q]
      BY <1>2, <1>12, <2>3
    <3>2. forked(pm[q]) => pm[q].parent \in Pids /\ pm[q].parent \notin F
      BY <1>1, <1>2, <2>3 DEF Tree, forked
    <3>3. forked(pm[q]) => after[pm[q].parent] = pm[pm[q].parent]
      BY <1>12, <3>2
    <3> QED
      BY <2>1, <3>1, <3>3 DEF Regular, Has
  <2> QED
    BY <1>16, <2>2, <2>3 DEF descendants, F
<1>17. StillKnown(pm, after)
  BY <1>4, <1>7, <1>8 DEF StillKnown
<1> QED
  BY <1>9, <1>11, <1>15, <1>16, <1>17 DEF ProcsInv

\* What is done to a name leaves the mappings alone.
LEMMA NameChecked ==
  ASSUME NEW p, DOMAIN p = ProcFields, NEW m
  PROVE  SameMaps(p, check_mapping_for_appname(p, m))
BY DEF check_mapping_for_appname, SameMaps, ProcFields

LEMMA BestName ==
  ASSUME NEW p, DOMAIN p = ProcFields
  PROVE  SameMaps(p, find_best_match_appname_all_mappings(p))
<1> DEFINE Best[s \in SUBSET AllStarts] ==
             IF s = {} THEN p
             ELSE LET last == Max(s) IN check_mapping_for_appname(Best[s \ {last}], p.map[last])
           best == Best[{s \in AllStarts : p.map[s] # NoMap}]
<1>1. find_best_match_appname_all_mappings(p) =
        IF p.app = "unknown" THEN p
        ELSE [p EXCEPT !.app = best.app, !.matched = best.matched,
                       !.appname_valid = best.appname_valid, !.look = best.look]
  BY DEF find_best_match_appname_all_mappings
<1> HIDE DEF best
<1> QED
  BY <1>1 DEF SameMaps, ProcFields

LEMMA AppnameSet ==
  ASSUME NEW p, DOMAIN p = ProcFields, NEW appname, NEW full, NEW exe
  PROVE  SameMaps(p, set_appname(p, appname, full, exe))
<1> DEFINE found ==
             CASE exe = "taskset" -> [p EXCEPT !.app = "unknown"]
               [] exe # "gone" /\ exe # "taskset" ->
                    [p EXCEPT !.app = exe, !.appname_valid = TRUE]
               [] exe = "gone" /\ appname \in {"null", "taskset"} ->
                    [p EXCEPT !.app = "unknown"]
               [] OTHER -> [p EXCEPT !.app = appname, !.appname_valid = full,
                                     !.look = (@ \/ ~full)]
<1>1. SameMaps(p, found)
  BY DEF SameMaps, ProcFields
<1>2. \/ set_appname(p, appname, full, exe) = p
      \/ set_appname(p, appname, full, exe) = find_best_match_appname_all_mappings(p)
      \/ set_appname(p, appname, full, exe) = found
      \/ set_appname(p, appname, full, exe) = find_best_match_appname_all_mappings(found)
  BY DEF set_appname
<1> HIDE DEF found
<1>3. SameMaps(found, find_best_match_appname_all_mappings(found))
  BY <1>1, BestName DEF SameMaps
<1>4. SameMaps(p, find_best_match_appname_all_mappings(found))
  BY <1>1, <1>3 DEF SameMaps
<1> QED
  BY <1>1, <1>2, <1>4, BestName DEF SameMaps

\* A name that is valid stays, whatever a record says.
LEMMA NameStays ==
  ASSUME NEW p, is_appname_valid(p), NEW appname, NEW full, NEW exe
  PROVE  set_appname(p, appname, full, exe) = p
BY DEF set_appname, is_appname_valid

LEMMA NewIsFresh ==
  ASSUME NEW appname, NEW full, NEW valid, NEW exe
  PROVE  Fresh(operf_process_info(appname, full, valid, exe))
<1> DEFINE p == [valid |-> valid, appname_valid |-> FALSE, look |-> FALSE,
                 parent |-> 0, app |-> "", matched |-> -1,
                 map |-> [s \in AllStarts |-> NoMap],
                 fromparent |-> [s \in AllStarts |-> FALSE]]
<1>1. DOMAIN p = ProcFields
  BY DEF ProcFields
<1>2. Fresh(p)
  BY <1>1 DEF Fresh
<1>3. operf_process_info(appname, full, valid, exe) = set_appname(p, appname, full, exe)
  BY DEF operf_process_info
<1> HIDE DEF p
<1>4. SameMaps(p, set_appname(p, appname, full, exe))
  BY <1>1, AppnameSet
<1> QED
  BY <1>2, <1>3, <1>4 DEF Fresh, SameMaps

-----------------------------------------------------------------------------
(* The records                                                             *)

\* An MMAP record: a process that is not known yet is made, its name may be found.
LEMMA MmapInherits ==
  ASSUME ProcessesInv, NEW pid \in Pids, NEW m \in Mapped, NEW exe,
         __handle_mmap_event(pid, m, exe)
  PROVE  /\ ProcessesInv' /\ StillKnown(process_map, process_map')
         /\ NamesKept(process_map, process_map')
<1> DEFINE same == {k \in all_images : k.file = m.file /\ k.start = m.start}
           mapping == IF same # {} THEN CHOOSE k \in same : TRUE ELSE m
           name == NameFor(pid, "null")
           known == IF process_map[pid] # NoProc THEN process_map
                    ELSE [process_map EXCEPT ![pid] =
                            operf_process_info(name[1], name[2], FALSE, exe)]
           p == known[pid]
           named == IF ~p.appname_valid /\ ~forked(p) /\ p.look
                    THEN check_mapping_for_appname(p, mapping) ELSE p
           pm == [known EXCEPT ![pid] = named]
           x == m.start
           new == [s \in AllStarts |-> IF s = mapping.start THEN mapping ELSE NoMap]
           F == family(process_map, pid)
<1>1. /\ process_map' = set_new_mapping_recursive(pm, pid, new, FALSE)
      /\ mixed' = mixed \cup (Mixed(process_map, pid, {x}) \ {pid})
  BY DEF __handle_mmap_event, process_mapping
<1>2. /\ OwnType' /\ FirstInv' /\ Given' = [Given EXCEPT ![pid][x] = mapping]
      /\ mapping # NoMap /\ mapping.start = x /\ x \in AllStarts
  <2>1. /\ all_images' = IF m.anon THEN all_images \cup {mapping} ELSE all_images
        /\ own' = [own EXCEPT ![pid][m.start] = m]
        /\ first' = [k \in Anonymous |->
             IF first[k] = NoMap /\ k.file = m.file /\ k.start = m.start THEN m ELSE first[k]]
    BY DEF __handle_mmap_event
  <2>2. LET same_place == {k \in all_images : k.file = m.file /\ k.start = m.start}
        IN mapping = IF same_place # {} THEN CHOOSE k \in same_place : TRUE ELSE m
    OBVIOUS
  <2>3. OwnType /\ FirstInv /\ x \in AllStarts
    BY ConvertAssumption DEF ProcessesInv
  <2> HIDE DEF mapping
  <2> QED
    BY <2>1, <2>2, <2>3, FirstGiven
<1>3. OwnType /\ ProcsInv(process_map, Given, mixed)
  BY DEF ProcessesInv
<1>4. /\ ProcsInv(known, Given, mixed) /\ known[pid] # NoProc /\ StillKnown(process_map, known)
      /\ \A r \in Pids : children(known, r) = children(process_map, r)
      /\ \A q \in Pids : q # pid => known[q] = process_map[q]
  <2>1. CASE process_map[pid] # NoProc
    BY <1>3, <2>1 DEF StillKnown
  <2>2. CASE process_map[pid] = NoProc
    <3> DEFINE new_proc == operf_process_info(name[1], name[2], FALSE, exe)
    <3>1. Fresh(new_proc)
      BY NewIsFresh
    <3>2. known = [process_map EXCEPT ![pid] = new_proc]
      BY <2>2
    <3> HIDE DEF new_proc, known
    <3>3. /\ Fresh(known[pid]) /\ known[pid] # NoProc /\ DOMAIN known = Pids
          /\ \A q \in Pids : q # pid => known[q] = process_map[q]
      BY <1>3, <3>1, <3>2, ProcIsKnown DEF ProcsInv, Tree, Fresh
    <3>4. /\ ProcsInv(known, Given, mixed) /\ StillKnown(process_map, known)
          /\ \A r \in Pids : children(known, r) = children(process_map, r)
      BY <1>3, <2>2, <3>3, NewProcess
    <3> QED
      BY <3>3, <3>4
  <2> QED
    BY <2>1, <2>2
<1> HIDE DEF known, mapping, new
<1>5. DOMAIN known = Pids /\ DOMAIN known[pid] = ProcFields
  BY <1>4 DEF ProcsInv, Tree
<1>6. SameMaps(known[pid], named)
  BY <1>5, NameChecked DEF SameMaps
<1> HIDE DEF named
<1>7. DOMAIN pm = Pids /\ pm[pid] = named /\ \A q \in Pids : q # pid => pm[q] = known[q]
  BY <1>5
<1> HIDE DEF pm
<1>8. \A q \in Pids : /\ known[q] = NoProc => pm[q] = NoProc
                      /\ known[q] # NoProc => SameMaps(known[q], pm[q])
  BY <1>4, <1>6, <1>7 DEF SameMaps, ProcsInv, Tree
<1>9. ProcsInv(pm, Given, mixed) /\ pm[pid] # NoProc /\ StillKnown(known, pm)
  <2>1. ProcsInv(pm, Given, mixed) /\ StillKnown(known, pm)
    BY <1>4, <1>7, <1>8, Renaming
  <2> QED
    BY <2>1, <1>6, <1>7, ProcIsKnown DEF SameMaps
<1>10. family(pm, pid) = F
  <2>1. \A r \in Pids : children(pm, r) = children(known, r)
    BY <1>4, <1>6, <1>7, <1>9 DEF children, SameMaps
  <2>2. \A r \in family(process_map, pid) : children(pm, r) = children(process_map, r)
    BY <1>4, <2>1, FamilyClosed
  <2> QED
    BY <2>2, FamilySame
<1> HIDE DEF F, x
<1>11. Handed(pm, pid, new, FALSE, process_map')
  <2>1. Tree(pm)
    BY <1>9 DEF ProcsInv
  <2> QED
    BY <1>1, <1>9, <2>1, Handing
<1>12. \A s \in AllStarts : new[s] = IF s = x THEN mapping ELSE NoMap
  BY <1>2 DEF new
<1>13. \A q \in F : q # pid /\ Has(pm, q, x) => q \in mixed'
  <2> SUFFICES ASSUME NEW q \in F, q # pid, Has(pm, q, x) PROVE q \in mixed'
    OBVIOUS
  <2>1. q \in Pids /\ pm[q] # NoProc
    BY <1>9, <1>10, FamilyMembers, FamilyClosed DEF ProcsInv
  <2>2. pm[q] = process_map[q]
    BY <1>4, <1>7, <2>1
  <2> QED
    BY <1>1, <2>1, <2>2 DEF Mixed, descendants, Has, F
<1>14. mixed \subseteq mixed' /\ DOMAIN Given = Pids /\ DOMAIN Given[pid] = AllStarts
  BY <1>1 DEF Given
<1>15. ProcsInv(process_map', Given', mixed') /\ StillKnown(pm, process_map')
  <2>1. \A q \in family(pm, pid) : q # pid /\ Has(pm, q, x) => q \in mixed'
    BY <1>10, <1>13
  <2>2. ASSUME NEW after, NEW ow2, NEW mx2, Handed(pm, pid, new, FALSE, after),
               ow2 = [Given EXCEPT ![pid][x] = mapping], mixed \subseteq mx2,
               \A q \in family(pm, pid) : q # pid /\ Has(pm, q, x) => q \in mx2
        PROVE  ProcsInv(after, ow2, mx2) /\ StillKnown(pm, after)
    <3>1. ProcsInv(pm, Given, mixed)
      BY <1>9
    <3>2. ProcsInv(after, ow2, mx2)
      BY <1>2, <1>9, <1>12, <1>14, <2>2, <3>1, MappingHanded
    <3>3. StillKnown(pm, after)
      BY <2>2, HandedKnown
    <3> QED
      BY <3>2, <3>3
  <2> QED
    BY <1>2, <1>11, <1>14, <2>1, <2>2
<1>16. OwnType' /\ FirstInv'
  BY <1>2
<1>17. ASSUME NEW q \in Pids, process_map[q] # NoProc, is_appname_valid(process_map[q])
       PROVE  is_appname_valid(process_map'[q]) /\ process_map'[q].app = process_map[q].app
  <2>1. known[q] = process_map[q]
    BY <1>4, <1>17 DEF known
  <2>2. pm[q] = process_map[q]
    BY <1>7, <1>17, <2>1 DEF named, is_appname_valid
  <2>3. SameName(pm[q], process_map'[q])
    BY <1>11 DEF Handed, SameName
  <2> QED
    BY <1>17, <2>2, <2>3 DEF SameName, is_appname_valid
<1> QED
  BY <1>4, <1>9, <1>15, <1>16, <1>17 DEF ProcessesInv, StillKnown, NamesKept

\* A FORK record: the parent may be new, and so may the process; one that is valid
\* or has a parent already stays as it is.
LEMMA ForkInherits ==
  ASSUME ProcessesInv, NEW pid \in Pids, NEW ppid \in Pids, ppid <= pid, NEW exe,
         __handle_fork_event(pid, ppid, exe)
  PROVE  /\ ProcessesInv' /\ StillKnown(process_map, process_map')
         /\ Unmoved(process_map, process_map', mixed')
<1> DEFINE new_parent == IF app_PID # 0
                         THEN operf_process_info("app_name", TRUE, FALSE, exe)
                         ELSE operf_process_info("null", FALSE, FALSE, exe)
           parent == IF process_map[ppid] # NoProc THEN process_map
                     ELSE [process_map EXCEPT ![ppid] = new_parent]
           new_proc == operf_process_info("null", FALSE, FALSE, exe)
           known == IF parent[pid] = NoProc THEN [parent EXCEPT ![pid] = new_proc] ELSE parent
           starts == {s \in AllStarts : process_map[ppid].map[s] # NoMap}
<1>1. /\ \/ process_map' = parent /\ (pid = ppid \/ parent[pid] # NoProc)
         \/ /\ process_map' = set_fork_info(known, pid, ppid) /\ pid # ppid
            /\ parent[pid] = NoProc \/ ~forked(parent[pid])
      /\ OwnType' /\ FirstInv' /\ Given' = Given
  <2>1. UNCHANGED <<own, first, all_images>>
    BY DEF __handle_fork_event
  <2> QED
    BY <2>1, GivenSame DEF __handle_fork_event, ProcessesInv
<1>2. mixed' = mixed \cup
        (IF ~forked(process_map[pid]) /\ forked(process_map'[pid]) /\ process_map[ppid] # NoProc
         THEN Mixed(process_map, pid, starts) ELSE {})
  BY DEF __handle_fork_event
<1> HIDE DEF starts
<1>3. mixed \subseteq mixed'
  BY <1>2
<1> USE DEF starts
<1>4. OwnType /\ ProcsInv(process_map, Given, mixed)
  BY DEF ProcessesInv
<1>5. /\ ProcsInv(parent, Given, mixed) /\ parent[ppid] # NoProc
      /\ \A q \in Pids : q # ppid => parent[q] = process_map[q]
      /\ \A r \in Pids : children(parent, r) = children(process_map, r)
      /\ process_map[ppid] = NoProc => Fresh(parent[ppid])
      /\ process_map[ppid] # NoProc => parent[ppid] = process_map[ppid]
  <2>1. CASE process_map[ppid] # NoProc
    BY <1>4, <2>1
  <2>2. CASE process_map[ppid] = NoProc
    <3>1. Fresh(new_parent)
      BY NewIsFresh
    <3>2. parent = [process_map EXCEPT ![ppid] = new_parent]
      BY <2>2
    <3> HIDE DEF new_parent, parent
    <3>3. /\ Fresh(parent[ppid]) /\ parent[ppid] # NoProc /\ DOMAIN parent = Pids
          /\ \A q \in Pids : q # ppid => parent[q] = process_map[q]
      BY <1>4, <3>1, <3>2, ProcIsKnown DEF ProcsInv, Tree, Fresh
    <3>4. /\ ProcsInv(parent, Given, mixed)
          /\ \A r \in Pids : children(parent, r) = children(process_map, r)
      BY <1>4, <2>2, <3>3, NewProcess
    <3> QED
      BY <2>2, <3>3, <3>4
  <2> QED
    BY <2>1, <2>2
<1> HIDE DEF parent
<1>6. CASE process_map' = parent
  <2>1. ProcsInv(process_map', Given', mixed')
    <3>1. ASSUME NEW mx2, mixed \subseteq mx2 PROVE ProcsInv(parent, Given, mx2)
      BY <1>5, <3>1 DEF ProcsInv
    <3> QED
      BY <1>1, <1>3, <1>6, <3>1
  <2>2. \A q \in Pids : process_map[q] # NoProc => parent[q] = process_map[q]
    BY <1>5
  <2> QED
    BY <1>1, <1>4, <1>6, <2>1, <2>2 DEF ProcessesInv, StillKnown, Unmoved, SameName
<1>7. CASE /\ process_map' = set_fork_info(known, pid, ppid) /\ pid # ppid
           /\ parent[pid] = NoProc \/ ~forked(parent[pid])
  <2>1. /\ ProcsInv(known, Given, mixed) /\ known[pid] # NoProc
        /\ \A q \in Pids : q # pid => known[q] = parent[q]
        /\ \A r \in Pids : children(known, r) = children(parent, r)
        /\ ~forked(known[pid])
        /\ parent[pid] = NoProc => Fresh(known[pid])
        /\ parent[pid] # NoProc => known[pid] = parent[pid]
    <3>1. CASE parent[pid] # NoProc
      BY <1>5, <1>7, <3>1
    <3>2. CASE parent[pid] = NoProc
      <4>1. Fresh(new_proc)
        BY NewIsFresh
      <4>2. known = [parent EXCEPT ![pid] = new_proc]
        BY <3>2
      <4> HIDE DEF new_proc, known
      <4>3. /\ Fresh(known[pid]) /\ known[pid] # NoProc /\ DOMAIN known = Pids
            /\ \A q \in Pids : q # pid => known[q] = parent[q]
        BY <1>5, <4>1, <4>2, ProcIsKnown DEF ProcsInv, Tree, Fresh
      <4>4. /\ ProcsInv(known, Given, mixed)
            /\ \A r \in Pids : children(known, r) = children(parent, r)
        BY <1>5, <3>2, <4>3, NewProcess
      <4> QED
        BY <3>2, <4>3, <4>4 DEF Fresh, forked
    <3> QED
      BY <3>1, <3>2
  <2> HIDE DEF known
  <2> DEFINE pm1 == [known EXCEPT ![pid].parent = ppid]
             new == known[ppid].map
             F == family(known, pid)
  <2>2. DOMAIN known = Pids /\ DOMAIN known[pid] = ProcFields /\ known[ppid] = parent[ppid]
    BY <1>7, <2>1 DEF ProcsInv, Tree
  <2>3. /\ DOMAIN pm1 = Pids /\ \A q \in Pids : q # pid => pm1[q] = known[q]
        /\ DOMAIN pm1[pid] = ProcFields /\ pm1[pid].parent = ppid
        /\ pm1[pid].map = known[pid].map /\ pm1[pid].fromparent = known[pid].fromparent
        /\ SameName(known[pid], pm1[pid])
    BY <2>2 DEF ProcFields, SameName
  <2>4. process_map' = set_new_mapping_recursive(pm1, pid, new, TRUE)
    BY <1>7 DEF set_fork_info
  <2>5. ppid < pid /\ 0 \notin Pids
    BY <1>7, ConvertAssumption
  <2> HIDE DEF pm1
  <2>6. Tree(pm1) /\ pm1[pid] # NoProc
    <3>1. pm1[pid] # NoProc
      BY <2>3, ProcIsKnown
    <3>2. known[ppid] # NoProc
      BY <1>5, <2>2
    <3> QED
      BY <2>1, <2>3, <2>5, <3>1, <3>2 DEF ProcsInv, Tree
  <2> HIDE DEF new
  <2>7. Handed(pm1, pid, new, TRUE, process_map')
    BY <2>4, <2>6, Handing
  <2>8. ASSUME NEW q \in F, NEW s \in AllStarts, Has(known, ppid, s), Has(known, q, s)
        PROVE  q \in mixed'
    <3>1. q \in Pids /\ known[q] # NoProc /\ q >= pid
      BY <2>1, FamilyMembers, FamilyClosed DEF ProcsInv
    <3>2. Has(process_map, ppid, s) /\ process_map[ppid] # NoProc
      BY <1>5, <2>2, <2>8 DEF Has, Fresh
    <3>3. q # ppid
      BY <2>5, <3>1, ConvertAssumption
    <3>4. known[q] = process_map[q]
      <4>1. CASE q = pid /\ parent[pid] = NoProc
        BY <2>1, <2>8, <4>1 DEF Has, Fresh
      <4>2. CASE ~(q = pid /\ parent[pid] = NoProc)
        BY <1>5, <2>1, <3>1, <3>3, <4>2
      <4> QED
        BY <4>1, <4>2
    <3>5. F = family(process_map, pid)
      <4>1. \A r \in family(process_map, pid) : children(known, r) = children(process_map, r)
        BY <1>5, <2>1, FamilyClosed
      <4> QED
        BY <4>1, FamilySame
    <3>6. ~forked(process_map[pid]) /\ forked(process_map'[pid])
      <4>1. ~forked(process_map[pid])
        BY <1>5, <1>7 DEF forked
      <4>2. /\ pid \in family(pm1, pid)
            /\ process_map'[pid].parent = ppid /\ DOMAIN process_map'[pid] = ProcFields
        BY <2>3, <2>7, FamilyClosed DEF Handed
      <4> QED
        BY <2>5, <4>1, <4>2, ProcIsKnown DEF forked
    <3>7. q \in Mixed(process_map, pid, starts)
      BY <2>8, <3>1, <3>2, <3>4, <3>5 DEF Mixed, descendants, Has
    <3> QED
      BY <1>2, <3>2, <3>6, <3>7
  <2>9. ASSUME NEW after, NEW mx2, Handed(pm1, pid, new, TRUE, after), mixed \subseteq mx2,
               \A q \in F, s \in AllStarts :
                 Has(known, ppid, s) /\ Has(known, q, s) => q \in mx2
        PROVE  ProcsInv(after, Given, mx2) /\ StillKnown(known, after) /\ Unmoved(known, after, mx2)
    <3>1. known[ppid] # NoProc /\ \A s \in AllStarts : new[s] = known[ppid].map[s]
      BY <1>5, <2>2 DEF new
    <3>2. Adopted(known, pid, ppid, pm1)
      BY <2>3 DEF Adopted
    <3> QED
      BY <2>1, <2>5, <2>9, <3>1, <3>2, Forking
  <2>10. /\ ProcsInv(process_map', Given', mixed')
         /\ StillKnown(known, process_map') /\ Unmoved(known, process_map', mixed')
    BY <1>1, <1>3, <2>7, <2>8, <2>9
  <2>11. \A q \in Pids : process_map[q] # NoProc => known[q] = process_map[q]
    BY <1>5, <2>1
  <2> QED
    BY <1>1, <1>4, <2>10, <2>11 DEF ProcessesInv, StillKnown, Unmoved, Has
<1> QED
  BY <1>1, <1>6, <1>7

\* One process that keeps its mappings and its parent
LEMMA OneRenamed ==
  ASSUME NEW pm, NEW ow, NEW mx, ProcsInv(pm, ow, mx), NEW pid \in Pids, pm[pid] # NoProc,
         NEW p, SameMaps(pm[pid], p)
  PROVE  ProcsInv([pm EXCEPT ![pid] = p], ow, mx) /\ StillKnown(pm, [pm EXCEPT ![pid] = p])
<1> DEFINE pm2 == [pm EXCEPT ![pid] = p]
<1>1. DOMAIN pm2 = Pids /\ pm2[pid] = p /\ \A q \in Pids : q # pid => pm2[q] = pm[q]
  BY DEF ProcsInv, Tree
<1> HIDE DEF pm2
<1>2. \A q \in Pids : /\ pm[q] = NoProc => pm2[q] = NoProc
                      /\ pm[q] # NoProc => SameMaps(pm[q], pm2[q])
  BY <1>1 DEF SameMaps, ProcsInv, Tree
<1>3. ProcsInv(pm2, ow, mx) /\ StillKnown(pm, pm2)
  BY <1>1, <1>2, Renaming
<1> QED
  BY <1>3 DEF pm2

\* pid is not forked any more; others keep their names, and those that it has not
\* forked keep everything.
Parted(pm, pid, after) ==
  /\ ~forked(after[pid])
  /\ \A q \in Pids \ {pid} : SameName(pm[q], after[q])
  /\ \A q \in Pids \ family(pm, pid) : after[q] = pm[q]

\* What try_disassociate_from_parent does to the processes
LEMMA DisassociationInherits ==
  ASSUME NEW pm, NEW ow, NEW mx, ProcsInv(pm, ow, mx), NEW pid \in Pids, forked(pm[pid]),
         NEW comm, NEW exe, NEW mx2, mx \subseteq mx2, descendants(pm, pid) \subseteq mx2
  PROVE  /\ ProcsInv(try_disassociate_from_parent(pm, pid, comm, exe), ow, mx2)
         /\ StillKnown(pm, try_disassociate_from_parent(pm, pid, comm, exe))
         /\ Parted(pm, pid, try_disassociate_from_parent(pm, pid, comm, exe))
<1> DEFINE new_name == set_appname(pm[pid], comm, FALSE, exe)
           named == [new_name EXCEPT !.valid = TRUE]
           gone == {s \in AllStarts : named.fromparent[s] /\ named.map[s] # NoMap}
           kept == [named EXCEPT
                      !.map = [s \in AllStarts |-> IF s \in gone THEN NoMap ELSE @[s]],
                      !.fromparent = [s \in AllStarts |-> s \notin gone /\ @[s]]]
           pm1 == [pm EXCEPT ![pid] = kept]
           new == kept.map
           all == set_new_mapping_recursive(pm1, pid, new, FALSE)
           after == [all EXCEPT ![pid].parent = 0]
<1>1. try_disassociate_from_parent(pm, pid, comm, exe) = after
  BY DEF try_disassociate_from_parent
<1>2. /\ Tree(pm) /\ pm[pid] # NoProc /\ pm[pid].parent \in Pids /\ DOMAIN pm[pid] = ProcFields
      /\ \A s \in AllStarts : pm[pid].fromparent[s] \in BOOLEAN
  BY DEF ProcsInv, Tree, forked
<1>3. SameMaps(pm[pid], named)
  <2>1. SameMaps(pm[pid], new_name)
    BY <1>2, AppnameSet
  <2> HIDE DEF new_name
  <2> QED
    BY <2>1 DEF SameMaps, ProcFields
<1> HIDE DEF named
<1>4. DOMAIN pm1 = Pids /\ pm1[pid] = kept /\ \A q \in Pids : q # pid => pm1[q] = pm[q]
  BY <1>2 DEF Tree
<1>5. /\ DOMAIN kept = ProcFields /\ kept.parent = pm[pid].parent
      /\ kept.map = [s \in AllStarts |-> IF s \in gone THEN NoMap ELSE named.map[s]]
      /\ kept.fromparent = [s \in AllStarts |-> s \notin gone /\ named.fromparent[s]]
  BY <1>3 DEF SameMaps, ProcFields
<1> HIDE DEF kept, pm1
<1>6. ASSUME NEW s \in AllStarts
      PROVE  /\ kept.fromparent[s] \in BOOLEAN
             /\ kept.map[s] = IF pm[pid].fromparent[s] THEN NoMap ELSE pm[pid].map[s]
  BY <1>2, <1>3, <1>5 DEF SameMaps
<1>7. kept # NoProc
  BY <1>5, ProcIsKnown
<1>8. Tree(pm1)
  <2> SUFFICES ASSUME NEW q \in Pids, pm1[q] # NoProc
      PROVE  /\ DOMAIN pm1[q] = ProcFields /\ pm1[q].parent \in Pids \cup {0}
             /\ \A s \in AllStarts : pm1[q].fromparent[s] \in BOOLEAN
             /\ pm1[q].parent # 0 => pm1[q].parent < q /\ pm1[pm1[q].parent] # NoProc
    BY <1>4 DEF Tree
  <2>1. \A r \in Pids : pm[r] # NoProc => pm1[r] # NoProc
    BY <1>4, <1>7
  <2>2. pm[q] # NoProc
    BY <1>2, <1>4
  <2>3. pm1[q].parent = pm[q].parent /\ DOMAIN pm1[q] = ProcFields
    BY <1>2, <1>4, <1>5, <2>2 DEF Tree
  <2>4. \A s \in AllStarts : pm1[q].fromparent[s] \in BOOLEAN
    BY <1>2, <1>4, <1>6, <2>2 DEF Tree
  <2> QED
    BY <1>2, <2>1, <2>2, <2>3, <2>4 DEF Tree
<1>9. Handed(pm1, pid, new, FALSE, all)
  <2> HIDE DEF new
  <2> QED
    BY <1>4, <1>7, <1>8, Handing
<1> HIDE DEF all
<1>10. DOMAIN all = Pids /\ DOMAIN all[pid] = ProcFields
  BY <1>9, FamilyClosed DEF Handed
<1>11. /\ DOMAIN after = Pids /\ \A q \in Pids : q # pid => after[q] = all[q]
       /\ after[pid] = [all[pid] EXCEPT !.parent = 0]
  BY <1>10
<1> HIDE DEF after
<1>12. /\ DOMAIN after[pid] = ProcFields /\ after[pid].parent = 0
       /\ after[pid].map = all[pid].map /\ after[pid].fromparent = all[pid].fromparent
  BY <1>10, <1>11 DEF ProcFields
<1>13. \A s \in AllStarts :
         /\ pm1[pid].fromparent[s] \in BOOLEAN
         /\ pm1[pid].map[s] = IF pm[pid].fromparent[s] THEN NoMap ELSE pm[pid].map[s]
         /\ new[s] = pm1[pid].map[s]
  BY <1>4, <1>6
<1>14. DOMAIN pm1[pid] = ProcFields /\ pm1[pid].parent = pm[pid].parent
  BY <1>4, <1>5
<1> HIDE DEF new
<1>15. ProcsInv(after, ow, mx2) /\ StillKnown(pm, after)
  <2>1. DOMAIN pm1 = Pids /\ \A q \in Pids : q # pid => pm1[q] = pm[q]
    BY <1>4
  <2>2. Orphaned(all, pid, after)
    BY <1>11, <1>12 DEF Orphaned
  <2> QED
    BY <1>9, <1>13, <1>14, <2>1, <2>2, Disassociating
<1>16. \A q \in Pids \ {pid} : SameName(pm[q], after[q])
  BY <1>4, <1>9, <1>11 DEF Handed, SameName
<1>17. \A q \in Pids \ family(pm, pid) : after[q] = pm[q]
  <2>1. \A r \in Pids : children(pm1, r) = children(pm, r)
    BY <1>2, <1>4, <1>5, <1>7 DEF children
  <2>2. \A r \in family(pm, pid) : children(pm1, r) = children(pm, r)
    BY <2>1, FamilyClosed
  <2>3. family(pm1, pid) = family(pm, pid)
    BY <2>2, FamilySame
  <2> QED
    BY <1>4, <1>9, <1>11, <2>3, FamilyClosed DEF Handed
<1> QED
  BY <1>1, <1>12, <1>15, <1>16, <1>17 DEF forked, Parted

\* A COMM record: a process that is forked leaves its parent, others get a name.
LEMMA CommInherits ==
  ASSUME ProcessesInv, NEW pid \in Pids, NEW main, NEW comm, NEW exe,
         __handle_comm_event(pid, main, comm, exe)
  PROVE  /\ ProcessesInv' /\ StillKnown(process_map, process_map')
         /\ NamesKept(process_map, process_map') /\ MapsKept(process_map, process_map', mixed')
<1> DEFINE p == process_map[pid]
           name == NameFor(pid, comm)
           new_proc == operf_process_info(name[1], name[2], main, exe)
           parted == try_disassociate_from_parent(process_map, pid, comm, exe)
           valid == [p EXCEPT !.valid = TRUE]
<1>1. \/ p = NoProc /\ process_map' = [process_map EXCEPT ![pid] = new_proc]
      \/ process_map' = process_map
      \/ p # NoProc /\ forked(p) /\ ~p.valid /\ process_map' = parted
      \/ /\ p # NoProc
         /\ process_map' = [process_map EXCEPT ![pid] = set_appname(valid, comm, FALSE, exe)]
      \/ /\ p # NoProc
         /\ process_map' = [process_map EXCEPT ![pid] = set_appname(p, comm, FALSE, exe)]
  BY DEF __handle_comm_event
<1>2. /\ OwnType' /\ FirstInv' /\ Given' = Given
      /\ mixed' = mixed \cup (IF forked(process_map[pid]) /\ ~forked(process_map'[pid])
                              THEN descendants(process_map, pid) ELSE {})
  BY GivenSame DEF __handle_comm_event, ProcessesInv
<1>3. mixed \subseteq mixed'
  BY <1>2
<1>4. OwnType /\ ProcsInv(process_map, Given, mixed)
  BY DEF ProcessesInv
<1>5. p # NoProc => DOMAIN p = ProcFields
  BY <1>4 DEF ProcsInv, Tree
<1> HIDE DEF new_proc, parted
<1>6. ASSUME NEW pm, ProcsInv(pm, Given, mixed) PROVE ProcsInv(pm, Given, mixed')
  BY <1>3, <1>6 DEF ProcsInv
<1>7. ASSUME p # NoProc, forked(p)
      PROVE  /\ Parted(process_map, pid, parted) /\ StillKnown(process_map, parted)
             /\ \A mx2 : mixed \subseteq mx2 /\ descendants(process_map, pid) \subseteq mx2 =>
                  ProcsInv(parted, Given, mx2)
  <2>1. ASSUME NEW mx2, mixed \subseteq mx2, descendants(process_map, pid) \subseteq mx2
        PROVE  /\ ProcsInv(parted, Given, mx2) /\ StillKnown(process_map, parted)
               /\ Parted(process_map, pid, parted)
    BY <1>4, <1>7, <2>1, DisassociationInherits DEF parted
  <2> DEFINE mx == mixed \cup descendants(process_map, pid)
  <2>2. mixed \subseteq mx /\ descendants(process_map, pid) \subseteq mx
    OBVIOUS
  <2> HIDE DEF mx
  <2> QED
    BY <2>1, <2>2
<1>8. ProcsInv(process_map', Given, mixed') /\ StillKnown(process_map, process_map')
  <2>1. CASE p = NoProc /\ process_map' = [process_map EXCEPT ![pid] = new_proc]
    <3>1. Fresh(new_proc)
      BY NewIsFresh DEF new_proc
    <3> DEFINE pm2 == [process_map EXCEPT ![pid] = new_proc]
    <3>2. /\ DOMAIN pm2 = Pids /\ pm2[pid] = new_proc
          /\ \A q \in Pids : q # pid => pm2[q] = process_map[q]
      BY <1>4 DEF ProcsInv, Tree
    <3> HIDE DEF pm2
    <3>3. ProcsInv(pm2, Given, mixed) /\ StillKnown(process_map, pm2)
      BY <1>4, <2>1, <3>1, <3>2, NewProcess
    <3> QED
      BY <1>6, <2>1, <3>3 DEF pm2
  <2>2. CASE process_map' = process_map
    BY <1>4, <1>6, <2>2 DEF StillKnown
  <2>3. CASE p # NoProc /\ forked(p) /\ ~p.valid /\ process_map' = parted
    <3>1. descendants(process_map, pid) \subseteq mixed'
      BY <1>2, <1>7, <2>3 DEF Parted
    <3> QED
      BY <1>3, <1>7, <2>3, <3>1
  <2>4. CASE /\ p # NoProc
             /\ process_map' = [process_map EXCEPT ![pid] = set_appname(valid, comm, FALSE, exe)]
    <3>1. SameMaps(p, valid)
      BY <1>5, <2>4 DEF SameMaps, ProcFields
    <3> HIDE DEF valid
    <3>2. SameMaps(valid, set_appname(valid, comm, FALSE, exe))
      <4>1. DOMAIN valid = ProcFields
        BY <3>1 DEF SameMaps
      <4> QED
        BY <4>1, AppnameSet
    <3>3. SameMaps(p, set_appname(valid, comm, FALSE, exe))
      BY <3>1, <3>2 DEF SameMaps
    <3>4. /\ ProcsInv([process_map EXCEPT ![pid] = set_appname(valid, comm, FALSE, exe)], Given, mixed)
          /\ StillKnown(process_map,
                        [process_map EXCEPT ![pid] = set_appname(valid, comm, FALSE, exe)])
      BY <1>4, <2>4, <3>3, OneRenamed
    <3> QED
      BY <1>6, <2>4, <3>4
  <2>5. CASE /\ p # NoProc
             /\ process_map' = [process_map EXCEPT ![pid] = set_appname(p, comm, FALSE, exe)]
    <3>1. SameMaps(p, set_appname(p, comm, FALSE, exe))
      BY <1>5, <2>5, AppnameSet
    <3>2. /\ ProcsInv([process_map EXCEPT ![pid] = set_appname(p, comm, FALSE, exe)], Given, mixed)
          /\ StillKnown(process_map,
                        [process_map EXCEPT ![pid] = set_appname(p, comm, FALSE, exe)])
      BY <1>4, <2>5, <3>1, OneRenamed
    <3> QED
      BY <1>6, <2>5, <3>2
  <2> HIDE DEF valid, p
  <2> QED
    BY <1>1, <2>1, <2>2, <2>3, <2>4, <2>5
\* A process with a valid name is not the one of the record, or gets no other name.
<1>9. NamesKept(process_map, process_map') /\ MapsKept(process_map, process_map', mixed')
  <2> SUFFICES ASSUME NEW q \in Pids, process_map[q] # NoProc, is_appname_valid(process_map[q])
      PROVE  /\ is_appname_valid(process_map'[q]) /\ process_map'[q].app = process_map[q].app
             /\ q \notin mixed' =>
                  \A s \in AllStarts : Has(process_map, q, s) =>
                    process_map'[q].map[s] = process_map[q].map[s]
    BY DEF NamesKept, MapsKept
  <2> HIDE DEF p
  <2>1. CASE process_map'[q] = process_map[q]
    BY <2>1
  <2>2. CASE q # pid /\ p # NoProc /\ forked(p) /\ ~p.valid /\ process_map' = parted
    <3>1. /\ ~forked(parted[pid]) /\ SameName(process_map[q], parted[q])
          /\ q \notin family(process_map, pid) => parted[q] = process_map[q]
      BY <1>7, <2>2 DEF Parted
    <3>2. q \in family(process_map, pid) => q \in mixed'
      BY <1>2, <2>2, <3>1 DEF descendants, p
    <3> QED
      BY <2>2, <3>1, <3>2 DEF SameName, is_appname_valid
  <2>3. CASE q = pid /\ p # NoProc /\ ~p.valid /\ process_map' = parted
    BY <2>3 DEF p, is_appname_valid
  <2>4. CASE /\ q = pid
             /\ process_map' = [process_map EXCEPT ![pid] = set_appname(valid, comm, FALSE, exe)]
    <3>1. is_appname_valid(p) /\ DOMAIN p = ProcFields
      BY <1>5, <2>4 DEF p
    <3>2. is_appname_valid(valid) /\ valid.app = p.app /\ valid.map = p.map
      BY <3>1 DEF is_appname_valid, ProcFields
    <3> HIDE DEF valid
    <3>3. set_appname(valid, comm, FALSE, exe) = valid
      BY <3>2, NameStays
    <3>4. process_map'[pid] = valid
      BY <1>4, <2>4, <3>3 DEF ProcsInv, Tree
    <3> QED
      BY <2>4, <3>2, <3>4 DEF p
  <2>5. CASE /\ q = pid
             /\ process_map' = [process_map EXCEPT ![pid] = set_appname(p, comm, FALSE, exe)]
    <3>1. set_appname(p, comm, FALSE, exe) = process_map[q]
      BY <2>5, NameStays DEF p
    <3>2. process_map'[q] = process_map[q]
      BY <1>4, <2>5, <3>1 DEF ProcsInv, Tree
    <3> QED
      BY <2>1, <3>2
  <2> QED
    BY <1>1, <1>4, <2>1, <2>2, <2>3, <2>4, <2>5 DEF ProcsInv, Tree, p
<1> QED
  BY <1>2, <1>8, <1>9 DEF ProcessesInv

\* The greatest of some naturals
LEMMA Greatest ==
  ASSUME NEW S, S \subseteq Nat, NEW x \in S, \A y \in S : y <= x
  PROVE  Max(S) = x
<1>1. Max(S) \in S /\ \A y \in S : Max(S) >= y
  <2>1. \E z \in S : \A y \in S : z >= y
    OBVIOUS
  <2> QED
    BY <2>1 DEF Max
<1> DEFINE m == Max(S)
<1>2. m \in S /\ m >= x
  BY <1>1
<1> HIDE DEF m
<1>3. m \in Nat /\ x \in Nat /\ m <= x
  BY <1>2
<1>4. m = x
  BY <1>2, <1>3
<1> QED
  BY <1>4 DEF m

\* Before the samples are tried again, processes get the names of their parents.
LEMMA ConnectionInherits ==
  ASSUME ProcessesInv, ConnectProcesses
  PROVE  /\ ProcessesInv' /\ StillKnown(process_map, process_map')
         /\ NamesKept(process_map, process_map') /\ MapsKept(process_map, process_map', mixed')
<1>1. /\ process_map' = [p \in Pids |->
           IF process_map[p] = NoProc THEN NoProc
           ELSE [process_map[p] EXCEPT !.appname_valid = TRUE, !.valid = TRUE, !.app = app_name(p)]]
      /\ OwnType' /\ FirstInv' /\ Given' = Given /\ mixed' = mixed
  BY GivenSame DEF ConnectProcesses, ProcessesInv
<1>2. OwnType /\ ProcsInv(process_map, Given, mixed)
  BY DEF ProcessesInv
<1>3. DOMAIN process_map' = Pids
  BY <1>1
<1>4. ASSUME NEW q \in Pids
      PROVE  /\ process_map[q] = NoProc => process_map'[q] = NoProc
             /\ process_map[q] # NoProc => SameMaps(process_map[q], process_map'[q])
  <2>1. CASE process_map[q] = NoProc
    BY <1>1, <2>1
  <2>2. CASE process_map[q] # NoProc
    <3>1. DOMAIN process_map[q] = ProcFields
      BY <1>2, <2>2 DEF ProcsInv, Tree
    <3>2. process_map'[q] =
            [process_map[q] EXCEPT !.appname_valid = TRUE, !.valid = TRUE, !.app = app_name(q)]
      BY <1>1, <2>2
    <3> QED
      BY <2>2, <3>1, <3>2 DEF SameMaps, ProcFields
  <2> QED
    BY <2>1, <2>2
<1>5. ProcsInv(process_map', Given, mixed) /\ StillKnown(process_map, process_map')
  BY <1>2, <1>3, <1>4, Renaming
<1>6. MapsKept(process_map, process_map', mixed')
  BY <1>4 DEF MapsKept, SameMaps
<1>7. NamesKept(process_map, process_map')
  <2> SUFFICES ASSUME NEW q \in Pids, process_map[q] # NoProc, is_appname_valid(process_map[q])
      PROVE  is_appname_valid(process_map'[q]) /\ process_map'[q].app = process_map[q].app
    BY DEF NamesKept
  <2>1. app_name(q) = process_map[q].app
    <3> DEFINE named == {r \in Pids : /\ q \in family(process_map, r) /\ process_map[r] # NoProc
                                      /\ process_map[r].valid \/ ~forked(process_map[r])}
    <3>1. q \in named
      BY FamilyClosed DEF is_appname_valid
    <3>2. ASSUME NEW r \in named PROVE r <= q
      <4>1. r \in Pids /\ process_map[r] # NoProc /\ q \in family(process_map, r)
        OBVIOUS
      <4> QED
        BY <1>2, <4>1, FamilyMembers, ConvertAssumption DEF ProcsInv
    <3>3. named \subseteq Nat
      BY ConvertAssumption
    <3>4. app_name(q) = process_map[Max(named)].app
      BY DEF app_name
    <3> HIDE DEF named
    <3> QED
      BY <3>1, <3>2, <3>3, <3>4, Greatest
  <2>2. process_map'[q] =
          [process_map[q] EXCEPT !.appname_valid = TRUE, !.valid = TRUE, !.app = app_name(q)]
    BY <1>1
  <2>3. DOMAIN process_map[q] = ProcFields
    BY <1>2 DEF ProcsInv, Tree
  <2> QED
    BY <2>1, <2>2, <2>3 DEF is_appname_valid, ProcFields
<1> QED
  BY <1>1, <1>5, <1>6, <1>7 DEF ProcessesInv

LEMMA ProcessesStep == ProcessesInv /\ [Next]_vars => ProcessesInv'
<1> SUFFICES ASSUME ProcessesInv, [Next]_vars PROVE ProcessesInv'
  OBVIOUS
<1>1. ASSUME UNCHANGED procs PROVE ProcessesInv'
  BY <1>1, GivenSame DEF procs, ProcessesInv
<1>2. ASSUME NEW f \in {g \in Pids \X Pids : g[2] <= g[1]}, NEW exe \in Exes,
             __handle_fork_event(f[1], f[2], exe)
      PROVE  ProcessesInv'
  BY <1>2, ForkInherits
<1>3. ASSUME NEW id, __handle_throttle_event(id) PROVE ProcessesInv'
  BY <1>1, <1>3 DEF __handle_throttle_event
<1>4. ASSUME NEW d, Sample(d) PROVE ProcessesInv'
  BY <1>1, <1>4 DEF Sample
<1>5. CASE op_reprocess_unresolved_events
  BY <1>1, <1>5 DEF op_reprocess_unresolved_events
<1>6. CASE op_release_resources
  BY <1>1, <1>6 DEF op_release_resources
<1>7. CASE UNCHANGED vars
  BY <1>1, <1>7 DEF vars
<1> QED
  BY <1>2, <1>3, <1>4, <1>5, <1>6, <1>7, CommInherits, MmapInherits, ConnectionInherits
     DEF Next, Records

LEMMA ProcessesInit == Init => ProcessesInv
<1> SUFFICES ASSUME Init PROVE ProcessesInv
  OBVIOUS
<1>1. OwnType /\ FirstInv
  BY DEF Init, OwnType, FirstInv
<1>2. \A q \in Pids, s \in AllStarts : Given[q][s] = NoMap
  BY DEF Init, Given, FirstReport, NoMap
<1>3. ProcsInv(process_map, Given, mixed)
  BY <1>2 DEF Init, ProcsInv, Tree, HandedDown, OwnKept, forked
<1> QED
  BY <1>1, <1>3 DEF ProcessesInv

\* The tree of processes, what is handed down it and what each process has mapped
\* itself, whatever the order of the records
THEOREM ProcessesInvariant == Spec => []ProcessesInv
<1>1. Init => ProcessesInv
  BY ProcessesInit
<1> QED
  BY <1>1, ProcessesStep, PTL DEF Spec

\* For any processes and mappings, and FORK, COMM and MMAP records in any order: a
\* process that is not mixed has the mappings that it reported (anonymous memory with
\* the end that was reported first for its name and start), its parent's while it is
\* forked, and no others.
THEOREM MappingsInherited == Spec => []Inherited
<1>1. ProcessesInv => Inherited
  <2> SUFFICES ASSUME ProcessesInv PROVE Inherited
    OBVIOUS
  <2>1. \A q \in Pids, s \in AllStarts :
          /\ Given[q][s] = IF own[q][s] # NoMap THEN FirstReport(own[q][s]) ELSE NoMap
          /\ own[q][s] # NoMap => Given[q][s] # NoMap
    <3> SUFFICES ASSUME NEW q \in Pids, NEW s \in AllStarts
                 PROVE  /\ Given[q][s] = IF own[q][s] # NoMap THEN FirstReport(own[q][s]) ELSE NoMap
                        /\ own[q][s] # NoMap => Given[q][s] # NoMap
      OBVIOUS
    <3> QED
      BY DEF Given, FirstReport, NoMap, ProcessesInv, FirstInv
  <2> QED
    BY <2>1 DEF ProcessesInv, ProcsInv, Tree, Regular, Inherited, forked
<1> QED
  BY <1>1, ProcessesInvariant, PTL

-----------------------------------------------------------------------------
(* The context of the samples, and where they go                           *)

TransFields ==
  {"tgid", "tid", "cpu", "image", "app", "in_kernel", "proc", "event", "id", "pc", "current",
   "last"}

\* The process has a name that is good, as a lookup demands.
Known(q) == q \in Pids /\ process_map[q] # NoProc /\ is_appname_valid(process_map[q])

\* The kernel is one that operf may find.
KernelInv ==
  \E k \in Kernels : vmlinux \in Images(k) /\ modules \subseteq _record_module_info(k)

KernelImages == {vmlinux} \cup modules

Sampled(d) == \E s \in Samples : \E i : d = Numbered(s, i)
WaitingInv == \A k \in DOMAIN unresolved_events : Sampled(unresolved_events[k])

\* A context has a process only if that has a good name.
TransType(t) ==
  /\ DOMAIN t = TransFields /\ t.in_kernel \in BOOLEAN /\ t.proc \in BOOLEAN
  /\ t.proc => Known(t.tgid)

\* The event goes with the id, but for throttle records and deferred samples.
EventRight(t, st) ==
  t.id \in Ids => t.event = EventOf[t.id] \/ st \cap {"throttle", "id"} # {}

\* The sfile of a context is the one of its process and its image.
SfileRight(t) ==
  /\ t.current.tgid = t.tgid /\ Known(t.tgid)
  /\ IF t.in_kernel THEN t.image \in KernelImages ELSE t.current.file = t.image.file

\* The name is the one that the process has, and it has the mapping.
NameRight(t) == t.current.app = process_map[t.tgid].app
ImageRight(t) ==
  ~t.in_kernel => \E s \in AllStarts : Has(process_map, t.tgid, s)
                                       /\ t.image = process_map[t.tgid].map[s]

\* What a context that is used again may be relied on for: the mapping only if no
\* MMAP record came since.
CurrentRight(t, st) ==
  t.tgid # NoPid /\ t.current # NoSfile =>
    /\ SfileRight(t) /\ NameRight(t)
    /\ "mmap" \notin st /\ t.tgid \notin mixed => ImageRight(t)

ContextInv == TransType(trans) /\ EventRight(trans, stale) /\ CurrentRight(trans, stale)

AttributionInv ==
  SamplesInv /\ ProcessesInv /\ KernelInv /\ WaitingInv /\ ContextInv /\ Attribution

\* A nonempty set of naturals has a least element, which Min is.
LEMMA Least ==
  ASSUME NEW S, S \subseteq Nat, S # {}
  PROVE  /\ \E x \in S : \A y \in S : x <= y
         /\ Min(S) \in S
<1> DEFINE U == {0..n : n \in S}
<1>1. U # {}
  OBVIOUS
<1>2. U \subseteq FiniteSubsetsOf(Nat)
  <2> SUFFICES ASSUME NEW n \in Nat PROVE 0..n \in FiniteSubsetsOf(Nat)
    OBVIOUS
  <2>1. IsFiniteSet(0..n)
    BY FS_Interval
  <2> QED
    BY <2>1 DEF FiniteSubsetsOf
<1>3. IsWellFoundedOn(StrictSubsetOrdering(Nat), FiniteSubsetsOf(Nat))
  BY FS_StrictSubsetOrderingWellFounded
<1> HIDE DEF U
<1>4. \E u \in U : \A v \in U : ~(<<v, u>> \in StrictSubsetOrdering(Nat))
  BY <1>1, <1>2, <1>3, WFMin
<1> USE DEF U
<1>5. PICK x \in S : \A v \in U : ~(<<v, 0..x>> \in StrictSubsetOrdering(Nat))
  BY <1>4
<1>6. ASSUME NEW y \in S PROVE x <= y
  <2> SUFFICES ASSUME y < x PROVE FALSE
    OBVIOUS
  <2>1. 0..y \in U
    OBVIOUS
  <2>2. x \in Nat /\ y \in Nat
    OBVIOUS
  <2>3. <<0..y, 0..x>> \in StrictSubsetOrdering(Nat)
    BY <2>2 DEF StrictSubsetOrdering
  <2> QED
    BY <1>5, <2>1, <2>3
<1> QED
  BY <1>6 DEF Min

\* Induction over the naturals, for a set.
LEMMA NatSetInduction ==
  ASSUME NEW T, 0 \in T, \A n \in Nat : n \in T => n + 1 \in T
  PROVE  Nat \subseteq T
<1> SUFFICES ASSUME Nat \ T # {} PROVE FALSE
  OBVIOUS
<1>1. PICK x \in Nat \ T : \A y \in Nat \ T : x <= y
  BY Least
<1>2. x # 0 /\ x - 1 \in Nat /\ (x - 1) + 1 = x
  BY <1>1
<1> QED
  BY <1>1, <1>2

\* What is known of a sample: it was not taken by no process, and its address is
\* not one of the kernel if it is of user code.
LEMMA SampleKnown ==
  ASSUME KernelInv, NEW d, Sampled(d)
  PROVE  /\ d.pid # NoPid /\ d.kernel \in BOOLEAN /\ d.id \in Ids
         /\ Len(d.chain) \in Nat /\ \A i \in 1..Len(d.chain) : d.chain[i].kernel \in BOOLEAN
         /\ \A x, y : LET e == [d EXCEPT !.ip = x, !.kernel = y]
                      IN /\ e.pid = d.pid /\ e.id = d.id /\ e.tid = d.tid
                         /\ e.cpu = d.cpu /\ e.kernel = y
         /\ ~d.kernel => \A m \in KernelImages : ~In(d.ip, m)
<1>0. PICK s \in Samples : \E i : d = Numbered(s, i)
  BY DEF Sampled
<1>1. PICK i : d = Numbered(s, i)
  BY <1>0
<1>2. s \in [pid : Nat, tid : Nat, cpu : Nat, ip : Nat, kernel : BOOLEAN, id : Ids,
             chain : Seq([ip : Nat, kernel : BOOLEAN])]
  BY ConvertAssumption
<1>3. /\ DOMAIN d = {"pid", "tid", "cpu", "ip", "kernel", "id", "chain", "n"}
      /\ d.pid = s.pid /\ d.tid = s.tid /\ d.cpu = s.cpu /\ d.ip = s.ip /\ d.kernel = s.kernel
      /\ d.id = s.id /\ d.chain = s.chain
  BY <1>1, <1>2 DEF Numbered
<1>4. d.pid # NoPid /\ d.kernel \in BOOLEAN /\ d.id \in Ids
  BY <1>2, <1>3 DEF NoPid
<1>5. Len(d.chain) \in Nat /\ \A k \in 1..Len(d.chain) : d.chain[k].kernel \in BOOLEAN
  <2>1. s.chain \in Seq([ip : Nat, kernel : BOOLEAN])
    BY <1>2
  <2>2. Len(s.chain) \in Nat /\ \A k \in 1..Len(s.chain) : s.chain[k] \in [ip : Nat, kernel : BOOLEAN]
    <3>1. ASSUME NEW S, NEW c \in Seq(S) PROVE Len(c) \in Nat /\ \A k \in 1..Len(c) : c[k] \in S
      OBVIOUS
    <3> QED
      BY <2>1, <3>1
  <2>3. \A e \in [ip : Nat, kernel : BOOLEAN] : e.kernel \in BOOLEAN
    OBVIOUS
  <2> QED
    BY <1>3, <2>2, <2>3
<1>6. ASSUME NEW x, NEW y
      PROVE  LET e == [d EXCEPT !.ip = x, !.kernel = y]
             IN /\ e.pid = d.pid /\ e.id = d.id /\ e.tid = d.tid
                /\ e.cpu = d.cpu /\ e.kernel = y
  BY <1>3
<1>7. ~d.kernel => \A m \in KernelImages : ~In(d.ip, m)
  <2>1. PICK k \in Kernels : vmlinux \in Images(k) /\ modules \subseteq _record_module_info(k)
    BY DEF KernelInv
  <2>2. ~s.kernel => \A m \in Images(k) \cup _record_module_info(k) : ~In(s.ip, m)
    BY UserAssumption
  <2> QED
    BY <1>3, <2>1, <2>2 DEF KernelImages
<1> QED
  BY <1>4, <1>5, <1>6, <1>7

\* A mapping that is found is one of the process, and has the address.
LEMMA MappingFound ==
  ASSUME NEW p, NEW ip, find_mapping_for_sample(p, ip) # NoMap
  PROVE  \E s \in AllStarts : /\ p.map[s] = find_mapping_for_sample(p, ip)
                              /\ In(ip, p.map[s])
<1> DEFINE found == {s \in AllStarts : p.map[s] # NoMap /\ In(ip, p.map[s])}
<1>1. found # {} /\ find_mapping_for_sample(p, ip) = p.map[Min(found)]
  BY DEF find_mapping_for_sample
<1>2. found \subseteq Nat
  BY ConvertAssumption
<1>3. Min(found) \in found
  <2> HIDE DEF found
  <2> QED
    BY <1>1, <1>2, Least
<1> QED
  BY <1>1, <1>3

\* What a lookup gives for a sample: the process of the sample, an image of the
\* kernel or a mapping of that process.  The event stays.
Got(t, d, g) ==
  /\ DOMAIN g = TransFields /\ g.proc = TRUE /\ g.in_kernel = d.kernel /\ Known(d.pid)
  /\ g.tgid = d.pid /\ g.tid = d.tid /\ g.cpu = d.cpu /\ g.id = d.id /\ g.event = t.event
  /\ g.app = process_map[d.pid].app
  /\ d.kernel => g.image \in KernelImages
  /\ ~d.kernel => \E s \in AllStarts : /\ Has(process_map, d.pid, s) /\ In(d.ip, g.image)
                                       /\ g.image = process_map[d.pid].map[s]

LEMMA LookedUp ==
  ASSUME NEW t, TransType(t), NEW d, d.kernel \in BOOLEAN, __get_operf_trans(t, d).ok
  PROVE  Got(t, d, __get_operf_trans(t, d).t)
<1> DEFINE found == {k \in modules : In(d.ip, k)}
           m == IF d.kernel
                THEN IF In(d.ip, kernel_mmap) THEN kernel_mmap
                     ELSE IF found # {} THEN CHOOSE k \in found : TRUE
                     ELSE IF no_vmlinux THEN kernel_mmap ELSE NoMap
                ELSE find_mapping_for_sample(process_map[d.pid], d.ip)
           g == [t EXCEPT !.tgid = d.pid, !.tid = d.tid, !.cpu = d.cpu, !.image = m,
                          !.app = process_map[d.pid].app, !.proc = TRUE,
                          !.in_kernel = d.kernel, !.pc = d.ip, !.id = d.id]
<1>1. ProcOf(t, d.pid) /\ m # NoMap /\ __get_operf_trans(t, d).t = g
  BY DEF __get_operf_trans
<1>2. Known(d.pid)
  BY <1>1 DEF ProcOf, Known, TransType
<1>3. d.kernel => m \in KernelImages
  BY <1>1 DEF kernel_mmap, KernelImages
<1>4. ~d.kernel => \E s \in AllStarts : /\ Has(process_map, d.pid, s) /\ In(d.ip, m)
                                        /\ m = process_map[d.pid].map[s]
  <2> SUFFICES ASSUME ~d.kernel
               PROVE \E s \in AllStarts : /\ Has(process_map, d.pid, s) /\ In(d.ip, m)
                                          /\ m = process_map[d.pid].map[s]
    OBVIOUS
  <2>1. m = find_mapping_for_sample(process_map[d.pid], d.ip)
    OBVIOUS
  <2> HIDE DEF m
  <2> QED
    BY <1>1, <2>1, MappingFound DEF Has
<1> HIDE DEF m
<1>5. /\ DOMAIN g = TransFields /\ g.proc = TRUE /\ g.in_kernel = d.kernel
      /\ g.tgid = d.pid /\ g.tid = d.tid /\ g.cpu = d.cpu /\ g.id = d.id /\ g.event = t.event
      /\ g.app = process_map[d.pid].app /\ g.image = m
  BY DEF TransType, TransFields
<1> HIDE DEF g
<1> QED
  BY <1>1, <1>2, <1>3, <1>4, <1>5 DEF Got

\* The sfile of a context that was looked up
LEMMA SfileFound ==
  ASSUME NEW g, operf_sfile_find(g) # NoSfile
  PROVE  /\ operf_sfile_find(g).tgid = g.tgid /\ operf_sfile_find(g).tid = g.tid
         /\ operf_sfile_find(g).app = g.app /\ operf_sfile_find(g).cpu = g.cpu
         /\ g.in_kernel = FALSE => operf_sfile_find(g).file = g.image.file
BY DEF operf_sfile_find

\* The context c is g, with the sfile for it.
WithSfile(g, c) ==
  /\ DOMAIN c = TransFields /\ c.current = operf_sfile_find(g)
  /\ c.tgid = g.tgid /\ c.image = g.image /\ c.in_kernel = g.in_kernel /\ c.proc = g.proc
  /\ c.id = g.id /\ c.event = g.event

\* A context with the sfile that was found for it is right.
LEMMA GotIsRight ==
  ASSUME NEW t, NEW d, d.kernel \in BOOLEAN, NEW g, Got(t, d, g), NEW c, WithSfile(g, c)
  PROVE  TransType(c) /\ CurrentRight(c, {}) /\ c.id = d.id /\ c.event = t.event
<1> USE DEF WithSfile
<1>1. TransType(c) /\ c.id = d.id /\ c.event = t.event
  BY DEF TransType, Got
<1>2. ASSUME c.current # NoSfile PROVE SfileRight(c) /\ NameRight(c) /\ ImageRight(c)
  <2>1. /\ c.current.tgid = d.pid /\ c.current.app = process_map[d.pid].app
        /\ ~d.kernel => c.current.file = c.image.file
    BY <1>2, SfileFound DEF Got
  <2> QED
    BY <2>1 DEF Got, SfileRight, NameRight, ImageRight
<1> QED
  BY <1>1, <1>2 DEF CurrentRight

\* In general: if the mapping m of a process that is not mixed has the address, no
\* other of the process or of its parent has it, and none has the end of another's,
\* m is what the process itself has mapped there, or else what its parent has.
LEMMA OneImage ==
  ASSUME ProcessesInv, NEW d, d.pid \in Pids, process_map[d.pid] # NoProc, d.pid \notin mixed,
         ~Overlap(d), ~OtherRange(d.pid), NEW s \in AllStarts, Has(process_map, d.pid, s),
         In(d.ip, process_map[d.pid].map[s])
  PROVE  LET p == process_map[d.pid]
             mine == {m \in {own[d.pid][x] : x \in AllStarts} : m # NoMap /\ In(d.ip, m)}
         IN /\ \A m \in mine : m = p.map[s]
            /\ mine = {} => forked(p) /\ find_mapping_for_sample(process_map[p.parent], d.ip)
                                          = p.map[s]
<1> DEFINE p == process_map[d.pid]
           mine == {m \in {own[d.pid][x] : x \in AllStarts} : m # NoMap /\ In(d.ip, m)}
<1>1. Regular(process_map, own, d.pid) /\ Tree(process_map)
  <2>1. Regular(process_map, Given, d.pid) /\ Tree(process_map)
    BY DEF ProcessesInv, ProcsInv
  <2>2. \A x \in AllStarts : Given[d.pid][x] = own[d.pid][x]
    BY DEF Given, OtherRange
  <2> QED
    BY <2>1, <2>2 DEF Regular
<1>2. \A x \in AllStarts : Has(process_map, d.pid, x) /\ In(d.ip, p.map[x]) => x = s
  BY DEF Overlap, Has
<1>3. ASSUME NEW m \in mine PROVE m = p.map[s]
  <2>1. PICK x \in AllStarts : m = own[d.pid][x] /\ m # NoMap /\ In(d.ip, m)
    OBVIOUS
  <2>2. p.map[x] = m
    BY <1>1, <2>1 DEF Regular
  <2> QED
    BY <1>2, <2>1, <2>2 DEF Has
<1>4. ASSUME mine = {}
      PROVE  forked(p) /\ find_mapping_for_sample(process_map[p.parent], d.ip) = p.map[s]
  <2>1. p.map[s] = IF own[d.pid][s] # NoMap THEN own[d.pid][s]
                   ELSE IF forked(p) THEN process_map[p.parent].map[s] ELSE NoMap
    BY <1>1 DEF Regular
  <2>2. own[d.pid][s] = NoMap
    BY <1>4, <2>1
  <2>3. forked(p) /\ p.map[s] = process_map[p.parent].map[s]
    BY <2>1, <2>2 DEF Has
  <2>4. p.parent \in Pids /\ process_map[p.parent] # NoProc
    BY <1>1, <2>3 DEF Tree, forked
  <2> DEFINE found == {x \in AllStarts : process_map[p.parent].map[x] # NoMap
                                         /\ In(d.ip, process_map[p.parent].map[x])}
  <2>5. found = {s}
    BY <2>3, <2>4 DEF Overlap, Has
  <2>6. Min(found) = s
    <3>1. found \subseteq Nat /\ found # {}
      BY <2>5, ConvertAssumption
    <3> HIDE DEF found
    <3> QED
      BY <2>5, <3>1, Least
  <2>7. find_mapping_for_sample(process_map[p.parent], d.ip) = process_map[p.parent].map[s]
    BY <2>5, <2>6 DEF find_mapping_for_sample
  <2> QED
    BY <2>3, <2>7
<1> QED
  BY <1>3, <1>4

\* A context that a caller of the sample was looked up in
Followed(c, d, event) ==
  TransType(c) /\ CurrentRight(c, {}) /\ c.id = d.id /\ c.event = event

\* A caller is lost, or the context is its.
LEMMA OneEntry ==
  ASSUME KernelInv, NEW d, Sampled(d), NEW t, TransType(t), NEW e, e.kernel \in BOOLEAN
  PROVE  LET this == ChainEntry(t, d, e)
         IN \/ this.lost = 1 /\ this.t = t
            \/ this.lost = 0 /\ Followed(this.t, d, t.event)
<1> DEFINE d2 == [d EXCEPT !.ip = e.ip, !.kernel = e.kernel]
           g == __get_operf_trans(t, d2)
           cur == operf_sfile_find(g.t)
           new == [g.t EXCEPT !.current = cur, !.last = IF cur = NoSfile THEN @ ELSE cur]
<1>1. ChainEntry(t, d, e) = IF ~g.ok THEN [t |-> t, lost |-> 1] ELSE [t |-> new, lost |-> 0]
  BY DEF ChainEntry
<1>2. d2.kernel = e.kernel /\ d2.id = d.id
  BY SampleKnown
<1> HIDE DEF d2
<1>3. CASE ~g.ok
  BY <1>1, <1>3
<1>4. CASE g.ok
  <2>1. Got(t, d2, g.t)
    BY <1>2, <1>4, LookedUp
  <2> HIDE DEF cur, g
  <2>2. WithSfile(g.t, new)
    BY <2>1 DEF Got, TransFields, WithSfile, cur
  <2> HIDE DEF new
  <2>3. d2.kernel \in BOOLEAN
    BY <1>2
  <2>4. Followed(new, d, t.event)
    <3>1. TransType(new) /\ CurrentRight(new, {}) /\ new.id = d2.id /\ new.event = t.event
      BY <2>1, <2>2, <2>3, GotIsRight
    <3> QED
      BY <1>2, <3>1 DEF Followed
  <2> QED
    BY <1>1, <1>4, <2>4
<1> QED
  BY <1>3, <1>4

\* After the callers: all of them are lost, and the context is what it was before, or
\* it is that of the last one that was not lost.
LEMMA CallersFollowed ==
  ASSUME KernelInv, NEW d, Sampled(d), NEW t, TransType(t)
  PROVE  LET after == __handle_callchain(t, d)
         IN \/ after.lost = Len(d.chain) /\ after.t = t
            \/ after.lost # Len(d.chain) /\ Followed(after.t, d, t.event)
<1> DEFINE L == Len(d.chain)
           none == [t |-> t, lost |-> 0]
           Step(x, n) == LET this == ChainEntry(x.t, d, d.chain[n])
                         IN [t |-> this.t, lost |-> x.lost + this.lost]
           Walks(w, k) == w = [n \in 0..k |-> IF n = 0 THEN none ELSE Step(w[n - 1], n)]
<1>1. L \in Nat /\ \A i \in 1..L : d.chain[i].kernel \in BOOLEAN
  BY SampleKnown
<1>2. __handle_callchain(t, d) = (CHOOSE w : Walks(w, L))[L]
  BY DEF __handle_callchain
<1> HIDE DEF none, Step
<1>3. \E w : Walks(w, L)
  <2> DEFINE T == {k \in Nat : \E w : Walks(w, k)}
  <2>1. 0 \in T
    <3>1. Walks([n \in 0..0 |-> none], 0)
      OBVIOUS
    <3> QED
      BY <3>1
  <2>2. ASSUME NEW k \in Nat, k \in T PROVE k + 1 \in T
    <3>1. PICK w : Walks(w, k)
      BY <2>2
    <3> DEFINE v == [n \in 0..k + 1 |-> IF n <= k THEN w[n] ELSE Step(w[k], k + 1)]
    <3>2. \A n \in 0..k : w[n] = IF n = 0 THEN none ELSE Step(w[n - 1], n)
      BY <3>1
    <3>3. ASSUME NEW n \in 0..k + 1 PROVE v[n] = IF n = 0 THEN none ELSE Step(v[n - 1], n)
      <4>1. CASE n = k + 1
        <5>1. v[n] = Step(w[k], k + 1) /\ n - 1 = k /\ v[k] = w[k] /\ n # 0
          BY <4>1
        <5> QED
          BY <4>1, <5>1
      <4>2. CASE n <= k
        <5>1. n \in 0..k /\ v[n] = w[n] /\ (n # 0 => v[n - 1] = w[n - 1])
          BY <4>2
        <5> QED
          BY <3>2, <5>1
      <4> QED
        BY <4>1, <4>2
    <3>4. v = [n \in 0..k + 1 |-> v[n]]
      OBVIOUS
    <3> HIDE DEF v
    <3>5. Walks(v, k + 1)
      BY <3>3, <3>4
    <3> QED
      BY <3>5
  <2> HIDE DEF T
  <2>3. Nat \subseteq T
    BY <2>1, <2>2, NatSetInduction
  <2> QED
    BY <1>1, <2>3 DEF T
<1>4. PICK w : Walks(w, L) /\ __handle_callchain(t, d) = w[L]
  <2> HIDE DEF Walks
  <2>1. Walks(CHOOSE w : Walks(w, L), L)
    BY <1>3
  <2> QED
    BY <1>2, <2>1
<1>5. w[0] = none /\ \A n \in 1..L : w[n] = Step(w[n - 1], n)
  <2>1. \A n \in 0..L : w[n] = IF n = 0 THEN none ELSE Step(w[n - 1], n)
    BY <1>4
  <2> QED
    BY <1>1, <2>1
<1> HIDE DEF Walks
<1> DEFINE Fine(x, n) == \/ x.lost = n /\ x.t = t
                         \/ x.lost \in 0..(n - 1) /\ Followed(x.t, d, t.event)
           T == {k \in Nat : k <= L => Fine(w[k], k)}
<1>6. 0 \in T
  BY <1>1, <1>5 DEF none
<1>7. ASSUME NEW k \in Nat, k \in T PROVE k + 1 \in T
  <2> SUFFICES ASSUME k + 1 <= L PROVE Fine(w[k + 1], k + 1)
    OBVIOUS
  <2> DEFINE x == w[k]
             this == ChainEntry(x.t, d, d.chain[k + 1])
  <2>1. Fine(x, k) /\ k + 1 \in 1..L /\ (k + 1) - 1 = k
    BY <1>1, <1>7
  <2>2. w[k + 1] = [t |-> this.t, lost |-> x.lost + this.lost]
    BY <1>5, <2>1 DEF Step
  <2>3. TransType(x.t) /\ x.t.event = t.event /\ x.lost \in 0..k
    BY <2>1 DEF Followed
  <2>4. \/ this.lost = 1 /\ this.t = x.t
        \/ this.lost = 0 /\ Followed(this.t, d, t.event)
    BY <1>1, <2>1, <2>3, OneEntry
  <2> HIDE DEF x, this
  <2> QED
    BY <2>1, <2>2, <2>3, <2>4
<1>8. Fine(w[L], L)
  <2> HIDE DEF T
  <2>1. Nat \subseteq T
    BY <1>6, <1>7, NatSetInduction
  <2> QED
    BY <1>1, <2>1 DEF T
<1> QED
  BY <1>1, <1>4, <1>8

\* What Attribution says of one departure
Excused(kind, st) ==
  CASE kind \in {"event", "no_user"} -> st \cap {"throttle", "id"} # {}
    [] kind \in {"tid", "cpu"} -> "same" \in st
    [] kind = "image" -> st \cap {"mmap", "mixed", "overlap", "range"} # {}
    [] OTHER -> FALSE

\* The image is right if the context has the mapping that the process has there.
LEMMA ImageIsRight ==
  ASSUME ProcessesInv, NEW d, Known(d.pid), d.pid \notin mixed, ~Overlap(d),
         ~OtherRange(d.pid), NEW t, t.current.file = t.image.file, In(d.ip, t.image),
         NEW s \in AllStarts, Has(process_map, d.pid, s), t.image = process_map[d.pid].map[s]
  PROVE  "image" \notin Wrong(d, t)
<1> DEFINE p == process_map[d.pid]
           parents == IF forked(p) THEN find_mapping_for_sample(process_map[p.parent], d.ip)
                      ELSE NoMap
           mine == {m \in {own[d.pid][x] : x \in AllStarts} : m # NoMap /\ In(d.ip, m)}
           images == IF mine # {} THEN mine ELSE {parents}
<1>1. /\ \A m \in mine : m = p.map[s]
      /\ mine = {} => forked(p) /\ find_mapping_for_sample(process_map[p.parent], d.ip) = p.map[s]
  BY OneImage DEF Known
<1> HIDE DEF mine
<1>2. \A m \in images : m = p.map[s]
  BY <1>1
<1>3. "image" \in Wrong(d, t) => \E m \in images : t.current.file # m.file
  BY DEF Wrong, mine
<1> QED
  BY <1>2, <1>3

\* The other departures
LEMMA Departures ==
  ASSUME NEW d, NEW t, NEW kind \in Wrong(d, t)
  PROVE  \/ kind = "tgid" /\ t.current.tgid # d.pid
         \/ kind = "tid" /\ t.current.tid # d.tid
         \/ kind = "cpu" /\ t.current.cpu # d.cpu
         \/ kind = "event" /\ t.event # EventOf[d.id]
         \/ kind = "app" /\ t.current.app # process_map[d.pid].app
         \/ kind = "image" /\ ~d.kernel
BY DEF Wrong

\* A sample that is logged to a context which was looked up for it
LEMMA LookedUpIsRight ==
  ASSUME ProcessesInv, NEW d, d.kernel \in BOOLEAN, NEW t, NEW g, Got(t, d, g),
         NEW c, WithSfile(g, c), c.current # NoSfile, NEW st,
         t.event = EventOf[d.id] \/ st \cap {"throttle", "id"} # {},
         d.pid \in mixed => "mixed" \in st, Overlap(d) => "overlap" \in st,
         OtherRange(d.pid) => "range" \in st,
         NEW kind \in Wrong(d, c)
  PROVE  Excused(kind, st)
<1>1. /\ c.current.tgid = d.pid /\ c.current.tid = d.tid /\ c.current.cpu = d.cpu
      /\ c.current.app = process_map[d.pid].app /\ c.event = t.event
      /\ ~d.kernel => c.current.file = c.image.file
  BY SfileFound DEF Got, WithSfile
<1>2. CASE kind = "event"
  BY <1>1, <1>2, Departures DEF Excused
<1>3. CASE kind = "image"
  <2> SUFFICES ASSUME d.pid \notin mixed, ~Overlap(d), ~OtherRange(d.pid) PROVE FALSE
    BY <1>3 DEF Excused
  <2>1. ~d.kernel
    BY <1>3, Departures
  <2>2. PICK s \in AllStarts : /\ Has(process_map, d.pid, s) /\ In(d.ip, c.image)
                               /\ c.image = process_map[d.pid].map[s]
    BY <2>1 DEF Got, WithSfile
  <2>3. Known(d.pid)
    BY DEF Got
  <2> QED
    BY <1>1, <1>3, <2>1, <2>2, <2>3, ImageIsRight
<1> QED
  BY <1>1, <1>2, <1>3, Departures

\* A sample that is logged to the context of the one before it
LEMMA SameIsRight ==
  ASSUME ProcessesInv, KernelInv, ContextInv, NEW d, Sampled(d), SameContext(trans, d),
         trans.current # NoSfile,
         NEW c, c.current = trans.current, c.event = trans.event, c.image = trans.image,
         NEW st, stale \subseteq st, "same" \in st,
         d.pid \in mixed => "mixed" \in st, Overlap(d) => "overlap" \in st,
         OtherRange(d.pid) => "range" \in st,
         NEW kind \in Wrong(d, c)
  PROVE  Excused(kind, st)
<1>1. /\ d.id = trans.id /\ trans.tgid = d.pid /\ trans.tgid # NoPid /\ d.id \in Ids
      /\ ~d.kernel => In(d.ip, trans.image)
  BY SampleKnown DEF SameContext
<1>2. /\ SfileRight(trans) /\ NameRight(trans)
      /\ "mmap" \notin stale /\ trans.tgid \notin mixed => ImageRight(trans)
  BY <1>1 DEF ContextInv, CurrentRight
<1>3. c.current.tgid = d.pid /\ Known(d.pid)
  BY <1>1, <1>2 DEF SfileRight
<1>4. CASE kind = "event"
  BY <1>1, <1>4, Departures DEF ContextInv, EventRight, Excused
<1>5. CASE kind \in {"tid", "cpu"}
  BY <1>5 DEF Excused
<1>6. CASE kind = "app"
  BY <1>1, <1>2, <1>6, Departures DEF NameRight
<1>7. CASE kind = "image"
  <2> SUFFICES ASSUME "mmap" \notin stale, d.pid \notin mixed, ~Overlap(d), ~OtherRange(d.pid)
               PROVE FALSE
    BY <1>7 DEF Excused
  <2>1. ~d.kernel /\ In(d.ip, trans.image)
    BY <1>1, <1>7, Departures
  <2>2. ~trans.in_kernel
    BY <1>2, <2>1, SampleKnown DEF SfileRight
  <2>3. trans.current.file = trans.image.file
    BY <1>2, <2>2 DEF SfileRight
  <2>4. PICK s \in AllStarts : /\ Has(process_map, d.pid, s)
                               /\ trans.image = process_map[d.pid].map[s]
    BY <1>1, <1>2, <2>2 DEF ImageRight
  <2> QED
    BY <1>3, <1>7, <2>1, <2>3, <2>4, ImageIsRight
<1> QED
  BY <1>3, <1>4, <1>5, <1>6, <1>7, Departures

\* A context that is cleared belongs to no process.
LEMMA Cleared ==
  ASSUME NEW t, TransType(t)
  PROVE  /\ TransType(clear_trans(t)) /\ \A st : CurrentRight(clear_trans(t), st)
         /\ clear_trans(t).id = t.id /\ clear_trans(t).event = t.event
BY DEF clear_trans, TransType, TransFields, CurrentRight

\* Whatever sample is handled: it is logged to where it was taken, but for the
\* departures that are named, and the context is one that may be relied on so far.
LEMMA SampleRight ==
  ASSUME ProcessesInv, KernelInv, ContextInv, Attribution, NEW d, Sampled(d),
         __handle_sample_event(d)
  PROVE  /\ TransType(trans') /\ EventRight(trans', stale') /\ CurrentRight(trans', stale')
         /\ Attribution'
<1> DEFINE t0 == IF d.id # trans.id THEN [trans EXCEPT !.event = EventOf[d.id]] ELSE trans
           same == SameContext(t0, d)
           got == __get_operf_trans(t0, d)
           t1 == CASE same -> [t0 EXCEPT !.pc = d.ip, !.tid = IF d.kernel THEN @ ELSE d.tid]
                   [] ~same /\ got.ok -> [got.t EXCEPT !.current = operf_sfile_find(got.t)]
                   [] OTHER -> t0
           found == same \/ got.ok
           base == [t1 EXCEPT !.last = t1.current]
           chain == __handle_callchain(base, d)
           kept == IF d.id = trans.id THEN stale \cap {"throttle", "id"} ELSE {}
           before == (IF same THEN stale \cup {"same"} ELSE kept)
                     \cup (IF d.pid \in mixed THEN {"mixed"} ELSE {})
                     \cup (IF Overlap(d) THEN {"overlap"} ELSE {})
                     \cup (IF OtherRange(d.pid) THEN {"range"} ELSE {})
           changed == stale \cup (IF d.id = trans.id THEN {} ELSE {"id"})
<1>1. \/ trans' = clear_trans(trans) /\ wrong' = wrong /\ stale' = stale
      \/ /\ trans' = clear_trans(t0) /\ stale' = changed
         /\ \/ wrong' = wrong
            \/ /\ t0.event \in NoUser /\ EventOf[d.id] \notin NoUser
               /\ wrong' = wrong \cup {<<"no_user", before>>}
      \/ /\ found /\ t1.current # NoSfile /\ trans' = chain.t
         /\ wrong' = wrong \cup (Wrong(d, t1) \X {before}) \/ wrong' = wrong
         /\ stale' = IF same /\ chain.lost = Len(d.chain) THEN stale ELSE kept
      \/ trans' = clear_trans(t1) /\ wrong' = wrong /\ stale' = changed
  BY DEF __handle_sample_event
<1>2. d.kernel \in BOOLEAN /\ d.id \in Ids /\ d.pid # NoPid
  BY SampleKnown
<1>3. /\ TransType(trans) /\ EventRight(trans, stale) /\ CurrentRight(trans, stale)
      /\ DOMAIN trans = TransFields
  BY DEF ContextInv, TransType
<1>4. /\ TransType(t0) /\ t0.id = trans.id
      /\ d.id = trans.id => t0 = trans
      /\ t0.event = EventOf[d.id] \/ (d.id = trans.id /\ stale \cap {"throttle", "id"} # {})
  BY <1>2, <1>3 DEF TransType, TransFields, EventRight
<1> HIDE DEF t0
\* Both a context that is used again and one that was looked up
<1> DEFINE Event(c) == c.event = EventOf[d.id] \/ kept \cap {"throttle", "id"} # {}
           Fine(c, st) == /\ TransType(c) /\ c.id = d.id /\ Event(c)
                          /\ EventRight(c, st) /\ CurrentRight(c, st)
           last == IF same THEN stale ELSE kept
<1>5. ASSUME found
      PROVE  /\ Fine(t1, last)
             /\ t1.current # NoSfile => \A kind \in Wrong(d, t1) : Excused(kind, before)
  <2>1. CASE same
    <3>1. d.id = trans.id /\ t0 = trans /\ SameContext(trans, d)
      BY <1>4, <2>1 DEF SameContext
    <3>2. t1 = [trans EXCEPT !.pc = d.ip, !.tid = IF d.kernel THEN @ ELSE d.tid]
      BY <2>1, <3>1
    <3>3. /\ DOMAIN t1 = TransFields /\ t1.current = trans.current /\ t1.event = trans.event
          /\ t1.image = trans.image /\ t1.id = trans.id /\ t1.tgid = trans.tgid
          /\ t1.in_kernel = trans.in_kernel /\ t1.proc = trans.proc
      BY <1>3, <3>2 DEF TransFields
    <3>4. stale \subseteq before /\ "same" \in before
      BY <2>1
    <3>5. d.pid \in mixed => "mixed" \in before
      OBVIOUS
    <3>6. (Overlap(d) => "overlap" \in before) /\ (OtherRange(d.pid) => "range" \in before)
      OBVIOUS
    <3>7. Event(t1)
      BY <1>4, <3>1, <3>3
    <3> HIDE DEF t1, before
    <3>8. TransType(t1) /\ EventRight(t1, stale) /\ CurrentRight(t1, stale)
      BY <1>3, <3>3 DEF TransType, EventRight, CurrentRight, SfileRight, NameRight, ImageRight
    <3>9. t1.current # NoSfile => \A kind \in Wrong(d, t1) : Excused(kind, before)
      BY <3>1, <3>3, <3>4, <3>5, <3>6, SameIsRight
    <3> QED
      BY <2>1, <3>1, <3>3, <3>7, <3>8, <3>9
  <2>2. CASE ~same
    <3>1. got.ok /\ t1 = [got.t EXCEPT !.current = operf_sfile_find(got.t)]
      BY <1>5, <2>2
    <3>2. Got(t0, d, got.t)
      BY <1>2, <1>4, <3>1, LookedUp
    <3> HIDE DEF got
    <3>3. WithSfile(got.t, t1)
      BY <3>1, <3>2 DEF WithSfile, Got, TransFields
    <3> HIDE DEF t1
    <3>4. TransType(t1) /\ CurrentRight(t1, {}) /\ t1.id = d.id /\ t1.event = t0.event
      BY <1>2, <3>2, <3>3, GotIsRight
    <3>5. Event(t1)
      BY <1>4, <3>4
    <3>6. EventRight(t1, kept) /\ CurrentRight(t1, kept)
      BY <3>4, <3>5 DEF EventRight, CurrentRight
    <3>7. kept \subseteq before
      BY <2>2
    <3>8. d.pid \in mixed => "mixed" \in before
      OBVIOUS
    <3>9. (Overlap(d) => "overlap" \in before) /\ (OtherRange(d.pid) => "range" \in before)
      OBVIOUS
    <3>10. t0.event = EventOf[d.id] \/ before \cap {"throttle", "id"} # {}
      BY <3>4, <3>5, <3>7
    <3> HIDE DEF before
    <3>11. t1.current # NoSfile => \A kind \in Wrong(d, t1) : Excused(kind, before)
      BY <1>2, <3>2, <3>3, <3>8, <3>9, <3>10, LookedUpIsRight
    <3> QED
      BY <2>2, <3>4, <3>5, <3>6, <3>11
  <2> QED
    BY <2>1, <2>2
<1>6. TransType(t1) /\ (d.id = trans.id => t1.id = d.id /\ t1.event = trans.event)
  <2>1. CASE same
    <3>1. d.id = trans.id /\ t0 = trans
      BY <1>4, <2>1 DEF SameContext
    <3>2. t1 = [trans EXCEPT !.pc = d.ip, !.tid = IF d.kernel THEN @ ELSE d.tid]
      BY <2>1, <3>1
    <3>3. t1.id = trans.id /\ t1.event = trans.event
      BY <1>3, <3>2 DEF TransFields
    <3> QED
      BY <1>5, <2>1, <3>1, <3>3
  <2>2. CASE ~same /\ got.ok
    <3>1. t1 = [got.t EXCEPT !.current = operf_sfile_find(got.t)]
      BY <2>2
    <3>2. Got(t0, d, got.t)
      BY <1>2, <1>4, <2>2, LookedUp
    <3> HIDE DEF got
    <3>3. t1.id = d.id /\ t1.event = t0.event
      BY <3>1, <3>2 DEF Got, TransFields
    <3> QED
      BY <1>4, <1>5, <2>2, <3>3
  <2>3. CASE ~found
    <3>1. t1 = t0
      BY <2>3
    <3> HIDE DEF t1
    <3> QED
      BY <1>4, <3>1
  <2> QED
    BY <2>1, <2>2, <2>3
\* A sample is not dropped for an event that is not its own, but where t0 has that.
<1>10. t0.event \in NoUser /\ EventOf[d.id] \notin NoUser => Excused("no_user", before)
  <2> SUFFICES ASSUME t0.event # EventOf[d.id] PROVE before \cap {"throttle", "id"} # {}
    BY DEF Excused
  <2>1. d.id = trans.id /\ stale \cap {"throttle", "id"} # {}
    BY <1>4
  <2>2. stale \cap {"throttle", "id"} \subseteq before
    BY <2>1
  <2> QED
    BY <2>1, <2>2
<1> HIDE DEF t1, before, found, same, got
<1>7. CASE trans' = clear_trans(trans) /\ wrong' = wrong /\ stale' = stale
  <2>1. TransType(trans') /\ CurrentRight(trans', stale')
    BY <1>3, <1>7, Cleared
  <2>2. trans'.id = trans.id /\ trans'.event = trans.event
    BY <1>3, <1>7, Cleared
  <2> QED
    BY <1>3, <1>7, <2>1, <2>2 DEF EventRight, Attribution
<1>8. CASE trans' = clear_trans(t1) /\ wrong' = wrong /\ stale' = changed
  <2>1. TransType(trans') /\ CurrentRight(trans', stale')
    BY <1>6, <1>8, Cleared
  <2>2. trans'.id = t1.id /\ trans'.event = t1.event
    BY <1>6, <1>8, Cleared
  <2>3. EventRight(trans', stale')
    BY <1>3, <1>6, <1>8, <2>2 DEF EventRight
  <2> QED
    BY <1>8, <2>1, <2>3 DEF Attribution
<1>11. CASE /\ trans' = clear_trans(t0) /\ stale' = changed
            /\ \/ wrong' = wrong
               \/ /\ t0.event \in NoUser /\ EventOf[d.id] \notin NoUser
                  /\ wrong' = wrong \cup {<<"no_user", before>>}
  <2>1. TransType(trans') /\ CurrentRight(trans', stale')
    BY <1>4, <1>11, Cleared
  <2>2. trans'.id = trans.id /\ trans'.event = t0.event
    BY <1>4, <1>11, Cleared
  <2>3. EventRight(trans', stale')
    BY <1>3, <1>4, <1>11, <2>2 DEF EventRight
  <2>4. Attribution'
    <3> SUFFICES ASSUME NEW w \in wrong' PROVE Excused(w[1], w[2])
      BY DEF Attribution, Excused
    <3>1. CASE w \in wrong
      BY <3>1 DEF Attribution, Excused
    <3>2. CASE w \notin wrong
      BY <1>10, <1>11, <3>2
    <3> QED
      BY <3>1, <3>2
  <2> QED
    BY <2>1, <2>3, <2>4
<1>9. CASE /\ found /\ t1.current # NoSfile /\ trans' = chain.t
           /\ wrong' = wrong \cup (Wrong(d, t1) \X {before}) \/ wrong' = wrong
           /\ stale' = IF same /\ chain.lost = Len(d.chain) THEN stale ELSE kept
  <2>1. Fine(t1, last) /\ \A kind \in Wrong(d, t1) : Excused(kind, before)
    BY <1>5, <1>9
  <2>2. Fine(base, last) /\ base.event = t1.event
    <3>1. /\ DOMAIN base = TransFields /\ base.current = t1.current /\ base.event = t1.event
          /\ base.image = t1.image /\ base.id = t1.id /\ base.tgid = t1.tgid
          /\ base.in_kernel = t1.in_kernel /\ base.proc = t1.proc
      BY <1>6 DEF TransType, TransFields
    <3> HIDE DEF base
    <3> QED
      BY <2>1, <3>1 DEF TransType, EventRight, CurrentRight, SfileRight, NameRight, ImageRight
  <2> HIDE DEF base
  <2>3. \/ chain.lost = Len(d.chain) /\ chain.t = base
        \/ chain.lost # Len(d.chain) /\ Followed(chain.t, d, base.event)
    BY <2>2, CallersFollowed
  <2> HIDE DEF chain
  <2>4. ASSUME chain.lost = Len(d.chain), chain.t = base
        PROVE  TransType(trans') /\ EventRight(trans', stale') /\ CurrentRight(trans', stale')
    <3>1. stale' = last
      BY <1>9, <2>4
    <3> QED
      BY <1>9, <2>2, <2>4, <3>1
  <2>5. ASSUME chain.lost # Len(d.chain), Followed(chain.t, d, base.event)
        PROVE  TransType(trans') /\ EventRight(trans', stale') /\ CurrentRight(trans', stale')
    <3>1. stale' = kept
      BY <1>9, <2>5
    <3>2. TransType(trans') /\ CurrentRight(trans', {}) /\ trans'.id = d.id /\ Event(trans')
      BY <1>9, <2>2, <2>5 DEF Followed
    <3> QED
      BY <3>1, <3>2 DEF EventRight, CurrentRight
  <2>6. Attribution'
    <3> SUFFICES ASSUME NEW w \in wrong' PROVE Excused(w[1], w[2])
      BY DEF Attribution, Excused
    <3>1. CASE w \in wrong
      BY <3>1 DEF Attribution, Excused
    <3>2. CASE w \in Wrong(d, t1) \X {before}
      BY <2>1, <3>2
    <3> QED
      BY <1>9, <3>1, <3>2
  <2> QED
    BY <2>3, <2>4, <2>5, <2>6
<1> QED
  BY <1>1, <1>7, <1>8, <1>9, <1>11

\* What may be relied on for a context stays, or stale says that it may not be any
\* more: no record changes a good name, and MMAP records are noted.
LEMMA ContextKept ==
  ASSUME ContextInv, UNCHANGED <<trans, kernel>>, StillKnown(process_map, process_map'),
         mixed \subseteq mixed', stale \subseteq stale',
         NamesKept(process_map, process_map'),
         "mmap" \in stale' \/ MapsKept(process_map, process_map', mixed')
  PROVE  ContextInv'
<1>1. TransType(trans) /\ EventRight(trans, stale) /\ CurrentRight(trans, stale)
  BY DEF ContextInv
<1>2. \A q : Known(q) => Known(q)'
  BY DEF Known, StillKnown, NamesKept
<1>3. trans' = trans /\ KernelImages' = KernelImages
  BY DEF kernel, KernelImages
<1>4. TransType(trans)'
  BY <1>1, <1>2, <1>3 DEF TransType
<1>5. EventRight(trans, stale)'
  BY <1>1, <1>3 DEF EventRight
<1>6. CurrentRight(trans, stale)'
  <2> SUFFICES ASSUME trans.tgid # NoPid, trans.current # NoSfile
      PROVE  /\ SfileRight(trans)' /\ NameRight(trans)'
             /\ "mmap" \notin stale' /\ trans.tgid \notin mixed' => ImageRight(trans)'
    BY <1>3 DEF CurrentRight
  <2>1. SfileRight(trans) /\ NameRight(trans) /\ Known(trans.tgid)
    BY <1>1 DEF CurrentRight, SfileRight
  <2>2. SfileRight(trans)'
    BY <1>2, <1>3, <2>1 DEF SfileRight
  <2>3. process_map'[trans.tgid].app = process_map[trans.tgid].app
    BY <2>1 DEF Known, NamesKept
  <2>4. NameRight(trans)'
    BY <1>3, <2>1, <2>3 DEF NameRight
  <2>5. ASSUME "mmap" \notin stale', trans.tgid \notin mixed' PROVE ImageRight(trans)'
    <3>1. ImageRight(trans) /\ MapsKept(process_map, process_map', mixed')
      BY <1>1, <2>5 DEF CurrentRight
    <3>2. \A s \in AllStarts : Has(process_map, trans.tgid, s) =>
            process_map'[trans.tgid].map[s] = process_map[trans.tgid].map[s]
      BY <2>1, <2>5, <3>1 DEF Known, MapsKept
    <3> QED
      BY <1>3, <3>1, <3>2 DEF ImageRight, Has
  <2> QED
    BY <2>2, <2>4, <2>5
<1> QED
  BY <1>4, <1>5, <1>6 DEF ContextInv

\* A sample that waits is one that was taken.
LEMMA WaitingStep ==
  ASSUME WaitingInv, Types, NEW d, Sampled(d), __handle_sample_event(d),
         phase = "first" \/ unresolved_events # <<>>
  PROVE  WaitingInv'
<1> DEFINE u == unresolved_events
<1>1. IsSeq(u)
  BY DEF Types
<1>2. \/ u' = u
      \/ u # <<>> /\ u' = Tail(u)
      \/ u' = Append(u, d)
  BY SampleHandled DEF Settled, Deferred, Done
<1>3. CASE u' = u
  BY <1>3 DEF WaitingInv, Sampled
<1>4. CASE u # <<>> /\ u' = Tail(u)
  <2>1. /\ Len(u) \in Nat /\ DOMAIN u = 1..Len(u) /\ DOMAIN u' = 1..(Len(u) - 1)
        /\ \A i \in 1..(Len(u) - 1) : u'[i] = u[i + 1] /\ i + 1 \in 1..Len(u)
    BY <1>1, <1>4, TailIsSeq
  <2> QED
    BY <2>1 DEF WaitingInv, Sampled
<1>5. CASE u' = Append(u, d)
  <2>1. /\ Len(u) \in Nat /\ DOMAIN u = 1..Len(u) /\ DOMAIN u' = 1..(Len(u) + 1)
        /\ u'[Len(u) + 1] = d /\ \A i \in 1..Len(u) : u'[i] = u[i]
    BY <1>1, <1>5, AppendIsSeq
  <2> QED
    BY <2>1 DEF WaitingInv, Sampled
<1> QED
  BY <1>2, <1>3, <1>4, <1>5

LEMMA AttributionStep == AttributionInv /\ [Next]_vars => AttributionInv'
<1> SUFFICES ASSUME AttributionInv, [Next]_vars PROVE AttributionInv'
  OBVIOUS
<1>1. /\ SamplesInv /\ Types /\ ProcessesInv /\ KernelInv /\ WaitingInv /\ ContextInv
      /\ Attribution
  BY DEF AttributionInv, SamplesInv
<1>2. SamplesInv' /\ ProcessesInv'
  BY <1>1, SamplesStep, ProcessesStep
\* Records other than samples
<1>3. ASSUME UNCHANGED <<kernel, samples>>, ContextInv' PROVE AttributionInv'
  <2>1. UNCHANGED <<vmlinux, modules, unresolved_events, wrong>>
    BY <1>3 DEF kernel, samples
  <2>2. KernelInv' /\ WaitingInv' /\ Attribution'
    BY <1>1, <2>1 DEF KernelInv, WaitingInv, Sampled, Attribution
  <2> QED
    BY <1>2, <1>3, <2>2 DEF AttributionInv
<1>4. UNCHANGED procs =>
        /\ StillKnown(process_map, process_map') /\ NamesKept(process_map, process_map')
        /\ MapsKept(process_map, process_map', mixed') /\ UNCHANGED mixed
  BY DEF procs, StillKnown, NamesKept, MapsKept
\* Samples, new ones and those that are tried again
<1>5. ASSUME NEW d, Sampled(d), __handle_sample_event(d), UNCHANGED <<procs, kernel>>,
             phase = "first" \/ unresolved_events # <<>>
      PROVE  AttributionInv'
  <2>1. /\ TransType(trans') /\ EventRight(trans', stale') /\ CurrentRight(trans', stale')
        /\ Attribution'
    BY <1>1, <1>5, SampleRight
  <2>2. UNCHANGED <<process_map, mixed, vmlinux, modules>>
    BY <1>5 DEF procs, kernel
  <2>3. ContextInv'
    BY <2>1, <2>2 DEF ContextInv, TransType, EventRight, CurrentRight, SfileRight, NameRight,
                      ImageRight, Known, Has, KernelImages
  <2>4. KernelInv'
    BY <1>1, <2>2 DEF KernelInv
  <2>5. WaitingInv'
    BY <1>1, <1>5, WaitingStep
  <2> QED
    BY <1>2, <2>1, <2>3, <2>4, <2>5 DEF AttributionInv
<1>6. ASSUME NEW f \in {g \in Pids \X Pids : g[2] <= g[1]}, NEW exe \in Exes,
             __handle_fork_event(f[1], f[2], exe)
      PROVE  AttributionInv'
  <2>1. StillKnown(process_map, process_map') /\ Unmoved(process_map, process_map', mixed')
    BY <1>1, <1>6, ForkInherits
  <2>2. UNCHANGED <<kernel, samples, trans, stale>> /\ mixed \subseteq mixed'
    BY <1>6 DEF __handle_fork_event, samples
  <2>3. NamesKept(process_map, process_map') /\ MapsKept(process_map, process_map', mixed')
    BY <2>1, UnmovedIsKept
  <2> QED
    BY <1>1, <1>3, <2>1, <2>2, <2>3, ContextKept
<1>7. ASSUME NEW pid \in Pids, NEW main, NEW exe, __handle_comm_event(pid, main, "comm", exe)
      PROVE  AttributionInv'
  <2>1. /\ StillKnown(process_map, process_map') /\ NamesKept(process_map, process_map')
        /\ MapsKept(process_map, process_map', mixed')
    BY <1>1, <1>7, CommInherits
  <2>2. UNCHANGED <<kernel, samples, trans, stale>> /\ mixed \subseteq mixed'
    BY <1>7 DEF __handle_comm_event, samples
  <2> QED
    BY <1>1, <1>3, <2>1, <2>2, ContextKept
<1>8. ASSUME NEW pid \in Pids, NEW m \in Mapped, NEW exe, __handle_mmap_event(pid, m, exe)
      PROVE  AttributionInv'
  <2>1. StillKnown(process_map, process_map') /\ NamesKept(process_map, process_map')
    BY <1>1, <1>8, MmapInherits
  <2>2. UNCHANGED <<kernel, samples, trans>> /\ mixed \subseteq mixed' /\ stale' = stale \cup {"mmap"}
    BY <1>8 DEF __handle_mmap_event, samples
  <2> QED
    BY <1>1, <1>3, <2>1, <2>2, ContextKept
<1>9. ASSUME NEW id \in Ids, __handle_throttle_event(id) PROVE AttributionInv'
  <2>1. /\ UNCHANGED <<procs, kernel, unresolved_events, wrong>>
        /\ trans' = [trans EXCEPT !.event = EventOf[id]] /\ stale' = stale \cup {"throttle"}
    BY <1>9 DEF __handle_throttle_event
  <2>2. UNCHANGED <<process_map, mixed, vmlinux, modules>>
    BY <2>1 DEF procs, kernel
  <2>3. TransType(trans) /\ CurrentRight(trans, stale)
    BY <1>1 DEF ContextInv
  <2>4. /\ DOMAIN trans' = TransFields /\ trans'.current = trans.current
        /\ trans'.image = trans.image /\ trans'.tgid = trans.tgid
        /\ trans'.in_kernel = trans.in_kernel /\ trans'.proc = trans.proc
    BY <2>1, <2>3 DEF TransType, TransFields
  <2>5. /\ "throttle" \in stale'
        /\ "mmap" \notin stale' => "mmap" \notin stale
    BY <2>1
  <2>6. ContextInv'
    BY <2>2, <2>3, <2>4, <2>5 DEF ContextInv, TransType, EventRight, CurrentRight, SfileRight,
                                 NameRight, ImageRight, Known, Has, KernelImages
  <2>7. KernelInv' /\ WaitingInv' /\ Attribution'
    BY <1>1, <2>1, <2>2 DEF KernelInv, WaitingInv, Sampled, Attribution
  <2> QED
    BY <1>2, <2>6, <2>7 DEF AttributionInv
<1>10. ASSUME NEW d \in Samples, Sample(d) PROVE AttributionInv'
  <2>1. /\ __handle_sample_event(Numbered(d, made.sample + 1)) /\ UNCHANGED <<procs, kernel>>
        /\ phase = "first"
    BY <1>10 DEF Sample, More
  <2>2. Sampled(Numbered(d, made.sample + 1))
    BY DEF Sampled
  <2> QED
    BY <1>5, <2>1, <2>2
<1>11. CASE ConnectProcesses
  <2>1. /\ StillKnown(process_map, process_map') /\ NamesKept(process_map, process_map')
        /\ MapsKept(process_map, process_map', mixed')
    BY <1>1, <1>11, ConnectionInherits
  <2>2. UNCHANGED <<kernel, samples, trans, mixed, stale>>
    BY <1>11 DEF ConnectProcesses, samples
  <2> QED
    BY <1>1, <1>3, <2>1, <2>2, ContextKept
<1>12. CASE op_reprocess_unresolved_events
  <2>1. /\ __handle_sample_event(Head(unresolved_events)) /\ UNCHANGED <<procs, kernel>>
        /\ unresolved_events # <<>>
    BY <1>12 DEF op_reprocess_unresolved_events
  <2>2. Sampled(Head(unresolved_events))
    <3>1. IsSeq(unresolved_events)
      BY <1>1 DEF Types
    <3>2. /\ Head(unresolved_events) = unresolved_events[1]
          /\ 1 \in DOMAIN unresolved_events
      BY <2>1, <3>1, TailIsSeq
    <3> QED
      BY <1>1, <3>2 DEF WaitingInv
  <2> QED
    BY <1>5, <2>1, <2>2
\* The end, and no step at all
<1>13. ASSUME UNCHANGED <<procs, kernel, samples, stale>> PROVE AttributionInv'
  <2>1. UNCHANGED trans
    BY <1>13 DEF samples
  <2> QED
    BY <1>1, <1>3, <1>4, <1>13, <2>1, ContextKept
<1>14. CASE op_release_resources
  BY <1>13, <1>14 DEF op_release_resources
<1>15. CASE UNCHANGED vars
  BY <1>13, <1>15 DEF vars
<1> QED
  BY <1>6, <1>7, <1>8, <1>9, <1>10, <1>11, <1>12, <1>14, <1>15 DEF Next, Records

\* For any records in any order, any kernel and any number of samples: a sample that
\* is logged goes to the process and the application that it was taken in, and to the
\* thread, CPU, event and image but for the departures of the code that Attribution
\* names; so does what is dropped for no_user.
THEOREM SamplesAttributed == Spec => []Attribution
<1>1. Init => AttributionInv
  <2> SUFFICES ASSUME Init PROVE AttributionInv
    OBVIOUS
  <2>1. SamplesInv /\ ProcessesInv
    BY SamplesInit, ProcessesInit
  <2>2. KernelInv
    BY DEF Init, KernelInv
  <2>3. unresolved_events = <<>> /\ wrong = {}
    BY DEF Init
  <2>4. WaitingInv /\ Attribution
    <3>1. \A k : k \notin DOMAIN unresolved_events
      BY <2>3
    <3> QED
      BY <2>3, <3>1 DEF WaitingInv, Attribution
  <2>5. ContextInv
    BY ConvertAssumption DEF Init, ContextInv, TransInit, TransType, TransFields, EventRight,
                             CurrentRight
  <2> QED
    BY <2>1, <2>2, <2>4, <2>5 DEF AttributionInv
<1>2. AttributionInv => Attribution
  BY DEF AttributionInv
<1> QED
  BY <1>1, <1>2, AttributionStep, PTL DEF Spec

=============================================================================
