---------------------------- MODULE JitDumpProofs ----------------------------
(***************************************************************************)
(* The safety of the JIT's dump file and of opjitconv, for any number of   *)
(* threads, of records and of runs, and any code that is loaded.           *)
(***************************************************************************)
EXTENDS JitDump, SequenceTheorems, TLAPS

-----------------------------------------------------------------------------
(* What opjitconv reports                                                  *)

Settled(d) == jo[d].made = TRUE \/ d \in excused
Working == {"copy", "cp", "parse", "resolve", "names"}

ConvTypes ==
  /\ now \in Nat /\ cur \in Dumps /\ files \subseteq Dumps /\ anon \subseteq Dumps
  /\ cpc \in {"no", "next", "rm_tmp"} \cup Working
  /\ jo \in [Dumps -> [made : BOOLEAN, time : Nat]]

\* A dump file with samples is still in the list, is being worked on, or is
\* settled; a run that stops early has failed.
SettledInv ==
  /\ cpc = "next" => \A d \in anon \ files : Settled(d)
  /\ cpc \in Working => \A d \in anon \ (files \cup {cur}) : Settled(d)
  /\ cpc = "rm_tmp" /\ rc # "FAIL" => \A d \in anon : Settled(d)

ConvInv == ConvTypes /\ SettledInv

\* Every step keeps ConvInv: what ends the work on a dump file settles it, or
\* ends the run with an error.
LEMMA ConvStep == ConvInv /\ [Next]_vars => ConvInv'
<1> SUFFICES ASSUME ConvInv, [Next]_vars PROVE ConvInv'
  OBVIOUS
<1> USE DEF ConvInv, ConvTypes, SettledInv, Settled, Working, convVars, agentVars, agent, fixed, Goto
<1>1. CASE process_jit_dumpfile
  BY <1>1 DEF process_jit_dumpfile, find_anon_dir_match
<1>2. CASE LockDump
  BY <1>2 DEF LockDump
<1>3. CASE LockTimeout
  BY <1>3 DEF LockTimeout
<1>4. CASE copy_dumpfile
  BY <1>4 DEF copy_dumpfile
<1>5. CASE change_owner
  BY <1>5 DEF change_owner
<1>6. CASE mmap_jitdump
  BY <1>6 DEF mmap_jitdump
<1>7. CASE ParseRecord
  BY <1>7 DEF ParseRecord
<1>8. CASE ParseEnds
  BY <1>8 DEF ParseEnds
<1>9. CASE resolve_overlaps
  BY <1>9 DEF resolve_overlaps
<1>10. CASE Disambiguate
  BY <1>10 DEF Disambiguate
<1>11. CASE copy_elffile
  <2>1. jo' = jo \/ jo' = [jo EXCEPT ![cur] = [made |-> TRUE, time |-> now]]
    BY <1>11 DEF copy_elffile
  <2>2. jo' \in [Dumps -> [made : BOOLEAN, time : Nat]]
    <3>1. [made |-> TRUE, time |-> now] \in [made : BOOLEAN, time : Nat]
      OBVIOUS
    <3> QED
      BY <2>1, <3>1
  <2>3. \A d \in Dumps : Settled(d) => Settled(d)'
    <3>1. excused' = excused
      BY <1>11 DEF copy_elffile
    <3>2. \A d \in Dumps : jo[d].made = TRUE => jo'[d].made = TRUE
      BY <2>1
    <3> QED
      BY <3>1, <3>2
  <2>4. cpc = "names" /\ UNCHANGED <<files, cur, anon, now>>
    BY <1>11 DEF copy_elffile
  <2>5. CASE cpc' = "next"
    <3>1. Settled(cur)'
      BY <1>11, <2>5 DEF copy_elffile
    <3> QED
      BY <2>2, <2>3, <2>4, <2>5, <3>1
  <2>6. CASE cpc' = "rm_tmp" /\ rc' = "FAIL"
    BY <2>2, <2>4, <2>6
  <2> QED
    BY <1>11, <2>5, <2>6 DEF copy_elffile
<1>12. CASE ElfFails
  BY <1>12 DEF ElfFails
<1>13. CASE _cleanup_jitdumps
  BY <1>13 DEF _cleanup_jitdumps, Dumps
<1>14. CASE op_process_jit_dumpfiles
  BY <1>14 DEF op_process_jit_dumpfiles, Present, filter_anon_samples_list
<1>15. CASE Tick
  BY <1>15 DEF Tick
<1>16. CASE op_open_agent \/ Overflow \/ op_close_agent
  BY <1>16 DEF op_open_agent, Overflow, op_close_agent
<1>17. ASSUME NEW t \in threads, Agent(t) PROVE ConvInv'
  BY <1>17 DEF Agent, Call, Flock, FlockTimeout, Flockfile, Fwrite, Fseek, Flush, Unlock
<1>18. CASE UNCHANGED vars
  BY <1>18 DEF vars
<1> QED
  BY <1>1, <1>2, <1>3, <1>4, <1>5, <1>6, <1>7, <1>8, <1>9, <1>10, <1>11, <1>12, <1>13,
     <1>14, <1>15, <1>16, <1>17, <1>18 DEF Next, Convert

\* For any number of runs and of threads that write meanwhile: a run that exits
\* with EXIT_SUCCESS has made an ELF file for each dump file with samples, or
\* found nothing in it, or could not lock or copy it.
THEOREM SuccessIsConverted == Spec => SuccessMeansConverted
<1>1. Init => ConvInv
  BY DEF Init, ConvInv, ConvTypes, SettledInv, Working, Dumps, NoElf
<1>2. ConvInv /\ [Next]_vars =>
        [cpc # "no" /\ cpc' = "no" /\ result' = "SUCCESS" =>
           \A d \in anon : jo[d].made \/ d \in excused]_vars
  <2> SUFFICES ASSUME ConvInv, [Next]_vars, cpc # "no", cpc' = "no", result' = "SUCCESS"
               PROVE  \A d \in anon : jo[d].made \/ d \in excused
    OBVIOUS
  <2>1. CASE _cleanup_jitdumps
    BY <2>1 DEF _cleanup_jitdumps, Status, ConvInv, SettledInv, Settled
  <2>2. CASE Convert /\ ~_cleanup_jitdumps
    BY <2>2 DEF Convert, process_jit_dumpfile, LockDump, LockTimeout, copy_dumpfile,
         change_owner, mmap_jitdump, ParseRecord, ParseEnds, resolve_overlaps,
         Disambiguate, copy_elffile, ElfFails, Goto
  <2>3. CASE op_open_agent \/ Overflow \/ op_close_agent \/ Tick \/ op_process_jit_dumpfiles
    BY <2>3 DEF op_open_agent, Overflow, op_close_agent, Tick, op_process_jit_dumpfiles, convVars
  <2>4. ASSUME NEW t \in threads, Agent(t) PROVE FALSE
    BY <2>4 DEF Agent, Call, Flock, FlockTimeout, Flockfile, Fwrite, Fseek, Flush, Unlock, convVars
  <2>5. CASE UNCHANGED vars
    BY <2>5 DEF vars, convVars
  <2> QED
    BY <2>1, <2>2, <2>3, <2>4, <2>5 DEF Next
<1> QED
  BY <1>1, <1>2, ConvStep, PTL DEF Spec, SuccessMeansConverted

-----------------------------------------------------------------------------
(* What the threads write                                                  *)

IsSeq(s) == \E S : s \in Seq(S)

\* A sequence with one more element is a sequence.
LEMMA AppendIsSeq ==
  ASSUME NEW s, IsSeq(s), NEW e
  PROVE  IsSeq(Append(s, e)) /\ Len(Append(s, e)) \in Nat
<1> PICK S : s \in Seq(S)
  BY DEF IsSeq
<1>1. s \in Seq(S \cup {e})
  OBVIOUS
<1>2. Append(s, e) \in Seq(S \cup {e})
  BY <1>1
<1> QED
  BY <1>2 DEF IsSeq

Unit == Nat \X {1, 2}
Units == dump["live"] \o buffer

\* Records are whole, but for the last one.
Whole(units) ==
  /\ InOrder(units)
  /\ \A k \in DOMAIN units : k % 2 = 0 => units[k][1] = units[k - 1][1]

AgentTypes ==
  /\ threads \subseteq Threads
  /\ tpc \in [Threads -> {"idle", "flock", "flockfile", "write", "flush", "unlock"}]
  /\ trec \in [Threads -> Nat] /\ IsSeq(records)
  /\ buffer \in Seq(Unit) /\ dump \in [Dumps -> Seq(Unit)]

\* The thread that has the FILE is the one that writes.
FileInv ==
  /\ \A t \in Threads : tpc[t] \in {"write", "flush"} <=> flockfile = {t}
  /\ \A t \in Threads : tpc[t] = "write" =>
       Len(Units) % 2 = 1 /\ Units[Len(Units)] = <<trec[t], 1>>
  /\ (\A t \in Threads : tpc[t] # "write") => Len(Units) % 2 = 0
  /\ flockfile = {} => buffer = <<>>
  /\ flockfile # {} => \E t \in Threads : flockfile = {t}

AgentInv == AgentTypes /\ FileInv /\ Whole(Units)

\* What is added to whole records: a first half, ...
LEMMA AppendFirst ==
  ASSUME NEW u \in Seq(Unit), Whole(u), Len(u) % 2 = 0, NEW r \in Nat
  PROVE  /\ Append(u, <<r, 1>>) \in Seq(Unit) /\ Whole(Append(u, <<r, 1>>))
         /\ Len(Append(u, <<r, 1>>)) % 2 = 1
         /\ Append(u, <<r, 1>>)[Len(Append(u, <<r, 1>>))] = <<r, 1>>
<1> DEFINE e == <<r, 1>>
           v == Append(u, e)
<1>1. e \in Unit /\ e[1] = r /\ e[2] = 1
  BY DEF Unit
<1> HIDE DEF e
<1>2. v \in Seq(Unit) /\ Len(v) = Len(u) + 1 /\ v[Len(u) + 1] = e
      /\ \A i \in 1..Len(u) : v[i] = u[i]
  BY <1>1, AppendProperties
<1> HIDE DEF v
<1>3. DOMAIN u = 1..Len(u) /\ DOMAIN v = 1..(Len(u) + 1) /\ Len(u) \in Nat
  BY <1>2
<1>4. (Len(u) + 1) % 2 = 1
  BY <1>3
<1>5. InOrder(v)
  <2>1. \A k \in 1..Len(u) : v[k][2] = IF k % 2 = 1 THEN 1 ELSE 2
    BY <1>2, <1>3 DEF InOrder, Whole
  <2>2. v[Len(u) + 1][2] = IF (Len(u) + 1) % 2 = 1 THEN 1 ELSE 2
    BY <1>1, <1>2, <1>4
  <2>3. \A k \in DOMAIN v : k \in 1..Len(u) \/ k = Len(u) + 1
    BY <1>3
  <2> QED
    BY <2>1, <2>2, <2>3 DEF InOrder
<1>6. \A k \in DOMAIN v : k % 2 = 0 => v[k][1] = v[k - 1][1]
  BY <1>2, <1>3, <1>4 DEF Whole
<1> QED
  BY <1>2, <1>3, <1>4, <1>5, <1>6 DEF Whole, e, v

\* ... and the second half of the same record.
LEMMA AppendSecond ==
  ASSUME NEW u \in Seq(Unit), Whole(u), Len(u) % 2 = 1, NEW r \in Nat,
         u[Len(u)] = <<r, 1>>
  PROVE  /\ Append(u, <<r, 2>>) \in Seq(Unit) /\ Whole(Append(u, <<r, 2>>))
         /\ Len(Append(u, <<r, 2>>)) % 2 = 0
<1> DEFINE e == <<r, 2>>
           v == Append(u, e)
<1>1. e \in Unit /\ e[1] = r /\ e[2] = 2 /\ u[Len(u)][1] = r
  BY DEF Unit
<1> HIDE DEF e
<1>2. v \in Seq(Unit) /\ Len(v) = Len(u) + 1 /\ v[Len(u) + 1] = e
      /\ \A i \in 1..Len(u) : v[i] = u[i]
  BY <1>1, AppendProperties
<1> HIDE DEF v
<1>3. DOMAIN u = 1..Len(u) /\ DOMAIN v = 1..(Len(u) + 1) /\ Len(u) \in Nat
  BY <1>2
<1>4. (Len(u) + 1) % 2 = 0
  BY <1>3
<1>5. InOrder(v)
  <2>1. \A k \in 1..Len(u) : v[k][2] = IF k % 2 = 1 THEN 1 ELSE 2
    BY <1>2, <1>3 DEF InOrder, Whole
  <2>2. v[Len(u) + 1][2] = IF (Len(u) + 1) % 2 = 1 THEN 1 ELSE 2
    BY <1>1, <1>2, <1>4
  <2>3. \A k \in DOMAIN v : k \in 1..Len(u) \/ k = Len(u) + 1
    BY <1>3
  <2> QED
    BY <2>1, <2>2, <2>3 DEF InOrder
<1>6. \A k \in DOMAIN v : k % 2 = 0 => v[k][1] = v[k - 1][1]
  BY <1>1, <1>2, <1>3, <1>4 DEF Whole
<1> QED
  BY <1>2, <1>3, <1>4, <1>5, <1>6 DEF Whole, e, v

\* To append an element to the second of two sequences is to append it to both.
LEMMA ConcatAppend ==
  ASSUME NEW S, NEW s \in Seq(S), NEW t \in Seq(S), NEW e \in S
  PROVE  s \o Append(t, e) = Append(s \o t, e)
OBVIOUS

\* A unit that goes into the buffer is the last one.
LEMMA UnitsAppended ==
  ASSUME AgentTypes, NEW e \in Unit, buffer' = Append(buffer, e), dump' = dump
  PROVE  Units' = Append(Units, e) /\ buffer' \in Seq(Unit)
<1>1. dump["live"] \in Seq(Unit) /\ buffer \in Seq(Unit)
  BY DEF AgentTypes, Dumps
<1>2. dump["live"] \o Append(buffer, e) = Append(dump["live"] \o buffer, e)
  <2> DEFINE d == dump["live"]
  <2>1. d \in Seq(Unit)
    BY <1>1
  <2> HIDE DEF d
  <2>2. d \o Append(buffer, e) = Append(d \o buffer, e)
    BY <1>1, <2>1, ConcatAppend
  <2> QED
    BY <2>2 DEF d
<1>3. Append(buffer, e) \in Seq(Unit)
  BY <1>1, AppendProperties
<1> QED
  BY <1>2, <1>3 DEF Units

\* The buffer that is written out loses nothing.
LEMMA UnitsFlushed ==
  ASSUME AgentTypes, dump' = Flushed, buffer' = <<>>
  PROVE  Units' = Units /\ dump' \in [Dumps -> Seq(Unit)] /\ buffer' \in Seq(Unit)
<1>1. dump["live"] \in Seq(Unit) /\ buffer \in Seq(Unit) /\ "live" \in Dumps
  BY DEF AgentTypes, Dumps
<1>2. Units \in Seq(Unit)
  BY <1>1 DEF Units
<1>3. dump'["live"] = Units /\ dump' \in [Dumps -> Seq(Unit)]
  BY <1>1, <1>2 DEF AgentTypes, Flushed, Units
<1> QED
  BY <1>2, <1>3, ConcatEmptySeq DEF Units

\* The steps of a thread keep AgentInv.
LEMMA ThreadStep ==
  ASSUME AgentInv, NEW t \in threads, Agent(t)
  PROVE  AgentInv'
<1>t. t \in Threads /\ threads' = threads
  BY DEF AgentInv, AgentTypes, Agent, Call, Flock, FlockTimeout, Flockfile, Fwrite, Fseek,
     Flush, Unlock, fixed
<1>u. Units \in Seq(Unit)
  BY DEF AgentInv, AgentTypes, Units, Dumps
<1>1. CASE Call(t) \/ Flock(t) \/ FlockTimeout(t) \/ Unlock(t)
  <2>1. Units' = Units /\ UNCHANGED <<buffer, dump, flockfile>>
    BY <1>1 DEF Call, Flock, FlockTimeout, Unlock, Units
  <2>2. trec' \in [Threads -> Nat] /\ IsSeq(records')
    <3>1. CASE Call(t)
      <4>1. PICK r : records' = Append(records, r)
        BY <3>1 DEF Call
      <4>2. IsSeq(records') /\ Len(records') \in Nat
        BY <4>1, AppendIsSeq DEF AgentInv, AgentTypes
      <4> QED
        BY <3>1, <4>2 DEF Call, AgentInv, AgentTypes
    <3>2. CASE ~Call(t)
      BY <1>1, <3>2 DEF Flock, FlockTimeout, Unlock, AgentInv, AgentTypes
    <3> QED
      BY <3>1, <3>2
  <2>3. /\ tpc[t] \notin {"write", "flush"} /\ tpc'[t] \notin {"write", "flush"}
        /\ tpc' \in [Threads -> {"idle", "flock", "flockfile", "write", "flush", "unlock"}]
        /\ \A s \in Threads \ {t} : tpc'[s] = tpc[s] /\ trec'[s] = trec[s]
    BY <1>1, <1>t DEF Call, Flock, FlockTimeout, Unlock, AgentInv, AgentTypes
  <2>4. AgentTypes'
    BY <1>t, <2>1, <2>2, <2>3 DEF AgentInv, AgentTypes
  <2>5. FileInv'
    BY <1>t, <2>1, <2>3 DEF AgentInv, FileInv
  <2> QED
    BY <2>1, <2>4, <2>5 DEF AgentInv
<1>2. CASE Flockfile(t)
  <2> DEFINE e == <<trec[t], 1>>
  <2>1. e \in Unit
    BY <1>t DEF AgentInv, AgentTypes, Unit
  <2>2. Units' = Append(Units, e) /\ buffer' \in Seq(Unit)
    BY <1>2, <2>1, UnitsAppended DEF Flockfile, AgentInv
  <2>3. \A s \in Threads : tpc[s] \notin {"write", "flush"}
    BY <1>2 DEF Flockfile, AgentInv, FileInv
  <2>4. Len(Units) % 2 = 0
    BY <2>3 DEF AgentInv, FileInv
  <2>5. /\ Whole(Units')
        /\ Len(Units') % 2 = 1 /\ Units'[Len(Units')] = e
    BY <1>t, <1>u, <2>2, <2>4, AppendFirst DEF AgentInv, AgentTypes
  <2>6. /\ tpc' = [tpc EXCEPT ![t] = "write"] /\ flockfile' = {t}
        /\ UNCHANGED <<trec, records, dump>>
    BY <1>2 DEF Flockfile
  <2>7. AgentTypes'
    BY <1>t, <2>2, <2>6 DEF AgentInv, AgentTypes
  <2>8. FileInv'
    BY <1>t, <2>3, <2>5, <2>6 DEF AgentInv, AgentTypes, FileInv
  <2> QED
    BY <2>5, <2>7, <2>8 DEF AgentInv
<1>3. CASE Fwrite(t)
  <2> DEFINE e == <<trec[t], 2>>
  <2>1. e \in Unit
    BY <1>t DEF AgentInv, AgentTypes, Unit
  <2>2. Units' = Append(Units, e) /\ buffer' \in Seq(Unit)
    BY <1>3, <2>1, UnitsAppended DEF Fwrite, AgentInv
  <2>3. tpc[t] = "write" /\ flockfile = {t}
    BY <1>3, <1>t DEF Fwrite, AgentInv, FileInv
  <2>4. Whole(Units') /\ Len(Units') % 2 = 0
    BY <1>t, <1>u, <2>2, <2>3, AppendSecond DEF AgentInv, AgentTypes, FileInv
  <2>5. tpc' = [tpc EXCEPT ![t] = "flush"] /\ UNCHANGED <<trec, records, dump, flockfile>>
    BY <1>3 DEF Fwrite
  <2>6. AgentTypes'
    BY <1>t, <2>2, <2>5 DEF AgentInv, AgentTypes
  <2>7. FileInv'
    BY <1>t, <2>3, <2>4, <2>5 DEF AgentInv, AgentTypes, FileInv
  <2> QED
    BY <2>4, <2>6, <2>7 DEF AgentInv
<1>4. CASE Fseek(t)
  <2>1. Units' = Units /\ dump' \in [Dumps -> Seq(Unit)] /\ buffer' \in Seq(Unit)
        /\ (buffer = <<>> => buffer' = <<>>)
    BY <1>4, UnitsFlushed DEF Fseek, AgentInv, AgentTypes, Units
  <2>2. UNCHANGED <<tpc, trec, records, flockfile>>
    BY <1>4 DEF Fseek
  <2>3. AgentTypes' /\ FileInv'
    BY <1>t, <2>1, <2>2 DEF AgentInv, AgentTypes, FileInv
  <2> QED
    BY <2>1, <2>3 DEF AgentInv
<1>5. CASE Flush(t)
  <2>1. Units' = Units /\ dump' \in [Dumps -> Seq(Unit)] /\ buffer' \in Seq(Unit)
    BY <1>5, UnitsFlushed DEF Flush, AgentInv
  <2>2. /\ tpc[t] = "flush" /\ tpc' = [tpc EXCEPT ![t] = "unlock"]
        /\ flockfile' = {} /\ buffer' = <<>> /\ UNCHANGED <<trec, records>>
    BY <1>5 DEF Flush
  <2>3. flockfile = {t} /\ \A s \in Threads \ {t} : tpc[s] \notin {"write", "flush"}
    BY <1>t, <2>2 DEF AgentInv, FileInv
  <2>4. AgentTypes'
    BY <1>t, <2>1, <2>2 DEF AgentInv, AgentTypes
  <2>5. FileInv'
    BY <1>t, <2>1, <2>2, <2>3 DEF AgentInv, AgentTypes, FileInv
  <2> QED
    BY <2>1, <2>4, <2>5 DEF AgentInv
<1> QED
  BY <1>1, <1>2, <1>3, <1>4, <1>5 DEF Agent

\* So do op_close_agent, which writes its record when no thread is in the
\* agent, and all that does not touch the dump file.
LEMMA AgentStep == AgentInv /\ [Next]_vars => AgentInv'
<1> SUFFICES ASSUME AgentInv, [Next]_vars PROVE AgentInv'
  OBVIOUS
<1>1. CASE \E t \in threads : Agent(t)
  BY <1>1, ThreadStep
<1>2. CASE Overflow
  <2>1. Units' = Units /\ dump' \in [Dumps -> Seq(Unit)] /\ buffer' \in Seq(Unit)
        /\ buffer' = <<>>
    BY <1>2, UnitsFlushed DEF Overflow, AgentInv
  <2>2. UNCHANGED <<threads, tpc, trec, records, flockfile>>
    BY <1>2 DEF Overflow, fixed
  <2>3. AgentTypes' /\ FileInv'
    BY <2>1, <2>2 DEF AgentInv, AgentTypes, FileInv
  <2> QED
    BY <2>1, <2>3 DEF AgentInv
<1>3. CASE op_close_agent
  <2>1. CASE UNCHANGED <<records, dump>>
    <3>1. UNCHANGED <<threads, tpc, trec, records, flockfile, buffer, dump>>
      BY <1>3, <2>1 DEF op_close_agent, fixed
    <3> QED
      BY <3>1 DEF AgentInv, AgentTypes, FileInv, Units
  <2>2. CASE /\ records' = Append(records, [kind |-> "close", time |-> now])
             /\ dump' = [dump EXCEPT !["live"] =
                           @ \o <<<<Len(records'), 1>>, <<Len(records'), 2>>>>]
    <3> DEFINE n == Len(records')
    <3>1. IsSeq(records') /\ n \in Nat
      BY <2>2, AppendIsSeq DEF AgentInv, AgentTypes
    <3> HIDE DEF n
    <3>2. /\ \A t \in Threads : tpc[t] = "idle"
          /\ UNCHANGED <<threads, tpc, trec, flockfile, buffer>>
      BY <1>3 DEF op_close_agent, fixed
    <3>3. flockfile = {} /\ buffer = <<>> /\ Len(Units) % 2 = 0
      BY <3>2 DEF AgentInv, FileInv
    <3> DEFINE u == dump["live"]
    <3>4. u \in Seq(Unit) /\ Units = u /\ Whole(u) /\ Len(u) % 2 = 0
      BY <3>3 DEF AgentInv, AgentTypes, Dumps, Units
    <3> DEFINE v == Append(u, <<n, 1>>)
               w == Append(v, <<n, 2>>)
    <3>5. v \in Seq(Unit) /\ Whole(v) /\ Len(v) % 2 = 1 /\ v[Len(v)] = <<n, 1>>
      BY <3>1, <3>4, AppendFirst
    <3>6. w \in Seq(Unit) /\ Whole(w) /\ Len(w) % 2 = 0
      <4> HIDE DEF v
      <4> QED
        BY <3>1, <3>5, AppendSecond
    <3>7. u \o <<<<n, 1>>, <<n, 2>>>> = w
      <4>1. <<n, 1>> \in Unit /\ <<n, 2>> \in Unit
        BY <3>1 DEF Unit
      <4> HIDE DEF u
      <4>2. v = u \o <<<<n, 1>>>> /\ w = v \o <<<<n, 2>>>>
        BY <3>4, <3>5, <4>1, AppendIsConcat
      <4>3. <<<<n, 1>>, <<n, 2>>>> = <<<<n, 1>>>> \o <<<<n, 2>>>>
        OBVIOUS
      <4> QED
        BY <3>4, <4>1, <4>2, <4>3, ConcatAssociative
    <3>8. dump'["live"] = w /\ dump' \in [Dumps -> Seq(Unit)]
      BY <2>2, <3>6, <3>7 DEF AgentInv, AgentTypes, Dumps, n
    <3>9. Units' = w
      BY <3>2, <3>3, <3>6, <3>8, ConcatEmptySeq DEF Units
    <3>10. AgentTypes'
      BY <3>1, <3>2, <3>8 DEF AgentInv, AgentTypes
    <3>11. FileInv'
      BY <3>2, <3>3, <3>6, <3>9 DEF AgentInv, FileInv
    <3> QED
      BY <3>6, <3>9, <3>10, <3>11 DEF AgentInv
  <2> QED
    BY <1>3, <2>1, <2>2 DEF op_close_agent
<1>4. CASE op_open_agent \/ Tick \/ op_process_jit_dumpfiles \/ Convert \/ UNCHANGED vars
  <2>1. UNCHANGED <<threads, tpc, trec, records, flockfile, buffer, dump>>
    BY <1>4 DEF op_open_agent, Tick, op_process_jit_dumpfiles, Convert, process_jit_dumpfile,
       LockDump, LockTimeout, copy_dumpfile, change_owner, mmap_jitdump, ParseRecord,
       ParseEnds, resolve_overlaps, Disambiguate, copy_elffile, ElfFails,
       _cleanup_jitdumps, vars, agentVars, fixed, agent
  <2> QED
    BY <2>1 DEF AgentInv, AgentTypes, FileInv, Units
<1> QED
  BY <1>1, <1>2, <1>3, <1>4 DEF Next

\* For any number of threads and of records: the records of two threads are
\* never mixed, though flock does not keep them apart.
THEOREM WholeRecords == Spec => []RecordsWhole
<1>1. Init => AgentInv
  <2> SUFFICES ASSUME Init PROVE AgentInv
    OBVIOUS
  <2>1. threads \subseteq Threads
    BY ThreadsAssumption DEF Init
  <2>2. IsSeq(records)
    <3>1. OldRecords \in Seq({OldLoad(1), OldLoad(2)})
      BY DEF OldRecords
    <3> QED
      BY <3>1 DEF Init, IsSeq
  <2>3. dump["live"] = <<>> /\ dump \in [Dumps -> Seq(Unit)]
    BY DEF Init, Dumps, Unit
  <2>4. AgentTypes
    BY <2>1, <2>2, <2>3 DEF Init, AgentTypes
  <2>5. Units = <<>>
    BY <2>3 DEF Init, Units
  <2> QED
    BY <2>4, <2>5 DEF Init, AgentInv, FileInv, Whole, InOrder
<1>2. AgentInv => RecordsWhole
  BY DEF AgentInv, Whole, Units, RecordsWhole
<1> QED
  BY <1>1, <1>2, AgentStep, PTL DEF Spec

=============================================================================
