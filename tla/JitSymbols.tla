----------------------------- MODULE JitSymbols -----------------------------
(***************************************************************************)
(* opjitconv's back end: from the records of a dump file (parse_dump.c) to *)
(* symbols that do not overlap and have names of their own (jitsymbol.c)   *)
(* and the sections of an ELF file (create_bfd.c).                         *)
(*                                                                         *)
(* Entries are in arrays sorted by address; glibc's qsort keeps the order  *)
(* of equals.  A name is its base and the suffixes that were added to it.  *)
(***************************************************************************)
EXTENDS Integers, Sequences, FiniteSets, FiniteSetsExt, SequencesExt

CONSTANTS
  PageGap,  \* 4096 in partition_sections
  ULL       \* one more than the largest unsigned long long

\* struct jitentry.  code is the entry whose code it points to, or 0.
jitentry(vma, size, name, start, end, code) ==
  [vma |-> vma, code_size |-> size, name |-> [base |-> name, suffix |-> <<>>],
   life_start |-> start, life_end |-> end, code |-> code]
EndAddr(e) == e.vma + e.code_size
Lifetime(e) == (e.life_end - e.life_start) % ULL
Overlap(e, f) == e.vma < EndAddr(f) /\ EndAddr(e) > f.vma

-----------------------------------------------------------------------------
(* parse_dump.c                                                            *)

\* A load record is added at the head of the list.
parse_code_load(list, rec, end_time, code) ==
  <<jitentry(rec.vma, rec.size, rec.name, rec.time, end_time, code)>> \o list

\* An unload record ends the life of the newest entry at its address that is
\* still alive.
parse_code_unload(list, rec, end_time) ==
  LET match == {k \in DOMAIN list : list[k].vma = rec.vma /\ list[k].life_end = end_time}
  IN IF rec.time > 0 /\ rec.vma # 0 /\ match # {}
     THEN [list EXCEPT ![Min(match)].life_end = rec.time] ELSE list

-----------------------------------------------------------------------------
(* jitsymbol.c                                                             *)

\* create_arrays and resort_address: entries with address 0 are left out.
resort_address(entries) ==
  LET valid == {k \in DOMAIN entries : entries[k].vma # 0}
      before(a, b) == \/ entries[a].vma < entries[b].vma
                      \/ entries[a].vma = entries[b].vma /\ a < b
      order == SetToSortSeq(valid, before)
  IN [k \in DOMAIN order |-> entries[order[k]]]
invalidate_entry(e) == [e EXCEPT !.vma = 0]

\* Symbols that were gone when sampling started.
invalidate_earlybirds(entries, start_time) ==
  resort_address([k \in DOMAIN entries |->
    IF entries[k].life_end < start_time THEN invalidate_entry(entries[k]) ELSE entries[k]])

\* The first of those with the longest life.
select_one(entries, region) ==
  Min({k \in region : \A j \in region : Lifetime(entries[j]) <= Lifetime(entries[k])})

WithSuffix(e, s) == [e EXCEPT !.name.suffix = Append(@, s)]

\* split_entry: what is left of split on either side of keep.
LeftPart(split, keep) ==
  IF split.vma < keep.vma
  THEN WithSuffix([split EXCEPT !.code_size = keep.vma - split.vma], <<"#", 0>>)
  ELSE invalidate_entry(split)
\* Mistake: what is right of the kept symbol keeps its old length.
RightPart_Long(split, keep) ==
  IF EndAddr(split) > EndAddr(keep)
  THEN <<WithSuffix([split EXCEPT !.vma = EndAddr(keep), !.code = 0], <<"#", 1>>)>> ELSE <<>>
RightPart(split, keep) ==
  IF EndAddr(split) > EndAddr(keep)
  THEN <<WithSuffix([split EXCEPT !.vma = EndAddr(keep), !.code = 0,
                                  !.code_size = EndAddr(split) - EndAddr(keep)], <<"#", 1>>)>>
  ELSE <<>>

\* The share of the time that the kept symbol had, in percent: what
\* eliminate_overlaps returns is from the first start to the last end.
Percent(entries, region, k) ==
  LET all == {k} \cup {j \in region : Overlap(entries[j], entries[k])}
      total == Max({entries[j].life_end : j \in all}) - Min({entries[j].life_start : j \in all})
  IN IF total % ULL = 0 THEN 100 ELSE ((Lifetime(entries[k]) * 100) % ULL) \div (total % ULL)

\* scan_overlaps: index ranges in which each symbol begins before all of those
\* before it have ended.
RegionOf(entries, k) ==
  LET starts == {j \in 1..k : \A h \in 1..j - 1 : EndAddr(entries[h]) <= entries[j].vma}
      ends == {j \in k..Len(entries) :
                 j = Len(entries) \/ \A h \in 1..j : EndAddr(entries[h]) <= entries[j + 1].vma}
  IN Max(starts)..Min(ends)

\* handle_overlap_region for each range with more than one symbol: one is kept,
\* and marked; the others are cut.  The right parts are added at the end.
scan_overlaps(entries) ==
  LET region == [k \in DOMAIN entries |-> RegionOf(entries, k)]
      keep == [k \in DOMAIN entries |-> select_one(entries, region[k])]
      cut(k) == k # keep[k] /\ Overlap(entries[k], entries[keep[k]])
      new(k) == IF Cardinality(region[k]) = 1 THEN entries[k]
                ELSE IF k = keep[k]
                     THEN WithSuffix(entries[k], <<"%", Percent(entries, region[k], k)>>)
                ELSE IF cut(k) THEN LeftPart(entries[k], entries[keep[k]]) ELSE entries[k]
      right(k) == IF cut(k) THEN RightPart(entries[k], entries[keep[k]]) ELSE <<>>
  IN [k \in DOMAIN entries |-> new(k)] \o FlattenSeq([k \in DOMAIN entries |-> right(k)])

Overlapping(entries) == \E k \in DOMAIN entries : Cardinality(RegionOf(entries, k)) > 1

\* One round of disambiguate_symbol_names: of entries with one name, all but
\* the first get a number.
NameTaken(entries, k) == {j \in 1..k - 1 : entries[j].name = entries[k].name}
disambiguate_symbol_names(entries) ==
  [k \in DOMAIN entries |->
     IF NameTaken(entries, k) = {} THEN entries[k]
     ELSE WithSuffix(entries[k], <<"~", Cardinality(NameTaken(entries, k))>>)]
Ambiguous(entries) == \E k \in DOMAIN entries : NameTaken(entries, k) # {}

-----------------------------------------------------------------------------
(* create_bfd.c                                                            *)

\* partition_sections: a section begins where there is a gap.  It is given by
\* the indices of its first and last symbol.
SectionStarts(entries) ==
  {k \in DOMAIN entries : k = 1 \/ entries[k].vma - EndAddr(entries[k - 1]) >= PageGap}
create_text_section(entries, k) ==
  LET last == Min({j \in k..Len(entries) : j = Len(entries) \/ j + 1 \in SectionStarts(entries)})
  IN [vma |-> entries[k].vma, size |-> EndAddr(entries[last]) - entries[k].vma,
      first |-> k, last |-> last]
SectionOf(entries, k) ==
  create_text_section(entries, Max({j \in SectionStarts(entries) : j <= k}))

\* fill_symtab: values are relative to the section.
fill_symtab(entries) ==
  [k \in DOMAIN entries |->
     [name |-> entries[k].name, section |-> SectionOf(entries, k),
      value |-> entries[k].vma - SectionOf(entries, k).vma]]

\* fill_text_section_content: the contents, as <<offset in section, code, offset in
\* code>>.
fill_text_section_content(entries, s) ==
  UNION {{<<entries[k].vma - s.vma + n, entries[k].code, n>> : n \in 0..entries[k].code_size - 1} :
         k \in {j \in s.first..s.last : entries[j].code # 0}}

elf(entries) ==
  [syms |-> fill_symtab(entries),
   sections |-> {[section |-> create_text_section(entries, k),
                  content |-> fill_text_section_content(entries, create_text_section(entries, k))] :
                 k \in SectionStarts(entries)},
   entries |-> entries]

-----------------------------------------------------------------------------
(* What the ELF file has to be, given the entries that were parsed.        *)

Alive(list, start_time) == {e \in Range(list) : e.vma # 0 /\ e.life_end >= start_time}
Covers(e, a) == e.vma <= a /\ a < EndAddr(e)
Addresses(E) == UNION {e.vma..EndAddr(e) - 1 : e \in E}

\* Each address is in at most one symbol, and in one if and only if a symbol
\* that was alive covers it, which is one of that name; what is longest-lived
\* is whole, unless a symbol was loaded after the end (its lifetime wraps); no name is used twice; symbols and contents are where they were.
Represents(e, list, start_time) ==
  LET out == e.entries
      alive == Alive(list, start_time)
  IN /\ \A i, j \in DOMAIN out : i # j => ~Overlap(out[i], out[j]) /\ out[i].name # out[j].name
     /\ Addresses(Range(out)) = Addresses(alive)
     /\ \A i \in DOMAIN out : \E f \in alive :
          /\ f.name.base = out[i].name.base
          /\ f.vma <= out[i].vma /\ EndAddr(out[i]) <= EndAddr(f)
     /\ \A f \in alive :
          /\ \A g \in alive : g.life_start <= g.life_end
          /\ \A g \in alive \ {f} : Lifetime(g) < Lifetime(f)
          => \E i \in DOMAIN out : out[i].vma = f.vma /\ out[i].code_size = f.code_size
     /\ \A i \in DOMAIN out : LET s == e.syms[i] IN
          /\ s.section.vma + s.value = out[i].vma
          /\ s.value + out[i].code_size <= s.section.size
     /\ \A s \in e.sections : \A c \in s.content : LET a == s.section.vma + c[1] IN
          /\ c[1] < s.section.size
          /\ \E f \in alive : f.code = c[2] /\ f.vma + c[3] = a
          /\ \A d \in s.content : d[1] = c[1] => d = c
=============================================================================
