------------------------------ MODULE MCEvents ------------------------------
(***************************************************************************)
(* Event tables of up to MaxLines lines: two unit masks of three bits,     *)
(* plain and named entries, three events with overlapping sets of counters,*)
(* one extended event and one the CPU lacks.  And tables with few unit     *)
(* masks and more events (Alloc...), which compete for three counters in   *)
(* every order.                                                            *)
(***************************************************************************)
EXTENDS Events

CLK == "CPU_CLK_UNHALTED"
POWER == "GLOBAL_POWER_EVENTS"
MCCpus == {"CORE_2", "P4", "S390_Z10", "TIMER_INT"}

MCBits == {0, 1, 2}

MCUmLines ==
  {[name |-> "a", type |-> "bitmask", default |-> {0}, default_name |-> NoName],
   [name |-> "a", type |-> "exclusive", default |-> {}, default_name |-> "edges"],
   [name |-> "b", type |-> "bitmask", default |-> {1}, default_name |-> NoName],
   [name |-> "z", type |-> "mandatory", default |-> {}, default_name |-> NoName]}

MCEntryLines ==
  {[value |-> v, named |-> FALSE, flags |-> {}, name |-> "", desc |-> "cycles"] :
      v \in {{}, {0}, {1}, {0, 2}}}
  \cup {[value |-> {1}, named |-> TRUE, flags |-> f[1], name |-> f[2], desc |-> f[3]] :
      f \in {<<{"edge"}, "edges", "cycles">>, <<{}, "plain", "edges">>}}

Line1(name, val, counters, ext, mask, filter) ==
  [name |-> name, val |-> val, counters |-> counters, ext |-> ext, um |-> mask,
   min_count |-> 3, filter |-> filter]

MCEventLines ==
  {Line1(CLK, 1, {0, 1}, FALSE, <<"a">>, -1),
   Line1("Y", 2, {0}, FALSE, <<"a">>, -1),
   Line1(POWER, 3, {1, 2}, FALSE, <<"a", "b">>, -1),
   Line1("W", 4, {}, TRUE, <<"z">>, -1),
   Line1("Y", 2, {1}, FALSE, <<"z">>, 7),
   Line1("W", 5, {0, 1, 2}, FALSE, <<"z">>, 6)}

Req(name, um_given, mask, um_name) ==
  [name |-> name, count |-> 4, um_given |-> um_given, um |-> mask, um_name |-> um_name]

Default(name) == Req(name, FALSE, {}, NoName)

MCRequests ==
  {<<Req(n, TRUE, m, NoName)>> : n \in {CLK, POWER}, m \in {{}, {0}, {1}, {0, 1}, {0, 2}}}
  \cup {<<Req(CLK, TRUE, {}, n)>> : n \in {"edges", "plain"}}
  \cup {<<Default(n)>> : n \in {CLK, "Y", POWER, "W", TIMER}}
  \cup {<<Default(CLK), Default("Y")>>, <<Default(CLK), Default(TIMER)>>,
        <<Default("Y"), Default(CLK)>>, <<Default("W"), Default(CLK), Default("Y")>>,
        <<Default(CLK), Req(CLK, TRUE, {1}, NoName), Default("W")>>,
        <<Default(CLK), Default("W"), Default("W")>>,
        <<Default(POWER), Default(CLK), Default("Y")>>}

\* The tables for the allocation of counters: masks of one value or two, and events
\* with one counter, two that overlap, all three and none
AllocUmLines ==
  {[name |-> "a", type |-> "bitmask", default |-> {0}, default_name |-> NoName]}
AllocEntryLines ==
  {[value |-> {b}, named |-> FALSE, flags |-> {}, name |-> "", desc |-> "cycles"] : b \in {0, 1}}
AllocEventLines ==
  {Line1(CLK, 1, {0, 1}, FALSE, <<"a">>, -1), Line1("Y", 2, {0}, FALSE, <<"a">>, -1),
   Line1("V", 3, {1, 2}, FALSE, <<"a">>, -1), Line1("X", 4, {0, 1, 2}, FALSE, <<"a">>, -1),
   Line1("W", 5, {}, TRUE, <<"a">>, -1)}

\* Up to three requests in any order, and four that are more than the counters
Wanted == {Default(n) : n \in {CLK, "Y", "V", "X", "W"}} \cup {Req(CLK, TRUE, {1}, NoName)}
AllocRequests ==
  {<<q>> : q \in Wanted} \cup {<<q, r>> : q, r \in Wanted} \cup (Wanted \X Wanted \X Wanted)
  \cup {<<Default("W"), Default("X"), Default("V"), Default(CLK)>>,
        <<Default("X"), Default("V"), Default(CLK), Default("Y")>>}

\* IBS: everything that can be selected, in order and in reverse, few events in two parts,
\* one twice, and what is refused
Select(group) == [i \in 1..IBS_MAX[group] |-> IBS_BASE[group] + i - 1]
Part(kind, events, count, mask) == [kind |-> kind, events |-> events, count |-> count, um |-> mask]
IbsArg(feature, parts, family, bta) ==
  [feature |-> feature, parts |-> parts, family |-> family, bta |-> bta]
AllOps == Select("op") \o Select("ls") \o Select("nb")

MCIbsArgs ==
  {IbsArg("ibs", <<Part("fetch", Select("fetch"), 5, 0), Part("op", AllOps, 7, 2)>>, \h15, TRUE),
   IbsArg("ibs", <<Part("op", Reverse(AllOps), 7, 0)>>, \h14, FALSE),
   IbsArg("ibs", <<Part("op", <<\hF240, \hF219, \hF202, \hF109>>, 7, 0),
                   Part("fetch", <<\hF00E, \hF000, \hF00E>>, 5, 0)>>, \h10, FALSE),
   IbsArg("ibs", <<Part("fetch", <<\hF000, \hF00F>>, 5, 0)>>, \h10, FALSE),
   IbsArg("ibs", <<Part("fetch", <<\hF000>>, 0, 0)>>, \h10, FALSE),
   IbsArg("ibs", <<Part("op", <<\hF100>>, 7, BadNumber)>>, \h10, FALSE),
   IbsArg("ibs", <<Part("ops", <<\hF100>>, 7, 0)>>, \h10, FALSE),
   IbsArg("", <<>>, \h12, FALSE), IbsArg("other", <<>>, \h12, FALSE)}

MCIbsFetches ==
  {S \cup {21, 0} : S \in SUBSET {18, 19, 20, 23}} \cup {{23, 24}, {20, 22, 1, 2}, {20}}

Op(d1, d2, d3) ==
  [data1_low |-> {1, 17, 18}, data1_high |-> d1, data2_low |-> d2, data3_low |-> d3, data3_high |-> {0, 2}]
MCIbsOps ==
  {Op(S \cup {5}, {}, {}) : S \in SUBSET {4, 3, 2}}
  \cup {Op({4, 3, 2}, {}, {}), Op({0}, {}, {}), Op({6, 5}, {1}, {0, 7})}
  \cup {Op({}, S \cup D, {0, 7}) : S \in {{}, {0}, {1}, {0, 1}, {0, 1, 2}}, D \in {{}, {4}, {4, 5}}}
  \cup {Op({}, {1}, S \cup {17, k}) : S \in {{}, {2}, {2, 3}, {4}, {5}, {2, 6}, {2, 19}, {4, 5}}, k \in {0, 1}}
  \cup {Op({}, {}, {1, 0, 8, 9, 10, 16}), Op({}, {}, {1, 11, 12, 13}), Op({}, {}, {0, 12, 14, 15})}

MCIbsStale == {{}, {{18, 23}}}

MCLoad ==
  [masks |-> [um_lines |-> MCUmLines, entry_lines |-> MCEntryLines, event_lines |-> MCEventLines,
              requests |-> MCRequests, ibs_args |-> MCIbsArgs],
   counters |-> [um_lines |-> AllocUmLines, entry_lines |-> AllocEntryLines,
                 event_lines |-> AllocEventLines, requests |-> AllocRequests, ibs_args |-> {}]]

=============================================================================
