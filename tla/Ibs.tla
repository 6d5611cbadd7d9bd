-------------------------------- MODULE Ibs --------------------------------
(***************************************************************************)
(* opd_extended.c and opd_ibs*.c: instruction based sampling of AMD.  The  *)
(* daemon is started with a selection of derived events; each has a        *)
(* virtual counter, and files of its own.  A sample is the registers of    *)
(* one fetch or one macro-op; it is counted under every selected event     *)
(* that these imply.                                                       *)
(*                                                                         *)
(* A register is the set of the bits that are set in it.                   *)
(***************************************************************************)
EXTENDS Integers, Sequences, FiniteSets, FiniteSetsExt, SequencesExt

OP_MAX_COUNTERS == 8

Number(bits) == MapThenSumSet(LAMBDA b : 2^b, bits)

FETCH_MASK ==
  [LATENCY |-> 0..15, COMPLETE |-> {18}, IC_MISS |-> {19}, PHY_ADDR |-> {20}, PG_SIZE |-> {21, 22},
   L1_MISS |-> {23}, L2_MISS |-> {24}, KILLED |-> {23, 24, 20, 18, 19}]
BR_MASK ==
  [RIP_INVALID |-> {6}, BRN_RET |-> {5}, BRN_MISP |-> {4}, BRN_TAKEN |-> {3}, RETURN |-> {2},
   BRN_RESYNC |-> {0}]
NB_MASK == [L3_STATE |-> {5}, REQ_DST_PROC |-> {4}, REQ_DATA_SRC |-> {0, 1, 2}]
DC_MASK ==
  [L2_HIT_1G |-> {19}, LIN_ADDR_VALID |-> {17}, MAB_HIT |-> {16}, LOCKED_OP |-> {15},
   UC_MEM_ACCESS |-> {14}, WC_MEM_ACCESS |-> {13}, ST_TO_LD_CANCEL |-> {12}, ST_TO_LD_FOR |-> {11},
   ST_BANK_CONFLICT |-> {10}, LD_BANK_CONFLICT |-> {9}, MISALIGN_ACCESS |-> {8}, DC_MISS |-> {7},
   L2_HIT_2M |-> {6}, L1_HIT_1G |-> {5}, L1_HIT_2M |-> {4}, L2_TLB_MISS |-> {3}, L1_TLB_MISS |-> {2},
   STORE_OP |-> {1}, LOAD_OP |-> {0}]

\* The select values of the derived events, in four groups
IBS_BASE == [fetch |-> \hF000, op |-> \hF100, ls |-> \hF200, nb |-> \hF240]
IBS_MAX == [fetch |-> 15, op |-> 10, ls |-> 26, nb |-> 13]
IBS_GROUPS == DOMAIN IBS_BASE
IS_IBS(group, x) == x \in IBS_BASE[group] .. (IBS_BASE[group] + IBS_MAX[group] - 1)
OP_MAX_IBS_COUNTERS == IBS_MAX.fetch + IBS_MAX.op + IBS_MAX.ls + IBS_MAX.nb

-----------------------------------------------------------------------------
(* The flags and fields of the registers                                   *)

IBS_FETCH(ctl) ==
  LET has(mask) == ctl \cap mask # {}
  IN [complete |-> has(FETCH_MASK.COMPLETE), ic_miss |-> has(FETCH_MASK.IC_MISS),
      valid |-> has(FETCH_MASK.PHY_ADDR), page |-> Number({b - 21 : b \in ctl \cap FETCH_MASK.PG_SIZE}),
      l1_miss |-> has(FETCH_MASK.L1_MISS), l2_miss |-> has(FETCH_MASK.L2_MISS),
      killed |-> ~has(FETCH_MASK.KILLED), latency |-> Number(ctl \cap FETCH_MASK.LATENCY)]

IBS_OP_BR(op) ==
  LET has(mask) == op.data1_high \cap mask # {}
  IN [com_to_retire |-> Number(op.data1_low \cap 0..15),
      tag_to_retire |-> Number({b - 16 : b \in op.data1_low \cap 16..31}),
      resync |-> has(BR_MASK.BRN_RESYNC), return |-> has(BR_MASK.RETURN), taken |-> has(BR_MASK.BRN_TAKEN),
      misp |-> has(BR_MASK.BRN_MISP), retired |-> has(BR_MASK.BRN_RET),
      rip_invalid |-> has(BR_MASK.RIP_INVALID)]

IBS_OP_NB(op) ==
  [source |-> Number(op.data2_low \cap NB_MASK.REQ_DATA_SRC),
   remote |-> op.data2_low \cap NB_MASK.REQ_DST_PROC # {},
   owned |-> op.data2_low \cap NB_MASK.L3_STATE # {}]

IBS_OP_DC(op) ==
  LET has(mask) == op.data3_low \cap mask # {}
  IN [latency |-> Number(op.data3_high \cap 0..15), load |-> has(DC_MASK.LOAD_OP), store |-> has(DC_MASK.STORE_OP),
      l1_miss |-> has(DC_MASK.L1_TLB_MISS), l2_miss |-> has(DC_MASK.L2_TLB_MISS),
      l1_2m |-> has(DC_MASK.L1_HIT_2M), l1_1g |-> has(DC_MASK.L1_HIT_1G),
      l2_2m |-> has(DC_MASK.L2_HIT_2M), l2_1g |-> has(DC_MASK.L2_HIT_1G),
      miss |-> has(DC_MASK.DC_MISS), misaligned |-> has(DC_MASK.MISALIGN_ACCESS),
      ld_bank |-> has(DC_MASK.LD_BANK_CONFLICT), st_bank |-> has(DC_MASK.ST_BANK_CONFLICT),
      forwarded |-> has(DC_MASK.ST_TO_LD_FOR), cancelled |-> has(DC_MASK.ST_TO_LD_CANCEL),
      wc |-> has(DC_MASK.WC_MEM_ACCESS), uc |-> has(DC_MASK.UC_MEM_ACCESS), locked |-> has(DC_MASK.LOCKED_OP),
      mab |-> has(DC_MASK.MAB_HIT), valid |-> has(DC_MASK.LIN_ADDR_VALID)]

-----------------------------------------------------------------------------
(* Derived events: for each of a group, in the order of their values,      *)
(* whether the sample is one and what is added to its count.               *)

Tally(is) == [is |-> is, count |-> 1]
Cycles(is, n) == [is |-> is, count |-> n]
Nothing == Tally(FALSE)

trans_ibs_fetch(x) ==
  <<Tally(TRUE), Tally(x.killed), Tally(TRUE), Tally(x.complete), Tally(~x.complete),
    Tally(~x.l1_miss /\ x.valid), Tally(x.l1_miss /\ ~x.l2_miss), Tally(x.l1_miss /\ x.l2_miss),
    Tally(x.ic_miss), Tally(x.complete /\ ~x.ic_miss),
    Tally(x.valid /\ x.page = 0), Tally(x.valid /\ x.page = 1), Tally(x.valid /\ x.page = 2), Nothing,
    Cycles(x.latency # 0, x.latency)>>

trans_ibs_op(x) ==
  <<Tally(TRUE), Cycles(x.tag_to_retire # 0, x.tag_to_retire), Cycles(x.com_to_retire # 0, x.com_to_retire),
    Tally(x.retired), Tally(x.retired /\ x.misp), Tally(x.retired /\ x.taken),
    Tally(x.retired /\ x.taken /\ x.misp), Tally(x.retired /\ x.return),
    Tally(x.retired /\ x.return /\ x.misp), Tally(x.resync)>>

\* Only of an op that loads or stores
trans_ibs_op_ls(x) ==
  LET l1h == x.valid /\ ~x.l1_miss
      l2h == x.valid /\ x.l1_miss /\ ~x.l2_miss
  IN IF ~x.load /\ ~x.store THEN <<>>
     ELSE <<Tally(TRUE), Tally(x.load), Tally(x.store),
            Tally(l1h), Tally(l2h), Tally(x.valid /\ x.l1_miss /\ x.l2_miss), Tally(x.miss), Tally(~x.miss),
            Tally(x.misaligned), Tally(x.ld_bank), Tally(x.st_bank),
            Tally(x.load /\ x.forwarded), Tally(x.load /\ x.cancelled),
            Tally(x.uc), Tally(x.wc), Tally(x.locked), Tally(x.mab),
            Tally(l1h /\ ~x.l1_2m /\ ~x.l1_1g), Tally(l1h /\ x.l1_2m), Tally(l1h /\ ~x.l1_2m /\ x.l1_1g), Nothing,
            Tally(l2h /\ ~x.l2_2m /\ ~x.l2_1g), Tally(l2h /\ x.l2_2m /\ ~x.l2_1g),
            Tally(l2h /\ ~x.l2_2m /\ x.l2_1g), Nothing,
            Cycles(x.load /\ x.miss, x.latency)>>

\* Only of a load that missed and has a source
trans_ibs_op_nb(x, y) ==
  IF ~x.load \/ ~x.miss \/ y.source = 0 THEN <<>>
  ELSE <<Tally(~y.remote), Tally(y.remote), Tally(~y.remote /\ y.source = 1),
         Tally(~y.remote /\ y.source = 2), Tally(y.remote /\ y.source = 2),
         Tally(~y.remote /\ y.source = 3), Tally(y.remote /\ y.source = 3),
         Tally(~y.remote /\ y.source = 7), Tally(y.remote /\ y.source = 7),
         Tally(y.source = 2 /\ ~y.owned), Tally(y.source = 2 /\ y.owned),
         Cycles(~y.remote, x.latency), Cycles(y.remote, x.latency)>>

\* Bits that a family of CPUs does not have
trans_ibs_op_mask_reserved(family, op) ==
  CASE family = \h10 -> [op EXCEPT !.data1_high = @ \ BR_MASK.RIP_INVALID]
    [] family = \h12 -> [op EXCEPT !.data2_low = @ \ (NB_MASK.REQ_DST_PROC \cup NB_MASK.L3_STATE)]
    [] family = \h14 ->
         [op EXCEPT !.data2_low = @ \ (NB_MASK.REQ_DST_PROC \cup NB_MASK.L3_STATE),
                    !.data3_low = @ \ (DC_MASK.L1_HIT_1G \cup DC_MASK.LD_BANK_CONFLICT
                                       \cup DC_MASK.ST_BANK_CONFLICT \cup DC_MASK.ST_TO_LD_CANCEL
                                       \cup DC_MASK.L2_HIT_1G)]
    [] OTHER -> op

\* What AGG_IBS_EVENT and AGG_IBS_COUNT log of a group, in order
Aggregated(group, selected, derived) ==
  SelectSeq([i \in DOMAIN derived |->
               [event |-> IBS_BASE[group] + i - 1, is |-> derived[i].is, count |-> derived[i].count]],
            LAMBDA d : d.is /\ (d.event - IBS_BASE[group]) \in selected[group])

opd_log_ibs_fetch(selected, ctl) == Aggregated("fetch", selected, trans_ibs_fetch(IBS_FETCH(ctl)))

\* The derived events of an op, by group
OpDerived(op) ==
  [op |-> trans_ibs_op(IBS_OP_BR(op)), ls |-> trans_ibs_op_ls(IBS_OP_DC(op)),
   nb |-> trans_ibs_op_nb(IBS_OP_DC(op), IBS_OP_NB(op))]
AggregatedAll(selected, derived) ==
  Aggregated("op", selected, derived.op) \o Aggregated("ls", selected, derived.ls)
    \o Aggregated("nb", selected, derived.nb)
opd_log_ibs_op(selected, op) ==
  IF IBS_OP_BR(op).rip_invalid THEN <<>> ELSE AggregatedAll(selected, OpDerived(op))

-----------------------------------------------------------------------------
(* The selection: --ext-feature=ibs:fetch:<events>:<count>:<um>|op:...     *)

ibs_event_to_counter(x) ==
  OP_MAX_COUNTERS +
  CASE IS_IBS("fetch", x) -> x - IBS_BASE.fetch
    [] IS_IBS("op", x) -> x - IBS_BASE.op + IBS_MAX.fetch
    [] IS_IBS("ls", x) -> x - IBS_BASE.ls + IBS_MAX.op + IBS_MAX.fetch
    [] IS_IBS("nb", x) -> x - IBS_BASE.nb + IBS_MAX.ls + IBS_MAX.op + IBS_MAX.fetch

get_ibs_vci_key(x) == ibs_event_to_counter(x) - OP_MAX_COUNTERS

\* ok, ibs_*_selected_flag, ibs_vci_map, ibs_vc
NoIbs ==
  [ok |-> TRUE, selected |-> [g \in IBS_GROUPS |-> {}],
   vci_map |-> [k \in 0..(OP_MAX_IBS_COUNTERS - 1) |-> 0], vc |-> <<>>]

\* A token: the value of the event, or one that no IBS event has
ibs_set_event(s, value) ==
  LET groups == {g \in IBS_GROUPS : IS_IBS(g, value)}
      size == Len(s.vc)
  IN IF ~s.ok \/ groups = {} THEN [s EXCEPT !.ok = FALSE]
     ELSE LET g == CHOOSE g \in groups : TRUE
          IN [s EXCEPT !.selected[g] = @ \cup {value - IBS_BASE[g]},
                       !.vci_map[get_ibs_vci_key(value)] = size,
                       !.vc = Append(@, [value |-> value, counter |-> size + OP_MAX_COUNTERS])]
ibs_parse_and_set_events(s, values) == FoldLeft(ibs_set_event, s, values)

\* A number of the command line; BadNumber is one that strtoul does not read to its end
BadNumber == -1
ibs_parse_counts(count) == count \notin {BadNumber, 0}

\* A part between bars: its numbers are read after its events are set.
ibs_section(s, part) ==
  LET t == ibs_parse_and_set_events(s, part.events)
      ok == ibs_parse_counts(part.count) /\ (part.kind = "op" => part.um # BadNumber)
  IN IF ~s.ok \/ part.kind \notin {"fetch", "op"} THEN [s EXCEPT !.ok = FALSE]
     ELSE [t EXCEPT !.ok = @ /\ ok]

\* The numbers of the last part of each kind are those of all its events.
ibs_init(parts) ==
  LET s == FoldLeft(ibs_section, NoIbs, parts)
      of(kind) == {i \in DOMAIN parts : parts[i].kind = kind}
      count(kind) == IF of(kind) = {} THEN 0 ELSE parts[Max(of(kind))].count
      um == IF of("op") = {} THEN 0 ELSE parts[Max(of("op"))].um
      fetch(i) == IS_IBS("fetch", s.vc[i].value)
  IN IF parts = <<>> \/ ~s.ok THEN [s EXCEPT !.ok = FALSE]
     ELSE [s EXCEPT !.vc = [i \in DOMAIN @ |->
             [value |-> @[i].value, counter |-> @[i].counter,
              count |-> count(IF fetch(i) THEN "fetch" ELSE "op"),
              um |-> IF fetch(i) THEN 0 ELSE um]]]

\* feature: the name of the table that the option starts with, if any
opd_ext_initialize(feature, parts) ==
  IF feature = "" THEN NoIbs
  ELSE IF feature # "ibs" THEN [NoIbs EXCEPT !.ok = FALSE]
  ELSE ibs_init(parts)

\* The event in the header of the files of a virtual counter
ibs_sfile_find_counter_event(s, counter) == s.vc[counter - OP_MAX_COUNTERS + 1]

\* The virtual counter whose file a derived event is counted in
ibs_sfile_get(s, event) == s.vci_map[get_ibs_vci_key(event)] + OP_MAX_COUNTERS

-----------------------------------------------------------------------------
(* A sample of the buffer, with the number of words that follow it there   *)

\* opd_put_ibs_sample asks for one word more than the sample has.
code_ibs_fetch_sample(s, ctl, more) ==
  IF more < 1 THEN <<>> ELSE opd_log_ibs_fetch(s.selected, ctl)

\* The word of a branch target is asked for, with another, even where none is sampled.
get_ibs_op_bta_sample(more) == more >= 2

\* The fetch pointer of an op's ibs_sample is what malloc left there.  stale is empty if that
\* is NULL, or has what is then read for the control register of a fetch.
code_ibs_op_sample(s, family, op, more, stale) ==
  IF ~get_ibs_op_bta_sample(more) THEN <<>>
  ELSE IF stale = {} THEN opd_log_ibs_op(s.selected, trans_ibs_op_mask_reserved(family, op))
  ELSE opd_log_ibs_fetch(s.selected, CHOOSE ctl \in stale : TRUE)

\* counts has, for each virtual counter, what its files add up to.
LogOne(s, counts, log) == [counts EXCEPT ![ibs_sfile_get(s, log.event)] = @ + log.count]
Log(s, counts, logs) == FoldLeft(LAMBDA c, log : LogOne(s, c, log), counts, logs)

-----------------------------------------------------------------------------
(* What the counts have to be.                                             *)

\* What a sample means for an event, whichever are selected
Counts(derived, i) == IF i \in DOMAIN derived /\ derived[i].is THEN derived[i].count ELSE 0
Means(group, i, x, op) ==
  IF x.kind = "fetch"
  THEN IF group = "fetch" THEN Counts(trans_ibs_fetch(IBS_FETCH(x.ctl)), i) ELSE 0
  ELSE IF group = "fetch" \/ IBS_OP_BR(op).rip_invalid THEN 0 ELSE Counts(OpDerived(op)[group], i)
Implied(event, family, x) ==
  LET group == CHOOSE g \in IBS_GROUPS : IS_IBS(g, event)
  IN Means(group, 1 + event - IBS_BASE[group], x, trans_ibs_op_mask_reserved(family, x.op))

\* Events that divide others between them, or are part of them.  Hardware reports one page size
\* of a translation, and no reserved source.
Divides(whole, parts) == [whole |-> whole, parts |-> parts, exact |-> TRUE]
PartOf(whole, parts) == [whole |-> whole, parts |-> parts, exact |-> FALSE]
Laws ==
  {Divides({\hF000}, {\hF003, \hF004}), PartOf({\hF003}, {\hF009}), PartOf({\hF002}, {\hF00A, \hF00B, \hF00C}),
   PartOf({\hF003, \hF004}, {\hF005, \hF006, \hF007}),
   PartOf({\hF100}, {\hF103}), PartOf({\hF103}, {\hF104}), PartOf({\hF104}, {\hF106}), PartOf({\hF105}, {\hF106}),
   PartOf({\hF107}, {\hF108}), PartOf({\hF104}, {\hF108}),
   Divides({\hF200}, {\hF206, \hF207}), PartOf({\hF201, \hF202}, {\hF200}),
   PartOf({\hF200}, {\hF203, \hF204, \hF205}),
   Divides({\hF203}, {\hF211, \hF212, \hF213}), Divides({\hF204}, {\hF215, \hF216, \hF217}),
   PartOf({\hF206}, {\hF240, \hF241}), Divides({\hF240}, {\hF242, \hF243, \hF245, \hF247}), PartOf({\hF241}, {\hF244, \hF246, \hF248}),
   Divides({\hF243, \hF244}, {\hF249, \hF24A}), PartOf({\hF219}, {\hF24B, \hF24C})}

\* Each event has files of its own, which say so, and counts what the samples mean for it,
\* whatever else is selected and in which order.
IbsCounted(s, family, counts, taken) ==
  LET events == {s.vc[i].value : i \in DOMAIN s.vc}
      count(event) == counts[ibs_sfile_get(s, event)]
      total(some) == MapThenSumSet(count, some)
  IN /\ \A event \in events :
          /\ ibs_sfile_find_counter_event(s, ibs_sfile_get(s, event)).value = event
          /\ count(event) = FoldLeft(LAMBDA n, x : n + Implied(event, family, x), 0, taken)
     /\ \A law \in Laws : law.whole \cup law.parts \subseteq events =>
          IF law.exact THEN total(law.parts) = total(law.whole) ELSE total(law.parts) <= total(law.whole)

=============================================================================
