----------------------------- MODULE DebugLine -----------------------------
(***************************************************************************)
(* debug_line.c: the line tables a JIT compiler gave for its code become   *)
(* DWARF line programs in the ELF file of opjitconv, and readers of that   *)
(* file run them to get the lines back.                                    *)
(*                                                                         *)
(* A section is a sequence of bytes.  The name of a file is one byte, not  *)
(* zero; words and addresses are below 65536 and have the size they have.  *)
(***************************************************************************)
EXTENDS Integers, Sequences, SequencesExt

CONSTANTS
  UINT,        \* one more than the largest unsigned int
  ULONG,       \* one more than the largest unsigned long
  NarrowLong   \* whether a long is as wide as an int

DW_LNS_copy == 1
DW_LNS_advance_pc == 2
DW_LNS_advance_line == 3
DW_LNS_set_file == 4
DW_LNS_max_opcode == 10
DW_LNE_end_sequence == 1
DW_LNE_set_address == 2
DW_LNE_define_file == 3

line_base == -5
line_range == 14
opcode_base == DW_LNS_max_opcode
standard_opcode_length == <<0, 1, 1, 1, 1, 0, 0, 0, 1>>

emit_uword(data) == <<data % 256, data \div 256, 0, 0>>
Address(data) == emit_uword(data) \o (IF NarrowLong THEN <<>> ELSE <<0, 0, 0, 0>>)

RECURSIVE emit_unsigned_LEB128(_), emit_signed_LEB128(_)
emit_unsigned_LEB128(data) ==
  IF data < 128 THEN <<data>> ELSE <<128 + (data % 128)>> \o emit_unsigned_LEB128(data \div 128)

\* Shifts keep the sign; the last byte has it in bit 6.
emit_signed_LEB128(data) ==
  LET cur == data % 128
      rest == data \div 128
  IN IF (rest = 0 /\ cur < 64) \/ (rest = -1 /\ cur >= 64) THEN <<cur>>
     ELSE <<cur + 128>> \o emit_signed_LEB128(rest)

\* A ubyte
emit_opcode(opcode) == <<opcode % 256>>

emit_extended_opcode(opcode, data) ==
  <<0>> \o emit_unsigned_LEB128(Len(data) + 1) \o <<opcode>> \o data
emit_lne_set_address(vma) == emit_extended_opcode(DW_LNE_set_address, Address(vma))
emit_lne_end_of_sequence == emit_extended_opcode(DW_LNE_end_sequence, <<>>)

\* The name, its zero, and three zeroes: strlen(filename) + 5 with the opcode.
emit_lne_define_filename(filename) ==
  <<0>> \o emit_unsigned_LEB128(1 + 5) \o <<DW_LNE_define_file>> \o <<filename, 0>> \o <<0, 0, 0>>
emit_set_file(index) == <<DW_LNS_set_file>> \o emit_unsigned_LEB128(index)
emit_advance_pc(delta_pc) == <<DW_LNS_advance_pc>> \o emit_unsigned_LEB128(delta_pc)

\* A difference of unsigned ints, passed as a long: never negative where longs
\* are wider.
emit_advance_lineno(delta) ==
  <<DW_LNS_advance_line>>
    \o emit_signed_LEB128(IF NarrowLong /\ delta >= UINT \div 2 THEN delta - UINT ELSE delta)

\* The opcode that moves both registers, or 0
get_special_opcode(line, last_lineno, last_vma) ==
  LET temp == (line.lineno - last_lineno - line_base) % UINT
      delta_addr == (line.vma - last_vma) % ULONG
      opcode == temp + delta_addr * line_range + opcode_base
  IN IF temp >= line_range \/ delta_addr > 256 \div line_range \/ opcode > 255 THEN 0 ELSE opcode

define_file(filename, index) == emit_lne_define_filename(filename) \o emit_set_file(index)

\* One turn of emit_lineno_info's loop
emit_line(s, line) ==
  LET other == line.filename # s.cur_filename
      index == IF other THEN s.cur_file_index + 1 ELSE s.cur_file_index
      special == get_special_opcode(line, s.last_lineno, s.last_vma)
      moved == line.lineno # s.last_lineno
      advanced == line.vma # s.last_vma
  IN [out |-> s.out
         \o (IF other THEN define_file(line.filename, index) ELSE <<>>)
         \o (IF special # 0 THEN emit_opcode(special)
             ELSE (IF moved THEN emit_advance_lineno((line.lineno - s.last_lineno) % UINT) ELSE <<>>)
                  \o (IF advanced THEN emit_advance_pc((line.vma - s.last_vma) % ULONG) ELSE <<>>)
                  \o (IF other \/ moved \/ advanced THEN emit_opcode(DW_LNS_copy) ELSE <<>>)),
      last_vma |-> line.vma, last_lineno |-> line.lineno,
      cur_filename |-> line.filename, cur_file_index |-> index]

emit_lineno_info(lines, code_addr) ==
  FoldLeft(emit_line,
    [out |-> emit_lne_set_address(code_addr) \o emit_advance_lineno((lines[1].lineno - 1) % UINT)
               \o define_file(lines[1].filename, 1) \o emit_opcode(DW_LNS_copy),
     last_vma |-> code_addr, last_lineno |-> lines[1].lineno,
     cur_filename |-> lines[1].filename, cur_file_index |-> 1],
    lines).out

\* A length does not count itself.
Sized(body) == emit_uword(Len(body)) \o body

\* The prologue ends in an empty table of directories and one of files.
add_debug_line(lines, code_addr) ==
  LET prolog == <<1, 1, line_base % 256, line_range, opcode_base>> \o standard_opcode_length \o <<0, 0>>
  IN Sized(<<2, 0>> \o Sized(prolog) \o emit_lineno_info(lines, code_addr) \o emit_lne_end_of_sequence)

\* An abbreviation's number, 1, and where the line program is
add_compilation_unit(offset_debug_line) ==
  Sized(<<2, 0>> \o emit_uword(0) \o <<IF NarrowLong THEN 4 ELSE 8>>
          \o emit_unsigned_LEB128(1) \o emit_uword(offset_debug_line))

\* The three sections; a record without lines has no part in them.
init_debug_line_info(list) ==
  FoldLeft(LAMBDA b, rec :
             IF rec.lines = <<>> THEN b
             ELSE [info |-> b.info \o add_compilation_unit(Len(b.line)),
                   line |-> b.line \o add_debug_line(rec.lines, rec.code_addr)],
           [info |-> <<>>, line |-> <<>>], list)

-----------------------------------------------------------------------------
(* A reader of the sections, after the DWARF 2 specification.              *)

RECURSIVE ReadLEB(_, _)
\* [value, next, high]: high is the weight of what follows the last byte.
ReadLEB(b, at) ==
  IF b[at] < 128 THEN [value |-> b[at], next |-> at + 1, high |-> 128, sign |-> b[at] >= 64]
  ELSE LET r == ReadLEB(b, at + 1)
       IN [r EXCEPT !.value = b[at] - 128 + 128 * @, !.high = 128 * @]
Signed(r) == IF r.sign THEN r.value - r.high ELSE r.value
ReadWord(b, at) == b[at] + 256 * b[at + 1]

Row(m) == [vma |-> m.address, lineno |-> m.line, filename |-> m.files[m.file]]
AppendRow(m) == [m EXCEPT !.rows = Append(@, Row(m))]
Advance(m, addr, lines) ==
  [m EXCEPT !.address = (@ + addr) % ULONG, !.line = (@ + lines) % UINT]

\* An opcode of the standard and special kinds: the machine and the next place
Step(b, at, m) ==
  LET op == b[at]
      arg == ReadLEB(b, at + 1)
      special == op - opcode_base
  IN CASE op = DW_LNS_copy -> [m |-> AppendRow(m), at |-> at + 1]
       [] op = DW_LNS_advance_pc -> [m |-> Advance(m, arg.value, 0), at |-> arg.next]
       [] op = DW_LNS_advance_line -> [m |-> Advance(m, 0, Signed(arg)), at |-> arg.next]
       [] op = DW_LNS_set_file -> [m |-> [m EXCEPT !.file = arg.value], at |-> arg.next]
       [] op >= opcode_base ->
            [m |-> AppendRow(Advance(m, special \div line_range, (special % line_range) + line_base)),
             at |-> at + 1]

\* An extended opcode is skipped by its length.
ExtendedStep(b, m, len) ==
  LET op == b[len.next]
  IN [m |-> CASE op = DW_LNE_end_sequence -> [m EXCEPT !.ended = TRUE]
              [] op = DW_LNE_set_address -> [m EXCEPT !.address = ReadWord(b, len.next + 1)]
              [] op = DW_LNE_define_file -> [m EXCEPT !.files = Append(@, b[len.next + 1])],
      at |-> len.next + len.value]

RECURSIVE Run(_, _, _)
Run(b, s, end) ==
  IF s.at >= end THEN s.m
  ELSE Run(b, IF b[s.at] = 0 THEN ExtendedStep(b, s.m, ReadLEB(b, s.at + 1)) ELSE Step(b, s.at, s.m), end)

\* The rows of the unit that is at an offset of .debug_line
LineProgram(b, offset) ==
  Run(b, [m |-> [address |-> 0, file |-> 1, line |-> 1, files |-> <<>>, rows |-> <<>>, ended |-> FALSE],
          at |-> offset + 11 + ReadWord(b, offset + 7)],
      offset + 5 + ReadWord(b, offset + 1))

RECURSIVE Units(_, _, _)
\* The line programs of the compilation units from a place of .debug_info on
Units(info, line, at) ==
  IF at > Len(info) THEN <<>>
  ELSE <<LineProgram(line, ReadWord(info, at + 12))>> \o Units(info, line, at + 4 + ReadWord(info, at))

\* The sections give each table of lines back, behind a row for the start of the code,
\* whatever the lines and addresses are and in which order, and end each sequence.
LinesKept(list) ==
  LET b == init_debug_line_info(list)
      recs == SelectSeq(list, LAMBDA rec : rec.lines # <<>>)
      units == Units(b.info, b.line, 1)
  IN /\ Len(units) = Len(recs)
     /\ \A k \in DOMAIN recs :
          /\ units[k].ended
          /\ units[k].rows = <<[recs[k].lines[1] EXCEPT !.vma = recs[k].code_addr]>> \o recs[k].lines

=============================================================================
