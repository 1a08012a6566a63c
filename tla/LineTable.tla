------------------------------- MODULE LineTable -------------------------------
(***************************************************************************)
(* Where in the source a frame is (frame.h): _frame_from_code_raddr        *)
(* decodes the line table of the code object, which has a format of its    *)
(* own before Python 3.10, in 3.10 and from 3.11 on.                       *)
(*                                                                         *)
(* A table is a sequence of bytes; i is the index of a byte as in C, from  *)
(* 0.  A location is [line, line_end, column, column_end].                 *)
(***************************************************************************)
EXTENDS Integers, Sequences

\* A decoder has come to byte i and to bc in the byte code; done is set by break.
AtStart(firstlineno) ==
  [i |-> 0, bc |-> 0, done |-> FALSE,
   at |-> [line |-> firstlineno, line_end |-> firstlineno, column |-> 0, column_end |-> 0]]

\* What lies beyond the table is read like any byte.
Byte(lnotab, i) == IF i < Len(lnotab) THEN lnotab[i + 1] ELSE 0

\* bc is unsigned in 3.11, where no bc exceeds a negative lasti.
Exceeds(bc, lasti) == lasti >= 0 /\ bc > lasti

-------------------------------------------------------------------------------
(* From 3.11 on.                                                                *)

\* The number whose low bits are in byte i, and the last byte of it.
RECURSIVE Varint(_, _)
Varint(lnotab, i) ==
  IF Byte(lnotab, i) % 128 < 64 THEN [val |-> Byte(lnotab, i) % 64, i |-> i]
  ELSE LET rest == Varint(lnotab, i + 1)
       IN  [val |-> (Byte(lnotab, i) % 64) + 64 * rest.val, i |-> rest.i]

\* They begin after byte i.
_read_varint(lnotab, i) == Varint(lnotab, i + 1)

_read_signed_varint(lnotab, i) ==
  LET v == _read_varint(lnotab, i)
  IN  [v EXCEPT !.val = IF @ % 2 = 1 THEN -(@ \div 2) ELSE @ \div 2]

LongForm(lnotab, st) ==
  LET line       == _read_signed_varint(lnotab, st.i)
      line_end   == _read_varint(lnotab, line.i)
      column     == _read_varint(lnotab, line_end.i)
      column_end == _read_varint(lnotab, column.i)
      lineno     == st.at.line + line.val
  IN  [st EXCEPT !.i = column_end.i,
                 !.at = [line |-> lineno, line_end |-> lineno + line_end.val,
                         column |-> column.val, column_end |-> column_end.val]]

NoColumns(lnotab, st) ==
  LET line   == _read_signed_varint(lnotab, st.i)
      lineno == st.at.line + line.val
  IN  [st EXCEPT !.i = line.i,
                 !.at = [line |-> lineno, line_end |-> lineno, column |-> 0, column_end |-> 0]]

OneLine(lnotab, st, code) ==
  LET lineno == st.at.line + code - 10
  IN  [st EXCEPT !.i = @ + 2,
                 !.at = [line |-> lineno, line_end |-> lineno,
                         column |-> 1 + Byte(lnotab, st.i + 1),
                         column_end |-> 1 + Byte(lnotab, st.i + 2)]]

ShortForm(lnotab, st, code) ==
  LET next == Byte(lnotab, st.i + 1)
      column == 1 + 8 * code + ((next \div 16) % 8)
  IN  [st EXCEPT !.i = @ + 1,
                 !.at = [@ EXCEPT !.line_end = st.at.line,
                                  !.column = column, !.column_end = column + (next % 16)]]

\* One turn of the loop: an entry, whose first byte is byte i.
Entry311(lnotab, lasti, st) ==
  LET b    == Byte(lnotab, st.i)
      code == (b \div 8) % 16
      read == CASE code = 15      -> st
                [] code = 14      -> LongForm(lnotab, st)
                [] code = 13      -> NoColumns(lnotab, st)
                [] code \in 10..12 -> OneLine(lnotab, st, code)
                [] OTHER          -> ShortForm(lnotab, st, code)
      bc   == st.bc + (b % 8) + 1
  IN  [read EXCEPT !.i = @ + 1, !.bc = bc, !.done = Exceeds(bc, lasti)]

-------------------------------------------------------------------------------
(* 3.10 and before: pairs of bytes, how far the code and the line go on.        *)

Delta(b) == IF b >= 128 THEN b - 256 ELSE b

\* In 3.10 a pair is about the code up to bc.  lasti counts in units of two bytes.
Entry310(lnotab, lasti, st) ==
  LET sdelta == Byte(lnotab, st.i)
      ldelta == Byte(lnotab, st.i + 1)
      bc     == st.bc + sdelta
  IN  IF sdelta = 255 THEN [st EXCEPT !.done = TRUE]
      ELSE [st EXCEPT !.i = @ + 2, !.bc = bc, !.done = bc > 2 * lasti,
                      !.at.line = @ + IF ldelta = 128 THEN 0 ELSE Delta(ldelta)]

\* Mutant: the line of the next pair is taken already.
Entry38Late(lnotab, lasti, st) ==
  LET bc == st.bc + Byte(lnotab, st.i)
  IN  [st EXCEPT !.i = @ + 2, !.bc = bc, !.done = bc > lasti,
                 !.at.line = @ + Delta(Byte(lnotab, st.i + 1))]

\* Before, it is about the code from bc on.
Entry38(lnotab, lasti, st) ==
  LET bc == st.bc + Byte(lnotab, st.i)
  IN  IF bc > lasti THEN [st EXCEPT !.bc = bc, !.done = TRUE]
      ELSE [st EXCEPT !.i = @ + 2, !.bc = bc, !.at.line = @ + Delta(Byte(lnotab, st.i + 1))]

-------------------------------------------------------------------------------

RECURSIVE Decode(_, _, _, _)
Decode(version, lnotab, lasti, st) ==
  IF st.done \/ st.i >= Len(lnotab) THEN st
  ELSE Decode(version, lnotab, lasti,
              CASE version = 311 -> Entry311(lnotab, lasti, st)
                [] version = 310 -> Entry310(lnotab, lasti, st)
                [] version = 38  -> Entry38(lnotab, lasti, st))

\* No frame is made of a table whose length is odd, or of none at all from 3.11 on.
Refused(version, lnotab) == IF version = 311 THEN lnotab = <<>> ELSE Len(lnotab) % 2 = 1

\* The lines of 3.10 and before are told without their ends and columns.
_frame_from_code_raddr(version, lnotab, firstlineno, lasti) ==
  LET st == Decode(version, lnotab, lasti, AtStart(firstlineno))
  IN  [at |-> IF version = 311 THEN st.at ELSE [st.at EXCEPT !.line_end = firstlineno],
       beyond |-> st.i > Len(lnotab)]
===============================================================================
