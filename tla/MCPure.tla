--------------------------------- MODULE MCPure ---------------------------------
(***************************************************************************)
(* The parts of Austin that are functions, on every input of a bounded     *)
(* set.  The input is a variable to which nothing happens: MCParts chooses *)
(* it.  Each property is about one kind of input.                          *)
(***************************************************************************)
EXTENDS ArgParse, VmRangeTree, LineTable

VARIABLE input

SumOf(m, i) == FoldLeft(LAMBDA sum, x : sum + x.gap, 0, SubSeq(m, 1, i))
Permutation(n) == {p \in [1..n -> 1..n] : \A i, j \in 1..n : p[i] = p[j] => i = j}

-------------------------------------------------------------------------------
(* Command lines. *)

Units == {"", "s", "ms", "us", "m", "x"}
Text(n, u) == [digits |-> TRUE, num |-> n, unit |-> u]
Name == [digits |-> FALSE, num |-> 0, unit |-> ""]

Plain(text)      == [dash |-> 0, opts |-> <<>>, eq |-> FALSE, glued |-> FALSE, value |-> text]
Short(opts)      == [dash |-> 1, opts |-> opts, eq |-> FALSE, glued |-> FALSE, value |-> Name]
ShortEq(o, text) == [dash |-> 1, opts |-> <<o>>, eq |-> TRUE, glued |-> FALSE, value |-> text]
Glued(o, text)   == [dash |-> 1, opts |-> <<o>>, eq |-> FALSE, glued |-> TRUE, value |-> text]
Long(o)          == [dash |-> 2, opts |-> <<o>>, eq |-> FALSE, glued |-> FALSE, value |-> Name]
LongEq(o, text)  == [dash |-> 2, opts |-> <<o>>, eq |-> TRUE, glued |-> FALSE, value |-> text]
Negative(n)      == [dash |-> 1, opts |-> <<"0">>, eq |-> FALSE, glued |-> FALSE, value |-> Text(-n, "")]
Dash             == Short(<<>>)

Words == {Plain(Name), Plain(Text(5, "")), Plain(Text(9, "ms")), Dash, Negative(5)}
           \cup {Short(o) : o \in {<<"C">>, <<"b">>, <<"i">>, <<"p">>, <<"w">>, <<"o">>, <<"s", "m">>,
                                   <<"f", "t">>, <<"i", "b">>, <<"z">>}}
           \cup {ShortEq("i", Text(5, "")), Glued("i", Text(5, "")), Glued("p", Text(9, ""))}
           \cup {Long("b"), Long("w"), Long("z"), Long("usage"), LongEq("p", Text(3, "")), LongEq("C", Name)}
MCUnwritable == {Text(9, "ms")}

Texts == {[kind |-> "text", text |-> Text(n, u)] :
            n \in -(LONG_MAX + 3)..(LONG_MAX + 3), u \in Units}
           \cup {[kind |-> "text", text |-> Name]}
Lines == {[kind |-> "line", argv |-> argv] : argv \in BoundedSeq(Words, 3)}

-------------------------------------------------------------------------------
(* Maps files, of two files and anonymous mappings, some with a gap before them; *)
(* and ranges in any order.                                                      *)

\* Mappings are of two addresses; a gap is of one.
Mapping == [path : {"", "[", "python", "libc"}, gap : {0, 1}]
Laid(m) == [i \in 1..Len(m) |->
              LET lo == 2 * (i - 1) + SumOf(m, i) IN [lo |-> lo, hi |-> lo + 2, path |-> m[i].path]]
Maps == {[kind |-> "maps", lines |-> Laid(m), prev |-> prev] :
           m \in BoundedSeq(Mapping, 4), prev \in {"", "python"}}
          \cup {[kind |-> "maps", prev |-> "", lines |-> Laid([i \in 1..5 |-> [path |-> p[i], gap |-> 0]])] :
                  p \in [1..5 -> {"", "python", "libc", "ld"}]}
Orders == {[kind |-> "order", lo |-> p] : p \in UNION {Permutation(n) : n \in 1..6}}

-------------------------------------------------------------------------------
(* Line tables: what the compiler has to say of each piece of the code, and how  *)
(* it writes that.  len is the length of the piece in bytes, two for a unit.     *)

Piece(form, len, dline, dend, column, column_end) ==
  [form |-> form, len |-> len, dline |-> dline, dend |-> dend, column |-> column, column_end |-> column_end]
Pieces311 == {Piece("none", 4, 0, 0, 0, 0), Piece("long", 2, -2, 70, 0, 100), Piece("long", 4, 5000, 0, 64, 3),
              Piece("no columns", 2, -3, 0, 0, 0), Piece("no columns", 16, 33, 0, 0, 0),
              Piece("one line", 2, 0, 0, 90, 127), Piece("one line", 6, 2, 0, 0, 1),
              Piece("short", 2, 0, 0, 5, 20), Piece("short", 10, 0, 0, 77, 77)}
Pieces310 == {Piece(f, len, dline, 0, 0, 0) : f \in {"line"}, len \in {2, 300}, dline \in {-300, -128, -1, 1, 128}}
               \cup {Piece("none", 4, 0, 0, 0, 0)}
Pieces38 == {Piece("line", len, dline, 0, 0, 0) : len \in {2, 256, 600}, dline \in {-300, -129, -1, 1, 128}}
FirstLine == 1000
Tables == {[kind |-> "table", version |-> 311, pieces |-> t] : t \in BoundedSeq(Pieces311, 4)}
            \cup {[kind |-> "table", version |-> 310, pieces |-> t] : t \in BoundedSeq(Pieces310, 3)}
            \cup {[kind |-> "table", version |-> 38, pieces |-> t] : t \in BoundedSeq(Pieces38, 3)}

RECURSIVE VarintBytes(_)
VarintBytes(n) == IF n < 64 THEN <<n>> ELSE <<64 + (n % 64)>> \o VarintBytes(n \div 64)
SignedBytes(n) == VarintBytes(IF n < 0 THEN 2 * (-n) + 1 ELSE 2 * n)

Bytes311(p) ==
  LET head(code) == <<128 + 8 * code + p.len \div 2 - 1>>
  IN  CASE p.form = "none"       -> head(15)
        [] p.form = "long"       -> head(14) \o SignedBytes(p.dline) \o VarintBytes(p.dend)
                                      \o VarintBytes(p.column) \o VarintBytes(p.column_end)
        [] p.form = "no columns" -> head(13) \o SignedBytes(p.dline)
        [] p.form = "one line"   -> head(10 + p.dline) \o <<p.column, p.column_end>>
        [] p.form = "short"      -> head(p.column \div 8) \o <<16 * (p.column % 8) + (p.column_end - p.column)>>

RECURSIVE Pairs310(_, _)
Pairs310(len, dline) ==
  IF dline > 127 THEN <<0, 127>> \o Pairs310(len, dline - 127)
  ELSE IF dline < -127 THEN <<0, 129>> \o Pairs310(len, dline + 127)
  ELSE IF len > 254 THEN <<254, dline % 256>> \o Pairs310(len - 254, 0)
  ELSE <<len, dline % 256>>
Bytes310(p) == IF p.form = "none" THEN <<p.len, 128>> ELSE Pairs310(p.len, p.dline)

RECURSIVE Pairs38(_, _)
Pairs38(len, dline) ==
  IF len > 255 THEN <<255, 0>> \o Pairs38(len - 255, dline)
  ELSE IF dline > 127 THEN <<len, 127>> \o Pairs38(0, dline - 127)
  ELSE IF dline < -128 THEN <<len, 128>> \o Pairs38(0, dline + 128)
  ELSE <<len, dline % 256>>

TableBytes(version, pieces) ==
  FlattenSeq([k \in DOMAIN pieces |->
    CASE version = 311 -> Bytes311(pieces[k])
      [] version = 310 -> Bytes310(pieces[k])
      [] version = 38  -> Pairs38(IF k = 1 THEN 0 ELSE pieces[k - 1].len, pieces[k].dline)])

\* The location of piece p, if the one before it is at at.  A piece without a line
\* has none of its own.
Placed(version, at, p) ==
  LET line == at.line + p.dline
  IN  CASE p.form = "none" -> at
        [] p.form = "line" -> [at EXCEPT !.line = line]
        [] p.form = "long" -> [line |-> line, line_end |-> line + p.dend,
                               column |-> p.column, column_end |-> p.column_end]
        [] p.form = "no columns" -> [line |-> line, line_end |-> line, column |-> 0, column_end |-> 0]
        [] p.form \in {"one line", "short"} ->
             [line |-> line, line_end |-> line, column |-> p.column + 1, column_end |-> p.column_end + 1]

-------------------------------------------------------------------------------
Inputs == Texts \cup Lines \cup Maps \cup Orders \cup Tables

-------------------------------------------------------------------------------
(* Properties. *)

\* What a unit stands for, in microseconds.
Micro == [u \in {"s", "ms", "us"} |->
            CASE u = "s" -> Thousand * Thousand [] u = "ms" -> Thousand [] u = "us" -> 1]
InRange(n, max) == n \in (-max - 1)..max

\* A number or a time that is accepted is the one that was written, in the unit that
\* was written, and one that is written properly is accepted (for a timeout in ms see
\* TimeoutUnitsTold).  Products that do not fit a long come out as some other time, but
\* not as a negative one, nor as one that is multiplied beyond a long once more; pids
\* that do not fit an int come out as some other pid, which may be none with argp.
TextsTold ==
  input.kind = "text" =>
    LET text == input.text
        time(default) == IF text.unit \in DOMAIN Micro THEN text.num * Micro[text.unit] ELSE text.num * default
        after(gnu, o) == Set(gnu, o, text, Defaults)
        written == text.digits /\ text.unit = ""
    IN  \A gnu \in BOOLEAN :
          /\ Valid(gnu, "i", text) => after(gnu, "i").t_sampling_interval \in 0..LONG_MAX
          /\ Valid(gnu, "t", text) => after(gnu, "t").timeout \in 0..LONG_MAX
          /\ \A o \in {"p", "w"} : ~gnu /\ Valid(gnu, o, text) => after(gnu, o).attach_pid > 0
          /\ InRange(time(1), LONG_MAX) =>
               /\ Valid(gnu, "i", text) <=>
                    text.digits /\ text.unit \in {"", "s", "ms", "us"} /\ text.num >= 0
               /\ Valid(gnu, "i", text) => after(gnu, "i").t_sampling_interval = time(1)
          /\ InRange(time(Thousand), LONG_MAX) =>
               /\ text.unit # "ms" =>
                    (Valid(gnu, "t", text) <=> text.digits /\ text.unit \in {"", "s"} /\ text.num >= 0)
               /\ Valid(gnu, "t", text) => after(gnu, "t").timeout = time(Thousand)
          /\ InRange(text.num * Megabyte, LONG_MAX) =>
               /\ \A o \in {"x", "h"} : Valid(gnu, o, text) <=> written /\ text.num >= 0
               /\ Valid(gnu, "x", text) => after(gnu, "x").exposure = text.num
               /\ Valid(gnu, "h", text) => after(gnu, "h").heap = text.num * Megabyte
          /\ InRange(text.num, INT_MAX) =>
               \A o \in {"p", "w"} :
                 /\ Valid(gnu, o, text) <=> written /\ text.num > 0
                 /\ Valid(gnu, o, text) => after(gnu, o).attach_pid = text.num

\* "This acceps s and ms as units" (argparse.c:153, of parse_timeout), "Start up wait time
\* in milliseconds (default is 100). Accepted units: s, ms." (argparse.c:220, and README.md):
\* a time in ms is accepted as a timeout, and is that many milliseconds.
TimeoutUnitsTold ==
  input.kind = "text" /\ input.text.digits /\ input.text.unit = "ms"
    /\ input.text.num \in 0..(LONG_MAX \div Thousand) =>
    \A gnu \in BOOLEAN :
      /\ Valid(gnu, "t", input.text)
      /\ Set(gnu, "t", input.text, Defaults).timeout = input.text.num * Thousand

\* Words the two parsers are known to disagree on.
Contentious(w) == w = Dash \/ w.glued \/ (w.dash = 1 /\ w.eq)
\* A value that begins with a dash.
DashedValue(argv) == \E i \in 1..(Len(argv) - 1) : /\ argv[i].opts # <<>> /\ Last(argv[i].opts) \in WithValue
                                                   /\ ~argv[i].eq /\ argv[i + 1].dash > 0

\* A pid after -w: the bytes of a long written for it clear the field where, so that -w
\* was no more than -p.
WhereCleared(argv) ==
  [i \in 1..Len(argv) |->
     IF \E j \in (i + 1)..Len(argv) : "p" \in ToSet(argv[j].opts)
       THEN [argv[i] EXCEPT !.opts = [k \in DOMAIN @ |-> IF @[k] = "w" THEN "p" ELSE @[k]]]
       ELSE argv[i]]

\* The two parsers make the same of a command line, but for what a pid after -w clears.
\* They do not of: a dash alone; a value that begins with a dash or is not a word of its
\* own; a pid and a command, which only argp refuses; and an error after a pid, likewise.
ParsersAgree ==
  input.kind = "line" =>
    LET argv == input.argv
        same(argp, own) == \/ own = argp
                           \/ own.end = "run" /\ argp.end = "rejected" /\ own.options.attach_pid # 0
    IN  \/ \E i \in 1..Len(argv) : Contentious(argv[i])
        \/ DashedValue(argv)
        \/ same(Outcome(TRUE, WhereCleared(argv)), Outcome(FALSE, argv))

\* What follows the command is the command's: it changes nothing for Austin.
CommandKeepsItsOptions ==
  input.kind = "line" =>
    LET argv == input.argv
        kept(gnu, o) == o.end = "run" /\ o.command # 0 => Outcome(gnu, SubSeq(argv, 1, o.command)) = o
    IN  \A gnu \in BOOLEAN : kept(gnu, Outcome(gnu, argv))

\* Parsing ends; it does not exactly if there is no argp, and the parser comes to a dash
\* alone after words it has understood and before the command.
ParsingEnds ==
  input.kind = "line" =>
    LET argv == input.argv
        understood(i) == arg_parse(SubSeq(argv, 1, i), Start).end = ""
    IN  \A gnu \in BOOLEAN :
          Outcome(gnu, argv).end = "hang" <=>
            ~gnu /\ \E i \in 1..Len(argv) : argv[i] = Dash /\ understood(i - 1)

\* Austin is told by its command line what was written there.
OptionsTold == TextsTold /\ ParsersAgree /\ CommandKeepsItsOptions /\ ParsingEnds

RECURSIVE Nodes(_)
Nodes(t) == IF t.height = 0 THEN {} ELSE {t} \cup Nodes(t.left) \cup Nodes(t.right)

\* In whatever order ranges are added, the tree stays balanced, its heights are
\* true, and every address is found in its range, and in no range if it has none.
TreeSound ==
  input.kind = "order" =>
    LET lo == input.lo
        tree == vm_range_tree__add([i \in DOMAIN lo |-> [lo |-> 2 * lo[i], hi |-> 2 * lo[i] + 1, path |-> lo[i]]])
    IN  /\ \A r \in Nodes(tree) : _vm_range__bf(r) \in -1..1 /\ WithHeight(r) = r
        /\ \A a \in 1..(2 * Len(lo) + 2) :
             LET r == _vm_range__find(tree, a)
             IN  IF a % 2 = 0 /\ a <= 2 * Len(lo) THEN r.height > 0 /\ r.name = a \div 2 ELSE r.height = 0

\* An address of a mapped file is found under the name of that file, at an offset
\* from its first mapping, unless the ranges are full; one that is found is of that
\* file, or lies between two mappings of it with no other file between them.  And
\* no range of an earlier call is written, unless the maps begin with the file the
\* earlier ones ended with.
AddressesNamed ==
  input.kind = "maps" =>
    LET lines == input.lines
        named == {i \in DOMAIN lines : lines[i].path \notin {"", "["}}
        of(i) == lines[i].lo..(lines[i].hi - 1)
        read == _py_proc__get_vm_maps(lines, input.prev)
        tree == vm_range_tree__add(read.ranges)
        base == base_table(read.ranges)
        within(a, path) == \E i, j \in named :
          /\ lines[i].path = path /\ lines[j].path = path /\ lines[i].lo <= a /\ a < lines[j].hi
          /\ \A k \in named : k \in i..j => lines[k].path = path
    IN  /\ read.wild => \E i \in named : lines[i].path = input.prev /\ \A j \in named : i <= j
        /\ ~read.wild =>
             /\ \A i \in named : \A a \in of(i) :
                  Len(read.ranges) < MAX_RANGES => _vm_range__find(tree, a).height > 0
             /\ \A a \in 0..20 :
                  LET r == _vm_range__find(tree, a)
                  IN  r.height > 0 =>
                        /\ within(a, r.name)
                        /\ \A i \in named : a \in of(i) => r.name = lines[i].path
                        /\ base[r.name] <= a
                        /\ \E i \in named : /\ lines[i].lo = base[r.name] /\ lines[i].path = r.name
                                            /\ \A j \in named : lines[j].path = r.name => i <= j

\* The ranges of the maps file, and the tree they are found in, tell of an address
\* which file it is of.
RangesTold == TreeSound /\ AddressesNamed

\* The location of a frame is that of the piece of code its last instruction lies
\* in, and the table is not read past its end; up to 3.10 the end of the line stays
\* the first line of the function, and there are no columns.  A frame that has not
\* begun (lasti is -1) is on the first line of its function before 3.10, where the
\* first pair of bytes leads in 3.10, and in its last piece from 3.11 on.
LocationTold ==
  input.kind = "table" =>
    LET version == input.version
        pieces == input.pieces
        lnotab == TableBytes(version, pieces)
        before(k) == FoldLeft(LAMBDA n, p : n + p.len, 0, SubSeq(pieces, 1, k - 1))
        \* The places in piece k that are looked at: its first and last instruction.
        lastis(k) == LET unit == IF version = 38 THEN 1 ELSE 2
                     IN  {before(k) \div unit, (before(k) + pieces[k].len - 2) \div unit}
        at(k) == FoldLeft(LAMBDA l, p : Placed(version, l, p), AtStart(FirstLine).at, SubSeq(pieces, 1, k))
        told(lasti) == _frame_from_code_raddr(version, lnotab, FirstLine, lasti)
    IN  ~Refused(version, lnotab) =>
          /\ \A k \in DOMAIN pieces : \A lasti \in lastis(k) :
               told(lasti).at = at(k) /\ ~told(lasti).beyond
          /\ pieces # <<>> =>
               told(-1).at = CASE version = 311 -> at(Len(pieces))
                               [] version = 310 -> Entry310(lnotab, -1, AtStart(FirstLine)).at
                               [] version = 38  -> AtStart(FirstLine).at
===============================================================================
