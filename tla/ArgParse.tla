-------------------------------- MODULE ArgParse --------------------------------
(***************************************************************************)
(* The command line: argparse.c and the options main (austin.c) derives    *)
(* from it.  There are two parsers, the callback of the GNU argp library   *)
(* and one that is used where there is no argp (macOS, Windows, musl);     *)
(* both are functions of the words of the line.                            *)
(*                                                                         *)
(* A text is what strtol makes of it: whether it begins with digits, their *)
(* value, and what follows them.  A word is a text without a dash, or      *)
(* options with perhaps a value.  long and int are narrow, and a thousand  *)
(* and a megabyte are small, so that all boundaries are within TLC's reach.*)
(***************************************************************************)
EXTENDS Integers, Sequences, SequencesExt

CONSTANTS LONG_MAX, INT_MAX,  \* of the C types long and int
          Thousand, Megabyte, \* 1000 and 1 << 20
          DefaultInterval, DefaultTimeout,
          Unwritable          \* the names of files that cannot be opened

ASSUME WidthAssumption == {LONG_MAX, INT_MAX, Thousand, Megabyte} \subseteq Nat \ {0}
ASSUME DefaultAssumption == {DefaultInterval, DefaultTimeout} \subseteq 0..LONG_MAX

Unsigned(n) == n % (2 * (LONG_MAX + 1))
Signed(n, max) == ((n + max + 1) % (2 * (max + 1))) - (max + 1)

strtol(text) == IF text.num > LONG_MAX THEN LONG_MAX
                ELSE IF text.num < -LONG_MAX - 1 THEN -LONG_MAX - 1
                ELSE text.num

str_to_num(text) == [ok |-> text.digits /\ text.unit = "", num |-> strtol(text)]

parse_interval(text) ==
  [ok |-> text.digits /\ text.unit \in {"", "s", "ms", "us"},
   num |-> CASE text.unit = "s"  -> Signed(strtol(text) * Thousand * Thousand, LONG_MAX)
             [] text.unit = "ms" -> Signed(strtol(text) * Thousand, LONG_MAX)
             [] OTHER            -> strtol(text)]

\* The case of the unit ms has no way out but the failure of the default case.
parse_timeout(text) ==
  [ok |-> text.digits /\ text.unit \in {"", "s"},
   num |-> IF text.unit = "s" THEN Signed(strtol(text) * Thousand, LONG_MAX) ELSE strtol(text)]

-------------------------------------------------------------------------------
(* Options. *)

\* k is of austinp, which is only built with argp.
Flags == {"b", "e", "s", "m", "f", "C", "P", "g", "k"}
WithValue == {"i", "t", "p", "w", "x", "h", "o"}
Helps == {"?", "V", "usage"}
Known(gnu) == (Flags \cup WithValue \cup Helps) \ IF gnu THEN {} ELSE {"k"}

\* flags are the options without a value that are set; files are texts.
Defaults == [t_sampling_interval |-> DefaultInterval, timeout |-> DefaultTimeout, attach_pid |-> 0,
             where |-> 0, flags |-> {}, exposure |-> 0, heap |-> 0,
             output |-> [digits |-> FALSE, num |-> 0, unit |-> "stdout"]]

\* What the option's case demands of its value.  The fields are unsigned, so that
\* the comparison with LONG_MAX is what rejects negative numbers; a pid is looked
\* at before it is narrowed by one parser and after it by the other.
Valid(gnu, o, text) ==
  CASE o = "i"          -> /\ parse_interval(text).ok
                           /\ Unsigned(parse_interval(text).num) <= LONG_MAX
    [] o = "t"          -> /\ parse_timeout(text).ok
                           /\ Unsigned(parse_timeout(text).num) <= LONG_MAX \div Thousand
    [] o \in {"x", "h"} -> str_to_num(text).ok /\ Unsigned(str_to_num(text).num) <= LONG_MAX
    [] o \in {"p", "w"} -> /\ str_to_num(text).ok
                           /\ LET n == str_to_num(text).num
                              IN  IF gnu THEN n > 0 ELSE Signed(n, INT_MAX) > 0
    [] OTHER            -> TRUE

\* The effect of the case.  The parser without argp writes a long over attach_pid,
\* which is an int: its upper half goes to the next field, where.
Set(gnu, o, text, p) ==
  LET n     == str_to_num(text).num
      pid   == [p EXCEPT !.attach_pid = Signed(n, INT_MAX),
                         !.where = IF gnu THEN @ ELSE Signed(n \div (2 * (INT_MAX + 1)), INT_MAX)]
  IN  CASE o \in Flags -> [p EXCEPT !.flags = @ \cup {o}]
        [] o = "i" -> [p EXCEPT !.t_sampling_interval = parse_interval(text).num]
        [] o = "t" -> [p EXCEPT !.timeout = parse_timeout(text).num * Thousand]
        [] o = "x" -> [p EXCEPT !.exposure = n]
        [] o = "h" -> [p EXCEPT !.heap = Unsigned(n * Megabyte)]
        [] o = "p" -> pid
        [] o = "w" -> [pid EXCEPT !.where = 1]
        [] o = "o" -> [p EXCEPT !.output = text]

-------------------------------------------------------------------------------
(* Words: dash counts the dashes they begin with; opts are the option letters,  *)
(* or the letter of a long option; value is what follows an equals sign (eq) or *)
(* the last letter (glued), or the whole word.                                  *)

\* The word after the one at a, if there is one and it can be a value.
Following(argv, a) == {i \in {a + 1} : i <= Len(argv)}

\* A parser is at word a and has understood p; end tells how parsing ended.
Start == [a |-> 1, p |-> Defaults, end |-> "", command |-> 0, bad |-> FALSE]
Stop(st, how) == [st EXCEPT !.end = how]

\* The cases of cb and of parse_opt: set the option or leave the program.
cb(gnu, o, text, st) ==
  IF o \in Helps THEN Stop(st, "help")
  ELSE IF ~Valid(gnu, o, text) THEN Stop(st, "exit")
  ELSE [st EXCEPT !.p = Set(gnu, o, text, st.p)]

-------------------------------------------------------------------------------
(* The parser without argp.  An error is a negative result, which leaves what   *)
(* has been understood until then.                                              *)

Error(st) == [st EXCEPT !.end = "error", !.bad = TRUE]

_handle_opt(o, argv, st) ==
  LET w == argv[st.a]
      apart == o \in WithValue /\ ~w.eq
  IN  IF \/ o \notin Known(FALSE)
         \/ o \notin WithValue /\ w.eq
         \/ apart /\ {i \in Following(argv, st.a) : argv[i].dash = 0} = {}
        THEN Error(st)
        ELSE cb(FALSE, o, IF apart THEN argv[st.a + 1].value ELSE w.value, st)

\* Where the next word is, after the option o of the word at a.
After(o, argv, st) ==
  IF st.end # "" THEN st
  ELSE [st EXCEPT !.a = @ + IF o \in WithValue /\ ~argv[st.a].eq THEN 2 ELSE 1]

_handle_long_opt(argv, st) ==
  LET o == argv[st.a].opts[1] IN After(o, argv, _handle_opt(o, argv, st))

\* All options of a word.  If there are none the same word comes again.
_handle_opts(argv, st) ==
  LET w == argv[st.a]
      one(s, i) == IF s.end # "" THEN s
                   ELSE IF w.opts[i] \in WithValue /\ ~w.eq /\ (w.glued \/ i < Len(w.opts)) THEN Error(s)
                   ELSE _handle_opt(w.opts[i], argv, s)
  IN  IF w.opts = <<>> THEN st
      ELSE After(Last(w.opts), argv, FoldLeft(one, st, [i \in 1..Len(w.opts) |-> i]))

Argument(st) == [st EXCEPT !.end = "command", !.command = st.a]

\* Word by word; where nothing changes the loop has no end.
RECURSIVE arg_parse(_, _)
arg_parse(argv, st) ==
  IF st.end # "" \/ st.a > Len(argv) THEN st
  ELSE LET handled == CASE argv[st.a].dash = 2 -> _handle_long_opt(argv, st)
                        [] argv[st.a].dash = 1 -> _handle_opts(argv, st)
                        [] argv[st.a].dash = 0 -> Argument(st)
       IN  IF handled = st THEN Stop(st, "hang") ELSE arg_parse(argv, handled)

-------------------------------------------------------------------------------
(* The GNU library goes through the options, calling parse_opt for each.        *)

NotNumber == [digits |-> FALSE, num |-> 0, unit |-> ""]

\* Mutant: the command is looked for once only, before the first option.
ConsumedAtFirst(argv, st) ==
  IF st.a = 1 /\ argv[st.a].dash = 0
    THEN [st EXCEPT !.command = st.a, !.a = Len(argv) + 1] ELSE st

\* parse_opt begins by looking whether the next word is the command: if so, it and
\* all that follow are taken off argp's hands.
Consumed(argv, st) ==
  IF st.a <= Len(argv) /\ argv[st.a].dash = 0
    THEN [st EXCEPT !.command = st.a, !.a = Len(argv) + 1]
    ELSE st

\* getopt's view of option i of the word at a: its value and the next position.
GnuOption(argv, st, i) ==
  LET w == argv[st.a]
      o == w.opts[i]
      last  == i = Len(w.opts)
      apart == o \in WithValue /\ last /\ ~w.glued /\ ~w.eq
      text  == CASE apart -> argv[st.a + 1].value
                 [] ~apart /\ (~last \/ (w.eq /\ w.dash = 1)) -> NotNumber
                 [] OTHER -> w.value
      words == CASE apart -> 2
                 [] o \notin WithValue /\ ~last -> 0
                 [] OTHER -> 1
  IN  IF \/ o \notin Known(TRUE)
         \/ o \notin WithValue /\ w.eq /\ last
         \/ apart /\ Following(argv, st.a) = {}
        THEN Stop(st, "exit")
        ELSE cb(TRUE, o, text, Consumed(argv, [st EXCEPT !.a = @ + words]))

\* The options of one word; one that takes the rest of it as its value is the last.
\* A dash alone is an argument, which parse_opt accepts and ignores.
GnuWord(argv, st) ==
  LET one(s, i) == IF s.end # "" \/ s.a # st.a THEN s ELSE GnuOption(argv, s, i)
      opts == argv[st.a].opts
  IN  IF opts = <<>> THEN Consumed(argv, [st EXCEPT !.a = @ + 1])
      ELSE FoldLeft(one, st, [i \in 1..Len(opts) |-> i])

RECURSIVE argp_parse(_, _)
argp_parse(argv, st) ==
  IF st.end # "" THEN st
  ELSE IF st.a > Len(argv)
    THEN IF st.p.attach_pid # 0 /\ st.command # 0 THEN Stop(st, "exit") ELSE st
  ELSE argp_parse(argv, GnuWord(argv, st))

-------------------------------------------------------------------------------
(* parse_args, and what main makes of the options.                              *)

\* -w overrides -b; Austin leaves if it cannot open the output file.
validate(p) == IF p.where # 0 THEN [p EXCEPT !.flags = @ \ {"b"}] ELSE p
Opened(p) == p.output \notin Unwritable

\* main: -w samples once; -f implies -m; -m overrides -s.
Normalised(p) ==
  LET once == IF p.where # 0 THEN [p EXCEPT !.t_sampling_interval = 1, !.exposure = 1] ELSE p
  IN  CASE "f" \in p.flags -> [once EXCEPT !.flags = @ \cup {"m"}]
        [] "f" \notin p.flags /\ "m" \in p.flags -> [once EXCEPT !.flags = @ \ {"s"}]
        [] OTHER -> once

\* What Austin does with a command line: it leaves with a message, or for the help
\* text, or hangs, or profiles a command or a process with the options options.
Ended(st) ==
  LET p == validate(st.p)
  IN  CASE st.end \in {"hang", "help"} -> [end |-> st.end]
        [] st.end = "exit" -> [end |-> "rejected"]
        [] /\ st.end \notin {"hang", "help", "exit"}
           /\ ~Opened(p) \/ (st.command = 0 /\ p.attach_pid = 0) -> [end |-> "rejected"]
        [] OTHER -> [end |-> "run", command |-> IF p.attach_pid # 0 THEN 0 ELSE st.command,
                     options |-> Normalised(p), ignored |-> st.bad]

Outcome(gnu, argv) ==
  Ended(IF argv = <<>> THEN Stop(Start, "help")
        ELSE IF gnu THEN argp_parse(argv, Consumed(argv, Start))
        ELSE arg_parse(argv, Start))
===============================================================================
