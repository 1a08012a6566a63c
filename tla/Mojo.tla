---------------------------------- MODULE Mojo ----------------------------------
(***************************************************************************)
(* The binary stream of -b (mojo.h, events.h): which bytes an event        *)
(* becomes.                                                                *)
(*                                                                         *)
(* A string is a sequence of bytes other than 0.  References are narrow.   *)
(***************************************************************************)
EXTENDS Integers, Sequences

CONSTANTS KEY_BITS, \* of a key_dt: 64
          REF_BITS  \* of MOJO_INT32: 27

ASSUME BitsAssumption == KEY_BITS \in Nat /\ REF_BITS \in 0..KEY_BITS

\* The value of a bit of a word.
Bit[i \in 0..KEY_BITS] == IF i = 0 THEN 1 ELSE 2 * Bit[i - 1]

\* The bits that are kept of an address.
MOJO_INT32(address) == address % Bit[REF_BITS]

-------------------------------------------------------------------------------
(* Bytes: seven bits of the number and one that says that more follow; of the   *)
(* first byte one bit is the sign.                                              *)

\* What is left of n after i rounds of the loop.
Shifted(n) == LET integer[i \in 0..n] == IF i = 0 THEN n \div 64 ELSE integer[i - 1] \div 128
              IN  integer

\* Mutant: at most one byte follows the first.
IntegerShort(n, sign) ==
  <<(n % 64) + (IF sign THEN 64 ELSE 0) + (IF n >= 64 THEN 128 ELSE 0)>>
    \o IF n >= 64 THEN <<(n \div 64) % 128>> ELSE <<>>

mojo_integer(n, sign) ==
  LET integer == Shifted(n)
      more(i) == IF integer[i] # 0 THEN 128 ELSE 0
      rounds  == CHOOSE k \in 0..n : integer[k] = 0 /\ \A i \in 0..(k - 1) : integer[i] # 0
  IN  <<(n % 64) + (IF sign THEN 64 ELSE 0) + more(0)>>
        \o [i \in 1..rounds |-> (integer[i - 1] % 128) + more(i)]

mojo_ref(key) == mojo_integer(MOJO_INT32(key), FALSE)
mojo_string(string) == Append(string, 0)
mojo_event(event) == <<event>>

MOJO_METADATA == 1
MOJO_STACK == 2
MOJO_FRAME == 3
MOJO_FRAME_INVALID == 4
MOJO_FRAME_REF == 5
MOJO_FRAME_KERNEL == 6
MOJO_GC == 7
MOJO_IDLE == 8
MOJO_METRIC_TIME == 9
MOJO_METRIC_MEMORY == 10
MOJO_STRING == 11

mojo_frame(frame) ==
  mojo_event(MOJO_FRAME) \o mojo_integer(frame.key, FALSE)
    \o mojo_ref(frame.filename) \o mojo_ref(frame.scope)
    \o mojo_integer(frame.line, FALSE) \o mojo_integer(frame.line_end, FALSE)
    \o mojo_integer(frame.column, FALSE) \o mojo_integer(frame.column_end, FALSE)

mojo_metadata(label, value) == mojo_event(MOJO_METADATA) \o mojo_string(label) \o mojo_string(value)
mojo_stack(pid, iid, tid) ==
  mojo_event(MOJO_STACK) \o mojo_integer(pid, FALSE) \o mojo_integer(iid, FALSE) \o mojo_string(tid)
mojo_metric_memory(value) ==
  mojo_event(MOJO_METRIC_MEMORY) \o mojo_integer(IF value < 0 THEN -value ELSE value, value < 0)
mojo_string_event(key, string) == mojo_event(MOJO_STRING) \o mojo_ref(key) \o mojo_string(string)

\* The macros of events.h, for an event e; those without a body are their number.
emit(e) ==
  CASE e.event = MOJO_METADATA      -> mojo_metadata(e.label, e.value)
    [] e.event = MOJO_STACK         -> mojo_stack(e.pid, e.iid, e.tid)
    [] e.event = MOJO_FRAME         -> mojo_frame(e.frame)
    [] e.event = MOJO_FRAME_REF     -> mojo_event(e.event) \o mojo_integer(e.key, FALSE)
    [] e.event = MOJO_FRAME_KERNEL  -> mojo_event(e.event) \o mojo_string(e.scope)
    [] e.event = MOJO_METRIC_TIME   -> mojo_event(e.event) \o mojo_integer(e.value, FALSE)
    [] e.event = MOJO_METRIC_MEMORY -> mojo_metric_memory(e.value)
    [] e.event = MOJO_STRING        -> mojo_string_event(e.key, e.string)
    [] OTHER                        -> mojo_event(e.event)
===============================================================================
