-------------------------------- MODULE Stream --------------------------------
(***************************************************************************)
(* The stream of -b between Austin, which emits events, and a reader of    *)
(* the format, which has the bytes and nothing else to go by.              *)
(***************************************************************************)
EXTENDS Mojo

String == Seq(1..255)
Frame  == [key : Nat, filename : Nat, scope : Nat,
           line : Nat, line_end : Nat, column : Nat, column_end : Nat]
Event ==
  [event : {MOJO_METADATA}, label : String, value : String]
    \cup [event : {MOJO_STACK}, pid : Nat, iid : Nat, tid : String]
    \cup [event : {MOJO_FRAME}, frame : Frame]
    \cup [event : {MOJO_FRAME_REF}, key : Nat]
    \cup [event : {MOJO_FRAME_KERNEL}, scope : String]
    \cup [event : {MOJO_METRIC_TIME}, value : Nat]
    \cup [event : {MOJO_METRIC_MEMORY}, value : Int]
    \cup [event : {MOJO_STRING}, key : Nat, string : String]
    \cup [event : {MOJO_FRAME_INVALID, MOJO_GC, MOJO_IDLE}]

CONSTANTS Events,   \* that are emitted
          MaxEvents \* bound: the events of a stream

ASSUME StreamAssumption == Events \subseteq Event /\ MaxEvents \in Nat

VARIABLES bytes,   \* written and not read yet
          read,    \* the events that were read
          emitted  \* history: the events that were emitted

-------------------------------------------------------------------------------
(* The reader: the number, or the string, at the beginning of s, and what       *)
(* follows it.                                                                  *)

ReadGroups(s) ==
  LET end == CHOOSE i \in 1..Len(s) : s[i] < 128 /\ \A j \in 1..(i - 1) : s[j] >= 128
      num[i \in 0..(end - 1)] == IF i = 0 THEN s[end] ELSE (128 * num[i - 1]) + (s[end - i] % 128)
  IN  [num |-> num[end - 1], rest |-> SubSeq(s, end + 1, Len(s))]

\* The groups that follow the first byte, if there are any; and the sign in that byte.
ReadMore(s) == IF Head(s) >= 128 THEN ReadGroups(Tail(s)) ELSE [num |-> 0, rest |-> Tail(s)]
WithSign(byte, n) == IF (byte \div 64) % 2 = 1 THEN -n ELSE n

ReadInteger(s) ==
  LET groups == ReadMore(s)
  IN  [num |-> WithSign(Head(s), (64 * groups.num) + (Head(s) % 64)), rest |-> groups.rest]

ReadString(s) ==
  LET end == CHOOSE i \in 1..Len(s) : s[i] = 0 /\ \A j \in 1..(i - 1) : s[j] # 0
  IN  [string |-> SubSeq(s, 1, end - 1), rest |-> SubSeq(s, end + 1, Len(s))]

ReadFrame(s) ==
  LET key        == ReadInteger(s)
      filename   == ReadInteger(key.rest)
      scope      == ReadInteger(filename.rest)
      line       == ReadInteger(scope.rest)
      line_end   == ReadInteger(line.rest)
      column     == ReadInteger(line_end.rest)
      column_end == ReadInteger(column.rest)
  IN  [frame |-> [key |-> key.num, filename |-> filename.num, scope |-> scope.num, line |-> line.num,
                  line_end |-> line_end.num, column |-> column.num, column_end |-> column_end.num],
       rest |-> column_end.rest]

ReadEvent(s) ==
  LET event == Head(s)
      int   == ReadInteger(Tail(s))
      str   == ReadString(Tail(s))
      frame == ReadFrame(Tail(s))
  IN  CASE event = MOJO_METADATA ->
             LET value == ReadString(str.rest)
             IN  [e |-> [event |-> event, label |-> str.string, value |-> value.string], rest |-> value.rest]
        [] event = MOJO_STACK ->
             LET iid == ReadInteger(int.rest)
                 tid == ReadString(iid.rest)
             IN  [e |-> [event |-> event, pid |-> int.num, iid |-> iid.num, tid |-> tid.string], rest |-> tid.rest]
        [] event = MOJO_FRAME -> [e |-> [event |-> event, frame |-> frame.frame], rest |-> frame.rest]
        [] event = MOJO_FRAME_REF -> [e |-> [event |-> event, key |-> int.num], rest |-> int.rest]
        [] event = MOJO_FRAME_KERNEL -> [e |-> [event |-> event, scope |-> str.string], rest |-> str.rest]
        [] event \in {MOJO_METRIC_TIME, MOJO_METRIC_MEMORY} ->
             [e |-> [event |-> event, value |-> int.num], rest |-> int.rest]
        [] event = MOJO_STRING ->
             LET string == ReadString(int.rest)
             IN  [e |-> [event |-> event, key |-> int.num, string |-> string.string], rest |-> string.rest]
        [] OTHER -> [e |-> [event |-> event], rest |-> Tail(s)]

-------------------------------------------------------------------------------

StreamInit == bytes = <<>> /\ read = <<>> /\ emitted = <<>>

Emitted(e) ==
  /\ Len(emitted) < MaxEvents
  /\ bytes' = bytes \o emit(e)
  /\ emitted' = Append(emitted, e)
  /\ UNCHANGED read

Read ==
  /\ bytes # <<>>
  /\ LET next == ReadEvent(bytes)
     IN  read' = Append(read, next.e) /\ bytes' = next.rest
  /\ UNCHANGED emitted

StreamNext == Read \/ \E e \in Events : Emitted(e)
StreamSpec == StreamInit /\ [][StreamNext]_<<bytes, read, emitted>>

-------------------------------------------------------------------------------
(* Properties. *)

\* What there is to be read of e: of references, the bits that are kept.
Seen(e) ==
  CASE e.event = MOJO_FRAME ->
         LET frame == e.frame
         IN  [event |-> MOJO_FRAME,
              frame |-> [key |-> frame.key, filename |-> MOJO_INT32(frame.filename),
                         scope |-> MOJO_INT32(frame.scope), line |-> frame.line, line_end |-> frame.line_end,
                         column |-> frame.column, column_end |-> frame.column_end]]
    [] e.event = MOJO_STRING -> [event |-> MOJO_STRING, key |-> MOJO_INT32(e.key), string |-> e.string]
    [] OTHER -> e

\* What a reader of the stream reads is what was emitted, in that order, and all of it
\* once nothing is left: numbers of any size and sign, empty strings, and strings with
\* bytes that could be events or the beginnings of numbers.
StreamReads ==
  /\ Len(read) <= Len(emitted)
  /\ \A i \in 1..Len(read) : read[i] = Seen(emitted[i])
  /\ bytes = <<>> => Len(read) = Len(emitted)
===============================================================================
