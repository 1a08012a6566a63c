-------------------------------- MODULE MCParts --------------------------------
(***************************************************************************)
(* The parts of Austin that stand for themselves, one at a time: the       *)
(* functions of MCPure, version descriptors, statistics, the stream of -b, *)
(* and the keys of frames.  What is chosen first is the part; the others   *)
(* stay as they begin.                                                     *)
(***************************************************************************)
EXTENDS MCPure, Version, Stats, Stream, FrameKey

VARIABLE part

\* Versions of each kind on either side of each boundary.
MCVersions == {<<2, 7>>, <<3, 6>>} \cup {<<3, m>> : m \in 8..13}

\* Samples shorter and longer than the interval and than each other, with a clock that
\* goes on at any evaluation that makes a difference.
MCSamples == [d : 1..4, tick : {2, 3, 4, 9}, error : BOOLEAN]

\* Events of each kind, with numbers on both sides of every boundary of the encoding, and
\* strings that look like events and numbers.
Numbers == {0, 1, 63, 64, 8191, 8192, 1048575, 1048576}
Strings == {<<>>, <<11, 1>>}
Located(f, n) == [key |-> n, filename |-> f, scope |-> 1, line |-> n, line_end |-> 0,
                  column |-> 63, column_end |-> 64]
MCEvents ==
  [event : {MOJO_METADATA}, label : Strings, value : Strings]
    \cup [event : {MOJO_STACK}, pid : {64}, iid : {0}, tid : Strings]
    \cup {[event |-> MOJO_FRAME, frame |-> Located(f, n)] : f \in {1, 8}, n \in {0, 8192}}
    \cup [event : {MOJO_FRAME_REF}, key : {0, 1048576}]
    \cup [event : {MOJO_FRAME_KERNEL}, scope : Strings]
    \cup [event : {MOJO_METRIC_TIME}, value : Numbers]
    \cup [event : {MOJO_METRIC_MEMORY}, value : Numbers \cup {-n : n \in Numbers}]
    \cup [event : {MOJO_STRING}, key : {1}, string : Strings]
    \cup [event : {MOJO_FRAME_INVALID, MOJO_GC, MOJO_IDLE}]

\* Two code objects whose addresses agree in the bits that are kept; a frame that has not
\* begun, instructions that fit, that fit before they are doubled, and one that reaches
\* into the bits of the address.
MCCode  == {0, 1, 9}
MCLasti == {-1, 0, 1, 2, 4}

-------------------------------------------------------------------------------

ofVersions == <<written, met, ended>>
ofSamples  == <<sample_cnt, error_cnt, long_cnt, times, samples>>
ofStream   == <<bytes, read, emitted>>
vars       == <<part, input, ofVersions, ofSamples, ofStream, keyVars>>

NoInput == [kind |-> "none"]

Init ==
  /\ VersionInit /\ StatsInit /\ StreamInit /\ FrameKeyInit
  /\ \/ part = "functions" /\ version = 38 /\ input \in Inputs
     \/ part \in {"versions", "samples", "stream"} /\ version = 38 /\ input = NoInput
     \/ part = "keys" /\ input = NoInput

OneVersion == part = "versions" /\ VersionNext /\ UNCHANGED <<ofSamples, ofStream, keyVars>>
OneSample  == part = "samples" /\ StatsNext /\ UNCHANGED <<ofVersions, ofStream, keyVars>>
OneEvent   == part = "stream" /\ StreamNext /\ UNCHANGED <<ofVersions, ofSamples, keyVars>>
OneFrame   == part = "keys" /\ FrameKeyNext /\ UNCHANGED <<ofVersions, ofSamples, ofStream>>

Next == (OneVersion \/ OneSample \/ OneEvent \/ OneFrame) /\ UNCHANGED <<part, input>>
Spec == Init /\ [][Next]_vars
===============================================================================
