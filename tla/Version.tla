-------------------------------- MODULE Version --------------------------------
(***************************************************************************)
(* The descriptors of the CPython versions (version.h): where the fields   *)
(* are that Austin reads.  There is one for each of 3.8 to 3.12, shared by *)
(* all processes; get_version_descriptor writes the version it was asked   *)
(* for into the one it returns, and that is the version V_MIN, V_MAX and   *)
(* V_EQ go by.                                                             *)
(*                                                                         *)
(* A version is <<major, minor>>; d[m] is the version that is written in   *)
(* the descriptor of 3.m.                                                  *)
(***************************************************************************)
EXTENDS Integers

CONSTANT Versions \* of the processes that Austin may meet

\* The numbers are bytes of Py_Version, or read in the name of a file.
ASSUME VersionsAssumption == Versions \subseteq Nat \X (0..255)

VARIABLES written, \* the version in each descriptor
          met,     \* history: the versions of the processes that have been given a descriptor
          ended    \* Austin has gone through NULL

Minors == 8..12

\* A version as it is compared: the minor version in the low byte.
Packed(v) == 256 * v[1] + v[2]
V_MIN(v, m) == Packed(v) >= Packed(<<3, m>>)
V_MAX(v, m) == Packed(v) <= Packed(<<3, m>>)
V_EQ(v, m)  == Packed(v) = Packed(<<3, m>>)

\* Mutant: the case of 3.9 has no break.
DescriptorFallsThrough(v) == CASE v[2] = 9 -> 10 [] v[2] \in 0..8 -> 8 [] v[2] \in 10..12 -> v[2] [] OTHER -> 11

\* The descriptor of a version of Python 3: the older ones have that of 3.8, and the
\* newer ones that of 3.11, which is called the latest.
Descriptor(v) == CASE v[2] \in 0..7 -> 8 [] v[2] \in Minors -> v[2] [] OTHER -> 11

\* The version of a process has been told.  Other major versions than 3 have no
\* descriptor: NULL is written through, or for 0.0 returned and read through.
get_version_descriptor(v) ==
  /\ ~ended
  /\ IF v[1] = 3
       THEN /\ written' = [written EXCEPT ![Descriptor(v)] = v]
            /\ met' = met \cup {v}
            /\ UNCHANGED ended
       ELSE /\ ended' = TRUE
            /\ UNCHANGED <<written, met>>

\* What is at offset 0 because the initializer of the descriptor does not have it is
\* not there.
Fields(m) ==
  LET code    == {"filename", "name", "lnotab", "firstlineno"} \cup IF m >= 11 THEN {"code", "qualname"} ELSE {}
      frame   == {"f_back", "f_code", "f_lasti"}
      cframe  == IF m >= 11 THEN {"current_frame"} ELSE {}
      iframe  == IF m >= 11 THEN {"if_code", "previous", "prev_instr", "owner"} ELSE {}
      entry   == IF m = 11 THEN {"is_entry"} ELSE {}
      thread  == {"t_next", "top_frame", "thread_id"}
                   \cup (IF m >= 11 THEN {"native_thread_id", "stack"} ELSE {})
                   \cup (IF m = 12 THEN {"status"} ELSE {})
      is      == {"is_next", "tstate_head", "id", "is_gc"} \cup IF m = 12 THEN {"gil_state"} ELSE {}
      runtime == {"interp_head"} \cup IF m < 11 THEN {"runtime_gc"} ELSE {}
  IN  code \cup frame \cup cframe \cup iframe \cup entry \cup thread \cup is \cup runtime

\* What Austin reads of a process whose descriptor says version v.
FieldsRead(v) ==
  {"filename", "lnotab", "firstlineno", "t_next", "top_frame", "status", "is_next", "tstate_head", "id",
   "interp_head"}
    \cup (IF V_MIN(v, 9) THEN {"is_gc"} ELSE {})
    \cup (IF V_MAX(v, 8) THEN {"runtime_gc"} ELSE {})
    \cup (IF V_MIN(v, 11)
            THEN {"qualname", "native_thread_id", "stack", "current_frame", "if_code", "previous", "prev_instr", "code"}
            ELSE {"name", "thread_id", "f_back", "f_code", "f_lasti"})
    \cup (IF V_EQ(v, 11) THEN {"is_entry"} ELSE {})
    \cup (IF V_MIN(v, 12) THEN {"owner", "gil_state"} ELSE {})

\* The status of a thread is read at offset 0 before 3.12, and then not looked at.
FieldsUsed(v) == FieldsRead(v) \ {"status"}

VersionInit ==
  /\ written = [m \in Minors |-> <<0, 0>>]
  /\ met = {}
  /\ ended = FALSE
VersionNext == \E v \in Versions : get_version_descriptor(v)
VersionSpec == VersionInit /\ [][VersionNext]_<<written, met, ended>>

-------------------------------------------------------------------------------
(* Properties. *)

\* As long as no process is newer than 3.12, the version that is written in the
\* descriptor of a process takes it the same ways as its own version would, however
\* many other processes share it, and every field that is read and used is one the
\* descriptor has.
DescriptorsServe ==
  (\A v \in met : v[2] <= 12) =>
    \A v \in met :
      LET shared == written[Descriptor(v)]
      IN  /\ FieldsUsed(shared) \subseteq Fields(Descriptor(v))
          /\ FieldsRead(shared) = FieldsRead(v)
          /\ \A m \in 9..12 : V_MIN(shared, m) = V_MIN(v, m)
          /\ V_MAX(shared, 11) = V_MAX(v, 11)
===============================================================================
