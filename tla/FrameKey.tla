-------------------------------- MODULE FrameKey --------------------------------
(***************************************************************************)
(* The keys that stand for the frames of a process (frame.h): Austin takes *)
(* a frame from its cache by one, and a reader of the stream of -b shows   *)
(* the frame that was emitted with one.                                    *)
(*                                                                         *)
(* A frame is where it is in the program: the address of a code object and *)
(* an instruction, <<code, lasti>>.                                        *)
(***************************************************************************)
EXTENDS Mojo, FiniteSets

CONSTANTS LASTI_BITS,           \* of the instruction in a key: 16
          Code, Lasti,          \* the code objects and the instructions there are
          MAX_FRAME_CACHE_SIZE,
          MaxFrames             \* bound: the frames that are resolved

ASSUME KeyAssumption ==
  /\ LASTI_BITS \in Nat \ {0} /\ REF_BITS + LASTI_BITS < KEY_BITS
  /\ Code \subseteq Nat /\ Lasti \subseteq Int
  /\ MAX_FRAME_CACHE_SIZE \in Nat \ {0} /\ MaxFrames \in Nat

VARIABLES version, \* of the process
          cached,  \* frame_cache: the frames, by their keys
          shown,   \* what a reader of the stream shows, by the keys of frames
          served,  \* history: the frame that was resolved last, and what it became
          fitted,  \* history: every instruction so far fits the bits there are for it
          frames   \* the number of frames that were resolved

keyVars == <<version, cached, shown, served, fitted, frames>>

-------------------------------------------------------------------------------
(* Keys.                                                                        *)

Has(n, i) == n % Bit[i + 1] >= Bit[i]

\* The bits of m and those of n.
Or(m, n) ==
  LET or[i \in 0..KEY_BITS] ==
        IF i = 0 THEN 0 ELSE or[i - 1] + (IF Has(m, i - 1) \/ Has(n, i - 1) THEN Bit[i - 1] ELSE 0)
  IN  or[KEY_BITS]

\* An int that is extended to a word.
Word(n) == n % Bit[KEY_BITS]

\* Mutant: the instruction is added below the address as it is, without a shift.
KeyUnshifted(code, lasti) == Or(MOJO_INT32(code), Word(lasti))

py_frame_key(code, lasti) == Or(MOJO_INT32(code) * Bit[LASTI_BITS], Word(lasti))

\* The key a frame is emitted with.  From 3.10 to 3.11 lasti has been doubled by then.
EmittedKey(code, lasti) == py_frame_key(code, IF version = 310 THEN 2 * lasti ELSE lasti)

-------------------------------------------------------------------------------

frame_new(f) == [key |-> EmittedKey(f[1], f[2]), at |-> f]

\* Which frame has to go when the cache is full is for LruCache to say: here any may.
lru_cache__store(key, frame) ==
  \E kept \in IF Cardinality(DOMAIN cached) < MAX_FRAME_CACHE_SIZE
                THEN {DOMAIN cached} ELSE {DOMAIN cached \ {k} : k \in DOMAIN cached} :
    cached' = [k \in kept \cup {key} |-> IF k = key THEN frame ELSE cached[k]]

mojo_frame_emitted(frame) == shown' = [k \in DOMAIN shown \cup {frame.key} |->
                                         IF k = frame.key THEN frame.at ELSE shown[k]]

\* The instruction fits its bits, or is that of a frame that has not begun.
Fits(f) == f[2] \in {-1} \cup 0..((IF version = 310 THEN Bit[LASTI_BITS - 1] ELSE Bit[LASTI_BITS]) - 1)

_py_thread__resolve_py_stack(f) ==
  LET key == py_frame_key(f[1], f[2])
  IN  /\ frames < MaxFrames
      /\ \/ /\ key \in DOMAIN cached
            /\ served' = {[asked |-> f, frame |-> cached[key]]}
            /\ UNCHANGED <<cached, shown>>
         \/ LET frame == frame_new(f)
            IN  /\ key \notin DOMAIN cached
                /\ lru_cache__store(key, frame)
                /\ mojo_frame_emitted(frame)
                /\ served' = {[asked |-> f, frame |-> frame]}
         \/ \* The code object cannot be read.
            /\ key \notin DOMAIN cached
            /\ served' = {}
            /\ UNCHANGED <<cached, shown>>
      /\ fitted' = (fitted /\ Fits(f))
      /\ frames' = frames + 1
      /\ UNCHANGED version

FrameKeyInit == /\ version \in {38, 310, 311}
                /\ cached = <<>> /\ shown = <<>> /\ served = {} /\ fitted = TRUE /\ frames = 0
FrameKeyNext == \E f \in Code \X Lasti : _py_thread__resolve_py_stack(f)
FrameKeySpec == FrameKeyInit /\ [][FrameKeyNext]_keyVars

-------------------------------------------------------------------------------
(* Properties. *)

\* The same instruction of code objects whose addresses agree in the bits that are kept;
\* or frames that have not begun.
Alike(f, g) == f[2] = g[2] /\ (f[2] = -1 \/ MOJO_INT32(f[1]) = MOJO_INT32(g[1]))

\* The frame that is taken from the cache, and the one that is shown by a reader of the
\* stream, is the one that was asked for or one that is like it, whatever was evicted and
\* emitted again, as long as every instruction fits its bits.
KeysApart ==
  fitted => \A s \in served : /\ Alike(s.asked, s.frame.at)
                              /\ s.frame.key \in DOMAIN shown /\ Alike(s.asked, shown[s.frame.key])
===============================================================================
