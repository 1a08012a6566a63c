-------------------------------- MODULE Sampler --------------------------------
(***************************************************************************)
(* One sample of one thread, again and again: py_thread__emit_collapsed_   *)
(* stack (py_thread.c) walks the frame chain of a thread of a running      *)
(* process, resolves every frame through the frame cache, and writes the   *)
(* stack to a MOJO stream (mojo.h), defining strings and frames before it  *)
(* refers to them.                                                         *)
(*                                                                         *)
(* The process may be running while it is read.  If it is racy, every read *)
(* of its memory returns anything at all; if not, its memory is mem, which *)
(* does not change.  Either way a read may fail.  The build without NATIVE *)
(* is modelled; the frame heap (-h), which only saves reads, is not.  A    *)
(* thread that is invalid, whose metrics are zero or, with -s, that is     *)
(* idle is skipped before anything changes: such a call is no step here.   *)
(***************************************************************************)
EXTENDS Integers, Sequences, FiniteSets, SequencesExt

CONSTANTS Addr,         \* addresses of remote frames
          Code,         \* code locations (code object and lasti): frame keys
          String,       \* addresses of remote strings: string keys
          FileOf,       \* the co_filename of a code location
          ScopeOf,      \* its co_name or co_qualname
          NULL,
          Settings,     \* the processes, the command lines and the sizes of the array
          MaxFaults     \* bound: reads that fail during one sample

(* racy: the process runs on while it is read; iframes: its Python is 3.11 or    *)
(* later; code: the code locations it executes; size: MAX_STACK_SIZE; obj: the   *)
(* addresses malloc may return for a frame_t; exclude_empty: -e.                 *)
ASSUME SettingsAssumption ==
  \A s \in Settings : /\ {s.racy, s.iframes, s.exclude_empty} \subseteq BOOLEAN
                      /\ s.code \subseteq Code /\ s.code # {}
                      /\ s.size \in Nat \ {0, 1}
ASSUME AddressAssumption == IsFiniteSet(Addr) /\ NULL \notin Addr
ASSUME BoundAssumption == MaxFaults \in Nat
ASSUME StringAssumption == FileOf \in [Code -> String] /\ ScopeOf \in [Code -> String]

VARIABLES
  setting,  \* what is sampled, and how; never changes
  mem,      \* the process's frames
  top,      \* self->top_frame of the thread being sampled
  pc,
  cur,      \* the frame to read next while unwinding
  stack,    \* _stack->py_base: the (origin, code) pairs collected
  base,     \* _stack->base: the resolved frames
  invalid,  \* unwinding or the resolution inside it failed
  again,    \* the resolution that the caller makes after unwinding
  cache,    \* frame_cache, most recently used first: [key, obj] pairs
  strings,  \* the keys in string_cache, which expands and never evicts
  frameDefs, stringDefs, \* MOJO_FRAME and MOJO_STRING events written so far
  emitted,  \* the frame references of the last sample, root first
  marks,    \* how many MOJO_FRAME_INVALID events it has
  faults    \* reads that failed in this sample

vars == <<setting, mem, top, pc, cur, stack, base, invalid, again, cache, strings,
          frameDefs, stringDefs, emitted, marks, faults>>

iframes == setting.iframes
racy == setting.racy

MAX_STACK_SIZE == setting.size
MAX_FRAME_CACHE_SIZE == MAX_STACK_SIZE

\* What a read of a frame yields; a shim (3.12), which only an interpreter frame
\* can be, has no code to report.
NoCode == CHOOSE c \in setting.code : TRUE
Frame ==
  {f \in [back : Addr \cup {NULL}, code : setting.code, shim : BOOLEAN] :
     f.shim => iframes /\ f.code = NoCode}

Init ==
  /\ setting \in Settings
  /\ mem \in IF racy THEN {[a \in Addr |-> [back |-> NULL, code |-> NoCode, shim |-> FALSE]]}
              ELSE [Addr -> Frame]
  /\ top = NULL /\ pc = "idle" /\ cur = NULL
  /\ stack = <<>> /\ base = <<>>
  /\ invalid = FALSE /\ again = FALSE
  /\ cache = <<>> /\ strings = {}
  /\ frameDefs = {} /\ stringDefs = {}
  /\ emitted = <<>> /\ marks = 0 /\ faults = 0

\* What reading the frame at a may return.
Reads(a) == IF racy THEN Frame ELSE {mem[a]}

CanFail == faults < MaxFaults

-------------------------------------------------------------------------------
(* py_thread__emit_collapsed_stack up to the header. *)

\* With -e a thread is left out if the stack is empty; t is its top frame.
Exclude(t) ==
  /\ pc = "idle"
  /\ setting.exclude_empty /\ stack = <<>>
  /\ top' = t
  /\ pc' = "excluded"
  /\ UNCHANGED <<setting, mem, cur, stack, base, invalid, again, cache, strings,
                 frameDefs, stringDefs, emitted, marks, faults>>

Excluded ==
  /\ pc = "excluded"
  /\ pc' = "idle"
  /\ UNCHANGED <<setting, mem, top, cur, stack, base, invalid, again, cache, strings,
                 frameDefs, stringDefs, emitted, marks, faults>>

\* The header is written and the stack is reset; a thread without a top frame
\* has nothing to unwind.
Start(t) ==
  /\ pc = "idle"
  /\ ~(setting.exclude_empty /\ stack = <<>>)
  /\ top' = t /\ cur' = t
  /\ stack' = IF t = NULL THEN stack ELSE <<>>
  /\ pc' = IF t = NULL THEN "emit" ELSE IF iframes THEN "cframe" ELSE "unwind"
  /\ UNCHANGED <<setting, mem, base, invalid, again, cache, strings, frameDefs,
                 stringDefs, emitted, marks, faults>>

-------------------------------------------------------------------------------
(* Unwinding. *)

\* _py_thread__unwind_cframe_stack finds the current interpreter frame; for the
\* model it is the top frame itself, or anything if the thread runs on.
ReadCFrame ==
  /\ pc = "cframe"
  /\ cur' \in IF racy THEN Addr \cup {NULL} ELSE {top}
  /\ pc' = IF cur' = NULL THEN "resolve" ELSE "unwind"
  /\ UNCHANGED <<setting, mem, top, stack, base, invalid, again, cache, strings, frameDefs,
                 stringDefs, emitted, marks, faults>>

ReadCFrameFails ==
  /\ pc = "cframe" /\ CanFail
  /\ faults' = faults + 1
  /\ marks' = marks + 1
  /\ again' = TRUE
  /\ pc' = "resolve"
  /\ UNCHANGED <<setting, mem, top, cur, stack, base, invalid, cache, strings, frameDefs,
                 stringDefs, emitted>>

\* Mutant: the array may be overrun by one.
FullLate(s) == Len(s) > MAX_STACK_SIZE

Full(s) == Len(s) >= MAX_STACK_SIZE

\* stack_has_cycle: the frame just pushed has been pushed before.
HasCycle(s) == \E i \in 1..(Len(s) - 1) : s[i].origin = s[Len(s)].origin

\* Mutant: a bad stack before 3.11 is not marked.
UnwoundSilently(bad) ==
  /\ pc' = "resolve"
  /\ invalid' = bad
  /\ UNCHANGED marks
  /\ again' = ~iframes

\* Unwinding is over, well or badly.  Interpreter frames are resolved before
\* the caller learns whether it went well.
Unwound(bad) ==
  /\ pc' = "resolve"
  /\ invalid' = bad
  /\ IF ~iframes /\ bad THEN marks' = marks + 1 ELSE UNCHANGED marks
  /\ again' = ~iframes

\* Mutant: no one looks.
OwnPredecessorUnseen(f) == FALSE

\* The frame f, read at cur, is its own predecessor.
OwnPredecessor(f) == f.back = cur

\* _py_thread__push_frame or _py_thread__push_iframe, and the checks of the loop
\* around it, which the first frame is spared before 3.11.
Push ==
  /\ pc = "unwind"
  /\ \E f \in Reads(cur) :
       LET pushed == IF f.shim THEN stack ELSE Append(stack, [origin |-> cur, code |-> f.code])
           checked == iframes \/ stack # <<>>
       IN  /\ ~OwnPredecessor(f)
           /\ stack' = pushed
           /\ cur' = f.back
           /\ IF checked /\ (Full(pushed) \/ HasCycle(pushed)) THEN Unwound(TRUE)
              ELSE IF f.back = NULL THEN Unwound(FALSE)
              ELSE UNCHANGED <<pc, invalid, marks, again>>
  /\ UNCHANGED <<setting, mem, top, base, cache, strings, frameDefs, stringDefs, emitted, faults>>

\* The frame is its own predecessor, or cannot be read.
PushFails ==
  /\ pc = "unwind"
  /\ \/ /\ \E f \in Reads(cur) : OwnPredecessor(f)
        /\ UNCHANGED faults
     \/ /\ CanFail
        /\ faults' = faults + 1
  /\ Unwound(TRUE)
  /\ UNCHANGED <<setting, mem, top, cur, stack, base, cache, strings, frameDefs, stringDefs, emitted>>

-------------------------------------------------------------------------------
(* _py_thread__resolve_py_stack: frame Len(base) + 1 is resolved next. *)

Resolving == pc = "resolve" /\ Len(base) < Len(stack)
Wanted == stack[Len(base) + 1].code
Cached(k) == {i \in 1..Len(cache) : cache[i].key = k}

\* Mutant: a frame found in the cache keeps its place in the queue.
ResolveHitInPlace ==
  /\ Resolving
  /\ \E i \in Cached(Wanted) : base' = Append(base, cache[i].obj)
  /\ UNCHANGED <<setting, mem, top, pc, cur, stack, invalid, again, cache, strings,
                 frameDefs, stringDefs, emitted, marks, faults>>

ResolveHit ==
  /\ Resolving
  /\ \E i \in Cached(Wanted) :
       /\ cache' = <<cache[i]>> \o RemoveAt(cache, i)
       /\ base' = Append(base, cache[i].obj)
  /\ UNCHANGED <<setting, mem, top, pc, cur, stack, invalid, again, strings, frameDefs,
                 stringDefs, emitted, marks, faults>>

\* Mutant: one lookup decides for both strings whether they are defined.
FetchStringsTogether(S) ==
  /\ strings' = strings \cup S
  /\ stringDefs' = IF S \cap strings = {} THEN stringDefs \cup S ELSE stringDefs

\* The strings in S are read and cached, and defined in the stream if they were
\* not cached before.
FetchStrings(S) ==
  /\ strings' = strings \cup S
  /\ stringDefs' = stringDefs \cup (S \ strings)

\* The frame cache stores obj under k: when full it frees the rear first.
StoreFrame(k, obj) ==
  cache' = <<[key |-> k, obj |-> obj]>>
             \o (IF Len(cache) = MAX_FRAME_CACHE_SIZE THEN Front(cache) ELSE cache)

ResolveMiss ==
  /\ Resolving /\ Cached(Wanted) = {}
  /\ FetchStrings({FileOf[Wanted], ScopeOf[Wanted]})
  /\ \E obj \in setting.obj \ {cache[i].obj : i \in 1..Len(cache)} :
       /\ StoreFrame(Wanted, obj)
       /\ base' = Append(base, obj)
  /\ frameDefs' = frameDefs \cup {Wanted}
  /\ UNCHANGED <<setting, mem, top, pc, cur, stack, invalid, again, emitted, marks, faults>>

\* _frame_from_code_raddr fails on the code, a string or the line table, having
\* kept the strings read until then; the stack is cut where resolution stopped.
ResolveFails ==
  /\ Resolving /\ Cached(Wanted) = {} /\ CanFail
  /\ faults' = faults + 1
  /\ \E S \in {{}, {FileOf[Wanted]}, {FileOf[Wanted], ScopeOf[Wanted]}} : FetchStrings(S)
  /\ stack' = SubSeq(stack, 1, Len(base))
  /\ IF again THEN marks' = marks + 1 /\ UNCHANGED invalid
              ELSE invalid' = TRUE /\ UNCHANGED marks
  /\ UNCHANGED <<setting, mem, top, pc, cur, base, again, cache, frameDefs, emitted>>

\* All frames are resolved.  The caller of _py_thread__unwind_cframe_stack marks
\* a bad stack and then resolves it a second time.
ResolveEnds ==
  /\ pc = "resolve" /\ Len(base) = Len(stack)
  /\ IF again
       THEN pc' = "emit" /\ UNCHANGED <<again, base, marks>>
       ELSE /\ again' = TRUE
            /\ base' = <<>>
            /\ marks' = IF invalid THEN marks + 1 ELSE marks
            /\ UNCHANGED pc
  /\ UNCHANGED <<setting, mem, top, cur, stack, invalid, cache, strings, frameDefs, stringDefs,
                 emitted, faults>>

-------------------------------------------------------------------------------
(* The frames are popped and referred to, root first; the metrics follow. *)

KeyOf(obj) ==
  IF \E i \in 1..Len(cache) : cache[i].obj = obj
    THEN (CHOOSE e \in ToSet(cache) : e.obj = obj).key
    ELSE NULL  \* freed

Emit ==
  /\ pc = "emit"
  /\ emitted' = [i \in 1..Len(stack) |-> KeyOf(base[Len(stack) - i + 1])]
  /\ stack' = <<>>
  /\ pc' = "emitted"
  /\ UNCHANGED <<setting, mem, top, cur, base, invalid, again, cache, strings, frameDefs,
                 stringDefs, marks, faults>>

\* The sample is over: what was kept for it alone goes.
Emitted ==
  /\ pc = "emitted"
  /\ pc' = "idle"
  /\ top' = NULL /\ cur' = NULL
  /\ base' = <<>> /\ emitted' = <<>>
  /\ invalid' = FALSE /\ again' = FALSE
  /\ marks' = 0 /\ faults' = 0
  /\ UNCHANGED <<setting, mem, stack, cache, strings, frameDefs, stringDefs>>

Next ==
  \/ \E t \in Addr \cup {NULL} : Exclude(t) \/ Start(t)
  \/ Excluded
  \/ ReadCFrame \/ ReadCFrameFails \/ Push \/ PushFails
  \/ ResolveHit \/ ResolveMiss \/ ResolveFails \/ ResolveEnds
  \/ Emit \/ Emitted

\* A sample that has begun goes on: nothing in it waits for anyone, nor for a read
\* to fail.
Progress == Next /\ pc # "idle" /\ faults' <= faults

Spec == Init /\ [][Next]_vars /\ WF_vars(Progress)

-------------------------------------------------------------------------------
(* Properties. *)

\* The variables stay in their types and the unwound stack within its array of
\* MAX_STACK_SIZE elements, whatever the process's memory holds: a check after
\* each push is enough although the first push before 3.11 has none.
TypeOK ==
  /\ setting \in Settings
  /\ mem \in [Addr -> Frame]
  /\ {top, cur} \subseteq Addr \cup {NULL}
  /\ pc \in {"idle", "excluded", "cframe", "unwind", "resolve", "emit", "emitted"}
  /\ stack \in BoundedSeq([origin : Addr, code : setting.code], MAX_STACK_SIZE)
  /\ base \in BoundedSeq(setting.obj, MAX_STACK_SIZE)
  /\ {invalid, again} \subseteq BOOLEAN
  /\ cache \in BoundedSeq([key : setting.code, obj : setting.obj], MAX_FRAME_CACHE_SIZE)
  /\ strings \subseteq String /\ stringDefs \subseteq String /\ frameDefs \subseteq Code
  /\ marks \in 0..3 /\ faults \in 0..MaxFaults

\* The comment on MAX_FRAME_CACHE_SIZE (py_thread.h): the cache holds the whole
\* stack, so that no frame of the sample under way, found in the cache or just
\* stored, is evicted and freed by the resolution of a later one.
FramesLive ==
  pc \in {"resolve", "emit"} =>
    /\ Len(base) <= Len(stack)
    /\ \A i \in 1..Len(base) : [key |-> stack[i].code, obj |-> base[i]] \in ToSet(cache)

\* What a MOJO reader needs: every reference is to something defined earlier in
\* the stream, even when the frame was cached by a sample that was cut short.
DefinedBeforeUse ==
  /\ \A i \in 1..Len(emitted) : emitted[i] \in frameDefs
  /\ \A c \in frameDefs : {FileOf[c], ScopeOf[c]} \subseteq stringDefs
  /\ \A e \in ToSet(cache) : e.key \in frameDefs
  /\ strings \subseteq stringDefs

\* The addresses met from the top frame along the back pointers of a process that
\* stands still, until a cyclic chain has been gone through; among the first n of
\* them, the frames to report; and their code locations.
Steps == 2 * Cardinality(Addr) + 1
Walk[n \in 1..Steps] ==
  IF n = 1 THEN top
  ELSE LET a == Walk[n - 1] IN IF a = NULL THEN NULL ELSE mem[a].back
Finite == Walk[Steps] = NULL
Met[n \in 0..Steps] ==
  IF n = 0 THEN <<>>
  ELSE LET a == Walk[n] IN
       IF a # NULL /\ ~mem[a].shim THEN Append(Met[n - 1], a) ELSE Met[n - 1]
Reported == LET frames == Met[Steps] IN [i \in 1..Len(frames) |-> mem[frames[i]].code]

\* A sample of a process that stands still shows its topmost frames in order, and
\* all of them unless it says it does not with a MOJO_FRAME_INVALID; which it does
\* not say if every read succeeded and the stack is well-formed and leaves room in
\* the array.
MarkedWhenCut ==
  pc = "emitted" /\ ~racy =>
    /\ IsPrefix(Reverse(emitted), Reported)
    /\ marks = 0 => Finite /\ Reverse(emitted) = Reported
    /\ faults = 0 /\ Finite /\ Len(Reported) < MAX_STACK_SIZE => marks = 0

\* The chain ends in a cycle of several frames that are all shims.
ShimCycle ==
  /\ ~Finite
  /\ \A n \in (Cardinality(Addr) + 1)..Steps :
       mem[Walk[n]].shim /\ mem[Walk[n]].back # Walk[n]

\* A sample of a process that stands still ends, cyclic frame chains included, unless
\* the cycle is one of shim frames, which leave no trace on the stack to recognise.
SampleEnds == ~racy /\ pc # "idle" /\ ~ShimCycle ~> pc = "idle"

\* README.md on -e: "Do not output samples of threads with no frame stacks", and
\* of no others.
ExcludesOnlyEmpty == pc = "excluded" => top = NULL
===============================================================================
