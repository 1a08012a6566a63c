------------------------------ MODULE NativeStack ------------------------------
(***************************************************************************)
(* One sample of one stopped thread, again and again, in the build with    *)
(* native frames (austinp, NATIVE): py_thread__emit_collapsed_stack of     *)
(* py_thread.c unwinds the native stack and the Python stack, each through *)
(* the frame cache they share, and shows the native stack with every call  *)
(* of PyEval_EvalFrameDefault replaced by the Python frames it runs, and   *)
(* the kernel frames after it.                                             *)
(*                                                                         *)
(* From Python 3.11 on such a call may run several Python frames, which    *)
(* markers (CFRAME_MAGIC) set apart on the stack.  A frame that is on a    *)
(* stack is [key, live, left]: it is a pointer into the cache, dead once   *)
(* it is evicted; left is for a frame that an earlier sample left there.   *)
(* The strings, the MOJO stream and cyclic chains are in Sampler; libunwind *)
(* is taken to name every function or none of them all.                    *)
(***************************************************************************)
EXTENDS Integers, Sequences, FiniteSets, SequencesExt

CONSTANTS Counter,     \* program counters of native code
          Eval,        \* those in PyEval_EvalFrameDefault
          Frame,       \* Python frames
          CFRAME_MAGIC,
          KernelFrame,
          KernelStack, \* frames of a thread in the kernel, innermost first
          Settings,    \* [version, size] of a process: 310, 311, 312; MAX_STACK_SIZE
          Stacks(_),   \* the stacks of a thread in a process of that setting
          MaxFaults    \* bound: what fails in one sample

ASSUME SettingsAssumption == \A s \in Settings : s.version \in {310, 311, 312} /\ s.size \in Nat \ {0, 1}
ASSUME BoundAssumption == MaxFaults \in Nat
ASSUME KeyAssumption == Eval \subseteq Counter /\ CFRAME_MAGIC \notin Counter \cup Frame
ASSUME StacksAssumption ==
  /\ \A s \in Settings : Stacks(s) \subseteq Seq([key : Counter, run : Seq(Frame), shim : BOOLEAN])
  /\ KernelStack \in Seq(KernelFrame)

VARIABLES
  setting,
  real,     \* the stack of the thread: calls, root first
  kernel,   \* what was saved of its kernel stack before it was stopped
  pc,
  native,   \* _stack->native_base
  py,       \* _stack->py_base, and _stack->base once it is resolved
  cache,    \* the keys in frame_cache, most recently used first
  marked,   \* the sample has a MOJO_FRAME_INVALID
  short,    \* the native stack is not all there, and nothing says so
  out,      \* the frames that are shown, root first
  faults

vars == <<setting, real, kernel, pc, native, py, cache, marked, short, out, faults>>

version == setting.version
MAX_STACK_SIZE == setting.size

\* Mutant: no room for the native frames beside the Python frames.
CacheOfPython == MAX_STACK_SIZE

MAX_FRAME_CACHE_SIZE == 2 * MAX_STACK_SIZE

CanFail == faults < MaxFaults

-------------------------------------------------------------------------------
(* The thread.  A call is [key, run, shim]: its program counter; the Python     *)
(* frames it runs, innermost first, if it is one of Eval; and whether it has    *)
(* linked its shim frame although it runs no frame yet (3.12).                  *)

\* Only the innermost call may be about to run its first frame; one that runs
\* several is of 3.11 or later.
Possible(v, stack) ==
  \A i \in DOMAIN stack :
    /\ stack[i].key \notin Eval => stack[i].run = <<>>
    /\ stack[i].key \in Eval /\ stack[i].run = <<>> => i = Len(stack)
    /\ Len(stack[i].run) > 1 => v >= 311
    /\ stack[i].shim => v = 312 /\ stack[i].key \in Eval /\ stack[i].run = <<>>

Init ==
  /\ setting \in Settings
  /\ real = <<>> /\ kernel = <<>> /\ pc = "idle"
  /\ native = <<>> /\ py = <<>> /\ cache = <<>>
  /\ marked = FALSE /\ short = FALSE /\ out = <<>> /\ faults = 0

\* The next thread.  Its kernel stack may have been saved.
Begin ==
  /\ pc = "idle"
  /\ real' \in {s \in Stacks(setting) : Possible(version, s)}
  /\ kernel' \in {<<>>, KernelStack}
  /\ py' = [i \in DOMAIN py |-> [py[i] EXCEPT !.left = TRUE]]
  /\ pc' = "native"
  /\ UNCHANGED <<setting, native, cache, marked, short, out, faults>>

-------------------------------------------------------------------------------
(* The frame cache.                                                             *)

Kill(stack, keys) == [i \in DOMAIN stack |-> [stack[i] EXCEPT !.live = @ /\ stack[i].key \notin keys]]

Without(keys, k) ==
  LET at == {i \in DOMAIN keys : keys[i] = k}
  IN  IF at = {} THEN keys ELSE RemoveAt(keys, CHOOSE i \in at : TRUE)

\* Key k is looked for, and stored if it is not there: m has the cache and what
\* points into it.
Touch(m, k) ==
  LET kept    == Without(m.cache, k)
      evicted == IF Len(kept) = MAX_FRAME_CACHE_SIZE THEN {Last(kept)} ELSE {}
  IN  [cache  |-> <<k>> \o (IF evicted = {} THEN kept ELSE Front(kept)),
       native |-> Kill(m.native, evicted), py |-> Kill(m.py, evicted)]

Pointer(k) == [key |-> k, live |-> TRUE, left |-> FALSE]
Memory == [cache |-> cache, native |-> native, py |-> py]

-------------------------------------------------------------------------------
(* _py_thread__unwind_native_frame_stack                                        *)

\* The program counters libunwind steps through, innermost first.
Counters == [i \in DOMAIN real |-> Reverse(real)[i].key]

NativePush(m, k) == LET touched == Touch(m, k) IN [touched EXCEPT !.native = Append(@, Pointer(k))]

\* After n frames have been pushed.
Unwound[n \in 0..Len(real)] ==
  IF n = 0 THEN [Memory EXCEPT !.native = <<>>] ELSE NativePush(Unwound[n - 1], Counters[n])

UnwindNative(n) == native' = Unwound[n].native /\ py' = Unwound[n].py /\ cache' = Unwound[n].cache

\* stack_native_full ends the loop.
NativeRoom == MAX_STACK_SIZE

\* The stack ends, libunwind sees no next frame, or the array is full.
NativeEnds ==
  /\ pc = "native"
  /\ \E n \in 1..Len(real) :
       /\ n <= NativeRoom
       /\ UnwindNative(n)
       /\ short' = (n < Len(real))
  /\ pc' = "python"
  /\ UNCHANGED <<setting, real, kernel, marked, out, faults>>

\* There is no context or cursor for the thread, or no program counter, or no frame.
NativeFails ==
  /\ pc = "native" /\ CanFail
  /\ \E n \in 0..(Len(real) - 1) : n < NativeRoom /\ UnwindNative(n)
  /\ marked' = TRUE
  /\ faults' = faults + 1
  /\ pc' = "python"
  /\ UNCHANGED <<setting, real, kernel, short, out>>

-------------------------------------------------------------------------------
(* The Python stack: a chain of frames, of which each pushes itself, or a marker *)
(* (a shim of 3.12), or both (the first frame of a call in 3.11).                *)

\* The first n of some sequences, one after the other, for every n.
Joined(seqs) ==
  LET joined[n \in 0..Len(seqs)] == IF n = 0 THEN <<>> ELSE joined[n - 1] \o seqs[n]
  IN  joined

All(seqs) == Joined(seqs)[Len(seqs)]

Marker == [key |-> CFRAME_MAGIC, live |-> TRUE, left |-> FALSE]

RunPushes(call) ==
  LET run == [i \in DOMAIN call.run |-> <<Pointer(call.run[i])>>]
  IN  CASE version = 310 -> run
        [] version = 311 -> IF run = <<>> THEN run ELSE [run EXCEPT ![Len(run)] = Append(@, Marker)]
        [] version = 312 -> IF run = <<>> /\ ~call.shim THEN run ELSE Append(run, <<Marker>>)

\* Innermost frame first, as the back pointers go.
Chain == All([i \in DOMAIN real |-> RunPushes(Reverse(real)[i])])

\* What the first n of them push.
Pushed(chain, n) == Joined(chain)[n]

\* How many frames are walked: to the end, or until the array is full.
Walked(chain) ==
  CHOOSE n \in 0..Len(chain) :
    /\ n = Len(chain) \/ Len(Pushed(chain, n)) >= MAX_STACK_SIZE
    /\ \A k \in 0..(n - 1) : Len(Pushed(chain, k)) < MAX_STACK_SIZE

\* _py_thread__resolve_py_stack: element i of the stack.
Resolve(m, i) ==
  IF m.py[i].key = CFRAME_MAGIC THEN m
  ELSE LET touched == Touch(m, m.py[i].key) IN [touched EXCEPT !.py[i].live = TRUE]

Resolved(m) ==
  LET resolved[i \in 0..Len(m.py)] == IF i = 0 THEN m ELSE Resolve(resolved[i - 1], i)
  IN  resolved[Len(m.py)]

\* The stack is resolved to element n and cut there; from 3.11 on this is done by
\* unwinding and once more by its caller.
UnwindPython(pushed, n) ==
  LET once == Resolved([Memory EXCEPT !.py = SubSeq(pushed, 1, n)])
      m    == IF version = 310 THEN once ELSE Resolved(once)
  IN  native' = m.native /\ py' = m.py /\ cache' = m.cache

\* A thread without a top frame, which has none before 3.11 if it runs none, is not
\* unwound, and the stack is not reset.
NoFrames ==
  /\ pc = "python"
  /\ version = 310 /\ Chain = <<>>
  /\ pc' = "interleave"
  /\ UNCHANGED <<setting, real, kernel, native, py, cache, marked, short, out, faults>>

PythonEnds ==
  /\ pc = "python"
  /\ version # 310 \/ Chain # <<>>
  /\ LET chain  == Chain
         pushed == Pushed(chain, Walked(chain))
     IN  /\ UnwindPython(pushed, Len(pushed))
         /\ marked' = (marked \/ Len(pushed) >= MAX_STACK_SIZE)
  /\ pc' = "interleave"
  /\ UNCHANGED <<setting, real, kernel, short, out, faults>>

\* A frame cannot be read, or not be resolved: then it is not cached.
PythonFails ==
  /\ pc = "python" /\ CanFail
  /\ version # 310 \/ Chain # <<>>
  /\ LET chain  == Chain
         walked == Walked(chain)
         pushed == Pushed(chain, walked)
     IN  \/ \E n \in 0..walked : n < Len(chain) /\ UnwindPython(Pushed(chain, n), Len(Pushed(chain, n)))
         \/ \E n \in 0..(Len(pushed) - 1) :
              /\ pushed[n + 1].key \notin ToSet(cache) \cup {CFRAME_MAGIC}
              /\ UnwindPython(pushed, n)
  /\ marked' = TRUE
  /\ faults' = faults + 1
  /\ pc' = "interleave"
  /\ UNCHANGED <<setting, real, kernel, short, out>>

-------------------------------------------------------------------------------
(* Interleaving, root first.                                                    *)

\* Mutant: the frames above a marker are taken one at a time.
RunOfOne(stack) == [run |-> <<Last(stack)>>, rest |-> Front(stack)]

\* What is popped for a call: one frame before 3.11, and all frames down to the
\* next marker, which goes too, from 3.11 on.
RunOf(stack) ==
  LET markers == {i \in DOMAIN stack : stack[i].key = CFRAME_MAGIC}
      m == IF markers = {} THEN 0 ELSE CHOOSE i \in markers : \A j \in markers : j <= i
  IN  IF version = 310 THEN [run |-> <<Last(stack)>>, rest |-> Front(stack)]
      ELSE [run |-> Reverse(SubSeq(stack, m + 1, Len(stack))), rest |-> SubSeq(stack, 1, m - 1)]

\* A native frame of Eval gives its place to a run, if there is one.
ShowNative(st, frame) ==
  IF frame.key \in Eval /\ st.py # <<>>
    THEN LET popped == RunOf(st.py) IN [py |-> popped.rest, out |-> st.out \o popped.run]
    ELSE [st EXCEPT !.out = Append(@, frame)]

\* What is left of the Python frames, and what has been shown, after n native frames.
ShownAfter(top) ==
  LET shown[n \in 0..Len(native)] ==
        IF n = 0 THEN [py |-> top, out |-> <<>>] ELSE ShowNative(shown[n - 1], Reverse(native)[n])
  IN  shown

\* From 3.11 on the top of the stack should be a marker, and is dropped whatever it
\* is.  What is left of the Python frames at the end stays.
ShowStacks ==
  /\ pc = "interleave"
  /\ LET top   == IF version = 310 \/ py = <<>> THEN py ELSE Front(py)
         shown == ShownAfter(top)[Len(native)]
     IN  /\ py' = shown.py
         /\ out' = shown.out \o [i \in DOMAIN kernel |-> Pointer(Reverse(kernel)[i])]
  /\ native' = <<>>
  /\ pc' = "shown"
  /\ UNCHANGED <<setting, real, kernel, cache, marked, short, faults>>

Shown ==
  /\ pc = "shown"
  /\ pc' = "idle"
  /\ real' = <<>> /\ kernel' = <<>> /\ out' = <<>>
  /\ marked' = FALSE /\ short' = FALSE /\ faults' = 0
  /\ UNCHANGED <<setting, native, py, cache>>

Next ==
  \/ Begin
  \/ NativeEnds \/ NativeFails
  \/ NoFrames \/ PythonEnds \/ PythonFails
  \/ ShowStacks \/ Shown

Spec == Init /\ [][Next]_vars

-------------------------------------------------------------------------------
(* Properties.                                                                  *)

\* The stacks stay within their arrays, in whatever state the thread was stopped;
\* but for the marker that 3.11 pushes with the last frame there is room for.
StackInArray ==
  /\ Len(native) <= MAX_STACK_SIZE
  /\ \/ Len(py) <= MAX_STACK_SIZE
     \/ version = 311 /\ Len(py) = MAX_STACK_SIZE + 1 /\ Last(py).key = CFRAME_MAGIC
  /\ Len(cache) <= MAX_FRAME_CACHE_SIZE

\* The frame cache is large enough for both stacks: no frame of the sample under
\* way has been freed by another one.
FramesLive ==
  \A frame \in ToSet(native) \cup ToSet(py) \cup ToSet(out) : ~frame.left => frame.live

\* The stacks are within their bounds, and so large that frames are not lost.
StackOK == StackInArray /\ FramesLive

\* What the thread was doing, root first: the native frames, with the Python frames
\* that a call of Eval runs in its place, if it runs any.
Truth ==
  LET shown(call) == IF call.run = <<>> THEN <<call.key>> ELSE Reverse(call.run)
  IN  All([i \in DOMAIN real |-> shown(real[i])]) \o Reverse(kernel)

\* A sample that is not marked as invalid shows that, unless libunwind or its array
\* ends before the stack does, for which there is no mark, or a frame was left from
\* another thread.
Interleaved ==
  pc = "shown" /\ ~marked /\ ~short /\ (\A frame \in ToSet(out) : ~frame.left)
    => [i \in DOMAIN out |-> out[i].key] = Truth

\* A frame of an earlier sample is shown in this one only before 3.11, for a call of
\* a thread that has no Python frame.
OwnFrames ==
  pc = "shown" /\ (\E frame \in ToSet(out) : frame.left)
    => version = 310 /\ Chain = <<>> /\ Last(real).key \in Eval

\* A sample is of its thread: the calls it was in, as they were made, and no others.
StackTold == Interleaved /\ OwnFrames
===============================================================================
