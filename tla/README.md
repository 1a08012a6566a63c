# A verification of Austin in TLA+

Austin is a sampling profiler for CPython: it reads the memory of a running
Python process from outside, walks its interpreters, threads and frames, and
writes the stacks it finds. This directory holds TLA+ models of its logic (the
Linux build), the TLC configurations that check them on small instances, and
theorems that TLAPS has checked for all instances. Paths in this file are
relative to the root of the repository; the C sources are in `src/`.

`PROJECT.json` names for every definition the lines of C it models, for every
run its properties, for every property a mutant of the model that breaks it, the
hazards of the code and the findings.

## 1. Inventory

### Components and how they interact

| Component | State it keeps | Operations | Depends on |
|---|---|---|---|
| Main program (`austin.c`) | `interrupt`, the process or list it owns | `main`, `do_single_process`, `do_child_processes`, the signal handler | process list, process |
| Process list (`py_proc_list.c`) | linked list of processes, `py_proc_for_pid`, `ppid_for_pid`, timestamp | new, add, remove, add_proc_children, update, sample, wait, destroy | process, lookup |
| Process (`py_proc.c`, `linux/py_proc.h`) | pid, paths, symbols, maps, version, `is_raddr`, caches, timestamp, wait thread | start, attach, run, wait, signal, is_running, sample, destroy | thread, caches, remote memory |
| Thread (`py_thread.c`, `stack.h`, `frame.h`) | the current thread, the shared stack, (NATIVE) bitmaps of idle and interrupted threads | fill_from_raddr, next, emit_collapsed_stack, interrupt bookkeeping | caches, MOJO, remote memory |
| LRU cache (`cache.c`) | queue, hash table | maybe_hit, store, destroy | queue, hash table |
| Hash table, lookup (`cache.c`) | chains, size, capacity | get, set, del, clear, iteration | |
| MOJO stream (`mojo.h`, `events.h`) | none: the output file | integers, references, events | |
| Attaching (`linux/py_proc.h`, `timer.h`, `version.h`) | fields of the process | maps file, ELF analysis, version, interpreter head, .bss scan | remote memory |
| Option parsing (`argparse.c`) | `pargs` | one case per option | |
| Statistics (`stats.c`) | counters | reset, count, check duration | |
| Native unwinding (`py_thread.c`, `linux/vm-range-tree.h`, `linux/addr2line.h`) | ptrace contexts, native stack, VM range tree | unwind, interleave, find | libunwind, BFD |
| Errors, logging, messages | `austin_errno` | | |
| macOS, Windows (`mac/`, `win/`) | platform handles | | |

The interactions are calls, except for four: the profiled processes change under
Austin's reads; the wait thread of a spawned process reaps it; the signal handler
writes `interrupt`; and the frame objects on the stack of a sample are owned by the
frame cache. `austin_errno` is a channel of its own: a callee's error decides
what its caller's caller does.

### What is hard, and what makes each component correct

- **Main program and list.** Processes fork, end and are reparented between any
  two steps; a signal may arrive between a test and an update of `interrupt`; a
  failed sample waits for a process while others are not sampled. Correct if
  Austin stops when told to and ends with its targets, passes signals on, leaves
  nothing behind, samples the Python descendants it can find as long as it does not
  wait for a process, never uses a destroyed process, and its loops survive changes of
  the list they walk.
- **Attaching.** A process executes several programs while Austin retries; what
  was found in one is still there in the next attempt; a timer ends the retries
  at any moment. Correct if the interpreter accepted is that of the program
  which runs, if errors say what happened, and if attaching ends.
- **Sampling a process.** Thread lists change while they are walked; a sample may
  end early in many places; states that were freed are read and followed all the same,
  and threads outlive theirs; NATIVE stops threads one by one. Correct if no time is
  counted twice or lost, and no thread is left stopped.
- **Sampling a thread.** Reads return anything if the process runs on; the stack
  array is bounded; resolution may fail half way; frames are freed by the cache.
  Correct if the array is never overrun, no freed frame is used, the stream
  defines what it refers to, samples end, and a sample that is not the whole
  stack says so.
- **Caches.** The queue and the table are kept in step by hand; keys may be
  stored twice; the table silently ignores keys when full. Correct if the cache
  is a map that may forget, evicts the least recently used, and holds no
  pointer to freed memory.
- **Native unwinding.** Two stacks, and a third of the kernel, are interleaved by the
  names of functions; all share one cache. Correct if a sample shows the calls as they
  were made, and none of another thread.
- **MOJO, frame keys, version descriptors, statistics.** Small states that grow over a
  whole run: a stream that is read long after it was written; a cache and a reader that
  go by keys with fewer bits than what they stand for; descriptors that all processes of
  a version share, and write their own version into; counters kept by a macro that
  evaluates its argument five times. Correct if what is read is what was written, keys
  keep frames apart, a process is served whatever others were met, and the report adds up.
- **Option parsing, mapped ranges, line tables.** Functions with boundary cases, and with
  tables that are read backwards or run full; correct against reference definitions: what
  was written is what comes back.

The full list of hazards, each at its line, is in `PROJECT.json`.

## 2. Modules

Components with a state that other actors change:

| Module | Models | State and actions |
|---|---|---|
| `CacheContract` | what `cache.h` promises of a cache: a map that may forget | `map`, `call`; Lookup, Store, Delete, Destroy |
| `LruCache` | `cache.c`: the LRU cache, its queue as a sequence | `queue` (front first), `key`, `value`, `hash`, capacities; Hit, Miss, Store in its three branches, Destroy |
| `LruList` | the same, with the pointers of the doubly linked list | `front`, `rear`, `prev`, `next`; the same actions, pointer by pointer |
| `LookupTable` | `cache.c`: chained hash table and lookup | `table`: capacity, size, chains; get, set (with doubling), del, clear |
| `Austin` | `austin.c`, `py_proc_list.c`, and start, attach, wait, signal of `py_proc.c` | the operating system's processes, the position of the main thread, the list, the pid table, the cursor of the current loop, `interrupt` |
| `Attach` | `_py_proc__run` and what it calls | the program the process executes, what `py_proc_t` holds of each program found so far, the timer, the error |
| `ProcSample` | `py_proc__sample` and what it calls, both builds, with and without memory | the thread lists of the process, what is left in a state that was freed, threads without a state, who holds the GIL, the position in the lists, stopped and flagged threads, timestamps, resident memory |
| `Sampler` | `py_thread__emit_collapsed_stack`, resolution, the frame and string caches, MOJO definitions | the frames of the process, the two stacks, the caches, what the stream has defined |
| `NativeStack` | the NATIVE half of `py_thread.c`: native, kernel and Python frames of one thread | the calls the thread is in, the three stacks, the shared frame cache, what is shown |
| `Stream` | the stream of `-b` between Austin and a reader of the format | the bytes that are not read yet, the events emitted and read; one action to emit an event (`events.h`, in bytes of `Mojo`), one to read one |
| `FrameKey` | the keys of frames (`frame.h`) in the cache and in the stream | the cache and what a reader shows, by keys; the resolution of one frame: hit, miss with any eviction, or a code object that cannot be read |
| `Version` | `version.h`: the descriptors and the comparisons made of them | the version written in each descriptor; a process whose version has been told |
| `Stats` | `stats.c`, `stats.h` | the counters; the end of a sample, with the macro that keeps minimum and maximum; the report |

`Mojo` (`mojo.h`, `events.h`) has what `Stream` and `FrameKey` share: integers, references
and every event as bytes.

Components that are functions; `MCPure` gives each a set of inputs and a definition of
what should come out, and `MCParts` runs them beside the four modules above:

| Module | Models | Definitions |
|---|---|---|
| `ArgParse` | `argparse.c` | numbers and times, what each option does, `argp` and the portable parser over a command line |
| `VmRangeTree` | `linux/vm-range-tree.h`, the maps file of `linux/py_proc.h` | reading ranges, adding to and finding in the AVL tree, the base of a file |
| `LineTable` | `_frame_from_code_raddr` of `frame.h` and the readers it uses | lnotab, line table (3.10), location table (3.11), the last instruction |

Proofs: `LruCache_proofs`, `LruList_proofs`, `LookupTable_proofs`, `Austin_proofs`,
`ProcSample_proofs`, `Sampler_proofs`, `NativeStack_proofs`, each about the module of its
name; and `Parts_proofs`, about `Attach`, `Version`, `Stats`, `Stream` and `FrameKey`, each
for itself.

The other `MC*` modules give the constants that a `.cfg` cannot express. `Sampler` and
`NativeStack` use the frame cache as the sequence that `LruCache` has for a queue: that
a hit moves to the front and a store evicts the rear is what `LruCache` and `LruList`
establish of the code.

How they compose: `LruList` refines `LruCache` (`ImplementsLruCache`), `LruCache` and
`LookupTable` refine `CacheContract` (`ImplementsContract`), so that the linked list
with its hash table is a map that may forget. `Austin` treats one sample as a step that
succeeds or fails, `ProcSample` treats one thread so, `Sampler` and `NativeStack` look
inside that, and `LineTable`, `FrameKey` and `Version` inside the resolution of one frame;
`Stream` is what becomes of the events of a sample, `Stats` what is counted of it;
`Attach` is the inside of `RunOK` and `RunFails` of `Austin`.

Conventions:

- An action is one handler, or one stretch of code between two points at which
  another actor (the processes, the handler, the wait thread) can be observed. A
  read of remote memory is a step of its own wherever the process may change between
  two reads.
- What differs from one use of the code to the next (the arguments of
  `lru_cache_new`, the command line, the process that is met, the version of Python)
  is a variable that `Init` picks from a set and no action changes: `mode`,
  `scenario`, `subject`, `target`, `setting`. One run then covers all the
  configurations of its set.
- The caches record the last `call` with its result, so that a refinement of
  `CacheContract` has to return what the contract returns and to perform every store.
- Variables whose comment begins with `history:` are not in the code and guide no
  action.
- Definitions whose comment begins with `Mutant:` are plausible bugs, kept beside
  what they change; no specification uses them.

## 3. Runs

### Caches

- **LruCache**: 3 keys, one of them key 0, 2 values, 4 items, and three caches: one
  of capacity 3 whose client may store what is cached already, one of capacity 2
  whose client stores what it has just missed (Austin's own use of the frame cache),
  and one of capacity 1 that expands (the string cache), twice.
  `IInv` (the types, `QueueOK`, `NoDanglingEntry`, `UseOrder`) and
  `EvictsLeastRecent` relate queue, table and the history of uses; `NoOrphan` says that
  the table can find every item of the queue when stores follow misses, because its
  capacity exceeds that of the queue; `ImplementsContract` that the whole is a map that
  may forget. A capacity of 3 has a front, a middle and a rear; a fourth item lets a
  store evict and allocate.
- **LruList**: the linked list, pointer by pointer, implements the sequence, whether
  it evicts or grows. 4 keys, one value, capacities 3 and 1 to 4.
- **LookupTable** (pids 0 to 4, 2 slots, doubling once or twice, keys that collide,
  and a NULL value, which is the parent pid 0): a map in which key 0 alone is never
  found; `TableOK` relates the size, which decides whether a key is ignored, to the
  chains.

### Austin

Root is the process of the command line, with up to two others: a child and its
child, or one child. A scenario has its own bounds of the signals received and of the
reads that fail although the process lives (`maxSignals`, `maxFaults`).

- **Austin**: one process, started or attached, with and without an exposure; `-C` on a
  parent that is not Python and has a Python child, which Austin starts or which has been
  running, in both builds; and `-C` with a chain of three Python processes that Austin
  starts, in both builds, or attaches to. The processes fork, boot, exit and are
  reparented between any two steps. Up to two signals and one failing read or sample in
  the first, one of each in the second, a signal or a failure in the third.
  The list and the cursors are sound (`ListOK`, `CursorOK`); a Python descendant that
  stays is sampled at last (`ChildrenAreSampled`), as long as the parent is listed, those
  between live, and Austin waits for none: a failed sample of a process that Austin has
  started makes the main thread wait for its end (`py_proc_list.c:180`, `py_proc.c:927`),
  and in austinp, which traces processes, any wait is for all of them (`wait(NULL)`,
  `py_proc.c:940`), so that nothing is sampled meanwhile. `NothingLeftBehind`,
  `PassesSignalOn`, `NoChildrenVerdict`, `EndsWithTargets`, `StopsOnSignal`.
- **AustinUseAfterDestroy** (violation): see section 5.

Several of these properties name an exception, which is a behaviour of the code and
not of the model; section 5 lists them.

### Attaching

- **Attach**: programs are described by what their binaries tell (`MCAttach`: Python
  with and without symbols, sections and names, and what is not Python). A process
  executes one or two of them while Austin retries; it was started by Austin, is a
  child (one attempt), or is attached with memory or the maps file possibly denied;
  one read may fail, the timer may expire and the process exit at any moment. Two
  addresses of the runtime section are tried.
  `AttachedToWhatRuns`, `VerdictOK` and `PermissionReported` say that what is
  accepted or reported is true; `RunEnds` and `AttachesAtLast` that it comes.

`AttachedToWhatRuns` and `AttachesAtLast` except two situations. `Stale`: `Py_Version`
was found in an earlier program and the present one does not export it, so that the
code reads the version at an address of the other program. And not `Told`: the program
that runs tells its version in no way at all, and the last scan uses the one that an
earlier program told.

### Sampling

- **ProcSample**: one interpreter of two threads, and a third that may start, in both
  builds; two interpreters with churn in the build with NATIVE, and without in the other;
  and processes sampled with memory, for each of the three ways to tell who holds the GIL
  (the field of the interpreter, of the runtime, none), which goes round between any two
  reads. Up to two time units, 2 faults. A thread that ends unlinks and frees its state
  first: the state is read like any other, leads to where it led when it was unlinked, or
  nowhere, or anywhere, and a thread that starts may take its memory; in austinp the
  thread lives on without it. No moment is attributed twice to a thread
  (`NoTimeCountedTwice`, one interpreter), none is lost as long as nothing disturbs the
  samples (`AllTimeCounted`; `Undisturbed` lists what does: stopping the threads, threads
  that come and go, a search for the holder of the GIL, failing reads, an interpreter
  without threads), no thread that has a state is left stopped (`NoneLeftStopped`), but for
  failures to stop or resume one; and memory goes to a thread that held the GIL during
  the sample (`MemoryOfHolder`), to the one that holds it if threads are stopped and
  the runtime tells (`MemoryOfStopped`). What comes of states that were freed is written
  out with the history `strayed`: whether Austin has followed a pointer to one, and whether
  one to a state whose memory another thread has taken. Section 5 lists what happens then.
- **Sampler** has two kinds of process. One runs on, so that every read returns
  anything: 3 frame addresses, 3 code locations that share strings, array and cache of
  2, with and without `-e`. One stands still: every memory of three frames, array and
  cache of 3, and one failing read. Both with frames of before 3.11 and with
  interpreter frames and shims. `TypeOK` includes the bound of the array; `FramesLive`
  and `DefinedBeforeUse` say that the frames of a sample are alive and the stream
  defines what it refers to. A sample of what stands still is the top of the stack, all
  of it unless it says otherwise, and it does not say so without need
  (`MarkedWhenCut`); and it ends (`SampleEnds`).
- **SamplerExclude** (violation): see section 5.
- **NativeStack**: 3.10, 3.11 and 3.12 with arrays of two frames and up to three calls,
  which run full; 3.11 and 3.12 with arrays of six and up to two calls, one of which
  runs two Python frames; two samples of threads, one of them possibly of another one;
  the kernel stack of two frames; one failure, and libunwind giving up at any frame.
  `StackOK`: the arrays are not overrun (but see section 5) and no frame is freed while
  it is shown, although both stacks share one cache. `StackTold`: a sample is the calls
  as they were made (`Interleaved`), and no frame is of another thread (`OwnFrames`).

`MarkedWhenCut` claims that a sample is not marked in vain only of stacks below the
size of the array: one that fills the array exactly is complete and yet marked.
`SampleEnds` excepts a chain that ends in a cycle of several frames, all of them shims: the
comparison that finds a cycle of one frame does not see it, and shims put nothing on the
stack.

### Parts that stand for themselves

**Parts** is about `Stream`, `FrameKey`, `Stats`, `Version` and the functions. None of them
shares a variable with another that either changes, so the initial state chooses one
(`part`) and only its actions are taken: the states are the sum of those of the parts, not
their product. The run says `CHECK_DEADLOCK FALSE`: the functions take no step, the others
count what happens up to a bound (`MaxEvents`, `MaxFrames`, `MaxSamples`) and stop there, and
`Version` stops when Austin has gone through the NULL that it gets for a version that is not
of Python 3.

- `Stream`: two events of every kind, with the numbers on both sides of every boundary
  of the encoding (6, 13 and 20 bits), negative ones, and strings that are empty or hold
  bytes that could be events; the reader reads one event at any time, and may be behind by
  both. `StreamReads`: it has read what was emitted, in order, and has read all of it when
  no byte is left. References are narrowed to 3 bits.
- `FrameKey`: keys of 7 bits, with 3 for the code object and 2 for the instruction; three
  code objects, two of which agree in those 3 bits; instructions that fit, that fit until
  3.10 doubles them, that do not fit, and that of a frame which has not begun; a cache of
  two, so that frames are evicted and emitted again, and up to four lookups. `KeysApart`:
  the frame from the cache and the one that is shown for its key are like the one that was
  asked for, as long as every instruction fits. Without that condition TLC finds a frame
  that is taken for another.
- `Stats`: up to three samples, shorter and longer than the interval and than each other,
  with a clock that goes on at any evaluation at which it makes a difference.
  `StatisticsTold`: every sample, long sample and error is counted, and minimum, maximum
  and average are those of the samples, off by one at most where the clock went on.
- `Version`: processes of versions 2.7, 3.6 and 3.8 to 3.13, met any number of times in
  any order. `DescriptorsServe`: each descriptor in use has the fields that are read of its
  process and used (the status of a thread is read of all), and takes it the ways of its own version, whichever version it says.

For the functions the variable `input` holds an input, which does not change. One initial
state is one input, and the properties are about all of them:

- `OptionsTold` has four parts. `TextsTold`: a number, a time or a size is accepted if
  and only if it is one, and means what it says (every number within and around the
  range of a long of `LONG_MAX` 127, with every unit but ms for `-t`), and what does not
  fit never comes out as a negative time. Over command lines of up to three words, among
  them an output file that cannot be opened: `ParsersAgree`, the parser of argp and the
  portable one make the same of them, but that a pid after `-w` makes it `-p` in the latter;
  `CommandKeepsItsOptions`, what follows the command changes nothing; `ParsingEnds`, the
  command lines at which the portable parser hangs are those with a dash alone before the
  command, after words that are in order. The option `-k` is in no line: it is in the build
  with NATIVE, which has argp.
- `RangesTold`: in whatever order up to six ranges are added the tree is balanced and
  finds every address (`TreeSound`); with maps files of up to four lines, five if
  without gaps, and `MAX_RANGES` 3, an address is found under the name of the file it
  is of (`AddressesNamed`).
- `LocationTold`: tables are made of up to four pieces of code (three before 3.11), with
  every form of entry, deltas beyond one byte and pieces longer than one entry; the
  location that is read for each instruction is that of its piece.

**TimeoutUnits** (violation, the same instance): see section 5.

### Bounds

Every bound is a constant whose comment says so. Two processes besides Root are
enough for an intermediate parent and for two siblings in one update; three frame
addresses for a cycle that does not include the top frame, and for a stack one above,
at and below the array; three cached items for a front, a middle and a rear; two
interpreters for an early end after one has been sampled; two threads for a GIL that
is passed on; two programs for anything that is left over from one attempt to the next;
two samples of threads for what one leaves to the other; widths of integers one more
than what the largest accepted value needs; two faults for a failure in a sample
and another in the sample after it, or while threads are being resumed; two events for
one that is read with bytes behind it; four frames for a key that is stored, evicted,
emitted again and hit; three samples for one that is neither the first nor the extreme.
Symmetry is not used.

## 4. Fairness

- `Austin`: the main thread and the wait thread run (`WF_vars(Main)`, `Reap`), time
  passes (`Tick`), a started program comes up, and a process that Austin has signalled
  ends. That a process ends by itself is never assumed; `EndsWithTargets` is
  conditional on it, and so is `StopsOnSignal` where Austin waits for a process it has
  started and cannot sample (`Waits`), for then it blocks in `waitpid`.
- `Attach`: Austin runs, and Python programs initialise. `_py_proc__run` polls; where a
  version is told by the binary alone it runs that with `-V` and waits for it to end
  (`popen`, `py_proc.c:112`), which is assumed of it. That the timer expires is not assumed: `RunEnds` is conditional
  on it, and `AttachesAtLast` on its not expiring.
- `Sampler`: a sample that has begun goes on; nothing in it blocks. No read is assumed
  to fail: steps that use up a fault are not in `Progress`.
- The caches, `LookupTable`, `ProcSample`, `NativeStack`, `Stream`, `FrameKey`, `Stats` and
  `Version` state safety only and need none.

## 5. Findings

Each is a run in which TLC shows that the code does not do what a comment, a test
or the documentation says. `PROJECT.json` quotes both.

1. **AustinUseAfterDestroy**: signals are passed on through a process object that the
   list may have destroyed (`austin.c:222`).
2. **SamplerExclude**: `-e` looks at the stack left by the thread before, which is
   empty, and leaves every thread out (`py_thread.c:903`).
3. **TimeoutUnits**: a timeout in `ms` is refused, though a comment, the help and the
   README offer the unit: its case falls into the default (`argparse.c:172`).

Other behaviours that a reader of the code may not expect are in the models as they
are in the code. The properties are stated around them, with the exception written
out, and so hold.

Main program and process list:

- An exposure that expires may turn a signal into another one: `interrupt++` undoes
  or changes what the handler wrote since the loop looked (`austin.c:111`;
  `PassesSignalOn`).
- A child is found only through parents that are listed: if the parent ended before,
  if Root is not Python, or if one sample of Root has failed, children may never be
  sampled (`py_proc_list.c:146` and `180`; `ChildrenAreSampled`).
- A failed sample of a live process that Austin has started blocks the main thread until
  that process ends, and in austinp a failed sample of any process until all that it
  traces have ended; no other process is sampled meanwhile (`py_proc.c:926` and `940`;
  `ChildrenAreSampled`).
- "No Python children" is also reported if the parent has ended and exactly one child
  was attached (`austin.c:160`; `NoChildrenVerdict`).
- A signal that arrives before or while Austin waits for a process it has started, and
  could not sample, is not passed on, and the wait goes on (`py_proc.c:921`;
  `StopsOnSignal`).

Sampling:

- An interpreter without threads ends the sample before the timestamp moves, so that
  the threads of the interpreters before it are counted twice (`py_proc.c:1222`;
  `NoTimeCountedTwice`).
- A state that was freed is read and followed. Its pointer may lead to the state of a
  thread that has started since, at the head of the list, from where the walk meets
  threads it has been at again (`py_thread.c:784`; `NoTimeCountedTwice`,
  `MemoryOfHolder`), or past threads that were stopped, which are not resumed by that
  sample (`NoneLeftStopped`).
- A thread that has unlinked its state after Austin read it is stopped all the same; the
  walk that resumes threads does not meet it, and it stays stopped after a sample that
  succeeded (`py_proc.c:1068` and `1103`; `NoneLeftStopped` is of the threads that have a
  state).
- Threads that were stopped are not resumed if one of them cannot be interrupted or
  resumed (`py_proc.c:1228`), although the change log says that they are resumed when an
  error occurs during sampling (`ChangeLog:12`; `NoneLeftStopped`).
- Up to 3.11, with `-m` or `-f`, threads are left out until the holder of the GIL has
  been found in memory once, and a sample taken while no thread holds the GIL has none
  (`py_proc.c:1175`; `AllTimeCounted`).
- With `-g` the time the garbage collector runs is counted once for every thread that
  is sampled meanwhile (`py_thread.c:1041`; not modelled).
- The marker of 3.11 between the runs of Python frames is pushed one beyond a full array
  (`py_thread.c:337`; `StackInArray`). Before 3.11 what is left over of the Python
  frames, when libunwind gives up early, is shown with the next thread
  (`py_thread.c:1021`; `OwnFrames`); from 3.11 on the runs are then paired with the
  wrong calls, and there is no mark (`Interleaved`).

Attaching:

- That the maps file cannot be opened for lack of permissions is reported as a
  general error (`linux/py_proc.h:679`; `PermissionReported`).
- The last scan may use a version that was never told, which is a NULL pointer
  (`py_proc.c:667`; `ScanCrashes`), or that of an earlier program (`Stale`, `Told`).
- A head found in a guessed runtime section is dropped by the next address
  (`py_proc.c:538`; `Deref`), and the steps that the comment on the .bss scan describes
  are not taken (`py_proc.c:441`).

Functions:

- Products that overflow, and
  pids that do not fit an int, are accepted; so is 0 where a message asks for a positive
  number (`argparse.c:132`; `TextsTold`).
- The portable parser does not advance over a dash that is a word (`argparse.c:546`),
  takes no value from the next word if it begins with a dash, and forgives what comes
  after a pid; `-w` and `-p` write a long over an int (`argparse.c:707`;
  `ParsersAgree`, `ParsingEnds`).
- A line that begins with the file the previous maps ended with is merged into the range
  before the first one (`linux/py_proc.h:658`); an anonymous gap between two mappings of
  a file is named as that file; ranges after the last that fits are dropped
  (`AddressesNamed`).
- An instruction that does not fit 16 bits, or 15 in the stream of 3.10, reaches into the
  bits of the code object (`frame.h:94`; `KeysApart`).
- All frames that have not begun share one key, whatever their code; from 3.11 on they
  are shown at the last line of their function. Up to 3.10 the end of a line is the
  first line of the function (`KeysApart`, `LocationTold`).
- The longest sample goes unnoticed if it is the first (`stats.h:114`;
  `StatisticsTold`).
- 3.13 is taken for 3.11, whose descriptor then says 3.13, for all processes that share
  it; major version 2 has no descriptor (`version.h:436`; `DescriptorsServe`).

## 6. Proofs

Each theorem holds for all values of the constants that satisfy the assumptions named in
the module it is about. In every proof module one lemma says that the invariant holds
initially, one per operation that it is kept, and one combines them. Every invariant was
first checked by TLC on the instance of the run.

What a recursive function computes is reasoned about without the induction theorems of
the library, which take operators as parameters that the installed provers cannot
instantiate. That the function exists is shown by the least length for which it would
not, and what it computes after each step by the least step at which that would be wrong
(`Least`, from the well-foundedness of the naturals). The models therefore have recursive
functions, on intervals, wherever they are proved about.

**LruCache** (every finite set of keys, every set of values and items, every set of
modes). The invariant is `IInv`: `TypeOK`, `QueueOK`, `NoDanglingEntry` and `UseOrder`
together. None of the last three is inductive by itself: that a table entry leads to
the newest item of its key is needed to see that evicting an older one, which deletes
the key from the table, leaves no entry behind; that no item is twice in the queue is
needed to see that the item evicted leaves it; and the order of use needs both.
`EvictionIsLeastRecent` follows from it step by step. `NothingOrphaned` adds that the
keys of the queue are keys, and that no two items have the same if stores follow misses.
`Refinement` shows that every step is one of `CacheContract`: since the table counts at
most as many keys as the queue has items, and its capacity exceeds that of the queue, a
store is never ignored.

**LookupTable** (any finite set of keys, any values, any first capacity, any hash function
that stays within the table). A table is in order (`Sound`) if every chain that is used
has one head with a key in each further place, no key twice, each in the slot of its hash,
and if size is the number of keys. `Get` then finds a key exactly if it is in the chain of
its slot (`Located`, `Found`). Set, delete and clear keep the order (`SetSound`, `DelSound`); so does doubling,
which is two nested walks, over the chains and over the links of each: after each link the
new table is in order and has the keys that have been passed, with their values, and no
others, and it is never at its new capacity, so that no key is refused on the way. With
`size <= capacity` the invariant is inductive, and `Room` says that a key that is new finds
the table below its capacity, because it has been doubled before. `TableCorrect` and
`Refinement` follow: whatever the keys collide in, the chains are the map.

**LruList** (any number of items). The invariant is that the pointers *spell* some
sequence without repetitions, forwards from `front` and backwards from `rear`, and that
this sequence satisfies the invariant of `LruCache`. The mapping walks the list with a
recursive function over the length (`Walks`, `Reads`): what is spelt is what is read.
One lemma for each piece of surgery (`BringToFrontSpells`, with front, rear, middle and
neighbours as cases; `EnqueueSpells`, `DequeueSpells`) says which sequence the new
pointers spell, and so `Refinement` maps each action to the one of the same name.
Together with the refinement above: the linked list is a map that may forget.

**Austin** (any number of processes, any family of scenarios, signals and faults). The
invariant says where the main thread can be (`Places`), that the list has no
repetitions and holds Python processes and the root (`Items`), that what a loop has
still to visit is the end of the list (`Cursor`), that the object of the root lives
exactly while it is listed (`Owner`), what is reaped when it does not (`Reaped`,
`Early`), and what the handler may have left in `interrupt` (`Flag`). `ListOK` and
`CursorOK` are not inductive without each other, since items are removed at the cursor.

**Attach** (any sequence of programs, any outcome of reads). A process does not return to
a program it has left. What is kept (symbols, sections, path) is of the program whose
maps were opened last or of an earlier one (`Kept`), and in an attempt, once the maps
have been read, all that is used is of one program (`OfOneProgram`). So if that program
still runs when the interpreter is found, the version that was used is its own
(`VersionOfAttempt`); the last scan, which is outside an attempt, needs
`VersionOfLast`. `VerdictOK` needs the reasons an error code can have (`Reasons`).
`PermissionReported` rests on `DeniedInv`: every attempt gets as far as a read that is
not permitted, so that this is the error the loop ends with, and the last scan, which
overwrites it, is for a process there was no time to attempt.

**ProcSample** (any number of threads, interpreters, addresses and faults; states freed,
followed and used again). `TypeOK` includes that a state is of one interpreter and one
thread. Threads are numbered as they start, and a list runs from the youngest to the
oldest. `Known` is about the states that were linked when a walk began and have not been
taken by other threads since: one that was freed still leads to an older one, or out of
the set. Hence `Walked`: as long as the walk has stayed among them, each thread is followed
by an older one; and, if it has followed no state that was freed, no state that is still
linked has been skipped. The two with the types are `Course`, on which the others rest.

- `TimeCorrect` rests on `Counts`: threads older than the one the walk is at are credited
  up to the old timestamp only, and the walk does not return.
- `StoppedCorrect` rests on `Stops`: a thread that is stopped and has a state was known
  when the walk began and is no younger than `head`; it cannot unlink its state, so that
  the second walk, which skips none, meets it and finds it flagged.
- `MemoryCorrect` rests on `Holders`: the state that was found to hold the GIL, if it has
  not been taken, is of a thread that has held it since the sample began.
- `AllTimeCorrect` rests on `Accounts`: as long as samples are undisturbed, the threads
  behind the cursor have been credited exactly up to the new timestamp and all others up to
  the old one, and the interpreters before the current one are behind the cursor as a whole.
  It needs that a thread which has been passed is not met again, in this interpreter or
  another; the assumption on the subjects therefore says that their first lists are
  disjoint.
- `StoppedMemoryCorrect` rests on `Halted`: the threads from the cursor of the walk that
  stops them up to `head` are stopped, so that all are when the sampling begins. A thread
  that is stopped with the GIL keeps it, so that if the holder that was read is one of
  those that are walked, it is the holder still.

**Sampler** (any memory, any size of the arrays). `Recent`: the frames that have been
resolved are in the front part of the cache, as many as there are, so that with a cache
at least as large as the array none is evicted before the sample is emitted; this gives
`FramesCorrect`. `Marks` bounds the marks, and with `Place` gives the bound of the array
(`TypeCorrect`). `Defined`: the keys of the cached frames have been defined in the
stream, and so have their strings (`DefinitionsCorrect`). `MarkedCorrect` compares a
sample of a process that stands still with the walk along its back pointers, which two
recursive functions define: `Walk` (where it is after n steps) and `Met` (the frames met by
then). Its invariant, `Truth`, is that unwinding is at some step of that walk with the
frames met so far on the stack, none of them twice; and, once the stack is resolved
(`Honest`), that it shows the first of the frames that are reported, all of them if nothing
is marked, and that nothing is marked without a failed read, a cycle or a full array. That a
frame which is met twice means that the chain does not end needs that a walk which comes
back to an address goes round for ever; that what is resolved is the frame that was pushed,
that no object is twice in the cache (`OneEntry`).

**NativeStack** (any size of the arrays, any stack, any failure, 3.10 to 3.12). The frames
that the two stacks refer to are those used last, which form the front part of the cache
(`Recent`); what is evicted is at its end. A key that is looked for or stored joins the
front part and takes the life of none of it, as long as the cache has room for all of them
and the key (`TouchOK`): by counting, since the native stack refers to at most as many
frames as its array holds, the Python stack to as many as its own (the marker that
3.11 pushes beyond it refers to none, `KeysFit`), and the cache has as many places as the
two arrays together. Resolving therefore frees no frame, neither of its own stack nor of
the native one, and resolving a second time does not either (`UnwindPythonOK`). The frames
that an earlier sample left may be freed, and `Sound` says they are marked as left. With
what is pushed for each call (`ChainOK`) and where the walk ends (`WalkedOK`) this gives
the bounds of the arrays, and `StackCorrect`. That the sizes are tight is what the mutant
of this property shows: with a cache as large as one array it fails.

`ToldCorrect` is about what is shown. Its invariant, `Faithful`, follows one sample: the
native stack has the program counters of the innermost calls, of all of them if nothing is
marked or cut short (`NativeTold`); the Python stack is what all calls push (`PyTold`).
The stacks are walked from the innermost call outwards and shown from the root inwards, and
`Complete(n)` says where showing them stands after n native frames: for the n outermost
calls the frames have been shown (`Shows`), and for the others what they push is left
(`Inner`), less the marker on top. One native frame takes one such state to the next
(`CompleteStep`): a call that runs frames has them on top, down to the marker with which the
calls further in end (`RunAboveMarker`), and one that runs none pushes nothing, or is the
innermost, so that there is nothing its native frame could be replaced by (`TopOfNoRun`). A
thread of 3.10 without a frame is the exception: what an earlier sample left is still on
the stack and takes the place of the call that is about to run its first frame (`BareOK`),
which is all that `OwnFrames` permits. As frames of this sample that have the same key are
equal (`FreshSame`), "the same frames" is equality of sequences throughout, and only the
last step compares keys with `Truth` (`CompleteTruth`).

**Version** (any set of versions). The invariant says that the version in a descriptor is
one of a process that has been met and that shares the descriptor. Two versions share one
only if they are the same or both at most 3.8 (`SharedAlike`), and no comparison that is
made tells those apart; that is why 3.13, which shares that of 3.11, is excepted.

**Stats** (any samples, any number, any clock). The invariant says of each counter what it
is of the samples so far: the counts are cardinalities of sets of positions (`Counts`), the
minimum and the maximum are within one of a sample's (`Shortest`, `Longest`), and the sum
lies between any lower and any upper bound of the durations times their number (`Average`),
from which the average is between the least and the greatest by one division at the end
(`AverageBetween`). `Longest` has to say "unless the first sample is longer than all that
followed" to be inductive: that is the flaw of the macro, and nothing else is lost.

**Stream** (any events, any order, numbers and strings of any size). `IntegerReads` says that
a number is read back from its bytes whatever follows them: the rounds of the encoder's
loop leave the number shifted (`ShiftedProperties`), end (`RoundsDefined`), and the reader,
who goes through the groups from the last to the first, has after each the number that was
left at that round (`GroupsRead`). `StringReads` is the same for a string, whose end is its
first byte 0. From these every kind of event reads back (`EventReads`), and the invariant is
that the bytes in the stream are those of the events emitted after the last one read
(`Left`). The seven numbers of a frame and the two strings of a metadata event need that a
value is read whatever follows, so that they can be taken one by one.

**FrameKey** (any widths, as long as the bits of a reference and of an instruction leave one
bit of a key; any code objects and instructions; a cache of any size). The invariant is that
every frame in the cache has the key it is cached by, and its own key among those that are
shown, and that what is shown for a key has that key. Eviction needs nothing more, since
what is shown stays. So the theorem is about the keys: two numbers without a common bit are
or-ed as they are added (`OrApart`, by the lowest bit at which that would fail); an
instruction that fits has no bit in common with the shifted code object, so that the key is
both side by side and both can be had back (`KeyValue`); -1, and the -2 that 3.10 makes of
it, are the only ones that reach the highest bit (`KeyTop`). `KeyInjective` combines the
three.

### What is only model-checked

- Liveness under fairness, and what needs `ENABLED`: `StopsOnSignal`, `EndsWithTargets`,
  `ChildrenAreSampled`, `RunEnds`, `AttachesAtLast`, `SampleEnds`.
- The three properties of the functions, `OptionsTold`, `RangesTold` and `LocationTold`: they
  compare folds and recursive operators over data with a reference, for which there is no
  invariant of a system to prove, and their modules use `RECURSIVE` operators.

## 7. Not modelled, and why

- libunwind, BFD (`linux/addr2line.h`) and the bytes of ELF files: libraries and a file
  format decide. Their answers are choices in `NativeStack` and flags in `Attach`.
- The frame heap (`-h`): it copies a range of memory at once; what changes is when
  reads happen, and what they return if the range is wrong depends on the contents of
  memory. The code reads `self->raddr.pref` before it has set it (`py_thread.c:795`).
- The values of the offsets in version descriptors: the layout of CPython's structures.
- The state of the garbage collector (`-g`) and idle threads (`-s`): one read each, that
  changes what is written of a sample and nothing else.
- The text format and messages: wording.
- The checksum of the maps file: `Attach` compares the files; `linux/futils.h:43` keeps
  the checksum of the last block only.
- The reuse of pids and of thread ids (`py_thread.c:742`): pids and thread ids are
  identities in `Austin` and `ProcSample`. The memory of thread states is used again in
  `ProcSample`, by thread states; what else the heap may put over one is modelled of the
  pointer to the next state only, not of the thread id. Nor is the moment modelled at which
  CPython has linked a new state that has no thread id yet.
- A kernel stack file of 2048 bytes or more, which is read without a terminating NUL
  (`linux/py_thread.h:40`).
- macOS and Windows: other handles, other ways to stop a process and to find its
  sections; they would be models of their own beside `Attach` and `ProcSample`.

## 8. What is left

In the order of use: the reuse of thread ids in `ProcSample`, with the table of seized
threads of `py_thread.c`; the garbage collector's state beside the memory of the same
module; the macOS variant of attaching.
