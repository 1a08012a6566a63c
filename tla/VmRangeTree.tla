------------------------------ MODULE VmRangeTree ------------------------------
(***************************************************************************)
(* The address ranges of the files a process has mapped, which -w looks    *)
(* native frames up in: _py_proc__get_vm_maps (linux/py_proc.h) makes them *)
(* of the lines of the maps file and keeps them in the AVL tree of         *)
(* linux/vm-range-tree.h; the base table has the lowest address of a file. *)
(*                                                                         *)
(* A line is [lo, hi, path]; a line without a path has "" for it, and one  *)
(* like [heap] has "[".                                                    *)
(***************************************************************************)
EXTENDS Naturals, Integers, Sequences, SequencesExt

CONSTANT MAX_RANGES  \* 256

ASSUME RangesAssumption == MAX_RANGES \in Nat \ {0}

-------------------------------------------------------------------------------
(* The tree.  NULL is the tree of height 0.                                     *)

NoRange == [height |-> 0]

vm_range_new(lo, hi, name) ==
  [lo |-> lo, hi |-> hi, name |-> name, left |-> NoRange, right |-> NoRange, height |-> 1]

WithHeight(r) ==
  [r EXCEPT !.height = 1 + IF r.left.height > r.right.height THEN r.left.height ELSE r.right.height]

_vm_range__rrot(r) ==
  WithHeight([r.left EXCEPT !.right = WithHeight([r EXCEPT !.left = r.left.right])])

_vm_range__lrot(r) ==
  WithHeight([r.right EXCEPT !.left = WithHeight([r EXCEPT !.right = r.right.left])])

_vm_range__bf(r) == r.left.height - r.right.height

\* The rotations after a range at lo was added somewhere below r.
Rebalance(r, lo) ==
  CASE _vm_range__bf(r) > 1 ->
         _vm_range__rrot(IF lo < r.left.lo THEN r ELSE [r EXCEPT !.left = _vm_range__lrot(@)])
    [] _vm_range__bf(r) < -1 ->
         _vm_range__lrot(IF lo > r.right.lo THEN r ELSE [r EXCEPT !.right = _vm_range__rrot(@)])
    [] OTHER -> r

RECURSIVE _vm_range__add(_, _)
_vm_range__add(r, range) ==
  IF r.height = 0 THEN range
  ELSE Rebalance(WithHeight(IF range.lo < r.lo
                              THEN [r EXCEPT !.left = _vm_range__add(@, range)]
                              ELSE [r EXCEPT !.right = _vm_range__add(@, range)]), range.lo)

vm_range_tree__add(ranges) ==
  FoldLeft(LAMBDA tree, r : _vm_range__add(tree, vm_range_new(r.lo, r.hi, r.path)), NoRange, ranges)

RECURSIVE _vm_range__find(_, _)
_vm_range__find(r, addr) ==
  IF r.height = 0 \/ addr \in r.lo..(r.hi - 1) THEN r
  ELSE _vm_range__find(IF addr < r.lo THEN r.left ELSE r.right, addr)

-------------------------------------------------------------------------------
(* The lines.  A line continues the range before it if its path is that of the *)
(* last range; prevpathname is static, so that this may be a range of the last *)
(* call, which is not there any more: ranges[-1] is written.                   *)

\* Mutant: the upper bound of the range is left.
ReadLineUnmerged(st, line) ==
  CASE Len(st.ranges) = MAX_RANGES \/ line.path \in {"", "["} -> st
    [] line.path # st.prevpathname ->
         [st EXCEPT !.ranges = Append(@, line), !.prevpathname = line.path]
    [] OTHER -> [st EXCEPT !.wild = @ \/ st.ranges = <<>>]

\* No line is read any more once the ranges are full, not even one that continues
\* the last.
ReadLine(st, line) ==
  CASE Len(st.ranges) = MAX_RANGES \/ line.path \in {"", "["} -> st
    [] Len(st.ranges) < MAX_RANGES /\ line.path \notin {"", "[", st.prevpathname} ->
         [st EXCEPT !.ranges = Append(@, line), !.prevpathname = line.path]
    [] OTHER ->
         IF st.ranges = <<>> THEN [st EXCEPT !.wild = TRUE]
         ELSE [st EXCEPT !.ranges[Len(st.ranges)].hi = line.hi]

\* The ranges made of a maps file, if the last range of the last call was of prev.
_py_proc__get_vm_maps(lines, prev) ==
  FoldLeft(ReadLine, [ranges |-> <<>>, prevpathname |-> prev, wild |-> FALSE], lines)

\* The first range of each file.
base_table(ranges) ==
  [path \in {ranges[i].path : i \in DOMAIN ranges} |->
     ranges[CHOOSE i \in DOMAIN ranges : /\ ranges[i].path = path
                                         /\ \A j \in 1..(i - 1) : ranges[j].path # path].lo]
===============================================================================
