-------------------------------- MODULE MCAttach --------------------------------
(* Processes for Attach: Python with and without symbols, and what is not Python; *)
(* started by Austin, attached, children, and such as Austin may not read.        *)
EXTENDS Attach

Plain  == [python |-> FALSE, named |-> FALSE, runtimeSym |-> FALSE, versionSym |-> FALSE,
           section |-> FALSE, data |-> TRUE, bss |-> FALSE]
Modern == [Plain EXCEPT !.python = TRUE, !.named = TRUE, !.runtimeSym = TRUE,
                        !.versionSym = TRUE, !.section = TRUE]
Old    == [Plain EXCEPT !.python = TRUE, !.named = TRUE, !.runtimeSym = TRUE, !.bss = TRUE]
StrippedOld    == [Old EXCEPT !.runtimeSym = FALSE]
BareOld        == [StrippedOld EXCEPT !.data = FALSE]
StrippedModern == [Modern EXCEPT !.runtimeSym = FALSE, !.versionSym = FALSE]
Embedded       == [Old EXCEPT !.named = FALSE]

Launched == {<<Plain, Modern>>, <<Plain, Old>>, <<Plain, StrippedOld>>, <<BareOld>>,
             <<Old, Modern>>, <<Modern, Old>>, <<Plain, Plain>>, <<Embedded>>, <<Old, Embedded>>}
Alone    == {<<Modern>>, <<Old>>, <<StrippedOld>>, <<BareOld>>, <<StrippedModern>>}

MCTargets ==
  [program : Launched, spawned : {TRUE},  child : {FALSE}, perm : {"all"}] \cup
  [program : Launched, spawned : {FALSE}, child : {TRUE},  perm : {"all"}] \cup
  [program : Alone,    spawned : {FALSE}, child : {FALSE}, perm : {"all", "maps", "none"}]
=================================================================================
