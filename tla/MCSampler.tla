------------------------------- MODULE MCSampler -------------------------------
(* Instances of Sampler for TLC: three code locations that share strings. *)
EXTENDS Sampler

CONSTANTS k1, k2, k3, s1, s2, s3, o1, o2, o3

MCFileOf == [c \in Code |-> IF c = k3 THEN s3 ELSE s1]
MCScopeOf == [c \in Code |-> IF c = k1 THEN s1 ELSE s2]

\* A process that runs on, with three code locations for an array and a cache of two.
Running == [racy : {TRUE}, iframes : BOOLEAN, code : {{k1, k2, k3}}, size : {2},
            obj : {{o1, o2, o3}}, exclude_empty : BOOLEAN]

\* Every memory of three frames that stands still, with room for the whole stack.
Still == [racy : {FALSE}, iframes : BOOLEAN, code : {{k1, k2}}, size : {3},
          obj : {{o1, o2}}, exclude_empty : {FALSE}]

MCSettings == Running \cup Still

\* -e on a process that stands still.
ExcludingSettings == [racy : {FALSE}, iframes : BOOLEAN, code : {{k1, k2}}, size : {2},
                      obj : {{o1, o2, o3}}, exclude_empty : BOOLEAN]
===============================================================================
