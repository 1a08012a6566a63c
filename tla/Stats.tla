--------------------------------- MODULE Stats ---------------------------------
(***************************************************************************)
(* The statistics of a run (stats.c, stats.h): what is counted at the end  *)
(* of each sample of a thread, and the report at the end of the run.       *)
(*                                                                         *)
(* stats_check_duration is a macro, whose argument stopwatch_duration is   *)
(* evaluated again wherever it stands.  A sample is [d, tick, error]: d is *)
(* its duration, and tick the evaluation by which the clock has gone on by *)
(* one.                                                                    *)
(***************************************************************************)
EXTENDS Integers, Sequences, FiniteSetsExt

CONSTANTS ULONG_MAX, t_sampling_interval,
          Samples,   \* that a run may be made of
          MaxSamples \* bound: the samples of a run

\* A duration is the difference of two times of the clock, as it is first evaluated.
ASSUME StatsAssumption ==
  /\ {ULONG_MAX, t_sampling_interval, MaxSamples} \subseteq Nat
  /\ Samples \subseteq [d : Nat, tick : Nat \ {0, 1}, error : BOOLEAN]
  /\ \A s \in Samples : s.d + 1 < ULONG_MAX

VARIABLES sample_cnt, error_cnt, long_cnt, min_sampling_time, max_sampling_time,
          avg_sampling_time, \* until it is reported, the sum
          samples            \* history: the samples of the run

times == <<min_sampling_time, max_sampling_time, avg_sampling_time>>

\* stats_reset leaves the number of long samples, which is 0 as it is called once.
stats_reset ==
  /\ sample_cnt = 0 /\ error_cnt = 0 /\ long_cnt = 0
  /\ min_sampling_time = ULONG_MAX /\ max_sampling_time = 0 /\ avg_sampling_time = 0

\* The duration as the nth evaluation has it, of five at most.
stopwatch_duration(sample, n) == sample.d + IF n >= sample.tick THEN 1 ELSE 0

\* Mutant: the longest sample is forgotten when a shorter one follows.
CheckDurationLast(s) ==
  /\ long_cnt' = long_cnt + IF s.d > t_sampling_interval THEN 1 ELSE 0
  /\ IF min_sampling_time > s.d
       THEN min_sampling_time' = s.d /\ UNCHANGED max_sampling_time
       ELSE max_sampling_time' = s.d /\ UNCHANGED min_sampling_time
  /\ avg_sampling_time' = avg_sampling_time + s.d

\* A sample that is the shortest so far is not considered for the longest.
stats_check_duration(s) ==
  LET delta(n) == stopwatch_duration(s, n)
      shorter  == min_sampling_time > delta(2)
      longer   == ~shorter /\ max_sampling_time < delta(3)
  IN  /\ long_cnt' = long_cnt + IF delta(1) > t_sampling_interval THEN 1 ELSE 0
      /\ min_sampling_time' = IF shorter THEN delta(3) ELSE min_sampling_time
      /\ max_sampling_time' = IF longer THEN delta(4) ELSE max_sampling_time
      /\ avg_sampling_time' = avg_sampling_time + delta(IF longer THEN 5 ELSE 4)

\* The end of py_thread__emit_collapsed_stack.
Sampled(s) ==
  /\ sample_cnt' = sample_cnt + 1
  /\ error_cnt' = error_cnt + IF s.error THEN 1 ELSE 0
  /\ stats_check_duration(s)

\* stats_log_metrics reports nothing of no samples.
stats_log_metrics ==
  IF sample_cnt = 0 THEN [none |-> TRUE]
  ELSE [none |-> FALSE, min |-> min_sampling_time, avg |-> avg_sampling_time \div sample_cnt,
        max |-> max_sampling_time, saturation |-> <<long_cnt, sample_cnt>>, errors |-> <<error_cnt, sample_cnt>>]

StatsInit == stats_reset /\ samples = <<>>
StatsNext ==
  \E s \in Samples :
    /\ Len(samples) < MaxSamples
    /\ Sampled(s)
    /\ samples' = Append(samples, s)
StatsSpec == StatsInit /\ [][StatsNext]_<<sample_cnt, error_cnt, long_cnt, times, samples>>

-------------------------------------------------------------------------------
(* Properties. *)

\* The report counts every sample, long sample and error, and its average lies
\* between the shortest and the longest duration.  The shortest is exact; so is the
\* longest, unless the first sample took longer than any other, which goes
\* unnoticed.  If the clock goes on while a duration is looked at they are off by
\* one at most.
StatisticsTold ==
  LET ds == {samples[i].d : i \in DOMAIN samples}
      r == stats_log_metrics
      still == \A i \in DOMAIN samples : samples[i].tick > 5
      firstLongest == \A i \in 2..Len(samples) : samples[i].d < samples[1].d
  IN  IF samples = <<>> THEN r.none
      ELSE /\ r.saturation = <<Quantify(DOMAIN samples, LAMBDA i : samples[i].d > t_sampling_interval), Len(samples)>>
           /\ r.errors = <<Quantify(DOMAIN samples, LAMBDA i : samples[i].error), Len(samples)>>
           /\ r.avg \in Min(ds)..(Max(ds) + 1)
           /\ r.min \in Min(ds)..(Min(ds) + 1)
           /\ r.max <= Max(ds) + 1
           /\ still => r.min = Min(ds) /\ r.avg <= Max(ds) /\ (r.max = Max(ds) \/ firstLongest)
===============================================================================
