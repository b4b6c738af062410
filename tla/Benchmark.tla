------------------------------ MODULE Benchmark ------------------------------
(***************************************************************************)
(* A benchmark of TuneBenchmarkExecutor against the baseline taken before: *)
(* the runs of the benchmark script one after the other, the thread that   *)
(* samples the target during each of them, the digest of what the samples  *)
(* say, and the decision.                                                  *)
(*                                                                         *)
(* The main thread waits for the script, sets stop, joins the sampling     *)
(* thread with a timeout and copies the list. A thread that has not ended  *)
(* by then is left running. A probe may fail, and may never return: there  *)
(* is no timeout on a command. A result file may lack its figure, which is *)
(* then taken to be zero.                                                  *)
(***************************************************************************)
EXTENDS ResultEvaluator

CONSTANTS
  Baselines,          \* throughputs the baseline may show, with and without telemetry
  Rates,              \* throughputs a script may measure, with and without telemetry
  RunCounts,          \* values of run_count, with and without telemetry
  None,               \* a reading, or a figure of a result file, that is missing
  MaxCaptures,        \* bound: samples of each run
  MaxCount,           \* bound: the counter on the target
  MaxProbeFailures    \* bound: probes that fail

Runs == 1..Max(RunCounts[TRUE] \cup RunCounts[FALSE])

ASSUME BenchmarkAssumption ==
  /\ \A t \in BOOLEAN : /\ Baselines[t] \subseteq Nat /\ Rates[t] \subseteq Nat
                       /\ RunCounts[t] \subseteq Nat \ {0}
  /\ \E m \in RunCounts[TRUE] \cup RunCounts[FALSE] :
       \A n \in RunCounts[TRUE] \cup RunCounts[FALSE] : n <= m
  /\ MaxCaptures \in [Runs -> Nat \ {0}]
  /\ MaxCount \in Nat /\ MaxProbeFailures \in Nat /\ None \notin Nat

VARIABLES
  telemetry,   \* whether a collector is there
  runCount,    \* self.run_count
  missing,     \* missing_guardrails, looked at by the evaluator
  sweep,       \* phase is WIDE_SWEEP
  pc,          \* where the main thread is
  baseline,    \* requests per second of each workload
  run,         \* run_index
  exit,        \* how the script ended
  files,       \* the result files of the contestant of the run
  samples,     \* workload_samples
  stopped,     \* runs whose stop event is set
  worker,      \* sampling thread of each run: place, samples taken, sample under way
  lists,       \* the list each of them appends to
  hung,        \* threads whose probe never returns
  chunks,      \* telemetry_chunks
  decision,
  count,       \* a counter of the target: packets dropped, periods throttled
  failures     \* counted against the bound

VARIABLES      \* history variables: no action reads them
  began,       \* count when the benchmark began
  measured     \* what the script measured, by run; None where a file has no figure

config == <<telemetry, runCount>>
context == <<missing, sweep>>
main == <<context, pc, baseline, run, exit, files, samples, stopped, chunks, decision>>
threads == <<worker, lists, hung>>
host == <<count, failures>>
ghosts == <<began, measured>>
vars == <<config, main, threads, host, ghosts>>

NoSample == [sequence |-> 0, drops |-> None, throttled |-> None, late |-> FALSE]

-----------------------------------------------------------------------------
Init ==
  /\ telemetry \in BOOLEAN /\ missing = FALSE /\ sweep = FALSE
  /\ runCount \in RunCounts[telemetry]
  /\ pc = "baseline" /\ baseline = [w \in Workloads |-> 0] /\ run = 1 /\ exit = "none"
  /\ files = <<>> /\ samples = [w \in Workloads |-> <<>>]
  /\ stopped = {} /\ chunks = <<>> /\ decision = "none"
  /\ worker = [r \in Runs |-> [at |-> "none", taken |-> 0, sample |-> NoSample]]
  /\ lists = [r \in Runs |-> <<>>] /\ hung = {}
  /\ count \in 0..MaxCount /\ failures = 0
  /\ began = count /\ measured = <<>>

\* float(requests.get("per_sec", 0.0))
Figure(v) == IF v = None THEN 0 ELSE v

\* BaselineRunner.run
MeasureBaseline ==
  /\ pc = "baseline" /\ pc' = "start"
  /\ baseline' \in [Workloads -> {Figure(v) : v \in Baselines[telemetry] \cup {None}}]
  /\ began' = count
  /\ UNCHANGED <<config, context, run, exit, files, samples, stopped, chunks, decision, threads, host,
                 measured>>

StartRun ==
  /\ pc = "start" /\ pc' = "load"
  /\ worker' = IF telemetry THEN [worker EXCEPT ![run].at = "check"] ELSE worker
  /\ UNCHANGED <<config, context, baseline, run, exit, files, samples, stopped, chunks, decision, lists,
                 hung, host, ghosts>>

\* blocking_call returns or raises. A script that exits with 0 may still leave a
\* result file out, or the figure out of one.
ScriptEnds ==
  /\ pc = "load"
  /\ LET Results(W) == [W -> Rates[telemetry] \cup {None}]
     IN \/ exit' = "ok" /\ files' \in Results(Workloads)
        \/ exit' = "ok" /\ \E w \in Workloads : files' \in Results(Workloads \ {w})
        \/ exit' \in {"error", "raised"} /\ files' = <<>>
  /\ measured' = Append(measured, files')
  /\ pc' = CASE telemetry -> "stop"
             [] ~telemetry /\ exit' = "raised" -> "failed"
             [] OTHER -> "check"
  /\ UNCHANGED <<config, context, baseline, run, samples, stopped, chunks, decision, threads, host,
                 began>>

\* finally: stop.set()
SetStop ==
  /\ pc = "stop" /\ pc' = "join"
  /\ stopped' = stopped \cup {run}
  /\ UNCHANGED <<config, context, baseline, run, exit, files, samples, chunks, decision, threads, host,
                 ghosts>>

JoinWithoutTimeout ==   \* mutant
  /\ pc = "join" /\ worker[run].at = "ended"
  /\ pc' = IF exit = "raised" THEN "failed" ELSE "collect"
  /\ UNCHANGED <<config, context, baseline, run, exit, files, samples, stopped, chunks, decision,
                 threads, host, ghosts>>

\* thread.join(timeout) returns whether the thread has ended or not.
Join ==
  /\ pc = "join"
  /\ pc' = IF exit = "raised" THEN "failed" ELSE "collect"
  /\ UNCHANGED <<config, context, baseline, run, exit, files, samples, stopped, chunks, decision,
                 threads, host, ghosts>>

\* renumber_samples
Renumbered(list) == [i \in DOMAIN list |-> [list[i] EXCEPT !.sequence = Len(chunks) + i - 1]]

Collect ==
  /\ pc = "collect" /\ pc' = "check"
  /\ chunks' = chunks \o Renumbered(lists[run])
  /\ UNCHANGED <<config, context, baseline, run, exit, files, samples, stopped, decision, threads, host,
                 ghosts>>

\* A sample of every workload, or an exception that leaves run().
Complete == exit = "ok" /\ DOMAIN files = Workloads

WhateverIsThere ==   \* mutant: a missing result file is skipped
  /\ pc = "check" /\ exit = "ok"
  /\ samples' = [w \in Workloads |->
                   IF w \in DOMAIN files THEN Append(samples[w], Figure(files[w])) ELSE samples[w]]
  /\ IF run < runCount THEN pc' = "start" /\ run' = run + 1
                       ELSE pc' = "measured" /\ run' = run
  /\ UNCHANGED <<config, context, baseline, exit, files, stopped, chunks, decision, threads, host, ghosts>>

LoadSamples ==
  /\ pc = "check" /\ Complete
  /\ samples' = [w \in Workloads |-> Append(samples[w], Figure(files[w]))]
  /\ IF run < runCount THEN pc' = "start" /\ run' = run + 1
                       ELSE pc' = "measured" /\ run' = run
  /\ UNCHANGED <<config, context, baseline, exit, files, stopped, chunks, decision, threads, host, ghosts>>

RunFails ==
  /\ pc = "check" /\ ~Complete
  /\ pc' = "failed"
  /\ UNCHANGED <<config, context, baseline, run, exit, files, samples, stopped, chunks, decision, threads,
                 host, ghosts>>

Evaluate ==
  /\ pc = "measured" /\ pc' = "done"
  /\ missing' \in BOOLEAN /\ sweep' \in BOOLEAN
  /\ decision' = Decide(baseline, samples, missing', sweep')
  /\ UNCHANGED <<config, baseline, run, exit, files, samples, stopped, chunks, threads, host,
                 ghosts>>

-----------------------------------------------------------------------------
(* The sampling thread of run r.                                           *)

GoesOn(r) == [worker EXCEPT ![r].at = IF r \in stopped THEN "ended" ELSE "first"]

CheckStop(r) ==
  /\ worker[r].at = "check" /\ worker' = GoesOn(r)
  /\ UNCHANGED <<config, main, lists, hung, host, ghosts>>

\* A probe reads the counter, or fails and leaves its field empty.
Reading(v) ==
  \/ v = count /\ UNCHANGED failures
  \/ v = None /\ failures < MaxProbeFailures /\ failures' = failures + 1

FirstProbe(r) ==
  /\ worker[r].at = "first" /\ r \notin hung
  /\ \E v \in {count, None} :
       /\ Reading(v)
       /\ worker' = [worker EXCEPT ![r].at = "last", ![r].sample.drops = v]
  /\ UNCHANGED <<config, main, lists, hung, count, ghosts>>

LastProbe(r) ==
  /\ worker[r].at = "last" /\ r \notin hung
  /\ \E v \in {count, None} :
       /\ Reading(v)
       /\ worker' = [worker EXCEPT ![r].at = "append", ![r].sample.throttled = v,
                                   ![r].sample.late = r \in stopped]
  /\ UNCHANGED <<config, main, lists, hung, count, ghosts>>

SharedList(r) ==   \* mutant: the thread appends to the list of the current run
  /\ worker[r].at = "append"
  /\ lists' = [lists EXCEPT ![run] = Append(@, [worker[r].sample EXCEPT !.sequence = worker[r].taken])]
  /\ worker' = [worker EXCEPT ![r].at = "wait", ![r].taken = @ + 1, ![r].sample = NoSample]
  /\ UNCHANGED <<config, main, hung, host, ghosts>>

AppendSample(r) ==
  /\ worker[r].at = "append"
  /\ lists' = [lists EXCEPT ![r] = Append(@, [worker[r].sample EXCEPT !.sequence = worker[r].taken])]
  /\ worker' = [worker EXCEPT ![r].at = "wait", ![r].taken = @ + 1, ![r].sample = NoSample]
  /\ UNCHANGED <<config, main, hung, host, ghosts>>

SleepOn(r) ==   \* mutant: stop does not end the pause
  /\ worker[r].at = "wait" /\ worker[r].taken < MaxCaptures[r]
  /\ worker' = [worker EXCEPT ![r].at = "first"]
  /\ UNCHANGED <<config, main, lists, hung, host, ghosts>>

\* stop.wait(interval) returns because stop is set, or because the time is up;
\* the loop then looks at stop once more.
Wait(r) ==
  /\ worker[r].at = "wait"
  /\ \/ r \in stopped /\ worker' = [worker EXCEPT ![r].at = "ended"]
     \/ /\ r \notin stopped /\ worker[r].taken < MaxCaptures[r]
        /\ worker' = [worker EXCEPT ![r].at = "first"]
  /\ UNCHANGED <<config, main, lists, hung, host, ghosts>>

\* The probe under way never returns.
Hang(r) ==
  /\ worker[r].at \in {"first", "last"} /\ r \notin hung
  /\ hung' = hung \cup {r}
  /\ UNCHANGED <<config, main, worker, lists, host, ghosts>>

Trouble ==
  /\ count < MaxCount /\ count' = count + 1 /\ telemetry /\ pc \notin {"done", "failed"}
  /\ UNCHANGED <<config, main, threads, failures, ghosts>>

-----------------------------------------------------------------------------
Main == \/ MeasureBaseline \/ StartRun \/ ScriptEnds \/ SetStop \/ Join \/ Collect
        \/ LoadSamples \/ RunFails \/ Evaluate

Thread(r) == CheckStop(r) \/ FirstProbe(r) \/ LastProbe(r) \/ AppendSample(r) \/ Wait(r)

Next == \/ Main
        \/ \E r \in Runs : Thread(r) \/ Hang(r)
        \/ Trouble

Spec == Init /\ [][Next]_vars

\* Threads get their turn, and the script ends at last. Of a thread whose probe
\* hangs nothing is asked.
FairSpec == Spec /\ WF_vars(Main) /\ \A r \in Runs : WF_vars(Thread(r))

-----------------------------------------------------------------------------
(* Properties.                                                             *)

Reads == 0..MaxCount \cup {None}
SampleType == [sequence : Nat, drops : Reads, throttled : Reads, late : BOOLEAN]

\* Types of the benchmark's state.
TypeOK ==
  /\ pc \in {"baseline", "start", "load", "stop", "join", "collect", "check", "measured", "done", "failed"}
  /\ run \in Runs /\ runCount \in Runs /\ stopped \subseteq Runs /\ hung \subseteq Runs
  /\ exit \in {"none", "ok", "error", "raised"}
  /\ DOMAIN files \subseteq Workloads /\ \A w \in DOMAIN files : files[w] \in Nat \cup {None}
  /\ DOMAIN baseline = Workloads /\ DOMAIN samples = Workloads
  /\ \A w \in Workloads : baseline[w] \in Nat /\ samples[w] \in Seq(Nat) /\ Len(samples[w]) <= runCount
  /\ decision \in {"none", "accept", "reject", "promising", "inconclusive"}
  /\ \A r \in Runs : /\ worker[r].at \in {"none", "check", "first", "last", "append", "wait", "ended"}
                     /\ worker[r].sample \in SampleType /\ worker[r].taken \in 0..MaxCaptures[r]
                     /\ lists[r] \in Seq(SampleType) /\ Len(lists[r]) = worker[r].taken
  /\ chunks \in Seq(SampleType)
  /\ count \in 0..MaxCount /\ failures \in 0..MaxProbeFailures

\* Of a run's samples only the last can have been taken after stop was set, which
\* is when its script had ended: the thread never begins another one from then on.
AtMostOneLateSample ==
  \A r \in Runs : \A i \in DOMAIN lists[r] : lists[r][i].late => i = Len(lists[r])

NeverFalls(taken, field) ==
  \A i, j \in DOMAIN taken :
    i <= j /\ taken[i][field] # None /\ taken[j][field] # None
      => taken[i][field] <= taken[j][field]

\* The samples of a result are in the order they were taken in: sequence
\* numbers without gaps over all runs, counters that never fall. A thread left
\* over from an earlier run does not get between them.
CollectedInOrder ==
  /\ \A i \in DOMAIN chunks : chunks[i].sequence = i - 1
  /\ NeverFalls(chunks, "drops") /\ NeverFalls(chunks, "throttled")

\* A decision is taken on one sample of every workload by every run, what the
\* script of that run measured, and never after a run that failed or left a
\* result file out. A result file without its figure does count: as zero.
DecidedOnAllRuns ==
  pc \in {"measured", "done"} =>
    \A w \in Workloads :
      /\ Len(samples[w]) = runCount
      /\ \A r \in 1..runCount : w \in DOMAIN measured[r] /\ samples[w][r] = Figure(measured[r][w])

\* What is accepted was faster, noise apart: of some workload with a baseline at
\* least half of the runs were measured to beat it by more than the threshold,
\* whatever order they came in and whatever the other workloads did. A figure
\* missing from a result, or from the baseline, never makes an accept.
Beats(w, v) == 100 * v > (100 + Variance) * baseline[w]
Faster(w) == {r \in 1..runCount : measured[r][w] # None /\ Beats(w, measured[r][w])}
AcceptedIsFaster ==
  decision = "accept" =>
    \E w \in Workloads : baseline[w] > 0 /\ 2 * Cardinality(Faster(w)) >= runCount

\* format_runtime_telemetry_digest: the difference of the first and the last
\* sample, where the two readings are there.
Digest(field, atFirst) ==
  LET first == chunks[1][field]  last == chunks[Len(chunks)][field]
      from == IF first = None THEN atFirst ELSE first
  IN IF chunks = <<>> \/ last = None \/ from = None THEN 0
     ELSE IF last < from THEN 0 ELSE last - from

ZeroWhenMissing == Digest("drops", 0)   \* mutant
DropsReported == Digest("drops", None)
\* A first cpu.stat that could not be read counts as zero.
ThrottlingReported == Digest("throttled", 0)

\* The packet drops the digest tells the hypothesis generator of happened
\* during the benchmark.
DropsAreOfTheBenchmark == pc = "done" => DropsReported <= count - began

\* So did the throttling.
ThrottlingIsOfTheBenchmark == pc = "done" => ThrottlingReported <= count - began

\* A mean regression of 20 percent or more is never called inconclusive.
SevereRegressionIsRejected ==
  pc = "done" /\ ~missing /\ TotalChange(baseline, samples) <= Threshold(baseline, -200)
    => decision # "inconclusive"

\* A probe that never returns does not keep the benchmark from ending.
BenchmarkEnds == <>(pc \in {"done", "failed"})

\* A sampling thread ends after its run, unless its probe hangs.
ThreadsEnd == \A r \in Runs : r \in stopped ~> worker[r].at \in {"none", "ended"} \/ r \in hung
=============================================================================
