--------------------------- MODULE Benchmark_proofs ---------------------------
(***************************************************************************)
(* What holds of a benchmark for any workloads, rates, number of runs and  *)
(* samples: types, at most one late sample in a run, samples in order,     *)
(* decisions on complete measurements only, nothing accepted that was not  *)
(* faster, and drops that are the benchmark's.                             *)
(*                                                                         *)
(* The argument: the sampling threads share nothing with the main thread   *)
(* but the stop events and their lists. A thread looks at its event before *)
(* every sample, so that what it takes after the event ends its list       *)
(* (Threads). The main thread counts one measurement of each workload per  *)
(* run before it goes on to the next (Progress). Nothing is read from the  *)
(* counter before the baseline, and the counter never falls (Readings), so *)
(* that a probe reads at least what any probe read before it (Known). A    *)
(* thread appends to its own list only (ListsOrdered), and the thread of a *)
(* run was started after everything collected so far had been read         *)
(* (ChunksOrdered).                                                        *)
(***************************************************************************)
EXTENDS Benchmark, Evaluator_proofs

\* One thread: it is started with its run, what it has taken fits the bound, and
\* a sample taken after stop was set is the last it takes.
Threads ==
  \A r \in Runs :
    /\ r > run \/ (r = run /\ pc \in {"baseline", "start"}) => worker[r].at = "none"
    /\ worker[r].at \in {"none", "check", "first", "last", "append"} =>
         /\ worker[r].taken < MaxCaptures[r]
         /\ \A i \in DOMAIN lists[r] : ~lists[r][i].late
    /\ worker[r].sample.late => r \in stopped
    /\ \A i \in DOMAIN lists[r] : lists[r][i].late => i = Len(lists[r]) /\ r \in stopped

\* The main thread: how many measurements there are, and that the samples are
\* those of the script.
Measurements == UNION {[W -> Nat \cup {None}] : W \in SUBSET Workloads}
Ended == pc \in {"measured", "done"}

Progress ==
  /\ telemetry \in BOOLEAN /\ runCount \in RunCounts[telemetry] /\ run <= runCount
  /\ Ended => run = runCount
  /\ files \in Measurements /\ measured \in Seq(Measurements)
  /\ Len(measured) = IF pc \in {"baseline", "start", "load"} THEN run - 1 ELSE run
  /\ pc \in {"stop", "join", "collect", "check"} => measured[run] = files
  /\ \A w \in Workloads :
       /\ Len(samples[w]) = IF Ended THEN run ELSE run - 1
       /\ \A i \in 1..Len(samples[w]) :
            w \in DOMAIN measured[i] /\ samples[w][i] = Figure(measured[i][w])

\* The counter: every reading was taken since the baseline.
Fresh == (began..count) \cup {None}

Readings ==
  /\ began \in Nat /\ began <= count
  /\ pc = "baseline" => /\ chunks = <<>>
                        /\ \A r \in Runs : /\ worker[r].at = "none" /\ lists[r] = <<>>
                                           /\ worker[r].sample.drops = None
  /\ \A r \in Runs : /\ worker[r].sample.drops \in Fresh
                     /\ \A i \in DOMAIN lists[r] : lists[r][i].drops \in Fresh
  /\ \A i \in DOMAIN chunks : chunks[i].drops \in Fresh

\* The threads' part of TypeOK, with what it leaves open of functions, and the
\* main thread's.
ThreadTypes ==
  /\ worker \in [Runs -> [at : {"none", "check", "first", "last", "append", "wait", "ended"},
                          taken : Nat, sample : SampleType]]
  /\ lists \in [Runs -> Seq(SampleType)]
  /\ \A r \in Runs : worker[r].taken <= MaxCaptures[r] /\ Len(lists[r]) = worker[r].taken
  /\ chunks \in Seq(SampleType)
  /\ count \in 0..MaxCount /\ failures \in 0..MaxProbeFailures
  /\ stopped \subseteq Runs /\ hung \subseteq Runs

MainTypes ==
  /\ pc \in {"baseline", "start", "load", "stop", "join", "collect", "check", "measured", "done", "failed"}
  /\ run \in Runs /\ runCount \in Runs
  /\ exit \in {"none", "ok", "error", "raised"}
  /\ baseline \in [Workloads -> Nat]
  /\ samples \in [Workloads -> Seq(Nat)]
  /\ decision \in {"none", "accept", "reject", "promising", "inconclusive"}

Inv == ThreadTypes /\ MainTypes /\ Threads /\ Progress /\ Readings

-----------------------------------------------------------------------------
\* Every number of runs that may be configured is a run number.
LEMMA RunsBound ==
  /\ Runs \subseteq Nat \ {0}
  /\ \A t \in BOOLEAN : \A n \in RunCounts[t] : n \in Runs /\ \A i \in 1..n : i \in Runs
<1> DEFINE S == RunCounts[TRUE] \cup RunCounts[FALSE]
<1>1. S \subseteq Nat \ {0}
  BY BenchmarkAssumption
<1>2. PICK m \in S : \A n \in S : n <= m
  BY BenchmarkAssumption
<1>3. \A n \in S : m >= n
  BY <1>1, <1>2
<1>4. Max(S) \in S /\ \A n \in S : Max(S) >= n
  BY <1>3, Zenon DEF Max
<1>5. Runs = 1..Max(S) /\ Max(S) \in Nat
  BY <1>1, <1>4 DEF Runs
<1>6. \A t \in BOOLEAN : \A n \in RunCounts[t] : n \in S
  OBVIOUS
<1>7. ASSUME NEW t \in BOOLEAN, NEW n \in RunCounts[t]
      PROVE  n \in Runs /\ \A i \in 1..n : i \in Runs
  <2>1. n \in Nat \ {0} /\ n <= Max(S)
    BY <1>1, <1>4, <1>6
  <2> HIDE DEF S
  <2> QED BY <2>1, <1>5
<1> HIDE DEF S
<1> QED BY <1>5, <1>7

\* The definitions the proof works with say what TypeOK says.
LEMMA InvTypes == Inv => TypeOK
<1> SUFFICES ASSUME Inv PROVE TypeOK
  OBVIOUS
<1>1. DOMAIN files \subseteq Workloads /\ \A w \in DOMAIN files : files[w] \in Nat \cup {None}
  BY DEF Inv, Progress, Measurements
<1>2. runCount \in Nat /\ \A w \in Workloads : Len(samples[w]) <= runCount
  BY RunsBound DEF Inv, Progress, MainTypes
<1>3. \A r \in Runs : worker[r].taken \in 0..MaxCaptures[r]
  BY BenchmarkAssumption DEF Inv, ThreadTypes
<1> QED BY <1>1, <1>2, <1>3 DEF Inv, TypeOK, ThreadTypes, MainTypes

\* No result file at all is a measurement too.
LEMMA EmptyMeasured == <<>> \in Measurements
<1>1. <<>> \in [{} -> Nat \cup {None}]
  OBVIOUS
<1> QED BY <1>1 DEF Measurements

\* A result with its figure or without it makes a number.
LEMMA FigureType == \A v \in Nat \cup {None} : Figure(v) \in Nat
BY DEF Figure

LEMMA InitInv == Init => Inv
<1> SUFFICES ASSUME Init PROVE Inv
  OBVIOUS
<1> USE DEF Init
<1>1. 1 \in Runs /\ runCount \in Runs /\ 1 <= runCount
  BY RunsBound, BenchmarkAssumption
<1>2. NoSample \in SampleType /\ ~NoSample.late /\ NoSample.drops = None
  BY DEF NoSample, SampleType, Reads
<1>3. ThreadTypes
  BY <1>2, BenchmarkAssumption DEF ThreadTypes
<1>4. MainTypes
  BY <1>1 DEF MainTypes
<1>5. Threads
  BY <1>2, BenchmarkAssumption DEF Threads
<1>6. Progress
  BY <1>1, EmptyMeasured DEF Progress, Ended
<1>7. Readings
  BY <1>2, BenchmarkAssumption DEF Readings, Fresh
<1> QED BY <1>3, <1>4, <1>5, <1>6, <1>7 DEF Inv

-----------------------------------------------------------------------------
\* A step of a sampling thread, or of the target, leaves the main thread alone.
LEMMA MainAlone ==
  ASSUME Inv, UNCHANGED <<config, main, measured>>
  PROVE  MainTypes' /\ Progress'
BY DEF Inv, MainTypes, Progress, Ended, Measurements, config, main, context

\* A step of the main thread that neither starts nor stops a thread.
LEMMA ThreadsAlone ==
  ASSUME Inv, UNCHANGED <<threads, host, stopped, chunks, began, run>>,
         pc \notin {"baseline", "start"}, pc' \notin {"baseline", "start"}
  PROVE  ThreadTypes' /\ Threads' /\ Readings'
BY DEF Inv, ThreadTypes, Threads, Readings, Fresh, threads, host

LEMMA MeasureBaselineInv == Inv /\ MeasureBaseline => Inv'
<1> SUFFICES ASSUME Inv, MeasureBaseline PROVE Inv'
  OBVIOUS
<1> USE DEF MeasureBaseline, config, context, threads, host
<1>1. ThreadTypes'
  BY DEF Inv, ThreadTypes
<1>2. MainTypes'
  <2>1. {Figure(v) : v \in Baselines[telemetry] \cup {None}} \subseteq Nat
    BY BenchmarkAssumption, FigureType DEF Inv, Progress
  <2>2. baseline' \in [Workloads -> Nat]
    BY <2>1
  <2> QED BY <2>2 DEF Inv, MainTypes
<1>3. Threads'
  BY DEF Inv, Threads
<1>4. Progress'
  BY DEF Inv, Progress, Ended, Measurements
<1>5. Readings'
  BY DEF Inv, Readings, Fresh, ThreadTypes
<1> QED BY <1>1, <1>2, <1>3, <1>4, <1>5 DEF Inv

LEMMA StartRunInv == Inv /\ StartRun => Inv'
<1> SUFFICES ASSUME Inv, StartRun PROVE Inv'
  OBVIOUS
<1> USE DEF StartRun, config, context, host, ghosts
<1>1. run \in Runs /\ worker[run].at = "none"
  BY DEF Inv, MainTypes, Threads
<1>2. ThreadTypes'
  BY <1>1 DEF Inv, ThreadTypes
<1>3. MainTypes'
  BY DEF Inv, MainTypes
<1>4. \A r \in Runs : /\ worker'[r].taken = worker[r].taken /\ worker'[r].sample = worker[r].sample
                       /\ (worker'[r].at = worker[r].at \/ (r = run /\ worker[r].at = "none"))
  <2>1. CASE telemetry
    BY <1>1, <2>1 DEF Inv, ThreadTypes
  <2>2. CASE ~telemetry
    BY <2>2
  <2> QED BY <2>1, <2>2
<1>5. Threads'
  BY <1>1, <1>4, RunsBound DEF Inv, Threads
<1>6. Progress'
  BY DEF Inv, Progress, Ended, Measurements
<1>7. Readings'
  BY <1>4 DEF Inv, Readings, Fresh
<1> QED BY <1>2, <1>3, <1>5, <1>6, <1>7 DEF Inv

LEMMA ScriptEndsInv == Inv /\ ScriptEnds => Inv'
<1> SUFFICES ASSUME Inv, ScriptEnds PROVE Inv'
  OBVIOUS
<1> USE DEF ScriptEnds, config, context
<1>1. pc' \in {"stop", "failed", "check"} /\ exit' \in {"ok", "error", "raised"}
  BY DEF Inv, Progress
<1>2. ThreadTypes' /\ Threads' /\ Readings'
  BY <1>1, ThreadsAlone
<1>3. MainTypes'
  BY <1>1 DEF Inv, MainTypes
<1>4. files' \in Measurements
  <2> DEFINE R == Rates[telemetry] \cup {None}
  <2>1. R \subseteq Nat \cup {None}
    BY BenchmarkAssumption DEF Inv, Progress
  <2>2. ASSUME NEW W \in SUBSET Workloads, files' \in [W -> R] PROVE files' \in Measurements
    <3>1. files' \in [W -> Nat \cup {None}]
      BY <2>1, <2>2
    <3> QED BY <3>1 DEF Measurements
  <2>3. CASE files' = <<>>
    BY <2>3, EmptyMeasured
  <2>4. CASE files' # <<>>
    <3>1. PICK W \in SUBSET Workloads : files' \in [W -> R]
      BY <2>4
    <3> QED BY <2>2, <3>1
  <2> QED BY <2>3, <2>4
<1>5. /\ measured \in Seq(Measurements) /\ Len(measured) = run - 1 /\ run \in Nat
      /\ measured' = Append(measured, files')
  BY RunsBound DEF Inv, MainTypes, Progress
<1>6. /\ measured' \in Seq(Measurements) /\ Len(measured') = run /\ measured'[run] = files'
      /\ \A i \in 1..(run - 1) : measured'[i] = measured[i]
  BY <1>4, <1>5
<1>7. Progress'
  BY <1>1, <1>4, <1>6 DEF Inv, Progress, Ended, MainTypes
<1> QED BY <1>2, <1>3, <1>7 DEF Inv

LEMMA SetStopInv == Inv /\ SetStop => Inv'
<1> SUFFICES ASSUME Inv, SetStop PROVE Inv'
  OBVIOUS
<1> USE DEF SetStop, config, context, threads, host, ghosts
<1>1. ThreadTypes'
  BY DEF Inv, ThreadTypes, MainTypes
<1>2. MainTypes'
  BY DEF Inv, MainTypes
<1>3. Threads'
  BY DEF Inv, Threads
<1>4. Progress'
  BY DEF Inv, Progress, Ended, Measurements
<1>5. Readings'
  BY DEF Inv, Readings, Fresh
<1> QED BY <1>1, <1>2, <1>3, <1>4, <1>5 DEF Inv

\* Waiting for the thread, a result that is not complete, and the decision leave
\* threads and samples alone.
LEMMA JoinInv == Inv /\ Join => Inv'
<1> SUFFICES ASSUME Inv, Join PROVE Inv'
  OBVIOUS
<1> USE DEF Join, config, context, ghosts
<1>1. ThreadTypes' /\ Threads' /\ Readings'
  BY ThreadsAlone
<1>2. MainTypes'
  BY DEF Inv, MainTypes
<1>3. Progress'
  BY DEF Inv, Progress, Ended, Measurements
<1> QED BY <1>1, <1>2, <1>3 DEF Inv

LEMMA RunFailsInv == Inv /\ RunFails => Inv'
<1> SUFFICES ASSUME Inv, RunFails PROVE Inv'
  OBVIOUS
<1> USE DEF RunFails, config, context, ghosts
<1>1. ThreadTypes' /\ Threads' /\ Readings'
  BY ThreadsAlone
<1>2. MainTypes'
  BY DEF Inv, MainTypes
<1>3. Progress'
  BY DEF Inv, Progress, Ended, Measurements
<1> QED BY <1>1, <1>2, <1>3 DEF Inv

LEMMA EvaluateInv == Inv /\ Evaluate => Inv'
<1> SUFFICES ASSUME Inv, Evaluate PROVE Inv'
  OBVIOUS
<1> USE DEF Evaluate, config, ghosts
<1>1. ThreadTypes' /\ Threads' /\ Readings'
  BY ThreadsAlone
<1>2. decision' \in {"accept", "reject", "promising", "inconclusive"}
  BY DEF Decide
<1>3. MainTypes'
  BY <1>2 DEF Inv, MainTypes
<1>4. Progress'
  BY DEF Inv, Progress, Ended, Measurements
<1> QED BY <1>1, <1>3, <1>4 DEF Inv

LEMMA CollectInv == Inv /\ Collect => Inv'
<1> SUFFICES ASSUME Inv, Collect PROVE Inv'
  OBVIOUS
<1> USE DEF Collect, config, context, threads, host, ghosts
<1>1. run \in Runs /\ lists[run] \in Seq(SampleType) /\ chunks \in Seq(SampleType)
  BY DEF Inv, ThreadTypes, MainTypes
<1>2. \A s \in SampleType, n \in Nat : /\ [s EXCEPT !.sequence = n] \in SampleType
                                       /\ [s EXCEPT !.sequence = n].drops = s.drops
  BY DEF SampleType
<1>3. \A i \in DOMAIN lists[run] : /\ i \in 1..Len(lists[run]) /\ lists[run][i] \in SampleType
                                   /\ Len(chunks) + i - 1 \in Nat
  BY <1>1
<1>4. /\ Renumbered(lists[run]) \in Seq(SampleType)
      /\ \A i \in 1..Len(Renumbered(lists[run])) :
           i \in DOMAIN lists[run] /\ Renumbered(lists[run])[i].drops = lists[run][i].drops
  <2> DEFINE n == Len(lists[run])  R == Renumbered(lists[run])
  <2>1. DOMAIN lists[run] = 1..n /\ n \in Nat
    BY <1>1
  <2>2. DOMAIN R = 1..n /\ \A i \in 1..n : R[i] = [lists[run][i] EXCEPT !.sequence = Len(chunks) + i - 1]
    BY <2>1, Zenon DEF Renumbered
  <2>3. R = [i \in 1..n |-> R[i]]
    BY <2>1, Zenon DEF Renumbered
  <2> HIDE DEF R
  <2>4. ASSUME NEW i \in 1..n
        PROVE  R[i] \in SampleType /\ R[i].drops = lists[run][i].drops
    <3>1. lists[run][i] \in SampleType /\ Len(chunks) + i - 1 \in Nat
      BY <1>3, <2>1
    <3> DEFINE s == lists[run][i]  k == Len(chunks) + i - 1
    <3>2. R[i] = [s EXCEPT !.sequence = k]
      BY <2>2, Zenon
    <3>3. s \in SampleType /\ k \in Nat
      BY <3>1
    <3> HIDE DEF s, k
    <3>4. [s EXCEPT !.sequence = k] \in SampleType /\ [s EXCEPT !.sequence = k].drops = s.drops
      BY <1>2, <3>3, Zenon
    <3>5. R[i] \in SampleType /\ R[i].drops = s.drops
      BY <3>2, <3>4, Zenon
    <3> QED BY <3>5, Zenon DEF s
  <2> HIDE DEF n
  <2>5. R \in Seq(SampleType) /\ Len(R) = n
    BY <2>1, <2>3, <2>4
  <2> QED BY <2>1, <2>4, <2>5 DEF R
<1>5. \A i \in 1..Len(Renumbered(lists[run])) : Renumbered(lists[run])[i].drops \in Fresh
  BY <1>1, <1>4 DEF Inv, Readings
<1> HIDE DEF Renumbered
<1>6. chunks' \in Seq(SampleType) /\ \A i \in DOMAIN chunks' : chunks'[i].drops \in Fresh
  BY <1>1, <1>4, <1>5 DEF Inv, Readings
<1>7. ThreadTypes'
  BY <1>6 DEF Inv, ThreadTypes
<1>8. MainTypes'
  BY DEF Inv, MainTypes
<1>9. Threads'
  BY DEF Inv, Threads
<1>10. Progress'
  BY DEF Inv, Progress, Ended, Measurements
<1>11. Readings'
  BY <1>6 DEF Inv, Readings, Fresh
<1> QED BY <1>7, <1>8, <1>9, <1>10, <1>11 DEF Inv

LEMMA LoadSamplesInv == Inv /\ LoadSamples => Inv'
<1> SUFFICES ASSUME Inv, LoadSamples PROVE Inv'
  OBVIOUS
<1> USE DEF LoadSamples, config, context, threads, host, ghosts
<1>1. run \in Nat \ {0} /\ runCount \in Nat \ {0} /\ run <= runCount /\ \A i \in 1..runCount : i \in Runs
  BY RunsBound DEF Inv, MainTypes, Progress
<1>2. \/ /\ run < runCount /\ pc' = "start" /\ run' = run + 1
      \/ /\ run = runCount /\ pc' = "measured" /\ run' = run
  BY <1>1
<1>3. run' \in Runs /\ run' <= runCount /\ run' >= run
  BY <1>1, <1>2
<1>4. \A w \in Workloads : w \in DOMAIN files /\ Figure(files[w]) \in Nat
  <2>1. files \in [Workloads -> Nat \cup {None}]
    BY DEF Complete, Inv, Progress, Measurements
  <2>2. \A w \in Workloads : w \in DOMAIN files /\ files[w] \in Nat \cup {None}
    BY <2>1
  <2> QED BY <2>2, FigureType, Zenon
<1>5. /\ samples' \in [Workloads -> Seq(Nat)]
      /\ \A w \in Workloads : /\ samples[w] \in Seq(Nat) /\ Len(samples[w]) = run - 1
                              /\ samples'[w] = Append(samples[w], Figure(files[w]))
  BY <1>4 DEF Inv, MainTypes, Progress, Ended
<1>6. ThreadTypes'
  BY DEF Inv, ThreadTypes
<1>7. MainTypes'
  BY <1>2, <1>3, <1>5 DEF Inv, MainTypes
<1>8. Threads'
  BY <1>1, <1>2, RunsBound DEF Inv, Threads
<1>9. Progress'
  <2>1. measured[run] = files /\ Len(measured) = run
    BY DEF Inv, Progress
  <2>2. ASSUME NEW w \in Workloads
        PROVE  /\ Len(samples'[w]) = run
               /\ \A i \in 1..Len(samples'[w]) :
                    w \in DOMAIN measured[i] /\ samples'[w][i] = Figure(measured[i][w])
    <3>1. \A i \in 1..(run - 1) : w \in DOMAIN measured[i] /\ samples[w][i] = Figure(measured[i][w])
      BY <1>5 DEF Inv, Progress
    <3>2. Len(samples'[w]) = run /\ samples'[w][run] = Figure(files[w])
          /\ \A i \in 1..(run - 1) : samples'[w][i] = samples[w][i]
      BY <1>1, <1>4, <1>5
    <3> QED BY <1>1, <1>4, <2>1, <3>1, <3>2
  <2>3. /\ Len(measured') = IF pc' \in {"baseline", "start", "load"} THEN run' - 1 ELSE run'
        /\ Ended' => run' = runCount'
        /\ \A w \in Workloads : Len(samples'[w]) = IF Ended' THEN run' ELSE run' - 1
    BY <1>1, <1>2, <2>1, <2>2 DEF Ended
  <2> QED BY <1>2, <1>3, <2>2, <2>3 DEF Inv, Progress, Measurements
<1>10. Readings'
  BY <1>2 DEF Inv, Readings, Fresh
<1> QED BY <1>6, <1>7, <1>8, <1>9, <1>10 DEF Inv

-----------------------------------------------------------------------------
\* A step of one sampling thread that leaves its list alone: what has to be
\* looked at is the record of that thread.
LEMMA ThreadSteps ==
  ASSUME Inv, NEW r \in Runs,
         UNCHANGED <<run, pc, stopped, chunks, lists, count, began>>,
         worker' = [worker EXCEPT ![r] = worker'[r]],
         worker'[r] \in [at : {"none", "check", "first", "last", "append", "wait", "ended"},
                         taken : Nat, sample : SampleType],
         failures' \in 0..MaxProbeFailures, hung' \subseteq Runs,
         worker[r].at # "none", worker'[r].at # "none",
         worker'[r].taken = worker[r].taken,
         worker'[r].at \in {"check", "first", "last", "append"} =>
           \/ worker[r].at \in {"check", "first", "last", "append"}
           \/ r \notin stopped /\ worker[r].taken < MaxCaptures[r],
         worker'[r].sample.late => r \in stopped,
         worker'[r].sample.drops \in Fresh
  PROVE  ThreadTypes' /\ Threads' /\ Readings'
<1>1. \A s \in Runs : s # r => worker'[s] = worker[s]
  BY DEF Inv, ThreadTypes
<1>2. ThreadTypes'
  BY DEF Inv, ThreadTypes
<1>3. ASSUME NEW s \in Runs
      PROVE  /\ (s > run \/ (s = run /\ pc \in {"baseline", "start"})) => worker'[s].at = "none"
             /\ worker'[s].at \in {"none", "check", "first", "last", "append"} =>
                  /\ worker'[s].taken < MaxCaptures[s]
                  /\ \A i \in DOMAIN lists[s] : ~lists[s][i].late
             /\ worker'[s].sample.late => s \in stopped
  <2>1. CASE s # r
    BY <1>1, <2>1 DEF Inv, Threads
  <2>2. CASE s = r
    BY <2>2 DEF Inv, Threads
  <2> QED BY <2>1, <2>2
<1>4. Threads'
  BY <1>3 DEF Inv, Threads
<1>5. Readings'
  BY <1>1 DEF Inv, Readings, Fresh
<1> QED BY <1>2, <1>4, <1>5

LEMMA CheckStopInv == ASSUME NEW r \in Runs PROVE Inv /\ CheckStop(r) => Inv'
<1> SUFFICES ASSUME Inv, CheckStop(r) PROVE Inv'
  OBVIOUS
<1> USE DEF CheckStop, GoesOn
<1>1. MainTypes' /\ Progress'
  BY MainAlone DEF ghosts
<1> USE DEF main, context, config, host, ghosts
<1>2. worker[r] \in [at : {"none", "check", "first", "last", "append", "wait", "ended"},
                     taken : Nat, sample : SampleType]
  BY DEF Inv, ThreadTypes
<1>3. /\ worker' = [worker EXCEPT ![r] = worker'[r]]
      /\ worker'[r] \in [at : {"none", "check", "first", "last", "append", "wait", "ended"},
                         taken : Nat, sample : SampleType]
      /\ worker'[r].at \in {"ended", "first"}
      /\ worker'[r].taken = worker[r].taken /\ worker'[r].sample = worker[r].sample
  BY <1>2 DEF Inv, ThreadTypes
<1>4. worker[r].sample.drops \in Fresh /\ (worker[r].sample.late => r \in stopped)
  BY DEF Inv, Readings, Threads
<1>5. failures' \in 0..MaxProbeFailures /\ hung' \subseteq Runs
  BY DEF Inv, ThreadTypes
<1>6. ThreadTypes' /\ Threads' /\ Readings'
  BY <1>3, <1>4, <1>5, ThreadSteps
<1> QED BY <1>1, <1>6 DEF Inv

LEMMA FirstProbeInv == ASSUME NEW r \in Runs PROVE Inv /\ FirstProbe(r) => Inv'
<1> SUFFICES ASSUME Inv, FirstProbe(r) PROVE Inv'
  OBVIOUS
<1>1. PICK v \in {count, None} :
        Reading(v) /\ worker' = [worker EXCEPT ![r].at = "last", ![r].sample.drops = v]
  BY DEF FirstProbe
<1> USE DEF FirstProbe
<1>2. MainTypes' /\ Progress'
  BY MainAlone DEF ghosts
<1> USE DEF main, context, config, ghosts
<1>3. worker[r] \in [at : {"none", "check", "first", "last", "append", "wait", "ended"},
                     taken : Nat, sample : SampleType]
  BY DEF Inv, ThreadTypes
<1>4. v \in Fresh /\ v \in Reads
  BY <1>1 DEF Inv, ThreadTypes, Readings, Fresh, Reads
<1>5. /\ worker' = [worker EXCEPT ![r] = worker'[r]]
      /\ worker'[r] \in [at : {"none", "check", "first", "last", "append", "wait", "ended"},
                         taken : Nat, sample : SampleType]
      /\ worker'[r].at = "last" /\ worker'[r].taken = worker[r].taken
      /\ worker'[r].sample.drops = v /\ worker'[r].sample.late = worker[r].sample.late
  BY <1>1, <1>3, <1>4 DEF Inv, ThreadTypes, SampleType
<1>6. worker[r].sample.late => r \in stopped
  BY DEF Inv, Threads
<1>7. failures' \in 0..MaxProbeFailures /\ hung' \subseteq Runs
  BY <1>1, BenchmarkAssumption DEF Inv, ThreadTypes, Reading
<1>8. ThreadTypes' /\ Threads' /\ Readings'
  BY <1>4, <1>5, <1>6, <1>7, ThreadSteps
<1> QED BY <1>2, <1>8 DEF Inv

LEMMA LastProbeInv == ASSUME NEW r \in Runs PROVE Inv /\ LastProbe(r) => Inv'
<1> SUFFICES ASSUME Inv, LastProbe(r) PROVE Inv'
  OBVIOUS
<1>1. PICK v \in {count, None} :
        /\ Reading(v)
        /\ worker' = [worker EXCEPT ![r].at = "append", ![r].sample.throttled = v,
                                    ![r].sample.late = r \in stopped]
  BY DEF LastProbe
<1> USE DEF LastProbe
<1>2. MainTypes' /\ Progress'
  BY MainAlone DEF ghosts
<1> USE DEF main, context, config, ghosts
<1>3. worker[r] \in [at : {"none", "check", "first", "last", "append", "wait", "ended"},
                     taken : Nat, sample : SampleType]
  BY DEF Inv, ThreadTypes
<1>4. v \in Reads
  BY <1>1 DEF Inv, ThreadTypes, Reads
<1>5. /\ worker' = [worker EXCEPT ![r] = worker'[r]]
      /\ worker'[r] \in [at : {"none", "check", "first", "last", "append", "wait", "ended"},
                         taken : Nat, sample : SampleType]
      /\ worker'[r].at = "append" /\ worker'[r].taken = worker[r].taken
      /\ worker'[r].sample.drops = worker[r].sample.drops
      /\ worker'[r].sample.late => r \in stopped
  <2> DEFINE b == r \in stopped
             smp == [worker[r].sample EXCEPT !.throttled = v, !.late = b]
  <2>1. b \in BOOLEAN /\ (b => r \in stopped)
    OBVIOUS
  <2>2. worker' = [worker EXCEPT ![r].at = "append", ![r].sample.throttled = v, ![r].sample.late = b]
    BY <1>1
  <2> HIDE DEF b
  <2>3. smp \in SampleType /\ smp.drops = worker[r].sample.drops /\ smp.late = b
    BY <1>3, <1>4, <2>1 DEF SampleType
  <2>4. worker'[r] = [at |-> "append", taken |-> worker[r].taken, sample |-> smp]
    BY <1>3, <2>2 DEF Inv, ThreadTypes, SampleType
  <2>5. worker' = [worker EXCEPT ![r] = worker'[r]]
    BY <1>3, <2>2 DEF Inv, ThreadTypes, SampleType
  <2> HIDE DEF smp, LastProbe
  <2>6. smp.late => r \in stopped
    BY <2>1, <2>3, Zenon
  <2>7. /\ worker'[r].at = "append" /\ worker'[r].taken = worker[r].taken
        /\ worker'[r].sample = smp
    BY <2>4
  <2>8. worker'[r] \in [at : {"none", "check", "first", "last", "append", "wait", "ended"},
                        taken : Nat, sample : SampleType]
    BY <1>3, <2>3, <2>4
  <2>9. worker'[r].sample.late => r \in stopped
    BY <2>6, <2>7, Zenon
  <2> QED BY <2>3, <2>5, <2>7, <2>8, <2>9
<1>6. worker[r].sample.drops \in Fresh
  BY DEF Inv, Readings
<1>7. failures' \in 0..MaxProbeFailures /\ hung' \subseteq Runs
  BY <1>1, BenchmarkAssumption DEF Inv, ThreadTypes, Reading
<1>8. ThreadTypes' /\ Threads' /\ Readings'
  BY <1>5, <1>6, <1>7, ThreadSteps
<1> QED BY <1>2, <1>8 DEF Inv

LEMMA WaitInv == ASSUME NEW r \in Runs PROVE Inv /\ Wait(r) => Inv'
<1> SUFFICES ASSUME Inv, Wait(r) PROVE Inv'
  OBVIOUS
<1> USE DEF Wait
<1>1. MainTypes' /\ Progress'
  BY MainAlone DEF ghosts
<1> USE DEF main, context, config, host, ghosts
<1>2. worker[r] \in [at : {"none", "check", "first", "last", "append", "wait", "ended"},
                     taken : Nat, sample : SampleType]
  BY DEF Inv, ThreadTypes
<1>3. /\ worker' = [worker EXCEPT ![r] = worker'[r]]
      /\ worker'[r] \in [at : {"none", "check", "first", "last", "append", "wait", "ended"},
                         taken : Nat, sample : SampleType]
      /\ \/ worker'[r].at = "ended"
         \/ worker'[r].at = "first" /\ r \notin stopped /\ worker[r].taken < MaxCaptures[r]
      /\ worker'[r].taken = worker[r].taken /\ worker'[r].sample = worker[r].sample
  BY <1>2 DEF Inv, ThreadTypes
<1>4. worker[r].sample.drops \in Fresh /\ (worker[r].sample.late => r \in stopped)
  BY DEF Inv, Readings, Threads
<1>5. failures' \in 0..MaxProbeFailures /\ hung' \subseteq Runs
  BY DEF Inv, ThreadTypes
<1>6. ThreadTypes' /\ Threads' /\ Readings'
  BY <1>3, <1>4, <1>5, ThreadSteps
<1> QED BY <1>1, <1>6 DEF Inv

LEMMA HangInv == ASSUME NEW r \in Runs PROVE Inv /\ Hang(r) => Inv'
<1> SUFFICES ASSUME Inv, Hang(r) PROVE Inv'
  OBVIOUS
<1> USE DEF Hang
<1>1. MainTypes' /\ Progress'
  BY MainAlone DEF ghosts
<1>2. ThreadTypes' /\ Threads' /\ Readings'
  BY DEF main, context, host, ghosts, Inv, ThreadTypes, Threads, Readings, Fresh
<1> QED BY <1>1, <1>2 DEF Inv

LEMMA TroubleInv == Inv /\ Trouble => Inv'
<1> SUFFICES ASSUME Inv, Trouble PROVE Inv'
  OBVIOUS
<1> USE DEF Trouble
<1>1. MainTypes' /\ Progress'
  BY MainAlone DEF ghosts
<1> USE DEF main, context, threads, ghosts
<1>2. count \in 0..MaxCount /\ began \in Nat /\ began <= count /\ count' = count + 1
      /\ count' \in 0..MaxCount /\ Fresh \subseteq Fresh'
  BY BenchmarkAssumption DEF Inv, ThreadTypes, Readings, Fresh
<1>3. ThreadTypes' /\ Threads'
  BY <1>2 DEF Inv, ThreadTypes, Threads
<1>4. Readings'
  <2>1. \A r \in Runs : /\ worker[r].sample.drops \in Fresh'
                        /\ \A i \in DOMAIN lists[r] : lists[r][i].drops \in Fresh'
    BY <1>2 DEF Inv, Readings
  <2>2. \A i \in DOMAIN chunks : chunks[i].drops \in Fresh'
    BY <1>2 DEF Inv, Readings
  <2> QED BY <1>2, <2>1, <2>2 DEF Inv, Readings
<1> QED BY <1>1, <1>3, <1>4 DEF Inv

LEMMA AppendSampleInv == ASSUME NEW r \in Runs PROVE Inv /\ AppendSample(r) => Inv'
<1> SUFFICES ASSUME Inv, AppendSample(r) PROVE Inv'
  OBVIOUS
<1> USE DEF AppendSample
<1>1. MainTypes' /\ Progress'
  BY MainAlone DEF ghosts
<1> USE DEF main, context, config, host, ghosts
<1>2. /\ worker[r] \in [at : {"none", "check", "first", "last", "append", "wait", "ended"},
                        taken : Nat, sample : SampleType]
      /\ worker[r].at = "append" /\ worker[r].taken < MaxCaptures[r]
      /\ lists[r] \in Seq(SampleType) /\ Len(lists[r]) = worker[r].taken
      /\ MaxCaptures[r] \in Nat
  BY BenchmarkAssumption DEF Inv, ThreadTypes, Threads
<1> DEFINE smp == [worker[r].sample EXCEPT !.sequence = worker[r].taken]
<1>3. smp \in SampleType /\ smp.late = worker[r].sample.late /\ smp.drops = worker[r].sample.drops
  BY <1>2 DEF SampleType
<1>4. NoSample \in SampleType /\ ~NoSample.late /\ NoSample.drops \in Fresh
  BY DEF NoSample, SampleType, Reads, Fresh
<1>5. /\ \A s \in Runs : s # r => worker'[s] = worker[s] /\ lists'[s] = lists[s]
      /\ worker'[r] = [at |-> "wait", taken |-> worker[r].taken + 1, sample |-> NoSample]
      /\ lists'[r] = Append(lists[r], smp)
  BY <1>2 DEF Inv, ThreadTypes
<1>6. /\ lists' \in [Runs -> Seq(SampleType)]
      /\ worker' \in [Runs -> [at : {"none", "check", "first", "last", "append", "wait", "ended"},
                               taken : Nat, sample : SampleType]]
  <2>1. /\ lists' = [lists EXCEPT ![r] = lists'[r]] /\ lists'[r] \in Seq(SampleType)
        /\ lists \in [Runs -> Seq(SampleType)]
    BY <1>2, <1>3 DEF Inv, ThreadTypes
  <2>2. [at |-> "wait", taken |-> worker[r].taken + 1, sample |-> NoSample]
          \in [at : {"none", "check", "first", "last", "append", "wait", "ended"},
               taken : Nat, sample : SampleType]
    BY <1>2, <1>4
  <2>3. worker' = [worker EXCEPT ![r] = worker'[r]]
    BY <1>2 DEF Inv, ThreadTypes
  <2> HIDE DEF AppendSample
  <2>4. worker'[r] \in [at : {"none", "check", "first", "last", "append", "wait", "ended"},
                        taken : Nat, sample : SampleType]
    BY <1>5, <2>2, Zenon
  <2> QED BY <2>1, <2>3, <2>4 DEF Inv, ThreadTypes
<1> HIDE DEF smp, AppendSample
<1>7. /\ worker'[r].at = "wait" /\ worker'[r].taken = worker[r].taken + 1
      /\ worker'[r].sample = NoSample
  BY <1>5
<1>8. /\ Len(lists'[r]) = worker[r].taken + 1 /\ lists'[r][worker[r].taken + 1] = smp
      /\ \A i \in 1..worker[r].taken : i \in DOMAIN lists[r] /\ lists'[r][i] = lists[r][i]
      /\ DOMAIN lists'[r] = 1..(worker[r].taken + 1)
  BY <1>2, <1>3, <1>5
<1>9. UNCHANGED <<run, pc, stopped, chunks, count, began, failures, hung>>
  BY DEF AppendSample
<1>10. ThreadTypes'
  <2>1. ASSUME NEW s \in Runs
        PROVE  worker'[s].taken <= MaxCaptures[s] /\ Len(lists'[s]) = worker'[s].taken
    <3>1. CASE s = r
      BY <1>2, <1>7, <1>8, <3>1
    <3>2. CASE s # r
      BY <1>5, <3>2 DEF Inv, ThreadTypes
    <3> QED BY <3>1, <3>2
  <2> QED BY <1>6, <1>9, <2>1 DEF Inv, ThreadTypes
<1>11. Threads'
  <2>1. ~(r > run \/ (r = run /\ pc \in {"baseline", "start"}))
    BY <1>2 DEF Inv, Threads
  <2>2. \A i \in DOMAIN lists'[r] : lists'[r][i].late => i = Len(lists'[r]) /\ r \in stopped
    <3>1. \A i \in 1..worker[r].taken : ~lists'[r][i].late
      BY <1>2, <1>8 DEF Inv, Threads
    <3>2. smp.late => r \in stopped
      BY <1>3 DEF Inv, Threads
    <3> QED BY <1>2, <1>8, <3>1, <3>2
  <2>3. ASSUME NEW s \in Runs
        PROVE  /\ (s > run \/ (s = run /\ pc \in {"baseline", "start"})) => worker'[s].at = "none"
               /\ worker'[s].at \in {"none", "check", "first", "last", "append"} =>
                    /\ worker'[s].taken < MaxCaptures[s]
                    /\ \A i \in DOMAIN lists'[s] : ~lists'[s][i].late
               /\ worker'[s].sample.late => s \in stopped
               /\ \A i \in DOMAIN lists'[s] : lists'[s][i].late => i = Len(lists'[s]) /\ s \in stopped
    <3>1. CASE s = r
      BY <1>4, <1>7, <2>1, <2>2, <3>1
    <3>2. CASE s # r
      BY <1>5, <3>2 DEF Inv, Threads
    <3> QED BY <3>1, <3>2
  <2> QED BY <1>9, <2>3 DEF Threads
<1>12. Readings'
  <2>1. /\ worker[r].sample.drops \in Fresh
        /\ \A s \in Runs : \A i \in DOMAIN lists[s] : lists[s][i].drops \in Fresh
        /\ pc # "baseline"
    BY <1>2 DEF Inv, Readings
  <2>2. \A i \in DOMAIN lists'[r] : lists'[r][i].drops \in Fresh
    BY <1>2, <1>3, <1>8, <2>1, SMTT(60)
  <2>3. ASSUME NEW s \in Runs
        PROVE  worker'[s].sample.drops \in Fresh /\ \A i \in DOMAIN lists'[s] : lists'[s][i].drops \in Fresh
    <3>1. CASE s = r
      BY <1>4, <1>7, <2>2, <3>1
    <3>2. CASE s # r
      BY <1>5, <3>2 DEF Inv, Readings
    <3> QED BY <3>1, <3>2
  <2> QED BY <1>9, <2>1, <2>3 DEF Inv, Readings, Fresh
<1> QED BY <1>1, <1>10, <1>11, <1>12 DEF Inv

-----------------------------------------------------------------------------
LEMMA NextInv == Inv /\ [Next]_vars => Inv'
<1> SUFFICES ASSUME Inv, [Next]_vars PROVE Inv'
  OBVIOUS
<1>1. CASE UNCHANGED vars
  <2>1. UNCHANGED <<config, main, threads, host, ghosts>>
    BY <1>1 DEF vars
  <2>2. MainTypes' /\ Progress'
    BY <2>1, MainAlone DEF ghosts
  <2>3. ThreadTypes' /\ Threads' /\ Readings'
    BY <2>1 DEF Inv, ThreadTypes, Threads, Readings, Fresh, threads, host, main, ghosts
  <2> QED BY <2>2, <2>3 DEF Inv
<1>2. CASE Main
  BY <1>2, MeasureBaselineInv, StartRunInv, ScriptEndsInv, SetStopInv, JoinInv, CollectInv, LoadSamplesInv,
     RunFailsInv, EvaluateInv DEF Main
<1>3. CASE \E r \in Runs : Thread(r) \/ Hang(r)
  <2>1. PICK r \in Runs : Thread(r) \/ Hang(r)
    BY <1>3
  <2> QED BY <2>1, CheckStopInv, FirstProbeInv, LastProbeInv, AppendSampleInv, WaitInv, HangInv
          DEF Thread
<1>4. CASE Trouble
  BY <1>4, TroubleInv
<1> QED BY <1>1, <1>2, <1>3, <1>4 DEF Next

LEMMA InvAlways == Spec => []Inv
BY InitInv, NextInv, PTL DEF Spec

\* The state keeps its types, and no thread takes more samples than its bound.
THEOREM TypeCorrect == Spec => []TypeOK
BY InvTypes, InvAlways, PTL

\* Of the samples of a run only the last may have been taken after stop was set for
\* it, however late the thread notices.
THEOREM LateSamples == Spec => []AtMostOneLateSample
<1>1. Inv => AtMostOneLateSample
  BY DEF Inv, Threads, AtMostOneLateSample
<1> QED BY <1>1, InvAlways, PTL

\* Whatever run_count is and whichever runs leave a result file or a figure out, a
\* decision rests on one sample of every workload by every run: the figure the
\* script measured, or zero where its result file has none.
THEOREM CompleteDecisions == Spec => []DecidedOnAllRuns
<1>1. Inv => DecidedOnAllRuns
  BY RunsBound DEF Inv, Progress, Ended, MainTypes, DecidedOnAllRuns
<1> QED BY <1>1, InvAlways, PTL

\* The packet drops in the digest happened during the benchmark, whatever probes
\* failed and whichever threads are late.
THEOREM DropsAreItsOwn == Spec => []DropsAreOfTheBenchmark
<1>1. ASSUME Inv PROVE DropsReported <= count - began
  <2>1. /\ chunks \in Seq(SampleType) /\ None \notin Nat /\ began \in Nat /\ count \in Nat
        /\ began <= count /\ \A i \in DOMAIN chunks : chunks[i].drops \in (began..count) \cup {None}
    BY <1>1, BenchmarkAssumption DEF Inv, ThreadTypes, Readings, Fresh
  <2>2. CASE chunks = <<>> \/ chunks[1].drops = None \/ chunks[Len(chunks)].drops = None
    BY <2>1, <2>2 DEF DropsReported, Digest
  <2>3. CASE ~(chunks = <<>> \/ chunks[1].drops = None \/ chunks[Len(chunks)].drops = None)
    <3>1. 1 \in DOMAIN chunks /\ Len(chunks) \in DOMAIN chunks
      BY <2>1, <2>3
    <3>2. chunks[1].drops \in began..count /\ chunks[Len(chunks)].drops \in began..count
      BY <2>1, <2>3, <3>1
    <3> QED BY <2>1, <2>3, <3>2 DEF DropsReported, Digest
  <2> QED BY <2>2, <2>3
<1>2. Inv => DropsAreOfTheBenchmark
  BY <1>1 DEF DropsAreOfTheBenchmark
<1> QED BY <1>2, InvAlways, PTL

-----------------------------------------------------------------------------
(* The order of samples.                                                   *)

\* One reading, one sample, does not exceed another where both are there.
Below(x, y) == x # None /\ y # None => x <= y
Before(s, t) == Below(s.drops, t.drops) /\ Below(s.throttled, t.throttled)
UpTo(s, n) == Below(s.drops, n) /\ Below(s.throttled, n)

\* No reading exceeds the counter, and a sample not begun has none.
Known ==
  /\ \A r \in Runs :
       /\ UpTo(worker[r].sample, count)
       /\ \A i \in DOMAIN lists[r] : UpTo(lists[r][i], count)
       /\ worker[r].at \notin {"last", "append"} => worker[r].sample.drops = None
       /\ worker[r].at # "append" => worker[r].sample.throttled = None
       /\ worker[r].at = "none" => lists[r] = <<>>
  /\ \A i \in DOMAIN chunks : UpTo(chunks[i], count)

InOrder(list) == \A i, j \in DOMAIN list : i <= j => Before(list[i], list[j])

ListsOrdered ==
  \A r \in Runs : /\ InOrder(lists[r])
                  /\ \A i \in DOMAIN lists[r] : Before(lists[r][i], worker[r].sample)

ChunksOrdered ==
  /\ pc = "baseline" => chunks = <<>>
  /\ \A i \in DOMAIN chunks : chunks[i].sequence = i - 1
  /\ InOrder(chunks)
  /\ pc \in {"start", "load", "stop", "join", "collect"} =>
       \A i \in DOMAIN chunks :
         /\ Before(chunks[i], worker[run].sample)
         /\ \A j \in DOMAIN lists[run] : Before(chunks[i], lists[run][j])

OrderInv == Known /\ ListsOrdered /\ ChunksOrdered

-----------------------------------------------------------------------------
LEMMA InitOrder == Init => OrderInv
<1> SUFFICES ASSUME Init PROVE OrderInv
  OBVIOUS
<1>1. NoSample.drops = None /\ NoSample.throttled = None
  BY DEF NoSample
<1>2. Known
  BY <1>1 DEF Init, Known, UpTo, Below
<1>3. ListsOrdered
  BY DEF Init, ListsOrdered, InOrder
<1>4. ChunksOrdered
  BY DEF Init, ChunksOrdered, InOrder
<1> QED BY <1>2, <1>3, <1>4 DEF OrderInv

\* The main thread, when it neither starts a thread nor collects.
LEMMA MainOrder ==
  ASSUME OrderInv, UNCHANGED <<threads, host, chunks>>, pc' # "baseline",
         \/ pc' \notin {"start", "load", "stop", "join", "collect"}
         \/ pc \in {"start", "load", "stop", "join", "collect"} /\ run' = run
         \/ chunks = <<>>
         \/ worker[run'].at = "none" /\ run' \in Runs
  PROVE  OrderInv'
<1> USE DEF threads, host
<1>1. Known' /\ ListsOrdered'
  BY DEF OrderInv, Known, ListsOrdered, UpTo
<1>2. CASE worker[run'].at = "none" /\ run' \in Runs
  <2>1. /\ worker[run'].sample.drops = None /\ worker[run'].sample.throttled = None
        /\ lists[run'] = <<>>
    BY <1>2 DEF OrderInv, Known
  <2>2. \A i \in DOMAIN chunks : Before(chunks[i], worker[run'].sample)
    BY <2>1 DEF Before, Below
  <2> QED BY <1>1, <2>1, <2>2 DEF OrderInv, ChunksOrdered
<1>3. CASE ~(worker[run'].at = "none" /\ run' \in Runs)
  BY <1>1, <1>3 DEF OrderInv, ChunksOrdered
<1> QED BY <1>2, <1>3

LEMMA StartRunOrder == Inv /\ OrderInv /\ StartRun => OrderInv'
<1> SUFFICES ASSUME Inv, OrderInv, StartRun PROVE OrderInv'
  OBVIOUS
<1>1. run \in Runs /\ worker[run].at = "none"
  BY DEF Inv, MainTypes, Threads, StartRun
<1>2. \A r \in Runs : /\ worker'[r].sample = worker[r].sample
                      /\ (worker'[r].at = worker[r].at \/ (worker'[r].at = "check" /\ worker[r].at = "none"))
  <2>1. CASE telemetry
    BY <1>1, <2>1 DEF Inv, ThreadTypes, StartRun
  <2>2. CASE ~telemetry
    BY <2>2 DEF StartRun
  <2> QED BY <2>1, <2>2
<1>3. /\ lists' = lists /\ chunks' = chunks /\ count' = count /\ run' = run
      /\ pc = "start" /\ pc' = "load"
  BY DEF StartRun, host
<1>4. Known'
  BY <1>2, <1>3 DEF OrderInv, Known, UpTo
<1>5. ListsOrdered'
  BY <1>2, <1>3 DEF OrderInv, ListsOrdered, Before
<1>6. ChunksOrdered'
  BY <1>1, <1>2, <1>3 DEF OrderInv, ChunksOrdered, Before
<1> QED BY <1>4, <1>5, <1>6 DEF OrderInv

\* The list collected follows what was collected before it.
LEMMA CollectOrder == Inv /\ OrderInv /\ Collect => OrderInv'
<1> SUFFICES ASSUME Inv, OrderInv, Collect PROVE OrderInv'
  OBVIOUS
<1> DEFINE R == Renumbered(lists[run])  n == Len(chunks)  m == Len(lists[run])
<1>1. /\ run \in Runs /\ lists[run] \in Seq(SampleType) /\ chunks \in Seq(SampleType)
      /\ pc = "collect" /\ pc' = "check" /\ chunks' = chunks \o R
      /\ UNCHANGED <<threads, host>>
  BY DEF Inv, MainTypes, ThreadTypes, Collect
<1>2. n \in Nat /\ m \in Nat
  BY <1>1
<1>3. \A s \in SampleType, k \in Nat :
        LET t == [s EXCEPT !.sequence = k]
        IN t.drops = s.drops /\ t.throttled = s.throttled /\ t.sequence = k /\ t \in SampleType
  BY DEF SampleType
<1>4. R = [i \in 1..m |-> [lists[run][i] EXCEPT !.sequence = n + i - 1]]
  BY <1>1 DEF Renumbered
<1>5. ASSUME NEW i \in 1..m
      PROVE  /\ R[i].sequence = n + i - 1 /\ R[i].drops = lists[run][i].drops
             /\ R[i].throttled = lists[run][i].throttled /\ R[i] \in SampleType
  <2> DEFINE s == lists[run][i]  k == n + i - 1
  <2>1. R[i] = [s EXCEPT !.sequence = k]
    BY <1>4
  <2>2. s \in SampleType /\ k \in Nat
    BY <1>1, <1>2
  <2> HIDE DEF s, k, R
  <2>3. [s EXCEPT !.sequence = k].sequence = k /\ [s EXCEPT !.sequence = k].drops = s.drops
        /\ [s EXCEPT !.sequence = k].throttled = s.throttled /\ [s EXCEPT !.sequence = k] \in SampleType
    BY <1>3, <2>2
  <2>4. R[i].sequence = k /\ R[i].drops = s.drops /\ R[i].throttled = s.throttled /\ R[i] \in SampleType
    BY <2>1, <2>3, Zenon
  <2> QED BY <2>4, Zenon DEF s, k
<1>6. R \in Seq(SampleType) /\ Len(R) = m
  <2>1. R = [i \in 1..m |-> R[i]]
    BY <1>4
  <2> HIDE DEF R, m
  <2> QED BY <1>2, <1>5, <2>1
<1> HIDE DEF R, n, m
<1>7. DOMAIN chunks' = 1..(n + m) /\ \A i \in 1..(n + m) : chunks'[i] = IF i <= n THEN chunks[i] ELSE R[i - n]
  BY <1>1, <1>2, <1>6 DEF n
<1>8. /\ DOMAIN chunks = 1..n /\ DOMAIN lists[run] = 1..m
      /\ InOrder(chunks) /\ InOrder(lists[run]) /\ \A i \in 1..n : chunks[i].sequence = i - 1
      /\ \A i \in 1..n, j \in 1..m : Before(chunks[i], lists[run][j])
      /\ \A i \in 1..n : UpTo(chunks[i], count)
      /\ \A j \in 1..m : UpTo(lists[run][j], count)
  BY <1>1 DEF OrderInv, ChunksOrdered, ListsOrdered, Known, n, m
<1>9. \A i \in 1..m : R[i].sequence = n + i - 1 /\ UpTo(R[i], count)
  BY <1>5, <1>8 DEF UpTo
<1>10. \A i \in DOMAIN chunks' : chunks'[i].sequence = i - 1 /\ UpTo(chunks'[i], count)
  <2> SUFFICES ASSUME NEW i \in 1..(n + m) PROVE chunks'[i].sequence = i - 1 /\ UpTo(chunks'[i], count)
    BY <1>7
  <2>1. CASE i <= n
    BY <1>2, <1>7, <1>8, <2>1
  <2>2. CASE ~(i <= n)
    <3>1. i - n \in 1..m /\ chunks'[i] = R[i - n] /\ n + (i - n) - 1 = i - 1
      BY <1>2, <1>7, <2>2
    <3> QED BY <1>9, <3>1
  <2> QED BY <2>1, <2>2
<1>11. InOrder(chunks')
  <2> SUFFICES ASSUME NEW i \in 1..(n + m), NEW j \in 1..(n + m), i <= j
               PROVE  Before(chunks'[i], chunks'[j])
    BY <1>7 DEF InOrder
  <2>1. CASE j <= n
    <3>1. i \in 1..n /\ j \in 1..n /\ chunks'[i] = chunks[i] /\ chunks'[j] = chunks[j]
      BY <1>2, <1>7, <2>1
    <3> QED BY <1>8, <3>1 DEF InOrder
  <2>2. CASE i <= n /\ ~(j <= n)
    <3>1. i \in 1..n /\ j - n \in 1..m /\ chunks'[i] = chunks[i] /\ chunks'[j] = R[j - n]
      BY <1>2, <1>7, <2>2
    <3> QED BY <1>5, <1>8, <3>1 DEF Before
  <2>3. CASE ~(i <= n)
    <3>1. /\ i - n \in 1..m /\ j - n \in 1..m /\ i - n <= j - n
          /\ chunks'[i] = R[i - n] /\ chunks'[j] = R[j - n]
      BY <1>2, <1>7, <2>3
    <3>2. Before(lists[run][i - n], lists[run][j - n])
      BY <1>8, <3>1 DEF InOrder
    <3> QED BY <1>5, <3>1, <3>2 DEF Before
  <2> QED BY <1>2, <2>1, <2>2, <2>3
<1>12. Known'
  BY <1>1, <1>10 DEF OrderInv, Known, UpTo, threads, host
<1>13. ListsOrdered'
  BY <1>1 DEF OrderInv, ListsOrdered, threads
<1>14. ChunksOrdered'
  BY <1>1, <1>10, <1>11 DEF ChunksOrdered
<1> QED BY <1>12, <1>13, <1>14 DEF OrderInv

LEMMA MainStepOrder == Inv /\ Inv' /\ OrderInv /\ Main => OrderInv'
<1> SUFFICES ASSUME Inv, Inv', OrderInv, Main PROVE OrderInv'
  OBVIOUS
<1>1. CASE MeasureBaseline
  BY <1>1, MainOrder DEF MeasureBaseline, OrderInv, ChunksOrdered
<1>2. CASE StartRun
  BY <1>2, StartRunOrder
<1>3. CASE ScriptEnds \/ SetStop
  BY <1>3, MainOrder DEF ScriptEnds, SetStop
<1>4. CASE Join
  BY <1>4, MainOrder DEF Join
<1>5. CASE Collect
  BY <1>5, CollectOrder
<1>6. CASE LoadSamples
  <2>1. UNCHANGED <<threads, host, chunks>> /\ pc' \in {"start", "measured"}
        /\ (pc' = "start" => worker[run'].at = "none" /\ run' \in Runs)
    BY <1>6 DEF LoadSamples, Inv, Threads, MainTypes, threads
  <2> QED BY <2>1, MainOrder
<1>7. CASE RunFails
  BY <1>7, MainOrder DEF RunFails
<1>8. CASE Evaluate
  BY <1>8, MainOrder DEF Evaluate
<1> QED BY <1>1, <1>2, <1>3, <1>4, <1>5, <1>6, <1>7, <1>8 DEF Main
-----------------------------------------------------------------------------
(* The sampling threads.                                                   *)

\* Thread r leaves its list and its sample alone, or gives the sample up unread.
LEMMA ThreadWaits ==
  ASSUME NEW r \in Runs, Inv, OrderInv, UNCHANGED <<main, lists, host>>,
         NEW place \in {"first", "ended"}, worker' = [worker EXCEPT ![r].at = place],
         worker[r].at \in {"check", "wait"}
  PROVE  OrderInv'
<1>1. \A s \in Runs : /\ worker'[s].sample = worker[s].sample
                      /\ worker'[s].at = worker[s].at \/ (s = r /\ worker'[s].at = place)
  BY DEF Inv, ThreadTypes
<1>2. lists' = lists /\ chunks' = chunks /\ count' = count /\ run' = run /\ pc' = pc /\ run \in Runs
  BY DEF main, host, Inv, MainTypes
<1>3. Known'
  BY <1>1, <1>2 DEF OrderInv, Known, UpTo
<1>4. ListsOrdered'
  BY <1>1, <1>2 DEF OrderInv, ListsOrdered, Before
<1>5. ChunksOrdered'
  BY <1>1, <1>2 DEF OrderInv, ChunksOrdered, Before
<1> QED BY <1>3, <1>4, <1>5 DEF OrderInv

\* A probe reads what no earlier reading exceeds.
LEMMA ThreadReads ==
  ASSUME NEW r \in Runs, Inv, OrderInv, UNCHANGED <<main, lists, count>>,
         NEW drops, NEW throttled,
         \A s \in Runs \ {r} : worker'[s] = worker[s],
         worker'[r].sample.drops = drops, worker'[r].sample.throttled = throttled,
         \/ /\ drops \in {count, None} /\ throttled = worker[r].sample.throttled
            /\ worker[r].at = "first" /\ worker'[r].at = "last"
         \/ /\ drops = worker[r].sample.drops /\ throttled \in {count, None}
            /\ worker[r].at = "last" /\ worker'[r].at = "append"
  PROVE  OrderInv'
<1>1. lists' = lists /\ chunks' = chunks /\ count' = count /\ run' = run /\ pc' = pc /\ run \in Runs
      /\ count \in Nat
  BY BenchmarkAssumption DEF main, Inv, MainTypes, ThreadTypes
<1>2. UpTo(worker[r].sample, count) /\ UpTo(worker'[r].sample, count)
  BY <1>1 DEF OrderInv, Known, UpTo, Below
<1>3. \A t : UpTo(t, count) /\ Before(t, worker[r].sample) => Before(t, worker'[r].sample)
  BY DEF UpTo, Before, Below
<1>4. Known'
  BY <1>1, <1>2 DEF OrderInv, Known, UpTo, Below
<1>5. ListsOrdered'
  BY <1>1, <1>3 DEF OrderInv, ListsOrdered, Known
<1>6. ChunksOrdered'
  BY <1>1, <1>3 DEF OrderInv, ChunksOrdered, Known
<1> QED BY <1>4, <1>5, <1>6 DEF OrderInv

LEMMA FirstProbeOrder == ASSUME NEW r \in Runs, Inv, OrderInv, FirstProbe(r) PROVE OrderInv'
<1>1. PICK v \in {count, None} : worker' = [worker EXCEPT ![r].at = "last", ![r].sample.drops = v]
  BY DEF FirstProbe
<1>2. /\ worker'[r].at = "last" /\ worker'[r].sample.drops = v
      /\ worker'[r].sample.throttled = worker[r].sample.throttled
      /\ \A s \in Runs \ {r} : worker'[s] = worker[s]
  BY <1>1 DEF Inv, ThreadTypes, SampleType
<1>3. UNCHANGED <<main, lists, count>> /\ worker[r].at = "first"
  BY DEF FirstProbe
<1> QED BY <1>2, <1>3, ThreadReads

LEMMA LastProbeOrder == ASSUME NEW r \in Runs, Inv, OrderInv, LastProbe(r) PROVE OrderInv'
<1>1. PICK v \in {count, None} :
        worker' = [worker EXCEPT ![r].at = "append", ![r].sample.throttled = v,
                                 ![r].sample.late = r \in stopped]
  BY DEF LastProbe
<1>2. /\ worker'[r].at = "append" /\ worker'[r].sample.throttled = v
      /\ worker'[r].sample.drops = worker[r].sample.drops
      /\ \A s \in Runs \ {r} : worker'[s] = worker[s]
  BY <1>1 DEF Inv, ThreadTypes, SampleType
<1>3. UNCHANGED <<main, lists, count>> /\ worker[r].at = "last"
  BY DEF LastProbe
<1> QED BY <1>2, <1>3, ThreadReads

LEMMA AppendSampleOrder == ASSUME NEW r \in Runs, Inv, OrderInv, AppendSample(r) PROVE OrderInv'
<1> DEFINE old == worker[r].sample  smp == [old EXCEPT !.sequence = worker[r].taken]  n == Len(lists[r])
<1>1. /\ worker[r].at = "append" /\ lists' = [lists EXCEPT ![r] = Append(@, smp)]
      /\ worker' = [worker EXCEPT ![r].at = "wait", ![r].taken = @ + 1, ![r].sample = NoSample]
      /\ chunks' = chunks /\ count' = count /\ run' = run /\ pc' = pc
  BY DEF AppendSample, main, host
<1>2. /\ lists \in [Runs -> Seq(SampleType)] /\ old \in SampleType /\ worker[r].taken \in Nat
      /\ run \in Runs /\ n \in Nat
  BY DEF Inv, ThreadTypes, MainTypes
<1>3. smp \in SampleType /\ smp.drops = old.drops /\ smp.throttled = old.throttled
  BY <1>2 DEF SampleType
<1>4. /\ worker'[r].at = "wait" /\ worker'[r].sample.drops = None /\ worker'[r].sample.throttled = None
      /\ \A s \in Runs \ {r} : worker'[s] = worker[s] /\ lists'[s] = lists[s]
  BY <1>1, <1>2 DEF Inv, ThreadTypes, NoSample
<1> HIDE DEF smp, old
<1>5. lists'[r] = Append(lists[r], smp)
  BY <1>1, <1>2
<1>6. /\ DOMAIN lists'[r] = 1..(n + 1) /\ DOMAIN lists[r] = 1..n /\ lists'[r][n + 1] = smp
      /\ \A i \in 1..n : lists'[r][i] = lists[r][i]
  BY <1>2, <1>3, <1>5
<1> HIDE DEF n
<1>7. /\ UpTo(old, count) /\ \A i \in 1..n : UpTo(lists[r][i], count) /\ Before(lists[r][i], old)
      /\ \A i, j \in 1..n : i <= j => Before(lists[r][i], lists[r][j])
      /\ old.drops \in Reads /\ old.throttled \in Reads
  BY <1>2, <1>6 DEF OrderInv, Known, ListsOrdered, InOrder, old, SampleType
<1>8. UpTo(smp, count) /\ Before(smp, smp) /\ \A t : Before(t, old) => Before(t, smp)
  BY <1>3, <1>7, BenchmarkAssumption DEF UpTo, Before, Below, Reads
<1>9. Known'
  <2>1. \A i \in DOMAIN lists'[r] : UpTo(lists'[r][i], count)
    BY <1>2, <1>6, <1>7, <1>8
  <2>2. UpTo(worker'[r].sample, count)
    BY <1>4 DEF UpTo, Below
  <2>3. ASSUME NEW s \in Runs
        PROVE  /\ UpTo(worker'[s].sample, count) /\ \A i \in DOMAIN lists'[s] : UpTo(lists'[s][i], count)
               /\ worker'[s].at \notin {"last", "append"} => worker'[s].sample.drops = None
               /\ worker'[s].at # "append" => worker'[s].sample.throttled = None
               /\ worker'[s].at = "none" => lists'[s] = <<>>
    <3>1. CASE s = r
      BY <1>4, <2>1, <2>2, <3>1
    <3>2. CASE s # r
      BY <1>4, <3>2 DEF OrderInv, Known
    <3> QED BY <3>1, <3>2
  <2>4. \A i \in DOMAIN chunks' : UpTo(chunks'[i], count)
    BY <1>1 DEF OrderInv, Known
  <2> QED BY <1>1, <2>3, <2>4 DEF Known
<1>10. ListsOrdered'
  <2>1. InOrder(lists'[r])
    BY <1>2, <1>6, <1>7, <1>8 DEF InOrder
  <2>2. \A i \in DOMAIN lists'[r] : Before(lists'[r][i], worker'[r].sample)
    BY <1>4 DEF Before, Below
  <2> QED BY <1>4, <2>1, <2>2 DEF OrderInv, ListsOrdered
<1>11. ChunksOrdered'
  <2>1. ASSUME pc \in {"start", "load", "stop", "join", "collect"}, NEW i \in DOMAIN chunks
        PROVE  /\ Before(chunks[i], worker'[run].sample)
               /\ \A j \in DOMAIN lists'[run] : Before(chunks[i], lists'[run][j])
    <3>1. Before(chunks[i], worker[run].sample) /\ \A j \in DOMAIN lists[run] : Before(chunks[i], lists[run][j])
      BY <2>1 DEF OrderInv, ChunksOrdered
    <3>2. CASE run = r
      <4>1. Before(chunks[i], worker'[run].sample)
        BY <1>4, <3>2 DEF Before, Below
      <4>2. Before(chunks[i], smp)
        BY <1>8, <3>1, <3>2 DEF old
      <4>3. ASSUME NEW j \in 1..(n + 1) PROVE Before(chunks[i], lists'[r][j])
        <5>1. CASE j = n + 1
          BY <1>6, <4>2, <5>1
        <5>2. CASE j # n + 1
          <6>1. j \in 1..n /\ lists'[r][j] = lists[r][j]
            BY <1>2, <1>6, <5>2
          <6> QED BY <1>6, <3>1, <3>2, <6>1
        <5> QED BY <5>1, <5>2
      <4> QED BY <1>6, <3>2, <4>1, <4>3
    <3>3. CASE run # r
      BY <1>2, <1>4, <3>1, <3>3
    <3> QED BY <3>2, <3>3
  <2> QED BY <1>1, <2>1 DEF OrderInv, ChunksOrdered
<1> QED BY <1>9, <1>10, <1>11 DEF OrderInv

\* The target counts on; nothing read so far exceeds the new count.
LEMMA TroubleOrder == Inv /\ OrderInv /\ Trouble => OrderInv'
<1> SUFFICES ASSUME Inv, OrderInv, Trouble PROVE OrderInv'
  OBVIOUS
<1>1. /\ lists' = lists /\ chunks' = chunks /\ count' = count + 1 /\ run' = run /\ pc' = pc
      /\ worker' = worker /\ count \in Nat
  BY BenchmarkAssumption DEF Trouble, main, threads, Inv, ThreadTypes
<1>2. \A r \in Runs : worker[r].sample \in SampleType /\ lists[r] \in Seq(SampleType)
  BY DEF Inv, ThreadTypes
<1>3. \A s \in SampleType : UpTo(s, count) => UpTo(s, count')
  BY <1>1, BenchmarkAssumption DEF UpTo, Below, SampleType, Reads
<1>4. chunks \in Seq(SampleType)
  BY DEF Inv, ThreadTypes
<1>5. Known'
  <2>1. \A r \in Runs : UpTo(worker[r].sample, count')
    BY <1>2, <1>3 DEF OrderInv, Known
  <2>2. \A r \in Runs : \A i \in DOMAIN lists[r] : UpTo(lists[r][i], count')
    BY <1>2, <1>3 DEF OrderInv, Known
  <2>3. \A i \in DOMAIN chunks : UpTo(chunks[i], count')
    BY <1>3, <1>4 DEF OrderInv, Known
  <2> QED BY <1>1, <2>1, <2>2, <2>3 DEF OrderInv, Known
<1>6. ListsOrdered' /\ ChunksOrdered'
  BY <1>1 DEF OrderInv, ListsOrdered, ChunksOrdered
<1> QED BY <1>5, <1>6 DEF OrderInv

-----------------------------------------------------------------------------
LEMMA NextOrder == Inv /\ Inv' /\ OrderInv /\ [Next]_vars => OrderInv'
<1> SUFFICES ASSUME Inv, Inv', OrderInv, [Next]_vars PROVE OrderInv'
  OBVIOUS
<1>1. CASE UNCHANGED vars
  BY <1>1 DEF vars, main, threads, host, OrderInv, Known, ListsOrdered, ChunksOrdered, UpTo
<1>2. CASE Main
  BY <1>2, MainStepOrder
<1>3. ASSUME NEW r \in Runs, Thread(r) \/ Hang(r) PROVE OrderInv'
  <2>1. CASE CheckStop(r)
    <3>1. \E place \in {"first", "ended"} : worker' = [worker EXCEPT ![r].at = place]
      BY <2>1 DEF CheckStop, GoesOn
    <3> QED BY <2>1, <3>1, ThreadWaits DEF CheckStop
  <2>2. CASE FirstProbe(r)
    BY <2>2, FirstProbeOrder
  <2>3. CASE LastProbe(r)
    BY <2>3, LastProbeOrder
  <2>4. CASE AppendSample(r)
    BY <2>4, AppendSampleOrder
  <2>5. CASE Wait(r)
    <3>1. \E place \in {"first", "ended"} : worker' = [worker EXCEPT ![r].at = place]
      BY <2>5 DEF Wait
    <3> QED BY <2>5, <3>1, ThreadWaits DEF Wait
  <2>6. CASE Hang(r)
    BY <2>6 DEF Hang, main, host, OrderInv, Known, ListsOrdered, ChunksOrdered, UpTo
  <2> QED BY <1>3, <2>1, <2>2, <2>3, <2>4, <2>5, <2>6 DEF Thread
<1>4. CASE Trouble
  BY <1>4, TroubleOrder
<1> QED BY <1>1, <1>2, <1>3, <1>4 DEF Next

\* The samples of a result are numbered without gaps and their counters never
\* fall, whichever threads are late, hang or are left over from an earlier run.
THEOREM SamplesInOrder == Spec => []CollectedInOrder
<1>1. ASSUME OrderInv PROVE CollectedInOrder
  <2>1. /\ \A i \in DOMAIN chunks : chunks[i].sequence = i - 1
        /\ \A i, j \in DOMAIN chunks : i <= j => Before(chunks[i], chunks[j])
    BY <1>1 DEF OrderInv, ChunksOrdered, InOrder
  <2> QED BY <2>1 DEF CollectedInOrder, NeverFalls, Before, Below
<1>2. Init => OrderInv
  BY InitOrder
<1>3. Inv /\ Inv' /\ OrderInv /\ [Next]_vars => OrderInv'
  BY NextOrder
<1> QED BY <1>1, <1>2, <1>3, InvAlways, PTL DEF Spec

-----------------------------------------------------------------------------
(* The decision.                                                           *)

\* A decision is taken last, on what was measured.
Accepted ==
  decision = "accept" =>
    pc = "done" /\ \E absent, swept \in BOOLEAN : Decide(baseline, samples, absent, swept) = "accept"

LEMMA AcceptedStep == Accepted /\ [Next]_vars => Accepted'
<1> SUFFICES ASSUME Accepted, [Next]_vars, decision' = "accept"
             PROVE  /\ pc' = "done"
                    /\ \E absent, swept \in BOOLEAN :
                         Decide(baseline', samples', absent, swept) = "accept"
  BY DEF Accepted
<1>1. CASE Evaluate
  BY <1>1 DEF Evaluate
<1>2. CASE decision' = decision /\ pc' = pc /\ baseline' = baseline /\ samples' = samples
  BY <1>2 DEF Accepted
<1>3. CASE Main /\ ~Evaluate
  <2>1. decision' = decision /\ pc # "done"
    BY <1>3 DEF Main, MeasureBaseline, StartRun, ScriptEnds, SetStop, Join, Collect, LoadSamples,
           RunFails
  <2> QED BY <2>1 DEF Accepted
<1>4. CASE \E r \in Runs : Thread(r) \/ Hang(r)
  <2>1. UNCHANGED main
    BY <1>4 DEF Thread, Hang, CheckStop, FirstProbe, LastProbe, AppendSample, Wait
  <2> QED BY <1>2, <2>1 DEF main
<1>5. CASE Trouble
  BY <1>2, <1>5 DEF Trouble, main
<1>6. CASE UNCHANGED vars
  BY <1>2, <1>6 DEF vars, main
<1> QED BY <1>1, <1>3, <1>4, <1>5, <1>6 DEF Next

\* What the evaluator accepts was faster, for any workloads, baselines, run counts
\* and thresholds: where a median beats the baseline by more than the threshold,
\* half of the runs do, and a figure that is missing beats nothing.
THEOREM AcceptedWasFaster == Spec => []AcceptedIsFaster
<1>1. Init => Accepted
  BY DEF Init, Accepted
<1>2. Accepted /\ [Next]_vars => Accepted'
  BY AcceptedStep
<1>3. ASSUME Inv, Accepted PROVE AcceptedIsFaster
  <2>1. SUFFICES ASSUME decision = "accept"
                 PROVE  \E w \in Workloads :
                          baseline[w] > 0 /\ 2 * Cardinality(Faster(w)) >= runCount
    BY DEF AcceptedIsFaster
  <2>2. /\ baseline \in [Workloads -> Nat] /\ samples \in [Workloads -> Seq(Nat)]
        /\ pc = "done" /\ run = runCount /\ runCount \in Nat \ {0}
        /\ \A w \in Workloads : Len(samples[w]) = runCount
    BY <1>3, <2>1, RunsBound DEF Inv, MainTypes, Progress, Ended, Accepted
  <2>3. PICK absent, swept \in BOOLEAN : Decide(baseline, samples, absent, swept) = "accept"
    BY <1>3, <2>1 DEF Accepted
  <2>4. PICK w \in Workloads : /\ baseline[w] > 0
                               /\ 100 * TwiceMedian(samples[w]) > (100 + Variance) * (2 * baseline[w])
    <3>1. \A w \in Workloads : Len(samples[w]) > 0
      BY <2>2
    <3> QED BY <2>2, <2>3, <3>1, AcceptBeats
  <2> DEFINE s == samples[w]
  <2>5. s \in Seq(Nat) /\ Len(s) = runCount /\ Len(s) > 0 /\ DOMAIN s = 1..runCount
    BY <2>2
  <2>6. PICK u \in Nat : /\ TwiceMedian(s) \in Nat /\ TwiceMedian(s) <= 2 * u
                         /\ 2 * Cardinality({i \in DOMAIN s : s[i] >= u}) >= Len(s)
    BY <2>5, MedianReached
  <2> DEFINE U == {i \in DOMAIN s : s[i] >= u}
  <2>7. U \subseteq Faster(w)
    <3>1. SUFFICES ASSUME NEW i \in DOMAIN s, s[i] >= u PROVE i \in Faster(w)
      OBVIOUS
    <3>2. s[i] \in Nat /\ baseline[w] \in Nat /\ Variance \in Nat
      BY <2>2, <2>5, EvaluatorAssumption
    <3>3. (100 + Variance) * (2 * baseline[w]) = 2 * ((100 + Variance) * baseline[w])
          /\ (100 + Variance) * baseline[w] \in Nat
      BY <3>2
    <3>4. 100 * s[i] > (100 + Variance) * baseline[w]
      <4>1. 100 * TwiceMedian(s) > 2 * ((100 + Variance) * baseline[w])
        BY <2>4, <3>3
      <4> HIDE DEF s
      <4> QED BY <2>6, <3>1, <3>2, <3>3, <4>1
    <3>5. s[i] = Figure(measured[i][w]) /\ i \in 1..runCount
      BY <1>3, <2>5 DEF Inv, Progress
    <3>6. s[i] # 0
      <4> HIDE DEF s
      <4> QED BY <3>2, <3>3, <3>4
    <3>7. measured[i][w] # None /\ measured[i][w] = s[i]
      <4> HIDE DEF s
      <4> QED BY <3>5, <3>6 DEF Figure
    <3>8. Beats(w, measured[i][w])
      <4> HIDE DEF s
      <4> QED BY <3>4, <3>7 DEF Beats
    <3> QED BY <3>5, <3>7, <3>8 DEF Faster
  <2>8. /\ Cardinality(U) <= Cardinality(Faster(w))
        /\ Cardinality(U) \in Nat /\ Cardinality(Faster(w)) \in Nat
    <3>1. U \in SUBSET DOMAIN s
      OBVIOUS
    <3>2. Faster(w) \in SUBSET DOMAIN s
      BY <2>5 DEF Faster
    <3> HIDE DEF U, s
    <3> QED BY <2>5, <2>7, <3>1, <3>2, CountFacts
  <2>9. 2 * Cardinality(U) >= runCount
    BY <2>5, <2>6
  <2> HIDE DEF U
  <2>10. 2 * Cardinality(Faster(w)) >= runCount
    BY <2>2, <2>8, <2>9
  <2> QED BY <2>4, <2>10
<1>4. Spec => []Accepted
  BY <1>1, <1>2, PTL DEF Spec
<1> QED BY <1>3, <1>4, InvAlways, PTL
=============================================================================
