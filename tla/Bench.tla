------------------------------- MODULE Bench --------------------------------
(***************************************************************************)
(* ThoughtBench's two commands, which run a list of samples against an     *)
(* endpoint on a pool of threads: run_benchmark (thoughtbench/runner.py),  *)
(* which journals every sample it takes and resumes from the journal, and  *)
(* run_harness (thoughtbench/harness.py), which starts over.               *)
(*                                                                         *)
(* The process may be killed at any point, also while the journal is being *)
(* written.  The journal is a sequence of lines, a line the records, whole *)
(* or torn, that were written onto it, and whether a newline ends it.  A   *)
(* result file is replaced at once (os.replace), so that only its contents *)
(* count.  What a sample says is whether its answer was correct.           *)
(***************************************************************************)
EXTENDS Integers, Sequences, FiniteSets, SequencesExt

CONSTANTS
  Cells,       \* how many pairs of a budget and a seed
  Tasks,       \* how many tasks
  KSamples,    \* k_samples
  Concurrency, \* max_workers of the pool
  Configs,     \* the run configurations (their fingerprints)
  Answers,     \* what a sample can come to: "correct", "wrong" or "error"
  Harness,     \* whether the harness command is run too
  MaxStarts    \* bound: processes started

ASSUME BenchAssumption ==
  /\ {Cells, Tasks, KSamples, Concurrency} \subseteq Nat \ {0}
  /\ Answers \subseteq {"correct", "wrong", "error"}
  /\ Harness \in BOOLEAN /\ MaxStarts \in Nat

VARIABLES
  pc,        \* "running", "raising" (waiting for the pool to empty), "writing",
             \* "clearing", or how the last process ended
  config,    \* the configuration of the process
  mode,      \* "benchmark" or "harness"
  todo,      \* the samples submitted to the pool and not begun, as their places in
             \* Specifications: they are submitted in that order
  executing, \* the samples the pool's threads are at
  ready,     \* the futures that are done and not taken: [sample, outcome]
  completed, \* run_benchmark's dict of samples, in order of insertion
  ordered,   \* run_harness's list of results, as far as it is filled in, by index
  journal,   \* the lines of the .partial.jsonl file
  results,   \* the results file, if the last process wrote it: at most one document
  artifact,  \* the artifact of the harness, if the last process wrote it
  starts

process == <<pc, config, mode>>
pool == <<todo, executing, ready>>
memory == <<completed, ordered>>
disk == <<journal, results, artifact>>
vars == <<process, pool, memory, disk, starts>>

-----------------------------------------------------------------------------
(* Samples, records and the journal.                                       *)

\* _specifications: by cell, then by task, then by index.
Specifications ==
  [n \in 1 .. Cells * Tasks * KSamples |->
     [cell  |-> (n - 1) \div (Tasks * KSamples),
      task  |-> ((n - 1) \div KSamples) % Tasks,
      index |-> (n - 1) % KSamples]]

SampleKey(spec) == spec

Keys(samples) == {SampleKey(samples[i].spec) : i \in DOMAIN samples}

\* A SampleResult; its configuration is not part of it, but of the record.
Sample(spec, c, correct) == [spec |-> spec, config |-> c, correct |-> correct]

Record(sample) == [sample |-> sample, whole |-> TRUE]
Torn(sample) == [sample |-> sample, whole |-> FALSE]

\* json.loads accepts a line that is one record, all of it.
Parses(line) == Len(line.records) = 1 /\ line.records[1].whole

\* Only the last line may be cut short: by a crash, it has no newline.
Truncated(lines, n) == n = Len(lines) /\ ~lines[n].ended

\* The samples that the journal's lines hold.
Recorded(lines) == {line.records[1].sample : line \in {l \in Range(lines) : Parses(l)}}

\* completed[sample.sample_key] = sample
Recovered(samples, line) ==
  IF ~Parses(line) \/ Contains(samples, line.records[1].sample) THEN samples
  ELSE Append(samples, line.records[1].sample)

Resumed(lines) == FoldLeft(Recovered, <<>>, lines)

Readable(lines) == \A n \in DOMAIN lines : Parses(lines[n]) \/ Truncated(lines, n)

\* No two records of a sample that differ.
Consistent(lines) ==
  \A s, t \in Recorded(lines) : SampleKey(s.spec) = SampleKey(t.spec) => s = t

\* Fault: the configuration of a record is not looked at.
LoadedAnyConfig(lines, c) ==
  [ok      |-> Readable(lines) /\ Consistent(lines),
   samples |-> Resumed(lines)]

\* PartialStore.load: a record of another configuration, a line that does not
\* parse before the tail, and two records that differ are a ResumeError.
Loaded(lines, c) ==
  [ok      |-> /\ Readable(lines) /\ Consistent(lines)
               /\ \A s \in Recorded(lines) : s.config = c,
   samples |-> Resumed(lines)]

\* What a write adds to the file: it goes where the file ends.
Written(lines, record, newline) ==
  IF lines # <<>> /\ ~Last(lines).ended
  THEN Append(Front(lines), [records |-> Append(Last(lines).records, record),
                             ended |-> newline])
  ELSE Append(lines, [records |-> <<record>>, ended |-> newline])

-----------------------------------------------------------------------------
(* The results document.                                                   *)

Before(s, t) ==
  \/ s.spec.cell < t.spec.cell
  \/ s.spec.cell = t.spec.cell /\ s.spec.task < t.spec.task
  \/ s.spec.cell = t.spec.cell /\ s.spec.task = t.spec.task /\ s.spec.index < t.spec.index

\* Fault: the samples stay in the order they were taken in.
AsTaken(samples, D) ==
  [n \in 1 .. Cardinality(D) |->
     samples[CHOOSE i \in D : Cardinality({j \in D : j < i}) = n - 1]]

\* Samples that compare equal stay in the order they have.
Earlier(samples, i, j) ==
  \/ Before(samples[i], samples[j])
  \/ ~Before(samples[j], samples[i]) /\ i < j

\* The samples at the places D, sorted.
Sorted(samples, D) ==
  [n \in 1 .. Cardinality(D) |->
     samples[CHOOSE i \in D : Cardinality({j \in D : Earlier(samples, j, i)}) = n - 1]]

\* _task_outcomes of one cell, whose samples are at the places D: per task, in
\* order of the samples' index.
Outcomes(samples, D, task) ==
  LET group == Sorted(samples, {i \in D : samples[i].spec.task = task})
  IN [n \in DOMAIN group |-> group[n].correct]

TasksOf(samples, D) == {samples[i].spec.task : i \in D}

\* accuracy_at_k and pass_power_k, as the tasks they count.
AccuracyAt(samples, D, k) ==
  Cardinality({task \in TasksOf(samples, D) :
                 TRUE \in Range(SubSeq(Outcomes(samples, D, task), 1, k))})

PassPower(samples, D, k) ==
  Cardinality({task \in TasksOf(samples, D) :
                 FALSE \notin Range(SubSeq(Outcomes(samples, D, task), 1, k))})

\* compute_metric_set of a cell, of what its tokens and times do not enter.
MetricSet(samples, D) ==
  [tasks    |-> Cardinality(TasksOf(samples, D)),
   samples  |-> Cardinality(D),
   correct  |-> Cardinality({i \in D : samples[i].correct}),
   accuracy |-> [k \in 1 .. KSamples |-> AccuracyAt(samples, D, k)],
   pass     |-> [k \in 1 .. KSamples |-> PassPower(samples, D, k)]]

OfCell(samples, cell) == {i \in DOMAIN samples : samples[i].spec.cell = cell}

Document(samples, c) ==
  [config  |-> c,
   samples |-> Sorted(samples, DOMAIN samples),
   metrics |-> [cell \in 0 .. Cells - 1 |-> MetricSet(samples, OfCell(samples, cell))]]

-----------------------------------------------------------------------------
NoConfig == "none"

Up == {"running", "raising", "writing", "clearing"}

Init ==
  /\ pc = "never ran" /\ config = NoConfig /\ mode = "none"
  /\ todo = {} /\ executing = {} /\ ready = {}
  /\ completed = <<>> /\ ordered = <<>>
  /\ journal = <<>> /\ results = {} /\ artifact = <<>>
  /\ starts = 0

\* Fault: every sample is run, whatever the journal holds.
MissingAll(samples) == DOMAIN Specifications

\* The samples whose key the journal does not have.
Missing(samples) ==
  {n \in DOMAIN Specifications : SampleKey(Specifications[n]) \notin Keys(samples)}

StartProcess ==
  /\ pc \notin Up /\ starts < MaxStarts
  /\ starts' = starts + 1
  /\ results' = {} /\ artifact' = <<>> /\ UNCHANGED journal

\* run_benchmark up to where it waits for the first sample.
StartBenchmark(c) ==
  /\ StartProcess
  /\ LET loaded == Loaded(journal, c)
     IN IF loaded.ok
        THEN /\ pc' = "running" /\ config' = c /\ mode' = "benchmark"
             /\ completed' = loaded.samples /\ todo' = Missing(loaded.samples)
        ELSE /\ pc' = "refused" /\ UNCHANGED <<config, mode, completed, todo>>
  /\ UNCHANGED <<executing, ready, ordered>>

\* run_harness: nothing is read back.
StartHarness(c) ==
  /\ Harness /\ StartProcess
  /\ config' = c /\ mode' = "harness" /\ pc' = "running"
  /\ todo' = DOMAIN Specifications
  /\ UNCHANGED <<executing, ready, memory>>

\* Fault: an error stops the pool, which is waited for.
PoolRunsUntilError == pc = "running"

PoolRuns == pc \in {"running", "raising"}

\* A thread of the pool takes up the next sample ...
Begin ==
  /\ PoolRuns /\ todo # {} /\ Cardinality(executing) < Concurrency
  /\ executing' = executing \cup {Specifications[Min(todo)]} /\ todo' = todo \ {Min(todo)}
  /\ UNCHANGED <<process, ready, memory, disk, starts>>

\* The harness's list is the same whether an answer is correct or wrong.
PossibleAnswers == IF mode = "harness" THEN Answers \ {"wrong"} ELSE Answers

\* ... and executes it (_execute_sample, _execute_task), or fails to.  What
\* comes of it is of no account when the results are not taken any more.
Execute(spec) ==
  /\ PoolRuns /\ spec \in executing
  /\ executing' = executing \ {spec}
  /\ IF pc = "raising" THEN UNCHANGED ready
     ELSE \E answer \in PossibleAnswers : ready' = ready \cup {[spec |-> spec, answer |-> answer]}
  /\ UNCHANGED <<process, todo, memory, disk, starts>>

Succeeded(f) == f.answer # "error"

\* The main thread takes a future (as_completed) and journals its sample.
TakeSample(f) ==
  /\ pc = "running" /\ mode = "benchmark" /\ f \in ready /\ Succeeded(f)
  /\ LET sample == Sample(f.spec, config, f.answer = "correct")
     IN /\ journal' = Written(journal, Record(sample), TRUE)
        /\ completed' = Append(completed, sample)
  /\ ready' = ready \ {f}
  /\ UNCHANGED <<process, todo, executing, ordered, results, artifact, starts>>

\* Fault: results are kept in the order they come in.
PlacedAsTaken(f) == Cardinality(DOMAIN ordered) + 1

\* ordered[index] = result
Placed(f) == CHOOSE n \in DOMAIN Specifications : Specifications[n] = f.spec

TakeResult(f) ==
  /\ pc = "running" /\ mode = "harness" /\ f \in ready /\ Succeeded(f)
  /\ ordered' = [n \in DOMAIN ordered \cup {Placed(f)} |->
                  IF n = Placed(f) THEN f ELSE ordered[n]]
  /\ ready' = ready \ {f}
  /\ UNCHANGED <<process, todo, executing, completed, disk, starts>>

\* result() raises: the with statement still waits for the whole pool, which
\* runs what is left, but nobody takes the results.
TakeError(f) ==
  /\ pc = "running" /\ f \in ready /\ ~Succeeded(f)
  /\ pc' = "raising" /\ ready' = {}
  /\ UNCHANGED <<config, mode, todo, executing, memory, disk, starts>>

PoolEmpty == todo = {} /\ executing = {}

\* Memory is of no account once the process is gone.
ProcessEnds(how) ==
  /\ pc' = how /\ config' = NoConfig /\ mode' = "none"
  /\ todo' = {} /\ executing' = {} /\ ready' = {} /\ completed' = <<>> /\ ordered' = <<>>
  /\ UNCHANGED starts

Raise == pc = "raising" /\ PoolEmpty /\ ProcessEnds("raised") /\ UNCHANGED disk

AllTaken == pc = "running" /\ PoolEmpty /\ ready = {}

\* The completed samples must be the expected ones.
CheckComplete ==
  /\ AllTaken /\ mode = "benchmark"
  /\ IF Keys(completed) = {SampleKey(spec) : spec \in Range(Specifications)}
     THEN pc' = "writing" /\ UNCHANGED <<config, mode, pool, memory, starts>>
     ELSE ProcessEnds("mismatch")
  /\ UNCHANGED disk

WriteResults ==
  /\ pc = "writing"
  /\ results' = {Document(completed, config)}
  /\ pc' = "clearing"
  /\ UNCHANGED <<config, mode, pool, memory, journal, artifact, starts>>

ClearJournal ==
  /\ pc = "clearing"
  /\ journal' = <<>>
  /\ ProcessEnds("done") /\ UNCHANGED <<results, artifact>>

\* No result may be missing.
WriteArtifact ==
  /\ AllTaken /\ mode = "harness"
  /\ IF DOMAIN ordered = DOMAIN Specifications
     THEN artifact' = ordered /\ ProcessEnds("done")
     ELSE ProcessEnds("mismatch") /\ UNCHANGED artifact
  /\ UNCHANGED <<journal, results>>

\* The process is killed.
Crash ==
  /\ pc \in Up
  /\ ProcessEnds("killed") /\ UNCHANGED disk

\* It is killed while it appends a record: some of it is on disk, or all of it
\* but the newline.
CrashInAppend(f) ==
  /\ pc = "running" /\ mode = "benchmark" /\ f \in ready /\ Succeeded(f)
  /\ \E record \in {Record(Sample(f.spec, config, f.answer = "correct")),
                    Torn(Sample(f.spec, config, f.answer = "correct"))} :
       journal' = Written(journal, record, FALSE)
  /\ ProcessEnds("killed") /\ UNCHANGED <<results, artifact>>

Step ==
  \/ Begin
  \/ \E spec \in executing : Execute(spec)
  \/ \E f \in ready : TakeSample(f) \/ TakeResult(f) \/ TakeError(f)
  \/ Raise
  \/ CheckComplete \/ WriteResults \/ ClearJournal
  \/ WriteArtifact

Next ==
  \/ \E c \in Configs : StartBenchmark(c) \/ StartHarness(c)
  \/ Step
  \/ Crash
  \/ \E f \in ready : CrashInAppend(f)

\* A process that is not killed goes on: its threads run and the endpoint
\* answers or times out.
Fairness == WF_vars(Step)
Spec == Init /\ [][Next]_vars
FairSpec == Spec /\ Fairness

-----------------------------------------------------------------------------
\* The tasks that each metric of a cell has to count, said without sequences.
Passed(doc, cell, task, index) ==
  \E s \in Range(doc.samples) :
    s.spec = [cell |-> cell, task |-> task, index |-> index] /\ s.correct

SolvedAt(doc, cell, k) ==
  {task \in 0 .. Tasks - 1 : \E i \in 0 .. k - 1 : Passed(doc, cell, task, i)}

PassedAll(doc, cell, k) ==
  {task \in 0 .. Tasks - 1 : \A i \in 0 .. k - 1 : Passed(doc, cell, task, i)}

\* A results file is complete and does not depend on the order in which the
\* samples came in or on how often the run was resumed: it holds every sample
\* once and sorted, and its metrics are those of the samples.
ResultsReproducible ==
  \A doc \in results :
    /\ Len(doc.samples) = Len(Specifications)
    /\ {s.spec : s \in Range(doc.samples)} = Range(Specifications)
    /\ \A n \in 2 .. Len(doc.samples) : Before(doc.samples[n - 1], doc.samples[n])
    /\ \A cell \in 0 .. Cells - 1, k \in 1 .. KSamples :
         /\ doc.metrics[cell].accuracy[k] = Cardinality(SolvedAt(doc, cell, k))
         /\ doc.metrics[cell].pass[k] = Cardinality(PassedAll(doc, cell, k))

\* No results file mixes samples of two configurations, although the journal
\* of one may still be there when the other is run.
OneConfiguration ==
  \A doc \in results : \A s \in Range(doc.samples) : s.config = doc.config

\* What the journal can give back is never asked of the endpoint again.
\* (Records are fsynced before the next future is taken.)
NeverRunAgain ==
  pc = "running" /\ mode = "benchmark" =>
    LET kept == {SampleKey(s.spec) : s \in Recorded(journal)}
        asked == {Specifications[n] : n \in todo} \cup executing \cup {f.spec : f \in ready}
    IN kept \cap {SampleKey(spec) : spec \in asked} = {}

\* The harness's artifact lists the results of the requests in their order.
ArtifactInOrder ==
  artifact # <<>> => [n \in DOMAIN artifact |-> artifact[n].spec] = Specifications

\* A process that is left alone ends, also one in which a sample failed.
ProcessesEnd == pc \in Up ~> pc \notin Up

\* The journal is there to resume from: whatever was killed when, the process
\* started next takes it up.
AlwaysResumes == pc # "refused"
=============================================================================
