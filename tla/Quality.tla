------------------------------ MODULE Quality ------------------------------
(***************************************************************************)
(* Evaluation and verification: datasets and their test cases, evaluation  *)
(* runs and the metrics recorded in them, verification reports and         *)
(* comparisons with a baseline.  QualityService                            *)
(* (modules/quality/application/services.py) over SqlQualityStore          *)
(* (infrastructure/repository.py).                                         *)
(*                                                                         *)
(* A run or a dataset is read whole and written back whole, with what is   *)
(* recorded in it, and save_evaluation_run is never given a version: of    *)
(* two commands under way on one run, the later commit erases the earlier. *)
(* Scores are percentages.                                                 *)
(***************************************************************************)
EXTENDS Transactions, Functions, FiniteSets

CONSTANTS
    Datasets, Cases,         \* datasets, and the ids of their test cases
    EvalRuns, Metrics,       \* evaluation runs, and the metrics recorded in them
    Reports, Gates,          \* verification reports, and the gates of a suite
    Comparisons,
    Scores,                  \* scores that are handed in: integers
    Thresholds               \* thresholds of a metric: integers

QualityIds == Datasets \union EvalRuns \union Reports \union Comparisons

QualityInit ==
    /\ row = [id \in QualityIds |-> None]
    /\ call = [c \in Calls |-> None]
    /\ told = [id \in QualityIds |-> None]

-----------------------------------------------------------------------------
(* Rows *)

EvaluationRunStatus == {"PENDING", "RUNNING", "COMPLETED", "FAILED", "BLOCKED"}

EvaluationRecord == [metric : Metrics, score : 0..100, threshold : Thresholds,
                     evidence : BOOLEAN, passed : BOOLEAN, blocked : BOOLEAN]

EvaluationDataset == [cases : SUBSET Cases, version : {0}]

EvaluationRunAggregate ==
    [dataset : Datasets \union {None}, status : EvaluationRunStatus,
     records : SUBSET EvaluationRecord, composite : 0..100, passed : BOOLEAN, version : Nat]

VerificationStatus == {"PASSED", "FAILED", "BLOCKED", "WARNING"}

VerificationSuiteReport ==
    [gates : UNION {[gates -> VerificationStatus] : gates \in SUBSET Gates},
     overall : VerificationStatus, version : {0}]

BaselineComparison == [regression : BOOLEAN, passed : BOOLEAN, version : {0}]

-----------------------------------------------------------------------------
(* Verdicts *)

Total(scores) == FoldFunction(LAMBDA a, b : a + b, 0, scores)

\* EvaluationRunAggregate.record_metric: without evidence a metric is blocked, and
\* then it scores nothing and does not pass.
Recorded(metric, score, threshold, evidence, blocked) ==
    LET clamped == IF score < 0 THEN 0 ELSE IF score > 100 THEN 100 ELSE score
        counts  == evidence /\ ~blocked
    IN  [metric |-> metric, score |-> IF counts THEN clamped ELSE 0, threshold |-> threshold,
         evidence |-> evidence, passed |-> counts /\ clamped >= threshold, blocked |-> ~counts]

\* Mutant of Verdict: a run in which nothing was recorded is complete.
VerdictOfNone(records) ==
    CASE \E r \in records : r.blocked -> "BLOCKED"
      [] \A r \in records : r.passed -> "COMPLETED"
      [] OTHER -> "FAILED"

\* EvaluationRunAggregate.finalize
Verdict(records) ==
    CASE records = {} \/ \E r \in records : r.blocked -> "BLOCKED"
      [] records # {} /\ \A r \in records : r.passed -> "COMPLETED"
      [] OTHER -> "FAILED"

Composite(records) ==
    IF records = {} THEN 0
    ELSE Total([r \in records |-> r.score]) \div Cardinality(records)

\* run_verification_suite: what is known of a gate's command decides its status.
GateStatus(check) ==
    IF ~check.evidence THEN "BLOCKED" ELSE IF check.clean THEN "PASSED" ELSE "FAILED"

\* VerificationSuiteReport.evaluate.  A suite without gates passes.
Overall(gates) ==
    LET some(status) == \E g \in DOMAIN gates : gates[g] = status
    IN  IF some("BLOCKED") THEN "BLOCKED" ELSE IF some("FAILED") THEN "FAILED"
        ELSE IF some("WARNING") THEN "WARNING" ELSE "PASSED"

\* BaselineComparison.compare: a metric that one side lacks counts 0 for it.
Compared(candidate, baseline, tolerance, least) ==
    LET metrics == DOMAIN candidate \union DOMAIN baseline
        of(side, m) == IF m \in DOMAIN side THEN side[m] ELSE 0
        regression == \E m \in metrics : of(candidate, m) - of(baseline, m) < -tolerance
        mean == IF metrics = {} THEN 0
                ELSE Total([m \in metrics |-> of(candidate, m)]) \div Cardinality(metrics)
    IN  [regression |-> regression, passed |-> ~regression /\ mean >= least, version |-> 0]

-----------------------------------------------------------------------------
(* The store *)

\* save_evaluation_run and save_dataset write the whole aggregate, over the row if
\* there is one; a run that is there keeps its dataset, though.
SaveEvaluationRun(r, new) ==
    IF Present(r) THEN Update(r, [f \in DOMAIN new \ {"dataset"} |-> new[f]], None)
    ELSE Insert(r, new)

SaveDataset(d, cases) ==
    LET new == [cases |-> cases, version |-> 0]
    IN  IF Present(d) THEN Update(d, new, None) ELSE Insert(d, new)

SaveVerificationReport(v, gates) ==
    Insert(v, [gates |-> gates, overall |-> Overall(gates), version |-> 0])

SaveBaselineComparison(x, compared) == Insert(x, compared)

\* QualityEventFactory: an event of a row, and the state that it names
QualitySays(id, what) == [x \in {id} |-> what]

Nothing == [id \in {} |-> None]

-----------------------------------------------------------------------------
(* Datasets and evaluation runs *)

\* The caller may name the dataset: one that is there loses its cases.
CreateDataset(c, d) == Begin(c, {SaveDataset(d, {})}, Nothing)

AddTestCase(c, d, k) ==
    /\ Present(d)
    /\ k \notin row[d].cases
    /\ Begin(c, {SaveDataset(d, row[d].cases \union {k})}, Nothing)

\* The caller may name the run: one that is there starts again, with its old dataset.
StartEvaluationRun(c, r, d) ==
    Begin(c, {SaveEvaluationRun(r, [dataset |-> d, status |-> "RUNNING", records |-> {},
                                    composite |-> 0, passed |-> FALSE, version |-> 2])},
          QualitySays(r, "RUNNING"))

\* The status of the run does not matter: a metric may be recorded after the verdict.
\* Every record is new: Metrics bounds how many there are.
RecordMetric(c, r, metric, score, threshold, evidence, blocked) ==
    LET record == Recorded(metric, score, threshold, evidence, blocked)
    IN  /\ Present(r)
        /\ \A other \in row[r].records : other.metric # metric
        /\ Begin(c, {SaveEvaluationRun(r,
                        Over(Bumped(r, [records |-> row[r].records \union {record}]), row[r]))}, Nothing)

FinalizeEvaluationRun(c, r) ==
    LET verdict == Verdict(row[r].records)
    IN  /\ Present(r)
        /\ Begin(c, {SaveEvaluationRun(r,
                        Over(Bumped(r, [status |-> verdict, passed |-> verdict = "COMPLETED",
                                        composite |-> Composite(row[r].records)]), row[r]))},
                 QualitySays(r, verdict))

\* The graders that execute_dataset_evaluation chooses from give all or nothing.
Graded(matches) == IF matches THEN 100 ELSE 0

\* execute_dataset_evaluation: start_evaluation_run, record_metric for each case with
\* what the grader says of it (always with evidence), and finalize_evaluation_run, each
\* in a transaction of its own.  This is what it records.
ExecuteDatasetEvaluation(c, r, metric) ==
    /\ Present(r)
    /\ row[r].dataset # None
    /\ row[r].status = "RUNNING"
    /\ \E matches \in BOOLEAN : RecordMetric(c, r, metric, Graded(matches), 70, TRUE, FALSE)

-----------------------------------------------------------------------------
(* Verification and comparison *)

RunVerificationSuite(c, v, checks) ==
    LET gates == [g \in DOMAIN checks |-> GateStatus(checks[g])]
    IN  /\ ~Present(v)
        /\ Begin(c, {SaveVerificationReport(v, gates)}, QualitySays(v, Overall(gates)))

CompareBaseline(c, x, candidate, baseline) ==
    LET compared == Compared(candidate, baseline, 5, 70)
    IN  /\ ~Present(x)
        /\ Begin(c, {SaveBaselineComparison(x, compared)},
                 IF compared.regression THEN QualitySays(x, "regression") ELSE Nothing)

-----------------------------------------------------------------------------
(* What is asked for through the routes *)

DatasetRequests(c) ==
    \E d \in Datasets : CreateDataset(c, d) \/ \E k \in Cases : AddTestCase(c, d, k)

EvaluationRequests(c) ==
    \E r \in EvalRuns :
        \/ \E d \in Datasets \union {None} : StartEvaluationRun(c, r, d)
        \/ \E m \in Metrics, s \in Scores, t \in Thresholds, evidence, blocked \in BOOLEAN :
              RecordMetric(c, r, m, s, t, evidence, blocked)
        \/ \E m \in Metrics : ExecuteDatasetEvaluation(c, r, m)
        \/ FinalizeEvaluationRun(c, r)

Measured == UNION {[metrics -> Scores] : metrics \in SUBSET Metrics}

VerificationRequests(c) ==
    \/ \E v \in Reports, gates \in SUBSET Gates :
          \E checks \in [gates -> [evidence : BOOLEAN, clean : BOOLEAN]] :
              RunVerificationSuite(c, v, checks)
    \/ \E x \in Comparisons, candidate, baseline \in Measured :
          CompareBaseline(c, x, candidate, baseline)

QualityRunsNext == Finish \/ \E c \in Calls : EvaluationRequests(c)

QualityReportsNext ==
    Finish \/ \E c \in Calls : DatasetRequests(c) \/ VerificationRequests(c)

-----------------------------------------------------------------------------
(* Properties *)

QualityTypeOK ==
    /\ \A d \in Datasets : Present(d) => row[d] \in EvaluationDataset
    /\ \A r \in EvalRuns : Present(r) => row[r] \in EvaluationRunAggregate
    /\ \A v \in Reports : Present(v) => row[v] \in VerificationSuiteReport
    /\ \A x \in Comparisons : Present(x) => row[x] \in BaselineComparison

Earned(record) == record.evidence /\ record.score >= record.threshold

\* However commands on it race, a run is announced as completed only with metrics
\* stored, each of which has evidence and reaches its threshold.
CompletionEarned ==
    \A r \in EvalRuns :
        told'[r] # told[r] /\ told'[r] = "COMPLETED" =>
            row'[r].records # {} /\ \A record \in row'[r].records : Earned(record)
=============================================================================
