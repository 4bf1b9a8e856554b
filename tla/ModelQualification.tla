------------------------- MODULE ModelQualification -------------------------
(***************************************************************************)
(* scripts/evaluate_v4_local_model_qualification.py: the run that measures *)
(* the local model over four datasets and publishes the report on which    *)
(* llm/qualification_registry.py later lets the model work.  A run takes   *)
(* hours; sources, fixtures, packages and the model itself may change      *)
(* under it, and any step may raise, which ends in a blocked report.       *)
(*                                                                         *)
(* The evaluator's own code is read when its process imports it, before it *)
(* attests the sources: a change in between is one it cannot see.          *)
(*                                                                         *)
(* A dataset is a number of rows; what the model makes of a row is an      *)
(* oracle, what the evaluator counts of it is not.  A change gives new     *)
(* bytes: going back to the old ones in mid-run is outside the model, as   *)
(* it is outside a comparison of digests.                                  *)
(***************************************************************************)
EXTENDS Naturals, Sequences, FiniteSets

CONSTANTS
    Rows,          \* rows of each dataset, by task
    MinHigh,       \* MINIMUM_HIGH_CONFIDENCE_CASES
    MinModel,      \* MINIMUM_QWEN_ROUTING_PREDICTIONS
    MaxDrift       \* bound: changes of inputs, environment or model

VARIABLES
    world,         \* versions of the inputs and the environment, and which model is served
    run,           \* the qualification process
    report,        \* the report it built
    published,     \* the report the registry reads
    drifts

vars == <<world, run, report, published, drifts>>

\* _QUALIFICATION_TASK_ORDER
Tasks == <<"cv_routing", "form_resolution", "full_material", "malformed_boundaries">>
Counters == {"cases", "right", "wrong", "abstain", "highRight", "highWrong", "scope",
             "modelRight", "modelWrong", "errors", "unsafe",
             "typed", "attempts", "payloads", "successes", "provider", "good"}
Inference == {"typed", "attempts", "payloads", "successes"}
Zero == [f \in Counters |-> 0]
Plus(a, b) == [f \in Counters |-> a[f] + b[f]]
NoReport == [status |-> "none", inputs |-> 0, env |-> 0, earned |-> FALSE]

Fresh(at) == [at |-> at, stage |-> "preflight", row |-> 0, done |-> 0, inputs |-> 0, env |-> 0,
              code |-> {}, moved |-> FALSE, read |-> {}, stable |-> FALSE, ended |-> FALSE,
              task |-> [t \in 1 .. 4 |-> Zero], total |-> Zero]

Init ==
    /\ world = [inputs |-> 0, env |-> 0, model |-> "exact"]
    /\ run = Fresh("start")
    /\ report = NoReport /\ published = NoReport
    /\ drifts = 0

----------------------------------------------------------------------------
\* The process starts: module by module the evaluated code and its packages
\* are imported as they are on disk at that moment.
Import ==
    /\ run.at = "start"
    /\ \E next \in {"start", "preflight"} :
          run' = [run EXCEPT !.at = next, !.code = @ \cup {<<world.inputs, world.env>>}]
    /\ UNCHANGED <<world, report, published, drifts>>

\* _qualification_input_attestation: the digests of the sources and datasets
\* on disk, which are not read again for the code that is already loaded.
Attest ==
    /\ run.at = "preflight"
    /\ run' = [run EXCEPT !.at = "load", !.inputs = world.inputs]
    /\ UNCHANGED <<world, report, published, drifts>>

\* _load_json_rows and _load_form_rows, the environment, and _require_exact_model.
Load ==
    /\ run.at = "load" /\ world.model = "exact"
    /\ run' = [run EXCEPT !.at = "row", !.stage = Tasks[1], !.read = @ \cup {world.inputs},
                          !.env = world.env]
    /\ UNCHANGED <<world, report, published, drifts>>

\* _InstrumentedOllamaClient: what one typed generation adds to the counters.
\* The runtime refuses a model whose digest is not the qualified one.
Generation(attempts, payloads, success) ==
    [Zero EXCEPT !.typed = 1, !.attempts = attempts, !.payloads = payloads,
                 !.successes = success, !.provider = 1, !.good = success]
Answered == {Generation(1, 1, 1), Generation(2, 2, 1)}
Unanswered == {Generation(0, 0, 0), Generation(1, 0, 0), Generation(2, 2, 0)}

Case(f) == [Zero EXCEPT !.cases = 1, ![f] = 1]

\* _evaluate_routing: the rules decide, or the model is asked.
Confident(c) ==
    {c, [c EXCEPT !.highRight = c.right, !.highWrong = c.wrong]}
RoutingRow ==
    UNION {Confident(c) : c \in
        {Case("abstain"), Case("right"), Case("wrong")}
        \cup {Plus([Case("right") EXCEPT !.scope = 1, !.modelRight = 1], g) : g \in Answered}
        \cup {Plus([Case("wrong") EXCEPT !.scope = 1, !.modelWrong = 1], g) : g \in Answered}
        \cup {Plus([Case("abstain") EXCEPT !.scope = 1, !.errors = 1], g) : g \in Unanswered}}

\* _evaluate_forms: every resolved answer that does not match is unsupported
\* and eligible; a sensitive field must not reach the model.
FormRow ==
    {Case("right"), Case("abstain"), [Case("wrong") EXCEPT !.unsafe = 1]}
    \cup {Plus([Case("right") EXCEPT !.scope = 1, !.modelRight = 1], g) : g \in Answered}
    \cup {Plus([Case("wrong") EXCEPT !.scope = 1, !.modelWrong = 1, !.unsafe = 1], g) :
             g \in Answered}
    \cup {Plus([Case("abstain") EXCEPT !.scope = 1], g) : g \in Answered \cup Unanswered}
    \cup {Plus([Case("abstain") EXCEPT !.unsafe = 1], g) : g \in Unanswered}

\* _evaluate_materials: a package is eligible, with its claims, or blocked;
\* any exception of the generation counts as a failure.
MaterialRow ==
    {Plus([Case("right") EXCEPT !.scope = 1, !.modelRight = 1], g) : g \in Answered}
    \cup {Plus([Case("abstain") EXCEPT !.scope = 1, !.modelWrong = 1], g) : g \in Answered}
    \cup {Plus([Case("abstain") EXCEPT !.scope = 1, !.errors = 1], g) : g \in Unanswered}

\* _evaluate_malformed_boundaries: hostile inputs, without the model.
MalformedRow == {Case("right"), [Case("wrong") EXCEPT !.unsafe = 1]}

RowOutcomes(t) ==
    CASE t = 1 -> RoutingRow [] t = 2 -> FormRow [] t = 3 -> MaterialRow [] OTHER -> MalformedRow

\* The routing rules and the malformed rows are read from disk in their phase.
ReadInPhase(t) == IF t \in {1, 4} THEN {world.inputs} ELSE {}

Row ==
    LET t == run.done + 1 IN
    /\ run.at = "row" /\ run.done < 4 /\ run.row < Rows[t]
    /\ \E outcome \in RowOutcomes(t) :
          /\ outcome.payloads > 0 => world.model = "exact"
          /\ run' = [run EXCEPT !.row = @ + 1, !.task[t] = Plus(@, outcome),
                                !.total = Plus(@, outcome),
                                !.read = @ \cup (IF run.row = 0 THEN ReadInPhase(t) ELSE {})]
    /\ UNCHANGED <<world, report, published, drifts>>

----------------------------------------------------------------------------
\* The thresholds.  A precision is at least 0.95 of something.
Precise(right, wrong) == right + wrong > 0 /\ 20 * right >= 19 * (right + wrong)
EveryScopedCaseAnswered(c) ==
    /\ c.typed = c.scope /\ c.provider = c.scope /\ c.good = c.scope /\ c.successes = c.scope
    /\ c.attempts >= c.scope /\ c.payloads >= c.scope

RoutingGate(c) ==
    /\ Precise(c.highRight, c.highWrong) /\ c.highRight + c.highWrong >= MinHigh
    /\ EveryScopedCaseAnswered(c)
    /\ Precise(c.modelRight, c.modelWrong) /\ c.modelRight + c.modelWrong >= MinModel
    /\ c.errors = 0

\* _form_threshold_passes, at a size where 95% of the scope is all of it
FormGate(c) ==
    /\ Precise(c.right, c.wrong) /\ Precise(c.modelRight, c.modelWrong)
    /\ EveryScopedCaseAnswered(c) /\ c.unsafe = 0

MaterialGate(c) ==
    /\ EveryScopedCaseAnswered(c) /\ c.typed = c.cases /\ c.errors = 0
    /\ 20 * c.right >= 19 * c.cases
    /\ c.modelRight + c.modelWrong >= c.right /\ Precise(c.modelRight, c.modelWrong)
    /\ c.unsafe = 0

MalformedGate(c) == c.right = c.cases /\ c.unsafe = 0 /\ c.typed = 0 /\ c.attempts = 0

GatePassed(t, c) ==
    CASE t = 1 -> RoutingGate(c) [] t = 2 -> FormGate(c)
      [] t = 3 -> MaterialGate(c) [] OTHER -> MalformedGate(c)

\* The validators of the four tasks: the aggregates add up.
ProvidersAgree(c) ==
    /\ c.good <= c.provider /\ c.provider <= c.cases
    /\ c.successes <= c.typed /\ c.payloads <= c.attempts /\ c.successes <= c.payloads
RoutingTaskValid(c) ==
    /\ c.right + c.wrong + c.abstain = c.cases
    /\ c.highRight + c.highWrong <= c.right + c.wrong
    /\ c.modelRight + c.modelWrong <= c.scope /\ c.scope <= c.cases
    /\ ProvidersAgree(c)
FormTaskValid(c) ==
    /\ c.right + c.wrong + c.abstain = c.cases
    /\ c.modelRight + c.modelWrong <= c.scope
    /\ ProvidersAgree(c)
MaterialTaskValid(c) ==
    c.right + c.abstain = c.cases /\ c.errors <= c.abstain /\ ProvidersAgree(c)
MalformedTaskValid(c) == c.right + c.wrong = c.cases
TaskValid(t, c) ==
    /\ c.cases = Rows[t]
    /\ CASE t = 1 -> RoutingTaskValid(c) [] t = 2 -> FormTaskValid(c)
         [] t = 3 -> MaterialTaskValid(c) [] OTHER -> MalformedTaskValid(c)

\* The end of a phase: its task is validated, then completed in order.
NextStage == IF run.done + 1 < 4 THEN Tasks[run.done + 2] ELSE "final_readiness"
Fault_StageAfterTask == run.stage
StageAfterTask == NextStage
FinishTask ==
    /\ run.at = "row" /\ run.done < 4 /\ run.row = Rows[run.done + 1]
    /\ TaskValid(run.done + 1, run.task[run.done + 1])
    /\ run' = [run EXCEPT !.done = @ + 1, !.row = 0, !.stage = StageAfterTask,
                          !.at = IF run.done = 3 THEN "final" ELSE "row"]
    /\ UNCHANGED <<world, report, published, drifts>>

\* The second _require_exact_model and environment; an exception there is a
\* failed threshold, not a blocked run.
Stable == world.model = "exact" /\ world.env = run.env
FinalReadiness ==
    /\ run.at = "final"
    /\ run' = [run EXCEPT !.at = "aggregate", !.stage = "aggregate_validation",
                          !.stable = Stable, !.ended = world.model = "exact" /\ world.env = run.env]
    /\ UNCHANGED <<world, report, published, drifts>>

\* _require_qualification_inputs_unchanged and the thresholds.
OverallPass ==
    /\ run.stable /\ run.total.successes > 0
    /\ \A t \in 1 .. 4 : GatePassed(t, run.task[t])

\* The run was one of these sources and this environment, but for a change
\* between the imports and what was attested.
Earned ==
    /\ run.read = {run.inputs} /\ run.ended
    /\ run.code = {<<run.inputs, run.env>>} \/ run.moved
Fault_Aggregate ==
    /\ run.at = "aggregate"
    /\ report' = [status |-> IF OverallPass THEN "passed" ELSE "failed",
                  inputs |-> world.inputs, env |-> run.env, earned |-> Earned]
    /\ run' = [run EXCEPT !.at = "built"]
    /\ UNCHANGED <<world, published, drifts>>
Aggregate ==
    /\ run.at = "aggregate" /\ world.inputs = run.inputs
    /\ report' = [status |-> IF OverallPass THEN "passed" ELSE "failed",
                  inputs |-> run.inputs, env |-> run.env, earned |-> Earned]
    /\ run' = [run EXCEPT !.at = "built"]
    /\ UNCHANGED <<world, published, drifts>>

\* main: an exception anywhere, the drift of the inputs among them, becomes a
\* blocked report about the inputs as they are now,
Block ==
    /\ run.at \in {"preflight", "load", "row", "final", "aggregate"}
    /\ report' = [status |-> "blocked", inputs |-> world.inputs, env |-> run.env, earned |-> FALSE]
    /\ run' = [run EXCEPT !.at = "built"]
    /\ UNCHANGED <<world, published, drifts>>

\* or, when that report cannot be built either, or the process dies before it
\* has one, nothing: what was published stays.
RecoveryFails ==
    /\ run.at \in {"start", "preflight", "load", "row", "final", "aggregate"}
    /\ run' = Fresh("ended")
    /\ UNCHANGED <<world, report, published, drifts>>

----------------------------------------------------------------------------
\* validate_aggregate_report: the blocked report and its progress,
RequiredCompleted ==
    CASE run.stage \in {"preflight", Tasks[1]} -> 0
      [] run.stage = Tasks[2] -> 1
      [] run.stage = Tasks[3] -> 2
      [] run.stage = Tasks[4] -> 3
      [] OTHER -> 4
Completed(f) ==
    LET part(t) == IF t <= run.done THEN run.task[t][f] ELSE 0
    IN  part(1) + part(2) + part(3) + part(4)
BlockedReportValid ==
    /\ RequiredCompleted = run.done
    /\ \A t \in 1 .. run.done : TaskValid(t, run.task[t])
    /\ \A f \in Inference : Completed(f) <= run.total[f]
    /\ run.done = 4 => \A f \in Inference : Completed(f) = run.total[f]

\* the counters of the client,
InferenceValid ==
    /\ run.total.successes <= run.total.typed /\ run.total.payloads <= run.total.attempts
    /\ run.total.successes <= run.total.payloads

\* and the completed report, whose inputs must still be the current ones.
CompletedReportValid ==
    /\ run.done = 4
    /\ \A t \in 1 .. 4 : TaskValid(t, run.task[t])
    /\ \A f \in Inference : Completed(f) = run.total[f]

ReportCurrent == report.inputs = world.inputs
ReportConsistent ==
    InferenceValid /\ IF report.status = "blocked" THEN BlockedReportValid ELSE CompletedReportValid

\* write_report: the Markdown, one more validation, then the JSON; whatever
\* fails on the way, or dies, leaves the JSON that was there.
Write ==
    /\ run.at = "built"
    /\ \/ ReportConsistent /\ ReportCurrent /\ published' = report
       \/ UNCHANGED published
    /\ run' = Fresh("ended")
    /\ UNCHANGED <<world, report, drifts>>

\* Somebody edits a source or a fixture, upgrades a package, or pulls a model;
\* a history flag says that it fell between the imports and the attestation.
Hidden(stages) == run.at \in stages /\ run.code # {}
Drift ==
    /\ drifts < MaxDrift /\ drifts' = drifts + 1
    /\ \/ /\ world' = [world EXCEPT !.inputs = drifts + 1]
          /\ run' = [run EXCEPT !.moved = @ \/ Hidden({"start", "preflight"})]
       \/ /\ world' = [world EXCEPT !.env = drifts + 1]
          /\ run' = [run EXCEPT !.moved = @ \/ Hidden({"start", "preflight", "load"})]
       \/ /\ world' = [world EXCEPT !.model = IF @ = "exact" THEN "other" ELSE "exact"]
          /\ UNCHANGED run
    /\ UNCHANGED <<report, published>>

Next ==
    \/ Import \/ Attest \/ Load \/ FinishTask \/ FinalReadiness \/ Aggregate
    \/ Block \/ RecoveryFails \/ Write \/ Drift
    \/ Row

Spec == Init /\ [][Next]_vars

----------------------------------------------------------------------------
\* qualified_model_report_is_current and is_qualified_local_model_identity
Qualified ==
    /\ published.status = "passed" /\ published.inputs = world.inputs
    /\ published.env = world.env /\ world.model = "exact"

\* The registry only lets the model work on a report whose run read exactly
\* these datasets and began and ended on this model and environment, whatever
\* changed in the hours it took.  Its code was these sources and packages too,
\* with one exception that nothing in the code closes: a change between the
\* imports of the process and the digests it then takes.
QualifiedIsEarned == Qualified => published.earned

\* A report that an evaluation built, of a run that ended well or badly at any
\* stage, is one its own validator accepts: an honest failure is not refused.
HonestReportValid == run.at = "built" => ReportConsistent

QualificationIsHonest == QualifiedIsEarned /\ HonestReportValid

----------------------------------------------------------------------------
(* The inductive invariant. *)

Counts == [Counters -> Nat]
Reports == [status : {"none", "blocked", "passed", "failed"}, inputs : Nat, env : Nat,
            earned : BOOLEAN]
EvaluationShape ==
    /\ world \in [inputs : Nat, env : Nat, model : {"exact", "other"}]
    /\ drifts \in Nat /\ world.inputs <= drifts
    /\ run \in [at : {"start", "preflight", "load", "row", "final", "aggregate", "built", "ended"},
                stage : {"preflight", "final_readiness", "aggregate_validation"}
                        \cup {Tasks[t] : t \in 1 .. 4},
                row : Nat, done : 0 .. 4, inputs : Nat, env : Nat,
                code : SUBSET (Nat \X Nat), moved : BOOLEAN, read : SUBSET Nat,
                stable : BOOLEAN, ended : BOOLEAN, task : [1 .. 4 -> Counts], total : Counts]
    /\ report \in Reports /\ published \in Reports

\* Where the run is, its stage and how many tasks it completed say the same.
StageFollows ==
    /\ RequiredCompleted = run.done
    /\ run.at = "row" => run.done < 4 /\ run.stage = Tasks[run.done + 1]
    /\ run.at \in {"start", "preflight", "load"} => run.done = 0
    /\ run.at \in {"final", "aggregate"} => run.done = 4
    /\ run.at = "built" /\ report.status # "blocked" => run.done = 4

\* The client's counters are the sums of the tasks' own, the completed ones of
\* which are valid.
Sound(c) == c.successes <= c.typed /\ c.payloads <= c.attempts /\ c.successes <= c.payloads
CountersFollow ==
    /\ \A t \in 1 .. run.done : TaskValid(t, run.task[t])
    /\ Sound(run.total)
    /\ \A f \in Counters :
          run.total[f] = run.task[1][f] + run.task[2][f] + run.task[3][f] + run.task[4][f]

\* Versions only grow: what was read under way is no older than what was
\* attested, and no newer than what there is.
InputsFollow ==
    /\ run.at \in {"load", "row", "final", "aggregate"} =>
          run.inputs <= world.inputs /\ \A r \in run.read : run.inputs <= r /\ r <= world.inputs
    /\ run.at \in {"start", "preflight"} => run.read = {}
    /\ run.at \in {"row", "final", "aggregate"} => run.read # {}
    /\ run.at = "aggregate" /\ run.stable => run.ended
    /\ run.at = "built" /\ report.status = "passed" => report.earned
    /\ published.status = "passed" => published.earned

\* What was imported is what is on disk until it is attested, and what was
\* attested from then on, unless a change fell in between.
CodeFollows ==
    /\ run.at \in {"preflight", "load", "row", "final", "aggregate"} => run.code # {}
    /\ ~run.moved =>
          \A c \in run.code :
             /\ run.at \in {"start", "preflight"} => c = <<world.inputs, world.env>>
             /\ run.at = "load" => c = <<run.inputs, world.env>>
             /\ run.at \in {"row", "final", "aggregate"} => c = <<run.inputs, run.env>>

EvaluationInv ==
    EvaluationShape /\ StageFollows /\ CountersFollow /\ InputsFollow /\ CodeFollows

=============================================================================
