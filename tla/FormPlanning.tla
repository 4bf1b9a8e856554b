---------------------------- MODULE FormPlanning ----------------------------
(***************************************************************************)
(* The answers to one employer's form: what the planner decides for every  *)
(* field while the form is inspected, what the domain accepts as a plan,   *)
(* what the database accepts when the plan is stored, and what the         *)
(* operator confirms afterwards.                                           *)
(*                                                                         *)
(* A field is what the policy tells apart of a control: its type, its      *)
(* canonical name, its label, its sensitive category, whether its options  *)
(* look like a protected class and whether it is required.  A label equal  *)
(* to the name stands for the reviewed aliases.  A value is what coercion  *)
(* and validation make of it: "fit" is a valid answer, "loose" one that    *)
(* coercion rewrites (padding, 3.0 for 3), "odd" one the control's         *)
(* constraints refuse, "alien" one of another type, "private" one with     *)
(* sensitive text, "hostile" one with an instruction.                      *)
(***************************************************************************)
EXTENDS Integers, Sequences, FiniteSets, FiniteSetsExt

CONSTANTS
    Forms,          \* forms an employer may show: sequences of fields
    Evidence,       \* what the profile and the CV say: [identity, confirmed,
                    \*   cvProfile, cvCatalog], a value or "none" each
    Qualified,      \* artifacts of the published model qualification
    MaxRows,        \* bound on reusable answers
    MaxSwaps,       \* bound on changes of the model
    MaxInspections, \* bound on inspections
    MaxConfirms     \* bound on the operator's confirmations

VARIABLES
    evidence,       \* the profile version and the CV of the application
    model,          \* artifact the runtime serves, 0 without an identity
    answers,        \* rows of OperatorApprovedAnswer: [field, value, live]
    work,           \* the inspection under way
    plan,           \* the latest stored plan, or NoPlan
    counts          \* [swaps, inspections, confirms]: what the bounds count

formVars == <<evidence, model, answers, work, plan, counts>>

NoPlan == [form |-> <<>>, decisions |-> <<>>, blockers |-> {}, audit |-> 0,
           attached |-> FALSE, partial |-> FALSE]
Idle   == [pc |-> "idle", plan |-> NoPlan, stale |-> FALSE]

-----------------------------------------------------------------------------
(* What a field means (core/submission_domain.py).                         *)

IdentityNames   == {"email"}
SensitiveNames  == {"work_permit"}
FactNames       == {"cloud_platform"}
SensitiveLabels == {"work_permit", "religion"}
Injections      == {"instruction"}

\* Only an exact reviewed label makes a canonical name trustworthy.
Compatible(f) == f.name = "" \/ f.label = f.name
Reviewed(f)   == f.name \in IdentityNames \cup SensitiveNames \cup FactNames \cup {"resume"}

CvAttachment(f) ==
    f.type = "file" /\ IF f.name # "" THEN f.name = "resume" /\ Compatible(f)
                                      ELSE f.label = "resume"

ProtectedOptions(f) == f.protected

IsSensitive(f) ==
    \/ f.category # "" \/ f.type = "consent"
    \/ f.name \in SensitiveNames
    \/ ProtectedOptions(f)
    \/ f.label \in SensitiveLabels

OperatorReview(f) == IsSensitive(f) \/ f.label \in Injections

CategoryOf(name) == IF name = "work_permit" THEN "authorization" ELSE ""

\* Name, label and category agree about what is asked.
Scoped(f) ==
    IF f.type = "consent" THEN f.category = "consent"
    ELSE /\ f.name # "" /\ Compatible(f)
         /\ CategoryOf(f.name) # "" /\ f.category \in {"", CategoryOf(f.name)}

BlankAllowed(f) ==
    ~f.required /\ ~OperatorReview(f) /\ f.type \notin {"file", "consent", "unknown"}

-----------------------------------------------------------------------------
(* Decisions.                                                              *)

None == [disp |-> "none", by |-> "none", value |-> "none", ref |-> 0, model |-> 0,
         reason |-> ""]
Resolved(by, v, ref, m) ==
    [None EXCEPT !.disp = "resolved", !.by = by, !.value = v, !.ref = ref, !.model = m]
IsResolved(d) == d.disp = "resolved"

\* _coerce_answer; "none" when nothing usable is left.
Coerced(f, v) == CASE v = "none" \/ v = "alien" \/ f.type = "unknown" -> "none"
                   [] v = "loose" /\ f.type # "unknown" -> "fit"
                   [] OTHER -> v

\* _evidence_value_is_safe.
Safe(f, v, confirmed) ==
    v # "hostile" /\ (v = "private" => confirmed /\ OperatorReview(f))

Offer(f, by, v, ref) ==
    IF Coerced(f, v) = "none" THEN None ELSE Resolved(by, Coerced(f, v), ref, 0)

\* The label may name a fact where the employer gave no canonical name.
EvidenceName(f) == IF f.name # "" THEN f.name
                   ELSE IF f.label \in FactNames THEN f.label ELSE ""

\* selected_cv_facts: the facts two sources tell differently are dropped.
CvFact ==
    LET usable == {v \in {evidence.cvProfile, evidence.cvCatalog} :
                       v \notin {"none", "private", "hostile"}}
    IN IF Cardinality(usable) = 1 THEN CHOOSE v \in usable : TRUE ELSE "none"

\* Automatic answers need a reviewed meaning; files only a verified upload.
Fault_Automatic(f) == Compatible(f) /\ f.type # "file"

Automatic(f) ==
    Compatible(f) /\ ~(OperatorReview(f) /\ ~Scoped(f)) /\ f.type # "file"

AttachmentOffer(f, attached) ==
    IF CvAttachment(f) /\ attached THEN Resolved("attachment", "fit", 0, 0) ELSE None

IdentityOffer(f) ==
    IF Automatic(f) /\ f.name \in IdentityNames
    THEN Offer(f, "identity", evidence.identity, 0) ELSE None

ConfirmedOffer(f) ==
    IF Automatic(f) /\ EvidenceName(f) # "" /\ Safe(f, evidence.confirmed, TRUE)
    THEN Offer(f, "confirmed", evidence.confirmed, 0) ELSE None

\* The newest live answer of exactly this control in this context.
LiveAnswers(f) == {i \in DOMAIN answers : answers[i].live /\ answers[i].field = f}

ReusableOffer(f) ==
    IF Automatic(f) /\ f.name # "" /\ LiveAnswers(f) # {}
    THEN LET i == Max(LiveAnswers(f)) IN
         IF Safe(f, answers[i].value, TRUE)
         THEN Offer(f, "reusable", answers[i].value, i) ELSE None
    ELSE None

CvOffer(f) ==
    IF /\ Automatic(f) /\ ~OperatorReview(f)
       /\ EvidenceName(f) \in FactNames /\ Safe(f, CvFact, FALSE)
    THEN Offer(f, "cv", CvFact, 0) ELSE None

Offers(f, attached) ==
    <<AttachmentOffer(f, attached), IdentityOffer(f), ConfirmedOffer(f),
      ReusableOffer(f), CvOffer(f)>>

\* The first source that has something, in the fixed order of precedence.
Deterministic(f, attached) ==
    LET found == {i \in 1 .. 5 : Offers(f, attached)[i] # None}
    IN IF found = {} THEN None ELSE Offers(f, attached)[Min(found)]

\* What _local_llm may show the model: reviewed names and labels only, and
\* no sensitive text.
Citable(f) ==
    IF f.name \in FactNames \/ f.label \in FactNames \cup {"essay"}
    THEN {v \in {evidence.confirmed, CvFact} : v \notin {"none", "private", "hostile"}}
    ELSE {}

\* _local_llm: a supported answer that cites one of the facts, or a reason.
LlmOutcomes(f) ==
    IF Citable(f) = {} THEN {[None EXCEPT !.reason = "UNSUPPORTED_CLAIM"]}
    ELSE {[None EXCEPT !.reason = r] : r \in {"UNSUPPORTED_CLAIM", "LLM_UNAVAILABLE"}}
         \cup {Resolved("llm", Coerced(f, v), 0, model) :
                  v \in {c \in Citable(f) : Coerced(f, c) # "none"}}

Abstained(f, reason) ==
    [None EXCEPT !.disp = IF f.required \/ OperatorReview(f) THEN "operator"
                                                              ELSE "abstained",
                 !.reason = IF reason = "" THEN "REQUIRED_FIELD_UNKNOWN" ELSE reason]

SemanticReason(f) ==
    CASE CvAttachment(f) -> "ATTACHMENT_UNVERIFIED"
      [] ~CvAttachment(f) /\ f.name # "" /\ ~Compatible(f) /\ ~Reviewed(f) ->
            "UNSUPPORTED_CLAIM"
      [] OTHER -> ""

\* Blockers a decision leaves.
Blocks(f, d) == IF f.required /\ ~IsResolved(d)
                THEN {"REQUIRED_FIELD_UNKNOWN", d.reason} ELSE {}

-----------------------------------------------------------------------------
(* FormPlanV1.validate_plan, as the set of its objections.                 *)

\* What the operator said of this very form, as opposed to the profile.
Explicit(d) == d.by = "confirmed" /\ d.ref = -1

FitsControl(f, d) == d.value \in {"fit", "loose", "private"} /\ f.type # "unknown"

AttachmentObjection(f, d, attached) ==
    IF d.by = "attachment" THEN ~CvAttachment(f) \/ ~attached ELSE f.type = "file"

SensitiveObjection(f, d) ==
    /\ OperatorReview(f)
    /\ \/ d.by \notin {"confirmed", "reusable"}
       \/ d.by = "reusable" /\ ~Scoped(f)
       \/ d.by = "confirmed" /\ ~Explicit(d) /\ (~Scoped(f) \/ f.name = "")

DecisionObjections(f, d, attached) ==
    IF d.disp = "blank" THEN (IF BlankAllowed(f) THEN {} ELSE {"blank"})
    ELSE IF ~IsResolved(d) THEN {}
    ELSE {o \in {"attachment", "semantics", "sensitive", "value"} :
            \/ o = "attachment" /\ AttachmentObjection(f, d, attached)
            \/ o = "semantics" /\ ~Compatible(f) /\ ~Explicit(d)
            \/ o = "sensitive" /\ SensitiveObjection(f, d)
            \/ o = "value" /\ d.by # "attachment" /\ ~FitsControl(f, d)}

UsesModel(p) == \E i \in DOMAIN p.decisions : p.decisions[i].by = "llm"

Unanswered(p) == {i \in DOMAIN p.form : p.form[i].required /\ ~IsResolved(p.decisions[i])}

Objections(p) ==
    (UNION {DecisionObjections(p.form[i], p.decisions[i], p.attached) : i \in DOMAIN p.form})
    \cup (IF UsesModel(p) = (p.audit # 0) THEN {} ELSE {"audit"})
    \cup (IF UsesModel(p) /\ p.audit \notin Qualified THEN {"model"} ELSE {})
    \cup (IF Unanswered(p) = {} \/ "REQUIRED_FIELD_UNKNOWN" \in p.blockers
          THEN {} ELSE {"blockers"})

\* ready_for_permit.
Ready(p) == p # NoPlan /\ p.blockers = {} /\ p.attached

-----------------------------------------------------------------------------
Init ==
    /\ evidence \in Evidence
    /\ model = 1
    /\ answers = <<>>
    /\ work = Idle
    /\ plan = NoPlan
    /\ counts = [swaps |-> 0, inspections |-> 0, confirms |-> 0]

\* The inspector opens the form, the same one every time; the upload was
\* verified or it was not.
InspectForm ==
    /\ work.pc = "idle" /\ counts.inspections < MaxInspections
    /\ \E form \in Forms, attached \in BOOLEAN :
          /\ plan # NoPlan => form = plan.form
          /\ work' = [pc |-> "plan", stale |-> FALSE,
                      plan |-> [NoPlan EXCEPT !.form = form, !.attached = attached]]
    /\ counts' = [counts EXCEPT !.inspections = @ + 1]
    /\ UNCHANGED <<evidence, model, answers, plan>>

\* An answer of the model counts only with the identity of one artifact, the
\* same for the whole plan.
Fault_SameArtifact(p, d) == d.model # 0

SameArtifact(p, d) == d.model # 0 /\ p.audit \in {0, d.model}

\* One round of plan_fields, the model call of the field included.
PlanField ==
    LET p == work.plan
        f == p.form[Len(p.decisions) + 1]
        Take(d, extra, audit) ==
            work' = [work EXCEPT !.plan.decisions = Append(@, d),
                                 !.plan.blockers = @ \cup extra \cup Blocks(f, d),
                                 !.plan.audit = audit]
        first == Deterministic(f, p.attached)
    IN /\ work.pc = "plan" /\ Len(p.decisions) < Len(p.form)
       /\ \/ first # None /\ Take(first, {}, p.audit)
          \/ /\ first = None /\ ~(Automatic(f) /\ ~OperatorReview(f))
             /\ Take(Abstained(f, SemanticReason(f)), {}, p.audit)
          \/ /\ first = None /\ Automatic(f) /\ ~OperatorReview(f)
             /\ \E d \in LlmOutcomes(f) :
                  \/ ~IsResolved(d) /\ Take(Abstained(f, d.reason), {}, p.audit)
                  \/ IsResolved(d) /\ SameArtifact(p, d) /\ Take(d, {}, d.model)
                  \/ /\ IsResolved(d) /\ ~SameArtifact(p, d)
                     /\ LET why == IF d.model = 0 THEN "LLM_MODEL_MISSING"
                                                  ELSE "LLM_UNAVAILABLE"
                        IN Take(Abstained(f, why), {why}, p.audit)
       /\ UNCHANGED <<evidence, model, answers, plan, counts>>

\* The adapter's own blockers: an unverified upload, and, for the adapters
\* that go page by page, a form it could not walk to its end.
FinishPlan ==
    /\ work.pc = "plan" /\ Len(work.plan.decisions) = Len(work.plan.form)
    /\ \E partial \in BOOLEAN :
          /\ partial => work.plan.blockers # {}
          /\ work' = [work EXCEPT
                 !.pc = "built",
                 !.plan.partial = partial,
                 !.plan.blockers = @ \cup (IF work.plan.attached THEN {}
                                           ELSE {"ATTACHMENT_UNVERIFIED"})
                                     \cup (IF partial THEN {"FORM_PLAN_INCOMPLETE"}
                                           ELSE {})]
    /\ UNCHANGED <<evidence, model, answers, plan, counts>>

\* The constructor of FormPlanV1 raises or not.
ValidatePlan ==
    /\ work.pc = "built"
    /\ work' = IF Objections(work.plan) = {} THEN [work EXCEPT !.pc = "store"] ELSE Idle
    /\ UNCHANGED <<evidence, model, answers, plan, counts>>

\* _validate_reusable_answer_evidence: the row is still live and still says
\* what the plan says.
Fault_StillApproved(d) == TRUE

StillApproved(d) == d.by = "reusable" =>
                       answers[d.ref].live /\ answers[d.ref].value = d.value

\* persist_inspected_form_plan under the application's lock; a confirmation
\* meanwhile made another revision of the application.
StorePlan ==
    /\ work.pc = "store"
    /\ plan' = IF /\ ~work.stale
                  /\ \A i \in DOMAIN work.plan.decisions : StillApproved(work.plan.decisions[i])
               THEN work.plan ELSE plan
    /\ work' = Idle
    /\ UNCHANGED <<evidence, model, answers, counts>>

-----------------------------------------------------------------------------
(* confirm_application_answer.                                             *)

\* The blockers that answers can clear.
FieldLevel == {"REQUIRED_FIELD_UNKNOWN", "LLM_UNAVAILABLE", "LLM_MODEL_MISSING",
               "UNSUPPORTED_CLAIM", "ATTACHMENT_UNVERIFIED"}

\* _recompute_answer_blockers.
Fault_Recomputed(p) ==
    UNION {Blocks(p.form[i], p.decisions[i]) : i \in DOMAIN p.form}

Recomputed(p) ==
    (p.blockers \ FieldLevel)
    \cup (UNION {Blocks(p.form[i], p.decisions[i]) \cap FieldLevel : i \in DOMAIN p.form})

\* The plan with one decision replaced.
Replaced(p, i, d) ==
    LET q == [p EXCEPT !.decisions[i] = d] IN [q EXCEPT !.blockers = Recomputed(q)]

\* Every live answer of the same name and control gives way to the new one.
Approve(f, v) ==
    Append([i \in DOMAIN answers |->
              IF answers[i].field.name = f.name /\ answers[i].field.type = f.type
              THEN [answers[i] EXCEPT !.live = FALSE] ELSE answers[i]],
           [field |-> f, value |-> v, live |-> TRUE])

ConfirmAnswer ==
    /\ plan # NoPlan /\ counts.confirms < MaxConfirms
    /\ \E i \in DOMAIN plan.form, v \in {"fit", "loose", "odd"},
          how \in {"once", "reusable", "blank"} :
       LET f == plan.form[i]
           d == CASE how = "blank" -> [None EXCEPT !.disp = "blank", !.by = "operator"]
                  [] how = "once" -> Resolved("confirmed", v, -1, 0)
                  [] how = "reusable" -> Resolved("reusable", v, Len(answers) + 1, 0)
       IN /\ how = "blank" => v = "fit"
          /\ plan.partial => how = "reusable"
          /\ how = "reusable" => f.name # "" /\ Len(answers) < MaxRows
          /\ Objections(Replaced(plan, i, d)) = {}
          /\ plan' = Replaced(plan, i, d)
          /\ answers' = IF how = "reusable" THEN Approve(f, v) ELSE answers
    /\ counts' = [counts EXCEPT !.confirms = @ + 1]
    /\ work' = [work EXCEPT !.stale = work.pc # "idle"]
    /\ UNCHANGED <<evidence, model>>

\* The operator confirms the same control again for another application of the
\* same profile, CV and form (a first answer given there reads like one given
\* here).
ConfirmElsewhere ==
    /\ work.pc # "idle" /\ Len(answers) < MaxRows
    /\ \E i \in DOMAIN work.plan.form : LET f == work.plan.form[i] IN
          /\ f.name # "" /\ LiveAnswers(f) # {}
          /\ DecisionObjections(f, Resolved("reusable", "fit", 1, 0), TRUE) = {}
          /\ answers' = Approve(f, "fit")
    /\ UNCHANGED <<evidence, model, work, plan, counts>>

\* The runtime serves another artifact, or one it cannot identify; it matters
\* while fields are left to plan.
ModelSwaps ==
    /\ work.pc = "plan" /\ Len(work.plan.decisions) < Len(work.plan.form)
    /\ counts.swaps < MaxSwaps
    /\ \E m \in (0 .. 2) \ {model} : model' = m
    /\ counts' = [counts EXCEPT !.swaps = @ + 1]
    /\ UNCHANGED <<evidence, answers, work, plan>>

Next == \/ InspectForm \/ PlanField \/ FinishPlan \/ ValidatePlan \/ StorePlan
        \/ ConfirmAnswer \/ ConfirmElsewhere \/ ModelSwaps

-----------------------------------------------------------------------------
(* Properties.                                                             *)

\* The planner and the domain's validator, two implementations of one policy,
\* agree on where an answer may come from: a plan that was built is refused
\* for a value its control does not take or a model that is not qualified,
\* never for the provenance, the scope or the audit of an answer; but for a
\* control the page declares at odds with itself, which the planner answers
\* and the validator takes for an unconfirmed sensitive answer.
AtOdds(f) ==
    \/ CvAttachment(f) /\ OperatorReview(f)
    \/ /\ f.type = "consent"
       /\ f.name \in IdentityNames \/ (f.name = "" /\ f.label \in FactNames)

PlannerIsAccepted ==
    work.pc = "built" =>
        Objections(work.plan) \subseteq
            {"value", "model"} \cup {o \in {"sensitive"} : \E i \in DOMAIN work.plan.form :
                                                            AtOdds(work.plan.form[i])}

\* The model may be swapped between two fields and between an inspection and
\* a confirmation: every answer of a model in a plan is of the artifact the
\* plan's audit names.
OneModelPerPlan ==
    \A p \in {work.plan, plan} : \A i \in DOMAIN p.decisions :
        p.decisions[i].by = "llm" => p.decisions[i].model = p.audit

\* Whatever was inspected, refused and confirmed in whatever order, a plan
\* that is ready for a permit is of a whole form with its verified upload,
\* every required field answered, and every sensitive one by the operator.
ReadyMeansReviewed ==
    Ready(plan) =>
        /\ ~plan.partial
        /\ Unanswered(plan) = {}
        /\ \A i \in DOMAIN plan.form :
              OperatorReview(plan.form[i]) /\ IsResolved(plan.decisions[i])
                  => plan.decisions[i].by \in {"confirmed", "reusable"}

\* An answer reused by an inspection of minutes is still approved, in these
\* words, when the plan is stored.
StoredReuseIsCurrent ==
    work.pc = "store" /\ work'.pc = "idle" /\ plan' # plan =>
        \A i \in DOMAIN plan'.decisions :
            LET d == plan'.decisions[i] IN
            d.by = "reusable" => answers[d.ref].live /\ answers[d.ref].value = d.value

=============================================================================
