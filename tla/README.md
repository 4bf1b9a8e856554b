# A TLA+ model of the job-apply agent

The agent collects job postings, writes application materials with a language
model, lets an operator review them, and sends a reviewed application to the
employer through a browser. What makes the program hard is not the form filling
but the sentence its README keeps coming back to: *one reviewed application, at
most one final action, and never a guess about whether it happened*. This
directory models the code that keeps this sentence and the machinery around it,
checks it with TLC on small instances, and proves with TLAPS, for every size,
what the runs check apart from liveness.

    cd tla
    tlc -config MCKernel_race.cfg MCKernel      # any run of PROJECT.json
    tlapm SubmissionProofs.tla                  # any *Proofs.tla

## 1. Inventory

| Component | State | Operations | Talks to |
|---|---|---|---|
| Stage machine (`core/submission_state.py`, `core/submission_domain.py`) | none; two tables | `can_transition` | the worker, before every stage it writes |
| Mutation gate (`core/application_mutations.py`, `core/application_revision.py`, routes of `api/`) | `Application`, `FormPlan` | lock for mutation, bump revision, inspect, confirm answer, approve, retry, skip, reconcile | rows shared with the worker, through row locks |
| Send admission (`core/submission_service.py`, `core/submit_permits.py`) | `Submission`, `FinalSubmitPermit`, `SubmissionCommand` | admit one or a batch, replay, issue, validate and consume a permit | the outbox the worker drains |
| Submission worker (`worker/submission_commands.py`) | claims (token, time), one browser | claim, execute, preflight, ready, boundary, commit, evidence; sweep stale claims | governor, policy, adapters |
| Browser adapters (`submitters/`) | a page, a prepared action, an outbound gate | inspect, preflight, commit, clean up | worker, employer |
| Form planning (`core/form_planning.py`, `core/form_plan_persistence.py`) | plan, reusable answers | plan fields, validate, store, confirm | adapters, operator, language model |
| Rate governor (`core/governor.py`) | Redis keys: budget of a day, next action, kill, cooldown, trips, reservations | reserve, kill, resume, trip | called at the commit boundary |
| Cloud control plane (`control_plane/`) | review grants and tombstones, commands with claim leases, event log; device, kill-switch queue | receive grant, revocation, event, heartbeat; create, poll, acknowledge | the runner, over HTTP |
| Runner and outbox (`worker/control_plane_*.py`) | command receipts, outbox rows, one loop | heartbeat, obey the kill switch, publish revocations and grants, poll, admit, acknowledge, deliver events | control plane, send admission |
| Review grants (`core/control_plane_review_permits.py`) | grant rows with the delivery state of projection and revocation | mint, supersede, validate, consume; claim, mark and release deliveries | runner, local admission |
| Automation policy (`core/automation_policy_service.py`, `worker/autopilot.py`) | signed policy, kill switch, decisions | sign, revoke, switch, decide, dispatch | send admission, commit boundary |
| Artifact snapshot (`core/automation_artifact_snapshot.py`) | private copies of what a policy was signed for | stage, publish, verify | policy |
| Adapter qualification (`core/adapter_qualification_service.py`) | qualifications, canaries | dry run, authorise, consume, promote | policy, commit boundary |
| Autopilot inspection (`worker/autopilot_inspection.py`) | leased runs | enqueue, claim, fence, store, dispatch, finish | inspection, policy |
| Restore safety (`core/restore_safety.py`) | every row of a restored backup | quarantine what was in flight | every row above |
| Discovery mesh (`discovery/`) | runs, cursors, occurrences, locks; a Gmail label | lock, synchronise, page, reconcile, close stale runs | job pipeline |
| Job pipeline (`worker/tasks.py`, `drainer.py`, `rescore.py`) | `Job`, `Application`, broker messages | score, hand off, generate, rescore, realign, expire | mutation gate, language model |
| Local LLM runtime (`llm/ollama_runtime.py`) | process lock, Redis lease, circuit | acquire, generate, release, trip | pipeline, planning |
| Model qualification (`scripts/evaluate_v4_local_model_qualification.py`, `llm/qualification_registry.py`) | a report | evaluate, validate, publish | local LLM runtime |
| Control-plane identity (`scripts/control_plane_identity.py`) | versions on disk, `current.json`, hosted variables, the clipboard | create, select, configure, copy the token | control plane |
| Single instance guard (`core/single_instance.py`, `core/portal_sessions.py`) | lease file of a browser profile, endpoint lock | acquire, take over, release | adapters, dashboard |
| WhatsApp bridge (`bridge/`) | one index of what was forwarded, a rescan schedule | ready, message, rescan, disconnect | webhook route |
| Ingestion and parsers, CV routing and job fit | none | network and text | pipeline |
| Dashboard, metrics, notifications | none of their own | read, report | everything |

### What is hard here

* **Interleavings.** API handlers, Celery workers, the sweeper and the browser
  share four tables. Transactions take one row lock, but a handler is often two
  transactions with a browser or a language model between them, and a worker's
  run is six.
* **A crash that cannot be undone.** Between the click and the stored evidence
  the process can die, or the adapter can raise. Nobody may conclude that
  nothing happened.
* **A page that is not ours.** Between the review and the submit every `await`
  of an adapter is a point where the employer's page may change, post something
  by itself, or move on.
* **Leases.** Claims, inspection runs, discovery runs, the model and a browser
  profile are all held until a clock says otherwise, not until their holder is
  dead. Slow holders come back.
* **Many clocks.** Plan, permit, prepared handle, claim, cooldown, grant, policy
  hours and circuit expire independently; the code compares only some of them.
* **Optimistic transactions.** The governor's budget is guarded by `WATCH`
  alone, under a key whose name changes at midnight.
* **Two databases and a network between them.** The control plane and the runner
  each commit on their own; requests and replies are lost, and a request the
  runner gave up on can still be handled after it retried or changed its mind.
* **Work from a stale read.** Scoring, generation, evaluation and discovery take
  minutes to hours over inputs anybody may change meanwhile.

What makes each component correct is in the properties below; PROJECT.json lists
every hazard at the line where it bites, with the properties that cover it.

## 2. Modules

| Module | Models | Rests on |
|---|---|---|
| `SubmissionState` | the two transition tables | - |
| `SubmissionKernel` | mutation gate, Send admission, worker, sweeper | `SubmissionState` |
| `FinalAction` | what the kernel promises about one application (abstract) | - |
| `SubmissionInvariant` | the kernel's inductive invariant, and its refinement mapping to `FinalAction` | `SubmissionKernel`, `FinalAction` |
| `MCKernel` | the kernel for TLC: symmetry | `SubmissionInvariant` |
| `Governor` | the rate governor | - |
| `HostedQueue` | the control plane's handlers and tables | `SubmissionState` |
| `RunnerGateway`, `MCGateway` | runner, review grants and outbox, composed with the control plane and the network | `HostedQueue` |
| `KillRelay` | the remote stop and the heartbeat, on both sides of the network | - |
| `OneShotSend` | what an adapter promises the worker (abstract) | - |
| `CandidatePage` | the employer's page as four of the adapters meet it | - |
| `GreenhouseAdapter`, `LeverAdapter`, `SmartRecruitersAdapter`, `AshbyAdapter`, `WorkdayAdapter` | the certified adapters | `CandidatePage` (not Greenhouse) |
| `Adapters` | the five adapters behind one address, refining `OneShotSend` | all of these |
| `AutomationState` | the rows autopilot reads and writes | - |
| `AdapterQualification`, `AutomationPolicy` | how authority is earned, signed, spent and stopped | `AutomationState` |
| `AutopilotInspection`, `ArtifactSnapshot`, `RestoreQuarantine` | leased inspection runs, the signed copies, a restored backup | - |
| `Autopilot` | these five, one in focus | all of these |
| `FormPlanning` | answers to a form: planned, validated, stored, confirmed | - |
| `JobPipeline` | one job from scoring to its application | - |
| `Discovery`, `AlertMailbox` | a job board and a Gmail label, scanned | - |
| `InferenceRuntime`, `ModelQualification` | the local model: its lease, and the report that admits it | - |
| `IdentityProvisioning`, `TokenClipboard` | the control plane's identity and its token | - |
| `HostGuards`, `WhatsAppBridge` | file locks of the host; the bridge | - |
| `Host` | the governor and the parts of the host, one in focus | `Governor` and all of these |
| `MCAdapters`, `MCAutopilot`, `MCHost` | `Adapters`, `Autopilot` and `Host` for TLC: values, bounds, symmetry | each the one it is named for |
| `SubmissionProofs` | types; claims, clicks and what is remembered of them; the attempts of one application over time; content, plans, permits, redelivery; the refinement of `FinalAction` | `SubmissionInvariant` |
| `GatewayProofs` | the control plane, the runner and the network | `RunnerGateway` |
| `AdapterProofs` | the five adapters; the refinement of `OneShotSend` | `Adapters` |
| `AutopilotProofs` | policy, inspection, snapshot, restore | `Autopilot` |
| `HostProofs` | the governor, the local model and its report, the remote stop, the clipboard, file locks, the bridge, the identity | `Host` |
| `JobProofs` | the pipeline of one job, its form, the alert mailbox | `Host` |
| `BoardProofs` | the discovery of one board | `Host` |

### SubmissionKernel

The variables are the tables. `application`, `plan`, `attempt` and `command` are
the `Application`, `FormPlan`, `Submission` (with its `FinalSubmitPermit`) and
`SubmissionCommand` rows; a command has the id of its attempt. `worker` is what
a Celery process holds in memory: where it is in `execute_submission_command`,
the token it read, the prepared handle. `inspection` is the other thing a
process remembers across a dropped lock, the revision an inspection started
from. `clicks` is what the employer saw; no code reads it.

*Steps.* A database transaction that takes the application's row lock is one
step. Two kinds of handlers are therefore several steps: inspection (read and
unlock, browser, relock and store) and the worker (claim; first read; preflight;
ready; boundary; second lock; click; evidence). From `LockForCommit` to
`FinishConfirmed` or `FinishUnknown` the worker holds the row lock over the
browser call, as the code does, and every other transaction on this application
waits (`Locked`). Regeneration and realignment read, generate without a lock,
and write only when the revision is unchanged; since nothing is kept in between,
they are one guarded write.

*Time.* Expiry times are remaining lifetimes, claim times are ages; `Tick` moves
all of them. No clock needs a bound, and every order in which the five clocks
can run out is reached.

*Data.* Content is its revision number. A review is `preparedRevision` and
`approval_source`, a plan its id, the revision it belongs to, and whether it is
ready. Reason codes are folded into the two classes the code treats differently
(those that invalidate the plan, and the others).

*Left out of the kernel:* the content of plans and answers (`FormPlanning`), the
governor's answer (`Governor`; here the boundary may refuse for any reason),
autopilot and canary authority (`AutomationPolicy`), what the adapter does with
its page (the `*Adapter` modules; here an oracle that acts, raises or returns
evidence), and outbox events, which no kernel transaction reads back.

### FinalAction

Per application a phase, `open`, `acting`, `uncertain` or `closed`, and a flag
`sent`. Authority may be spent only when `open`; the employer receives at most
one application while `acting`; evidence closes it, everything else makes it
`uncertain`, and only a human leaves `uncertain`. The mapping reads the phase off
the attempt rows (`PhaseOf`) and the flag off what the employer saw of attempts
that nobody ruled out (`SentOf`).

### Governor

Each Redis round trip of `_reserve_shared` is a step; a caller is marked `dirty`
when another client writes a key in its watch list. Budget, gap and stops are
one value per key. The key of the budget is computed three times in the code,
for `WATCH`, for the read and for the queued `INCR`; the model keeps the first
two and lets `Queue` choose the third, any day since the read. `Queue` also
computes the end of the gap, as lines 238-241 do, and `EXEC` writes what is left
of it by then (`queued`). `killedThroughout`, `sinceLast`, `lastStall` and the
`stall` of a queued transaction are history. A reservation key lives for 24 hours, far
longer than a claim, so its expiry is not observable and is left out.

### HostedQueue and RunnerGateway

`HostedQueue` has the control plane's three tables, `hosted` (review grants),
`command` and `log` (runner events), and a guard and an effect per handler; a
refused request rolls back. `RunnerGateway` adds the runner's database
(`grant`, `attempt` with its receipt, `outbox`, and of the application whether it
was `skipped` and which grants its current content matches, `fresh`), the runner
process and the network.

*Steps.* `runner.pc` is the place in `run_once`, `runner.wire` how far the
current request has got. Each local transaction is a step, each handler of the
control plane is a step, and the two are connected only by messages: a request
that is waited for can be handled (`HandleAwaited`), refused, or given up
(`Failed`, `Crash`), in which case it is lost or stays in `late` and may be
handled at any later time, once, because `verify_runner_envelope` stores its
nonce. A reply can be lost after the handler committed: that is `Failed` with
`wire = "ok"`.

*Data.* Identifiers stand for the signed content they bind, so conflicting
payloads under one identifier do not arise. Event ids are command and sequence.
The local attempt is the stage machine of `SubmissionState`; what moves it is the
kernel's business. A command expires with its grant. There are two clocks
(`lapsed` holds those that passed a grant's expiry), since the runner and the
control plane check it separately. All applications behave alike and share no
row, so the model has one.

*Simplified.* Any due row may be claimed, though the code prefers the oldest;
`skip_locked` makes the order a preference. A claim that a crash left behind reads
as pending, except for revocations, where `tried` records it. `MAX_REVOCATIONS_PER_CYCLE` is left out; heartbeat and kill-switch commands are
`KillRelay`'s, and here a poll may be refused at any time, as it is without a
recent heartbeat.

### KillRelay

The operator's stop travels through the same network but through rows of its own.
`device` and `kill` are the hosted rows, `switch` the private database's latest
`AutomationKillSwitchEvent` with the digests of the commands recorded so far,
`runner` the loop up to the point where a cycle goes on to revocations and
ordinary commands. A command is bound to the boot the device last reported;
expiry is checked by the hosted clock when it is delivered and by the runner's
when it is verified and again when it is recorded. `OperatorSwitches` is the
operator at the machine, who may clear what the remote stop set.

### The adapters and OneShotSend

An adapter is modelled as its coroutines, from one `await` to the next: the
inspection that writes a plan, the preflight that fills the form and keeps the
session as a prepared action, one or two `commit` callers, and the route handler
of every request the page makes. `CandidatePage` (for Greenhouse its own page)
changes whenever the adapter awaits: the field set, the answers a script
overwrites, the form's target, a challenge, a confirmation. The gate between page
and network is a one-shot record (`gate`), and `sent` is what the employer
received. A set of fields, a document and an answer are version numbers: the code
only ever compares their digests. Four adapters test and set the flag that
answers a repeated `commit` without an `await` between; Workday tests it two
awaits before it sets it (`submitters/workday_v2.py:1763`) and is taken with the
one call that the worker's row lock lets in.

`OneShotSend` counts the requests that left (`sent`), those among them that the
page may have submitted by itself (`strays`), and has the outcome the worker was
given. The adapter adds one request at most, and none once it said "not sent";
"not sent" also says that what left so far was the page's; "confirmed" asserts a
request. `Adapters` maps each adapter's outcomes onto this (`Report`) and
`KeepsPromise` is `Promise!Spec`, for every page, posting ones included. No
outcome is rewritten. What the code does not keep is in the abstract module as such:

* `Stray`. The gates of Greenhouse and Ashby are tested before the awaits of their
  route handlers and not after, so they may let out a submission of the page's own,
  with the reviewed payload, beside the adapter's. Workday's lets one request out,
  whoever posted it. With all three, the page's own may leave under a verdict of "not
  sent". `strays` counts what the page posted. The gates of Lever and SmartRecruiters
  do tell it apart: there `strays` is 0.
* `LostPage`. One outcome hides a request: SmartRecruiters takes a page that lost
  its address after the request had left for a withheld click (a finding below).

### Autopilot

`AutomationState` holds the rows: policy, kill switch, decisions, qualifications,
canaries, and per application its row, newest plan and one attempt. Every
mutation of authority holds `lock_automation_authority_fence`, so each is a step.
`AdapterQualification` earns authority for one form contract (dry run, canary,
the employer's confirmation), bound to the runner's release, which an upgrade or
an edit on disk changes under a running process. `AutomationPolicy` signs,
decides under limits and hours, dispatches, and checks again at the commit
boundary. `AutopilotInspection` is the leased run around it: any worker may try
any run at any time, every fence and finish is a transaction, and the policy is
an oracle. `ArtifactSnapshot` copies file by file with a rename at the end, two
processes at once. `RestoreQuarantine` starts from every combination of rows the
code can write and runs the quarantine once and again.

### Planning, pipeline, discovery

`FormPlanning` keeps of a control what the policy tells apart (type, canonical
name, label, sensitive category, options, required) and of a value whether
coercion leaves it alone, changes it or refuses it. The planner's order of
sources, its refusals, the domain's validator and the blockers an operator's
confirmation clears are written out, since the properties compare them with each
other. `JobPipeline` treats a task as a broker message with reads, an unlocked
generation, rechecks and a write; `task_acks_late` redelivers what a dead worker
had. `Discovery` is one commit per step, so that a crash falls between commits;
time is a counter that moves with a snapshot. `AlertMailbox` pages through
messages that keep arriving.

### The host

`InferenceRuntime` has the process lock, the Redis lease with its TTL, and the
circuit; a deadline bounds every step of a call. `ModelQualification` runs four
datasets while one input drifts: before, between and after the imports of the
process, its attestation of the files on disk, and the reads of each phase; an
evaluation that cannot even build its blocked report, or dies, publishes nothing.
`IdentityProvisioning` and `TokenClipboard`
interleave two shells, file by file, variable by variable, and with a user who
uses the clipboard. `HostGuards` makes every system call of a lease a step.
`WhatsAppBridge` runs the handlers of one Node process from `await` to `await`.

These parts share no state with one another. `Host` therefore picks one per
behaviour (`focus`) and stores its variables in common slots `x1`, `x2`, ...; the
same idea holds in `Autopilot` and, by the job's address, in `Adapters`. Nothing
is lost: a product of independent parts has no behaviour that its parts lack.
In `TokenClipboard` a cleanup may find the clipboard in use, changed, locked by
another program, or with a text it cannot read back (`ClearUnread`).
`MCHost` gives the constants their values. Its symmetry permutes the two workers,
which are also the two task slots, the two shells and the two calls of one process.

## 3. Properties and runs

| Run | Instance | Shows |
|---|---|---|
| `race` | 1 application, 2 workers, 2 attempts, 2 keys, 2 tokens, 1 crash | the kernel's safety invariants, its inductive invariant, and `ImplementsFinalAction` |
| `live` | 1 application, 2 workers, 1 attempt, 1 crash | `AttemptsTerminate` |
| `retry` | as `race`, smaller | **violated**: `AcceptedRetryPermitsSend` (finding) |
| `authority` | 2 grants, 1 command, 1 late request, 1 event | the safety properties and the inductive invariant of the gateway |
| `relay` | 1 grant, 1 command, 1 late request, 6 events | `HostedLogMirrorsOutbox`, `NextEventAcceptable` |
| `outbox` | 1 grant, 1 command, 2 events, under `LiveSpec` | `OutboxDrains` |
| `redelivery` | 1 grant, 1 command | **violated**: `RedeliveryIsIdempotent` (finding) |
| `adapters` | each of 5 adapters, 1 change of the page, a second commit or a posting page | `SendsReviewed`, `AdaptersInv`, `KeepsPromise` |
| `smartrecruiters_outcome` | SmartRecruiters, 2 changes of the page | **violated**: `FailedMeansUnsent` (finding) |
| `autopilot` | 2 applications or 2 workers, one focus of five | `AuthorityIsEarned`, `SuccessorPrevails`, `RestoredAuthorityGone`, `StopsReachTheBoundary` |
| `restore_twice` | one restored application, 2 passes | **violated**: `SecondPassIsNoop` (finding) |
| `host` | one focus of twelve, sizes in `MCHost` | the governor's properties and one or two per part of the host |

*Kernel.* `OneClickPerAttempt`, `NoSecondApplication`, `ClickIsNeverForgotten`:
at most one click per attempt, a second one for the application only after an
operator ruled out the first, and a click is never downgraded by the machine.
`ClickerIsAlone`: ownership and exclusion inside the irreversible call.
`OneLiveAttempt`: admission. `ReviewedContentFrozen`: nothing that was reviewed
moves under an unfinished attempt. `RedeliveredNeverActs`: with the default
lifetimes a redelivered command can only fail. `KernelInv` has, besides the
strengthening, `TypeOK`, `KeysAreUnique` and `PermitWithinPlan` (why the worker
may leave the plan's expiry alone). `AttemptsTerminate`.

*Governor.* `CapHolds`: never beyond the cap. `GapHolds`: never within the gap, as
it was computed: from `EXEC` to `EXEC` two reservations are `linkedin_min_gap_s`
apart less what the earlier one's own transaction had waited (an observation below),
and neither a race, a retry nor midnight takes anything else off it.
`StopsBind`: the stops hold up to the `EXEC`. `GovernorInv` implies
`KillOutranksReservation`: the kill switch outranks a reservation that exists.

*Gateway.* `RevokedNeverAdmitted`: a tombstone at the control plane means that the
command minted from the grant was not and will not be admitted. The converse
order, a revocation that comes too late for an admitted command, cannot arise
because a spent grant is never superseded. `AcknowledgedMeansAdmitted`: the
control plane never believes in an admission that did not happen, neither from a
late acknowledgement nor from a first event that stands in for a lost one.
`HostedLogMirrorsOutbox`: the hosted log is a prefix of the outbox, and a row
marked sent is in it. `NextEventAcceptable`: the two separately written stage
rules agree, so no row blocks the outbox. `ClosedStaysClosed`: nothing late
reopens a command. `OutboxDrains`: every recorded event arrives, unless a
rejection closed the command, which is the case of the `redelivery` finding.
`RemoteStopHolds`: an acknowledged remote stop was recorded and is in force until
the operator clears it, and a cleared one does not return with a redelivery.

*Adapters.* `SendsReviewed`: what leaves is the form, the answers and the CV that
were reviewed, of a plan without blockers; that holds of a stray as well.
`KeepsPromise`: the refinement above.
`AdaptersInv`: a refused inspection or preflight gives its browser and the lease
of its profile back; an Ashby plan ready for a permit was settled by a further
pass.

*Autopilot.* `AuthorityIsEarned`: limits by day, hour and company hold at every
decision, authority stays inside hours and policy, only contracts this release
submitted before with a confirmation are acted on, and what is read is what was
signed. `SuccessorPrevails`: a worker that outlived its lease changes nothing of
its successor's run, and one command is queued. `StopsReachTheBoundary`: no kill,
revocation or replaced artifact is passed. `RestoredAuthorityGone`: after the
quarantine nothing in an old backup can act.

*Host.* `PlanIsReviewed`, `MaterialIsCurrent`, `JobSettles`, `BoardIsFollowed`,
`NoAlertSkipped`, `InferenceInv`, `QualificationIsHonest`, `IdentityIsWhole`,
`ClipboardGivenBack`, `HostLocksExclude`, `BridgeStaysSingle`: stated in `Host`
over the properties of their modules, each with the code behaviour it is about.
In `PlanIsReviewed` the planner and the validator, two implementations of one
policy, agree except on a control the page declares at odds with itself (`AtOdds`,
an observation below).

### Findings

* **Retry** (`core/application_mutations.py:291`). An application that failed,
  was inspected and approved again cannot be retried: the approval's preparation
  is current, the retry keeps it and answers 202, and Send wants a preparation
  whose source is `retry_prepare`.
* **Redelivery** (`worker/control_plane_runner.py:486`). The expiry is checked
  before the receipt is looked up, so a command that was admitted and is
  redelivered as it expires is reported as rejected; the control plane then closes
  it and refuses its events while the local attempt goes on.
  `control_plane/README.md:43-45` calls the redelivery idempotent.
* **Second quarantine** (`core/restore_safety.py:94`). A review grant that expires
  between two passes is rewritten by the second, which also moves its application
  again; docstring and runbook call a second pass a no-op.
* **SmartRecruiters outcome** (`submitters/smartrecruiters_v1.py:1641`). One
  handler catches the blocked error of the click, of the snapshot after it and of
  the confirmation; when the page has moved on after the request left, the adapter
  classifies a sent application as failed before commit, which the comment at
  `submitters/smartrecruiters_playwright.py:1426-1428` rules out. It ends there: the
  worker records every outcome of a commit but `Confirmed` and `Unknown` as
  `UnknownOutcome` (`worker/submission_commands.py:1339-1340`), and nothing is retried.

### Observations

Behaviour the models have and no property forbids, for a reader of the code.

* *Kernel.* The claim token is read back from the row
  (`worker/submission_commands.py:950`), so a worker that stalls before this read
  adopts its successor's claim. The stage guards behind it keep the click single,
  which is why `OneDriver`, not "tokens are private", is what the proofs need.
* *Gateway.* A revocation in its back-off, or claimed by a runner that died, is not
  due, and the runner polls all the same (`core/control_plane_review_permits.py:625`,
  where `control_plane/README.md:39-40` says that revocations drain first). It is
  harmless: the revoked grant is refused locally.
* *Remote stop.* A late heartbeat of an earlier boot takes the device row back to
  it; a stop created then is bound to a dead boot and expires undelivered. A
  heartbeat whose summary failed reports the kill switch as off. A stop that is in
  force can be acknowledged as rejected when its command expires between
  redelivery and recording, the shape of the redelivery finding.
* *Governor.* The end of the gap is computed before `pipe.execute()`
  (`core/governor.py:238-242`), so a caller that stalls in between has a gap that much
  shorter counted from its reservation; one that stalls for the whole gap has none.
* *Adapters.* `_guard_outbound` of Ashby tests its gate
  (`submitters/ashby_playwright.py:693`), awaits the address check, headers and body
  (718-734) and records the request (765) without a second test; Greenhouse's
  (`submitters/greenhouse_playwright.py:1800`, `1901`) likewise. Two identical
  submissions that are in the handler together, the adapter's and one the page makes
  itself, both leave. With these two and Workday, whose gate lets one request out, a
  submission of the page's own can also leave while the call reports that it was
  withheld. The page has to submit the reviewed form by itself within that moment.
  Greenhouse accumulates the model's audit over its rounds and keeps only the last
  round's decisions.
* *Autopilot.* A retryable denial clears `needs_review_reason`
  (`core/automation_policy_service.py`, `evaluate_auto_submit_policy`);
  `invalidate_stale_qualification_records` has no caller.
* *Form planning.* A CV upload or a consent that the page itself declares sensitive
  (Ashby reads `data-sensitive-category`, `submitters/ashby_v1.py:658`) is answered
  by the planner (`_verified_attachment_decision`, `core/form_planning.py:379`) and
  then taken by the validator for an unconfirmed sensitive answer
  (`core/submission_domain.py:1683-1691`), so every inspection of such a form ends
  in a failure, a safe one. Correcting the only answer of the local model keeps the plan's
  model audit, and the corrected plan is refused (`api/routes/applications.py:1642`
  against `core/submission_domain.py:1742`). A reusable answer stored with padding,
  or as 3.0, is coerced by the planner and then differs from its row, so later
  inspections end in `FORM_CHANGED` until it is superseded. A reusable confirmation
  revokes rows of the same name and type whatever form they came from, so a stored
  plan may refer to a revoked row; an operator's Send does not look.
* *Pipeline.* A DRAFT job whose retries are spent or whose dispatch failed waits
  for its expiry. A rescore of a job with an application does not compare profile
  versions again, a batch does not compare contents, and realignment compares the
  profile without a lock and the content not at all.
* *Discovery.* Search intents activated during a run wait for the next change of
  the board, since the cursor is saved with its ETag. Offset paging without a
  validator can close a listed posting when the list shifts. A cursor of the old
  format without a watermark stores its validator, and the next poll is a 304. An
  occurrence out of scope that is seen again is reactivated while its job stays
  skipped. After a snapshot restarts at offset 0 the saved cursor keeps the first
  scan's start as its watermark (`discovery/mesh.py:295-303`); if the process dies
  after the page's ingest and the posting is then withdrawn, the resumed scan keeps
  that watermark (`mesh.py:258`, `271`), `last_seen_at < started_at`
  (`discovery/persistence.py:430-432`) never closes the posting, and a 304 hides it
  until the listing changes. It takes two changes of the listing, more than the run
  has; the proof met it, and `BoardIsFollowed` names it (the caveat `restarted`). The advisory lock belongs to a pooled session, and on SQLite to a
  process; the model assumes that it excludes.
* *Gmail.* A message labelled later than a newer one, or of the same millisecond,
  is skipped; an expired page token is never dropped.
* *Inference.* A swap of the model to another and back within one request is not
  seen. A comment calls the local lock the fallback when Redis fails; the code
  releases it and refuses.
* *Model qualification.* The evaluated modules are imported when the process starts
  (`scripts/evaluate_v4_local_model_qualification.py:36-92`) and their digests taken
  from disk afterwards (line 1622), so a source edited in between is attested in
  a form that did not run (`moved`, which `QualifiedIsEarned` excepts). When the
  blocked report cannot be built either (3260-3271) nothing is published: the process
  prints `EVALUATOR_RECOVERY_FAILED` and an older report stays in place.
* *Identity.* The last attestation compares names and identifiers. Two overlapping
  configurations can both report success over a mixture, which the hosted digest
  then refuses.
* *Clipboard.* When the text cannot be read back although the sequence number is the
  lease's (`scripts/control_plane_identity.py:2212-2219`, `2235-2240`), the cleanup
  answers as if the clipboard had been used: the command returns without an error
  and warns that the "clipboard content changed" (2353) while its token is still there.
* *Guards.* Two takeovers of one stale file can remove a new lease; so can a stall
  between creating the file and writing the pid. Release unlinks whatever file is
  there. `HostLocksExclude` says exactly that nothing else can.
* *Bridge.* An item is marked before it is forwarded and stays so when the agent
  refuses it; a ready handler whose session ended still starts the heartbeat.

### Bounds

Two workers are enough for every race the code can lose (the stalled one and its
successor), and so two tokens: the one a stalled worker still holds and the fresh
one of its successor. Two attempts of one application show every interplay of an
old with a new attempt; `MaxRevision` and `MaxPlans` of 2 show content moving
away from a review. One crash at every point of a run is every crash that
matters to an attempt, because a claim is redelivered as if the worker were
unchanged; the proofs remove all of these bounds. `PermitTTL`, `ClaimTTL`,
`PlanTTL` and `HandleTTL` are small and different, so that each can run out
first. In the governor a cap of 1 is the tightest budget, two days make one
midnight, two tries exhaust the loop, and a gap of 2 can pass in part while a
transaction waits.

In the gateway two grants show one review superseding another, and a command per
grant adds nothing: the commands of one application share only their grant. One
late request suffices to cross any request of the present. Six events hold a whole
life of an attempt (queued, inspecting, ready, committing, unknown, reconciled);
before the boundary three rows are kept (`LongOutboxOnlyPastCommit`), which is a
reset and what follows it. One remote stop over two boots meets a dead boot, two
clocks, one late request and an operator who sets and clears the switch.

The adapters get one change of the page at any `await` and either a second commit
call or a page that posts by itself; both troubles together only multiply. Two of
everything is the rule elsewhere: two workers, shells, processes or slots to
race, two pages to change between, two revisions or profiles to be stale. The
forms of `FormPlanning` have two fields, since fields only meet through the
plan's model audit, its blockers and the reusable answers; the forms in `MCHost`
cover every class of field the policy tells apart. Three calls make the third
process-local waiter of `InferenceRuntime`. Every `Max...` constant is a guard of
the action it bounds; the theorems hold for all values of theirs.

`CHECK_DEADLOCK FALSE` is set where a bounded part really ends: time, claims,
changes and commands are used up.

### Fairness

`Drain` and the sweeper are Beat tasks that run every few seconds, so a pending
command is claimed and a stale one swept (weak fairness). `Tick` is time. A
worker that is alive takes its next step (weak fairness per worker). Strong
fairness is assumed of two steps, the first read under a live claim and the
refusal of a dead permit: each takes milliseconds where a claim lasts minutes,
so a worker that gets the chance again and again is not beaten by the sweeper
every time. Nothing is assumed of operators, of crashes, or of the click.

`LiveSpec` of the gateway: the runner's loop goes on and clocks advance (weak
fairness). The rest is asked of the network and of the loop's own turns, as strong
fairness, because each is interrupted again and again: a cycle that finds no
revocation or projection due comes round for ever, a poll and each event that
are sent again and again are answered at last, and the answer gets through.
`claim_control_plane_event` orders rows by `available_at`, which a failed
delivery moves back, so each due row is claimed in turn. Nothing is assumed of
the operator, the worker or the handling of late requests.

## 4. Proofs

Every theorem holds for every value of the constants (numbers of applications,
workers, attempts, keys, callers, postings, pages; lifetimes, limits, windows)
under the named assumptions of the modules, which TLC evaluates on the runs'
values: counts are natural numbers, lifetimes positive, the null values outside
their sets. `HostAssumption` collects one `...Settings` per part of the host,
`AutopilotAssumption` and `AdaptersAssumption` those of theirs. `RedeliveryIsDead`
also assumes `PermitTTL <= ClaimTTL`, which the code's defaults satisfy (300 and 900
seconds) and its settings do not enforce; so does `KernelInvariant`.

**The kernel's inductive invariant** is `KernelInv`. None of the safety
properties proves itself:

* `RowsAgree` ties the attempt's stage to its command's state, and
  `AuthorityAccounted` the consumed permit to the stage, the outcome and the
  clicks.
* `WorkerOnTrack` says what a worker that *still* owns its claim will find, and
  `OneDriver` that of several workers with one token at most one is past the
  stage that starts a browser. This is what replaces fencing.
* `HistoryInv` numbers attempts without gaps; the live one is the newest, which
  is what the code's `ORDER BY attempt_number DESC` relies on.
* `PermitAges` couples the claim's age and the permit's remaining life, the only
  reason why a stale claim implies a dead permit.

`SubmissionProofs` follows this order, one lemma per action and conjunct group:
types; `ClaimInv`, hence one click, exclusion, memory; `HistoryInv`, hence
`NoSecondApplication`; content, permits, redelivery; all together
(`KernelInvariant`); and last that what a transaction does to the attempt rows is a
step of `FinalAction` or a stutter (`KernelImplementsFinalAction`).

**The governor's inductive invariant** is `GovernorInv`: what each read of the
loop established (`PastStops`, `PastBudget`) can be undone only by a write to a
watched key, which makes the caller dirty. Over midnight the cap survives
because a day that has not begun has an unspent budget (`FutureUnspent`), and two
reservations that watch different budget keys still collide on the gap's key. For
the gap, what is left of it, what has passed since and what its `EXEC` had waited
add up to the minimum (`GapRuns`), and a queued transaction carries the gap less its
own wait (`GapQueued`).
`HostIsGoverned` carries this to `Host`, whose every behaviour is one of the governor.

**The gateway's inductive invariant** is `GatewayInv`. Its core is `Backed`: of
every request that is awaited or late it says what the runner's database held
when it was sent, a revoked grant, a receipt, an outbox row. These only ever
grow (`Grows`), so the request is still backed whenever the control plane
handles it, and `HandleEffects` bounds what a handler can then do. `GrantsInv` and
`ReceiptsInv` (a grant is spent or revoked, never both; a receipt spent the grant
of its own command) give `RevokedNeverAdmitted`; `ClosedInv` gives
`ClosedStaysClosed`; that the newest row of the outbox is where the attempt stands (`Reported`)
gives `NextEventAcceptable` (`RowsAreAcceptable`). The theorems hold for any number
of grants, commands, late requests and events.

**The adapters.** Each has an inductive invariant of the same shape
(`GreenhouseInv`, `LeverInv`, `SRInv`, `AshbyInv`, `WorkdayInv`; together
`AdaptersHold`): what left is the reviewed form or nothing; of the callers one at
most got past the replay test (`OneEngaged`), and only that one finds the gate as it
left it; a verdict of "not sent" is given only while no request of the adapter's own can still
get out.
`...Sends` derives `SendsReviewed`. `...Honest` and `...Answers` say of a state, and
of a step, what the pair of requests and report may be; from these two
`StepIsPromised` finds the step of `OneShotSend`, and `AdaptersKeepPromise` is the
refinement, for every page. For Greenhouse and Ashby it counts: what left and what
waits in a route handler is at most what the page posted and the one that the adapter
submitted, if it did (`Within`; `WithinKeeps` is the same for every turn of a
request). Workday's gate lets one request out (`WorkdaySent`).
`BrowsersAreGivenBack` says where a session may be open: never at rest, that is before an inspection, after it ended or was given up, or
after the cleanup (`GivenBack`). `AshbyPlansAreSettled` is the conjunct of `AdaptersInv`
on Ashby's plans; it needs that nothing is planned while the inspection runs.

**The parts of the host and of autopilot.** A lemma `...Focus` shows that a
behaviour of `Host` (`Autopilot`) with that focus is a behaviour of the part and
never loses its focus; the part's own theorem does the rest.

* `InferenceInvariant`: who is at the model owns the lease, and the lease's
  remaining life covers the call's deadline (`LeaseOutlivesCall`), hence one
  generation at a time, through crashes and lost answers.
* `ModelIsQualified`: a report is earned stage by stage, whatever ends a run leaves
  counters that the validator accepts, and the loaded code is the attested one unless
  a change was seen between the two (`CodeFollows`).
* `RemoteStop`: an acknowledged row, a runner about to acknowledge and a late
  acknowledgement all name a digest the kill switch has recorded (`RelayInvariant`).
* `TokenIsGivenBack`, `HostLocks`, `BridgeIsSingle`, `IdentityWhole`: ownership of
  the clipboard's sequence number, of the lease file, of the scheduler and of the
  staged directory.
* `AlertsAreRead`: what lies between the stored cursor and the scan's page was
  committed or is still to be read.
* `WaitingJobs`, `MaterialStored`, `PlansReviewed`: what a task in a worker, in the
  broker or owed by a row says of the job; what a field of a stored plan may rest on.
* `BoardFollowed`, the longest: what a stored cursor, a page in a worker's hands, a
  lock and a watermark say of the listing as it is now (`BoardHolds`: `LockHolds`,
  `PostingsHold`, `CursorHolds`, `CrewHolds`, `RestartHolds`; with `RunsHold` of the
  run rows). `BoardsAreFollowed` is the same of `Discovery` by itself.
* `AuthorityEarned`, `BoundaryIsStopped`, `SuccessorsPrevail`, `RestoreDisarms`,
  `CopiesAreSigned`: limits are counted under the fence that spends them; a fenced
  write names its own lease; the quarantine leaves no row in flight; from its rename
  on a copy is what was signed.

The runs check `TypeOK`, `KeysAreUnique` and `PermitWithinPlan` as conjuncts of
`KernelInv`, and `KillOutranksReservation` is proved from `GovernorInv`.

Only model-checked: `AttemptsTerminate` and `OutboxDrains`, since liveness under
fairness is out of the prover's reach; and of `AdaptersInv` the last conjunct, that an
adapter with an open browser still has a step to take, which is about `ENABLED` (what
can be said without it is `BrowsersAreGivenBack`), and its type invariant (the proofs
use the weaker `...Shape`).

## 5. Not modelled

* *Text and pages.* Widgets of the candidate pages and how a field is found,
  HTML parsing, URL normalisation, prompting, CV routing and job-fit scores: each
  is a value or an oracle where a modelled part uses it.
* *Other submitters.* `submitters/` also has one-phase submitters (LinkedIn,
  Comeet, Workable and others, and earlier ones of the five platforms).
  `get_two_phase_registry` does not register them, so the worker's final action
  never runs them.
* *The hosted side beyond its queue.* Operator sessions, audit, login limits and
  the quarantine of a restored hosted database.
* *Dashboards, metrics, notifications.* Read-only.
* *Governor.* The in-memory fallback, which the boundary refuses, and the plain
  counters. `trip_cooldown` reads and writes its count without a transaction
  (`core/governor.py:256`); both steps are modelled, but only one browser session
  calls it, so no property demands more.
* *Batch Send.* It is the single Send repeated in one transaction, with the row
  locks taken in sorted order (`core/submission_service.py:896`), so two batches
  cannot wait for each other.
* *A database connection lost under a live worker* during the browser call would
  release the row lock early (`worker/submission_commands.py:1272`). The model
  keeps the lock until the transaction or the process ends.
* *A local skip of a remote command* leaves the hosted command open for ever
  (`core/application_mutations.py:348`); the model has it, and nothing says what
  the control plane should show.
