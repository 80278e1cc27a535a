# Formal models of Selena OS

Selena OS takes a draft from where it is written (Aether) to a human approval
and from there to a publication, and tells its author how it ended. Between
those ends lie PostgreSQL tables that several processes work on: outboxes with
leases, functions that read and write in one transaction, and HTTP calls to
services that may answer late, twice or not at all. These TLA+ modules model
that path, and three workers beside it: the scanner of private originals, the
budget of a paid research provider, and the scheduler of tracked prompts. TLC
checks them on small instances and TLAPS proves the most important properties
for every size.

File names below are relative to the repository: `worker/` is
`apps/worker/src/`, `lib/` is `packages/lib/src/`, and a four-digit number such
as 0029 is the migration of that number in `packages/lib/src/db/migrations/`.

## 1. Inventory

### The draft and release path

| Component | State | Operations | What makes it correct | Module |
|---|---|---|---|---|
| Aether inbox and projection (`worker/selena-aether-receiver.ts`, `worker/selena-aether-projection-worker.ts`, `lib/content-workflow-projection.ts`; 0035, 0039) | `aether_events`, `content_items`, `content_versions` | record an event, claim the oldest due, draft it, refuse it, defer it | what the sender was told is true; a draft is the projection of one event into the bound brand; nothing starves | AetherInbox |
| Growth bindings (0038, 0049), content policy (0040, 0041) | which brand a project belongs to, the policy in force | confirm, revoke, set | events go to the brand that is bound | AetherInbox |
| Control room (`apps/web/src/server/selena-control-room.ts`; 0021, 0030) | approvals, intents, queue entries, kill switches | approve, revoke, queue, cancel, set a switch | a cancellation that comes in time is final; status and outcome agree | ReleasePipeline |
| Dispatcher (`worker/selena-trigger-dispatcher.ts`; 0028, 0044) | leases of queue entries, `workflow_dispatches` | claim, carry, close, retry, dead-letter | the queue drains; only the holder of a lease settles its entry | ReleasePipeline |
| Release Gateway (`worker/selena-release-gateway.ts`, `selena-release-dispatch.ts`; 0027, 0029, 0032, 0033, 0050) | manifests, reservations, attempts, incidents | sign, reserve and authorize, call, record | at most one post per release; a recorded outcome agrees with the provider | ReleasePipeline, PublicationLedger |
| Channel bindings (0032, 0045, 0047, 0052) | which provider integration a channel points at | confirm, revoke | a release goes only where it was signed for | ReleasePipeline |
| Providers (`lib/selena-release-provider-*.ts`) | the provider's own | dispatch | an answer is classified as what it proves | ReleasePipeline, SitePublication |
| Selena Lab (`lib/selena-release-provider-lab.ts`, `lib/selena-github.ts`, `worker/selena-site-publication-watch.ts`; 0053) | branch, pull request and main branch of the site repository; accepted site releases | look, commit, open a pull request, watch, record | an accepted edition is not lost; only whole articles are offered; a recorded end happened | SitePublication |
| Return channel (`worker/selena-aether-return-sender.ts`; 0051, 0053) | `aether_outcome_outbox` | queue, claim, send, record, back off, dead-letter | Aether hears what happened, and only that | AetherReturn, OutcomeFeed |
| Asset scanner (`worker/selena-scanner.ts`, `lib/selena-private-storage.ts`; 0025, 0026, 0027) | `content_assets`, objects in private storage | record an upload, store, mark, claim, fetch, scan, record the verdict | only scanned bytes are released; a verdict is final; every accepted upload gets one; nothing approved is left out | AssetScanner |

### Beside that path

| Component | State | Operations | What makes it correct | Module |
|---|---|---|---|---|
| Provider budgets (0046, `lib/provider-budget-repositories.ts`, `lib/content-research-repositories.ts`, `lib/youtube-research-dispatcher.ts`, `packages/content-workflow/src/research/adapters.ts`) | `provider_budgets`, `provider_call_ledger`, research runs, the process's own count of calls | reserve, ask the provider, settle, record the run, set a ceiling | what is paid for stays within the ceiling; a key is asked for once | ProviderBudget |
| Prompt scheduler (`worker/jobs/process-prompt.ts`, `schedule-maintenance.ts`, `apps/web/src/lib/job-scheduler.ts`, `expedite-prompts.ts`, `lib/run-policy/`, `run-backoff.ts`, `expedite.ts`) | queued jobs with a failure streak, singleton slots, recorded runs | run, skip, back off, expedite, revive, send | one chain of jobs for a prompt; no target sampled early; every enabled prompt sampled again and again | PromptScheduler, PromptClaims |

The parts meet in the database: an approval names a content version the
projection wrote, a queue entry names its approval, an attempt is inserted by
the gateway and a trigger on that insertion queues the outcome for Aether. The
control room calls nobody. The dispatcher calls the gateway over HTTP, twice
for each carry, the gateway calls the provider, and each of them may die or
lose the other in between. The watch, the return sender and the scanner run from
timers. A release carries the assets of its version: the control room and
`build_gateway_release_package` each read their rows, whose status only the
scanner writes. The prompt scheduler shares nothing with the path but the
worker process; its queue is pg-boss, which throttles, delays, retries and
expires jobs. Budgets meet research in one transaction that stays open while
the provider is asked.

What makes this hard:

- a lease is taken over when it runs out, while its holder may still be at work;
- a transaction ends before each network call and another begins after it, so
  that the state can change in between and either half can be lost;
- some functions read a row without a lock and write it later by its id
  (0028:175, 0044:37);
- people approve, revoke, cancel, re-point and switch off at any moment;
- a provider may do what it was asked long after its caller gave up;
- events come repeated and out of order;
- a request that was paid for cannot be rolled back, its record can;
- a queue drops a send whose slot once held a job, expires jobs whose handlers
  go on, and revives what nobody works on any more.

### Around that path

| Component | State and operations | Hard behaviour | Status |
|---|---|---|---|
| Trigger workflow (`worker/selena-trigger-release-workflow.ts`) | checkpoints of a durable workflow against the gateway | a release cancelled or signed again while it waits | planned |
| Signing keys (0036) | the gateway's active key | rotation under manifests signed before | planned |
| Audit chain (0021, 0032, 0038, 0045) | each event names the hash of the one before | appenders that read the same predecessor | planned |
| Performance ingestion (0031, `worker/selena-postiz-metrics-ingestion.ts`) | observations by date | late corrections | planned last |
| Research, creation and review of content (`lib/content-*-repositories.ts`) | documents and reviews | its paid calls are in ProviderBudget | not modelled otherwise |
| Reports, website collector | batch computations, fetching and parsing | nothing concurrent | not modelled |
| Onboarding, billing, entitlements, teams | one record at a time; payment and identity services | none of its own | not modelled |
| Web interface, CLI, public web site | presentation | none | not modelled |

`PROJECT.json` lists every component with its sources, and under `hazards`
what can go wrong in this code that its tests would hardly reach, each with
its line and the properties that cover it, or the reason why none does.

## 2. The modules and the code

Every model module has the variables of its part of the database and of the
processes that work on it, one action for each function, handler or step
between two network calls, and its properties at the end. A module `MC...`
gives the constants their values for TLC. Operators commented `Broken:` are
plausible mistakes in the definition that follows; putting one in place of that
definition must break the property it is meant for, which shows that the
property depends on the code.

### ReleasePipeline

One carry stands for one claim of a queue entry. `claim_next_trigger_outbox`
draws a new lease owner for every claim, so the carry is the lease owner's name
too. The worker (`worker`), the gateway's request (`gateway`) and the provider's
side (`request`) of a carry are three processes: the worker may have thrown while
the gateway goes on, and the provider posts on its own clock.

- `Approve`, `Revoke`, `Queue`, `CancelQueued`, `CancelSubmitted`,
  `SetKillSwitch`, `BindChannel`, `UnbindChannel` are handlers of the control
  room and SQL functions, each one transaction. `ChangeFitness`, `ApprovalExpires` and
  `ManifestExpires` are what time and other handlers do to the conditions that
  `build_gateway_release_package` checks.
- `Claim`, `AskDispatch`, `ReceiveReport`, `ReceiveRefusal`, `LoseGateway`,
  `CloseRead`/`CloseWrite` and `RetryRead`/`RetryWrite` are
  `dispatchOneTriggerWorkflow`. Closing and retrying are two steps each because
  the functions read the entry without locking it.
- `SignManifest`, `PrepareDispatch`, `ReserveDispatch`, `SkipDispatch`, `Refuse`,
  `RefuseToPublish`, `SendToProvider`, `ReadProviderAnswer`, `RecordOutcome` are the two
  requests of the gateway. `PrepareDispatch` reads the manifest, the intent and the
  gates without a lock (0027:169), and `ReserveDispatch` or `SkipDispatch` follows under the
  advisory lock (0029:76), where only the kill switch and the binding are read
  again; anything else may have changed in between. The reservation and its
  authorization commit together, the outcome in a transaction of its own.
  `GatewayFails` ends a request anywhere in between; a gateway without a configured
  provider is one case of it.
- `AdapterAnswers` is what the adapter makes of its call: for a posting provider the
  classification of `selena-release-provider-blotato.ts:85`, for a site release that of
  the Lab adapter, whose definite failure may come after the commit
  (`selena-release-provider-lab.ts:273`).
- `RecordSiteOutcome` is the end the watch records for a site release.

`PublicationLedger` is the abstract specification: a release is reserved once, at
most one request is taken by its provider, under a reservation, and a verdict is
written once and agrees with the provider. A failure denies the post only of the
releases in its constant `Decisive`, which for the pipeline are those of posting
providers. `ReleaseClaims` has the statements of
comments, tests and documents that the code does not keep.

Left out: the carrier that hands a release to Trigger and leaves the entry
RUNNING, scheduled times, and signatures.

### AetherInbox

`StartRecord` and `FinishRecord` are the halves of `record_aether_event`, between which
another request can be at the same point. `Project` is one round of the
projection worker for the oldest due event: `DraftEvent`, `DeferEvent`,
`RefuseEvent` or, for an event whose projection throws, `FaultEvent`. There is
one worker, whose rounds are transactions, and a rolled back transaction is a
stutter. `ConfirmBinding`, `RevokeBinding`, `ChangePolicy` and `AddVersion` are people.
Two variables are history: `raced`, the materials of which two versions were being
received at a time, and `waited`, the events that were deferred for want of a binding
or a policy.
Event ids are left out, as the header of the module explains.

### SitePublication

One article, its branch and its pull request. A dispatch is a chain of GitHub
requests (`Look`, `ReadParent`, `Commit`, `AskForPull`, `OpenPull`, `RecordAccepted`), and
`RequestFails`, `CommitAnswerLost` and `OpeningLost` are their failures. `WatchFile`
and `WatchPull` are the two reads of `siteOutcomeOf`. `Merge` and `Close` are the
owner's, and the constant `OwnerInterrupts` says whether he may act between two
requests. GitHub and the owner are outside the repository and are modelled by
what the code relies on: a merge is a merge commit, the branch stays after it, a
creation of a branch that exists and an update that is not a fast-forward are
refused, and only a whole pull request without conflicts is merged. `Crossing`, a
conjunct of every step, keeps the history `crossed`: the releases that were under way
together with another (`Together`), under way or pending while the pull request was
closed unmerged (`UnderClosed`), or under way or being watched at the moment the owner
decided (`DecidedUpon`).

### AetherReturn

`Conclude`, `ConcludeSite` and `Reject` are the insertions the two triggers fire on.
`Claim`, `Send`, `RecordDelivered` and `RetryOrDeadLetter` are `sendOneOutcome`, with
`SendFails`, `RecordFails` and `Crash` in between, and `ComesDue` and `LeaseLapses` are
the passing of time. Several senders stand for the old and the new worker of a
rollout, which share the outbox (FOR UPDATE SKIP LOCKED). `OutcomeFeed` is the
abstract specification: Aether hears only of what happened, delivered
means heard, and what is delivered or given up is not taken up again.

### AssetScanner

The assets of one content version from upload to release. `Insert`, `Upload` and
`Accept` are `createAsset`, with `UploadFails`, `AcceptFails`, `Refuse` and
`RefuseFails` its error path; `Claim`, `Fetch`, `Scan`, `ScanFails` and `Write` are
`processOneAsset`, of which several are under way, because a timer starts one
every second whether or not the last has ended. `WriteFails` is the update that
throws inside the `try`, after which the round records the opposite of what it
knows. `Review`, `Approve`, `Revoke`, `Queue`, `Sign` and `Submit` are what the control
room and the gateway read of the rows; everything else about releases is in
ReleasePipeline. `Elapse` and `Lapse` are time, `Damage` is storage, `Crash` the process.

An asset is a number, its rank by `created_at`, which the claim orders by; its
bytes are told apart as the recorded ones, others, and something that is no
image. A second upload of the same bytes to a version violates
`content_assets_version_hash_unique` and changes nothing.

### ProviderBudget

One `runResearch` is one open transaction: `Begin` (its `now()` is taken), `Enter`
(the brand's advisory lock, and the look for a run of the key), `Reserve`, `Refuse` or
`Search`, `Statistics`, `Answered` or `NotAnswered`, then `Commit` or `Rollback`. When the
connection is lost while no statement is awaited (`ConnectionLost`), the
transaction and its lock are gone and the JavaScript goes on to ask (`Drifts`), until
its next statement throws. `MaxCalls` may be zero, the ceiling nobody configured,
which `Reserve` refuses. Nothing of a run is in the database before `Commit`; `asked` and `undone` are history
and remember what a rollback forgets. `SetBudget` waits for the same lock,
`Restart` is the death of the web process, whose own count of calls starts again,
and `NextDay` is the clock by which windows are cut.

### PromptScheduler

One prompt, its targets, its jobs and the queue. `Begin`, `Record`, `Miss`,
`Reschedule`, `Skip` and `Stop` are `processPrompt`; a handler is not cancelled when
its job expires, so a job and the cycle that runs it are two things, and `Done`
and `Throw` touch the job only while it is still active. `LookAtRuns`, `Decide` and
`Revive` or `Expedite` are one maintenance pass at the four moments it reads or
writes. `Enable`, `Disable`, `ChangePlan` and `RunNow` are users; what their request
still has to do in the queue after its commit is `WebSend`, `WebPull` or `WebLost`.

The queue is pg-boss, outside the repository, modelled by what the code relies
on: a send with `singletonSeconds` is dropped when its slot ever held a job, a job
is fetched once its delay is over, fails into a retry or for good, and expires
when its handler takes too long. Ages and delays are relative to now and the
clock is kept modulo `Period`, a common multiple of the slots, which is what a
slot depends on; so time is unbounded and the states are finitely many.
`PromptClaims` has the statements of comments that the code does not keep.

## 3. The runs

| Run | Instance | What it shows |
|---|---|---|
| one_release | one approval on a site channel, three carries, two integrations, one fault, two changes | one release, carried again after crashes, lost replies and overrun leases, on a channel that may be re-pointed or unbound: posted at most once; outcome, intent, incident and dispatch record agree; a cancellation is final unless a carry had already passed the gates; the promise of PublicationLedger is kept |
| drains | fair; a posting provider, three carries, two attempts, one fault, one change | every queued release leaves the queue, and a recorded outcome does not contradict what the provider did or will do |
| inbox_drafts | two requests at once, two bodies, two versions, two brands, two changes, one edit | the receiver's answers are true and stay true; drafts are projections of events of the bound brand; a projected event has a version of its number, and no written version changes; only events that raced or had to wait come in behind a newer one or set a title back |
| inbox_gets_through | fair; one request at a time, two materials, one event always throws, no edits | every other event gets through once binding and policy are there |
| site_any_order | three releases of two languages, two dispatches at once, the owner between any two requests, one close, one fault | what is reported as published was on the site; only a release that was cut across is lost or wrongly superseded |
| site_quiet | fair; four releases, one dispatch at a time, one failed request, the owner acts between dispatches and merges | the owner is only offered whole articles, no accepted release is lost, and every release pending under a pull request is settled |
| return | fair; a site release and its version's rejection, two senders, two attempts, three faults | Aether hears what happened and no site change as published before it is merged; the outbox implements OutcomeFeed; a queued outcome is delivered unless as much goes wrong as it has attempts |
| assets | fair; one asset, two overlapping rounds, two faults | only bytes that were scanned are submitted, what was approved for a release is not left out, no verdict is taken back, and every upload that was answered gets one |
| budget | one brand, three keys, two requests at once, three days in months of two, budgets of both kinds that change, two rollbacks, lost connections or restarts | what recorded runs asked of the provider within a window stays within the newest budget; a key is asked for once, and what was asked has its row or an open reservation, unless the transaction that asked was rolled back |
| prompts | one target, two handlers, one act of a user, one fault | without users one chain of jobs and one cycle at a time; no cycle that overlaps no other samples a target early |
| prompts_go_on | fair; two targets of different cadence, one handler, a daily ceiling, one fault | every target of an enabled prompt is sampled again and again |

The run claim_cancelled checks one statement the repository makes and finds it
violated; section 5 tells it, and the other configurations named `claim_...`.

**Bounds.** `MaxFaults` counts crashes, lost or failed requests and overrun
leases; `MaxChanges` counts what people and time change about the conditions;
`Carries` are the claims there can be. Two carries are what it takes for one to
find what another left, three for that to happen again after the entry was
released; two attempts reach the dead letter as well as a retry. One change
reaches each condition at each point, two a channel that is pointed elsewhere and
back. With two faults and one change instead, one_release takes several times as
long (1.7 million states, nothing violated). In the inbox two versions and two requests
at once give every order of an older and a newer event. On the site, a second
release of one language is what replaces the first, and a fourth release what
resets a branch twice. UncrossedIsKept was also checked once with four releases
dispatched one at a time under an owner who interrupts, with a close and a fault
(7.5 million states). In the return channel two senders give every overlap of
a lease with the claim that takes it over, three faults with two attempts reach
the dead letter, and one version is enough for the outbox, whose rows affect
each other only through the order of claims. What one approval cannot show, two
approvals of one target carried side by side, is covered by the theorem
LedgerIsKept, which holds for any number of them.

An asset's life touches another's only in the order of claims and in the
questions that are asked of all assets of a version; with two assets, one fault
and `Spec` in place of `FairSpec`, the safety properties of assets hold in 3.4
million states. Two rounds are what a lapsed lease needs, the late one and the
one that took over, and two faults let a failed write follow a lost answer. A
research run makes up to two requests; a daily ceiling of three and a monthly
one of four admit a second run or not depending on what the first used, and
their cost ceilings of four and five bind where the calls do not. Three keys over
three days in months of two put rows before, in and at the edge of a window,
and the second request is one that waits past midnight or past a change of
the budget. A tick of PromptScheduler is an hour, the shortest slot: cadences
of one and two, a back-off of one. Half-hour ticks with a tolerance (Hour = 2,
HalfHour = 1, Period = 4, Oldest = 5, BrandCadence = 4), one retry of the web
application's jobs, and two faults in prompts_go_on were each checked once and
hold too.

Carries and integrations are symmetric in one_release, requests, bodies and
brands in inbox_drafts, keys and requests in budget, handlers in prompts: these
check safety only. The runs with a liveness
property use no symmetry.

`CHECK_DEADLOCK FALSE` is set throughout: carries, versions, releases and faults
are bounded, and a system whose releases are all settled has nothing left to do.

## 4. Fairness

Liveness is checked under `FairSpec`, which assumes of the code what its timers
and loops do, and of people, faults and providers nothing but what is said here.

- ReleasePipeline: the dispatcher's timer claims what is due every five seconds,
  and every step of a worker or a gateway request that is alive ends (fetch gives
  up waiting for an answer after five minutes), hence weak fairness of `Claim`,
  `Worker` and `Gateway`. A lease nobody works under runs out. The provider need
  never answer.
- AetherInbox: strong fairness of `Project(k)`, weak of `ComesDue(k)`. The projection
  loop takes the next due event without pausing and only sleeps when there is
  none, and a deferred event comes due after thirty seconds at the earliest; so
  an event that is the oldest due one again and again is taken. The receiver and
  the owner are not fair; DraftsGetThrough assumes the owner's decision
  explicitly (`<>[]Supplied /\ []binding.agrees`).
- SitePublication: a dispatch is one function that runs to its end, and a round of
  the watch comes to each pending release (as long as there are at most the
  fifty of one round), whose file it reads whenever the round gets there: strong
  fairness of `WatchFile`, since the watch is between rounds again and again.
  Strong fairness of `Merge` is the assumption that the owner decides about what
  he is shown; PendingIsSettled says what follows if he does.
- AetherReturn: the sender looks every five seconds and works through what is
  due, back-offs end, and the lease of a sender that is gone runs out. A lease
  that runs out under its holder is a fault, not fair and bounded.

- AssetScanner: a round starts every second and each of its requests ends, with
  an answer or an error, hence weak fairness of `Write` and `ScanFails`; leases and
  back-offs run out. An asset is claimed again and again at most thirty seconds
  or more apart, so that rounds are left for the next one: strong fairness of a
  claim of each asset. Strong fairness of `FetchedInTime`, `AnsweredInTime` and
  `SettledInTime` says that storage and ClamAV do not fail, and a scan does not
  overrun its lease of five minutes, every time. Uploads, people and damage are
  not fair.
- PromptScheduler: worker, queue and maintenance go on (weak fairness of their
  steps and of time). Strong fairness of `Begin`: the organization is not over its
  daily ceiling every time one of its prompts fires; of `Record`: a provider that
  is asked again and again answers. Users and faults are not fair.

## 5. Where the code and its statements differ

Each of the following was found while translating the code, as a property that
a comment, a test or a document states and TLC finds violated. The first is a
run and a finding of PROJECT.json; the others are
configurations of the same MC modules kept for diagnosis:
`tlc -config claim_lease.cfg MCReleasePipeline` and so on shows the behaviour.

| Configuration | Property | What happens |
|---|---|---|
| claim_cancelled | AcceptedIsNeverCancelled | The intent reads QUEUED from the authorization of a dispatch until its outcome is recorded, and `request_release_cancellation` (0030:38) looks at nothing else: a release is marked CANCELLED while the provider posts it |
| claim_reconciled | ReservedIsReconciled | A gateway that dies after the reservation leaves it RESERVED; a later carry is answered SKIPPED, and nothing takes reservations up (`selena-release-dispatch.ts:65`) |
| claim_revoked | RevokedApprovalIsDenied | `build_gateway_release_package` (0027:192) looks at the latest decision and not at whose it is: approving again revives the release of the revoked approval |
| claim_own_version | EventIsItsVersion | A version a person adds takes the number of Aether's next draft, whose event is then marked projected without a draft (`content-workflow-projection.ts:145`) |
| claim_collect | AcceptedIsKept | After the owner closed the pull request of a new article, each edition resets the branch and drops the other language (`selena-release-provider-lab.ts:132`) |
| claim_completed | CompletedMeansConcluded | A carry answered SKIPPED closes its entry as COMPLETED although the release has no outcome (`selena-trigger-dispatcher.ts:85`) |
| claim_lease | OnlyTheHolderSettles | Retrying reads the leased entry without a lock and writes it by its id: a cancellation or another claim in between is overwritten (0028:175) |
| claim_killswitch | NoCallUnderKillSwitch | The switch is read at the authorization and, on purpose, not again before the call (`selena-release-dispatch.ts:138`); RELEASE_GATEWAY_SERVICE_DESIGN.md:67 says it blocks before the call |
| claim_forward | InboxGoesForward | Two requests that both looked before either inserted record an older version after a newer one (0039:106) |
| claim_title | TitleIsNewest | An event that was deferred is projected after a newer one and puts its older title on the item (`content-workflow-projection.ts:134`) |
| claim_merge_race | AcceptedIsKept | A pull request merged while a dispatch commits leaves the edition on a branch the next dispatch resets (`selena-release-provider-lab.ts:272`) |
| claim_force | OfferIsWhole | Two first editions at once: the second forces the new branch over the first, and the pull request opens with one language (`selena-github.ts:233`) |
| claim_failed | FailedStaysOff | A request that fails after the commit makes the release a definitive failure although its edition is on the branch and is published with it (`selena-release-provider-lab.ts:273`) |
| claim_superseded | SupersededWasReplaced | A merge between the two reads of the watch makes it report the edition just published as superseded (`selena-site-publication-watch.ts:54`) |
| claim_order | NewestIsHeardLast | An outcome whose delivery failed is delivered after a newer outcome of the same task (0051:256) |
| claim_bundle | SubmittedIsApproved | RELEASE_GATEWAY_SERVICE_DESIGN.md:25: "Gateway recomputes content, asset-bundle, disclosure and approval binding hashes". `build_gateway_release_package` (0027:242) lists the assets the version has now and compares no bundle hash: one that was uploaded and scanned after the release was queued goes with it |
| claim_ledger | CallsAreRecorded | 0046:1 "a call ledger that survives every restart", 0046:6 "Money may only move after a RESERVED row exists here". The reservation is in the transaction that is open while the provider is asked (`content-research-repositories.ts:612`); a crash or a later error takes the row away and leaves the call |
| claim_streak | StreakIsWritten | `expedite.ts:14` "a cycle writes it whatever the outcome": the send is dropped when the slot of its delay once held a job, and with it the streak (`process-prompt.ts:93`) |
| claim_keep_going | EarlyFiringKeepsGoing | `process-prompt.ts:454` "Keep the prompt going without spending anything": a job that fired early sends the next one into the slot its own cycle took, where it is dropped |
| claim_duplicate_fire | NoDuplicateFire | `run-policy/policy.ts:12` "structurally prevents duplicate-fire oversampling": two cycles under way at once, of a job that expired and its retry or of "run now", both find the target due |
| claim_next_pass | NextPassRefuses | `expedite.ts:17` "Either way the next pass refuses": a cycle skipped at the daily ceiling neither records a run nor sets the streak, and every pass moves it forward again |
| claim_singleton | ChainsMerge | `job-scheduler.ts:131` "the singletonKey prevents duplicates": two chains of one prompt whose jobs fall into different slots go on beside each other for ever |

Other properties say how far most of these can go, without excluding them. What
a race of two receivers, a wait for a binding, another dispatch or the owner's
decision can spoil is remembered in the histories `raced`, `waited` and
`crossed`: UnracedGoesForward, TitleIsNewestUndisturbed and UncrossedIsKept hold
that nothing else is spoiled, whatever happened to other events and releases
before. EventHasItsVersion tells what is left of EventIsItsVersion when people
add versions, CancellationIsFinal from when on a cancellation holds,
OversamplingIsShared that only overlapping cycles sample early, and
TracedUnlessUndone that only a rollback parts a call from its row. OfferIsWhole
holds as long as dispatches come one at a time, and OneChain as long as no user
asks for a run. FailedStaysOff, NewestIsHeardLast and CallsAreRecorded are only
stated as broken: a hypothesis that nothing fails would leave out the case they
are about. For NewestIsHeardLast there is another reason too: even the first
deliveries of a task keep no order the code could promise, since a claim passes
over rows that another holds (SKIP LOCKED) and outcomes may commit in another
order than the one in which they are due.

## 6. What is proved

The modules `..._proofs` hold theorems that tlapm checks for every value of the
constants, under the assumptions `ConstantsAssumption`, `InboxAssumption`,
`SiteAssumption` with `NoneAssumption`, `ReturnAssumption`, `AssetAssumption`,
`BudgetAssumption`, and `TimeAssumption` with `ExpiryAssumption` and `RowsAssumption`.
They say only that the bounds are numbers, that each release has its channel,
language or version, and that NONE and OLD are names of nothing else; of a
prompt also that no cycle outlasts the expiry of the worker's jobs, which
`process-prompt.ts:41` takes care of, and that there are identities for jobs.

**ReleasePipeline_proofs.** PostedAtMostOnce and VerdictIsTrue rest on

    IInv = TypeOK /\ CarryInv /\ AnswerInv /\ SoleHolder /\ ReservedInv /\ VerdictInv

AtMostOnePost alone is not inductive: nothing in it says that a request still on
its way is the only one. SoleHolder says that of all carries of a release at most
one got past the reservation, ReservedInv that there is a reservation as soon as
one did and no verdict as long as the gateway serves it, CarryInv and AnswerInv
tie the states of worker, gateway and request of a carry together, and VerdictInv
tells what a recorded verdict excludes for every request, those under way
included. LedgerIsKept, the refinement of PublicationLedger, follows from the same
invariant: reserving, the provider's posting and the recording of an outcome are
the ledger's three steps, and every other action leaves `Ledger`'s variables alone.
CancellationHolds needs it too: only a carry that waits to reserve makes a
reservation, none begins to wait once the intent reads CANCELLED, and only a carry
that reserved has an outcome to record.

StatusIsTrue, TroubleIsKnown and DispatchIsTrue rest on

    RecordsInv = IInv /\ QueuedInv /\ ReplyInv /\ IntentTellsTheOutcome
                      /\ TroubleIsReported /\ DispatchAgrees

QueuedInv says that only what was queued is carried, so that a reservation finds the
status QUEUED; ReplyInv that a worker closes its entry on an answer the gateway gave
after it had recorded it. What the gateway recorded does not change any more
(VerdictsStay, which is read off the refinement), and so the close is true although
its lease may be somebody else's by then.

**AetherInbox_proofs.** TypeCorrectness; AnswersAreTrue, from RowsStay (a recorded row
never disappears or changes its body) and AnswerStays (so what an answer says of
the rows stays true), with no restriction on how many requests are under way or
how they interleave; DraftsComeFromEvents; VersionsAreFixed; EventsHaveVersions.
UnracedInboxGoesForward and UndisturbedTitles speak of every material that was not raced,
while others are. They rest on ServedInOrder: a request being served for such a
material is not overtaken, and the rows of the material are as old as their versions
say. UndisturbedTitles adds OldestIsDone: the events older than a draft are done, always
throw, or are in `waited`, and only the last can be drafted later.
UneditedEventIsItsVersion is about states before any version by a person.

**SitePublication_proofs.** PublishedIsTrue rests on FilesInPlace (a tree holds a
release only in the place of its language), MainWasShown and BranchIsThere (a
commit has a parent that exists). OffersAreWhole, for `AtOnce = 1` and an owner who may
act between any two requests, rests on OffersWhole: a dispatch which found the
pull request open extends it, and whatever it is about to push or to offer has
every language.

UncrossedAreKept has no hypothesis. Its invariant

    UncrossedInv = Alone /\ FilesAdd /\ \A r : r \notin crossed => FreeInv(r)

follows one release that was not crossed, while anything befalls the others. Alone
says that such a release is dispatched with no other under way; FilesAdd that a commit
only adds releases to the files it started from, and that main has one wherever
those had one, also when a crossed dispatch pushes. FreeInv says of the release that
no closed pull request is over it, that what its dispatch was told of the branch is
still true (PlanHolds), that the branch, main after a merge and whatever a dispatch
is to build on hold a release of its edition (EditionStays), and that nothing reaches
main between the two reads of its round of the watch (WatchedIsOff).

**AetherReturn_proofs.** AetherHearsTheTruth rests on SenderKnows (a sender at work
has the key of a row that was queued), HeardWasQueued and QueuedIsTrue. FeedIsKept
is the refinement of OutcomeFeed: a sender that lost its lease finds
so in `Holds`, whatever number of claims came after its own.

**AssetScanner_proofs.** TypeCorrect, OnlyScannedIsSubmitted, ApprovedIsKept and
VerdictsAreFinal, for any number of assets and rounds. The invariant is

    IInv = TypeOK /\ NewHasNoRow /\ RoundKnows /\ CleanWasScanned /\ BundlesGrow

RoundKnows says what a round at work holds: an asset with a row, the recorded
bytes while it scans, and a CLEAN answer only for an asset that passed;
CleanWasScanned carries that into the rows, and BundlesGrow says that the
assets a reviewer read and approved, and those queued, are still there, that a
manifest has all that was queued and nothing that did not pass, and that it is
what is submitted. RowsKept, one lemma about every step, says that no row disappears and no
final verdict changes; it is VerdictsAreFinal and most of the rest.

**ProviderBudget_proofs.** TypeCorrect, and KeysAreAskedOnce for any number of
requests, keys and brands, from

    IInv = TypeOK /\ TxKnows /\ OneAtATime /\ Unrecorded /\ Accounted

OneAtATime is the brand's lock, Unrecorded says that a transaction past its look
for the run still finds none, and Accounted that every transaction that asked is
the open one, was recorded, or was rolled back; a run that lost its connection
counts as rolled back from then on, whatever it goes on to ask. CeilingIsKept, of the
newest budget and any window, adds

    PaidInv = RowsOfRuns /\ RowsCover /\ RowsAreFinite /\ Admitted

The gate adds up what rows count and the property what they stand for. RowsCover
says that a row counts at least the calls that were made, RowsOfRuns that the key of
an open reservation has no row counted already, and Admitted that what
fitted at the reservation fits as long as it is used, which the brand's lock makes
true although the budget may be changed and other requests may wait. The sums are
folds over finite sets of rows. What is needed of them (a sum over a larger set is
larger, a sum of larger terms is larger, one more term adds itself) is proved by
taking a smallest set that fails and removing one element from it. The sums are
those of recorded runs: what a transaction asked that was rolled back is in none, and
a call counts on the day its transaction began, as in the ledger.

CallsAreTraced says that only a rollback can separate a paid call from its row: from
AskedOnReservation (the provider is asked on a reservation only) and RunsHaveRows (a
recorded run that asked has settled its reservation).

**PromptScheduler_proofs.** TypeCorrect, and WorkerKeepsOneChain: OneChain for
any cadences, back-offs, expiries and any number of handlers. It needs

    Inv = TypeOK /\ CyclesEnd /\ (outside = 0 => WorkerAlone)

CyclesEnd says that a cycle ends within `Longest`, hence before its job expires
(ExpiryAssumption): that is why the maintenance pass never takes a running job
for a lost one. WorkerAlone says that nothing of the web application is in the
queue, that the waiting job or the running cycle is the only one, and that a
pass which has decided to revive the prompt still finds it without either.
EarlySamplesAreShared is OversamplingIsShared, for any users: AloneIsDue says that
two cycles under way are both marked `shared` and that what a cycle alone has still
to ask was due when it began and has only become older, and `Oldest`, the bound on
recorded ages, lies above every interval, so that a bounded age never makes a target
look fresher than it is.

## 7. What is only checked, and what is not modelled

Liveness (QueueDrains, DraftsGetThrough, PendingIsSettled, OutcomesGetThrough,
ScansFinish, KeepsSampling) and everything under fairness stays with TLC: the
proof system covers neither ENABLED nor fairness. AcceptedIsKept, which needs an owner who
acts between dispatches and closes nothing, is checked by site_quiet and not proved
under that restriction; UncrossedAreKept is what holds without it. Every other property
a run checks is stated by a theorem.

Assumptions that the models make where the code is silent:

- More than one dispatcher or return sender may run, as during a rollout, and a
  claim skips rows another transaction has locked.
- A lease may run out under a live holder: the carry's HTTP calls and the sender's
  fetch wait as long for an answer (undici gives up after 300 s) as the lease lasts
  (300 s). It counts as a fault.
- There is one projection worker, whose rounds are transactions one after
  another; an event id is as good as its key and is left out.
- The site's pull requests are merged with a merge commit and the branch stays.
  A release is dispatched once, which is what ReleasePipeline establishes, and
  one process watches.
- An asset's claim takes the oldest one that is due, since each claim is one
  statement; expired approvals are like revoked ones; there is one reviewer at a
  time and one release of the version.
- The calls of the research provider cost one each, which is what the code's
  fixed price per call makes of them; there is one web process, and a request
  counts on the day its transaction began, as in the ledger.
- One maintenance pass is under way at a time, as pg-boss schedules it; what a
  firing reads of its prompt it reads at once; a retry's delay is below a tick.
- The versions of AetherReturn are those of one task, and a version is rejected or
  concluded independently of how it was approved.

Left out of the modelled components: the carrier that hands a release to Trigger
and leaves its entry RUNNING; the times releases are scheduled for; signatures and
the shape of events and packages, which decide before any state changes; briefs;
references and reasons carried along as data; research without a confirmed
profile or behind a closed gate, and creation runs, whose live adapter always
refuses; how the runs of an organization's other prompts add up to its daily
ceiling, which is a choice of `Skip` here.

Known troubles of the modelled parts that no property states, since nothing in
the repository says what should happen:

- a cancellation that commits while a carry waits for the advisory lock marks the
  release CANCELLED and does not stop its reservation: the intent is not read again
  (0029:76 to 0029:97), as after the reservation (claim_cancelled);
- rights, expiry or approval that end in that time do not stop it either;
- an entry whose carry kills its worker every time is claimed for ever, because
  the claim does not look at `max_attempts` (0028:83);
- the owner ends a pull request between the reply to a dispatch and its recorded
  acceptance, or within the same second by GitHub's clock: the watch takes that
  for an earlier end and the release waits for ever
  (`selena-site-publication-watch.ts:61`);
- a round of the watch looks at the fifty oldest pending releases only, and an
  AMBIGUOUS one is not watched (0053:42);
- an upload whose process dies before the row is marked stays QUARANTINED, is
  never claimed, and keeps its version from being approved
  (`selena-scanner.ts:354`);
- a research run the adapter refuses before it asks, because the process's own
  ceiling is used up, is settled as FAILED at its full estimate and uses up the
  owner's budget (`content-research-repositories.ts:641`), and that ceiling
  itself can be passed by the second request of each run, and by runs of several
  brands at once (`adapters.ts:243`).

The components of the third table of section 1, planned or without state worth a
model, are in PROJECT.json with the reason. The models cover a small share of the
repository's lines and most of its concurrency: the bulk of the lines is user
interface, editorial and marketing text, generated routes, schema declarations
and provider payloads, which hold no state that steps of several actors change.

## 8. Plan

1. Theorems first: ReleasePipeline without faults, where a closed entry has its
   outcome (CompletedMeansConcluded) and no reservation is left behind; that needs
   one live carry for each approval, tied to the lease of its entry.
2. AuditChain and GrowthBinding: appenders without a lock and the linear chain as
   abstract specification; uniqueness between tenants under concurrent
   confirmations and revocations.
3. ReleaseWorkflow: the Trigger carrier and its checkpoints, composed with
   ReleasePipeline's queue (the entry that stays RUNNING, a release cancelled or
   signed again while the workflow waits), against PublicationLedger.
4. A composition of AetherInbox, ReleasePipeline's outcome and AetherReturn over one
   material: from an event recorded to an outcome heard.
5. SigningKey: rotation against manifests already signed.

New modules come with one run each, for safety and liveness together where the
instance allows it, of at most about a million states; prompts and prompts_go_on
could share one if a single instance can hold both.
