-------------------------- MODULE ReleasePipeline --------------------------
(***************************************************************************)
(* The path of an approved release through Selena Control Room:            *)
(*                                                                         *)
(*   the control room (apps/web/src/server/selena-control-room.ts) grants  *)
(*     and revokes approvals, queues and cancels releases, sets the kill   *)
(*     switch and the channel bindings;                                    *)
(*   the dispatcher (apps/worker/src/selena-trigger-dispatcher.ts) claims  *)
(*     queue entries under a lease, carries each through the gateway and   *)
(*     closes or retries it;                                               *)
(*   the Release Gateway (apps/worker/src/selena-release-gateway.ts and    *)
(*     selena-release-dispatch.ts) signs a manifest, reserves and          *)
(*     authorizes a dispatch, calls the provider and records the outcome;  *)
(*   the rules of each step live in SQL functions (packages/lib/src/db/    *)
(*     migrations, 0027 to 0053), each one transaction here, except where  *)
(*     a function reads a row without locking it and writes later: closing *)
(*     and retrying a queue entry, and reserving a dispatch, are a read    *)
(*     and a write that others' transactions can come between.             *)
(*                                                                         *)
(* One carry is one claim of a queue entry: claim_next_trigger_outbox uses *)
(* a fresh lease owner for every claim, so a carry is also the lease       *)
(* owner's name. The worker's and the gateway's side of a carry are two    *)
(* processes joined by two HTTP calls; either can die or lose the other    *)
(* while its peer goes on.                                                 *)
(*                                                                         *)
(* Bounds of an instance: the carries (claims) there can be, MaxFaults     *)
(* crashes, lost replies and overrun leases, MaxChanges changes of the     *)
(* conditions a release depends on.                                        *)
(***************************************************************************)
EXTENDS Naturals, Sequences

CONSTANTS
    Approvals,      \* approvals; one release intent and queue entry for each
    Targets,        \* pairs of a content version and a channel account
    TargetOf,       \* the target each approval is about
    SiteTargets,    \* the targets on the website_lab platform
    Integrations,   \* provider integrations a channel account can point at
    Carries,        \* claims of queue entries, which are also lease owners
    NONE,           \* no approval, no integration, no lease owner
    MaxAttempts,    \* outbox_events.max_attempts
    MaxFaults, MaxChanges

ASSUME ConstantsAssumption ==
    /\ TargetOf \in [Approvals -> Targets]
    /\ SiteTargets \subseteq Targets
    /\ Integrations # {}
    /\ NONE \notin Approvals \cup Integrations \cup Carries
    /\ MaxAttempts \in Nat \ {0}
    /\ MaxFaults \in Nat
    /\ MaxChanges \in Nat

VARIABLES
    \* the control room and its registry
    approval,      \* "NONE", "LIVE" or "EXPIRED"
    latest,        \* per target, the latest decision and the row it is
    revoked,       \* the approvals a revocation named (approval.revoked audit)
    fit,           \* per target: newest version, evidence, assets, account
    integration,   \* per target, the account's provider_integration_id
    bound,         \* per target, whether an active provider binding exists
    killSwitch,
    \* selena_release.outbox_events and workflow_dispatches
    outbox, leaseOwner, leaseExpired, attemptCount, dispatch,
    \* selena_release.release_intents, release_manifests,
    \* publication_attempts, and selena_audit.incidents
    intent, manifest, attempts, incidents,
    \* one carry: the worker's side, the gateway's side, the provider's side
    worker, gateway, request, carried, claimNo, report,
    \* bounds
    faults, changes

registryVars == <<approval, latest, revoked, fit, integration, bound, killSwitch>>
queueVars == <<outbox, leaseOwner, leaseExpired, attemptCount, dispatch>>
releaseVars == <<intent, manifest, attempts, incidents>>
workerVars == <<worker, carried, claimNo>>
gatewayVars == <<gateway, request, report>>
budgetVars == <<faults, changes>>
vars == <<registryVars, queueVars, releaseVars, workerVars, gatewayVars, budgetVars>>

IntentStatus == {"NONE", "QUEUED", "CANCELLED", "CANCEL_REQUESTED",
                 "SUCCEEDED", "FAILED", "BLOCKED", "UNKNOWN"}
OutboxStatus == {"NONE", "PENDING", "LEASED", "DELIVERED", "DEAD_LETTER", "CANCELLED"}
DispatchStatus == {"NONE", "COMPLETED", "FAILED", "RECONCILIATION_REQUIRED", "CANCELLED"}
Outcomes == {"ACCEPTED", "DEFINITIVE_FAILURE", "AMBIGUOUS", "NOT_SENT"}
AttemptStatus == Outcomes \cup {"RESERVED", "CONFIRMED"}
IncidentCodes == {"TRIGGER_OUTBOX_DEAD_LETTER", "POSTIZ_AMBIGUOUS_RESULT"}
WorkerState == {"unclaimed", "signing", "dispatching", "closing", "closeWrite",
                "failed", "retryWrite", "done", "crashed"}
GatewayState == {"idle", "sign", "signed", "dispatch", "prepared", "authorized",
                 "sent", "answered", "replied", "refused"}
RequestState == {"NONE", "IN_FLIGHT", "POSTED", "REJECTED"}

TypeOK ==
    /\ approval \in [Approvals -> {"NONE", "LIVE", "EXPIRED"}]
    /\ latest \in [Targets -> [decision : {"NONE", "APPROVED", "REVOKED"},
                               row : Approvals \cup {NONE}]]
    /\ revoked \subseteq Approvals
    /\ fit \in [Targets -> BOOLEAN]
    /\ integration \in [Targets -> Integrations]
    /\ bound \in [Targets -> BOOLEAN]
    /\ killSwitch \in BOOLEAN
    /\ outbox \in [Approvals -> OutboxStatus]
    /\ leaseOwner \in [Approvals -> Carries \cup {NONE}]
    /\ leaseExpired \in [Approvals -> BOOLEAN]
    /\ attemptCount \in [Approvals -> Nat]
    /\ dispatch \in [Approvals -> DispatchStatus]
    /\ intent \in [Approvals -> IntentStatus]
    /\ manifest \in [Approvals -> [state : {"NONE", "READY", "EXPIRED"},
                                   integration : Integrations \cup {NONE}]]
    /\ attempts \in [Approvals -> Seq(AttemptStatus)]
    /\ incidents \in [Approvals -> SUBSET IncidentCodes]
    /\ worker \in [Carries -> WorkerState]
    /\ gateway \in [Carries -> GatewayState]
    /\ request \in [Carries -> RequestState]
    /\ carried \in [Carries -> Approvals \cup {NONE}]
    /\ claimNo \in [Carries -> Nat]
    /\ report \in [Carries -> Outcomes \cup {"NONE", "SKIPPED"}]
    /\ faults \in 0..MaxFaults
    /\ changes \in 0..MaxChanges

Init ==
    /\ approval = [a \in Approvals |-> "NONE"]
    /\ latest = [t \in Targets |-> [decision |-> "NONE", row |-> NONE]]
    /\ revoked = {}
    /\ fit = [t \in Targets |-> TRUE]
    /\ integration \in [Targets -> Integrations]
    /\ bound = [t \in Targets |-> TRUE]
    /\ killSwitch = FALSE
    /\ outbox = [a \in Approvals |-> "NONE"]
    /\ leaseOwner = [a \in Approvals |-> NONE]
    /\ leaseExpired = [a \in Approvals |-> FALSE]
    /\ attemptCount = [a \in Approvals |-> 0]
    /\ dispatch = [a \in Approvals |-> "NONE"]
    /\ intent = [a \in Approvals |-> "NONE"]
    /\ manifest = [a \in Approvals |-> [state |-> "NONE", integration |-> NONE]]
    /\ attempts = [a \in Approvals |-> <<>>]
    /\ incidents = [a \in Approvals |-> {}]
    /\ worker = [c \in Carries |-> "unclaimed"]
    /\ gateway = [c \in Carries |-> "idle"]
    /\ request = [c \in Carries |-> "NONE"]
    /\ carried = [c \in Carries |-> NONE]
    /\ claimNo = [c \in Carries |-> 0]
    /\ report = [c \in Carries |-> "NONE"]
    /\ faults = 0
    /\ changes = 0

\* Spending one unit of a bound.
Fault == faults < MaxFaults /\ faults' = faults + 1 /\ UNCHANGED changes
Change == changes < MaxChanges /\ changes' = changes + 1 /\ UNCHANGED faults

-----------------------------------------------------------------------------
(* The control room *)

\* approveContentVersionFn. While the latest decision is a live approval the
\* handler answers with that row and writes nothing.
Approve(a) ==
    LET t == TargetOf[a] IN
    /\ approval[a] = "NONE"
    /\ fit[t]
    /\ ~(latest[t].decision = "APPROVED" /\ approval[latest[t].row] = "LIVE")
    /\ approval' = [approval EXCEPT ![a] = "LIVE"]
    /\ latest' = [latest EXCEPT ![t] = [decision |-> "APPROVED", row |-> a]]
    /\ UNCHANGED <<revoked, fit, integration, bound, killSwitch>>
    /\ UNCHANGED <<queueVars, releaseVars, workerVars, gatewayVars, budgetVars>>

\* revokeApprovalFn: a REVOKED row for the same version and account.
Revoke(a) ==
    /\ Change
    /\ approval[a] # "NONE"
    /\ latest' = [latest EXCEPT ![TargetOf[a]] = [decision |-> "REVOKED", row |-> NONE]]
    /\ revoked' = revoked \cup {a}
    /\ UNCHANGED <<approval, fit, integration, bound, killSwitch>>
    /\ UNCHANGED <<queueVars, releaseVars, workerVars, gatewayVars>>

\* queueReleaseIntentFn: the intent and its queue entry, in one transaction.
Queue(a) ==
    /\ intent[a] = "NONE"
    /\ approval[a] = "LIVE"
    /\ latest[TargetOf[a]] = [decision |-> "APPROVED", row |-> a]
    /\ fit[TargetOf[a]]
    /\ ~killSwitch
    /\ intent' = [intent EXCEPT ![a] = "QUEUED"]
    /\ outbox' = [outbox EXCEPT ![a] = "PENDING"]
    /\ UNCHANGED <<leaseOwner, leaseExpired, attemptCount, dispatch>>
    /\ UNCHANGED <<manifest, attempts, incidents>>
    /\ UNCHANGED <<registryVars, workerVars, gatewayVars, budgetVars>>

\* request_release_cancellation of a release no outcome was recorded for:
\* the intent and a queue entry still open are cancelled.
CancelQueued(a) ==
    /\ intent[a] = "QUEUED"
    /\ intent' = [intent EXCEPT ![a] = "CANCELLED"]
    /\ LET open == outbox[a] \in {"PENDING", "LEASED"} IN
       /\ outbox' = [outbox EXCEPT ![a] = IF open THEN "CANCELLED" ELSE @]
       /\ leaseOwner' = [leaseOwner EXCEPT ![a] = IF open THEN NONE ELSE @]
       /\ leaseExpired' = [leaseExpired EXCEPT ![a] = IF open THEN FALSE ELSE @]
    /\ dispatch' = [dispatch EXCEPT ![a] =
            IF @ = "RECONCILIATION_REQUIRED" THEN "CANCELLED" ELSE @]
    /\ UNCHANGED <<attemptCount, manifest, attempts, incidents>>
    /\ UNCHANGED <<registryVars, workerVars, gatewayVars, budgetVars>>

\* Broken: a release that failed can be cancelled as well.
CancelConcluded(a) ==
    /\ intent[a] \in {"SUCCEEDED", "UNKNOWN", "FAILED", "BLOCKED"}
    /\ intent' = [intent EXCEPT ![a] = "CANCEL_REQUESTED"]
    /\ UNCHANGED <<manifest, attempts, incidents>>
    /\ UNCHANGED <<registryVars, queueVars, workerVars, gatewayVars, budgetVars>>

\* request_release_cancellation of a release the provider has, or may have.
CancelSubmitted(a) ==
    /\ intent[a] \in {"SUCCEEDED", "UNKNOWN"}
    /\ intent' = [intent EXCEPT ![a] = "CANCEL_REQUESTED"]
    /\ UNCHANGED <<manifest, attempts, incidents>>
    /\ UNCHANGED <<registryVars, queueVars, workerVars, gatewayVars, budgetVars>>

\* setReleaseKillSwitchFn, for a scope that covers the targets.
SetKillSwitch ==
    /\ Change
    /\ killSwitch' = ~killSwitch
    /\ UNCHANGED <<approval, latest, revoked, fit, integration, bound>>
    /\ UNCHANGED <<queueVars, releaseVars, workerVars, gatewayVars>>

\* A newer version, evidence or asset rights running out or renewed, a scan
\* verdict, an account taken off the allowlist or put back.
ChangeFitness(t) ==
    /\ Change
    /\ fit' = [fit EXCEPT ![t] = ~@]
    /\ UNCHANGED <<approval, latest, revoked, integration, bound, killSwitch>>
    /\ UNCHANGED <<queueVars, releaseVars, workerVars, gatewayVars>>

\* confirm_channel_provider_binding: the account points at one integration.
BindChannel(t, i) ==
    /\ Change
    /\ ~bound[t] \/ integration[t] # i
    /\ integration' = [integration EXCEPT ![t] = i]
    /\ bound' = [bound EXCEPT ![t] = TRUE]
    /\ UNCHANGED <<approval, latest, revoked, fit, killSwitch>>
    /\ UNCHANGED <<queueVars, releaseVars, workerVars, gatewayVars>>

\* revoke_channel_provider_binding
UnbindChannel(t) ==
    /\ Change
    /\ bound[t]
    /\ bound' = [bound EXCEPT ![t] = FALSE]
    /\ UNCHANGED <<approval, latest, revoked, fit, integration, killSwitch>>
    /\ UNCHANGED <<queueVars, releaseVars, workerVars, gatewayVars>>

\* approvals.expires_at passes.
ApprovalExpires(a) ==
    /\ Change
    /\ approval[a] = "LIVE"
    /\ approval' = [approval EXCEPT ![a] = "EXPIRED"]
    /\ UNCHANGED <<latest, revoked, fit, integration, bound, killSwitch>>
    /\ UNCHANGED <<queueVars, releaseVars, workerVars, gatewayVars>>

-----------------------------------------------------------------------------
(* The dispatcher's queue *)

\* Broken: a lease that ran out is never taken over.
ClaimablePending(a) == outbox[a] = "PENDING"

\* A due entry, or a leased one whose lease ran out.
Claimable(a) ==
    \/ outbox[a] = "PENDING"
    \/ outbox[a] = "LEASED" /\ leaseExpired[a]

\* claim_next_trigger_outbox. Nothing here looks at max_attempts.
Claim(c, a) ==
    /\ worker[c] = "unclaimed"
    /\ Claimable(a)
    /\ outbox' = [outbox EXCEPT ![a] = "LEASED"]
    /\ leaseOwner' = [leaseOwner EXCEPT ![a] = c]
    /\ leaseExpired' = [leaseExpired EXCEPT ![a] = FALSE]
    /\ attemptCount' = [attemptCount EXCEPT ![a] = @ + 1]
    /\ worker' = [worker EXCEPT ![c] = "signing"]
    /\ carried' = [carried EXCEPT ![c] = a]
    /\ claimNo' = [claimNo EXCEPT ![c] = attemptCount[a] + 1]
    /\ gateway' = [gateway EXCEPT ![c] = "sign"]
    /\ UNCHANGED <<request, report, dispatch, registryVars, releaseVars, budgetVars>>

\* The carry whose lease it is has stopped working on the entry.
OwnerGone(a) == leaseOwner[a] # NONE /\ worker[leaseOwner[a]] \in {"done", "crashed"}

\* 300 seconds pass. That a worker still at it overruns its lease is a fault.
LeaseExpires(a) ==
    /\ outbox[a] = "LEASED"
    /\ ~leaseExpired[a]
    /\ leaseExpired' = [leaseExpired EXCEPT ![a] = TRUE]
    /\ IF OwnerGone(a) THEN UNCHANGED budgetVars ELSE Fault
    /\ UNCHANGED <<outbox, leaseOwner, attemptCount, dispatch>>
    /\ UNCHANGED <<registryVars, releaseVars, workerVars, gatewayVars>>

WorkerGoes(c, from, to) ==
    /\ worker[c] = from
    /\ worker' = [worker EXCEPT ![c] = to]
    /\ UNCHANGED <<carried, claimNo>>

\* signManifest answered: the worker asks for the dispatch.
AskDispatch(c) ==
    /\ WorkerGoes(c, "signing", "dispatching")
    /\ gateway[c] = "signed"
    /\ gateway' = [gateway EXCEPT ![c] = "dispatch"]
    /\ UNCHANGED <<request, report>>
    /\ UNCHANGED <<registryVars, queueVars, releaseVars, budgetVars>>

\* The dispatch report arrived.
ReceiveReport(c) ==
    /\ WorkerGoes(c, "dispatching", "closing")
    /\ gateway[c] = "replied"
    /\ UNCHANGED <<registryVars, queueVars, releaseVars, gatewayVars, budgetVars>>

\* The gateway answered with an error: the carry throws.
ReceiveRefusal(c) ==
    /\ \/ WorkerGoes(c, "signing", "failed")
       \/ WorkerGoes(c, "dispatching", "failed")
    /\ gateway[c] = "refused"
    /\ UNCHANGED <<registryVars, queueVars, releaseVars, gatewayVars, budgetVars>>

\* The call failed on its way out or back, or its answer was lost: the carry
\* throws while the gateway may still be working.
LoseGateway(c) ==
    /\ \/ WorkerGoes(c, "signing", "failed")
       \/ WorkerGoes(c, "dispatching", "failed")
    /\ Fault
    /\ UNCHANGED <<registryVars, queueVars, releaseVars, gatewayVars>>

WorkerCrashes(c) ==
    /\ worker[c] \notin {"unclaimed", "done", "crashed"}
    /\ worker' = [worker EXCEPT ![c] = "crashed"]
    /\ Fault
    /\ UNCHANGED <<carried, claimNo>>
    /\ UNCHANGED <<registryVars, queueVars, releaseVars, gatewayVars>>

\* Broken: the report is written down as it came; a release in doubt counts as
\* failed.
CarryStateVerbatim(r) == r
CarryStateInDoubtFails(r) == IF r \in {"ACCEPTED", "SKIPPED"} THEN "COMPLETED" ELSE "FAILED"

\* How createGatewayReleaseCarrier reads a dispatch report.
CarryState(r) ==
    CASE r \in {"ACCEPTED", "SKIPPED"} -> "COMPLETED"
      [] r = "AMBIGUOUS" -> "RECONCILIATION_REQUIRED"
      [] OTHER -> "FAILED"

HoldsLease(c) == outbox[carried[c]] = "LEASED" /\ leaseOwner[carried[c]] = c

\* record_direct_release_dispatch and retry_or_dead_letter_trigger_outbox read
\* the entry without locking it and update it by id: read and write are two
\* steps, and a claim or a cancellation may commit in between.
CloseRead(c) ==
    /\ worker[c] = "closing"
    /\ IF HoldsLease(c) /\ ~leaseExpired[carried[c]]
       THEN WorkerGoes(c, "closing", "closeWrite")
       ELSE WorkerGoes(c, "closing", "failed")
    /\ UNCHANGED <<registryVars, queueVars, releaseVars, gatewayVars, budgetVars>>

CloseWrite(c) ==
    LET a == carried[c] IN
    /\ WorkerGoes(c, "closeWrite", "done")
    /\ dispatch' = [dispatch EXCEPT ![a] = CarryState(report[c])]
    /\ outbox' = [outbox EXCEPT ![a] = "DELIVERED"]
    /\ leaseOwner' = [leaseOwner EXCEPT ![a] = NONE]
    /\ leaseExpired' = [leaseExpired EXCEPT ![a] = FALSE]
    /\ UNCHANGED <<attemptCount, registryVars, releaseVars, gatewayVars, budgetVars>>

RetryRead(c) ==
    /\ worker[c] = "failed"
    /\ IF HoldsLease(c)
       THEN WorkerGoes(c, "failed", "retryWrite")
       ELSE WorkerGoes(c, "failed", "done")
    /\ UNCHANGED <<registryVars, queueVars, releaseVars, gatewayVars, budgetVars>>

RetryWrite(c) ==
    LET a == carried[c]
        dead == claimNo[c] >= MaxAttempts
    IN
    /\ WorkerGoes(c, "retryWrite", "done")
    /\ outbox' = [outbox EXCEPT ![a] = IF dead THEN "DEAD_LETTER" ELSE "PENDING"]
    /\ leaseOwner' = [leaseOwner EXCEPT ![a] = NONE]
    /\ leaseExpired' = [leaseExpired EXCEPT ![a] = FALSE]
    /\ incidents' = [incidents EXCEPT ![a] =
            IF dead THEN @ \cup {"TRIGGER_OUTBOX_DEAD_LETTER"} ELSE @]
    /\ UNCHANGED <<attemptCount, dispatch, intent, manifest, attempts>>
    /\ UNCHANGED <<registryVars, gatewayVars, budgetVars>>

-----------------------------------------------------------------------------
(* The Release Gateway *)

\* Broken: the intent's own status is not looked at.
DispatchableThoughCancelled(a) ==
    /\ approval[a] = "LIVE"
    /\ latest[TargetOf[a]].decision = "APPROVED"
    /\ fit[TargetOf[a]]
    /\ ~killSwitch

\* The gates of build_gateway_release_package.
Dispatchable(a) ==
    /\ intent[a] \notin {"CANCELLED", "BLOCKED", "FAILED"}
    /\ approval[a] = "LIVE"
    /\ latest[TargetOf[a]].decision = "APPROVED"
    /\ fit[TargetOf[a]]
    /\ ~killSwitch

\* record_gateway_release_manifest keeps the manifest there is, expired or
\* not, and refuses when the package is no longer the one it holds.
Signable(a) ==
    /\ Dispatchable(a)
    /\ manifest[a].state # "NONE" => manifest[a].integration = integration[TargetOf[a]]

\* createSignedManifest
SignManifest(c) ==
    LET a == carried[c] IN
    /\ gateway[c] = "sign"
    /\ Signable(a)
    /\ manifest' = [manifest EXCEPT ![a] =
            IF @.state = "NONE"
            THEN [state |-> "READY", integration |-> integration[TargetOf[a]]]
            ELSE @]
    /\ gateway' = [gateway EXCEPT ![c] = "signed"]
    /\ UNCHANGED <<request, report, intent, attempts, incidents>>
    /\ UNCHANGED <<registryVars, queueVars, workerVars, budgetVars>>

\* The hour a manifest is valid for passes.
ManifestExpires(a) ==
    /\ Change
    /\ manifest[a].state = "READY"
    /\ manifest' = [manifest EXCEPT ![a].state = "EXPIRED"]
    /\ UNCHANGED <<intent, attempts, incidents>>
    /\ UNCHANGED <<registryVars, queueVars, workerVars, gatewayVars>>

\* What prepare_postiz_submission checks before it looks for a reservation.
Preparable(a) ==
    /\ manifest[a].state = "READY"
    /\ Dispatchable(a)
    /\ manifest[a].integration = integration[TargetOf[a]]

\* prepare_postiz_submission reads the manifest, the intent and the gates
\* without a lock, and then waits for the advisory lock of the release's key.
PrepareDispatch(c) ==
    /\ gateway[c] = "dispatch"
    /\ Preparable(carried[c])
    /\ gateway' = [gateway EXCEPT ![c] = "prepared"]
    /\ UNCHANGED <<request, report>>
    /\ UNCHANGED <<registryVars, queueVars, releaseVars, workerVars, budgetVars>>

\* Broken: a reservation there already is does not stop the submission.
ReserveAgain(c) ==
    LET a == carried[c] IN
    /\ gateway[c] = "prepared"
    /\ bound[TargetOf[a]] /\ ~killSwitch
    /\ attempts' = [attempts EXCEPT ![a] = <<"RESERVED">>]
    /\ gateway' = [gateway EXCEPT ![c] = "authorized"]
    /\ UNCHANGED <<request, report, intent, manifest, incidents>>
    /\ UNCHANGED <<registryVars, queueVars, workerVars, budgetVars>>

\* Under the lock, in the first transaction of dispatchReleaseManifest: the
\* reservation and its authorization (authorize_provider_dispatch, which reads
\* the kill switch again) commit together. The intent is not read again.
ReserveDispatch(c) ==
    LET a == carried[c] IN
    /\ gateway[c] = "prepared"
    /\ attempts[a] = <<>>
    /\ bound[TargetOf[a]] /\ ~killSwitch
    /\ attempts' = [attempts EXCEPT ![a] = <<"RESERVED">>]
    /\ gateway' = [gateway EXCEPT ![c] = "authorized"]
    /\ UNCHANGED <<request, report, intent, manifest, incidents>>
    /\ UNCHANGED <<registryVars, queueVars, workerVars, budgetVars>>

\* The key already has a reservation: nothing is submitted, whatever became
\* of that reservation.
SkipDispatch(c) ==
    /\ gateway[c] = "prepared"
    /\ attempts[carried[c]] # <<>>
    /\ gateway' = [gateway EXCEPT ![c] = "replied"]
    /\ report' = [report EXCEPT ![c] = "SKIPPED"]
    /\ UNCHANGED request
    /\ UNCHANGED <<registryVars, queueVars, releaseVars, workerVars, budgetVars>>

\* A raised exception rolls the transaction back; the worker gets a 409.
Refuse(c) ==
    LET a == carried[c] IN
    /\ \/ gateway[c] = "sign" /\ ~Signable(a)
       \/ gateway[c] = "dispatch" /\ ~Preparable(a)
       \/ /\ gateway[c] = "prepared"
          /\ attempts[a] = <<>> /\ (killSwitch \/ ~bound[TargetOf[a]])
    /\ gateway' = [gateway EXCEPT ![c] = "refused"]
    /\ UNCHANGED <<request, report>>
    /\ UNCHANGED <<registryVars, queueVars, releaseVars, workerVars, budgetVars>>

\* The provider is not configured here, or will not shape this release.
RefuseToPublish(c) ==
    /\ gateway[c] = "authorized"
    /\ gateway' = [gateway EXCEPT ![c] = "answered"]
    /\ report' = [report EXCEPT ![c] = "NOT_SENT"]
    /\ UNCHANGED request
    /\ UNCHANGED <<registryVars, queueVars, releaseVars, workerVars, budgetVars>>

\* provider.dispatch puts its request on the wire.
SendToProvider(c) ==
    /\ gateway[c] = "authorized"
    /\ gateway' = [gateway EXCEPT ![c] = "sent"]
    /\ request' = [request EXCEPT ![c] = "IN_FLIGHT"]
    /\ UNCHANGED report
    /\ UNCHANGED <<registryVars, queueVars, releaseVars, workerVars, budgetVars>>

\* The provider, on its own clock: it may post long after its caller died.
ProviderDecides(c) ==
    /\ request[c] = "IN_FLIGHT"
    /\ \E r \in {"POSTED", "REJECTED"} : request' = [request EXCEPT ![c] = r]
    /\ UNCHANGED <<gateway, report>>
    /\ UNCHANGED <<registryVars, queueVars, releaseVars, workerVars, budgetVars>>

\* Broken: a call that timed out counts as rejected.
AnswersTimeoutFails(site, s) ==
    IF s = "POSTED" THEN {"ACCEPTED"} ELSE {"DEFINITIVE_FAILURE"}

\* What an adapter's dispatch can make of the call. A posting adapter reads
\* ACCEPTED or DEFINITIVE_FAILURE off a decided answer, and anything else is
\* AMBIGUOUS. For the Lab adapter, whose provider is the site's repository,
\* POSTED is an edition committed to the branch: a failure of any step up to
\* there, a lost answer included, and a refused pull request are definitive.
AdapterAnswers(site, s) ==
    CASE s = "POSTED" /\ site -> {"ACCEPTED", "AMBIGUOUS", "DEFINITIVE_FAILURE"}
      [] s = "POSTED" /\ ~site -> {"ACCEPTED", "AMBIGUOUS"}
      [] s = "REJECTED" /\ ~site -> {"DEFINITIVE_FAILURE", "AMBIGUOUS"}
      [] OTHER -> IF site THEN {"DEFINITIVE_FAILURE"} ELSE {"AMBIGUOUS"}

ReadProviderAnswer(c) ==
    /\ gateway[c] = "sent"
    /\ \E o \in AdapterAnswers(TargetOf[carried[c]] \in SiteTargets, request[c]) :
        report' = [report EXCEPT ![c] = o]
    /\ gateway' = [gateway EXCEPT ![c] = "answered"]
    /\ UNCHANGED request
    /\ UNCHANGED <<registryVars, queueVars, releaseVars, workerVars, budgetVars>>

\* record_postiz_submission_outcome: the intent's new status, whatever it was.
IntentAfter(o) ==
    CASE o = "ACCEPTED" -> "SUCCEEDED"
      [] o = "DEFINITIVE_FAILURE" -> "FAILED"
      [] o = "NOT_SENT" -> "BLOCKED"
      [] OTHER -> "UNKNOWN"

\* Broken: a release in doubt raises no incident.
NoIncidentFor(o) == {}

IncidentFor(o) == IF o = "AMBIGUOUS" THEN {"POSTIZ_AMBIGUOUS_RESULT"} ELSE {}

Settled == {"ACCEPTED", "AMBIGUOUS", "CONFIRMED"}

RecordOutcome(c) ==
    LET a == carried[c]
        o == report[c]
    IN
    /\ gateway[c] = "answered"
    /\ \A n \in 1..Len(attempts[a]) : attempts[a][n] \notin Settled
    /\ attempts' = [attempts EXCEPT ![a] = Append(@, o)]
    /\ intent' = [intent EXCEPT ![a] = IntentAfter(o)]
    /\ incidents' = [incidents EXCEPT ![a] = @ \cup IncidentFor(o)]
    /\ gateway' = [gateway EXCEPT ![c] = "replied"]
    /\ UNCHANGED <<request, report, manifest>>
    /\ UNCHANGED <<registryVars, queueVars, workerVars, budgetVars>>

\* The gateway process dies, its database does, or it has no provider
\* configured: the request ends in an error wherever it had got to.
GatewayFails(c) ==
    /\ gateway[c] \in {"sign", "dispatch", "prepared", "authorized", "sent", "answered"}
    /\ gateway' = [gateway EXCEPT ![c] = "refused"]
    /\ Fault
    /\ UNCHANGED <<request, report>>
    /\ UNCHANGED <<registryVars, queueVars, releaseVars, workerVars>>

\* record_site_publication_outcome: the owner merged the pull request of an
\* accepted site release, closed it, or merged a later version.
RecordSiteOutcome(a) ==
    LET n == Len(attempts[a]) IN
    /\ TargetOf[a] \in SiteTargets
    /\ n > 0 /\ attempts[a][n] = "ACCEPTED"
    /\ \/ /\ attempts' = [attempts EXCEPT ![a] = Append(@, "CONFIRMED")]
          /\ UNCHANGED intent
       \/ /\ attempts' = [attempts EXCEPT ![a] = Append(@, "DEFINITIVE_FAILURE")]
          /\ intent' = [intent EXCEPT ![a] = "CANCELLED"]
    /\ UNCHANGED <<manifest, incidents>>
    /\ UNCHANGED <<registryVars, queueVars, workerVars, gatewayVars, budgetVars>>

-----------------------------------------------------------------------------
ControlRoom ==
    \/ SetKillSwitch
    \/ \E a \in Approvals :
        \/ Approve(a) \/ Revoke(a) \/ ApprovalExpires(a)
        \/ Queue(a) \/ CancelQueued(a) \/ CancelSubmitted(a)
    \/ \E t \in Targets :
        \/ ChangeFitness(t) \/ UnbindChannel(t)
        \/ \E i \in Integrations : BindChannel(t, i)

Worker(c) ==
    \/ AskDispatch(c) \/ ReceiveReport(c) \/ ReceiveRefusal(c)
    \/ CloseRead(c) \/ CloseWrite(c) \/ RetryRead(c) \/ RetryWrite(c)

Gateway(c) ==
    \/ SignManifest(c) \/ PrepareDispatch(c) \/ ReserveDispatch(c) \/ SkipDispatch(c)
    \/ Refuse(c) \/ RefuseToPublish(c) \/ SendToProvider(c) \/ ReadProviderAnswer(c)
    \/ RecordOutcome(c)

Next ==
    \/ ControlRoom
    \/ \E a \in Approvals :
        \/ LeaseExpires(a) \/ ManifestExpires(a) \/ RecordSiteOutcome(a)
        \/ \E c \in Carries : Claim(c, a)
    \/ \E c \in Carries :
        \/ Worker(c) \/ Gateway(c) \/ ProviderDecides(c)
        \/ LoseGateway(c) \/ WorkerCrashes(c) \/ GatewayFails(c)

Spec == Init /\ [][Next]_vars

(***************************************************************************)
(* The dispatcher's timer claims what is due every five seconds, a started *)
(* step of a live process ends, and a lease nobody works under runs out.   *)
(* Nothing is assumed of people, of faults, or of the provider.            *)
(***************************************************************************)
FairSpec ==
    /\ Spec
    /\ \A a \in Approvals :
        /\ WF_vars(\E c \in Carries : Claim(c, a))
        /\ WF_vars(OwnerGone(a) /\ LeaseExpires(a))
    /\ \A c \in Carries :
        /\ WF_vars(Worker(c))
        /\ WF_vars(Gateway(c))

-----------------------------------------------------------------------------
(* Properties *)

Posted(a) == {c \in Carries : carried[c] = a /\ request[c] = "POSTED"}
Verdict(a) == IF Len(attempts[a]) >= 2 THEN attempts[a][2] ELSE "NONE"
LastAttempt(a) == IF attempts[a] = <<>> THEN "NONE" ELSE attempts[a][Len(attempts[a])]

\* A release reaches its provider at most once, however often its queue entry
\* is claimed, retried, or carried by two workers at a time, and although the
\* process that sent it may be gone (dispatch_reservations' idempotency key).
AtMostOnePost == \A a \in Approvals : \A c, d \in Posted(a) : c = d

\* The verdict says that the provider has not and will not have the release.
\* The Lab adapter's DEFINITIVE_FAILURE does not: the edition may be on the
\* branch (SitePublication's FailedStaysOff).
Denied(a) ==
    \/ Verdict(a) = "NOT_SENT"
    \/ Verdict(a) = "DEFINITIVE_FAILURE" /\ TargetOf[a] \notin SiteTargets

\* The recorded outcome never contradicts the provider: ACCEPTED was posted,
\* and what was recorded as not sent, or as failed by a posting adapter, is
\* not posted later either (the outcomes of classifyDispatchError and of the
\* Lab adapter, record_postiz_submission_outcome).
VerdictMatchesProvider ==
    \A a \in Approvals :
        /\ Verdict(a) = "ACCEPTED" => Posted(a) # {}
        /\ Denied(a) => Posted(a) = {}

\* The last attempts a release of this status may have.
LastAttemptsOf(status) ==
    CASE status = "NONE" -> {"NONE"}
      [] status = "QUEUED" -> {"NONE", "RESERVED"}
      [] status = "CANCELLED" -> {"NONE", "RESERVED", "DEFINITIVE_FAILURE"}
      [] status = "SUCCEEDED" -> {"ACCEPTED", "CONFIRMED"}
      [] status = "CANCEL_REQUESTED" -> {"ACCEPTED", "AMBIGUOUS", "CONFIRMED"}
      [] status = "UNKNOWN" -> {"AMBIGUOUS"}
      [] status = "FAILED" -> {"DEFINITIVE_FAILURE"}
      [] status = "BLOCKED" -> {"NOT_SENT"}

\* The status the control room shows and the last publication attempt tell the
\* same story (release_intents.status against publication_attempts).
IntentTellsTheOutcome ==
    \A a \in Approvals : LastAttempt(a) \in LastAttemptsOf(intent[a])

\* Nothing is lost in silence: a release left in doubt or dead-lettered has its
\* incident.
TroubleIsReported ==
    \A a \in Approvals :
        /\ Verdict(a) = "AMBIGUOUS" => "POSTIZ_AMBIGUOUS_RESULT" \in incidents[a]
        /\ outbox[a] = "DEAD_LETTER" => "TRIGGER_OUTBOX_DEAD_LETTER" \in incidents[a]

\* The dispatch record agrees with the release: FAILED means a recorded
\* failure, RECONCILIATION_REQUIRED one in doubt, and a COMPLETED entry at
\* least has its reservation (record_direct_release_dispatch).
DispatchAgrees ==
    \A a \in Approvals :
        CASE dispatch[a] = "FAILED" -> Verdict(a) \in {"DEFINITIVE_FAILURE", "NOT_SENT"}
          [] dispatch[a] = "RECONCILIATION_REQUIRED" -> Verdict(a) = "AMBIGUOUS"
          [] dispatch[a] = "COMPLETED" -> attempts[a] # <<>>
          [] OTHER -> TRUE

\* Cancelled, with nothing reserved and no carry that has passed the gates and
\* waits to reserve.
Closed(a) ==
    /\ intent[a] = "CANCELLED"
    /\ attempts[a] = <<>>
    /\ \A c \in Carries : carried[c] = a => gateway[c] # "prepared"

\* A cancellation that no carry has overtaken is final: whatever is signed or
\* already under way, the release stays cancelled and is never reserved
\* (request_release_cancellation against prepare_postiz_submission). One that
\* commits while a carry waits to reserve does not stop it.
CancellationIsFinal == [][\A a \in Approvals : Closed(a) => Closed(a)']_vars

\* Every queued release leaves the queue, closed, cancelled or dead-lettered,
\* although workers die and leases run out (selena-trigger-dispatcher.ts).
QueueDrains ==
    \A a \in Approvals :
        outbox[a] \in {"PENDING", "LEASED"} ~> outbox[a] \notin {"PENDING", "LEASED"}

\* The pipeline keeps the promise of PublicationLedger.
Ledger == INSTANCE PublicationLedger WITH
    Releases <- Approvals,
    Requests <- Carries,
    Decisive <- {a \in Approvals : TargetOf[a] \notin SiteTargets},
    reserved <- {a \in Approvals : attempts[a] # <<>>},
    taken <- [a \in Approvals |-> Posted(a)],
    verdict <- [a \in Approvals |-> Verdict(a)]

ImplementsLedger == Ledger!LedgerSpec
=============================================================================
