--------------------------- MODULE ReleaseClaims ---------------------------
(***************************************************************************)
(* What the repository's tests, comments, documents and messages say of    *)
(* the release pipeline and its code does not keep. A configuration named  *)
(* claim_... finds the behaviour breaking each; README.md tells them all.  *)
(***************************************************************************)
EXTENDS ReleasePipeline

\* "provider-accepted release is held for reconciliation instead of falsely
\* marked cancelled" (0030_release_cancellation_workflow_state.pgtap.sql:91).
\* request_release_cancellation looks at the intent alone, and the intent is
\* QUEUED until the outcome is recorded.
AcceptedIsNeverCancelled ==
    \A a \in Approvals : intent[a] = "CANCELLED" => Posted(a) = {}

\* "A crash here instead leaves a RESERVED attempt, which is exactly what
\* reconciliation is for" (selena-release-dispatch.ts:65): a reservation comes
\* to an outcome in the end. No code takes up a reservation left behind.
ReservedIsReconciled ==
    \A a \in Approvals : attempts[a] = <<"RESERVED">> ~> Verdict(a) # "NONE"

\* "the terminal states mean the release reached its conclusion before the
\* queue entry was closed" (selena-trigger-dispatcher.ts:44). A retry that
\* finds a reservation closes the entry as COMPLETED, whatever became of it.
CompletedMeansConcluded ==
    \A a \in Approvals : dispatch[a] = "COMPLETED" => Verdict(a) # "NONE"

\* "Approval was revoked or superseded": "revoked approval is denied"
\* (0027_release_gateway_manifest_boundary.pgtap.sql:188). The check looks at
\* the latest decision, not at whose it is: approving again revives the queued
\* release of the approval that was revoked.
RevokedApprovalIsDenied ==
    [][\A a \in Approvals :
        attempts[a] = <<>> /\ attempts'[a] # <<>> => a \notin revoked]_vars

\* "Workflow outbox lease is not active" (0028_trigger_workflow_outbox_
\* dispatch.sql:180): only the holder of a lease settles its entry. The lease
\* is read without a lock and the entry updated by its id.
OnlyTheHolderSettles ==
    [][\A c \in Carries :
        worker[c] \in {"closeWrite", "retryWrite"} /\ worker'[c] = "done"
            => leaseOwner[carried[c]] = c]_vars

\* "Kill switch enabled: Gateway cancels/blocks before Postiz call"
\* (RELEASE_GATEWAY_SERVICE_DESIGN.md:67). The switch is read when the dispatch
\* is authorized and not again before the call.
NoCallUnderKillSwitch ==
    [][\A c \in Carries :
        request[c] = "NONE" /\ request'[c] # "NONE" => ~killSwitch]_vars
=============================================================================
