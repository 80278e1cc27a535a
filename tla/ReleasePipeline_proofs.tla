----------------------- MODULE ReleasePipeline_proofs -----------------------
(***************************************************************************)
(* Proofs about ReleasePipeline, for any number of approvals, workers,     *)
(* faults and changes: its types; that a release is posted at most once    *)
(* and the recorded outcome never contradicts the provider, which makes it *)
(* an implementation of PublicationLedger; that status, incidents and      *)
(* dispatch records agree with the outcome; and that a cancellation no     *)
(* carry has overtaken is final.                                           *)
(***************************************************************************)
EXTENDS ReleasePipeline, TLAPS

-----------------------------------------------------------------------------
(* Sequences *)

\* Appending lengthens a sequence by one and leaves what it held alone.
LEMMA AppendKeeps ==
    ASSUME NEW S, NEW s \in Seq(S), NEW e \in S
    PROVE  /\ Append(s, e) \in Seq(S)
           /\ Append(s, e) # <<>>
           /\ Len(Append(s, e)) = Len(s) + 1
           /\ Append(s, e)[Len(s) + 1] = e
           /\ \A i \in 1..Len(s) : Append(s, e)[i] = s[i]
  OBVIOUS

-----------------------------------------------------------------------------
(* Types *)

LEMMA InitTypeOK == Init => TypeOK
  <1> SUFFICES ASSUME Init PROVE TypeOK
    OBVIOUS
  <1> USE ConstantsAssumption DEF ConstantsAssumption, Init
  <1>1. latest \in [Targets -> [decision : {"NONE", "APPROVED", "REVOKED"},
                               row : Approvals \cup {NONE}]]
    OBVIOUS
  <1>2. manifest \in [Approvals -> [state : {"NONE", "READY", "EXPIRED"},
                                   integration : Integrations \cup {NONE}]]
    OBVIOUS
  <1>3. attempts \in [Approvals -> Seq(AttemptStatus)]
    OBVIOUS
  <1>4. faults \in 0..MaxFaults /\ changes \in 0..MaxChanges
    OBVIOUS
  <1>5. QED
    BY <1>1, <1>2, <1>3, <1>4
    DEF TypeOK, IntentStatus, OutboxStatus, DispatchStatus, Outcomes,
        WorkerState, GatewayState, RequestState

\* The control room changes its registry, the intents and the queue.
LEMMA ControlRoomTypeOK == TypeOK /\ ControlRoom => TypeOK'
  <1> SUFFICES ASSUME TypeOK, ControlRoom PROVE TypeOK'
    OBVIOUS
  <1> USE ConstantsAssumption
      DEF ConstantsAssumption, TypeOK, queueVars, releaseVars, workerVars, gatewayVars, budgetVars,
          registryVars
  <1>1. CASE SetKillSwitch
    BY <1>1 DEF SetKillSwitch, Change
  <1>2. ASSUME NEW a \in Approvals, Approve(a) PROVE TypeOK'
    BY <1>2 DEF Approve
  <1>3. ASSUME NEW a \in Approvals, Revoke(a) PROVE TypeOK'
    BY <1>3 DEF Revoke, Change
  <1>4. ASSUME NEW a \in Approvals, ApprovalExpires(a) PROVE TypeOK'
    BY <1>4 DEF ApprovalExpires, Change
  <1>5. ASSUME NEW a \in Approvals, Queue(a) PROVE TypeOK'
    BY <1>5 DEF Queue, IntentStatus, OutboxStatus
  <1>6. ASSUME NEW a \in Approvals, CancelQueued(a) PROVE TypeOK'
    BY <1>6 DEF CancelQueued, IntentStatus, OutboxStatus, DispatchStatus
  <1>7. ASSUME NEW a \in Approvals, CancelSubmitted(a) PROVE TypeOK'
    BY <1>7 DEF CancelSubmitted, IntentStatus
  <1>8. ASSUME NEW t \in Targets, ChangeFitness(t) PROVE TypeOK'
    BY <1>8 DEF ChangeFitness, Change
  <1>9. ASSUME NEW t \in Targets, UnbindChannel(t) PROVE TypeOK'
    BY <1>9 DEF UnbindChannel, Change
  <1>10. ASSUME NEW t \in Targets, NEW i \in Integrations, BindChannel(t, i)
         PROVE  TypeOK'
    BY <1>10 DEF BindChannel, Change
  <1>11. QED
    BY <1>1, <1>2, <1>3, <1>4, <1>5, <1>6, <1>7, <1>8, <1>9, <1>10
    DEF ControlRoom

\* What the worker's side of a carry does to the queue and to itself.
LEMMA WorkerTypeOK ==
    ASSUME TypeOK, NEW c \in Carries, Worker(c) \/ LoseGateway(c) \/ WorkerCrashes(c)
    PROVE  TypeOK'
  <1> USE ConstantsAssumption
      DEF ConstantsAssumption, TypeOK, WorkerGoes, queueVars, releaseVars,
          workerVars, gatewayVars, budgetVars, registryVars
  <1>1. CASE AskDispatch(c)
    BY <1>1 DEF AskDispatch, WorkerState, GatewayState
  <1>2. CASE ReceiveReport(c)
    BY <1>2 DEF ReceiveReport, WorkerState
  <1>3. CASE ReceiveRefusal(c)
    BY <1>3 DEF ReceiveRefusal, WorkerState
  <1>4. CASE LoseGateway(c)
    <2>1. worker' \in [Carries -> WorkerState] /\ UNCHANGED <<carried, claimNo>>
      BY <1>4 DEF LoseGateway, WorkerState
    <2>2. QED
      BY <1>4, <2>1 DEF LoseGateway, Fault
  <1>5. CASE WorkerCrashes(c)
    BY <1>5 DEF WorkerCrashes, WorkerState, Fault
  <1>6. CASE CloseRead(c)
    BY <1>6 DEF CloseRead, WorkerState
  <1>7. CASE CloseWrite(c)
    <2>1. CarryState(report[c]) \in DispatchStatus
      BY DEF CarryState, DispatchStatus
    <2>2. QED
      BY <1>7, <2>1 DEF CloseWrite, WorkerState, OutboxStatus
  <1>8. CASE RetryRead(c)
    BY <1>8 DEF RetryRead, WorkerState
  <1>9. CASE RetryWrite(c)
    BY <1>9 DEF RetryWrite, WorkerState, OutboxStatus, IncidentCodes
  <1>10. QED
    BY <1>1, <1>2, <1>3, <1>4, <1>5, <1>6, <1>7, <1>8, <1>9 DEF Worker

\* A carry works for the approval whose entry it claimed, or for none yet.
CarryInv ==
    \A c \in Carries :
        IF worker[c] = "unclaimed"
        THEN gateway[c] = "idle" /\ request[c] = "NONE"
        ELSE carried[c] \in Approvals

\* What the gateway is about to record agrees with the request it made.
AnswerInv ==
    \A c \in Carries :
        /\ gateway[c] = "authorized" => request[c] = "NONE"
        /\ gateway[c] = "answered" =>
            /\ report[c] \in Outcomes
            /\ report[c] = "ACCEPTED" => request[c] = "POSTED"
            /\ report[c] = "DEFINITIVE_FAILURE" /\ TargetOf[carried[c]] \notin SiteTargets
                   => request[c] = "REJECTED"
            /\ report[c] = "NOT_SENT" => request[c] = "NONE"

LEMMA GatewayTypeOK ==
    ASSUME TypeOK, CarryInv, AnswerInv, NEW c \in Carries,
           Gateway(c) \/ ProviderDecides(c) \/ GatewayFails(c)
    PROVE  TypeOK'
  <1> USE ConstantsAssumption
      DEF ConstantsAssumption, TypeOK, queueVars, releaseVars,
          workerVars, gatewayVars, budgetVars, registryVars
  <1>1. CASE SignManifest(c)
    <2>1. carried[c] \in Approvals /\ TargetOf[carried[c]] \in Targets
      BY <1>1 DEF SignManifest, CarryInv
    <2>2. manifest' \in [Approvals -> [state : {"NONE", "READY", "EXPIRED"},
                                      integration : Integrations \cup {NONE}]]
      BY <1>1, <2>1 DEF SignManifest
    <2>3. QED
      BY <1>1, <2>2 DEF SignManifest, GatewayState
  <1>12. CASE PrepareDispatch(c)
    BY <1>12 DEF PrepareDispatch, GatewayState
  <1>2. CASE ReserveDispatch(c)
    <2>1. attempts' \in [Approvals -> Seq(AttemptStatus)]
      <3>1. <<"RESERVED">> \in Seq(AttemptStatus)
        BY DEF AttemptStatus
      <3>2. QED
        BY <1>2, <3>1 DEF ReserveDispatch
    <2>2. QED
      BY <1>2, <2>1 DEF ReserveDispatch, GatewayState
  <1>3. CASE SkipDispatch(c)
    BY <1>3 DEF SkipDispatch, GatewayState
  <1>4. CASE Refuse(c)
    BY <1>4 DEF Refuse, GatewayState
  <1>5. CASE RefuseToPublish(c)
    BY <1>5 DEF RefuseToPublish, GatewayState, Outcomes
  <1>6. CASE SendToProvider(c)
    BY <1>6 DEF SendToProvider, GatewayState, RequestState
  <1>7. CASE ReadProviderAnswer(c)
    <2>1. AdapterAnswers(TargetOf[carried[c]] \in SiteTargets, request[c]) \subseteq Outcomes
      BY DEF AdapterAnswers, Outcomes
    <2>2. QED
      BY <1>7, <2>1 DEF ReadProviderAnswer, GatewayState
  <1>8. CASE RecordOutcome(c)
    <2>1. carried[c] \in Approvals
      BY <1>8 DEF RecordOutcome, CarryInv
    <2>2. report[c] \in Outcomes
      BY <1>8 DEF RecordOutcome, AnswerInv
    <2>3. IntentAfter(report[c]) \in IntentStatus
      BY DEF IntentAfter, IntentStatus
    <2>4. incidents[carried[c]] \cup IncidentFor(report[c]) \in SUBSET IncidentCodes
      BY <2>1 DEF IncidentFor, IncidentCodes
    <2>5. Append(attempts[carried[c]], report[c]) \in Seq(AttemptStatus)
      BY <2>1, <2>2, AppendKeeps DEF AttemptStatus
    <2>6. QED
      BY <1>8, <2>1, <2>2, <2>3, <2>4, <2>5 DEF RecordOutcome, GatewayState
  <1>9. CASE ProviderDecides(c)
    BY <1>9 DEF ProviderDecides, RequestState
  <1>10. CASE GatewayFails(c)
    BY <1>10 DEF GatewayFails, GatewayState, Fault
  <1>11. QED
    BY <1>1, <1>2, <1>3, <1>4, <1>5, <1>6, <1>7, <1>8, <1>9, <1>10, <1>12 DEF Gateway

\* What the clock and the site's owner do.
LEMMA ApprovalStepTypeOK ==
    ASSUME TypeOK, NEW a \in Approvals,
           \/ LeaseExpires(a) \/ ManifestExpires(a) \/ RecordSiteOutcome(a)
           \/ \E c \in Carries : Claim(c, a)
    PROVE  TypeOK'
  <1> USE DEF TypeOK, queueVars, releaseVars, workerVars, gatewayVars,
          budgetVars, registryVars
  <1>1. CASE LeaseExpires(a)
    <2>1. faults' \in 0..MaxFaults /\ changes' \in 0..MaxChanges
      BY <1>1, ConstantsAssumption DEF LeaseExpires, Fault, ConstantsAssumption
    <2>2. /\ leaseExpired' = [leaseExpired EXCEPT ![a] = TRUE]
          /\ UNCHANGED <<outbox, leaseOwner, attemptCount, dispatch>>
          /\ UNCHANGED <<registryVars, releaseVars, workerVars, gatewayVars>>
      BY <1>1 DEF LeaseExpires
    <2>3. leaseExpired' \in [Approvals -> BOOLEAN]
      BY <2>2
    <2>4. QED
      BY <2>1, <2>2, <2>3
  <1>2. CASE ManifestExpires(a)
    <2>1. faults' \in 0..MaxFaults /\ changes' \in 0..MaxChanges
      BY <1>2, ConstantsAssumption DEF ManifestExpires, Change, ConstantsAssumption
    <2>2. manifest' \in [Approvals -> [state : {"NONE", "READY", "EXPIRED"},
                                      integration : Integrations \cup {NONE}]]
      BY <1>2 DEF ManifestExpires
    <2>3. QED
      BY <1>2, <2>1, <2>2 DEF ManifestExpires
  <1>3. CASE RecordSiteOutcome(a)
    <2>1. \A o \in {"CONFIRMED", "DEFINITIVE_FAILURE"} :
            Append(attempts[a], o) \in Seq(AttemptStatus)
      BY AppendKeeps DEF AttemptStatus, Outcomes
    <2>2. QED
      BY <1>3, <2>1 DEF RecordSiteOutcome, IntentStatus
  <1>4. ASSUME NEW c \in Carries, Claim(c, a) PROVE TypeOK'
    BY <1>4 DEF Claim, OutboxStatus, WorkerState, GatewayState
  <1>5. QED
    BY <1>1, <1>2, <1>3, <1>4

-----------------------------------------------------------------------------
(* The inductive invariant *)

\* A carry between its reservation and the recording of its outcome.
Serving(c) == gateway[c] \in {"authorized", "sent", "answered"}

\* A carry that reserved a dispatch and may still be, or has been, heard by
\* the provider, whatever became of its worker and its gateway.
Holder(c) == Serving(c) \/ request[c] # "NONE"

SoleHolder ==
    \A c, d \in Carries :
        Holder(c) /\ Holder(d) /\ carried[c] = carried[d] => c = d

ReservedInv ==
    \A c \in Carries :
        /\ Holder(c) => attempts[carried[c]] # <<>>
        /\ Serving(c) => Len(attempts[carried[c]]) = 1

\* The first attempt is the reservation, the second the verdict; a verdict
\* that denies a post leaves no request that could still become one.
VerdictInv ==
    \A a \in Approvals :
        /\ attempts[a] # <<>> => attempts[a][1] = "RESERVED"
        /\ Verdict(a) \in Outcomes \cup {"NONE"}
        /\ Verdict(a) = "ACCEPTED" => Posted(a) # {}
        /\ Denied(a) =>
            \A c \in Carries : carried[c] = a => request[c] \in {"NONE", "REJECTED"}

IInv ==
    /\ TypeOK
    /\ CarryInv
    /\ AnswerInv
    /\ SoleHolder
    /\ ReservedInv
    /\ VerdictInv

LEMMA InitIInv == Init => IInv
  <1> SUFFICES ASSUME Init PROVE IInv
    OBVIOUS
  <1>1. TypeOK
    BY InitTypeOK
  <1>2. QED
    BY <1>1
    DEF Init, IInv, CarryInv, AnswerInv, SoleHolder, ReservedInv, VerdictInv,
        Holder, Serving, Verdict, Denied

-----------------------------------------------------------------------------
(* Each step preserves the invariant *)

\* What the invariant is about, apart from types.
corePart == <<worker, carried, gateway, request, report, attempts>>

\* A step that leaves all that alone preserves the invariant.
LEMMA FramePreserves ==
    ASSUME IInv, TypeOK', UNCHANGED corePart
    PROVE  IInv'
  BY DEF IInv, corePart, CarryInv, AnswerInv, SoleHolder, ReservedInv, VerdictInv,
         Holder, Serving, Verdict, Posted, Denied

\* Neither does a worker that goes on, whichever way.
LEMMA WorkerPreserves ==
    ASSUME IInv, NEW c \in Carries, Worker(c) \/ LoseGateway(c) \/ WorkerCrashes(c)
    PROVE  IInv'
  <1>1. TypeOK'
    BY WorkerTypeOK DEF IInv
  <1>2. /\ UNCHANGED <<carried, request, report, attempts>>
        /\ worker[c] # "unclaimed"
        /\ \E w \in WorkerState \ {"unclaimed"} : worker' = [worker EXCEPT ![c] = w]
    BY DEF Worker, LoseGateway, WorkerCrashes, AskDispatch, ReceiveReport,
           ReceiveRefusal, CloseRead, CloseWrite, RetryRead, RetryWrite, WorkerGoes,
           WorkerState, releaseVars, gatewayVars
  <1>3. \/ UNCHANGED gateway
        \/ gateway[c] = "signed" /\ gateway' = [gateway EXCEPT ![c] = "dispatch"]
    BY DEF Worker, LoseGateway, WorkerCrashes, AskDispatch, ReceiveReport,
           ReceiveRefusal, CloseRead, CloseWrite, RetryRead, RetryWrite, gatewayVars
  <1>4. \A d \in Carries : Serving(d)' <=> Serving(d)
    BY <1>3 DEF Serving, IInv, TypeOK
  <1>5. CarryInv'
    BY <1>2, <1>3 DEF IInv, TypeOK, CarryInv
  <1>6. AnswerInv'
    BY <1>2, <1>3 DEF IInv, TypeOK, AnswerInv
  <1>7. SoleHolder' /\ ReservedInv' /\ VerdictInv'
    BY <1>2, <1>4 DEF IInv, SoleHolder, ReservedInv, VerdictInv, Holder, Verdict, Posted, Denied
  <1>8. QED
    BY <1>1, <1>5, <1>6, <1>7 DEF IInv

\* A new carry holds nothing yet.
LEMMA ClaimPreserves ==
    ASSUME IInv, NEW a \in Approvals, NEW c \in Carries, Claim(c, a)
    PROVE  IInv'
  <1>1. TypeOK'
    BY ApprovalStepTypeOK DEF IInv
  <1>2. gateway[c] = "idle" /\ request[c] = "NONE"
    BY DEF Claim, IInv, CarryInv
  <1>3. /\ worker' = [worker EXCEPT ![c] = "signing"]
        /\ carried' = [carried EXCEPT ![c] = a]
        /\ gateway' = [gateway EXCEPT ![c] = "sign"]
        /\ UNCHANGED <<request, report, attempts>>
    BY DEF Claim, releaseVars
  <1>4. ~Holder(c) /\ ~Holder(c)'
    BY <1>2, <1>3 DEF Holder, Serving, IInv, TypeOK
  <1>5. \A d \in Carries \ {c} :
            /\ carried'[d] = carried[d] /\ worker'[d] = worker[d]
            /\ gateway'[d] = gateway[d]
    BY <1>3 DEF IInv, TypeOK
  <1>6. CarryInv'
    BY <1>3, <1>5 DEF IInv, TypeOK, CarryInv
  <1>7. AnswerInv'
    BY <1>3, <1>5 DEF IInv, TypeOK, AnswerInv
  <1>8. SoleHolder' /\ ReservedInv'
    BY <1>3, <1>4, <1>5 DEF IInv, SoleHolder, ReservedInv, Holder, Serving
  <1>9. VerdictInv'
    BY <1>2, <1>3, <1>5 DEF IInv, VerdictInv, Verdict, Posted, Denied, TypeOK
  <1>10. QED
    BY <1>1, <1>6, <1>7, <1>8, <1>9 DEF IInv

\* A gateway that moves on without a request, a reservation or an answer.
LEMMA IdleGatewayPreserves ==
    ASSUME IInv, TypeOK', NEW c \in Carries, NEW g \in GatewayState,
           gateway[c] # "idle", ~Serving(c) \/ g = "refused",
           g \notin {"authorized", "sent", "answered"},
           gateway' = [gateway EXCEPT ![c] = g],
           UNCHANGED <<worker, carried, request, attempts>>,
           \A d \in Carries \ {c} : report'[d] = report[d]
    PROVE  IInv'
  <1>1. /\ ~Serving(c)'
        /\ \A d \in Carries \ {c} : gateway'[d] = gateway[d]
    BY DEF Serving, IInv, TypeOK
  <1>2. CarryInv'
    BY <1>1 DEF IInv, CarryInv
  <1>3. AnswerInv'
    BY <1>1 DEF IInv, AnswerInv, Serving
  <1>4. SoleHolder' /\ ReservedInv'
    BY <1>1 DEF IInv, SoleHolder, ReservedInv, Holder, Serving
  <1>5. VerdictInv'
    BY DEF IInv, VerdictInv, Verdict, Posted, Denied
  <1>6. QED
    BY <1>2, <1>3, <1>4, <1>5 DEF IInv

\* The reservation is the first its approval ever has: nobody else holds it.
LEMMA ReservePreserves ==
    ASSUME IInv, NEW c \in Carries, ReserveDispatch(c)
    PROVE  IInv'
  <1> DEFINE a == carried[c]
  <1>1. TypeOK'
    BY GatewayTypeOK DEF IInv, Gateway
  <1>2. /\ gateway[c] = "prepared" /\ attempts[a] = <<>>
        /\ attempts' = [attempts EXCEPT ![a] = <<"RESERVED">>]
        /\ gateway' = [gateway EXCEPT ![c] = "authorized"]
        /\ UNCHANGED <<worker, carried, request, report>>
    BY DEF ReserveDispatch, workerVars
  <1>3. a \in Approvals
    BY <1>2 DEF IInv, CarryInv
  <1>4. \A d \in Carries : carried[d] = a => ~Holder(d)
    BY <1>2 DEF IInv, ReservedInv
  <1>5. request[c] = "NONE"
    BY <1>4 DEF Holder
  <1>6. \A d \in Carries \ {c} : gateway'[d] = gateway[d]
    BY <1>2 DEF IInv, TypeOK
  <1>7. gateway'[c] = "authorized"
    BY <1>2 DEF IInv, TypeOK
  <1>8. /\ attempts'[a] = <<"RESERVED">> /\ Len(attempts'[a]) = 1 /\ attempts'[a] # <<>>
        /\ \A b \in Approvals \ {a} : attempts'[b] = attempts[b]
    BY <1>2, <1>3 DEF IInv, TypeOK
  <1>9. CarryInv'
    BY <1>2, <1>3, <1>6 DEF IInv, CarryInv
  <1>10. AnswerInv'
    BY <1>2, <1>5, <1>6, <1>7 DEF IInv, AnswerInv
  <1>11. \A d \in Carries \ {c} : (Holder(d)' <=> Holder(d)) /\ (Serving(d)' <=> Serving(d))
    BY <1>2, <1>6 DEF Holder, Serving
  <1>12. SoleHolder'
    BY <1>2, <1>4, <1>11 DEF IInv, SoleHolder
  <1>13. ReservedInv'
    <2> SUFFICES ASSUME NEW d \in Carries, Holder(d)'
                 PROVE  /\ (attempts[carried[d]] # <<>>)'
                        /\ Serving(d)' => (Len(attempts[carried[d]]) = 1)'
      BY DEF ReservedInv, Holder
    <2>1. CASE d = c
      BY <1>2, <1>8, <2>1
    <2>2. CASE d # c
      <3>1. Holder(d) /\ carried[d] # a
        BY <1>4, <1>11, <2>2
      <3>2. carried[d] \in Approvals
        BY <3>1 DEF IInv, CarryInv, Holder, Serving
      <3>3. QED
        BY <1>2, <1>8, <1>11, <2>2, <3>1, <3>2 DEF IInv, ReservedInv
    <2>3. QED
      BY <2>1, <2>2
  <1>14. VerdictInv'
    BY <1>2, <1>8 DEF IInv, VerdictInv, Verdict, Posted, Denied, TypeOK
  <1>15. QED
    BY <1>1, <1>9, <1>10, <1>12, <1>13, <1>14 DEF IInv

\* The request of a carry, its gateway and its report move; nobody's
\* attempts do, and who holds a reservation does not change.
LEMMA ServePreserves ==
    ASSUME IInv, NEW c \in Carries,
           \/ RefuseToPublish(c) \/ SendToProvider(c) \/ ReadProviderAnswer(c)
    PROVE  IInv'
  <1>1. TypeOK'
    BY GatewayTypeOK DEF IInv, Gateway
  <1>2. UNCHANGED <<worker, carried, attempts>>
    BY DEF RefuseToPublish, SendToProvider, ReadProviderAnswer, workerVars, releaseVars
  <1>3. /\ Serving(c) /\ Serving(c)'
        /\ \A d \in Carries \ {c} :
             /\ gateway'[d] = gateway[d] /\ request'[d] = request[d] /\ report'[d] = report[d]
    BY DEF RefuseToPublish, SendToProvider, ReadProviderAnswer, Serving, IInv, TypeOK
  <1>4. Len(attempts[carried[c]]) = 1 /\ gateway[c] # "idle"
    BY <1>3 DEF IInv, ReservedInv, Serving
  <1>5. \A d \in Carries : (Holder(d)' <=> Holder(d)) /\ (Serving(d)' <=> Serving(d))
    BY <1>3 DEF Holder, Serving
  <1>6. CarryInv'
    BY <1>2, <1>3, <1>4 DEF IInv, CarryInv
  <1>7. AnswerInv'
    <2>1. CASE RefuseToPublish(c)
      BY <1>2, <1>3, <2>1 DEF RefuseToPublish, IInv, TypeOK, AnswerInv, Outcomes
    <2>2. CASE SendToProvider(c)
      BY <1>2, <1>3, <2>2 DEF SendToProvider, IInv, TypeOK, AnswerInv
    <2>3. CASE ReadProviderAnswer(c)
      BY <1>2, <1>3, <2>3 DEF ReadProviderAnswer, AdapterAnswers, IInv, TypeOK, AnswerInv, Outcomes
    <2>4. QED
      BY <2>1, <2>2, <2>3
  <1>8. SoleHolder' /\ ReservedInv'
    BY <1>2, <1>5 DEF IInv, SoleHolder, ReservedInv
  <1>9. VerdictInv'
    <2> SUFFICES ASSUME NEW a \in Approvals
                 PROVE  /\ Verdict(a)' = "ACCEPTED" => Posted(a)' # {}
                        /\ Denied(a)' =>
                            \A d \in Carries : carried[d] = a => request'[d] \in {"NONE", "REJECTED"}
      BY <1>2 DEF VerdictInv, IInv, Verdict, Denied
    <2>1. Verdict(carried[c]) = "NONE"
      BY <1>4 DEF Verdict
    <2>2. Verdict(a)' = Verdict(a)
      BY <1>2 DEF Verdict
    <2>3. CASE a = carried[c]
      BY <2>1, <2>2, <2>3 DEF Denied
    <2>4. CASE a # carried[c]
      BY <1>2, <1>3, <2>2, <2>4 DEF IInv, VerdictInv, Posted, Denied
    <2>5. QED
      BY <2>3, <2>4
  <1>10. QED
    BY <1>1, <1>6, <1>7, <1>8, <1>9 DEF IInv

\* The provider may decide at any time; a verdict that denies a post has no
\* request left for it to decide about.
LEMMA DecidePreserves ==
    ASSUME IInv, NEW c \in Carries, ProviderDecides(c)
    PROVE  IInv'
  <1>1. TypeOK'
    BY GatewayTypeOK DEF IInv
  <1>2. /\ request[c] = "IN_FLIGHT" /\ request'[c] \in {"POSTED", "REJECTED"}
        /\ \A d \in Carries \ {c} : request'[d] = request[d]
        /\ UNCHANGED <<worker, carried, gateway, report, attempts>>
    BY DEF ProviderDecides, workerVars, releaseVars, IInv, TypeOK
  <1>3. \A d \in Carries : (Holder(d)' <=> Holder(d)) /\ (Serving(d)' <=> Serving(d))
    BY <1>2 DEF Holder, Serving
  <1>4. CarryInv'
    BY <1>2 DEF IInv, CarryInv
  <1>5. AnswerInv'
    BY <1>2 DEF IInv, AnswerInv
  <1>6. SoleHolder' /\ ReservedInv'
    BY <1>2, <1>3 DEF IInv, SoleHolder, ReservedInv
  <1>7. VerdictInv'
    BY <1>2 DEF IInv, VerdictInv, Verdict, Posted, Denied
  <1>8. QED
    BY <1>1, <1>4, <1>5, <1>6, <1>7 DEF IInv

\* The verdict is written by the one carry that holds the reservation, after
\* its reservation and before anything else.
LEMMA RecordPreserves ==
    ASSUME IInv, NEW c \in Carries, RecordOutcome(c)
    PROVE  IInv'
  <1> DEFINE a == carried[c]
             o == report[c]
  <1>1. TypeOK'
    BY GatewayTypeOK DEF IInv, Gateway
  <1>2. /\ gateway[c] = "answered" /\ Serving(c) /\ Holder(c)
        /\ gateway' = [gateway EXCEPT ![c] = "replied"]
        /\ attempts' = [attempts EXCEPT ![a] = Append(@, o)]
        /\ UNCHANGED <<worker, carried, request, report>>
    BY DEF RecordOutcome, workerVars, Serving, Holder
  <1>3. a \in Approvals
    BY <1>2 DEF IInv, CarryInv
  <1>4. /\ Len(attempts[a]) = 1 /\ attempts[a][1] = "RESERVED"
        /\ attempts[a] \in Seq(AttemptStatus) /\ o \in AttemptStatus
    BY <1>2, <1>3 DEF IInv, TypeOK, ReservedInv, VerdictInv, AnswerInv, AttemptStatus
  <1>5. \A d \in Carries : carried[d] = a /\ Holder(d) => d = c
    BY <1>2 DEF IInv, SoleHolder
  <1>6. /\ Len(attempts'[a]) = 2 /\ attempts'[a] # <<>>
        /\ attempts'[a][1] = "RESERVED" /\ attempts'[a][2] = o
    <2>1. attempts'[a] = Append(attempts[a], o)
      BY <1>2, <1>3 DEF IInv, TypeOK
    <2>2. /\ Append(attempts[a], o) # <<>>
          /\ Len(Append(attempts[a], o)) = Len(attempts[a]) + 1
          /\ Append(attempts[a], o)[Len(attempts[a]) + 1] = o
          /\ \A i \in 1..Len(attempts[a]) : Append(attempts[a], o)[i] = attempts[a][i]
      BY <1>4, AppendKeeps
    <2>3. QED
      BY <1>4, <2>1, <2>2
  <1>7. \A b \in Approvals \ {a} : attempts'[b] = attempts[b]
    BY <1>2 DEF IInv, TypeOK
  <1>8. /\ ~Serving(c)' /\ gateway'[c] = "replied"
        /\ \A d \in Carries \ {c} : gateway'[d] = gateway[d]
    BY <1>2 DEF Serving, IInv, TypeOK
  <1>9. /\ \A d \in Carries : Holder(d)' => Holder(d)
        /\ \A d \in Carries \ {c} : Serving(d)' => Serving(d)
    BY <1>2, <1>8 DEF Holder, Serving
  <1>10. CarryInv'
    BY <1>2, <1>3, <1>8 DEF IInv, CarryInv
  <1>11. AnswerInv'
    BY <1>2, <1>8 DEF IInv, AnswerInv
  <1>12. SoleHolder'
    BY <1>2, <1>9 DEF IInv, SoleHolder
  <1>13. ReservedInv'
    <2> SUFFICES ASSUME NEW d \in Carries, Holder(d)'
                 PROVE  /\ (attempts[carried[d]] # <<>>)'
                        /\ Serving(d)' => (Len(attempts[carried[d]]) = 1)'
      BY DEF ReservedInv, Holder
    <2>1. Holder(d) /\ carried[d] \in Approvals
      BY <1>9 DEF IInv, CarryInv, Holder, Serving
    <2>2. CASE d = c
      BY <1>2, <1>6, <1>8, <2>2
    <2>3. CASE d # c
      <3>1. carried[d] # a
        BY <1>5, <2>1, <2>3
      <3>2. QED
        BY <1>2, <1>7, <1>9, <2>1, <2>3, <3>1 DEF IInv, ReservedInv
    <2>4. QED
      BY <2>2, <2>3
  <1>14. VerdictInv'
    <2> SUFFICES ASSUME NEW b \in Approvals
                 PROVE  /\ attempts'[b] # <<>> => attempts'[b][1] = "RESERVED"
                        /\ Verdict(b)' \in Outcomes \cup {"NONE"}
                        /\ Verdict(b)' = "ACCEPTED" => Posted(b)' # {}
                        /\ Denied(b)' =>
                            \A d \in Carries : carried'[d] = b => request'[d] \in {"NONE", "REJECTED"}
      BY DEF VerdictInv
    <2>1. CASE b = a
      <3>1. Verdict(b)' = o /\ attempts'[b][1] = "RESERVED"
        BY <1>6, <2>1 DEF Verdict
      <3>2. /\ o \in Outcomes
            /\ o = "ACCEPTED" => request[c] = "POSTED"
            /\ Denied(b)' => request[c] \in {"NONE", "REJECTED"}
        BY <1>2, <2>1, <3>1 DEF IInv, AnswerInv, Denied
      <3>3. \A d \in Carries : carried[d] = b /\ d # c => request[d] = "NONE"
        BY <1>5, <2>1 DEF Holder
      <3>4. o = "ACCEPTED" => c \in Posted(b)'
        BY <1>2, <2>1, <3>2 DEF Posted
      <3>5. QED
        BY <1>2, <3>1, <3>2, <3>3, <3>4
    <2>2. CASE b # a
      <3>1. attempts'[b] = attempts[b]
        BY <1>7, <2>2
      <3>2. QED
        BY <1>2, <3>1 DEF IInv, VerdictInv, Verdict, Posted, Denied
    <2>3. QED
      BY <2>1, <2>2
  <1>15. QED
    BY <1>1, <1>10, <1>11, <1>12, <1>13, <1>14 DEF IInv

\* The owner's answer about a site release comes after the verdict, which it
\* leaves alone.
LEMMA SitePreserves ==
    ASSUME IInv, NEW a \in Approvals, RecordSiteOutcome(a)
    PROVE  IInv'
  <1>1. TypeOK'
    BY ApprovalStepTypeOK DEF IInv
  <1>2. PICK o \in {"CONFIRMED", "DEFINITIVE_FAILURE"} :
            attempts' = [attempts EXCEPT ![a] = Append(@, o)]
    BY DEF RecordSiteOutcome
  <1>3. /\ Len(attempts[a]) > 0 /\ attempts[a][Len(attempts[a])] = "ACCEPTED"
        /\ UNCHANGED <<worker, carried, gateway, request, report>>
    BY DEF RecordSiteOutcome, workerVars, gatewayVars
  <1>4. attempts[a] \in Seq(AttemptStatus) /\ o \in AttemptStatus
    BY DEF IInv, TypeOK, AttemptStatus, Outcomes
  <1>5. Len(attempts[a]) >= 2
    <2>1. attempts[a][1] = "RESERVED" /\ Len(attempts[a]) \in Nat
      BY <1>3, <1>4 DEF IInv, VerdictInv
    <2>2. QED
      BY <1>3, <2>1
  <1>6. /\ attempts'[a] # <<>> /\ Len(attempts'[a]) >= 2
        /\ attempts'[a][1] = attempts[a][1] /\ attempts'[a][2] = attempts[a][2]
    BY <1>2, <1>4, <1>5, AppendKeeps DEF IInv, TypeOK
  <1>7. \A b \in Approvals \ {a} : attempts'[b] = attempts[b]
    BY <1>2 DEF IInv, TypeOK
  <1>8. \A b \in Approvals : Verdict(b)' = Verdict(b)
    BY <1>5, <1>6, <1>7 DEF Verdict
  <1>9. \A d \in Carries : carried[d] = a => ~Serving(d)
    <2>1. ASSUME Len(attempts[a]) = 1 PROVE FALSE
      BY <1>4, <1>5, <2>1
    <2>2. QED
      BY <2>1 DEF IInv, ReservedInv
  <1>10. CarryInv' /\ AnswerInv' /\ SoleHolder'
    BY <1>3 DEF IInv, CarryInv, AnswerInv, SoleHolder, Holder, Serving
  <1>11. ReservedInv'
    <2> SUFFICES ASSUME NEW d \in Carries, Holder(d)
                 PROVE  /\ attempts'[carried[d]] # <<>>
                        /\ Serving(d) => Len(attempts'[carried[d]]) = 1
      BY <1>3 DEF ReservedInv, Holder, Serving
    <2>1. carried[d] \in Approvals
      BY DEF IInv, CarryInv, Holder, Serving
    <2>2. CASE carried[d] = a
      BY <1>6, <1>9, <2>2
    <2>3. CASE carried[d] # a
      BY <1>7, <2>1, <2>3 DEF IInv, ReservedInv
    <2>4. QED
      BY <2>2, <2>3
  <1>12. VerdictInv'
    <2>1. \A b \in Approvals : attempts'[b] # <<>> => attempts'[b][1] = "RESERVED"
      BY <1>3, <1>4, <1>6, <1>7 DEF IInv, VerdictInv
    <2>2. QED
      BY <1>3, <1>8, <2>1 DEF IInv, VerdictInv, Posted, Denied
  <1>13. QED
    BY <1>1, <1>10, <1>11, <1>12 DEF IInv

-----------------------------------------------------------------------------
(* The theorems *)

LEMMA NextPreservesIInv == IInv /\ [Next]_vars => IInv'
  <1> SUFFICES ASSUME IInv, [Next]_vars PROVE IInv'
    OBVIOUS
  <1>1. CASE UNCHANGED vars
    <2>1. TypeOK' /\ UNCHANGED corePart
      BY <1>1 DEF IInv, TypeOK, vars, corePart, registryVars, queueVars,
                  releaseVars, workerVars, gatewayVars, budgetVars
    <2>2. QED
      BY <2>1, FramePreserves
  <1>2. CASE ControlRoom
    <2>1. TypeOK'
      BY <1>2, ControlRoomTypeOK DEF IInv
    <2>2. UNCHANGED corePart
      BY <1>2
      DEF ControlRoom, corePart, Approve, Revoke, Queue, CancelQueued, CancelSubmitted,
          SetKillSwitch, ChangeFitness, BindChannel, UnbindChannel, ApprovalExpires,
          releaseVars, workerVars, gatewayVars
    <2>3. QED
      BY <2>1, <2>2, FramePreserves
  <1>3. ASSUME NEW a \in Approvals, LeaseExpires(a) \/ ManifestExpires(a)
        PROVE  IInv'
    <2>1. TypeOK'
      BY <1>3, ApprovalStepTypeOK DEF IInv
    <2>2. UNCHANGED corePart
      BY <1>3 DEF corePart, LeaseExpires, ManifestExpires, releaseVars, workerVars, gatewayVars
    <2>3. QED
      BY <2>1, <2>2, FramePreserves
  <1>4. ASSUME NEW a \in Approvals, RecordSiteOutcome(a)
        PROVE  IInv'
    BY <1>4, SitePreserves
  <1>5. ASSUME NEW a \in Approvals, NEW c \in Carries, Claim(c, a)
        PROVE  IInv'
    BY <1>5, ClaimPreserves
  <1>6. ASSUME NEW c \in Carries, Worker(c) \/ LoseGateway(c) \/ WorkerCrashes(c)
        PROVE  IInv'
    BY <1>6, WorkerPreserves
  <1>7. ASSUME NEW c \in Carries, Gateway(c) \/ ProviderDecides(c) \/ GatewayFails(c)
        PROVE  IInv'
    <2>1. TypeOK'
      BY <1>7, GatewayTypeOK DEF IInv
    <2>2. CASE SignManifest(c)
      BY <2>1, <2>2, IdleGatewayPreserves
      DEF SignManifest, GatewayState, Serving, workerVars
    <2>11. CASE PrepareDispatch(c)
      BY <2>1, <2>11, IdleGatewayPreserves
      DEF PrepareDispatch, GatewayState, Serving, workerVars, releaseVars
    <2>3. CASE SkipDispatch(c)
      BY <2>1, <2>3, IdleGatewayPreserves
      DEF SkipDispatch, GatewayState, Serving, workerVars, releaseVars, IInv, TypeOK
    <2>4. CASE Refuse(c)
      BY <2>1, <2>4, IdleGatewayPreserves
      DEF Refuse, GatewayState, Serving, workerVars, releaseVars
    <2>5. CASE GatewayFails(c)
      BY <2>1, <2>5, IdleGatewayPreserves
      DEF GatewayFails, GatewayState, workerVars, releaseVars
    <2>6. CASE ReserveDispatch(c)
      BY <2>6, ReservePreserves
    <2>7. CASE RefuseToPublish(c) \/ SendToProvider(c) \/ ReadProviderAnswer(c)
      BY <2>7, ServePreserves
    <2>8. CASE RecordOutcome(c)
      BY <2>8, RecordPreserves
    <2>9. CASE ProviderDecides(c)
      BY <2>9, DecidePreserves
    <2>10. QED
      BY <1>7, <2>2, <2>3, <2>4, <2>5, <2>6, <2>7, <2>8, <2>9, <2>11 DEF Gateway
  <1>8. QED
    BY <1>1, <1>2, <1>3, <1>4, <1>5, <1>6, <1>7 DEF Next

\* The invariant holds in every state the pipeline can reach.
THEOREM Invariance == Spec => []IInv
  <1>1. Init => IInv
    BY InitIInv
  <1>2. IInv /\ [Next]_vars => IInv'
    BY NextPreservesIInv
  <1>3. QED
    BY <1>1, <1>2, PTL DEF Spec

\* Every variable keeps its type; in particular an outcome that is about to be
\* recorded is one record_postiz_submission_outcome accepts.
THEOREM TypeCorrectness == Spec => []TypeOK
  <1>1. IInv => TypeOK
    BY DEF IInv
  <1>2. QED
    BY <1>1, Invariance, PTL

\* A release is posted at most once, whatever the number of workers, retries,
\* crashes, lost replies and overrun leases.
THEOREM PostedAtMostOnce == Spec => []AtMostOnePost
  <1>1. IInv => AtMostOnePost
    BY DEF IInv, SoleHolder, Holder, AtMostOnePost, Posted
  <1>2. QED
    BY <1>1, Invariance, PTL

\* The recorded outcome never contradicts what the provider did or will do.
THEOREM VerdictIsTrue == Spec => []VerdictMatchesProvider
  <1>1. IInv => VerdictMatchesProvider
    BY DEF IInv, VerdictInv, VerdictMatchesProvider, Posted
  <1>2. QED
    BY <1>1, Invariance, PTL

-----------------------------------------------------------------------------
(* The refinement *)

\* What PublicationLedger sees of a step that none of its approvals shows.
LEMMA LedgerStutters ==
    ASSUME \A a \in Approvals :
            /\ (attempts'[a] # <<>>) <=> (attempts[a] # <<>>)
            /\ Posted(a)' = Posted(a)
            /\ Verdict(a)' = Verdict(a)
    PROVE  UNCHANGED Ledger!ledgerVars
  BY DEF Ledger!ledgerVars

\* A step after which requests, carries and attempts are as before.
LEMMA QuietStutters ==
    ASSUME UNCHANGED <<request, carried, attempts>>
    PROVE  UNCHANGED Ledger!ledgerVars
  BY LedgerStutters DEF Posted, Verdict

LEMMA ReserveRefines ==
    ASSUME IInv, NEW c \in Carries, ReserveDispatch(c), NEW a, a = carried[c]
    PROVE  Ledger!Reserve(a)
  <1>1. /\ gateway[c] = "prepared" /\ attempts[a] = <<>>
        /\ attempts' = [attempts EXCEPT ![a] = <<"RESERVED">>]
        /\ UNCHANGED <<carried, request>>
    BY DEF ReserveDispatch, workerVars
  <1>2. a \in Approvals
    BY <1>1 DEF IInv, CarryInv
  <1>3. /\ attempts'[a] = <<"RESERVED">> /\ Len(attempts'[a]) = 1 /\ attempts'[a] # <<>>
        /\ Len(attempts[a]) = 0
        /\ \A b \in Approvals \ {a} : attempts'[b] = attempts[b]
    BY <1>1, <1>2 DEF IInv, TypeOK
  <1>4. {b \in Approvals : attempts'[b] # <<>>} = {b \in Approvals : attempts[b] # <<>>} \cup {a}
    BY <1>1, <1>2, <1>3
  <1>5. \A b \in Approvals : Posted(b)' = Posted(b) /\ Verdict(b)' = Verdict(b)
    BY <1>1, <1>3 DEF Posted, Verdict
  <1>6. QED
    BY <1>1, <1>2, <1>4, <1>5 DEF Ledger!Reserve

LEMMA DecideRefines ==
    ASSUME IInv, NEW c \in Carries, ProviderDecides(c)
    PROVE  Ledger!Take(carried[c], c) \/ UNCHANGED Ledger!ledgerVars
  <1> DEFINE a == carried[c]
  <1>1. /\ request[c] = "IN_FLIGHT" /\ request'[c] \in {"POSTED", "REJECTED"}
        /\ \A d \in Carries \ {c} : request'[d] = request[d]
        /\ UNCHANGED <<carried, attempts>>
    BY DEF ProviderDecides, workerVars, releaseVars, IInv, TypeOK
  <1>2. Holder(c)
    BY <1>1 DEF Holder
  <1>3. a \in Approvals /\ attempts[a] # <<>>
    BY <1>1, <1>2 DEF IInv, CarryInv, ReservedInv
  <1>4. CASE request'[c] = "REJECTED"
    <2>1. \A b \in Approvals : Posted(b)' = Posted(b) /\ Verdict(b)' = Verdict(b)
      BY <1>1, <1>4 DEF Posted, Verdict
    <2>2. QED
      BY <1>1, <2>1, LedgerStutters
  <1>5. CASE request'[c] = "POSTED"
    <2>1. Posted(a) = {}
      BY <1>1, <1>2 DEF IInv, SoleHolder, Holder, Posted
    <2>2. Posted(a)' = {c}
      BY <1>1, <1>5, <2>1 DEF Posted
    <2>3. \A b \in Approvals \ {a} : Posted(b)' = Posted(b)
      BY <1>1 DEF Posted
    <2>4. Verdict(a) # "ACCEPTED" /\ ~Denied(a)
      BY <1>1, <1>3, <2>1 DEF IInv, VerdictInv
    <2>5. [b \in Approvals |-> Posted(b)]' = [[b \in Approvals |-> Posted(b)] EXCEPT ![a] = {c}]
      BY <1>1, <1>3, <2>2, <2>3 DEF Posted
    <2>6. \A b \in Approvals : Verdict(b)' = Verdict(b)
      BY <1>1 DEF Verdict
    <2>7. Ledger!Take(a, c)
      BY <1>1, <1>3, <2>1, <2>4, <2>5, <2>6 DEF Ledger!Take, Ledger!Refusals, Denied
    <2>8. QED
      BY <2>7
  <1>6. QED
    BY <1>1, <1>4, <1>5

LEMMA RecordRefines ==
    ASSUME IInv, NEW c \in Carries, RecordOutcome(c)
    PROVE  \E v \in Ledger!Verdicts : Ledger!Conclude(carried[c], v)
  <1> DEFINE a == carried[c]
             o == report[c]
  <1>1. /\ gateway[c] = "answered" /\ Serving(c)
        /\ attempts' = [attempts EXCEPT ![a] = Append(@, o)]
        /\ UNCHANGED <<carried, request>>
    BY DEF RecordOutcome, workerVars, Serving
  <1>2. a \in Approvals /\ o \in Outcomes
    BY <1>1 DEF IInv, CarryInv, AnswerInv
  <1>3. Len(attempts[a]) = 1 /\ attempts[a] \in Seq(AttemptStatus) /\ o \in AttemptStatus
    BY <1>1, <1>2 DEF IInv, ReservedInv, TypeOK, AttemptStatus
  <1>4. attempts'[a] # <<>> /\ Len(attempts'[a]) = 2 /\ attempts'[a][2] = o
    <2>1. attempts'[a] = Append(attempts[a], o)
      BY <1>1, <1>2 DEF IInv, TypeOK
    <2>2. QED
      BY <1>3, <2>1, AppendKeeps
  <1>5. \A b \in Approvals \ {a} : attempts'[b] = attempts[b]
    BY <1>1 DEF IInv, TypeOK
  <1>6. attempts[a] # <<>>
    BY <1>1 DEF IInv, ReservedInv, Holder
  <1>7. Verdict(a) = "NONE" /\ Verdict(a)' = o
    <2>1. Verdict(a) = "NONE"
      BY <1>3 DEF Verdict
    <2>2. Verdict(a)' = o
      BY <1>1, <1>4 DEF Verdict
    <2>3. QED
      BY <2>1, <2>2
  <1>8. \A b \in Approvals \ {a} : Verdict(b)' = Verdict(b)
    BY <1>5 DEF Verdict
  <1>9. \A b \in Approvals : Posted(b)' = Posted(b)
    BY <1>1 DEF Posted
  <1>10. Ledger!Agrees(a, o)
    <2>1. o = "ACCEPTED" => c \in Posted(a)
      BY <1>1 DEF IInv, AnswerInv, Posted
    <2>2. \/ o = "NOT_SENT"
          \/ o = "DEFINITIVE_FAILURE" /\ TargetOf[a] \notin SiteTargets
          => request[c] # "POSTED"
      BY <1>1 DEF IInv, AnswerInv
    <2>3. \A d \in Posted(a) : d = c
      BY <1>1 DEF IInv, SoleHolder, Holder, Posted
    <2>4. QED
      BY <1>2, <2>1, <2>2, <2>3 DEF Ledger!Agrees, Ledger!Refusals, Posted
  <1>11. {b \in Approvals : attempts'[b] # <<>>} = {b \in Approvals : attempts[b] # <<>>}
    BY <1>4, <1>5, <1>6
  <1>12. [b \in Approvals |-> Verdict(b)]' = [[b \in Approvals |-> Verdict(b)] EXCEPT ![a] = o]
    <2>1. \A b \in Approvals : Verdict(b)' = IF b = a THEN o ELSE Verdict(b)
      BY <1>1, <1>7, <1>8
    <2>2. QED
      BY <1>2, <2>1, Zenon
  <1>13. Ledger!Conclude(a, o)
    BY <1>1, <1>2, <1>6, <1>7, <1>9, <1>10, <1>11, <1>12 DEF Ledger!Conclude
  <1>14. QED
    BY <1>2, <1>13 DEF Ledger!Verdicts, Outcomes

LEMMA SiteStutters ==
    ASSUME IInv, NEW a \in Approvals, RecordSiteOutcome(a)
    PROVE  UNCHANGED Ledger!ledgerVars
  <1>1. PICK o \in {"CONFIRMED", "DEFINITIVE_FAILURE"} :
            attempts' = [attempts EXCEPT ![a] = Append(@, o)]
    BY DEF RecordSiteOutcome
  <1>2. /\ Len(attempts[a]) > 0 /\ attempts[a][Len(attempts[a])] = "ACCEPTED"
        /\ UNCHANGED <<carried, request>>
    BY DEF RecordSiteOutcome, workerVars, gatewayVars
  <1>3. attempts[a] \in Seq(AttemptStatus) /\ o \in AttemptStatus
    BY DEF IInv, TypeOK, AttemptStatus, Outcomes
  <1>4. Len(attempts[a]) >= 2 /\ attempts[a] # <<>>
    <2>1. attempts[a][1] = "RESERVED" /\ Len(attempts[a]) \in Nat /\ attempts[a] # <<>>
      BY <1>2, <1>3 DEF IInv, VerdictInv
    <2>2. QED
      BY <1>2, <2>1
  <1>5. /\ attempts'[a] # <<>> /\ Len(attempts'[a]) >= 2
        /\ attempts'[a][2] = attempts[a][2]
    <2>1. attempts'[a] = Append(attempts[a], o)
      BY <1>1 DEF IInv, TypeOK
    <2>2. QED
      BY <1>3, <1>4, <2>1, AppendKeeps
  <1>6. \A b \in Approvals \ {a} : attempts'[b] = attempts[b]
    BY <1>1 DEF IInv, TypeOK
  <1>7. \A b \in Approvals : Posted(b)' = Posted(b) /\ Verdict(b)' = Verdict(b)
    BY <1>2, <1>4, <1>5, <1>6 DEF Posted, Verdict
  <1>8. QED
    BY <1>4, <1>5, <1>6, <1>7, LedgerStutters

\* Every step of the pipeline is a step of its ledger or leaves it alone.
LEMMA NextRefines ==
    ASSUME IInv, [Next]_vars
    PROVE  [Ledger!LedgerNext]_(Ledger!ledgerVars)
  <1>1. CASE UNCHANGED vars \/ ControlRoom
    <2>1. UNCHANGED <<request, carried, attempts>>
      BY <1>1
      DEF vars, ControlRoom, Approve, Revoke, Queue, CancelQueued, CancelSubmitted,
          SetKillSwitch, ChangeFitness, BindChannel, UnbindChannel, ApprovalExpires,
          releaseVars, workerVars, gatewayVars
    <2>2. QED
      BY <2>1, QuietStutters
  <1>2. ASSUME NEW a \in Approvals, LeaseExpires(a) \/ ManifestExpires(a)
        PROVE  UNCHANGED Ledger!ledgerVars
    BY <1>2, QuietStutters DEF LeaseExpires, ManifestExpires, releaseVars, workerVars, gatewayVars
  <1>3. ASSUME NEW a \in Approvals, RecordSiteOutcome(a)
        PROVE  UNCHANGED Ledger!ledgerVars
    BY <1>3, SiteStutters
  <1>4. ASSUME NEW a \in Approvals, NEW c \in Carries, Claim(c, a)
        PROVE  UNCHANGED Ledger!ledgerVars
    <2>1. /\ request[c] = "NONE" /\ UNCHANGED <<request, attempts>>
          /\ \A d \in Carries \ {c} : carried'[d] = carried[d]
      BY <1>4 DEF Claim, releaseVars, IInv, CarryInv, TypeOK
    <2>2. \A b \in Approvals : Posted(b)' = Posted(b) /\ Verdict(b)' = Verdict(b)
      BY <2>1 DEF Posted, Verdict
    <2>3. QED
      BY <2>1, <2>2, LedgerStutters
  <1>5. ASSUME NEW c \in Carries, Worker(c) \/ LoseGateway(c) \/ WorkerCrashes(c)
        PROVE  UNCHANGED Ledger!ledgerVars
    <2>1. UNCHANGED <<request, carried, attempts>>
      BY <1>5
      DEF Worker, LoseGateway, WorkerCrashes, AskDispatch, ReceiveReport,
          ReceiveRefusal, CloseRead, CloseWrite, RetryRead, RetryWrite, WorkerGoes,
          releaseVars, gatewayVars
    <2>2. QED
      BY <2>1, QuietStutters
  <1>6. ASSUME NEW c \in Carries, ReserveDispatch(c)
        PROVE  Ledger!LedgerNext
    <2>1. PICK a \in Approvals : a = carried[c]
      BY <1>6 DEF ReserveDispatch, IInv, CarryInv
    <2>2. Ledger!Reserve(a)
      BY <1>6, <2>1, ReserveRefines
    <2>3. QED
      BY <2>1, <2>2 DEF Ledger!LedgerNext
  <1>7. ASSUME NEW c \in Carries, RecordOutcome(c)
        PROVE  Ledger!LedgerNext
    <2>1. carried[c] \in Approvals
      BY <1>7 DEF RecordOutcome, IInv, CarryInv
    <2>2. PICK v \in Ledger!Verdicts : Ledger!Conclude(carried[c], v)
      BY <1>7, RecordRefines
    <2>3. QED
      BY <2>1, <2>2 DEF Ledger!LedgerNext
  <1>8. ASSUME NEW c \in Carries, ProviderDecides(c)
        PROVE  Ledger!LedgerNext \/ UNCHANGED Ledger!ledgerVars
    <2>1. carried[c] \in Approvals
      BY <1>8 DEF ProviderDecides, IInv, CarryInv
    <2>2. QED
      BY <1>8, <2>1, DecideRefines DEF Ledger!LedgerNext
  <1>9. ASSUME NEW c \in Carries,
               \/ SignManifest(c) \/ PrepareDispatch(c) \/ SkipDispatch(c) \/ Refuse(c)
               \/ RefuseToPublish(c) \/ ReadProviderAnswer(c) \/ GatewayFails(c)
        PROVE  UNCHANGED Ledger!ledgerVars
    <2>1. UNCHANGED <<request, carried, attempts>>
      BY <1>9
      DEF SignManifest, PrepareDispatch, SkipDispatch, Refuse, RefuseToPublish, ReadProviderAnswer,
          GatewayFails, releaseVars, workerVars
    <2>2. QED
      BY <2>1, QuietStutters
  <1>10. ASSUME NEW c \in Carries, SendToProvider(c)
         PROVE  UNCHANGED Ledger!ledgerVars
    <2>1. /\ request[c] = "NONE" /\ request'[c] = "IN_FLIGHT"
          /\ \A d \in Carries \ {c} : request'[d] = request[d]
          /\ UNCHANGED <<carried, attempts>>
      BY <1>10 DEF SendToProvider, IInv, TypeOK, AnswerInv, workerVars, releaseVars
    <2>2. \A b \in Approvals : Posted(b)' = Posted(b) /\ Verdict(b)' = Verdict(b)
      BY <2>1 DEF Posted, Verdict
    <2>3. QED
      BY <2>1, <2>2, LedgerStutters
  <1>11. QED
    BY <1>1, <1>2, <1>3, <1>4, <1>5, <1>6, <1>7, <1>8, <1>9, <1>10 DEF Next, Gateway

\* The pipeline implements PublicationLedger: one reservation, one request taken
\* under it, one verdict that agrees with it.
THEOREM LedgerIsKept == Spec => ImplementsLedger
  <1>1. Init => Ledger!LedgerInit
    BY DEF Init, Ledger!LedgerInit, Posted, Verdict
  <1>2. IInv /\ [Next]_vars => [Ledger!LedgerNext]_(Ledger!ledgerVars)
    BY NextRefines
  <1>3. QED
    BY <1>1, <1>2, Invariance, PTL DEF Spec, ImplementsLedger, Ledger!LedgerSpec

-----------------------------------------------------------------------------
(* Status, incidents and dispatch records *)

\* What is reserved stays reserved and a verdict is never replaced: both are
\* promises of the ledger.
LEMMA VerdictsStay ==
    ASSUME IInv, [Next]_vars, NEW a \in Approvals
    PROVE  /\ attempts[a] # <<>> => attempts'[a] # <<>>
           /\ Verdict(a) # "NONE" => Verdict(a)' = Verdict(a)
  <1> DEFINE R == {b \in Approvals : attempts[b] # <<>>}
             V == [b \in Approvals |-> Verdict(b)]
  <1>1. [Ledger!LedgerNext]_(Ledger!ledgerVars)
    BY NextRefines
  <1>2. V[a] = Verdict(a) /\ V'[a] = Verdict(a)' /\ V \in [Approvals -> {V[b] : b \in Approvals}]
    OBVIOUS
  <1>3. (a \in R <=> attempts[a] # <<>>) /\ (a \in R' <=> attempts'[a] # <<>>)
    OBVIOUS
  <1>4. CASE UNCHANGED Ledger!ledgerVars
    BY <1>2, <1>3, <1>4 DEF Ledger!ledgerVars
  <1>5. ASSUME NEW b \in Approvals, Ledger!Reserve(b)
        PROVE  R' = R \cup {b} /\ V' = V
    BY <1>5 DEF Ledger!Reserve
  <1>6. ASSUME NEW b \in Approvals, NEW c \in Carries, Ledger!Take(b, c)
        PROVE  R' = R /\ V' = V
    BY <1>6 DEF Ledger!Take
  <1>7. ASSUME NEW b \in Approvals, NEW v \in Ledger!Verdicts, Ledger!Conclude(b, v)
        PROVE  R' = R /\ V[b] = "NONE" /\ V' = [V EXCEPT ![b] = v]
    BY <1>7 DEF Ledger!Conclude
  <1> HIDE DEF R, V
  <1>8. ASSUME NEW b \in Approvals, NEW v \in Ledger!Verdicts, Ledger!Conclude(b, v)
        PROVE  R' = R /\ (V[a] # "NONE" => V'[a] = V[a])
    BY <1>2, <1>7, <1>8
  <1>9. QED
    BY <1>1, <1>2, <1>3, <1>4, <1>5, <1>6, <1>8 DEF Ledger!LedgerNext

\* Only what was queued is ever in the queue or carried.
QueuedInv ==
    /\ \A a \in Approvals : intent[a] = "NONE" => outbox[a] = "NONE"
    /\ \A c \in Carries : worker[c] # "unclaimed" => intent[carried[c]] # "NONE"

\* A worker closes its entry on an answer of the gateway, and the gateway
\* answers that there was a reservation, or what it recorded.
ReplyInv ==
    \A c \in Carries :
        /\ worker[c] \in {"closing", "closeWrite"} => gateway[c] = "replied"
        /\ gateway[c] = "replied" =>
            /\ attempts[carried[c]] # <<>>
            /\ report[c] \in Outcomes \cup {"SKIPPED"}
            /\ report[c] \in Outcomes => Verdict(carried[c]) = report[c]

\* What the queue and the intent become together.
LEMMA QueuedStep ==
    ASSUME IInv, QueuedInv, [Next]_vars
    PROVE  QueuedInv'
  <1> USE DEF IInv, TypeOK, QueuedInv
  <1>1. CASE UNCHANGED vars
    BY <1>1 DEF vars, queueVars, releaseVars, workerVars
  <1>2. CASE ControlRoom
    <2>1. UNCHANGED <<worker, carried>>
      BY <1>2
      DEF ControlRoom, Approve, Revoke, Queue, CancelQueued, CancelSubmitted,
          SetKillSwitch, ChangeFitness, BindChannel, UnbindChannel, ApprovalExpires,
          workerVars
    <2>2. CASE UNCHANGED <<intent, outbox>>
      BY <2>1, <2>2
    <2>3. ASSUME NEW a \in Approvals, Queue(a) \/ CancelQueued(a) \/ CancelSubmitted(a)
          PROVE  QueuedInv'
      <3>1. /\ \A b \in Approvals \ {a} : intent'[b] = intent[b] /\ outbox'[b] = outbox[b]
            /\ intent'[a] # "NONE"
        <4>1. CASE Queue(a)
          BY <4>1 DEF Queue
        <4>2. CASE CancelQueued(a)
          BY <4>2 DEF CancelQueued
        <4>3. CASE CancelSubmitted(a)
          BY <4>3 DEF CancelSubmitted, queueVars
        <4>4. QED
          BY <2>3, <4>1, <4>2, <4>3
      <3>2. \A c \in Carries : worker[c] # "unclaimed" => carried[c] \in Approvals
        BY DEF CarryInv
      <3>3. QED
        BY <2>1, <3>1, <3>2
    <2>4. QED
      BY <1>2, <2>2, <2>3
      DEF ControlRoom, Approve, Revoke, SetKillSwitch, ChangeFitness, BindChannel,
          UnbindChannel, ApprovalExpires, queueVars, releaseVars
  <1>3. ASSUME NEW a \in Approvals, LeaseExpires(a) \/ ManifestExpires(a)
        PROVE  QueuedInv'
    BY <1>3 DEF LeaseExpires, ManifestExpires, queueVars, releaseVars, workerVars
  <1>4. ASSUME NEW a \in Approvals, RecordSiteOutcome(a)
        PROVE  QueuedInv'
    <2>1. UNCHANGED <<worker, carried, outbox>>
      BY <1>4 DEF RecordSiteOutcome, queueVars, workerVars
    <2>2. \A b \in Approvals : intent'[b] = intent[b] \/ intent'[b] = "CANCELLED"
      BY <1>4 DEF RecordSiteOutcome
    <2>3. \A c \in Carries : worker[c] # "unclaimed" => carried[c] \in Approvals
      BY DEF CarryInv
    <2>4. QED
      BY <2>1, <2>2, <2>3
  <1>5. ASSUME NEW a \in Approvals, NEW c \in Carries, Claim(c, a)
        PROVE  QueuedInv'
    <2>1. intent[a] # "NONE" /\ UNCHANGED intent
      BY <1>5 DEF Claim, Claimable, releaseVars
    <2>2. /\ carried' = [carried EXCEPT ![c] = a] /\ worker' = [worker EXCEPT ![c] = "signing"]
          /\ outbox' = [outbox EXCEPT ![a] = "LEASED"]
      BY <1>5 DEF Claim
    <2>3. QED
      BY <2>1, <2>2
  <1>6. ASSUME NEW c \in Carries, Worker(c) \/ LoseGateway(c) \/ WorkerCrashes(c)
        PROVE  QueuedInv'
    <2>1. /\ UNCHANGED <<carried, intent>> /\ worker[c] # "unclaimed"
          /\ \A d \in Carries \ {c} : worker'[d] = worker[d]
          /\ \A a \in Approvals \ {carried[c]} : outbox'[a] = outbox[a]
      BY <1>6
      DEF Worker, LoseGateway, WorkerCrashes, AskDispatch, ReceiveReport,
          ReceiveRefusal, CloseRead, CloseWrite, RetryRead, RetryWrite, WorkerGoes,
          releaseVars, queueVars
    <2>2. QED
      BY <2>1
  <1>7. ASSUME NEW c \in Carries, Gateway(c) \/ ProviderDecides(c) \/ GatewayFails(c)
        PROVE  QueuedInv'
    <2>1. UNCHANGED <<worker, carried, outbox>>
      BY <1>7
      DEF Gateway, ProviderDecides, GatewayFails, SignManifest, PrepareDispatch,
          ReserveDispatch, SkipDispatch, Refuse, RefuseToPublish, SendToProvider, ReadProviderAnswer,
          RecordOutcome, workerVars, queueVars
    <2>2. CASE UNCHANGED intent
      BY <2>1, <2>2
    <2>3. CASE RecordOutcome(c)
      <3>1. \A a \in Approvals : intent'[a] # intent[a] => intent'[a] # "NONE"
        BY <2>3 DEF RecordOutcome, IntentAfter
      <3>2. \A d \in Carries : worker[d] # "unclaimed" => carried[d] \in Approvals
        BY DEF CarryInv
      <3>3. QED
        BY <2>1, <3>1, <3>2
    <2>4. QED
      BY <1>7, <2>2, <2>3
      DEF Gateway, ProviderDecides, GatewayFails, SignManifest, PrepareDispatch,
          ReserveDispatch, SkipDispatch, Refuse, RefuseToPublish, SendToProvider, ReadProviderAnswer,
          releaseVars
  <1>8. QED
    BY <1>1, <1>2, <1>3, <1>4, <1>5, <1>6, <1>7 DEF Next

\* What a worker or a gateway other than the one that moves has learnt stays
\* true, since attempts and verdicts do.
LEMMA ReplyKept ==
    ASSUME IInv, ReplyInv, [Next]_vars, NEW c \in Carries,
           worker'[c] = worker[c], gateway'[c] = gateway[c],
           gateway[c] = "replied" => report'[c] = report[c] /\ carried'[c] = carried[c]
    PROVE  /\ worker'[c] \in {"closing", "closeWrite"} => gateway'[c] = "replied"
           /\ gateway'[c] = "replied" =>
                /\ attempts'[carried'[c]] # <<>>
                /\ report'[c] \in Outcomes \cup {"SKIPPED"}
                /\ report'[c] \in Outcomes => Verdict(carried[c])' = report'[c]
  <1>1. CASE gateway[c] # "replied"
    BY <1>1 DEF ReplyInv
  <1>2. CASE gateway[c] = "replied"
    <2>1. carried[c] \in Approvals
      BY <1>2 DEF IInv, CarryInv
    <2>2. attempts'[carried[c]] # <<>>
      BY <1>2, <2>1, VerdictsStay DEF ReplyInv
    <2>3. report[c] \in Outcomes => Verdict(carried[c]) = report[c] /\ report[c] # "NONE"
      BY <1>2 DEF ReplyInv, Outcomes
    <2>4. \A a \in Approvals : Verdict(a) # "NONE" => Verdict(a)' = Verdict(a)
      BY VerdictsStay
    <2>5. report[c] \in Outcomes => Verdict(carried[c])' = report[c]
      BY <1>2, <2>1, <2>3, <2>4 DEF Verdict
    <2>6. QED
      BY <1>2, <2>2, <2>5 DEF ReplyInv
  <1>3. QED
    BY <1>1, <1>2

LEMMA ReplyStep ==
    ASSUME IInv, ReplyInv, [Next]_vars
    PROVE  ReplyInv'
  <1> DEFINE Knows(c) ==
        /\ worker[c] \in {"closing", "closeWrite"} => gateway[c] = "replied"
        /\ gateway[c] = "replied" =>
            /\ attempts[carried[c]] # <<>>
            /\ report[c] \in Outcomes \cup {"SKIPPED"}
            /\ report[c] \in Outcomes => Verdict(carried[c]) = report[c]
  <1> SUFFICES ASSUME NEW c \in Carries PROVE Knows(c)'
    BY DEF ReplyInv
  <1>1. CASE UNCHANGED <<worker[c], gateway[c], report[c], carried[c]>>
    BY <1>1, ReplyKept
  <1>2. CASE \E a \in Approvals : Claim(c, a)
    BY <1>2 DEF Claim, IInv, TypeOK
  <1>3. CASE Worker(c) \/ LoseGateway(c) \/ WorkerCrashes(c)
    <2>1. UNCHANGED <<report, carried, attempts>>
      BY <1>3
      DEF Worker, LoseGateway, WorkerCrashes, AskDispatch, ReceiveReport,
          ReceiveRefusal, CloseRead, CloseWrite, RetryRead, RetryWrite, WorkerGoes,
          releaseVars, gatewayVars
    <2>2. /\ worker'[c] \in {"closing", "closeWrite"} => gateway[c] = "replied"
          /\ \/ gateway'[c] = gateway[c]
             \/ gateway'[c] = "dispatch" /\ worker'[c] = "dispatching"
      BY <1>3
      DEF Worker, LoseGateway, WorkerCrashes, AskDispatch, ReceiveReport,
          ReceiveRefusal, CloseRead, CloseWrite, RetryRead, RetryWrite, WorkerGoes,
          gatewayVars, IInv, TypeOK, ReplyInv
    <2>3. QED
      BY <2>1, <2>2 DEF ReplyInv, Verdict
  <1>4. CASE RecordOutcome(c)
    <2>1. /\ gateway[c] = "answered" /\ worker[c] \notin {"closing", "closeWrite"}
          /\ UNCHANGED <<worker, carried, report>>
          /\ attempts' = [attempts EXCEPT ![carried[c]] = Append(@, report[c])]
      BY <1>4 DEF RecordOutcome, ReplyInv, workerVars
    <2>2. carried[c] \in Approvals /\ report[c] \in Outcomes /\ Len(attempts[carried[c]]) = 1
      BY <2>1 DEF IInv, CarryInv, AnswerInv, ReservedInv, Serving, Holder
    <2>3. attempts[carried[c]] \in Seq(AttemptStatus) /\ report[c] \in AttemptStatus
      BY <2>2 DEF IInv, TypeOK, AttemptStatus
    <2>4. attempts'[carried[c]] = Append(attempts[carried[c]], report[c])
      BY <2>1, <2>2 DEF IInv, TypeOK
    <2>5. /\ attempts'[carried[c]] # <<>> /\ Len(attempts'[carried[c]]) = 2
          /\ attempts'[carried[c]][2] = report[c]
      BY <2>2, <2>3, <2>4, AppendKeeps
    <2>6. QED
      BY <2>1, <2>2, <2>5 DEF Verdict
  <1>5. CASE SkipDispatch(c)
    BY <1>5
    DEF SkipDispatch, IInv, TypeOK, Outcomes, workerVars, releaseVars
  <1>6. CASE \/ SignManifest(c) \/ PrepareDispatch(c) \/ ReserveDispatch(c) \/ Refuse(c)
            \/ RefuseToPublish(c)
            \/ SendToProvider(c) \/ ReadProviderAnswer(c) \/ GatewayFails(c)
    <2>1. /\ gateway[c] # "replied" /\ gateway'[c] # "replied" /\ UNCHANGED worker
      BY <1>6
      DEF SignManifest, PrepareDispatch, ReserveDispatch, Refuse, RefuseToPublish, SendToProvider,
          ReadProviderAnswer, GatewayFails, workerVars, IInv, TypeOK
    <2>2. QED
      BY <2>1 DEF ReplyInv
  <1>7. ASSUME NEW d \in Carries \ {c}, Worker(d) \/ LoseGateway(d) \/ WorkerCrashes(d)
        PROVE  UNCHANGED <<worker[c], gateway[c], report[c], carried[c]>>
    BY <1>7
    DEF Worker, LoseGateway, WorkerCrashes, AskDispatch, ReceiveReport,
        ReceiveRefusal, CloseRead, CloseWrite, RetryRead, RetryWrite, WorkerGoes,
        gatewayVars, IInv, TypeOK
  <1>8. ASSUME NEW d \in Carries \ {c}, Gateway(d) \/ GatewayFails(d) \/ ProviderDecides(d)
        PROVE  UNCHANGED <<worker[c], gateway[c], report[c], carried[c]>>
    BY <1>8
    DEF Gateway, GatewayFails, ProviderDecides, SignManifest, PrepareDispatch,
        ReserveDispatch, SkipDispatch, Refuse, RefuseToPublish, SendToProvider, ReadProviderAnswer,
        RecordOutcome, workerVars, IInv, TypeOK
  <1>9. ASSUME NEW d \in Carries \ {c}, NEW a \in Approvals, Claim(d, a)
        PROVE  UNCHANGED <<worker[c], gateway[c], report[c], carried[c]>>
    BY <1>9 DEF Claim, IInv, TypeOK
  <1>10. ASSUME \/ UNCHANGED vars \/ ControlRoom \/ ProviderDecides(c)
                \/ \E a \in Approvals :
                     LeaseExpires(a) \/ ManifestExpires(a) \/ RecordSiteOutcome(a)
         PROVE  UNCHANGED <<worker[c], gateway[c], report[c], carried[c]>>
    BY <1>10
    DEF vars, ControlRoom, Approve, Revoke, Queue, CancelQueued, CancelSubmitted,
        SetKillSwitch, ChangeFitness, BindChannel, UnbindChannel, ApprovalExpires,
        LeaseExpires, ManifestExpires, RecordSiteOutcome, ProviderDecides,
        workerVars, gatewayVars
  <1>11. QED
    BY <1>1, <1>2, <1>3, <1>4, <1>5, <1>6, <1>7, <1>8, <1>9, <1>10 DEF Next, Gateway

\* Apart from the queue, these steps are all that changes a release's status or
\* its attempts.
LEMMA OthersLeaveStatus ==
    ASSUME IInv, [Next]_vars, NEW a \in Approvals,
           ~Queue(a), ~CancelQueued(a), ~CancelSubmitted(a), ~RecordSiteOutcome(a),
           \A c \in Carries : carried[c] = a => ~ReserveDispatch(c) /\ ~RecordOutcome(c)
    PROVE  intent'[a] = intent[a] /\ attempts'[a] = attempts[a]
  <1> USE DEF IInv, TypeOK
  <1>1. CASE UNCHANGED <<intent, attempts>>
    BY <1>1
  <1>2. ASSUME NEW b \in Approvals \ {a},
               Queue(b) \/ CancelQueued(b) \/ CancelSubmitted(b) \/ RecordSiteOutcome(b)
        PROVE  intent'[a] = intent[a] /\ attempts'[a] = attempts[a]
    BY <1>2 DEF Queue, CancelQueued, CancelSubmitted, RecordSiteOutcome
  <1>3. ASSUME NEW c \in Carries, ReserveDispatch(c) \/ RecordOutcome(c)
        PROVE  intent'[a] = intent[a] /\ attempts'[a] = attempts[a]
    BY <1>3 DEF ReserveDispatch, RecordOutcome
  <1>4. ASSUME NEW c \in Carries,
               \/ Worker(c) \/ LoseGateway(c) \/ WorkerCrashes(c) \/ ProviderDecides(c)
               \/ SignManifest(c) \/ PrepareDispatch(c) \/ SkipDispatch(c) \/ Refuse(c)
               \/ RefuseToPublish(c) \/ SendToProvider(c) \/ ReadProviderAnswer(c) \/ GatewayFails(c)
               \/ \E b \in Approvals : Claim(c, b)
        PROVE  UNCHANGED <<intent, attempts>>
    BY <1>4
    DEF Worker, LoseGateway, WorkerCrashes, AskDispatch, ReceiveReport, ReceiveRefusal,
        CloseRead, CloseWrite, RetryRead, RetryWrite, ProviderDecides, SignManifest,
        PrepareDispatch, SkipDispatch, Refuse, RefuseToPublish, SendToProvider, ReadProviderAnswer,
        GatewayFails, Claim, releaseVars
  <1>5. ASSUME NEW b \in Approvals,
               \/ Approve(b) \/ Revoke(b) \/ ApprovalExpires(b)
               \/ LeaseExpires(b) \/ ManifestExpires(b)
        PROVE  UNCHANGED <<intent, attempts>>
    BY <1>5
    DEF Approve, Revoke, ApprovalExpires, LeaseExpires, ManifestExpires, releaseVars
  <1>6. ASSUME \/ SetKillSwitch \/ UNCHANGED vars
               \/ \E t \in Targets : \/ ChangeFitness(t) \/ UnbindChannel(t)
                                     \/ \E i \in Integrations : BindChannel(t, i)
        PROVE  UNCHANGED <<intent, attempts>>
    BY <1>6
    DEF SetKillSwitch, ChangeFitness, UnbindChannel, BindChannel, vars, releaseVars
  <1> QED
    BY <1>1, <1>2, <1>3, <1>4, <1>5, <1>6 DEF Next, ControlRoom, Gateway

\* The last attempt of a release that gets one more.
LEMMA LastIsAppended ==
    ASSUME IInv, NEW a \in Approvals, NEW e \in AttemptStatus,
           attempts' = [attempts EXCEPT ![a] = Append(@, e)]
    PROVE  LastAttempt(a)' = e
  <1>1. attempts'[a] = Append(attempts[a], e) /\ attempts[a] \in Seq(AttemptStatus)
    BY DEF IInv, TypeOK
  <1>2. /\ attempts'[a] # <<>> /\ Len(attempts'[a]) = Len(attempts[a]) + 1
        /\ attempts'[a][Len(attempts[a]) + 1] = e
    BY <1>1, AppendKeeps
  <1>3. QED
    BY <1>2 DEF LastAttempt

\* A reservation finds a release that is queued or was cancelled meanwhile, an
\* outcome its reservation,
\* and the owner's answer an accepted release.
LEMMA StatusStep ==
    ASSUME IInv, QueuedInv, IntentTellsTheOutcome, [Next]_vars
    PROVE  IntentTellsTheOutcome'
  <1> SUFFICES ASSUME NEW a \in Approvals
               PROVE  LastAttempt(a)' \in LastAttemptsOf(intent'[a])
    BY DEF IntentTellsTheOutcome
  <1>1. LastAttempt(a) \in LastAttemptsOf(intent[a])
    BY DEF IntentTellsTheOutcome
  <1>2. intent[a] \in IntentStatus /\ attempts[a] \in Seq(AttemptStatus)
    BY DEF IInv, TypeOK
  <1>3. CASE intent'[a] = intent[a] /\ attempts'[a] = attempts[a]
    BY <1>1, <1>3 DEF LastAttempt
  <1>4. CASE Queue(a) \/ CancelQueued(a) \/ CancelSubmitted(a)
    <2>1. LastAttempt(a)' = LastAttempt(a)
      BY <1>4 DEF Queue, CancelQueued, CancelSubmitted, LastAttempt
    <2>2. \/ intent[a] = "NONE" /\ intent'[a] = "QUEUED"
          \/ intent[a] = "QUEUED" /\ intent'[a] = "CANCELLED"
          \/ intent[a] \in {"SUCCEEDED", "UNKNOWN"} /\ intent'[a] = "CANCEL_REQUESTED"
      BY <1>4 DEF Queue, CancelQueued, CancelSubmitted, IInv, TypeOK
    <2>3. QED
      BY <1>1, <2>1, <2>2 DEF LastAttemptsOf
  <1>5. ASSUME NEW c \in Carries, carried[c] = a, ReserveDispatch(c)
        PROVE  LastAttempt(a)' \in LastAttemptsOf(intent'[a])
    <2>1. /\ attempts[a] = <<>> /\ UNCHANGED intent /\ gateway[c] = "prepared"
          /\ attempts' = [attempts EXCEPT ![a] = <<"RESERVED">>]
      BY <1>5 DEF ReserveDispatch
    <2>2. intent[a] # "NONE"
      BY <1>5, <2>1 DEF QueuedInv, IInv, CarryInv
    <2>3. LastAttempt(a) = "NONE" /\ LastAttempt(a)' = "RESERVED"
      BY <2>1 DEF LastAttempt, IInv, TypeOK
    <2>4. intent[a] \in {"QUEUED", "CANCELLED"}
      BY <1>1, <1>2, <2>1, <2>2, <2>3 DEF LastAttemptsOf, IntentStatus
    <2>5. QED
      BY <2>1, <2>3, <2>4 DEF LastAttemptsOf
  <1>6. ASSUME NEW c \in Carries, carried[c] = a, RecordOutcome(c)
        PROVE  LastAttempt(a)' \in LastAttemptsOf(intent'[a])
    <2>1. /\ report[c] \in Outcomes /\ report[c] \in AttemptStatus
          /\ attempts' = [attempts EXCEPT ![a] = Append(@, report[c])]
          /\ intent'[a] = IntentAfter(report[c])
      BY <1>6 DEF RecordOutcome, IInv, TypeOK, AnswerInv, AttemptStatus
    <2>2. LastAttempt(a)' = report[c]
      BY <2>1, LastIsAppended
    <2>3. QED
      BY <2>1, <2>2 DEF LastAttemptsOf, IntentAfter, Outcomes
  <1>7. CASE RecordSiteOutcome(a)
    <2>1. LastAttempt(a) = "ACCEPTED"
      BY <1>2, <1>7 DEF RecordSiteOutcome, LastAttempt
    <2>2. intent[a] \in {"SUCCEEDED", "CANCEL_REQUESTED"}
      BY <1>1, <1>2, <2>1 DEF LastAttemptsOf, IntentStatus
    <2>3. CASE attempts' = [attempts EXCEPT ![a] = Append(@, "CONFIRMED")] /\ UNCHANGED intent
      BY <2>2, <2>3, LastIsAppended DEF AttemptStatus, LastAttemptsOf
    <2>4. CASE /\ attempts' = [attempts EXCEPT ![a] = Append(@, "DEFINITIVE_FAILURE")]
               /\ intent' = [intent EXCEPT ![a] = "CANCELLED"]
      <3>1. LastAttempt(a)' = "DEFINITIVE_FAILURE"
        BY <2>4, LastIsAppended DEF AttemptStatus, Outcomes
      <3>2. intent'[a] = "CANCELLED"
        BY <2>4 DEF IInv, TypeOK
      <3>3. QED
        BY <3>1, <3>2 DEF LastAttemptsOf
    <2>5. QED
      BY <1>7, <2>3, <2>4 DEF RecordSiteOutcome
  <1>8. QED
    BY <1>3, <1>4, <1>5, <1>6, <1>7, OthersLeaveStatus

\* A verdict is new only when a gateway records it.
LEMMA VerdictIsRecorded ==
    ASSUME IInv, [Next]_vars, NEW a \in Approvals, Verdict(a)' # Verdict(a)
    PROVE  \E c \in Carries :
              carried[c] = a /\ RecordOutcome(c) /\ Verdict(a)' = report[c]
  <1>1. Verdict(a) = "NONE" /\ attempts'[a] # attempts[a]
    BY VerdictsStay DEF Verdict
  <1>2. ASSUME Queue(a) \/ CancelQueued(a) \/ CancelSubmitted(a)
        PROVE  FALSE
    BY <1>1, <1>2 DEF Queue, CancelQueued, CancelSubmitted
  <1>3. ASSUME RecordSiteOutcome(a)
        PROVE  FALSE
    <2>1. Len(attempts[a]) > 0 /\ attempts[a][Len(attempts[a])] = "ACCEPTED"
      BY <1>3 DEF RecordSiteOutcome
    <2>2. Len(attempts[a]) \in Nat /\ attempts[a] # <<>> /\ attempts[a] \in Seq(AttemptStatus)
      BY <2>1 DEF IInv, TypeOK
    <2>3. Len(attempts[a]) >= 2
      BY <2>1, <2>2 DEF IInv, VerdictInv
    <2>4. Verdict(a) \in AttemptStatus
      BY <2>2, <2>3 DEF Verdict
    <2>5. QED
      BY <1>1, <2>4 DEF AttemptStatus, Outcomes
  <1>4. ASSUME NEW c \in Carries, carried[c] = a, ReserveDispatch(c)
        PROVE  FALSE
    <2>1. attempts'[a] = <<"RESERVED">>
      BY <1>4 DEF ReserveDispatch, IInv, TypeOK
    <2>2. Verdict(a)' = "NONE"
      BY <2>1 DEF Verdict
    <2>3. QED
      BY <1>1, <2>2
  <1>5. ASSUME NEW c \in Carries, carried[c] = a, RecordOutcome(c)
        PROVE  Verdict(a)' = report[c]
    <2>1. /\ gateway[c] = "answered"
          /\ attempts' = [attempts EXCEPT ![a] = Append(@, report[c])]
      BY <1>5 DEF RecordOutcome
    <2>2. report[c] \in AttemptStatus /\ Len(attempts[a]) = 1 /\ attempts[a] \in Seq(AttemptStatus)
      BY <1>5, <2>1 DEF IInv, TypeOK, AnswerInv, ReservedInv, Serving, AttemptStatus
    <2>3. attempts'[a] = Append(attempts[a], report[c])
      BY <2>1 DEF IInv, TypeOK
    <2>4. Len(attempts'[a]) = 2 /\ attempts'[a][2] = report[c]
      BY <2>2, <2>3, AppendKeeps
    <2>5. QED
      BY <2>4 DEF Verdict
  <1>6. QED
    BY <1>1, <1>2, <1>3, <1>4, <1>5, OthersLeaveStatus

\* An incident stays, and an entry is dead-lettered with its incident.
LEMMA IncidentsStay ==
    ASSUME IInv, [Next]_vars, NEW a \in Approvals
    PROVE  /\ incidents[a] \subseteq incidents'[a]
           /\ outbox'[a] = "DEAD_LETTER" =>
                outbox[a] = "DEAD_LETTER" \/ "TRIGGER_OUTBOX_DEAD_LETTER" \in incidents'[a]
  <1> USE DEF IInv, TypeOK
  <1>1. CASE UNCHANGED <<incidents, outbox>>
    BY <1>1
  <1>2. ASSUME NEW b \in Approvals, Queue(b) \/ CancelQueued(b)
        PROVE  UNCHANGED incidents /\ (outbox'[a] = outbox[a] \/ outbox'[a] # "DEAD_LETTER")
    <2>1. CASE Queue(b)
      BY <2>1 DEF Queue
    <2>2. CASE CancelQueued(b)
      BY <2>2 DEF CancelQueued
    <2>3. QED
      BY <1>2, <2>1, <2>2
  <1>3. ASSUME NEW b \in Approvals, NEW c \in Carries, Claim(c, b)
        PROVE  UNCHANGED incidents /\ (outbox'[a] = outbox[a] \/ outbox'[a] # "DEAD_LETTER")
    BY <1>3 DEF Claim, releaseVars
  <1>4. ASSUME NEW c \in Carries, CloseWrite(c)
        PROVE  UNCHANGED incidents /\ (outbox'[a] = outbox[a] \/ outbox'[a] # "DEAD_LETTER")
    BY <1>4 DEF CloseWrite, releaseVars
  <1>5. ASSUME NEW c \in Carries, RetryWrite(c)
        PROVE  /\ incidents[a] \subseteq incidents'[a]
               /\ outbox'[a] = "DEAD_LETTER" =>
                    outbox[a] = "DEAD_LETTER" \/ "TRIGGER_OUTBOX_DEAD_LETTER" \in incidents'[a]
    BY <1>5 DEF RetryWrite
  <1>6. ASSUME NEW c \in Carries, RecordOutcome(c)
        PROVE  incidents[a] \subseteq incidents'[a] /\ UNCHANGED outbox
    BY <1>6 DEF RecordOutcome, queueVars
  <1>7. ASSUME NEW c \in Carries,
               \/ AskDispatch(c) \/ ReceiveReport(c) \/ ReceiveRefusal(c) \/ CloseRead(c)
               \/ RetryRead(c) \/ LoseGateway(c) \/ WorkerCrashes(c) \/ ProviderDecides(c)
               \/ SignManifest(c) \/ PrepareDispatch(c) \/ ReserveDispatch(c)
               \/ SkipDispatch(c) \/ Refuse(c)
               \/ RefuseToPublish(c) \/ SendToProvider(c) \/ ReadProviderAnswer(c)
               \/ GatewayFails(c)
        PROVE  UNCHANGED <<incidents, outbox>>
    BY <1>7
    DEF AskDispatch, ReceiveReport, ReceiveRefusal, CloseRead, RetryRead, LoseGateway,
        WorkerCrashes, ProviderDecides, SignManifest, PrepareDispatch, ReserveDispatch,
        SkipDispatch, Refuse, RefuseToPublish, SendToProvider, ReadProviderAnswer, GatewayFails,
        queueVars, releaseVars
  <1>8. ASSUME NEW b \in Approvals,
               \/ Approve(b) \/ Revoke(b) \/ ApprovalExpires(b) \/ CancelSubmitted(b)
               \/ LeaseExpires(b) \/ ManifestExpires(b) \/ RecordSiteOutcome(b)
        PROVE  UNCHANGED <<incidents, outbox>>
    BY <1>8
    DEF Approve, Revoke, ApprovalExpires, CancelSubmitted, LeaseExpires, ManifestExpires,
        RecordSiteOutcome, queueVars, releaseVars
  <1>9. ASSUME \/ SetKillSwitch \/ UNCHANGED vars
               \/ \E t \in Targets : \/ ChangeFitness(t) \/ UnbindChannel(t)
                                     \/ \E i \in Integrations : BindChannel(t, i)
        PROVE  UNCHANGED <<incidents, outbox>>
    BY <1>9
    DEF SetKillSwitch, ChangeFitness, UnbindChannel, BindChannel, vars, queueVars, releaseVars
  <1> QED
    BY <1>1, <1>2, <1>3, <1>4, <1>5, <1>6, <1>7, <1>8, <1>9
    DEF Next, ControlRoom, Worker, Gateway

\* An outcome in doubt is recorded together with its incident.
LEMMA TroubleStep ==
    ASSUME IInv, TroubleIsReported, [Next]_vars
    PROVE  TroubleIsReported'
  <1> SUFFICES ASSUME NEW a \in Approvals
               PROVE  /\ Verdict(a)' = "AMBIGUOUS" => "POSTIZ_AMBIGUOUS_RESULT" \in incidents'[a]
                      /\ outbox'[a] = "DEAD_LETTER" =>
                            "TRIGGER_OUTBOX_DEAD_LETTER" \in incidents'[a]
    BY DEF TroubleIsReported
  <1>1. CASE Verdict(a)' = Verdict(a)
    BY <1>1, IncidentsStay DEF TroubleIsReported
  <1>2. CASE Verdict(a)' # Verdict(a)
    <2>1. PICK c \in Carries : carried[c] = a /\ RecordOutcome(c) /\ Verdict(a)' = report[c]
      BY <1>2, VerdictIsRecorded
    <2>2. incidents'[a] = incidents[a] \cup IncidentFor(report[c])
      BY <2>1 DEF RecordOutcome, IInv, TypeOK
    <2>3. QED
      BY <2>1, <2>2, IncidentsStay DEF IncidentFor, TroubleIsReported
  <1>3. QED
    BY <1>1, <1>2

\* An entry is closed on an answer the gateway gave, and what the gateway
\* answered was recorded before.
LEMMA DispatchStep ==
    ASSUME IInv, ReplyInv, DispatchAgrees, [Next]_vars
    PROVE  DispatchAgrees'
  <1> SUFFICES ASSUME NEW a \in Approvals
               PROVE  CASE dispatch'[a] = "FAILED" ->
                             Verdict(a)' \in {"DEFINITIVE_FAILURE", "NOT_SENT"}
                        [] dispatch'[a] = "RECONCILIATION_REQUIRED" ->
                             Verdict(a)' = "AMBIGUOUS"
                        [] dispatch'[a] = "COMPLETED" -> attempts'[a] # <<>>
                        [] OTHER -> TRUE
    BY DEF DispatchAgrees
  <1>1. CASE dispatch'[a] = dispatch[a]
    BY <1>1, VerdictsStay DEF DispatchAgrees
  <1>2. CASE dispatch'[a] = "CANCELLED"
    BY <1>2
  <1>3. ASSUME NEW c \in Carries, CloseWrite(c), carried[c] = a
        PROVE  /\ dispatch'[a] = CarryState(report[c])
               /\ Verdict(a)' = Verdict(a) /\ attempts'[a] = attempts[a]
               /\ report[c] \in Outcomes \cup {"SKIPPED"} /\ attempts[a] # <<>>
               /\ report[c] \in Outcomes => Verdict(a) = report[c]
    <2>1. gateway[c] = "replied" /\ UNCHANGED attempts
      BY <1>3 DEF CloseWrite, WorkerGoes, ReplyInv, releaseVars
    <2>2. dispatch'[a] = CarryState(report[c])
      BY <1>3 DEF CloseWrite, IInv, TypeOK
    <2>3. QED
      BY <1>3, <2>1, <2>2 DEF ReplyInv, Verdict
  <1>4. CASE \E c \in Carries : CloseWrite(c) /\ carried[c] = a
    <2>1. PICK c \in Carries : CloseWrite(c) /\ carried[c] = a
      BY <1>4
    <2>2. /\ report[c] \in Outcomes \cup {"SKIPPED"} /\ dispatch'[a] = CarryState(report[c])
          /\ attempts'[a] # <<>> /\ (report[c] \in Outcomes => Verdict(a)' = report[c])
      BY <1>3, <2>1
    <2>3. QED
      BY <2>2 DEF CarryState, Outcomes
  <1>5. \/ dispatch'[a] = dispatch[a] \/ dispatch'[a] = "CANCELLED"
        \/ \E c \in Carries : CloseWrite(c) /\ carried[c] = a
    <2> USE DEF IInv, TypeOK
    <2>1. ASSUME NEW b \in Approvals, CancelQueued(b)
          PROVE  dispatch'[a] = dispatch[a] \/ dispatch'[a] = "CANCELLED"
      BY <2>1 DEF CancelQueued
    <2>2. ASSUME NEW c \in Carries, CloseWrite(c), carried[c] # a
          PROVE  dispatch'[a] = dispatch[a]
      BY <2>2 DEF CloseWrite
    <2>3. ASSUME NEW c \in Carries,
                 \/ AskDispatch(c) \/ ReceiveReport(c) \/ ReceiveRefusal(c) \/ CloseRead(c)
                 \/ RetryRead(c) \/ RetryWrite(c) \/ LoseGateway(c) \/ WorkerCrashes(c)
                 \/ ProviderDecides(c) \/ Gateway(c) \/ GatewayFails(c)
                 \/ \E b \in Approvals : Claim(c, b)
          PROVE  UNCHANGED dispatch
      BY <2>3
      DEF AskDispatch, ReceiveReport, ReceiveRefusal, CloseRead, RetryRead, RetryWrite,
          LoseGateway, WorkerCrashes, ProviderDecides, Gateway, SignManifest,
          PrepareDispatch, ReserveDispatch, SkipDispatch, Refuse, RefuseToPublish, SendToProvider,
          ReadProviderAnswer, RecordOutcome, GatewayFails, Claim, queueVars
    <2>4. ASSUME NEW b \in Approvals,
                 \/ Approve(b) \/ Revoke(b) \/ ApprovalExpires(b) \/ Queue(b)
                 \/ CancelSubmitted(b) \/ LeaseExpires(b) \/ ManifestExpires(b)
                 \/ RecordSiteOutcome(b)
          PROVE  UNCHANGED dispatch
      BY <2>4
      DEF Approve, Revoke, ApprovalExpires, Queue, CancelSubmitted, LeaseExpires,
          ManifestExpires, RecordSiteOutcome, queueVars
    <2>5. ASSUME \/ SetKillSwitch \/ UNCHANGED vars
                 \/ \E t \in Targets : \/ ChangeFitness(t) \/ UnbindChannel(t)
                                       \/ \E i \in Integrations : BindChannel(t, i)
          PROVE  UNCHANGED dispatch
      BY <2>5 DEF SetKillSwitch, ChangeFitness, UnbindChannel, BindChannel, vars, queueVars
    <2> QED
      BY <2>1, <2>2, <2>3, <2>4, <2>5 DEF Next, ControlRoom, Worker
  <1>6. QED
    BY <1>1, <1>2, <1>4, <1>5

\* The records agree: a status with the last attempt, a dispatch record with
\* the verdict, an incident with the trouble it is about.
RecordsInv ==
    /\ IInv
    /\ QueuedInv
    /\ ReplyInv
    /\ IntentTellsTheOutcome
    /\ TroubleIsReported
    /\ DispatchAgrees

\* The records of the control room, the gateway and the dispatcher agree in
\* every state the pipeline can reach.
THEOREM RecordsAgree == Spec => []RecordsInv
  <1>1. Init => RecordsInv
    <2> SUFFICES ASSUME Init PROVE RecordsInv
      OBVIOUS
    <2>1. IInv
      BY InitIInv
    <2>2. QueuedInv /\ ReplyInv
      BY DEF Init, QueuedInv, ReplyInv
    <2>3. IntentTellsTheOutcome /\ TroubleIsReported /\ DispatchAgrees
      BY DEF Init, IntentTellsTheOutcome, LastAttempt, LastAttemptsOf, TroubleIsReported,
             DispatchAgrees, Verdict
    <2>4. QED
      BY <2>1, <2>2, <2>3 DEF RecordsInv
  <1>2. RecordsInv /\ [Next]_vars => RecordsInv'
    BY NextPreservesIInv, QueuedStep, ReplyStep, StatusStep, TroubleStep, DispatchStep
    DEF RecordsInv
  <1>3. QED
    BY <1>1, <1>2, PTL DEF Spec

\* The status a person sees is the outcome that was recorded last, for any
\* order of cancellations, outcomes and answers of the site's owner.
THEOREM StatusIsTrue == Spec => []IntentTellsTheOutcome
  <1>1. RecordsInv => IntentTellsTheOutcome
    BY DEF RecordsInv
  <1>2. QED
    BY <1>1, RecordsAgree, PTL

\* Whatever workers crash or overrun their leases, a release in doubt and a
\* dead-lettered entry have their incident.
THEOREM TroubleIsKnown == Spec => []TroubleIsReported
  <1>1. RecordsInv => TroubleIsReported
    BY DEF RecordsInv
  <1>2. QED
    BY <1>1, RecordsAgree, PTL

\* The dispatch record never contradicts the verdict, although the carry that
\* writes it may have lost its lease in between.
THEOREM DispatchIsTrue == Spec => []DispatchAgrees
  <1>1. RecordsInv => DispatchAgrees
    BY DEF RecordsInv
  <1>2. QED
    BY <1>1, RecordsAgree, PTL

\* Who waits to reserve: only a carry that passes the gates joins them.
LEMMA OnlyPreparedWaits ==
    ASSUME IInv, [Next]_vars, NEW c \in Carries,
           gateway'[c] = "prepared", gateway[c] # "prepared" \/ carried'[c] # carried[c]
    PROVE  PrepareDispatch(c) /\ carried'[c] = carried[c]
  <1> USE DEF IInv, TypeOK
  <1>1. \A a \in Approvals : ~Claim(c, a)
    BY DEF Claim
  <1>2. ASSUME NEW d \in Carries,
               \/ Worker(d) \/ LoseGateway(d) \/ WorkerCrashes(d) \/ GatewayFails(d)
               \/ ProviderDecides(d) \/ (Gateway(d) /\ ~PrepareDispatch(d))
        PROVE  carried'[c] = carried[c] /\ (gateway'[c] = "prepared" => gateway[c] = "prepared")
    BY <1>2
    DEF Worker, LoseGateway, WorkerCrashes, AskDispatch, ReceiveReport, ReceiveRefusal,
        CloseRead, CloseWrite, RetryRead, RetryWrite, WorkerGoes, GatewayFails,
        ProviderDecides, Gateway, SignManifest, ReserveDispatch, SkipDispatch, Refuse,
        RefuseToPublish, SendToProvider, ReadProviderAnswer, RecordOutcome, workerVars,
        gatewayVars
  <1>3. ASSUME NEW d \in Carries \ {c},
               PrepareDispatch(d) \/ \E a \in Approvals : Claim(d, a)
        PROVE  carried'[c] = carried[c] /\ gateway'[c] = gateway[c]
    BY <1>3 DEF PrepareDispatch, Claim, workerVars
  <1>4. CASE UNCHANGED vars \/ ControlRoom
    BY <1>4
    DEF vars, ControlRoom, Approve, Revoke, Queue, CancelQueued, CancelSubmitted,
        SetKillSwitch, ChangeFitness, BindChannel, UnbindChannel, ApprovalExpires,
        workerVars, gatewayVars
  <1>5. ASSUME NEW a \in Approvals,
               LeaseExpires(a) \/ ManifestExpires(a) \/ RecordSiteOutcome(a)
        PROVE  UNCHANGED <<carried, gateway>>
    BY <1>5 DEF LeaseExpires, ManifestExpires, RecordSiteOutcome, workerVars, gatewayVars
  <1>6. PrepareDispatch(c)
    BY <1>1, <1>2, <1>3, <1>4, <1>5 DEF Next
  <1>7. QED
    BY <1>6 DEF PrepareDispatch, workerVars

\* A cancellation that finds nothing reserved and no carry about to reserve is
\* final, however far a carry of the release had got.
THEOREM CancellationHolds == Spec => CancellationIsFinal
  <1>1. ASSUME IInv, [Next]_vars, NEW a \in Approvals, Closed(a)
        PROVE  Closed(a)'
    <2>1. ~Queue(a) /\ ~CancelQueued(a) /\ ~CancelSubmitted(a) /\ ~RecordSiteOutcome(a)
      BY <1>1 DEF Closed, Queue, CancelQueued, CancelSubmitted, RecordSiteOutcome
    <2>2. \A c \in Carries : carried[c] = a => ~ReserveDispatch(c) /\ ~RecordOutcome(c)
      BY <1>1
      DEF Closed, ReserveDispatch, RecordOutcome, IInv, ReservedInv, Holder, Serving
    <2>3. intent'[a] = "CANCELLED" /\ attempts'[a] = <<>>
      BY <1>1, <2>1, <2>2, OthersLeaveStatus DEF Closed
    <2>4. \A c \in Carries : carried[c] = a => ~PrepareDispatch(c)
      BY <1>1 DEF Closed, PrepareDispatch, Preparable, Dispatchable
    <2>5. \A c \in Carries : carried'[c] = a => gateway'[c] # "prepared"
      BY <1>1, <2>4, OnlyPreparedWaits DEF Closed
    <2>6. QED
      BY <2>3, <2>5 DEF Closed
  <1>2. IInv /\ [Next]_vars => [\A a \in Approvals : Closed(a) => Closed(a)']_vars
    BY <1>1
  <1>3. QED
    BY <1>2, Invariance, PTL DEF Spec, CancellationIsFinal
=============================================================================
