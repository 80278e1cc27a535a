---------------------------- MODULE AetherReturn ----------------------------
(***************************************************************************)
(* How the end of a draft gets back to the Aether task it came from:       *)
(*                                                                         *)
(*   two triggers (migrations 0051 and 0053) queue a row when a            *)
(*     publication attempt or an owner's rejection ends a version, at most *)
(*     one row for a version and a kind of outcome;                        *)
(*   the senders (apps/worker/src/selena-aether-return-sender.ts) claim    *)
(*     the oldest due row under a lease, post it to Aether, and record     *)
(*     that it was delivered, release it with a back-off, or dead-letter   *)
(*     it, in a transaction of its own.                                    *)
(*                                                                         *)
(* The versions are those of one task. Several senders stand for the old   *)
(* and the new worker of a rollout. A claim draws a random lease owner,    *)
(* which the number of the claim identifies. Versions without an Aether    *)
(* origin queue nothing and are left out.                                  *)
(*                                                                         *)
(* Bounds of an instance: MaxFaults crashes, failed or unanswered requests *)
(* and overrun leases.                                                     *)
(***************************************************************************)
EXTENDS Naturals

CONSTANTS
    Versions,               \* content versions of one task
    Releases, VersionOf,    \* releases, and the version each publishes
    SiteReleases,           \* those that go to the site (platform website_lab)
    Senders,
    NONE,
    MaxAttempts, MaxFaults

Outcomes == {"PUBLISHED", "REFUSED", "FAILED", "REJECTED"}
Keys == Versions \X Outcomes

ASSUME ReturnAssumption ==
    /\ VersionOf \in [Releases -> Versions]
    /\ SiteReleases \subseteq Releases
    /\ NONE \notin Keys
    /\ MaxAttempts \in Nat \ {0} /\ MaxFaults \in Nat

VARIABLES
    attempt,    \* the latest attempt of each release
    rejected,   \* the versions the owner rejected
    row,        \* aether_outcome_outbox by version and outcome
    sender,     \* what each sender is doing
    heard,      \* the outcomes Aether has heard of
    clock,      \* orders occurred_at and available_at
    faults

vars == <<attempt, rejected, row, sender, heard, clock, faults>>

\* A site attempt the owner did not merge is a DEFINITIVE_FAILURE whose
\* classification tells which.
Recorded == {"ACCEPTED", "AMBIGUOUS", "NOT_SENT", "DEFINITIVE_FAILURE"}
SiteRecorded == {"CONFIRMED", "SITE_CHANGE_CLOSED", "SITE_CHANGE_SUPERSEDED"}
Statuses == {"NONE", "PENDING", "LEASED", "DELIVERED", "DEAD"}
\* due is available_at, 0 as long as a back-off lasts and once a row is closed.
Rows == [status : Statuses, claims : Nat, lapsed : BOOLEAN, occurred : Nat, due : Nat]

TypeOK ==
    /\ attempt \in [Releases -> {"RESERVED"} \cup Recorded \cup SiteRecorded]
    /\ rejected \subseteq Versions
    /\ row \in [Keys -> Rows]
    /\ sender \in [Senders -> [at : {"idle", "sending", "told", "failed"},
                               key : Keys \cup {NONE}, claim : Nat]]
    /\ heard \subseteq Keys
    /\ clock \in Nat
    /\ faults \in 0..MaxFaults

Idle == [at |-> "idle", key |-> NONE, claim |-> 0]

Init ==
    /\ attempt = [r \in Releases |-> "RESERVED"]
    /\ rejected = {}
    /\ row = [k \in Keys |-> [status |-> "NONE", claims |-> 0, lapsed |-> FALSE,
                             occurred |-> 0, due |-> 0]]
    /\ sender = [s \in Senders |-> Idle]
    /\ heard = {}
    /\ clock = 1
    /\ faults = 0

-----------------------------------------------------------------------------
(* The triggers *)

\* enqueue_aether_outcome: ON CONFLICT DO NOTHING
Enqueue(k) ==
    IF row[k].status = "NONE"
    THEN /\ row' = [row EXCEPT ![k] = [status |-> "PENDING", claims |-> 0, lapsed |-> FALSE,
                                       occurred |-> clock, due |-> clock]]
         /\ clock' = clock + 1
    ELSE UNCHANGED <<row, clock>>

\* Broken: an accepted site release counts as published (0051 before 0053).
OutcomeOfAnyChannel(r, status) ==
    CASE status \in {"ACCEPTED", "CONFIRMED"} -> "PUBLISHED"
      [] status = "NOT_SENT"                  -> "REFUSED"
      [] status = "SITE_CHANGE_CLOSED"        -> "REJECTED"
      [] status = "DEFINITIVE_FAILURE"        -> "FAILED"
      [] OTHER                                -> NONE

\* What the author is told of an attempt; NONE for what is no conclusion.
OutcomeOf(r, status) ==
    CASE status = "CONFIRMED" \/ (status = "ACCEPTED" /\ r \notin SiteReleases) -> "PUBLISHED"
      [] status = "NOT_SENT"           -> "REFUSED"
      [] status = "SITE_CHANGE_CLOSED" -> "REJECTED"
      [] status = "DEFINITIVE_FAILURE" -> "FAILED"
      [] OTHER                         -> NONE

InsertAttempt(r, status) ==
    /\ attempt' = [attempt EXCEPT ![r] = status]
    /\ IF OutcomeOf(r, status) = NONE
       THEN UNCHANGED <<row, clock>>
       ELSE Enqueue(<<VersionOf[r], OutcomeOf(r, status)>>)
    /\ UNCHANGED <<rejected, sender, heard, faults>>

\* The gateway's verdict, and the end of a site release the watch finds.
Conclude(r) ==
    /\ attempt[r] = "RESERVED"
    /\ \E status \in Recorded : InsertAttempt(r, status)

ConcludeSite(r) ==
    /\ r \in SiteReleases /\ attempt[r] = "ACCEPTED"
    /\ \E status \in SiteRecorded : InsertAttempt(r, status)

Reject(v) ==
    /\ v \notin rejected
    /\ rejected' = rejected \cup {v}
    /\ Enqueue(<<v, "REJECTED">>)
    /\ UNCHANGED <<attempt, sender, heard, faults>>

-----------------------------------------------------------------------------
(* A sender: sendOneOutcome *)

Goes(s, from, to) ==
    /\ sender[s].at = from
    /\ sender' = [sender EXCEPT ![s].at = to]

\* Broken: a row whose lease ran out is not claimed again.
ClaimablePending(k) == row[k].status = "PENDING" /\ row[k].due # 0

Claimable(k) ==
    /\ row[k].status = "PENDING" \/ (row[k].status = "LEASED" /\ row[k].lapsed)
    /\ row[k].due # 0

\* claim_next_aether_outcome: the row that has been due for longest
Claim(s) ==
    /\ sender[s] = Idle
    /\ \E k \in Keys :
        /\ Claimable(k)
        /\ \A j \in Keys : Claimable(j) => row[k].due <= row[j].due
        /\ row' = [row EXCEPT ![k] = [status |-> "LEASED", claims |-> row[k].claims + 1,
                                      lapsed |-> FALSE, occurred |-> row[k].occurred,
                                      due |-> row[k].due]]
        /\ sender' = [sender EXCEPT ![s] =
                        [at |-> "sending", key |-> k, claim |-> row[k].claims + 1]]
    /\ UNCHANGED <<attempt, rejected, heard, clock, faults>>

Send(s) ==
    /\ Goes(s, "sending", "told")
    /\ heard' = heard \cup {sender[s].key}
    /\ UNCHANGED <<attempt, rejected, row, clock, faults>>

Fault ==
    /\ faults < MaxFaults
    /\ faults' = faults + 1

\* The request does not get there, or only its answer is lost.
SendFails(s) ==
    /\ Fault
    /\ Goes(s, "sending", "failed")
    /\ \E lost \in BOOLEAN : heard' = IF lost THEN heard ELSE heard \cup {sender[s].key}
    /\ UNCHANGED <<attempt, rejected, row, clock>>

\* Broken: the state of the row is not asked for.
HoldsOnce(s) == row[sender[s].key].claims = sender[s].claim

\* The row is leased, and by this sender.
Holds(s) ==
    LET r == row[sender[s].key] IN
    r.status = "LEASED" /\ r.claims = sender[s].claim

Leave(k, status) ==
    row' = [row EXCEPT ![k] = [status |-> status, claims |-> row[k].claims, lapsed |-> FALSE,
                               occurred |-> row[k].occurred, due |-> 0]]

\* record_aether_outcome_delivered; it raises when the lease is lost.
RecordDelivered(s) ==
    LET k == sender[s].key IN
    /\ sender[s].at = "told"
    /\ IF Holds(s)
       THEN /\ Leave(k, "DELIVERED")
            /\ sender' = [sender EXCEPT ![s] = Idle]
       ELSE /\ sender' = [sender EXCEPT ![s].at = "failed"]
            /\ UNCHANGED row
    /\ UNCHANGED <<attempt, rejected, heard, clock, faults>>

\* Recording fails, before or after it is committed.
RecordFails(s) ==
    LET k == sender[s].key IN
    /\ Fault
    /\ Goes(s, "told", "failed")
    /\ UNCHANGED row \/ (Holds(s) /\ Leave(k, "DELIVERED"))
    /\ UNCHANGED <<attempt, rejected, heard, clock>>

\* Broken: the dead letter is named as in the workflow outbox.
RetryAsTriggerOutbox(s) ==
    LET k == sender[s].key IN
    /\ sender[s].at = "failed"
    /\ sender' = [sender EXCEPT ![s] = Idle]
    /\ IF Holds(s)
       THEN Leave(k, IF row[k].claims >= MaxAttempts THEN "DEAD_LETTER" ELSE "PENDING")
       ELSE UNCHANGED row
    /\ UNCHANGED <<attempt, rejected, heard, clock, faults>>

\* retry_or_dead_letter_aether_outcome; without the lease it raises, which
\* ends the round.
RetryOrDeadLetter(s) ==
    LET k == sender[s].key IN
    /\ sender[s].at = "failed"
    /\ sender' = [sender EXCEPT ![s] = Idle]
    /\ IF Holds(s)
       THEN Leave(k, IF row[k].claims >= MaxAttempts THEN "DEAD" ELSE "PENDING")
       ELSE UNCHANGED row
    /\ UNCHANGED <<attempt, rejected, heard, clock, faults>>

\* A sender dies, or its database does.
Crash(s) ==
    /\ Fault
    /\ sender[s] # Idle
    /\ sender' = [sender EXCEPT ![s] = Idle]
    /\ UNCHANGED <<attempt, rejected, row, heard, clock>>

-----------------------------------------------------------------------------
(* Time *)

\* The back-off of a released row is over.
ComesDue(k) ==
    /\ row[k].status = "PENDING" /\ row[k].due = 0
    /\ row' = [row EXCEPT ![k].due = clock]
    /\ clock' = clock + 1
    /\ UNCHANGED <<attempt, rejected, sender, heard, faults>>

Held(k) ==
    \E s \in Senders : sender[s].key = k /\ sender[s].claim = row[k].claims

\* A lease runs out: its holder is gone, or overruns it, which counts as a
\* fault (fetch waits as long for an answer as the lease lasts).
LeaseLapses(k) ==
    /\ row[k].status = "LEASED" /\ ~row[k].lapsed
    /\ row' = [row EXCEPT ![k].lapsed = TRUE]
    /\ IF Held(k) THEN Fault ELSE UNCHANGED faults
    /\ UNCHANGED <<attempt, rejected, sender, heard, clock>>

-----------------------------------------------------------------------------
Sends(s) == Claim(s) \/ Send(s) \/ RecordDelivered(s) \/ RetryOrDeadLetter(s)

Next ==
    \/ \E r \in Releases : Conclude(r) \/ ConcludeSite(r)
    \/ \E v \in Versions : Reject(v)
    \/ \E s \in Senders : Sends(s) \/ SendFails(s) \/ RecordFails(s) \/ Crash(s)
    \/ \E k \in Keys : ComesDue(k) \/ LeaseLapses(k)

Spec == Init /\ [][Next]_vars

(***************************************************************************)
(* A sender works through what is due (every five seconds it looks again), *)
(* back-offs end, and so do the leases of senders that are gone.           *)
(***************************************************************************)
FairSpec ==
    /\ Spec
    /\ \A s \in Senders : WF_vars(Sends(s))
    /\ \A k \in Keys :
        WF_vars(ComesDue(k)) /\ WF_vars(~Held(k) /\ LeaseLapses(k))

-----------------------------------------------------------------------------
(* Properties *)

\* An outcome of a version that one of its releases, or its rejection, had.
IsTrue(k) ==
    \/ k[2] = "REJECTED" /\ k[1] \in rejected
    \/ \E r \in Releases :
        /\ VersionOf[r] = k[1]
        /\ CASE k[2] = "PUBLISHED" -> \/ attempt[r] = "CONFIRMED"
                                      \/ attempt[r] = "ACCEPTED" /\ r \notin SiteReleases
             [] k[2] = "REFUSED"   -> attempt[r] = "NOT_SENT"
             [] k[2] = "FAILED"    -> attempt[r] = "DEFINITIVE_FAILURE"
             [] k[2] = "REJECTED"  -> attempt[r] = "SITE_CHANGE_CLOSED"

\* What Aether hears is true; in particular a site release that waits for the
\* owner is not heard of as published (tg_aether_outcome_from_attempt in 0053).
HeardIsTrue == \A k \in heard : IsTrue(k)

\* The outbox keeps the promise of OutcomeFeed: a row is DELIVERED only after
\* Aether heard it, and a closed row is never opened again, whichever sender
\* still believes it holds the lease.
Feed == INSTANCE OutcomeFeed WITH
    Outcomes  <- Keys,
    happened  <- {k \in Keys : row[k].status # "NONE"},
    delivered <- {k \in Keys : row[k].status = "DELIVERED"},
    givenUp   <- {k \in Keys : row[k].status = "DEAD"}

ImplementsFeed == Feed!Spec

\* A queued outcome is delivered, unless as many things went wrong as the row
\* has attempts (sendOneOutcome: a crash leaves the row leased and it is retried).
OutcomesGetThrough ==
    \A k \in Keys :
        row[k].status = "PENDING" ~> row[k].status = "DELIVERED" \/ faults >= MaxAttempts

\* The author never hears an older outcome of the task after a newer one (0053:
\* an outcome must not be overwritten by the older one).
NewestIsHeardLast ==
    [][\A k \in heard' \ heard : \A j \in heard : row[j].occurred < row[k].occurred]_vars
=============================================================================
