------------------------- MODULE PublicationLedger -------------------------
(***************************************************************************)
(* What the release pipeline promises about one approved release, with     *)
(* every queue, lease, process and retry left out: a release is reserved   *)
(* once, at most one request about it is ever taken by its provider, only  *)
(* under a reservation, and the verdict written down about it is written   *)
(* once and never contradicts what the provider did: only of a release     *)
(* whose adapter calls decided refusals alone a failure (Decisive) does a  *)
(* failure say that the provider never takes it.                           *)
(*                                                                         *)
(* ReleasePipeline implements this specification (ReleasePipeline!Ledger); *)
(* the promise is the one the comments of                                  *)
(* apps/worker/src/selena-release-dispatch.ts make.                        *)
(***************************************************************************)

CONSTANTS
    Releases, Requests,
    Decisive   \* the releases of which a recorded failure is the provider's own

VARIABLES
    reserved,  \* the releases a dispatch was reserved for
    taken,     \* the requests about each release that the provider took
    verdict    \* what was recorded of the hand-over, "NONE" until it is

ledgerVars == <<reserved, taken, verdict>>

Verdicts == {"ACCEPTED", "DEFINITIVE_FAILURE", "AMBIGUOUS", "NOT_SENT"}

\* The verdicts that say the provider does not have the release and will not.
Refusals(r) == {"NOT_SENT"} \cup (IF r \in Decisive THEN {"DEFINITIVE_FAILURE"} ELSE {})

\* What a verdict claims about the provider. AMBIGUOUS claims nothing.
Agrees(r, v) ==
    /\ v = "ACCEPTED" => taken[r] # {}
    /\ v \in Refusals(r) => taken[r] = {}

LedgerInit ==
    /\ reserved = {}
    /\ taken = [r \in Releases |-> {}]
    /\ verdict = [r \in Releases |-> "NONE"]

Reserve(r) ==
    /\ r \notin reserved
    /\ reserved' = reserved \cup {r}
    /\ UNCHANGED <<taken, verdict>>

\* The provider takes a request, perhaps long after its sender gave up on it.
Take(r, q) ==
    /\ r \in reserved
    /\ taken[r] = {}
    /\ verdict[r] \notin Refusals(r) \cup {"ACCEPTED"}
    /\ taken' = [taken EXCEPT ![r] = {q}]
    /\ UNCHANGED <<reserved, verdict>>

Conclude(r, v) ==
    /\ r \in reserved
    /\ verdict[r] = "NONE"
    /\ Agrees(r, v)
    /\ verdict' = [verdict EXCEPT ![r] = v]
    /\ UNCHANGED <<reserved, taken>>

LedgerNext ==
    \E r \in Releases :
        \/ Reserve(r)
        \/ \E q \in Requests : Take(r, q)
        \/ \E v \in Verdicts : Conclude(r, v)

LedgerSpec == LedgerInit /\ [][LedgerNext]_ledgerVars
=============================================================================
