------------------------ MODULE AetherReturn_proofs ------------------------
(***************************************************************************)
(* What holds of AetherReturn for any number of versions, releases and     *)
(* senders and any bounds.                                                 *)
(*                                                                         *)
(* The inductive invariant says what a sender knows: the row it works on   *)
(* is queued, and Aether has heard it once the sender was told so; and     *)
(* that only true outcomes are queued (QueuedIsTrue), of which Aether      *)
(* hears some (HeardWasQueued).                                            *)
(***************************************************************************)
EXTENDS AetherReturn, TLAPS

Queued(k) == row[k].status # "NONE"

SenderKnows ==
    \A s \in Senders :
        /\ sender[s].at # "idle" => sender[s].key \in Keys /\ Queued(sender[s].key)
        /\ sender[s].at = "told" => sender[s].key \in heard

HeardWasQueued == \A k \in heard : Queued(k)
QueuedIsTrue == \A k \in Keys : Queued(k) => IsTrue(k)

TypeInv == TypeOK /\ SenderKnows
IInv == TypeInv /\ HeardWasQueued /\ QueuedIsTrue

-----------------------------------------------------------------------------
(* The type invariant *)

LEMMA InitType == Init => TypeInv
BY ReturnAssumption DEF Init, TypeInv, TypeOK, SenderKnows, Idle, Rows, Statuses

\* What a trigger queues is of the right type, and the rest stays.
LEMMA EnqueueType ==
    ASSUME TypeOK, NEW k \in Keys, Enqueue(k)
    PROVE  /\ row' \in [Keys -> Rows] /\ clock' \in Nat
           /\ \A j \in Keys : Queued(j)' <=> Queued(j) \/ j = k
<1>1. CASE row[k].status = "NONE"
    <2> DEFINE new == [status |-> "PENDING", claims |-> 0, lapsed |-> FALSE,
                       occurred |-> clock, due |-> clock]
    <2>1. new \in Rows /\ new.status # "NONE"
        BY DEF TypeOK, Rows, Statuses
    <2>2. row' = [row EXCEPT ![k] = new] /\ clock' = clock + 1
        BY <1>1 DEF Enqueue
    <2> HIDE DEF new
    <2> QED
        BY <2>1, <2>2 DEF TypeOK, Queued
<1>2. CASE row[k].status # "NONE"
    BY <1>2 DEF Enqueue, TypeOK, Queued
<1> QED
    BY <1>1, <1>2

\* A row that is closed or released keeps its type and stays queued.
LEMMA LeaveType ==
    ASSUME TypeOK, NEW k \in Keys, NEW status \in Statuses \ {"NONE"}, Leave(k, status)
    PROVE  /\ row' \in [Keys -> Rows]
           /\ \A j \in Keys : Queued(j) => Queued(j)'
<1> DEFINE new == [status |-> status, claims |-> row[k].claims, lapsed |-> FALSE,
                   occurred |-> row[k].occurred, due |-> 0]
<1>1. new \in Rows /\ new.status # "NONE"
    BY DEF TypeOK, Rows, Statuses
<1>2. row' = [row EXCEPT ![k] = new]
    BY DEF Leave
<1> HIDE DEF new
<1> QED
    BY <1>1, <1>2 DEF TypeOK, Queued

\* An attempt that concludes a release queues an outcome of its version.
LEMMA OutcomeType ==
    ASSUME NEW r \in Releases, NEW status, OutcomeOf(r, status) # NONE
    PROVE  <<VersionOf[r], OutcomeOf(r, status)>> \in Keys
BY ReturnAssumption DEF OutcomeOf, Keys, Outcomes

LEMMA InsertAttemptType ==
    ASSUME TypeInv, NEW r \in Releases, NEW status \in Recorded \cup SiteRecorded,
           InsertAttempt(r, status)
    PROVE  TypeInv'
<1> DEFINE o == <<VersionOf[r], OutcomeOf(r, status)>>
<1>1. CASE OutcomeOf(r, status) = NONE
    BY <1>1 DEF TypeInv, TypeOK, SenderKnows, Queued, InsertAttempt, Recorded, SiteRecorded
<1>2. CASE OutcomeOf(r, status) # NONE
    <2>1. Enqueue(o) /\ o \in Keys
        BY <1>2, OutcomeType DEF InsertAttempt
    <2>2. /\ row' \in [Keys -> Rows] /\ clock' \in Nat
          /\ \A j \in Keys : Queued(j)' <=> Queued(j) \/ j = o
        BY <2>1, EnqueueType DEF TypeInv
    <2> HIDE DEF o
    <2> QED
        BY <2>2 DEF TypeInv, TypeOK, SenderKnows, InsertAttempt, Recorded, SiteRecorded, Queued
<1> QED
    BY <1>1, <1>2

LEMMA NextType == TypeInv /\ [Next]_vars => TypeInv'
<1> SUFFICES ASSUME TypeInv, [Next]_vars PROVE TypeInv'
    OBVIOUS
<1> USE DEF TypeInv, TypeOK, SenderKnows, Queued, Rows, Statuses
<1>1. ASSUME NEW r \in Releases, Conclude(r) \/ ConcludeSite(r) PROVE TypeInv'
    BY <1>1, InsertAttemptType DEF Conclude, ConcludeSite
<1>2. ASSUME NEW v \in Versions, Reject(v) PROVE TypeInv'
    <2>1. <<v, "REJECTED">> \in Keys
        BY DEF Keys, Outcomes
    <2> DEFINE o == <<v, "REJECTED">>
    <2>2. /\ row' \in [Keys -> Rows] /\ clock' \in Nat
          /\ \A j \in Keys : Queued(j)' <=> Queued(j) \/ j = o
        BY <1>2, <2>1, EnqueueType DEF Reject
    <2> HIDE DEF o
    <2> QED
        BY <1>2, <2>2 DEF Reject
<1>3. ASSUME NEW s \in Senders, Claim(s) PROVE TypeInv'
    BY <1>3 DEF Claim, Idle
<1>4. ASSUME NEW s \in Senders, Send(s) PROVE TypeInv'
    BY <1>4 DEF Send, Goes
<1>5. ASSUME NEW s \in Senders, SendFails(s) PROVE TypeInv'
    BY <1>5, ReturnAssumption DEF SendFails, Goes, Fault
<1>6. ASSUME NEW s \in Senders, RecordDelivered(s) PROVE TypeInv'
    <2>1. /\ sender[s].at = "told" /\ UNCHANGED <<attempt, rejected, heard, clock, faults>>
          /\ \/ Leave(sender[s].key, "DELIVERED") /\ sender' = [sender EXCEPT ![s] = Idle]
             \/ UNCHANGED row /\ sender' = [sender EXCEPT ![s].at = "failed"]
        BY <1>6 DEF RecordDelivered
    <2>2. row' \in [Keys -> Rows] /\ \A j \in Keys : Queued(j) => Queued(j)'
        BY <2>1, LeaveType
    <2>3. CASE sender' = [sender EXCEPT ![s] = Idle]
        BY <2>1, <2>2, <2>3 DEF Idle
    <2>4. CASE sender' = [sender EXCEPT ![s].at = "failed"]
        BY <2>1, <2>2, <2>4
    <2> QED
        BY <2>1, <2>3, <2>4
<1>7. ASSUME NEW s \in Senders, RecordFails(s) PROVE TypeInv'
    <2>1. /\ sender[s].at = "told" /\ sender' = [sender EXCEPT ![s].at = "failed"]
          /\ UNCHANGED <<attempt, rejected, heard, clock>> /\ faults' \in 0..MaxFaults
          /\ UNCHANGED row \/ Leave(sender[s].key, "DELIVERED")
        BY <1>7, ReturnAssumption DEF RecordFails, Goes, Fault
    <2>2. row' \in [Keys -> Rows] /\ \A j \in Keys : Queued(j) => Queued(j)'
        BY <2>1, LeaveType
    <2> QED
        BY <2>1, <2>2
<1>8. ASSUME NEW s \in Senders, RetryOrDeadLetter(s) PROVE TypeInv'
    <2>1. /\ sender[s].at = "failed" /\ sender' = [sender EXCEPT ![s] = Idle]
          /\ UNCHANGED <<attempt, rejected, heard, clock, faults>>
          /\ \/ UNCHANGED row
             \/ \E status \in {"DEAD", "PENDING"} : Leave(sender[s].key, status)
        BY <1>8 DEF RetryOrDeadLetter
    <2>2. row' \in [Keys -> Rows] /\ \A j \in Keys : Queued(j) => Queued(j)'
        BY <2>1, LeaveType
    <2> QED
        BY <2>1, <2>2 DEF Idle
<1>9. ASSUME NEW s \in Senders, Crash(s) PROVE TypeInv'
    BY <1>9, ReturnAssumption DEF Crash, Fault, Idle
<1>10. ASSUME NEW k \in Keys, ComesDue(k) PROVE TypeInv'
    BY <1>10 DEF ComesDue
<1>11. ASSUME NEW k \in Keys, LeaseLapses(k) PROVE TypeInv'
    <2>1. /\ row' = [row EXCEPT ![k].lapsed = TRUE] /\ faults' \in 0..MaxFaults
          /\ UNCHANGED <<attempt, rejected, sender, heard, clock>>
        BY <1>11, ReturnAssumption DEF LeaseLapses, Fault
    <2>2. row' \in [Keys -> Rows] /\ \A j \in Keys : Queued(j) => Queued(j)'
        BY <2>1
    <2> QED
        BY <2>1, <2>2
<1>12. CASE UNCHANGED vars
    BY <1>12 DEF vars
<1> QED
    BY <1>1, <1>2, <1>3, <1>4, <1>5, <1>6, <1>7, <1>8, <1>9, <1>10, <1>11, <1>12
       DEF Next, Sends

\* Every variable keeps its type, and a sender works on a queued row.
THEOREM TypeCorrectness == Spec => []TypeOK
<1>1. TypeInv => TypeOK
    BY DEF TypeInv
<1> QED
    BY <1>1, InitType, NextType, PTL DEF Spec

-----------------------------------------------------------------------------
(* What Aether hears is true *)

\* A step that is not a trigger's queues nothing and tells only what is queued.
Relays ==
    /\ UNCHANGED <<attempt, rejected>>
    /\ \A k \in Keys : Queued(k)' <=> Queued(k)
    /\ heard \subseteq heard'
    /\ \A k \in heard' \ heard : k \in Keys /\ Queued(k)

LEMMA LeaveRelays ==
    ASSUME TypeInv, NEW s \in Senders, NEW status \in Statuses \ {"NONE"},
           sender[s].at # "idle", Leave(sender[s].key, status)
    PROVE  \A k \in Keys : Queued(k)' <=> Queued(k)
<1>1. sender[s].key \in Keys /\ Queued(sender[s].key)
    BY DEF TypeInv, SenderKnows
<1> QED
    BY <1>1 DEF Leave, Queued, TypeInv, TypeOK, Statuses

LEMMA SenderRelays ==
    ASSUME TypeInv, NEW s \in Senders, Sends(s) \/ SendFails(s) \/ RecordFails(s) \/ Crash(s)
    PROVE  Relays
<1>1. CASE Claim(s)
    BY <1>1 DEF Claim, Claimable, Relays, Queued, TypeInv, TypeOK
<1>2. CASE Send(s) \/ SendFails(s)
    BY <1>2 DEF Send, SendFails, Goes, Relays, Queued, TypeInv, SenderKnows
<1>3. CASE RecordDelivered(s) \/ RecordFails(s) \/ RetryOrDeadLetter(s)
    <2>1. /\ sender[s].at # "idle" /\ UNCHANGED <<attempt, rejected, heard>>
          /\ UNCHANGED row \/ \E status \in {"DELIVERED", "DEAD", "PENDING"} :
                                Leave(sender[s].key, status)
        BY <1>3 DEF RecordDelivered, RecordFails, RetryOrDeadLetter, Goes
    <2>2. \A k \in Keys : Queued(k)' <=> Queued(k)
        BY <2>1, LeaveRelays DEF Queued, Statuses
    <2> QED
        BY <2>1, <2>2 DEF Relays
<1>4. CASE Crash(s)
    BY <1>4 DEF Crash, Relays, Queued
<1> QED
    BY <1>1, <1>2, <1>3, <1>4 DEF Sends

LEMMA TimeRelays ==
    ASSUME TypeInv, NEW k \in Keys, ComesDue(k) \/ LeaseLapses(k)
    PROVE  Relays
BY DEF ComesDue, LeaseLapses, Relays, Queued, TypeInv, TypeOK, Rows

\* A conclusion makes the outcome it queues true, and no other one false.
LEMMA ConclusionIsTrue ==
    ASSUME TypeOK, NEW r \in Releases, NEW status \in Recorded \cup SiteRecorded,
           InsertAttempt(r, status),
           attempt[r] = "RESERVED" \/ (r \in SiteReleases /\ attempt[r] = "ACCEPTED")
    PROVE  /\ \A k \in Keys : IsTrue(k) => IsTrue(k)'
           /\ OutcomeOf(r, status) # NONE => IsTrue(<<VersionOf[r], OutcomeOf(r, status)>>)'
<1>1. attempt' = [attempt EXCEPT ![r] = status] /\ UNCHANGED rejected
    BY DEF InsertAttempt
<1>2. attempt'[r] = status /\ \A q \in Releases \ {r} : attempt'[q] = attempt[q]
    BY <1>1 DEF TypeOK
<1>3. ASSUME NEW k \in Keys, IsTrue(k) PROVE IsTrue(k)'
    <2>1. CASE k[2] = "REJECTED" /\ k[1] \in rejected
        BY <1>1, <2>1 DEF IsTrue
    <2>2. CASE ~(k[2] = "REJECTED" /\ k[1] \in rejected)
        <3>1. k[2] \in Outcomes
            BY DEF Keys
        <3>2. PICK q \in Releases :
                /\ VersionOf[q] = k[1]
                /\ k[2] = "PUBLISHED" => attempt[q] = "CONFIRMED"
                                           \/ (attempt[q] = "ACCEPTED" /\ q \notin SiteReleases)
                /\ k[2] = "REFUSED" => attempt[q] = "NOT_SENT"
                /\ k[2] = "FAILED" => attempt[q] = "DEFINITIVE_FAILURE"
                /\ k[2] = "REJECTED" => attempt[q] = "SITE_CHANGE_CLOSED"
            BY <1>3, <2>2, <3>1 DEF IsTrue, Outcomes
        <3>3. q # r
            BY <3>1, <3>2 DEF Outcomes
        <3> QED
            BY <1>2, <3>1, <3>2, <3>3 DEF IsTrue, Outcomes
    <2> QED
        BY <2>1, <2>2
<1>4. ASSUME OutcomeOf(r, status) # NONE
      PROVE  IsTrue(<<VersionOf[r], OutcomeOf(r, status)>>)'
    <2>1. PICK o \in Outcomes :
            /\ o = OutcomeOf(r, status)
            /\ \/ o = "PUBLISHED" /\ status = "CONFIRMED"
               \/ o = "PUBLISHED" /\ status = "ACCEPTED" /\ r \notin SiteReleases
               \/ o = "REFUSED" /\ status = "NOT_SENT"
               \/ o = "REJECTED" /\ status = "SITE_CHANGE_CLOSED"
               \/ o = "FAILED" /\ status = "DEFINITIVE_FAILURE"
        BY <1>4 DEF OutcomeOf, Outcomes, Recorded, SiteRecorded
    <2>2. PICK k \in Versions \X Outcomes : k = <<VersionOf[r], o>>
        BY ReturnAssumption
    <2>3. k[1] = VersionOf[r] /\ k[2] = o
        BY <2>2
    <2>4. IsTrue(k)'
        <3>1. CASE o = "PUBLISHED"
            BY <1>2, <2>1, <2>3, <3>1 DEF IsTrue
        <3>2. CASE o = "REFUSED"
            BY <1>2, <2>1, <2>3, <3>2 DEF IsTrue
        <3>3. CASE o = "FAILED"
            BY <1>2, <2>1, <2>3, <3>3 DEF IsTrue
        <3>4. CASE o = "REJECTED"
            BY <1>2, <2>1, <2>3, <3>4 DEF IsTrue
        <3> QED
            BY <3>1, <3>2, <3>3, <3>4 DEF Outcomes
    <2> QED
        BY <2>1, <2>2, <2>4
<1> QED
    BY <1>3, <1>4

LEMMA InitInv == Init => IInv
<1> SUFFICES ASSUME Init PROVE IInv
    OBVIOUS
<1> QED
    BY InitType DEF Init, IInv, HeardWasQueued, QueuedIsTrue, Queued

LEMMA NextInv == IInv /\ [Next]_vars => IInv'
<1> SUFFICES ASSUME IInv, [Next]_vars PROVE IInv'
    OBVIOUS
<1>1. TypeInv'
    BY NextType DEF IInv
<1>2. ASSUME Relays PROVE HeardWasQueued' /\ QueuedIsTrue'
    BY <1>2 DEF IInv, TypeInv, TypeOK, HeardWasQueued, QueuedIsTrue, Relays, IsTrue, Queued
<1>3. ASSUME NEW k \in Keys, Enqueue(k), UNCHANGED heard, IsTrue(k)',
             \A j \in Keys : IsTrue(j) => IsTrue(j)'
      PROVE  HeardWasQueued' /\ QueuedIsTrue'
    <2>1. \A j \in Keys : Queued(j)' <=> Queued(j) \/ j = k
        BY <1>3, EnqueueType DEF IInv, TypeInv
    <2> QED
        BY <1>3, <2>1 DEF IInv, TypeInv, TypeOK, HeardWasQueued, QueuedIsTrue
<1>4. ASSUME NEW r \in Releases, Conclude(r) \/ ConcludeSite(r)
      PROVE  HeardWasQueued' /\ QueuedIsTrue'
    <2>1. PICK status \in Recorded \cup SiteRecorded :
            /\ InsertAttempt(r, status)
            /\ attempt[r] = "RESERVED" \/ (r \in SiteReleases /\ attempt[r] = "ACCEPTED")
        BY <1>4 DEF Conclude, ConcludeSite
    <2>2. /\ \A k \in Keys : IsTrue(k) => IsTrue(k)'
          /\ OutcomeOf(r, status) # NONE => IsTrue(<<VersionOf[r], OutcomeOf(r, status)>>)'
        BY <2>1, ConclusionIsTrue DEF IInv, TypeInv
    <2>3. CASE OutcomeOf(r, status) = NONE
        <3>1. UNCHANGED <<row, heard>>
            BY <2>1, <2>3 DEF InsertAttempt
        <3> QED
            BY <2>2, <3>1 DEF IInv, TypeInv, TypeOK, HeardWasQueued, QueuedIsTrue, Queued
    <2>4. CASE OutcomeOf(r, status) # NONE
        <3>1. /\ <<VersionOf[r], OutcomeOf(r, status)>> \in Keys /\ UNCHANGED heard
              /\ Enqueue(<<VersionOf[r], OutcomeOf(r, status)>>)
            BY <2>1, <2>4, OutcomeType DEF InsertAttempt
        <3> QED
            BY <1>3, <2>2, <2>4, <3>1
    <2> QED
        BY <2>3, <2>4
<1>5. ASSUME NEW v \in Versions, Reject(v) PROVE HeardWasQueued' /\ QueuedIsTrue'
    <2>1. <<v, "REJECTED">> \in Keys
        BY DEF Keys, Outcomes
    <2>2. Enqueue(<<v, "REJECTED">>) /\ UNCHANGED <<attempt, heard>> /\ rejected' = rejected \cup {v}
        BY <1>5 DEF Reject
    <2>3. IsTrue(<<v, "REJECTED">>)' /\ \A j \in Keys : IsTrue(j) => IsTrue(j)'
        BY <2>2 DEF IsTrue
    <2> QED
        BY <1>3, <2>1, <2>2, <2>3
<1>6. ASSUME UNCHANGED vars PROVE HeardWasQueued' /\ QueuedIsTrue'
    <2>1. Relays
        BY <1>6 DEF vars, Relays, Queued
    <2> QED
        BY <1>2, <2>1
<1>7. TypeInv
    BY DEF IInv
<1>8. HeardWasQueued' /\ QueuedIsTrue'
    <2>1. ASSUME NEW s \in Senders, Sends(s) \/ SendFails(s) \/ RecordFails(s) \/ Crash(s)
          PROVE  HeardWasQueued' /\ QueuedIsTrue'
        BY <1>2, <1>7, <2>1, SenderRelays
    <2>2. ASSUME NEW k \in Keys, ComesDue(k) \/ LeaseLapses(k)
          PROVE  HeardWasQueued' /\ QueuedIsTrue'
        BY <1>2, <1>7, <2>2, TimeRelays
    <2> QED
        BY <1>4, <1>5, <1>6, <2>1, <2>2 DEF Next
<1> QED
    BY <1>1, <1>8 DEF IInv

\* Aether hears only of outcomes that a release or a rejection really had, and
\* of a site release not before the owner decided.
THEOREM AetherHearsTheTruth == Spec => []HeardIsTrue
<1>1. IInv => HeardIsTrue
    BY DEF IInv, TypeInv, TypeOK, HeardWasQueued, QueuedIsTrue, HeardIsTrue
<1> QED
    BY <1>1, InitInv, NextInv, PTL DEF Spec

-----------------------------------------------------------------------------
(* The outbox implements OutcomeFeed *)

\* A step that leaves the rows in their sets and Aether as it is stutters.
LEMMA FeedStutters ==
    ASSUME UNCHANGED heard,
           \A k \in Keys : \A status \in {"NONE", "DELIVERED", "DEAD"} :
               row'[k].status = status <=> row[k].status = status
    PROVE  UNCHANGED Feed!vars
BY DEF Feed!vars

\* What a sender writes when it leaves a row is a delivery, a dead letter, or
\* nothing the feed tells apart.
LEMMA LeaveIsFeed ==
    ASSUME TypeInv, NEW s \in Senders, NEW status, Holds(s), UNCHANGED heard,
           sender[s].at # "idle", Leave(sender[s].key, status),
           \/ status \in {"DEAD", "PENDING"}
           \/ status = "DELIVERED" /\ sender[s].at = "told"
    PROVE  [Feed!Next]_Feed!vars
<1>0. PICK k \in Keys : k = sender[s].key
    BY DEF TypeInv, SenderKnows
<1>1. k \in Keys /\ row[k].status = "LEASED" /\ row \in [Keys -> Rows]
    BY <1>0 DEF TypeInv, TypeOK, Holds
<1>2. row'[k].status = status /\ \A j \in Keys \ {k} : row'[j] = row[j]
    BY <1>0, <1>1 DEF Leave
<1>3. CASE status = "PENDING"
    <2>1. \A j \in Keys : \A t \in {"NONE", "DELIVERED", "DEAD"} :
            row'[j].status = t <=> row[j].status = t
        BY <1>1, <1>2, <1>3
    <2> QED
        BY <2>1, FeedStutters
<1>4. CASE status = "DEAD"
    <2>1. {j \in Keys : row'[j].status # "NONE"} = {j \in Keys : row[j].status # "NONE"}
        BY <1>1, <1>2, <1>4
    <2>2. {j \in Keys : row'[j].status = "DELIVERED"} = {j \in Keys : row[j].status = "DELIVERED"}
        BY <1>1, <1>2, <1>4
    <2>3. {j \in Keys : row'[j].status = "DEAD"} = {j \in Keys : row[j].status = "DEAD"} \cup {k}
        BY <1>1, <1>2, <1>4
    <2>4. k \in {j \in Keys : row[j].status # "NONE"} \ {j \in Keys : row[j].status = "DELIVERED"}
        BY <1>1
    <2>5. Feed!GiveUp(k)
        BY <2>1, <2>2, <2>3, <2>4 DEF Feed!GiveUp
    <2> QED
        BY <1>1, <2>5 DEF Feed!Next
<1>5. CASE status = "DELIVERED"
    <2>1. k \in heard
        BY <1>0, <1>5 DEF TypeInv, SenderKnows
    <2>2. {j \in Keys : row'[j].status # "NONE"} = {j \in Keys : row[j].status # "NONE"}
        BY <1>1, <1>2, <1>5
    <2>3. {j \in Keys : row'[j].status = "DEAD"} = {j \in Keys : row[j].status = "DEAD"}
        BY <1>1, <1>2, <1>5
    <2>4. {j \in Keys : row'[j].status = "DELIVERED"}
            = {j \in Keys : row[j].status = "DELIVERED"} \cup {k}
        BY <1>1, <1>2, <1>5
    <2>5. k \in heard \ {j \in Keys : row[j].status = "DEAD"}
        BY <1>1, <2>1
    <2>6. Feed!Deliver(k)
        BY <2>2, <2>3, <2>4, <2>5 DEF Feed!Deliver
    <2> QED
        BY <1>1, <2>6 DEF Feed!Next
<1> QED
    BY <1>3, <1>4, <1>5

LEMMA EnqueueIsFeed ==
    ASSUME TypeOK, NEW k \in Keys, Enqueue(k), UNCHANGED heard
    PROVE  [Feed!Next]_Feed!vars
<1>1. CASE row[k].status = "NONE"
    <2>1. row'[k].status = "PENDING" /\ \A j \in Keys \ {k} : row'[j] = row[j]
        BY <1>1 DEF Enqueue, TypeOK
    <2>2. Feed!Happen(k)
        BY <1>1, <2>1 DEF Feed!Happen
    <2> QED
        BY <2>2 DEF Feed!Next
<1>2. CASE row[k].status # "NONE"
    BY <1>2, FeedStutters DEF Enqueue
<1> QED
    BY <1>1, <1>2

LEMMA InitIsFeed == Init => Feed!Init
BY DEF Init, Feed!Init

LEMMA NextIsFeed == TypeInv /\ [Next]_vars => [Feed!Next]_Feed!vars
<1> SUFFICES ASSUME TypeInv, [Next]_vars PROVE [Feed!Next]_Feed!vars
    OBVIOUS
<1>1. ASSUME NEW r \in Releases, Conclude(r) \/ ConcludeSite(r) PROVE [Feed!Next]_Feed!vars
    <2>1. PICK status \in Recorded \cup SiteRecorded : InsertAttempt(r, status)
        BY <1>1 DEF Conclude, ConcludeSite
    <2>2. CASE OutcomeOf(r, status) = NONE
        BY <2>1, <2>2, FeedStutters DEF InsertAttempt
    <2>3. CASE OutcomeOf(r, status) # NONE
        BY <2>1, <2>3, OutcomeType, EnqueueIsFeed DEF InsertAttempt, TypeInv
    <2> QED
        BY <2>2, <2>3
<1>2. ASSUME NEW v \in Versions, Reject(v) PROVE [Feed!Next]_Feed!vars
    <2>1. <<v, "REJECTED">> \in Keys
        BY DEF Keys, Outcomes
    <2> QED
        BY <1>2, <2>1, EnqueueIsFeed DEF Reject, TypeInv
<1>3. ASSUME NEW s \in Senders, Claim(s) PROVE [Feed!Next]_Feed!vars
    BY <1>3, FeedStutters DEF Claim, Claimable, TypeInv, TypeOK
<1>4. ASSUME NEW s \in Senders, Send(s) \/ SendFails(s) PROVE [Feed!Next]_Feed!vars
    <2> DEFINE k == sender[s].key
    <2>1. k \in Keys /\ row[k].status # "NONE" /\ UNCHANGED row
          /\ (UNCHANGED heard \/ heard' = heard \cup {k})
        BY <1>4 DEF Send, SendFails, Goes, TypeInv, SenderKnows, Queued
    <2>2. CASE UNCHANGED heard
        BY <2>1, <2>2, FeedStutters
    <2>3. CASE heard' = heard \cup {k}
        <3>1. Feed!Hear(k)
            BY <2>1, <2>3 DEF Feed!Hear
        <3> QED
            BY <2>1, <3>1 DEF Feed!Next
    <2> QED
        BY <2>1, <2>2, <2>3
<1>5. ASSUME NEW s \in Senders, RecordDelivered(s) \/ RecordFails(s) \/ RetryOrDeadLetter(s)
      PROVE  [Feed!Next]_Feed!vars
    <2>1. UNCHANGED heard /\ sender[s].at # "idle"
        BY <1>5 DEF RecordDelivered, RecordFails, RetryOrDeadLetter, Goes
    <2>2. \/ UNCHANGED row
          \/ Holds(s) /\ sender[s].at = "told" /\ Leave(sender[s].key, "DELIVERED")
          \/ Holds(s) /\ Leave(sender[s].key, "DEAD")
          \/ Holds(s) /\ Leave(sender[s].key, "PENDING")
        <3>1. CASE RecordDelivered(s)
            BY <3>1 DEF RecordDelivered
        <3>2. CASE RecordFails(s)
            BY <3>2 DEF RecordFails, Goes
        <3>3. CASE RetryOrDeadLetter(s)
            BY <3>3 DEF RetryOrDeadLetter
        <3> QED
            BY <1>5, <3>1, <3>2, <3>3
    <2>3. CASE UNCHANGED row
        BY <2>1, <2>3, FeedStutters
    <2>4. CASE Holds(s) /\ sender[s].at = "told" /\ Leave(sender[s].key, "DELIVERED")
        BY <2>1, <2>4, LeaveIsFeed
    <2>5. CASE Holds(s) /\ Leave(sender[s].key, "DEAD")
        BY <2>1, <2>5, LeaveIsFeed
    <2>6. CASE Holds(s) /\ Leave(sender[s].key, "PENDING")
        BY <2>1, <2>6, LeaveIsFeed
    <2> QED
        BY <2>2, <2>3, <2>4, <2>5, <2>6
<1>6. ASSUME NEW s \in Senders, Crash(s) PROVE [Feed!Next]_Feed!vars
    BY <1>6, FeedStutters DEF Crash
<1>7. ASSUME NEW k \in Keys, ComesDue(k) \/ LeaseLapses(k) PROVE [Feed!Next]_Feed!vars
    <2>1. UNCHANGED heard /\ \A j \in Keys : row'[j].status = row[j].status
        BY <1>7 DEF ComesDue, LeaseLapses, TypeInv, TypeOK, Rows
    <2> QED
        BY <2>1, FeedStutters
<1>8. CASE UNCHANGED vars
    BY <1>8, FeedStutters DEF vars
<1> QED
    BY <1>1, <1>2, <1>3, <1>4, <1>5, <1>6, <1>7, <1>8 DEF Next, Sends

\* The outbox keeps the promise of OutcomeFeed: DELIVERED only after Aether
\* heard it, and no closed row is ever opened again.
THEOREM FeedIsKept == Spec => ImplementsFeed
BY InitType, NextType, InitIsFeed, NextIsFeed, PTL DEF Spec, ImplementsFeed, Feed!Spec
=============================================================================
