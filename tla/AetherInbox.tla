---------------------------- MODULE AetherInbox ----------------------------
(***************************************************************************)
(* How a draft written in Aether becomes a content version:                *)
(*                                                                         *)
(*   the bridge delivers signed envelopes at least once and in any order;  *)
(*   the receiver (apps/worker/src/selena-aether-receiver.ts) records each *)
(*     through record_aether_event, which answers from the rows it finds   *)
(*     and inserts a row afterwards, so two requests can be between the    *)
(*     one and the other at the same time;                                 *)
(*   the projection worker (apps/worker/src/selena-aether-projection-      *)
(*     worker.ts) takes the oldest due row and, in one transaction, drafts *)
(*     its version, refuses it, or defers it until the owner has supplied  *)
(*     what it lacks;                                                      *)
(*   people in the control room bind the project to a brand, set the       *)
(*     brand's content policy, and add versions of their own.              *)
(*                                                                         *)
(* An envelope is identified by its material (the aggregate), its version  *)
(* and its body.  Event ids are left out: a new id for known content is    *)
(* answered as a repetition as well, and the sender does not give one id   *)
(* to different content (the receiver answers that with a conflict).  A    *)
(* transaction that rolls back leaves nothing behind, so a crash of either *)
(* process is a stutter.                                                   *)
(*                                                                         *)
(* Bounds of an instance: MaxVersion versions of a material, MaxEdits      *)
(* versions people add, MaxChanges changes of binding and policy.          *)
(***************************************************************************)
EXTENDS Naturals

CONSTANTS
    Materials,      \* aggregates of one Aether project
    MaxVersion,
    Bodies,         \* what a payload can hash to
    Poison,         \* <<material, version>> keys whose projection always throws
    Brands,         \* brands of the organization the project belongs to
    Receivers,      \* requests the receiver can be serving at a time
    NONE,           \* no brand, no envelope
    MaxEdits, MaxChanges

Versions == 1..MaxVersion
Keys == Materials \X Versions
ContentVersions == 1..(MaxVersion + MaxEdits)

ASSUME InboxAssumption ==
    /\ MaxVersion \in Nat \ {0}
    /\ Poison \subseteq Keys
    /\ MaxEdits \in Nat
    /\ MaxChanges \in Nat

Envelopes == [material : Materials, version : Versions, body : Bodies]
KeyOf(e) == <<e.material, e.version>>

VARIABLES
    sent,       \* the envelopes on the bridge, deliverable again at any time
    serving,    \* per request slot, the envelope about to be inserted, and since when
    answers,    \* what the sender was told: pairs of an envelope and an answer
    inbox,      \* selena_ingest_raw.aether_events, by material and version
    clock,      \* the start of the next recording transaction (received_at)
    binding,    \* the project's active growth binding: brand, and whether its key agrees
    policy,     \* per brand, whether a content policy is in force
    title,      \* per brand and material, the version the item's title is from; 0, no item
    content,    \* per brand and material, who wrote each content version
    edits, changes,
    raced,      \* history: materials of which two versions were served at a time
    waited      \* history: the keys that were deferred for want of a binding or policy

bridgeVars == <<sent, serving, answers, clock, raced>>
ownerVars == <<binding, policy, changes>>
registryVars == <<title, content>>
vars == <<bridgeVars, inbox, ownerVars, registryVars, edits, waited>>

RowStatus == {"ABSENT", "DUE", "DEFERRED", "PROJECTED", "REFUSED"}
Answers == {"recorded", "duplicate", "stale", "conflict"}
Authors == {"NOBODY", "AETHER", "PERSON"}

TypeOK ==
    /\ sent \subseteq Envelopes
    /\ serving \in [Receivers -> [env : Envelopes \cup {NONE}, at : Nat]]
    /\ answers \subseteq (Envelopes \X Answers)
    /\ inbox \in [Keys -> [status : RowStatus, body : Bodies \cup {NONE}, at : Nat,
                           into : Brands \cup {NONE}]]
    /\ clock \in Nat
    /\ binding \in [brand : Brands \cup {NONE}, agrees : BOOLEAN]
    /\ policy \in [Brands -> BOOLEAN]
    /\ title \in [Brands \X Materials -> 0..MaxVersion]
    /\ content \in [Brands \X Materials -> [ContentVersions -> Authors]]
    /\ edits \in 0..MaxEdits
    /\ changes \in 0..MaxChanges
    /\ raced \subseteq Materials /\ waited \subseteq Keys

Init ==
    /\ sent = {}
    /\ serving = [r \in Receivers |-> [env |-> NONE, at |-> 0]]
    /\ answers = {}
    /\ inbox = [k \in Keys |-> [status |-> "ABSENT", body |-> NONE, at |-> 0, into |-> NONE]]
    /\ clock = 0
    /\ binding \in [brand : Brands \cup {NONE}, agrees : {TRUE}]
    /\ policy \in [Brands -> BOOLEAN]
    /\ title = [i \in Brands \X Materials |-> 0]
    /\ content = [i \in Brands \X Materials |-> [n \in ContentVersions |-> "NOBODY"]]
    /\ edits = 0
    /\ changes = 0
    /\ raced = {} /\ waited = {}

Recorded(k) == inbox[k].status # "ABSENT"

-----------------------------------------------------------------------------
(* The bridge *)

\* Aether reports the next version of a material, or, by mistake, one it has
\* already reported with another body.
Send(e) ==
    /\ e \notin sent
    /\ e.version > 1 => \E f \in sent : f.material = e.material /\ f.version = e.version - 1
    /\ sent' = sent \cup {e}
    /\ UNCHANGED <<serving, answers, clock, raced, inbox, ownerVars, registryVars, edits, waited>>

Tell(e, a) ==
    /\ answers' = answers \cup {<<e, a>>}
    /\ UNCHANGED <<sent, raced, inbox, ownerVars, registryVars, edits, waited>>

-----------------------------------------------------------------------------
(* The receiver: record_aether_event *)

\* Broken: a repeated version is a repetition whatever it carries.
AnswerAnyKnown(e) ==
    /\ e \in sent
    /\ Recorded(KeyOf(e))
    /\ Tell(e, "duplicate")
    /\ UNCHANGED <<serving, clock>>

\* The version is there: the same content is a repetition, other content a
\* conflict (SE409).
AnswerKnown(e) ==
    /\ e \in sent
    /\ Recorded(KeyOf(e))
    /\ Tell(e, IF inbox[KeyOf(e)].body = e.body THEN "duplicate" ELSE "conflict")
    /\ UNCHANGED <<serving, clock>>

Overtaken(e) ==
    \E v \in Versions : v > e.version /\ Recorded(<<e.material, v>>)

\* A newer version of the material is there.
AnswerStale(e) ==
    /\ e \in sent
    /\ ~Recorded(KeyOf(e))
    /\ Overtaken(e)
    /\ Tell(e, "stale")
    /\ UNCHANGED <<serving, clock>>

\* A request is under way for another version of the material.
Meets(e) ==
    \E s \in Receivers :
        /\ serving[s].env # NONE
        /\ serving[s].env.material = e.material /\ serving[s].env.version # e.version

\* Broken: a version that comes late is inserted all the same.
StartRecordLate(r, e) ==
    /\ e \in sent
    /\ serving[r].env = NONE
    /\ ~Recorded(KeyOf(e))
    /\ serving' = [serving EXCEPT ![r] = [env |-> e, at |-> clock]]
    /\ clock' = clock + 1
    /\ raced' = raced \cup {m \in {e.material} : Meets(e)}
    /\ UNCHANGED <<sent, answers, inbox, ownerVars, registryVars, edits, waited>>

\* Neither: the row is to be inserted. received_at is the transaction's start.
StartRecord(r, e) ==
    /\ e \in sent
    /\ serving[r].env = NONE
    /\ ~Recorded(KeyOf(e))
    /\ ~Overtaken(e)
    /\ serving' = [serving EXCEPT ![r] = [env |-> e, at |-> clock]]
    /\ clock' = clock + 1
    /\ raced' = raced \cup {m \in {e.material} : Meets(e)}
    /\ UNCHANGED <<sent, answers, inbox, ownerVars, registryVars, edits, waited>>

\* The insert. When another request inserted the version meanwhile the unique
\* index refuses this one, and the sender, told 500, tries again.
FinishRecord(r) ==
    LET e == serving[r].env IN
    /\ e # NONE
    /\ serving' = [serving EXCEPT ![r] = [env |-> NONE, at |-> 0]]
    /\ IF Recorded(KeyOf(e))
       THEN UNCHANGED <<inbox, answers>>
       ELSE /\ inbox' = [inbox EXCEPT ![KeyOf(e)] =
                    [status |-> "DUE", body |-> e.body, at |-> serving[r].at, into |-> NONE]]
            /\ answers' = answers \cup {<<e, "recorded">>}
    /\ UNCHANGED <<sent, clock, raced, ownerVars, registryVars, edits, waited>>

-----------------------------------------------------------------------------
(* The projection worker *)

Earlier(j, k) ==
    \/ inbox[j].at < inbox[k].at
    \/ inbox[j].at = inbox[k].at /\ j[2] < k[2]

\* Broken: the newest due event is taken first.
OldestDueReversed(k) ==
    /\ inbox[k].status = "DUE"
    /\ \A j \in Keys : inbox[j].status = "DUE" /\ j # k => Earlier(j, k)

\* claim_next_aether_draft_event. The loop is sequential, so nothing is skipped.
OldestDue(k) ==
    /\ inbox[k].status = "DUE"
    /\ \A j \in Keys : inbox[j].status = "DUE" /\ j # k => Earlier(k, j)

Supplied == binding.brand # NONE /\ policy[binding.brand]

Settle(k, status, brand) ==
    /\ inbox' = [inbox EXCEPT ![k].status = status, ![k].into = brand]
    /\ UNCHANGED <<bridgeVars, ownerVars, edits>>

\* No binding or no policy in force: defer_aether_event_projection.
DeferEvent(k) ==
    /\ OldestDue(k)
    /\ ~Supplied
    /\ Settle(k, "DEFERRED", NONE)
    /\ waited' = waited \cup {k}
    /\ UNCHANGED registryVars

\* The sender's business key is not the one the owner confirmed.
RefuseEvent(k) ==
    /\ OldestDue(k)
    /\ Supplied
    /\ ~binding.agrees
    /\ Settle(k, "REFUSED", NONE)
    /\ UNCHANGED <<registryVars, waited>>

\* Broken: an event that throws is left where it is.
FaultStays(k) ==
    /\ OldestDue(k)
    /\ Supplied /\ binding.agrees
    /\ k \in Poison
    /\ Settle(k, "DUE", NONE)
    /\ UNCHANGED <<registryVars, waited>>

\* Broken: the fault becomes a mark of its own, which nothing reads.
FaultMarked(k) ==
    /\ OldestDue(k)
    /\ Supplied /\ binding.agrees
    /\ k \in Poison
    /\ Settle(k, "FAULTED", NONE)
    /\ UNCHANGED <<registryVars, waited>>

\* An unexpected fault: the transaction rolls back and deferFault backs it off.
FaultEvent(k) ==
    /\ OldestDue(k)
    /\ Supplied /\ binding.agrees
    /\ k \in Poison
    /\ Settle(k, "DEFERRED", NONE)
    /\ UNCHANGED <<registryVars, waited>>

\* Broken: a version that is there is written over.
DraftOver(k) ==
    LET item == <<binding.brand, k[1]>> IN
    /\ OldestDue(k)
    /\ Supplied /\ binding.agrees
    /\ k \notin Poison
    /\ title' = [title EXCEPT ![item] = k[2]]
    /\ content' = [content EXCEPT ![item][k[2]] = "AETHER"]
    /\ Settle(k, "PROJECTED", binding.brand)
    /\ UNCHANGED waited

\* Broken: the mark is left to a transaction of its own.
DraftUnmarked(k) ==
    LET item == <<binding.brand, k[1]>> IN
    /\ OldestDue(k)
    /\ Supplied /\ binding.agrees
    /\ k \notin Poison
    /\ title' = [title EXCEPT ![item] = k[2]]
    /\ content' = [content EXCEPT ![item][k[2]] = IF @ = "NOBODY" THEN "AETHER" ELSE @]
    /\ Settle(k, "DUE", NONE)
    /\ UNCHANGED waited

\* Broken: an item that is there is taken for its newest version.
DraftFirstOnly(k) ==
    LET item == <<binding.brand, k[1]>> IN
    /\ OldestDue(k)
    /\ Supplied /\ binding.agrees
    /\ k \notin Poison
    /\ title' = [title EXCEPT ![item] = k[2]]
    /\ content' = [content EXCEPT ![item][k[2]] = IF title[item] = 0 THEN "AETHER" ELSE @]
    /\ Settle(k, "PROJECTED", binding.brand)
    /\ UNCHANGED waited

\* createDraftVersion and the mark: the item's title is always the event's,
\* the version is created unless the item has one of that number.
DraftEvent(k) ==
    LET item == <<binding.brand, k[1]>> IN
    /\ OldestDue(k)
    /\ Supplied /\ binding.agrees
    /\ k \notin Poison
    /\ title' = [title EXCEPT ![item] = k[2]]
    /\ content' = [content EXCEPT ![item][k[2]] = IF @ = "NOBODY" THEN "AETHER" ELSE @]
    /\ Settle(k, "PROJECTED", binding.brand)
    /\ UNCHANGED waited

\* projection_next_attempt_at passes.
ComesDue(k) ==
    /\ inbox[k].status = "DEFERRED"
    /\ inbox' = [inbox EXCEPT ![k].status = "DUE"]
    /\ UNCHANGED <<bridgeVars, ownerVars, registryVars, edits, waited>>

-----------------------------------------------------------------------------
(* The control room *)

Change ==
    /\ changes < MaxChanges
    /\ changes' = changes + 1
    /\ UNCHANGED <<bridgeVars, inbox, registryVars, edits, waited>>

\* confirm_growth_binding; the owner may type a key the sender does not use.
ConfirmBinding(b) ==
    /\ Change
    /\ binding.brand = NONE
    /\ \E agrees \in BOOLEAN : binding' = [brand |-> b, agrees |-> agrees]
    /\ UNCHANGED policy

\* revoke_growth_binding
RevokeBinding ==
    /\ Change
    /\ binding.brand # NONE
    /\ binding' = [brand |-> NONE, agrees |-> TRUE]
    /\ UNCHANGED policy

\* A content policy is activated, or the active one withdrawn.
ChangePolicy(b) ==
    /\ Change
    /\ policy' = [policy EXCEPT ![b] = ~@]
    /\ UNCHANGED binding

\* addReviewEvidenceFn and createContentVersionFn: one more version than the
\* latest of an item there is.
AddVersion(b, m) ==
    LET written == {n \in ContentVersions : content[<<b, m>>][n] # "NOBODY"} IN
    /\ edits < MaxEdits
    /\ edits' = edits + 1
    /\ \E n \in written :
        /\ \A o \in written : o <= n
        /\ n + 1 \in ContentVersions
        /\ content' = [content EXCEPT ![<<b, m>>][n + 1] = "PERSON"]
    /\ UNCHANGED <<bridgeVars, inbox, ownerVars, title, waited>>

-----------------------------------------------------------------------------
Receiver ==
    \/ \E e \in Envelopes : AnswerKnown(e) \/ AnswerStale(e)
    \/ \E r \in Receivers : FinishRecord(r) \/ \E e \in Envelopes : StartRecord(r, e)

Project(k) == DeferEvent(k) \/ RefuseEvent(k) \/ FaultEvent(k) \/ DraftEvent(k)

Owner ==
    \/ RevokeBinding
    \/ \E b \in Brands :
        \/ ConfirmBinding(b) \/ ChangePolicy(b)
        \/ \E m \in Materials : AddVersion(b, m)

Next ==
    \/ \E e \in Envelopes : Send(e)
    \/ Receiver
    \/ \E k \in Keys : Project(k) \/ ComesDue(k)
    \/ Owner

Spec == Init /\ [][Next]_vars

(***************************************************************************)
(* The loop takes the next due event without pausing, and a back-off lasts *)
(* at least thirty seconds: an event that is the oldest due one again and  *)
(* again is taken, although others come due in between.                    *)
(***************************************************************************)
FairSpec ==
    /\ Spec
    /\ \A k \in Keys : SF_vars(Project(k)) /\ WF_vars(ComesDue(k))

-----------------------------------------------------------------------------
(* Properties *)

\* What the sender was told is true and stays true: recorded or repeated
\* content is what the inbox holds, a stale version has a newer one there, and
\* a conflict another content (record_aether_event under two requests at once).
AnswersHold ==
    \A t \in answers :
        LET e == t[1]
            row == inbox[KeyOf(e)]
        IN  CASE t[2] \in {"recorded", "duplicate"} -> Recorded(KeyOf(e)) /\ row.body = e.body
              [] t[2] = "conflict" -> Recorded(KeyOf(e)) /\ row.body # e.body
              [] t[2] = "stale" -> Overtaken(e)

\* Every draft in the registry is the projection of one recorded event, into
\* the brand it was bound to then, and of no other brand (claim, resolve, write
\* and mark in one transaction).
DraftsAreProjections ==
    \A b \in Brands, k \in Keys :
        content[<<b, k[1]>>][k[2]] = "AETHER" =>
            inbox[k].status = "PROJECTED" /\ inbox[k].into = b

\* What approvals and releases refer to does not move: no projection and no
\* person changes or removes a content version that is written.
VersionsStay ==
    [][\A b \in Brands, m \in Materials, n \in ContentVersions :
        content[<<b, m>>][n] # "NOBODY" => content'[<<b, m>>][n] = content[<<b, m>>][n]]_vars

\* An event that was projected is the version of its item it became
\* (createDraftVersion: "one event version is one content version").
EventIsItsVersion ==
    \A k \in Keys :
        inbox[k].status = "PROJECTED" =>
            content[<<inbox[k].into, k[1]>>][k[2]] = "AETHER"

\* The item an event was projected into has a version of the event's number: the
\* event's own, or one that a person had added before (createDraftVersion writes
\* none where there is one), whatever was bound, edited or deferred in between.
EventHasItsVersion ==
    \A k \in Keys :
        inbox[k].status = "PROJECTED" =>
            content[<<inbox[k].into, k[1]>>][k[2]] \in {"AETHER", "PERSON"}

\* The title of an item is the one of its newest draft, in whatever order its
\* events came (isStale: "reordered events reach the same end state").
TitleIsNewest ==
    \A b \in Brands, m \in Materials, n \in Versions :
        content[<<b, m>>][n] = "AETHER" => n <= title[<<b, m>>]

\* It goes back only to an event that itself had to wait for a binding or a
\* policy, or of a material of which two versions were received at a time:
\* repeated and late deliveries, back-offs and changes by the owner alone do not
\* set it back (claim_next_aether_draft_event, oldest first).
TitleIsNewestUndisturbed ==
    \A b \in Brands, m \in Materials \ raced, n \in Versions :
        content[<<b, m>>][n] = "AETHER" =>
            n <= title[<<b, m>>] \/ <<m, title[<<b, m>>]>> \in waited

\* An event is recorded only when no newer version of its material is
\* (record_aether_event, the check that answers stale).
InboxGoesForward ==
    [][\A k \in Keys :
        ~Recorded(k) /\ Recorded(k)' =>
            \A v \in Versions : v > k[2] => ~Recorded(<<k[1], v>>)]_vars

\* So it is as long as no two versions of the material are received at a time,
\* however many requests there are for one version and for other materials.
UnracedGoesForward ==
    [][\A k \in Keys :
        k[1] \notin raced /\ ~Recorded(k) /\ Recorded(k)' =>
            \A v \in Versions : v > k[2] => ~Recorded(<<k[1], v>>)]_vars

\* Once the owner has supplied a binding and a policy, and unless he mistyped
\* the key, every recorded event that can be projected is, although one before
\* it always throws and although it came before there was a binding (deferral:
\* "a project bound tomorrow, or a policy written tomorrow, must still receive the drafts that arrived today").
DraftsGetThrough ==
    <>[]Supplied /\ []binding.agrees =>
        \A k \in Keys \ Poison : Recorded(k) ~> inbox[k].status = "PROJECTED"
=============================================================================
