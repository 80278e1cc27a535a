------------------------- MODULE AetherInbox_proofs -------------------------
(***************************************************************************)
(* Proofs about AetherInbox, for any number of materials, versions,        *)
(* receivers and changes: its types, that what the receiver told the       *)
(* sender holds, that the registry's drafts are projections of recorded    *)
(* events, and that a version once written stays as it is.  The inbox goes *)
(* forward, and an item has the title of its newest draft, but for the     *)
(* materials that raced and the events that waited.                        *)
(***************************************************************************)
EXTENDS AetherInbox, TLAPS

-----------------------------------------------------------------------------
(* Types *)

LEMMA InitTypeOK == Init => TypeOK
  <1> SUFFICES ASSUME Init PROVE TypeOK
    OBVIOUS
  <1> USE InboxAssumption DEF InboxAssumption, Init
  <1>1. binding \in [brand : Brands \cup {NONE}, agrees : BOOLEAN]
    OBVIOUS
  <1>2. content \in [Brands \X Materials -> [ContentVersions -> Authors]]
    BY DEF Authors
  <1>3. inbox \in [Keys -> [status : RowStatus, body : Bodies \cup {NONE}, at : Nat,
                          into : Brands \cup {NONE}]]
    BY DEF RowStatus
  <1>4. /\ serving \in [Receivers -> [env : Envelopes \cup {NONE}, at : Nat]]
        /\ title \in [Brands \X Materials -> 0..MaxVersion]
        /\ edits \in 0..MaxEdits /\ changes \in 0..MaxChanges
        /\ raced \subseteq Materials /\ waited \subseteq Keys
    OBVIOUS
  <1>5. QED
    BY <1>1, <1>2, <1>3, <1>4 DEF TypeOK

LEMMA ReceiverTypeOK ==
    ASSUME TypeOK, NEW e \in Envelopes,
           Send(e) \/ AnswerKnown(e) \/ AnswerStale(e)
    PROVE  TypeOK'
  BY DEF TypeOK, Send, AnswerKnown, AnswerStale, Tell, Answers, ownerVars, registryVars

LEMMA RecordTypeOK ==
    ASSUME TypeOK, NEW r \in Receivers,
           FinishRecord(r) \/ \E e \in Envelopes : StartRecord(r, e)
    PROVE  TypeOK'
  <1> USE DEF TypeOK, ownerVars, registryVars
  <1>1. CASE \E e \in Envelopes : StartRecord(r, e)
    BY <1>1 DEF StartRecord, Envelopes
  <1>2. CASE FinishRecord(r)
    <2> DEFINE e == serving[r].env
    <2>1. e \in Envelopes /\ e.body \in Bodies /\ KeyOf(e) \in Keys
      BY <1>2 DEF FinishRecord, KeyOf, Keys, Envelopes
    <2>2. inbox' \in [Keys -> [status : RowStatus, body : Bodies \cup {NONE}, at : Nat,
                               into : Brands \cup {NONE}]]
      BY <1>2, <2>1 DEF FinishRecord, RowStatus
    <2>3. answers' \subseteq (Envelopes \X Answers)
      BY <1>2, <2>1 DEF FinishRecord, Answers
    <2>4. QED
      BY <1>2, <2>2, <2>3 DEF FinishRecord
  <1>3. QED
    BY <1>1, <1>2

\* What settling does: one row changes, in its status and what became of it.
LEMMA SettleRow ==
    ASSUME TypeOK, NEW k \in Keys, NEW s \in RowStatus, NEW b \in Brands \cup {NONE},
           Settle(k, s, b)
    PROVE  /\ inbox' \in [Keys -> [status : RowStatus, body : Bodies \cup {NONE}, at : Nat,
                                  into : Brands \cup {NONE}]]
           /\ inbox'[k].status = s /\ inbox'[k].into = b
           /\ inbox'[k].body = inbox[k].body /\ inbox'[k].at = inbox[k].at
           /\ \A j \in Keys \ {k} : inbox'[j] = inbox[j]
  <1> DEFINE row == [[inbox[k] EXCEPT !.status = s] EXCEPT !.into = b]
  <1>1. inbox' = [inbox EXCEPT ![k] = row]
    BY DEF Settle, TypeOK
  <1>2. inbox[k] \in [status : RowStatus, body : Bodies \cup {NONE}, at : Nat,
                     into : Brands \cup {NONE}]
    BY DEF TypeOK
  <1>3. /\ row \in [status : RowStatus, body : Bodies \cup {NONE}, at : Nat,
                    into : Brands \cup {NONE}]
        /\ row.status = s /\ row.into = b
        /\ row.body = inbox[k].body /\ row.at = inbox[k].at
    BY <1>2
  <1> HIDE DEF row
  <1>4. QED
    BY <1>1, <1>3 DEF TypeOK

\* The step of the projection worker, as one settling of one due row.
LEMMA ProjectSettles ==
    ASSUME NEW k \in Keys, Project(k)
    PROVE  /\ inbox[k].status = "DUE"
           /\ \/ DraftEvent(k) /\ Settle(k, "PROJECTED", binding.brand)
              \/ /\ \E s \in {"DEFERRED", "REFUSED"} : Settle(k, s, NONE)
                 /\ UNCHANGED registryVars
  BY DEF Project, DeferEvent, RefuseEvent, FaultEvent, DraftEvent, OldestDue

LEMMA ProjectTypeOK ==
    ASSUME TypeOK, NEW k \in Keys, Project(k) \/ ComesDue(k)
    PROVE  TypeOK'
  <1> USE InboxAssumption DEF InboxAssumption
  <1>1. CASE Project(k) /\ UNCHANGED registryVars
    <2>0. binding.brand \in Brands \cup {NONE}
      BY DEF TypeOK
    <2>1. PICK s \in RowStatus, b \in Brands \cup {NONE} : Settle(k, s, b)
      BY <1>1, <2>0, ProjectSettles DEF RowStatus
    <2>2. waited' \subseteq Keys
      BY <1>1 DEF TypeOK, Project, DeferEvent, RefuseEvent, FaultEvent, DraftEvent
    <2>3. QED
      BY <1>1, <2>1, <2>2, SettleRow DEF TypeOK, Settle, bridgeVars, ownerVars, registryVars
  <1>2. CASE DraftEvent(k)
    <2>1. /\ binding.brand \in Brands
          /\ k[1] \in Materials
          /\ k[2] \in 1..MaxVersion
          /\ k[2] \in ContentVersions
      BY <1>2 DEF DraftEvent, Supplied, Keys, Versions, ContentVersions, TypeOK
    <2>2. title' \in [Brands \X Materials -> 0..MaxVersion]
      BY <1>2, <2>1 DEF DraftEvent, TypeOK
    <2>3. content' \in [Brands \X Materials -> [ContentVersions -> Authors]]
      BY <1>2, <2>1 DEF DraftEvent, Authors, TypeOK
    <2>4. Settle(k, "PROJECTED", binding.brand)
      BY <1>2 DEF DraftEvent
    <2>5. UNCHANGED waited
      BY <1>2 DEF DraftEvent
    <2>6. QED
      BY <2>1, <2>2, <2>3, <2>4, <2>5, SettleRow
      DEF TypeOK, Settle, RowStatus, bridgeVars, ownerVars
  <1>3. CASE ComesDue(k)
    BY <1>3 DEF ComesDue, TypeOK, RowStatus, bridgeVars, ownerVars, registryVars
  <1>4. QED
    BY <1>1, <1>2, <1>3, ProjectSettles

LEMMA OwnerTypeOK == ASSUME TypeOK, Owner PROVE TypeOK'
  <1> USE InboxAssumption
      DEF InboxAssumption, TypeOK, bridgeVars, ownerVars, registryVars
  <1>1. CASE RevokeBinding
    BY <1>1 DEF RevokeBinding, Change
  <1>2. ASSUME NEW b \in Brands, ConfirmBinding(b) PROVE TypeOK'
    BY <1>2 DEF ConfirmBinding, Change
  <1>3. ASSUME NEW b \in Brands, ChangePolicy(b) PROVE TypeOK'
    BY <1>3 DEF ChangePolicy, Change
  <1>4. ASSUME NEW b \in Brands, NEW m \in Materials, AddVersion(b, m) PROVE TypeOK'
    BY <1>4 DEF AddVersion, Authors
  <1>5. QED
    BY <1>1, <1>2, <1>3, <1>4 DEF Owner

LEMMA NextTypeOK == TypeOK /\ [Next]_vars => TypeOK'
  <1> SUFFICES ASSUME TypeOK, [Next]_vars PROVE TypeOK'
    OBVIOUS
  <1>1. CASE UNCHANGED vars
    BY <1>1 DEF TypeOK, vars, bridgeVars, ownerVars, registryVars
  <1>2. CASE Next
    BY <1>2, ReceiverTypeOK, RecordTypeOK, ProjectTypeOK, OwnerTypeOK DEF Next, Receiver
  <1>3. QED
    BY <1>1, <1>2

\* Every variable keeps its type, whoever acts.
THEOREM TypeCorrectness == Spec => []TypeOK
  BY InitTypeOK, NextTypeOK, PTL DEF Spec

-----------------------------------------------------------------------------
(* The inbox only grows *)

\* A recorded row stays and keeps its body; a projected one keeps what became of it.
LEMMA RowsStay ==
    ASSUME TypeOK, [Next]_vars, NEW k \in Keys, Recorded(k)
    PROVE  /\ Recorded(k)'
           /\ inbox'[k].body = inbox[k].body
           /\ inbox[k].status = "PROJECTED" =>
                inbox'[k].status = "PROJECTED" /\ inbox'[k].into = inbox[k].into
  <1> DEFINE Goal == /\ Recorded(k)'
                     /\ inbox'[k].body = inbox[k].body
                     /\ inbox[k].status = "PROJECTED" =>
                          inbox'[k].status = "PROJECTED" /\ inbox'[k].into = inbox[k].into
  <1>1. CASE UNCHANGED inbox
    BY <1>1 DEF Recorded
  <1>2. ASSUME NEW r \in Receivers, FinishRecord(r) PROVE Goal
    <2>1. KeyOf(serving[r].env) \in Keys
      BY <1>2 DEF FinishRecord, TypeOK, KeyOf, Keys, Envelopes
    <2>2. QED
      BY <1>2, <2>1 DEF FinishRecord, TypeOK, Recorded
  <1>3. ASSUME NEW j \in Keys, Project(j) \/ ComesDue(j) PROVE Goal
    <2>1. CASE Project(j)
      <3>1. PICK s \in RowStatus \ {"ABSENT"}, b \in Brands \cup {NONE} : Settle(j, s, b)
        BY <2>1, ProjectSettles DEF RowStatus, TypeOK
      <3>2. inbox[j].status = "DUE"
        BY <2>1, ProjectSettles
      <3>3. QED
        BY <3>1, <3>2, SettleRow DEF Recorded
    <2>2. CASE ComesDue(j)
      BY <2>2 DEF ComesDue, TypeOK, Recorded
    <2>3. QED
      BY <1>3, <2>1, <2>2
  <1>4. CASE Owner
    <2>1. UNCHANGED inbox
      BY <1>4 DEF Owner, RevokeBinding, ConfirmBinding, ChangePolicy, AddVersion, Change
    <2>2. QED
      BY <2>1, <1>1
  <1>5. CASE \/ UNCHANGED vars
             \/ \E e \in Envelopes : Send(e) \/ AnswerKnown(e) \/ AnswerStale(e)
             \/ \E r \in Receivers, e \in Envelopes : StartRecord(r, e)
    <2>1. UNCHANGED inbox
      BY <1>5 DEF vars, Send, AnswerKnown, AnswerStale, Tell, StartRecord
    <2>2. QED
      BY <2>1, <1>1
  <1>6. QED
    BY <1>2, <1>3, <1>4, <1>5 DEF Next, Receiver

-----------------------------------------------------------------------------
(* What the sender is told *)

\* One answer, as AnswersHold requires it.
Holds(e, a) ==
    LET row == inbox[KeyOf(e)]
    IN  CASE a \in {"recorded", "duplicate"} -> Recorded(KeyOf(e)) /\ row.body = e.body
          [] a = "conflict" -> Recorded(KeyOf(e)) /\ row.body # e.body
          [] a = "stale" -> Overtaken(e)

LEMMA AnswersAreHolds == AnswersHold <=> \A t \in answers : Holds(t[1], t[2])
  BY DEF AnswersHold, Holds

LEMMA AnswerStays ==
    ASSUME TypeOK, [Next]_vars, NEW e \in Envelopes, NEW a \in Answers, Holds(e, a)
    PROVE  Holds(e, a)'
  <1>1. KeyOf(e) \in Keys /\ e.material \in Materials
    BY DEF KeyOf, Keys, Envelopes
  <1>2. CASE a = "stale"
    <2>1. PICK v \in Versions : v > e.version /\ Recorded(<<e.material, v>>)
      BY <1>2 DEF Holds, Overtaken
    <2>2. <<e.material, v>> \in Keys
      BY <1>1 DEF Keys
    <2>3. Recorded(<<e.material, v>>)'
      BY <2>1, <2>2, RowsStay
    <2>4. QED
      BY <1>2, <2>1, <2>3 DEF Holds, Overtaken
  <1>3. CASE a # "stale"
    <2>1. Recorded(KeyOf(e))
      BY <1>3 DEF Holds, Answers
    <2>2. Recorded(KeyOf(e))' /\ inbox'[KeyOf(e)].body = inbox[KeyOf(e)].body
      BY <1>1, <2>1, RowsStay
    <2>3. QED
      BY <1>3, <2>2 DEF Holds, Answers
  <1>4. QED
    BY <1>2, <1>3

\* An answer is true when it is given.
LEMMA NewAnswersHold ==
    ASSUME TypeOK, [Next]_vars, NEW t \in answers', t \notin answers
    PROVE  Holds(t[1], t[2])'
  <1>1. ASSUME NEW e \in Envelopes, AnswerKnown(e) PROVE Holds(t[1], t[2])'
    <2>1. t = <<e, IF inbox[KeyOf(e)].body = e.body THEN "duplicate" ELSE "conflict">>
      BY <1>1 DEF AnswerKnown, Tell
    <2>2. Recorded(KeyOf(e)) /\ inbox' = inbox
      BY <1>1 DEF AnswerKnown, Tell
    <2>3. QED
      BY <2>1, <2>2 DEF Holds, Recorded
  <1>2. ASSUME NEW e \in Envelopes, AnswerStale(e) PROVE Holds(t[1], t[2])'
    <2>1. t = <<e, "stale">> /\ Overtaken(e) /\ inbox' = inbox
      BY <1>2 DEF AnswerStale, Tell
    <2>2. QED
      BY <2>1 DEF Holds, Overtaken, Recorded
  <1>3. ASSUME NEW r \in Receivers, FinishRecord(r) PROVE Holds(t[1], t[2])'
    <2> DEFINE e == serving[r].env
    <2>1. KeyOf(e) \in Keys
      BY <1>3 DEF FinishRecord, TypeOK, KeyOf, Keys, Envelopes
    <2>2. t = <<e, "recorded">>
      BY <1>3 DEF FinishRecord
    <2>3. inbox'[KeyOf(e)] =
            [status |-> "DUE", body |-> e.body, at |-> serving[r].at, into |-> NONE]
      BY <1>3, <2>1 DEF FinishRecord, TypeOK
    <2>4. QED
      BY <2>2, <2>3 DEF Holds, Recorded
  <1>4. ASSUME UNCHANGED answers PROVE FALSE
    BY <1>4
  <1>5. CASE UNCHANGED vars
    BY <1>5, <1>4 DEF vars, bridgeVars
  <1>6. CASE Owner
    BY <1>6, <1>4
    DEF Owner, RevokeBinding, ConfirmBinding, ChangePolicy, AddVersion, Change, bridgeVars
  <1>7. CASE \/ \E e \in Envelopes : Send(e)
             \/ \E r \in Receivers, e \in Envelopes : StartRecord(r, e)
    BY <1>7, <1>4 DEF Send, StartRecord
  <1>8. CASE \E k \in Keys : Project(k) \/ ComesDue(k)
    BY <1>8, <1>4
    DEF Project, DeferEvent, RefuseEvent, FaultEvent, DraftEvent, ComesDue, Settle, bridgeVars
  <1>9. QED
    BY <1>1, <1>2, <1>3, <1>5, <1>6, <1>7, <1>8 DEF Next, Receiver

LEMMA NextAnswersHold == TypeOK /\ AnswersHold /\ [Next]_vars => AnswersHold'
  <1> SUFFICES ASSUME TypeOK, AnswersHold, [Next]_vars, NEW t \in answers'
               PROVE  Holds(t[1], t[2])'
    BY DEF AnswersHold, Holds
  <1>1. CASE t \in answers
    <2>1. t[1] \in Envelopes /\ t[2] \in Answers
      BY <1>1 DEF TypeOK
    <2>2. Holds(t[1], t[2])
      BY <1>1, AnswersAreHolds
    <2>3. QED
      BY <2>1, <2>2, AnswerStays
  <1>2. CASE t \notin answers
    BY <1>2, NewAnswersHold
  <1>3. QED
    BY <1>1, <1>2

\* Every answer the receiver gave is true and stays true, for any number of
\* requests at once and however the bridge reorders and repeats.
THEOREM AnswersAreTrue == Spec => []AnswersHold
  <1>1. Init => AnswersHold
    BY DEF Init, AnswersHold
  <1>2. QED
    BY <1>1, NextAnswersHold, TypeCorrectness, PTL DEF Spec

-----------------------------------------------------------------------------
(* The registry *)

\* A version changes by being written, by a person or by the projection of the
\* event of that version.
LEMMA VersionWritten ==
    ASSUME TypeOK, [Next]_vars, NEW b \in Brands, NEW m \in Materials,
           NEW n \in ContentVersions, content'[<<b, m>>][n] # content[<<b, m>>][n]
    PROVE  /\ content[<<b, m>>][n] = "NOBODY"
           /\ \/ content'[<<b, m>>][n] = "PERSON"
              \/ \E k \in Keys : DraftEvent(k) /\ binding.brand = b /\ k = <<m, n>>
  <1> DEFINE Goal == /\ content[<<b, m>>][n] = "NOBODY"
                     /\ \/ content'[<<b, m>>][n] = "PERSON"
                        \/ \E k \in Keys : DraftEvent(k) /\ binding.brand = b /\ k = <<m, n>>
  <1>1. ASSUME NEW k \in Keys, DraftEvent(k) PROVE Goal
    <2>1. binding.brand \in Brands /\ k[1] \in Materials /\ k = <<k[1], k[2]>>
      BY <1>1 DEF DraftEvent, Supplied, TypeOK, Keys
    <2>2. content' = [content EXCEPT ![<<binding.brand, k[1]>>][k[2]] =
                        IF @ = "NOBODY" THEN "AETHER" ELSE @]
      BY <1>1 DEF DraftEvent
    <2>3. binding.brand = b /\ k[1] = m
      BY <2>1, <2>2 DEF TypeOK
    <2>4. k[2] = n /\ content[<<b, m>>][n] = "NOBODY"
      BY <2>1, <2>2, <2>3 DEF TypeOK
    <2>5. QED
      BY <1>1, <2>1, <2>3, <2>4
  <1>2. ASSUME NEW c \in Brands, NEW l \in Materials, AddVersion(c, l) PROVE Goal
    <2> DEFINE written == {o \in ContentVersions : content[<<c, l>>][o] # "NOBODY"}
    <2>1. PICK o \in written :
            /\ \A q \in written : q <= o
            /\ o + 1 \in ContentVersions
            /\ content' = [content EXCEPT ![<<c, l>>][o + 1] = "PERSON"]
      BY <1>2 DEF AddVersion
    <2>2. <<c, l>> = <<b, m>> /\ n = o + 1
      BY <2>1 DEF TypeOK
    <2>3. n \notin written
      BY <2>1, <2>2, InboxAssumption DEF InboxAssumption, ContentVersions
    <2>4. QED
      BY <2>1, <2>2, <2>3 DEF TypeOK
  <1>3. ASSUME UNCHANGED content PROVE FALSE
    BY <1>3
  <1>4. ASSUME NEW k \in Keys, Project(k), ~DraftEvent(k) PROVE FALSE
    BY <1>4, <1>3, ProjectSettles DEF registryVars
  <1>5. CASE UNCHANGED vars \/ Receiver \/ \E e \in Envelopes : Send(e)
    BY <1>5, <1>3
    DEF vars, Receiver, Send, AnswerKnown, AnswerStale, StartRecord, FinishRecord, Tell, registryVars
  <1>6. CASE \/ \E k \in Keys : ComesDue(k)
             \/ RevokeBinding
             \/ \E c \in Brands : ConfirmBinding(c) \/ ChangePolicy(c)
    BY <1>6, <1>3
    DEF ComesDue, RevokeBinding, ConfirmBinding, ChangePolicy, Change, registryVars
  <1>7. QED
    BY <1>1, <1>2, <1>4, <1>5, <1>6 DEF Next, Owner

LEMMA NextDrafts == TypeOK /\ DraftsAreProjections /\ [Next]_vars => DraftsAreProjections'
  <1> SUFFICES ASSUME TypeOK, DraftsAreProjections, [Next]_vars,
                      NEW b \in Brands, NEW k \in Keys,
                      content'[<<b, k[1]>>][k[2]] = "AETHER"
               PROVE  inbox'[k].status = "PROJECTED" /\ inbox'[k].into = b
    BY DEF DraftsAreProjections
  <1>1. k[1] \in Materials /\ k[2] \in ContentVersions /\ k = <<k[1], k[2]>>
    BY InboxAssumption DEF InboxAssumption, Keys, Versions, ContentVersions
  <1>2. CASE content[<<b, k[1]>>][k[2]] = "AETHER"
    <2>1. inbox[k].status = "PROJECTED" /\ inbox[k].into = b
      BY <1>2 DEF DraftsAreProjections
    <2>2. QED
      BY <2>1, RowsStay DEF Recorded
  <1>3. CASE content[<<b, k[1]>>][k[2]] # "AETHER"
    <2>1. DraftEvent(k) /\ binding.brand = b
      BY <1>1, <1>3, VersionWritten
    <2>2. Settle(k, "PROJECTED", b)
      BY <2>1 DEF DraftEvent
    <2>3. QED
      BY <2>2, SettleRow DEF RowStatus
  <1>4. QED
    BY <1>2, <1>3

\* Every draft in the registry is the projection of one recorded event into the
\* brand it was bound to at that moment, whatever was bound before and after.
THEOREM DraftsComeFromEvents == Spec => []DraftsAreProjections
  <1>1. Init => DraftsAreProjections
    <2> SUFFICES ASSUME Init, NEW b \in Brands, NEW k \in Keys
                 PROVE  content[<<b, k[1]>>][k[2]] # "AETHER"
      BY DEF DraftsAreProjections
    <2>1. k[1] \in Materials /\ k[2] \in ContentVersions
      BY InboxAssumption DEF InboxAssumption, Keys, Versions, ContentVersions
    <2>2. QED
      BY <2>1 DEF Init
  <1>2. QED
    BY <1>1, NextDrafts, TypeCorrectness, PTL DEF Spec

\* No step of a projection or a person changes a version that is written.
THEOREM VersionsAreFixed == Spec => VersionsStay
  <1>1. TypeOK /\ [Next]_vars =>
          [\A b \in Brands, m \in Materials, n \in ContentVersions :
            content[<<b, m>>][n] # "NOBODY" =>
              content'[<<b, m>>][n] = content[<<b, m>>][n]]_vars
    BY VersionWritten
  <1>2. QED
    BY <1>1, TypeCorrectness, PTL DEF Spec, VersionsStay

-----------------------------------------------------------------------------
(* Order *)

\* The histories only grow, and know who waits.
LEMMA HistoryGrows ==
    ASSUME [Next]_vars
    PROVE  /\ raced \subseteq raced' /\ waited \subseteq waited'
           /\ \A k \in Keys : DeferEvent(k) => k \in waited'
  <1>1. raced \subseteq raced'
    BY DEF Next, vars, bridgeVars, Send, Receiver, AnswerKnown, AnswerStale, Tell, StartRecord,
           FinishRecord, Project, DeferEvent, RefuseEvent, FaultEvent, DraftEvent, Settle, ComesDue,
           Owner, RevokeBinding, ConfirmBinding, ChangePolicy, AddVersion, Change
  <1>2. waited \subseteq waited'
    BY DEF Next, vars, Send, Receiver, AnswerKnown, AnswerStale, Tell, StartRecord,
           FinishRecord, Project, DeferEvent, RefuseEvent, FaultEvent, DraftEvent, ComesDue,
           Owner, RevokeBinding, ConfirmBinding, ChangePolicy, AddVersion, Change
  <1>3. QED
    BY <1>1, <1>2 DEF DeferEvent

\* A step keeps the rows there are, with the time they were received; a new one
\* is due, and is the request that was being served.
LEMMA RowsArrive ==
    ASSUME TypeOK, [Next]_vars, NEW k \in Keys
    PROVE  /\ Recorded(k) => Recorded(k)' /\ inbox'[k].at = inbox[k].at
           /\ ~Recorded(k) /\ Recorded(k)' =>
                /\ inbox'[k].status = "DUE"
                /\ \E r \in Receivers : /\ FinishRecord(r)
                                        /\ k = KeyOf(serving[r].env)
                                        /\ inbox'[k].at = serving[r].at
  <1> DEFINE Goal ==
        /\ Recorded(k) => Recorded(k)' /\ inbox'[k].at = inbox[k].at
        /\ ~Recorded(k) /\ Recorded(k)' =>
             /\ inbox'[k].status = "DUE"
             /\ \E r \in Receivers : /\ FinishRecord(r)
                                     /\ k = KeyOf(serving[r].env)
                                     /\ inbox'[k].at = serving[r].at
  <1>1. ASSUME UNCHANGED inbox PROVE Goal
    BY <1>1 DEF Recorded
  <1>2. ASSUME NEW r \in Receivers, FinishRecord(r) PROVE Goal
    <2>1. KeyOf(serving[r].env) \in Keys
      BY <1>2 DEF FinishRecord, TypeOK, KeyOf, Keys, Envelopes
    <2>2. CASE Recorded(KeyOf(serving[r].env))
      BY <1>1, <1>2, <2>2 DEF FinishRecord
    <2>3. CASE ~Recorded(KeyOf(serving[r].env))
      <3>1. inbox' = [inbox EXCEPT ![KeyOf(serving[r].env)] =
                [status |-> "DUE", body |-> serving[r].env.body, at |-> serving[r].at,
                 into |-> NONE]]
        BY <1>2, <2>3 DEF FinishRecord
      <3>2. CASE k = KeyOf(serving[r].env)
        BY <1>2, <2>1, <2>3, <3>1, <3>2 DEF TypeOK
      <3>3. CASE k # KeyOf(serving[r].env)
        BY <2>1, <3>1, <3>3 DEF TypeOK, Recorded
      <3>4. QED
        BY <3>2, <3>3
    <2>4. QED
      BY <2>2, <2>3
  <1>3. ASSUME NEW j \in Keys, Project(j) PROVE Goal
    <2>1. PICK s \in RowStatus \ {"ABSENT"}, b \in Brands \cup {NONE} : Settle(j, s, b)
      BY <1>3, ProjectSettles DEF RowStatus, TypeOK
    <2>2. inbox[j].status = "DUE"
      BY <1>3, ProjectSettles
    <2>3. QED
      BY <2>1, <2>2, SettleRow DEF Recorded
  <1>4. ASSUME NEW j \in Keys, ComesDue(j) PROVE Goal
    BY <1>4 DEF ComesDue, TypeOK, Recorded
  <1>5. CASE Owner
    <2>1. UNCHANGED inbox
      BY <1>5 DEF Owner, RevokeBinding, ConfirmBinding, ChangePolicy, AddVersion, Change
    <2>2. QED
      BY <2>1, <1>1
  <1>6. CASE \/ UNCHANGED vars
             \/ \E e \in Envelopes : Send(e) \/ AnswerKnown(e) \/ AnswerStale(e)
             \/ \E r \in Receivers, e \in Envelopes : StartRecord(r, e)
    <2>1. UNCHANGED inbox
      BY <1>6 DEF vars, Send, AnswerKnown, AnswerStale, Tell, StartRecord
    <2>2. QED
      BY <2>1, <1>1
  <1>7. QED
    BY <1>2, <1>3, <1>4, <1>5, <1>6 DEF Next, Receiver

\* Another request is served for the material at a time with another version.
ServedApart ==
    \A r, s \in Receivers :
        /\ serving[r].env # NONE /\ serving[s].env # NONE
        /\ serving[r].env.material = serving[s].env.material
        /\ serving[r].env.material \notin raced
        => serving[r].env.version = serving[s].env.version

\* No newer version is there, and the older ones are older than the request.
IsNext(r) ==
    /\ ~Overtaken(serving[r].env)
    /\ \A k \in Keys :
          k[1] = serving[r].env.material /\ k[2] < serving[r].env.version /\ Recorded(k) =>
              inbox[k].at < serving[r].at

\* Rows are older than the clock; of a material that has not raced, who is being
\* served is next, and the rows are as old as their versions say.
ServedInOrder ==
    /\ \A k \in Keys : Recorded(k) => inbox[k].at < clock
    /\ ServedApart
    /\ \A r \in Receivers :
          serving[r].env # NONE =>
              serving[r].at < clock /\ (serving[r].env.material \notin raced => IsNext(r))
    /\ \A j, k \in Keys :
          j[1] = k[1] /\ j[1] \notin raced /\ j[2] < k[2] /\ Recorded(j) /\ Recorded(k) =>
              inbox[j].at < inbox[k].at

LEMMA FinishOrder ==
    ASSUME TypeOK, ServedInOrder, [Next]_vars, NEW r \in Receivers, FinishRecord(r)
    PROVE  ServedInOrder'
  <1> DEFINE e == serving[r].env
  <1>1. /\ e \in Envelopes /\ KeyOf(e) \in Keys /\ e # NONE /\ KeyOf(e) = <<e.material, e.version>>
        /\ clock' = clock /\ raced' = raced
    BY DEF FinishRecord, TypeOK, KeyOf, Keys, Envelopes
  <1>2. \A s \in Receivers : serving'[s].env # NONE => s # r /\ serving'[s] = serving[s]
    BY DEF FinishRecord, TypeOK
  <1>3. \A k \in Keys : Recorded(k)' =>
          \/ Recorded(k) /\ inbox'[k] = inbox[k]
          \/ ~Recorded(k) /\ k = KeyOf(e) /\ inbox'[k].at = serving[r].at
    <2>1. CASE Recorded(KeyOf(e))
      BY <2>1 DEF FinishRecord, Recorded
    <2>2. CASE ~Recorded(KeyOf(e))
      <3>1. inbox' = [inbox EXCEPT ![KeyOf(e)] =
                [status |-> "DUE", body |-> e.body, at |-> serving[r].at, into |-> NONE]]
        BY <2>2 DEF FinishRecord
      <3>2. \A k \in Keys : k # KeyOf(e) => inbox'[k] = inbox[k]
        BY <1>1, <3>1 DEF TypeOK
      <3>3. inbox'[KeyOf(e)].at = serving[r].at
        BY <1>1, <3>1 DEF TypeOK
      <3>4. QED
        BY <2>2, <3>2, <3>3 DEF Recorded
    <2>3. QED
      BY <2>1, <2>2
  <1>4. /\ serving[r].at < clock
        /\ e.material \notin raced => IsNext(r)
    BY <1>1 DEF ServedInOrder
  <1>5. \A k \in Keys : Recorded(k)' => inbox'[k].at < clock'
    BY <1>1, <1>3, <1>4 DEF ServedInOrder
  <1>6. ServedApart'
    BY <1>1, <1>2 DEF ServedInOrder, ServedApart
  <1>7. ASSUME NEW s \in Receivers, serving'[s].env # NONE, serving'[s].env.material \notin raced'
        PROVE  IsNext(s)'
    <2>0. PICK f \in Envelopes : f = serving[s].env /\ f = serving'[s].env /\ f # NONE
      BY <1>2, <1>7 DEF TypeOK
    <2>1. s # r /\ serving'[s] = serving[s] /\ f # NONE /\ f.material \notin raced /\ IsNext(s)
      BY <1>1, <1>2, <1>7, <2>0 DEF ServedInOrder
    <2>2. f.version \in Versions /\ f.material \in Materials
      BY DEF Envelopes
    <2>3. f.material = e.material => f.version = e.version
      BY <1>1, <2>0, <2>1 DEF ServedInOrder, ServedApart
    <2>4. \A k \in Keys : k[1] = f.material /\ k[2] # f.version /\ Recorded(k)' =>
            Recorded(k) /\ inbox'[k] = inbox[k]
      BY <1>1, <1>3, <2>3
    <2>5. ~Overtaken(f)'
      <3> SUFFICES ASSUME NEW v \in Versions, v > f.version, Recorded(<<f.material, v>>)' PROVE FALSE
        BY <2>1 DEF Overtaken
      <3>1. <<f.material, v>> \in Keys /\ v # f.version
        BY <2>2 DEF Keys, Versions
      <3>2. Recorded(<<f.material, v>>)
        BY <2>4, <3>1
      <3>3. QED
        BY <2>0, <2>1, <3>2 DEF IsNext, Overtaken
    <2>6. \A k \in Keys : k[1] = f.material /\ k[2] < f.version /\ Recorded(k)' =>
            inbox'[k].at < serving[s].at
      <3> SUFFICES ASSUME NEW k \in Keys, k[1] = f.material, k[2] < f.version, Recorded(k)'
                   PROVE  inbox'[k].at < serving[s].at
        OBVIOUS
      <3>1. k[2] # f.version
        BY <2>2 DEF Keys, Versions
      <3>2. QED
        BY <2>0, <2>1, <2>4, <3>1 DEF IsNext
    <2>7. QED
      BY <2>0, <2>1, <2>5, <2>6 DEF IsNext, Overtaken
  <1>8. ASSUME NEW j \in Keys, NEW k \in Keys, j[1] = k[1], j[1] \notin raced',
               j[2] < k[2], Recorded(j)', Recorded(k)'
        PROVE  inbox'[j].at < inbox'[k].at
    <2>1. CASE Recorded(j) /\ Recorded(k)
      BY <1>1, <1>3, <1>8, <2>1 DEF ServedInOrder
    <2>2. CASE Recorded(j) /\ ~Recorded(k)
      <3>1. k = KeyOf(e) /\ inbox'[k].at = serving[r].at /\ inbox'[j] = inbox[j]
        BY <1>3, <1>8, <2>2
      <3>2. j[1] = e.material /\ j[2] < e.version /\ e.material \notin raced
        BY <1>1, <1>8, <3>1
      <3>3. QED
        BY <1>4, <2>2, <3>1, <3>2 DEF IsNext
    <2>3. CASE ~Recorded(j)
      <3>1. j = KeyOf(e) /\ k # j
        BY <1>3, <1>8, <2>3 DEF Keys, Versions
      <3>2. Recorded(k) /\ k[1] = e.material /\ k[2] > e.version /\ e.material \notin raced
        BY <1>1, <1>3, <1>8, <3>1 DEF Keys, Versions
      <3>3. k = <<e.material, k[2]>> /\ k[2] \in Versions
        BY <3>2 DEF Keys
      <3>4. Overtaken(e)
        BY <3>2, <3>3 DEF Overtaken
      <3>5. QED
        BY <1>4, <3>2, <3>4 DEF IsNext
    <2>4. QED
      BY <2>1, <2>2, <2>3
  <1>9. QED
    BY <1>1, <1>2, <1>5, <1>6, <1>7, <1>8 DEF ServedInOrder

LEMMA StartOrder ==
    ASSUME TypeOK, ServedInOrder, NEW r \in Receivers, NEW e \in Envelopes, StartRecord(r, e)
    PROVE  ServedInOrder'
  <1>1. /\ clock' = clock + 1 /\ clock \in Nat /\ UNCHANGED inbox
        /\ ~Overtaken(e) /\ raced \subseteq raced'
        /\ \A s \in Receivers : serving'[s] = IF s = r THEN [env |-> e, at |-> clock] ELSE serving[s]
    BY DEF StartRecord, TypeOK
  <1>2. \A k \in Keys : (Recorded(k)' <=> Recorded(k)) /\ inbox'[k].at = inbox[k].at
                        /\ inbox[k].at \in Nat
    BY <1>1 DEF Recorded, TypeOK
  <1>3. ASSUME e.material \notin raced', NEW s \in Receivers, s # r,
               serving[s].env # NONE, serving[s].env.material = e.material
        PROVE  serving[s].env.version = e.version
    BY <1>3 DEF StartRecord, Meets
  <1>4. ServedApart'
    <2> SUFFICES ASSUME NEW s \in Receivers, NEW t \in Receivers,
                        serving'[s].env # NONE, serving'[t].env # NONE,
                        serving'[s].env.material = serving'[t].env.material,
                        serving'[s].env.material \notin raced'
                 PROVE  serving'[s].env.version = serving'[t].env.version
      BY DEF ServedApart
    <2>1. CASE s = r \/ t = r
      BY <1>1, <1>3, <2>1
    <2>2. CASE s # r /\ t # r
      BY <1>1, <2>2 DEF ServedInOrder, ServedApart
    <2>3. QED
      BY <2>1, <2>2
  <1>5. ASSUME NEW s \in Receivers, serving'[s].env # NONE
        PROVE  serving'[s].at < clock' /\ (serving'[s].env.material \notin raced' => IsNext(s)')
    <2>1. CASE s = r
      <3>1. serving'[s].env = e /\ serving'[s].at = clock
        BY <1>1, <2>1
      <3>2. ~Overtaken(e)'
        BY <1>1 DEF Overtaken, Recorded
      <3>3. \A k \in Keys : Recorded(k)' => inbox'[k].at < clock
        BY <1>2 DEF ServedInOrder
      <3>4. ~Overtaken(serving[s].env)'
        BY <3>1, <3>2 DEF Overtaken
      <3>5. QED
        BY <1>1, <3>1, <3>3, <3>4 DEF IsNext
    <2>2. CASE s # r
      <3>1. serving'[s] = serving[s] /\ serving[s].at \in Nat
        BY <1>1, <2>2 DEF TypeOK
      <3>2. serving[s].at < clock /\ (serving[s].env.material \notin raced => IsNext(s))
        BY <1>5, <3>1 DEF ServedInOrder
      <3>3. IsNext(s) => IsNext(s)'
        BY <1>1, <3>1 DEF IsNext, Overtaken, Recorded
      <3>4. QED
        BY <1>1, <3>1, <3>2, <3>3
    <2>3. QED
      BY <2>1, <2>2
  <1>6. \A k \in Keys : Recorded(k)' => inbox'[k].at < clock'
    BY <1>1, <1>2 DEF ServedInOrder
  <1>7. \A j, k \in Keys :
          j[1] = k[1] /\ j[1] \notin raced' /\ j[2] < k[2] /\ Recorded(j)' /\ Recorded(k)' =>
              inbox'[j].at < inbox'[k].at
    BY <1>1, <1>2 DEF ServedInOrder
  <1>8. QED
    BY <1>4, <1>5, <1>6, <1>7 DEF ServedInOrder

LEMMA OrderStep ==
    ASSUME TypeOK, ServedInOrder, [Next]_vars
    PROVE  ServedInOrder'
  <1>1. CASE \E r \in Receivers : FinishRecord(r)
    BY <1>1, FinishOrder
  <1>2. CASE \E r \in Receivers, e \in Envelopes : StartRecord(r, e)
    BY <1>2, StartOrder
  <1>3. CASE /\ ~\E r \in Receivers : FinishRecord(r)
             /\ ~\E r \in Receivers, e \in Envelopes : StartRecord(r, e)
    <2>1. UNCHANGED <<serving, clock, raced>>
      BY <1>3
      DEF Next, vars, bridgeVars, Send, Receiver, AnswerKnown, AnswerStale, Tell, Project,
          DeferEvent, RefuseEvent, FaultEvent, DraftEvent, Settle, ComesDue, Owner,
          RevokeBinding, ConfirmBinding, ChangePolicy, AddVersion, Change
    <2>2. \A k \in Keys : /\ Recorded(k)' => Recorded(k)
                          /\ Recorded(k) => inbox'[k].at = inbox[k].at
      BY <1>3, RowsArrive
    <2>3. \A r \in Receivers :
            serving[r].env # NONE /\ ~Overtaken(serving[r].env) => ~Overtaken(serving[r].env)'
      BY <2>1, <2>2 DEF Overtaken, TypeOK, Envelopes, Keys
    <2>4. \A r \in Receivers : serving[r].env # NONE /\ IsNext(r) => IsNext(r)'
      BY <2>1, <2>2, <2>3 DEF IsNext
    <2>5. ServedApart'
      BY <2>1 DEF ServedInOrder, ServedApart
    <2>6. QED
      BY <2>1, <2>2, <2>4, <2>5 DEF ServedInOrder
  <1>4. QED
    BY <1>1, <1>2, <1>3

\* An event is recorded behind a newer one only where two versions of the
\* material were served at the same time: the check and the insert of the
\* receiver are two steps, and nothing else lets an older one in.
THEOREM UnracedInboxGoesForward == Spec => UnracedGoesForward
  <1>1. Init => ServedInOrder
    BY DEF Init, ServedInOrder, ServedApart, Recorded
  <1>2. TypeOK /\ ServedInOrder /\ [Next]_vars => ServedInOrder'
    BY OrderStep
  <1>3. TypeOK /\ ServedInOrder /\ [Next]_vars =>
          [\A k \in Keys :
            k[1] \notin raced /\ ~Recorded(k) /\ Recorded(k)' =>
                \A v \in Versions : v > k[2] => ~Recorded(<<k[1], v>>)]_vars
    <2> SUFFICES ASSUME TypeOK, ServedInOrder, [Next]_vars, NEW k \in Keys, k[1] \notin raced,
                        ~Recorded(k), Recorded(k)', NEW v \in Versions, v > k[2]
                 PROVE  ~Recorded(<<k[1], v>>)
      OBVIOUS
    <2>1. PICK r \in Receivers : FinishRecord(r) /\ k = KeyOf(serving[r].env)
      BY RowsArrive
    <2>2. ~Overtaken(serving[r].env)
      BY <2>1 DEF ServedInOrder, FinishRecord, KeyOf, IsNext
    <2>3. QED
      BY <2>1, <2>2 DEF Overtaken, KeyOf
  <1>4. QED
    BY <1>1, <1>2, <1>3, TypeCorrectness, PTL DEF Spec, UnracedGoesForward

-----------------------------------------------------------------------------
(* Titles *)

\* An event waits only for the owner or because it always throws; of a material
\* that has not raced, whatever else is older than a draft is done.
OldestIsDone ==
    /\ \A k \in Keys : inbox[k].status = "DEFERRED" => k \in Poison \cup waited
    /\ \A j, k \in Keys :
          /\ j[1] = k[1] /\ j[1] \notin raced /\ j[2] < k[2]
          /\ inbox[k].status = "PROJECTED"
          => j \in Poison \cup waited \/ inbox[j].status \notin {"DUE", "DEFERRED"}

\* What a step does to the status of a row.
LEMMA StatusMoves ==
    ASSUME TypeOK, [Next]_vars, NEW k \in Keys, inbox'[k].status # inbox[k].status
    PROVE  \/ ~Recorded(k) /\ inbox'[k].status = "DUE"
           \/ inbox[k].status = "DEFERRED" /\ inbox'[k].status = "DUE"
           \/ DeferEvent(k) /\ inbox'[k].status = "DEFERRED"
           \/ FaultEvent(k) /\ inbox'[k].status = "DEFERRED"
           \/ RefuseEvent(k) /\ inbox'[k].status = "REFUSED"
           \/ DraftEvent(k) /\ inbox'[k].status = "PROJECTED"
  <1>1. CASE ~Recorded(k)
    <2>1. Recorded(k)'
      BY <1>1 DEF Recorded
    <2>2. QED
      BY <1>1, <2>1, RowsArrive
  <1>2. ASSUME NEW j \in Keys, Project(j), Recorded(k) PROVE j = k
    <2>1. PICK s \in RowStatus, b \in Brands \cup {NONE} : Settle(j, s, b)
      BY <1>2, ProjectSettles DEF RowStatus, TypeOK
    <2>2. QED
      BY <2>1, SettleRow
  <1>3. CASE Project(k)
    <2>1. CASE DeferEvent(k) \/ FaultEvent(k)
      BY <2>1, SettleRow DEF DeferEvent, FaultEvent, RowStatus
    <2>2. CASE RefuseEvent(k)
      BY <2>2, SettleRow DEF RefuseEvent, RowStatus
    <2>3. CASE DraftEvent(k)
      BY <2>3, SettleRow DEF DraftEvent, Supplied, RowStatus, TypeOK
    <2>4. QED
      BY <1>3, <2>1, <2>2, <2>3 DEF Project
  <1>4. ASSUME NEW j \in Keys, ComesDue(j)
        PROVE  inbox[k].status = "DEFERRED" /\ inbox'[k].status = "DUE"
    BY <1>4 DEF ComesDue, TypeOK
  <1>5. ASSUME NEW r \in Receivers, FinishRecord(r), Recorded(k) PROVE FALSE
    <2>1. KeyOf(serving[r].env) \in Keys
      BY <1>5 DEF FinishRecord, TypeOK, KeyOf, Keys, Envelopes
    <2>2. QED
      BY <1>5, <2>1 DEF FinishRecord, TypeOK
  <1>6. ASSUME UNCHANGED inbox PROVE FALSE
    BY <1>6
  <1>7. CASE Owner
    BY <1>6, <1>7 DEF Owner, RevokeBinding, ConfirmBinding, ChangePolicy, AddVersion, Change
  <1>8. CASE \/ UNCHANGED vars
             \/ \E e \in Envelopes : Send(e) \/ AnswerKnown(e) \/ AnswerStale(e)
             \/ \E r \in Receivers, e \in Envelopes : StartRecord(r, e)
    BY <1>6, <1>8 DEF vars, Send, AnswerKnown, AnswerStale, Tell, StartRecord
  <1>9. QED
    BY <1>1, <1>2, <1>3, <1>4, <1>5, <1>7, <1>8 DEF Next, Receiver

\* Oldest first: an event is drafted after every older one of its material that
\* can be, and none comes in behind it.
LEMMA DoneStep ==
    ASSUME TypeOK, ServedInOrder, OldestIsDone, [Next]_vars
    PROVE  OldestIsDone'
  <1>1. raced \subseteq raced' /\ waited \subseteq waited'
    BY HistoryGrows
  <1>2. ASSUME NEW k \in Keys, inbox'[k].status = "DEFERRED"
        PROVE  k \in Poison \cup waited'
    <2>1. CASE inbox[k].status = "DEFERRED"
      BY <1>1, <2>1 DEF OldestIsDone
    <2>2. CASE inbox[k].status # "DEFERRED"
      BY <1>2, <2>2, StatusMoves, HistoryGrows DEF FaultEvent
    <2>3. QED
      BY <2>1, <2>2
  <1>3. ASSUME NEW j \in Keys, NEW k \in Keys, j[1] = k[1], j[1] \notin raced', j[2] < k[2],
               inbox'[k].status = "PROJECTED", j \notin Poison \cup waited'
        PROVE  inbox'[j].status \notin {"DUE", "DEFERRED"}
    <2>0. j # k /\ j[1] \notin raced /\ j \notin Poison \cup waited
      BY <1>1, <1>3 DEF Keys, Versions
    <2>1. CASE inbox[k].status = "PROJECTED"
      <3>1. inbox[j].status \notin {"DUE", "DEFERRED"}
        BY <1>3, <2>0, <2>1 DEF OldestIsDone
      <3>2. CASE inbox'[j].status = inbox[j].status
        BY <3>1, <3>2
      <3>3. CASE inbox'[j].status # inbox[j].status
        <4>1. CASE ~Recorded(j)
          <5>1. Recorded(j)'
            BY <3>3, <4>1 DEF Recorded
          <5>2. PICK r \in Receivers : FinishRecord(r) /\ j = KeyOf(serving[r].env)
            BY <4>1, <5>1, RowsArrive
          <5>3. Overtaken(serving[r].env)
            <6>1. /\ serving[r].env.material = k[1] /\ serving[r].env.version < k[2]
                  /\ k[2] \in Versions /\ k = <<k[1], k[2]>>
              BY <1>3, <5>2 DEF KeyOf, Keys
            <6>2. k[2] > serving[r].env.version
              BY <1>3, <5>2, <6>1 DEF KeyOf, Versions, Keys
            <6>3. QED
              BY <2>1, <6>1, <6>2 DEF Overtaken, Recorded
          <5>4. serving[r].env.material \notin raced
            BY <2>0, <5>2 DEF KeyOf
          <5>5. QED
            BY <5>2, <5>3, <5>4 DEF ServedInOrder, FinishRecord, IsNext
        <4>2. CASE Recorded(j)
          BY <3>1, <3>3, <4>2, StatusMoves, ProjectSettles DEF Project
        <4>3. QED
          BY <4>1, <4>2
      <3>4. QED
        BY <3>2, <3>3
    <2>2. CASE inbox[k].status # "PROJECTED"
      <3>1. DraftEvent(k)
        BY <1>3, <2>2, StatusMoves
      <3>2. inbox'[j] = inbox[j] /\ OldestDue(k) /\ Supplied
        BY <2>0, <3>1, SettleRow DEF DraftEvent, Supplied, RowStatus, TypeOK
      <3>3. ASSUME inbox[j].status = "DUE" PROVE FALSE
        <4>1. Earlier(k, j)
          BY <2>0, <3>2, <3>3 DEF OldestDue
        <4>2. inbox[j].at < inbox[k].at
          BY <1>3, <2>0, <3>2, <3>3 DEF ServedInOrder, OldestDue, Recorded
        <4>3. inbox[j].at \in Nat /\ inbox[k].at \in Nat
          BY DEF TypeOK
        <4>4. QED
          BY <4>1, <4>2, <4>3 DEF Earlier
      <3>4. inbox[j].status # "DEFERRED"
        BY <2>0 DEF OldestIsDone
      <3>5. QED
        BY <3>2, <3>3, <3>4
    <2>3. QED
      BY <2>1, <2>2
  <1>4. QED
    BY <1>2, <1>3 DEF OldestIsDone

LEMMA TitleStep ==
    ASSUME TypeOK, OldestIsDone, DraftsAreProjections, TitleIsNewestUndisturbed, [Next]_vars
    PROVE  TitleIsNewestUndisturbed'
  <1> SUFFICES ASSUME NEW b \in Brands, NEW m \in Materials, m \notin raced', NEW n \in Versions,
                      content'[<<b, m>>][n] = "AETHER"
               PROVE  n <= title'[<<b, m>>] \/ <<m, title'[<<b, m>>]>> \in waited'
    BY DEF TitleIsNewestUndisturbed
  <1>1. /\ m \notin raced /\ waited \subseteq waited'
        /\ n \in ContentVersions /\ <<m, n>> \in Keys /\ n \in Nat
    BY HistoryGrows, InboxAssumption DEF InboxAssumption, Versions, ContentVersions, Keys
  <1>2. CASE content[<<b, m>>][n] # "AETHER"
    <2>1. DraftEvent(<<m, n>>) /\ binding.brand = b
      BY <1>1, <1>2, VersionWritten
    <2>2. title'[<<b, m>>] = n
      BY <2>1 DEF DraftEvent, TypeOK
    <2>3. QED
      BY <1>1, <2>2
  <1>3. CASE content[<<b, m>>][n] = "AETHER"
    <2>1. /\ n <= title[<<b, m>>] \/ <<m, title[<<b, m>>]>> \in waited
          /\ inbox[<<m, n>>].status = "PROJECTED"
      BY <1>1, <1>3 DEF TitleIsNewestUndisturbed, DraftsAreProjections
    <2>2. CASE title'[<<b, m>>] = title[<<b, m>>]
      BY <1>1, <2>1, <2>2
    <2>3. CASE \E k \in Keys : DraftEvent(k)
      <3>1. PICK k \in Keys : DraftEvent(k)
        BY <2>3
      <3>2. /\ title' = [title EXCEPT ![<<binding.brand, k[1]>>] = k[2]]
            /\ k \notin Poison /\ inbox[k].status = "DUE"
        BY <3>1 DEF DraftEvent, OldestDue
      <3>3. CASE k[1] = m /\ binding.brand = b
        <4>1. title'[<<b, m>>] = k[2] /\ k = <<m, k[2]>> /\ k[2] \in Nat
          BY <3>2, <3>3, InboxAssumption DEF InboxAssumption, TypeOK, Keys, Versions
        <4>2. CASE k \in waited
          BY <1>1, <4>1, <4>2
        <4>3. CASE k \notin waited
          <5>1. ~(k[2] < n)
            BY <1>1, <2>1, <3>2, <3>3, <4>3 DEF OldestIsDone
          <5>2. QED
            BY <1>1, <4>1, <5>1
        <4>4. QED
          BY <4>2, <4>3
      <3>4. CASE ~(k[1] = m /\ binding.brand = b)
        BY <2>2, <3>2, <3>4 DEF TypeOK
      <3>5. QED
        BY <3>3, <3>4
    <2>4. CASE UNCHANGED title
      BY <2>2, <2>4
    <2>5. QED
      BY <2>3, <2>4
      DEF Next, vars, Send, Receiver, AnswerKnown, AnswerStale, Tell, StartRecord, FinishRecord,
          Project, DeferEvent, RefuseEvent, FaultEvent, Settle, ComesDue, Owner,
          RevokeBinding, ConfirmBinding, ChangePolicy, AddVersion, Change, registryVars
  <1>4. QED
    BY <1>2, <1>3

\* The title of an item goes back only to an event that had to wait for a binding
\* or a policy, or of a material of which two versions were served at a time,
\* whatever the owner changes and however events are deferred and come due.
THEOREM UndisturbedTitles == Spec => []TitleIsNewestUndisturbed
  <1> DEFINE Inv == ServedInOrder /\ OldestIsDone /\ TitleIsNewestUndisturbed
  <1>1. Init => Inv
    <2> SUFFICES ASSUME Init PROVE Inv
      OBVIOUS
    <2>1. ServedInOrder /\ OldestIsDone
      BY DEF Init, ServedInOrder, ServedApart, OldestIsDone, Recorded
    <2>2. ASSUME NEW b \in Brands, NEW m \in Materials, NEW n \in Versions
          PROVE  content[<<b, m>>][n] # "AETHER"
      BY InboxAssumption DEF InboxAssumption, Init, Versions, ContentVersions
    <2>3. QED
      BY <2>1, <2>2 DEF TitleIsNewestUndisturbed
  <1>2. TypeOK /\ DraftsAreProjections /\ Inv /\ [Next]_vars => Inv'
    BY OrderStep, DoneStep, TitleStep
  <1>3. QED
    BY <1>1, <1>2, TypeCorrectness, DraftsComeFromEvents, PTL DEF Spec

\* Nobody but the projection has written, and what it projected it wrote.
Unedited ==
    edits = 0 =>
        /\ \A i \in Brands \X Materials, n \in ContentVersions : content[i][n] # "PERSON"
        /\ \A k \in Keys : inbox[k].status = "PROJECTED" => inbox[k].into \in Brands
        /\ EventIsItsVersion

\* As long as no person adds a version, every projected event is the content
\* version of its number, whatever was bound, deferred or sent twice.
THEOREM UneditedEventIsItsVersion == Spec => [](edits = 0 => EventIsItsVersion)
  <1>1. Init => Unedited
    BY DEF Init, Unedited, EventIsItsVersion
  <1>2. TypeOK /\ Unedited /\ [Next]_vars => Unedited'
    <2> SUFFICES ASSUME TypeOK, Unedited, [Next]_vars, edits' = 0
                 PROVE  Unedited'
      BY DEF Unedited
    <2>1. edits = 0 /\ \A b \in Brands, m \in Materials : ~AddVersion(b, m)
      <3>1. ASSUME NEW b \in Brands, NEW m \in Materials, AddVersion(b, m) PROVE FALSE
        BY <3>1 DEF AddVersion, TypeOK
      <3>2. QED
        BY <3>1
        DEF Next, vars, Send, Receiver, AnswerKnown, AnswerStale, Tell, StartRecord, FinishRecord,
            Project, DeferEvent, RefuseEvent, FaultEvent, DraftEvent, Settle, ComesDue, Owner,
            RevokeBinding, ConfirmBinding, ChangePolicy, Change
    <2>2. CASE \E k \in Keys : DraftEvent(k)
      <3>1. PICK k \in Keys : DraftEvent(k)
        BY <2>2
      <3> DEFINE item == <<binding.brand, k[1]>>
      <3>2. /\ item \in Brands \X Materials /\ k[2] \in ContentVersions
            /\ content' = [content EXCEPT ![item][k[2]] = IF @ = "NOBODY" THEN "AETHER" ELSE @]
            /\ Settle(k, "PROJECTED", binding.brand) /\ binding.brand \in Brands
        BY <3>1, InboxAssumption
        DEF InboxAssumption, DraftEvent, Supplied, TypeOK, Keys, Versions, ContentVersions
      <3>3. /\ inbox'[k].into = binding.brand
            /\ \A j \in Keys \ {k} : inbox'[j] = inbox[j]
        BY <3>2, SettleRow DEF RowStatus
      <3>4. \A i \in Brands \X Materials, n \in ContentVersions :
                /\ content'[i][n] # "PERSON"
                /\ content[i][n] = "AETHER" => content'[i][n] = "AETHER"
        BY <2>1, <3>2 DEF Unedited, TypeOK
      <3>5. content'[item][k[2]] = "AETHER"
        BY <2>1, <3>2 DEF Unedited, TypeOK, Authors
      <3>6. ASSUME NEW j \in Keys \ {k}, inbox'[j].status = "PROJECTED"
            PROVE  /\ inbox'[j].into \in Brands
                   /\ content'[<<inbox'[j].into, j[1]>>][j[2]] = "AETHER"
        <4>1. inbox[j].into \in Brands /\ content[<<inbox[j].into, j[1]>>][j[2]] = "AETHER"
          BY <2>1, <3>3, <3>6 DEF Unedited, EventIsItsVersion
        <4>2. <<inbox[j].into, j[1]>> \in Brands \X Materials /\ j[2] \in ContentVersions
          BY <4>1, InboxAssumption DEF InboxAssumption, Keys, Versions, ContentVersions
        <4>3. QED
          BY <3>3, <3>4, <3>6, <4>1, <4>2
      <3>7. QED
        BY <3>2, <3>3, <3>4, <3>5, <3>6 DEF Unedited, EventIsItsVersion
    <2>3. CASE ~\E k \in Keys : DraftEvent(k)
      <3>1. UNCHANGED content
        BY <2>1, <2>3
        DEF Next, vars, Send, Receiver, AnswerKnown, AnswerStale, Tell, StartRecord, FinishRecord,
            Project, DeferEvent, RefuseEvent, FaultEvent, Settle, ComesDue, Owner,
            RevokeBinding, ConfirmBinding, ChangePolicy, Change, registryVars
      <3>2. ASSUME NEW k \in Keys, inbox'[k].status = "PROJECTED"
            PROVE  inbox[k].status = "PROJECTED" /\ inbox'[k].into = inbox[k].into
        <4>1. inbox[k].status = "PROJECTED"
          BY <2>3, <3>2, StatusMoves
        <4>2. QED
          BY <4>1, RowsStay DEF Recorded
      <3>3. QED
        BY <2>1, <3>1, <3>2 DEF Unedited, EventIsItsVersion
    <2>4. QED
      BY <2>2, <2>3
  <1>3. Unedited => (edits = 0 => EventIsItsVersion)
    BY DEF Unedited
  <1>4. QED
    BY <1>1, <1>2, <1>3, TypeCorrectness, PTL DEF Spec

\* What was projected has a version of its number, its own or a person's.
Versioned ==
    \A k \in Keys :
        inbox[k].status = "PROJECTED" =>
            /\ inbox[k].into \in Brands
            /\ content[<<inbox[k].into, k[1]>>][k[2]] # "NOBODY"

\* An item has a version of the number of every event that was projected into it:
\* none is lost to an edit, a repetition, a change of binding or a back-off.
THEOREM EventsHaveVersions == Spec => []EventHasItsVersion
  <1>1. Init => Versioned
    BY DEF Init, Versioned
  <1>2. TypeOK /\ Versioned /\ [Next]_vars => Versioned'
    <2> SUFFICES ASSUME TypeOK, Versioned, [Next]_vars, NEW k \in Keys, inbox'[k].status = "PROJECTED"
                 PROVE  /\ inbox'[k].into \in Brands
                        /\ content'[<<inbox'[k].into, k[1]>>][k[2]] # "NOBODY"
      BY DEF Versioned
    <2>1. k[1] \in Materials /\ k[2] \in ContentVersions
      BY InboxAssumption DEF InboxAssumption, Keys, Versions, ContentVersions
    <2>2. CASE inbox[k].status = "PROJECTED"
      <3>1. inbox'[k].into = inbox[k].into /\ inbox[k].into \in Brands
        BY <2>2, RowsStay DEF Recorded, Versioned
      <3>2. QED
        BY <2>1, <2>2, <3>1, VersionWritten DEF Versioned
    <2>3. CASE inbox[k].status # "PROJECTED"
      <3>1. DraftEvent(k)
        BY <2>3, StatusMoves
      <3>2. /\ binding.brand \in Brands
            /\ content' = [content EXCEPT ![<<binding.brand, k[1]>>][k[2]] =
                              IF @ = "NOBODY" THEN "AETHER" ELSE @]
            /\ Settle(k, "PROJECTED", binding.brand)
        BY <3>1 DEF DraftEvent, Supplied, TypeOK
      <3>3. inbox'[k].into = binding.brand
        BY <3>2, SettleRow DEF RowStatus
      <3>4. content'[<<binding.brand, k[1]>>][k[2]] # "NOBODY"
        BY <2>1, <3>2 DEF TypeOK
      <3>5. QED
        BY <3>2, <3>3, <3>4
    <2>4. QED
      BY <2>2, <2>3
  <1>3. TypeOK /\ Versioned => EventHasItsVersion
    <2> SUFFICES ASSUME TypeOK, Versioned, NEW k \in Keys, inbox[k].status = "PROJECTED"
                 PROVE  content[<<inbox[k].into, k[1]>>][k[2]] \in {"AETHER", "PERSON"}
      BY DEF EventHasItsVersion
    <2>1. k[1] \in Materials /\ k[2] \in ContentVersions
      BY InboxAssumption DEF InboxAssumption, Keys, Versions, ContentVersions
    <2>2. content[<<inbox[k].into, k[1]>>][k[2]] \in Authors
      BY <2>1 DEF Versioned, TypeOK
    <2>3. QED
      BY <2>2 DEF Versioned, Authors
  <1>4. QED
    BY <1>1, <1>2, <1>3, TypeCorrectness, PTL DEF Spec
=============================================================================
