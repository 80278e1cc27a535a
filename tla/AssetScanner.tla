---------------------------- MODULE AssetScanner ----------------------------
(***************************************************************************)
(* The private originals of one content version, from upload to release:   *)
(*                                                                         *)
(*   createAsset (apps/worker/src/selena-scanner.ts) records a row, stores *)
(*     the bytes, and records that they are stored, in three steps;        *)
(*   every second a round of the same process claims the oldest row to     *)
(*     scan under a lease, fetches the bytes, has them scanned and records *)
(*     the verdict if the lease is still its own; rounds overlap;          *)
(*   a reviewer's approval, the queueing of a release, and the gateway's   *)
(*     package read the version's rows, each for itself.                   *)
(*                                                                         *)
(* Assets are numbered in the order of their rows.  A second upload of the *)
(* same bytes violates content_assets_version_hash_unique and changes      *)
(* nothing, so that a row stands for its bytes.  What else decides a       *)
(* release (newer versions, kill switches, destinations, what the provider *)
(* answers) is in ReleasePipeline.                                         *)
(*                                                                         *)
(* Bounds of an instance: MaxFaults crashes, lost answers, failed writes   *)
(* and damaged objects.                                                    *)
(***************************************************************************)
EXTENDS Naturals, FiniteSets

CONSTANTS
    Assets,     \* 1 .. n
    Rounds,     \* calls of processOneAsset that can overlap
    NONE,
    MaxFaults

ASSUME AssetAssumption ==
    /\ Assets = 1 .. Cardinality(Assets)
    /\ NONE \notin Rounds \cup Assets /\ \A S \in SUBSET Assets : S # NONE
    /\ MaxFaults \in Nat

VARIABLES
    request,    \* the upload of each asset
    object,     \* what private storage holds under its key
    row,        \* content_assets
    round,      \* what each round is doing
    passed,     \* history: assets whose recorded bytes ClamAV called clean
    lapsed,     \* assets whose rights or consent have expired
    reviewing,  \* the assets a reviewer's open request has read
    approval,   \* the bundle of the approval in force
    intent,     \* the bundle approved for the queued release
    manifest,   \* the assets of the signed package
    submitted,  \* the assets of the package given to the provider
    faults

scanVars    == <<row, round, passed>>
releaseVars == <<reviewing, approval, intent, manifest, submitted>>
vars == <<request, object, scanVars, lapsed, releaseVars, faults>>

Contents == {"NONE", "RECORDED", "OTHER", "BROKEN"}
Rows == [status : {"NONE", "QUARANTINED", "SCANNING", "CLEAN", "REJECTED"},
         stored : BOOLEAN, holder : Rounds \cup {NONE}, due : BOOLEAN]
RoundStates ==
    [at : {"idle", "fetching", "scanning", "writing"}, asset : Assets \cup {NONE},
     bytes : Contents, says : {"NOTHING", "CLEAN", "MALWARE", "MISMATCH", "UNAVAILABLE"}]

\* A set of assets, or that there is none yet.
IsBundle(b) == b = NONE \/ b \in SUBSET Assets

TypeOK ==
    /\ request \in [Assets -> {"new", "inserted", "uploaded", "failing",
                               "accepted", "refused", "lost"}]
    /\ object \in [Assets -> Contents]
    /\ row \in [Assets -> Rows] /\ round \in [Rounds -> RoundStates]
    /\ passed \subseteq Assets /\ lapsed \subseteq Assets
    /\ IsBundle(reviewing) /\ IsBundle(approval) /\ IsBundle(intent)
    /\ IsBundle(manifest) /\ IsBundle(submitted)
    /\ faults \in 0 .. MaxFaults

Idle == [at |-> "idle", asset |-> NONE, bytes |-> "NONE", says |-> "NOTHING"]

Init ==
    /\ request = [a \in Assets |-> "new"]
    /\ object = [a \in Assets |-> "NONE"]
    /\ row = [a \in Assets |-> [status |-> "NONE", stored |-> FALSE,
                                holder |-> NONE, due |-> FALSE]]
    /\ round = [r \in Rounds |-> Idle]
    /\ passed = {} /\ lapsed = {}
    /\ reviewing = NONE /\ approval = NONE /\ intent = NONE
    /\ manifest = NONE /\ submitted = NONE
    /\ faults = 0

Fault == faults < MaxFaults /\ faults' = faults + 1

-----------------------------------------------------------------------------
(* The upload: createAsset *)

Advance(a, from, to) ==
    /\ request[a] = from
    /\ request' = [request EXCEPT ![a] = to]

Insert(a) ==
    /\ \A b \in Assets : b < a => request[b] # "new"
    /\ Advance(a, "new", "inserted")
    /\ row' = [row EXCEPT ![a].status = "QUARANTINED", ![a].due = TRUE]
    /\ UNCHANGED <<object, round, passed, lapsed, releaseVars, faults>>

Upload(a) ==
    /\ Advance(a, "inserted", "uploaded")
    /\ object' = [object EXCEPT ![a] = "RECORDED"]
    /\ UNCHANGED <<scanVars, lapsed, releaseVars, faults>>

\* Storage refuses, or its answer is lost.
UploadFails(a) ==
    /\ Fault
    /\ Advance(a, "inserted", "failing")
    /\ \E kept \in {"NONE", "RECORDED"} : object' = [object EXCEPT ![a] = kept]
    /\ UNCHANGED <<scanVars, lapsed, releaseVars>>

MarkStored(a) ==
    row' = IF row[a].status = "QUARANTINED" /\ ~row[a].stored
           THEN [row EXCEPT ![a].stored = TRUE]
           ELSE row

Accept(a) ==
    /\ Advance(a, "uploaded", "accepted")
    /\ MarkStored(a)
    /\ UNCHANGED <<object, round, passed, lapsed, releaseVars, faults>>

\* The update fails, or commits and its answer is lost.
AcceptFails(a) ==
    /\ Fault
    /\ Advance(a, "uploaded", "failing")
    /\ MarkStored(a) \/ UNCHANGED row
    /\ UNCHANGED <<object, round, passed, lapsed, releaseVars>>

\* Broken: rejects the asset whatever has become of it.
RefuseAnyway(a) ==
    /\ Advance(a, "failing", "refused")
    /\ row' = [row EXCEPT ![a].status = "REJECTED"]
    /\ UNCHANGED <<object, round, passed, lapsed, releaseVars, faults>>

Refuse(a) ==
    /\ Advance(a, "failing", "refused")
    /\ row' = IF row[a].status = "QUARANTINED"
              THEN [row EXCEPT ![a].status = "REJECTED"]
              ELSE row
    /\ UNCHANGED <<object, round, passed, lapsed, releaseVars, faults>>

\* The last update fails too: the row stays as it is.
RefuseFails(a) ==
    /\ Fault
    /\ Advance(a, "failing", "refused")
    /\ UNCHANGED <<object, scanVars, lapsed, releaseVars>>

-----------------------------------------------------------------------------
(* A round: processOneAsset *)

\* Broken: a lease that ran out is not taken over.
ClaimableOnce(a) == row[a].stored /\ row[a].due /\ row[a].status = "QUARANTINED"

\* due: scan_available_at, or the expiry of the lease, has passed.
Claimable(a) ==
    /\ row[a].stored /\ row[a].due
    /\ row[a].status \in {"QUARANTINED", "SCANNING"}

Claim(r, a) ==
    /\ round[r].at = "idle"
    /\ Claimable(a) /\ \A b \in Assets : Claimable(b) => a <= b
    /\ row' = [row EXCEPT ![a].status = "SCANNING", ![a].holder = r, ![a].due = FALSE]
    /\ round' = [round EXCEPT ![r] = [Idle EXCEPT !.at = "fetching", !.asset = a]]
    /\ UNCHANGED <<request, object, passed, lapsed, releaseVars, faults>>

\* Broken: the hash of the bytes is not compared.
FetchUnchecked(r) ==
    /\ round[r].at = "fetching" /\ object[round[r].asset] \in {"RECORDED", "OTHER"}
    /\ round' = [round EXCEPT ![r].at = "scanning", ![r].bytes = object[round[r].asset]]
    /\ UNCHANGED <<request, object, row, passed, lapsed, releaseVars, faults>>

\* The bytes come back, are an image, and have the recorded hash or another.
Fetch(r) ==
    LET bytes == object[round[r].asset] IN
    /\ round[r].at = "fetching" /\ bytes \in {"RECORDED", "OTHER"}
    /\ round' = [round EXCEPT ![r] =
                    IF bytes = "RECORDED"
                    THEN [@ EXCEPT !.at = "scanning", !.bytes = bytes]
                    ELSE [@ EXCEPT !.at = "writing", !.says = "MISMATCH"]]
    /\ UNCHANGED <<request, object, row, passed, lapsed, releaseVars, faults>>

\* OK and FOUND; the virus database may change between two scans.
Scan(r, says) ==
    /\ round[r].at = "scanning" /\ says \in {"CLEAN", "MALWARE"}
    /\ round' = [round EXCEPT ![r].at = "writing", ![r].says = says]
    /\ passed' = IF says = "CLEAN" /\ round[r].bytes = "RECORDED"
                 THEN passed \cup {round[r].asset}
                 ELSE passed
    /\ UNCHANGED <<request, object, row, lapsed, releaseVars, faults>>

\* No download, bytes that are no image, or no answer from ClamAV.
ScanFails(r) ==
    /\ round[r].at \in {"fetching", "scanning"}
    /\ round' = [round EXCEPT ![r].at = "writing", ![r].says = "UNAVAILABLE"]
    /\ UNCHANGED <<request, object, row, passed, lapsed, releaseVars, faults>>

Holds(r) ==
    LET a == round[r].asset IN row[a].status = "SCANNING" /\ row[a].holder = r

\* Broken: a scan without an answer counts as a status of its own.
StatusAsSaid(says) == IF says \in {"CLEAN", "UNAVAILABLE"} THEN says ELSE "REJECTED"

StatusFor(says) ==
    CASE says = "CLEAN"       -> "CLEAN"
      [] says = "UNAVAILABLE" -> "QUARANTINED"
      [] OTHER                -> "REJECTED"

\* updateAssetScanResult
UpdateAssetScanResult(r) ==
    row' = IF Holds(r)
           THEN [row EXCEPT ![round[r].asset].status = StatusFor(round[r].says),
                            ![round[r].asset].holder = NONE, ![round[r].asset].due = FALSE]
           ELSE row

Write(r) ==
    /\ round[r].at = "writing"
    /\ UpdateAssetScanResult(r)
    /\ round' = [round EXCEPT ![r] = Idle]
    /\ UNCHANGED <<request, object, passed, lapsed, releaseVars, faults>>

\* Recording ClamAV's answer throws, with or without its effect, and the
\* round goes on as if there had been no answer.
WriteFails(r) ==
    /\ Fault
    /\ round[r].at = "writing" /\ round[r].says \in {"CLEAN", "MALWARE"}
    /\ UpdateAssetScanResult(r) \/ UNCHANGED row
    /\ round' = [round EXCEPT ![r].says = "UNAVAILABLE"]
    /\ UNCHANGED <<request, object, passed, lapsed, releaseVars>>

-----------------------------------------------------------------------------
(* Approval, queueing and the gateway's package *)

Present == {a \in Assets : row[a].status # "NONE"}

\* can_create_approval's conditions on one asset: also those of the package.
Ready(a) == row[a].status = "CLEAN" /\ row[a].stored /\ a \notin lapsed

AllReady == \A a \in Present : Ready(a)

\* approveContentVersionFn up to its insert: an approval in force is returned.
Review ==
    /\ reviewing = NONE /\ approval = NONE /\ AllReady
    /\ reviewing' = Present
    /\ UNCHANGED <<request, object, scanVars, lapsed, approval, intent, manifest, submitted, faults>>

\* The insert, with the row policy's own look at the assets.
Approve ==
    /\ reviewing # NONE
    /\ approval' = IF AllReady THEN reviewing ELSE approval
    /\ reviewing' = NONE
    /\ UNCHANGED <<request, object, scanVars, lapsed, intent, manifest, submitted, faults>>

Revoke ==
    /\ approval # NONE
    /\ approval' = NONE
    /\ UNCHANGED <<request, object, scanVars, lapsed, reviewing, intent, manifest, submitted, faults>>

\* queueReleaseIntentFn
Queue ==
    /\ approval # NONE /\ intent = NONE /\ AllReady
    /\ Present = approval
    /\ intent' = approval
    /\ UNCHANGED <<request, object, scanVars, lapsed, reviewing, approval, manifest, submitted, faults>>

\* Broken: packs the assets that are ready and leaves the others out.
PackageOfReady == {a \in Present : Ready(a)}

\* build_gateway_release_package lists the rows there are, or throws.
Package == IF approval # NONE /\ AllReady THEN Present ELSE NONE

\* createSignedManifest
Sign ==
    /\ intent # NONE /\ manifest = NONE /\ Package # NONE
    /\ manifest' = Package
    /\ UNCHANGED <<request, object, scanVars, lapsed, reviewing, approval, intent, submitted, faults>>

\* prepare_postiz_submission builds the package again and compares it.
Submit ==
    /\ manifest # NONE /\ submitted = NONE /\ Package = manifest
    /\ submitted' = manifest
    /\ UNCHANGED <<request, object, scanVars, lapsed, reviewing, approval, intent, manifest, faults>>

-----------------------------------------------------------------------------
(* Time, damage and crashes *)

\* A back-off or a lease runs out.
Elapse(a) ==
    /\ row[a].status \in {"QUARANTINED", "SCANNING"} /\ ~row[a].due
    /\ row' = [row EXCEPT ![a].due = TRUE]
    /\ UNCHANGED <<request, object, round, passed, lapsed, releaseVars, faults>>

\* rights_expires_at or consent_expires_at passes.
Lapse(a) ==
    /\ a \in Present \ lapsed
    /\ lapsed' = lapsed \cup {a}
    /\ UNCHANGED <<request, object, scanVars, releaseVars, faults>>

\* What ASSET_INTEGRITY_MISMATCH and validateSelenaAsset are there for.
Damage(a) ==
    /\ Fault
    /\ object[a] = "RECORDED"
    /\ \E bytes \in {"OTHER", "BROKEN"} : object' = [object EXCEPT ![a] = bytes]
    /\ UNCHANGED <<request, scanVars, lapsed, releaseVars>>

\* The process dies, of its own or of a round's unhandled rejection.
Crash ==
    /\ Fault
    /\ round' = [r \in Rounds |-> Idle]
    /\ request' = [a \in Assets |-> IF request[a] \in {"inserted", "uploaded", "failing"}
                                    THEN "lost" ELSE request[a]]
    /\ UNCHANGED <<object, row, passed, lapsed, releaseVars>>

-----------------------------------------------------------------------------
UploadStep(a) ==
    \/ Insert(a) \/ Upload(a) \/ UploadFails(a) \/ Accept(a) \/ AcceptFails(a)
    \/ Refuse(a) \/ RefuseFails(a)

RoundStep(r) ==
    \/ (\E a \in Assets : Claim(r, a)) \/ Fetch(r) \/ (\E says \in {"CLEAN", "MALWARE"} : Scan(r, says))
    \/ ScanFails(r) \/ Write(r) \/ WriteFails(r)

ReleaseStep == Review \/ Approve \/ Revoke \/ Queue \/ Sign \/ Submit

Next ==
    \/ \E a \in Assets : UploadStep(a) \/ Elapse(a) \/ Lapse(a) \/ Damage(a)
    \/ \E r \in Rounds : RoundStep(r)
    \/ ReleaseStep
    \/ Crash

Spec == Init /\ [][Next]_vars

\* The steps of a round that still holds its lease on a.
HoldersOf(a) == {r \in Rounds : round[r].asset = a /\ Holds(r)}
FetchedInTime(a)  == \E r \in HoldersOf(a) : Fetch(r)
AnsweredInTime(a) == \E r \in HoldersOf(a), says \in {"CLEAN", "MALWARE"} : Scan(r, says)
SettledInTime(a)  == \E r \in HoldersOf(a) : round[r].says # "UNAVAILABLE" /\ Write(r)

\* A round starts every second and each of its requests ends; time passes; an
\* asset that is backed off, for thirty seconds or more, leaves rounds to the
\* next one; storage and ClamAV do not fail, and a scan does not overrun its
\* lease of five minutes, every time.
FairSpec ==
    /\ Spec
    /\ \A r \in Rounds : WF_vars(ScanFails(r)) /\ WF_vars(Write(r))
    /\ \A a \in Assets :
        /\ WF_vars(Elapse(a)) /\ SF_vars(\E r \in Rounds : Claim(r, a))
        /\ SF_vars(FetchedInTime(a)) /\ SF_vars(AnsweredInTime(a)) /\ SF_vars(SettledInTime(a))

-----------------------------------------------------------------------------
\* CLEAN and REJECTED are final: no late round, no failing upload and no
\* second scan takes a verdict back (the guards of updateAssetScanResult, of
\* the claim and of createAsset's last update, together).
FinalVerdictStays ==
    [][\A a \in Assets : row[a].status \in {"CLEAN", "REJECTED"}
                            => row'[a].status = row[a].status]_vars

\* Nothing goes to a provider unless ClamAV called the very bytes that were
\* uploaded clean, whatever storage holds by then and whichever round said so.
SubmittedWasScanned == submitted # NONE => submitted \subseteq passed

\* What the reviewer approved for the release is in what is submitted: an asset
\* whose rights lapse stops the release, it is not left out of it.
ApprovedIsSubmitted == submitted # NONE => intent \subseteq submitted

\* Every upload that was answered 202, and whose object is not damaged beyond
\* being an image, gets a verdict, across crashes, failed writes and leases
\* that run out under a slow scan.
ScansFinish ==
    \A a \in Assets :
        request[a] = "accepted" /\ object[a] # "BROKEN"
            ~> row[a].status \in {"CLEAN", "REJECTED"} \/ object[a] = "BROKEN"

\* "Gateway recomputes content, asset-bundle, disclosure and approval binding
\* hashes" (docs/control-room/phase-0/RELEASE_GATEWAY_SERVICE_DESIGN.md:25):
\* what is submitted is the bundle that was approved for the release.
SubmittedIsApproved == submitted # NONE => submitted = intent
=============================================================================
