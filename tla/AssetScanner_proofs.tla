------------------------ MODULE AssetScanner_proofs ------------------------
(***************************************************************************)
(* What holds of AssetScanner for any number of assets and overlapping     *)
(* rounds and any bound on faults.                                         *)
(*                                                                         *)
(* The inductive invariant says what a round knows of the asset it works   *)
(* on (RoundKnows), that CLEAN rows were scanned clean (CleanWasScanned),  *)
(* and how the bundles that a release passes through are related           *)
(* (BundlesGrow): each is kept whole by the next.                          *)
(***************************************************************************)
EXTENDS AssetScanner, TLAPS

NewHasNoRow == \A a \in Assets : request[a] = "new" => row[a].status = "NONE"

RoundKnows ==
    \A r \in Rounds :
        /\ round[r].at # "idle" => round[r].asset \in Assets
        /\ round[r].at = "scanning" => round[r].bytes = "RECORDED"
        /\ round[r].at = "writing" => round[r].says # "NOTHING"
        /\ round[r].says = "CLEAN" => round[r].asset \in passed

CleanWasScanned == \A a \in Assets : row[a].status = "CLEAN" => a \in passed

BundlesGrow ==
    /\ approval # NONE => approval \subseteq Present
    /\ reviewing # NONE => reviewing \subseteq Present
    /\ intent # NONE => intent \subseteq Present
    /\ manifest # NONE => intent # NONE /\ intent \subseteq manifest /\ manifest \subseteq passed
    /\ submitted # NONE => manifest # NONE /\ submitted = manifest

TypeInv == TypeOK /\ NewHasNoRow /\ RoundKnows
IInv == TypeInv /\ CleanWasScanned /\ BundlesGrow

\* What a step does to the rows: of the right type, none lost, none new unless
\* its upload inserts it, none clean that was not scanned, no verdict undone.
RowsKept ==
    /\ row' \in [Assets -> Rows]
    /\ \A a \in Assets :
        /\ row'[a].status = "NONE" => row[a].status = "NONE"
        /\ row[a].status = "NONE" /\ row'[a].status # "NONE" => request[a] = "new" /\ request'[a] # "new"
        /\ row'[a].status = "CLEAN" => row[a].status = "CLEAN" \/ a \in passed
        /\ row[a].status \in {"CLEAN", "REJECTED"} => row'[a].status = row[a].status

-----------------------------------------------------------------------------
(* Steps that write rows *)

LEMMA SameRowsKept == ASSUME TypeOK, row' = row PROVE RowsKept
BY DEF TypeOK, RowsKept

\* A row is set aside, with the new request's status or another one.
LEMMA MarkStoredKept ==
    ASSUME TypeInv, NEW a \in Assets, MarkStored(a)
    PROVE  RowsKept
<1> DEFINE new == [row[a] EXCEPT !.stored = TRUE]
<1>1. new \in Rows /\ new.status = row[a].status
    BY DEF TypeInv, TypeOK, Rows
<1>2. row' = [row EXCEPT ![a] = new] \/ row' = row
    BY DEF MarkStored, TypeInv, TypeOK, Rows
<1> HIDE DEF new
<1> QED
    BY <1>1, <1>2 DEF TypeInv, TypeOK, RowsKept

\* The guard on the lease keeps verdicts, and a CLEAN comes from ClamAV.
LEMMA UpdateKept ==
    ASSUME TypeInv, NEW r \in Rounds, round[r].at = "writing", UpdateAssetScanResult(r)
    PROVE  RowsKept
<1> DEFINE a == round[r].asset
           new == [row[a] EXCEPT !.status = StatusFor(round[r].says),
                                 !.holder = NONE, !.due = FALSE]
<1>1. a \in Assets
    BY DEF TypeInv, RoundKnows
<1>2. CASE Holds(r)
    <2>1. row' = [row EXCEPT ![a] = new] /\ row[a].status = "SCANNING"
        BY <1>1, <1>2 DEF UpdateAssetScanResult, Holds, TypeInv, TypeOK, Rows
    <2>2. /\ StatusFor(round[r].says) \in {"CLEAN", "QUARANTINED", "REJECTED"}
          /\ StatusFor(round[r].says) = "CLEAN" => a \in passed
        BY DEF StatusFor, TypeInv, RoundKnows
    <2>3. new \in Rows /\ new.status = StatusFor(round[r].says)
        <3>1. row[a] \in Rows
            BY <1>1 DEF TypeInv, TypeOK
        <3> HIDE DEF a
        <3> QED
            BY <2>2, <3>1 DEF Rows
    <2>4. row' \in [Assets -> Rows] /\ \A b \in Assets : row'[b] = IF b = a THEN new ELSE row[b]
        BY <1>1, <2>1, <2>3 DEF TypeInv, TypeOK
    <2> HIDE DEF new, a
    <2> QED
        BY <2>1, <2>2, <2>3, <2>4 DEF RowsKept
<1>3. CASE ~Holds(r)
    BY <1>3, SameRowsKept DEF UpdateAssetScanResult, TypeInv
<1> QED
    BY <1>2, <1>3

LEMMA UploadKeepsRows ==
    ASSUME TypeInv, NEW a \in Assets, UploadStep(a)
    PROVE  RowsKept
<1>1. CASE Insert(a)
    BY <1>1 DEF Insert, Advance, RowsKept, TypeInv, TypeOK, NewHasNoRow, Rows
<1>2. CASE Upload(a) \/ UploadFails(a) \/ RefuseFails(a)
    BY <1>2, SameRowsKept DEF Upload, UploadFails, RefuseFails, scanVars, TypeInv
<1>3. CASE Accept(a) \/ AcceptFails(a)
    BY <1>3, SameRowsKept, MarkStoredKept DEF Accept, AcceptFails, TypeInv
<1>4. CASE Refuse(a)
    BY <1>4 DEF Refuse, RowsKept, TypeInv, TypeOK, Rows
<1> QED
    BY <1>1, <1>2, <1>3, <1>4 DEF UploadStep

LEMMA RoundKeepsRows ==
    ASSUME TypeInv, NEW r \in Rounds, RoundStep(r)
    PROVE  RowsKept
<1>1. ASSUME NEW a \in Assets, Claim(r, a) PROVE RowsKept
    <2> DEFINE new == [row[a] EXCEPT !.status = "SCANNING", !.holder = r, !.due = FALSE]
    <2>1. new \in Rows /\ new.status = "SCANNING"
        BY DEF TypeInv, TypeOK, Rows
    <2>2. row' = [row EXCEPT ![a] = new] /\ row[a].status \in {"QUARANTINED", "SCANNING"}
        BY <1>1 DEF Claim, Claimable, TypeInv, TypeOK, Rows
    <2> HIDE DEF new
    <2> QED
        BY <2>1, <2>2 DEF RowsKept, TypeInv, TypeOK
<1>2. CASE Fetch(r) \/ ScanFails(r) \/ \E says \in {"CLEAN", "MALWARE"} : Scan(r, says)
    BY <1>2, SameRowsKept DEF Fetch, ScanFails, Scan, TypeInv
<1>3. CASE Write(r) \/ WriteFails(r)
    BY <1>3, SameRowsKept, UpdateKept DEF Write, WriteFails, TypeInv
<1> QED
    BY <1>1, <1>2, <1>3 DEF RoundStep

LEMMA StepKeepsRows == ASSUME TypeInv, [Next]_vars PROVE RowsKept
<1>1. ASSUME NEW a \in Assets, Elapse(a) PROVE RowsKept
    BY <1>1 DEF Elapse, RowsKept, TypeInv, TypeOK, Rows
<1>2. ASSUME NEW a \in Assets, Lapse(a) \/ Damage(a) PROVE RowsKept
    BY <1>2, SameRowsKept DEF Lapse, Damage, scanVars, TypeInv
<1>3. CASE ReleaseStep \/ Crash \/ UNCHANGED vars
    BY <1>3, SameRowsKept
       DEF ReleaseStep, Review, Approve, Revoke, Queue, Sign, Submit, Crash, vars, scanVars, TypeInv
<1> QED
    BY <1>1, <1>2, <1>3, UploadKeepsRows, RoundKeepsRows DEF Next

-----------------------------------------------------------------------------
(* The type invariant *)

LEMMA InitType == Init => TypeInv
BY AssetAssumption
   DEF Init, TypeInv, TypeOK, NewHasNoRow, RoundKnows, Idle, Rows, RoundStates, Contents, IsBundle

LEMMA FaultType == TypeOK /\ Fault => faults' \in 0 .. MaxFaults
BY AssetAssumption DEF TypeOK, Fault

LEMMA UploadType ==
    ASSUME TypeInv, NEW a \in Assets, UploadStep(a)
    PROVE  TypeInv'
<1>1. /\ request' \in [Assets -> {"new", "inserted", "uploaded", "failing",
                                  "accepted", "refused", "lost"}]
      /\ \A b \in Assets : request'[b] = "new" => request[b] = "new"
    BY DEF UploadStep, Insert, Upload, UploadFails, Accept, AcceptFails, Refuse, RefuseFails,
           Advance, TypeInv, TypeOK
<1>2. object' \in [Assets -> Contents]
    BY DEF UploadStep, Insert, Upload, UploadFails, Accept, AcceptFails, Refuse, RefuseFails,
           TypeInv, TypeOK, Contents, scanVars
<1>3. faults' \in 0 .. MaxFaults
    BY AssetAssumption
       DEF UploadStep, Insert, Upload, UploadFails, Accept, AcceptFails, Refuse, RefuseFails,
           Fault, TypeInv, TypeOK
<1>4. UNCHANGED <<round, passed, lapsed, releaseVars>>
    BY DEF UploadStep, Insert, Upload, UploadFails, Accept, AcceptFails, Refuse, RefuseFails, scanVars
<1>5. RowsKept
    BY UploadKeepsRows
<1>6. NewHasNoRow'
    BY <1>1, <1>5 DEF RowsKept, NewHasNoRow, TypeInv
<1> QED
    BY <1>1, <1>2, <1>3, <1>4, <1>5, <1>6
       DEF TypeInv, TypeOK, RoundKnows, RowsKept, releaseVars, IsBundle

\* A round r that becomes new, of which the invariant is true.
LEMMA NewRoundType ==
    ASSUME TypeInv, NEW r \in Rounds, NEW new \in RoundStates,
           round' = [round EXCEPT ![r] = new],
           passed \subseteq passed', passed' \subseteq Assets,
           new.at # "idle" => new.asset \in Assets,
           new.at = "scanning" => new.bytes = "RECORDED",
           new.at = "writing" => new.says # "NOTHING",
           new.says = "CLEAN" => new.asset \in passed'
    PROVE  round' \in [Rounds -> RoundStates] /\ passed' \subseteq Assets /\ RoundKnows'
<1>1. round' \in [Rounds -> RoundStates] /\ \A s \in Rounds : round'[s] = IF s = r THEN new ELSE round[s]
    BY DEF TypeInv, TypeOK
<1> QED
    BY <1>1 DEF TypeInv, RoundKnows

LEMMA RoundType ==
    ASSUME TypeInv, NEW r \in Rounds, RoundStep(r)
    PROVE  TypeInv'
<1> DEFINE Good == round' \in [Rounds -> RoundStates] /\ passed' \subseteq Assets /\ RoundKnows'
<1>0. /\ round[r] \in RoundStates /\ passed \subseteq Assets
      /\ round[r] = [at |-> round[r].at, asset |-> round[r].asset,
                     bytes |-> round[r].bytes, says |-> round[r].says]
      /\ round[r].at # "idle" => round[r].asset \in Assets
      /\ round[r].at = "scanning" => round[r].bytes = "RECORDED"
      /\ round[r].says = "CLEAN" => round[r].asset \in passed
    BY DEF TypeInv, TypeOK, RoundKnows, RoundStates
<1>1. Good
    <2>1. ASSUME NEW a \in Assets, Claim(r, a) PROVE Good
        <3> DEFINE new == [Idle EXCEPT !.at = "fetching", !.asset = a]
        <3>0. Idle \in RoundStates /\ Idle.says = "NOTHING"
            BY DEF Idle, RoundStates, Contents
        <3>1. new \in RoundStates
            BY <3>0 DEF RoundStates
        <3>2. round' = [round EXCEPT ![r] = new] /\ passed' = passed
            BY <2>1 DEF Claim
        <3>3. new.asset = a /\ new.at = "fetching" /\ new.says = "NOTHING"
            BY <3>0 DEF RoundStates
        <3> HIDE DEF new
        <3> QED
            BY <1>0, <3>1, <3>2, <3>3, NewRoundType
    <2>2. CASE Fetch(r)
        <3>1. PICK new \in RoundStates :
                /\ round' = [round EXCEPT ![r] = new] /\ new.asset = round[r].asset
                /\ \/ new.at = "scanning" /\ new.bytes = "RECORDED" /\ new.says = round[r].says
                   \/ new.at = "writing" /\ new.says = "MISMATCH"
            <4>1. CASE object[round[r].asset] = "RECORDED"
                <5> DEFINE new == [round[r] EXCEPT !.at = "scanning", !.bytes = "RECORDED"]
                <5>1. /\ new \in RoundStates /\ new.asset = round[r].asset
                      /\ new.at = "scanning" /\ new.bytes = "RECORDED" /\ new.says = round[r].says
                    BY <1>0 DEF RoundStates, Contents
                <5>2. round' = [round EXCEPT ![r] = new]
                    BY <2>2, <4>1 DEF Fetch, TypeInv, TypeOK
                <5> QED
                    BY <5>1, <5>2
            <4>2. CASE object[round[r].asset] # "RECORDED"
                <5> DEFINE new == [round[r] EXCEPT !.at = "writing", !.says = "MISMATCH"]
                <5>1. /\ new \in RoundStates /\ new.asset = round[r].asset
                      /\ new.at = "writing" /\ new.says = "MISMATCH"
                    BY <1>0 DEF RoundStates, Contents
                <5>2. round' = [round EXCEPT ![r] = new]
                    BY <2>2, <4>2 DEF Fetch, TypeInv, TypeOK
                <5> QED
                    BY <5>1, <5>2
            <4> QED
                BY <4>1, <4>2
        <3>2. round[r].at = "fetching" /\ passed' = passed
            BY <2>2 DEF Fetch
        <3> QED
            BY <1>0, <3>1, <3>2, NewRoundType
    <2>3. ASSUME NEW says \in {"CLEAN", "MALWARE"}, Scan(r, says) PROVE Good
        <3> DEFINE new == [round[r] EXCEPT !.at = "writing", !.says = says]
        <3>1. /\ new \in RoundStates /\ new.asset = round[r].asset
              /\ new.at = "writing" /\ new.says = says
            BY <1>0 DEF RoundStates
        <3>2. round' = [round EXCEPT ![r] = new]
            BY <2>3 DEF Scan, TypeInv, TypeOK
        <3>3. round[r].asset \in Assets /\ round[r].bytes = "RECORDED"
            BY <1>0, <2>3 DEF Scan
        <3>4. passed' = IF says = "CLEAN" THEN passed \cup {round[r].asset} ELSE passed
            BY <2>3, <3>3 DEF Scan
        <3> HIDE DEF new
        <3> QED
            BY <1>0, <3>1, <3>2, <3>3, <3>4, NewRoundType
    <2>4. CASE ScanFails(r) \/ WriteFails(r)
        <3> DEFINE new == [round[r] EXCEPT !.at = "writing", !.says = "UNAVAILABLE"]
        <3>1. /\ new \in RoundStates /\ new.asset = round[r].asset
              /\ new.at = "writing" /\ new.says = "UNAVAILABLE"
            BY <1>0 DEF RoundStates
        <3>2. passed' = passed /\ round[r].at # "idle"
            BY <2>4 DEF ScanFails, WriteFails
        <3>3. round' = [round EXCEPT ![r] = new]
            <4>1. CASE ScanFails(r)
                BY <4>1 DEF ScanFails, TypeInv, TypeOK
            <4>2. CASE WriteFails(r)
                <5>1. new = [round[r] EXCEPT !.says = "UNAVAILABLE"]
                    BY <1>0, <4>2 DEF WriteFails, RoundStates
                <5>2. round' = [round EXCEPT ![r] = [round[r] EXCEPT !.says = "UNAVAILABLE"]]
                    BY <4>2 DEF WriteFails, TypeInv, TypeOK
                <5> HIDE DEF new
                <5> QED
                    BY <5>1, <5>2
            <4> QED
                BY <2>4, <4>1, <4>2
        <3> HIDE DEF new
        <3> QED
            BY <1>0, <3>1, <3>2, <3>3, NewRoundType
    <2>5. CASE Write(r)
        <3>1. Idle \in RoundStates /\ Idle.at = "idle" /\ Idle.says = "NOTHING"
            BY DEF Idle, RoundStates, Contents
        <3>2. round' = [round EXCEPT ![r] = Idle] /\ passed' = passed
            BY <2>5 DEF Write
        <3> QED
            BY <1>0, <3>1, <3>2, NewRoundType
    <2> QED
        BY <2>1, <2>2, <2>3, <2>4, <2>5 DEF RoundStep
<1>2. faults' = faults \/ Fault
    BY DEF RoundStep, Claim, Fetch, Scan, ScanFails, Write, WriteFails
<1>3. UNCHANGED <<request, object, lapsed, releaseVars>>
    BY DEF RoundStep, Claim, Fetch, Scan, ScanFails, Write, WriteFails
<1>4. RowsKept
    BY RoundKeepsRows
<1>5. NewHasNoRow'
    BY <1>3, <1>4 DEF RowsKept, NewHasNoRow, TypeInv
<1> HIDE DEF Good
<1>6. faults' \in 0 .. MaxFaults
    BY <1>2, FaultType DEF TypeInv, TypeOK
<1>7. TypeOK'
    BY <1>1, <1>6, <1>3, <1>4 DEF Good, RowsKept, releaseVars, IsBundle, TypeInv, TypeOK
<1> QED
    BY <1>1, <1>5, <1>7 DEF TypeInv, Good

LEMMA OtherType ==
    ASSUME TypeInv,
           \/ ReleaseStep \/ Crash \/ UNCHANGED vars
           \/ \E a \in Assets : Elapse(a) \/ Lapse(a) \/ Damage(a)
    PROVE  TypeInv'
<1>1. RowsKept
    <2>1. [Next]_vars
        BY DEF Next
    <2> QED
        BY <2>1, StepKeepsRows
<1>2. CASE ReleaseStep
    <2>1. UNCHANGED <<request, object, scanVars, lapsed, faults>>
        BY <1>2 DEF ReleaseStep, Review, Approve, Revoke, Queue, Sign, Submit
    <2>2. Present \in SUBSET Assets /\ Package \in (SUBSET Assets) \cup {NONE}
        BY DEF Present, Package
    <2>3. /\ IsBundle(reviewing)' /\ IsBundle(approval)' /\ IsBundle(intent)'
          /\ IsBundle(manifest)' /\ IsBundle(submitted)'
        BY <1>2, <2>2
           DEF ReleaseStep, Review, Approve, Revoke, Queue, Sign, Submit, IsBundle, TypeInv, TypeOK
    <2> QED
        BY <2>1, <2>3 DEF TypeInv, TypeOK, NewHasNoRow, RoundKnows, scanVars
<1>3. CASE Crash
    <2>1. /\ Idle \in RoundStates /\ Idle.at = "idle" /\ Idle.says = "NOTHING"
          /\ round' = [r \in Rounds |-> Idle]
        BY <1>3 DEF Crash, Idle, RoundStates, Contents
    <2>2. /\ request' \in [Assets -> {"new", "inserted", "uploaded", "failing",
                                      "accepted", "refused", "lost"}]
          /\ \A a \in Assets : request'[a] = "new" => request[a] = "new"
        BY <1>3 DEF Crash, TypeInv, TypeOK
    <2>3. UNCHANGED <<object, row, passed, lapsed, releaseVars>> /\ faults' \in 0 .. MaxFaults
        BY <1>3, FaultType DEF Crash, TypeInv
    <2> QED
        BY <2>1, <2>2, <2>3
           DEF TypeInv, TypeOK, NewHasNoRow, RoundKnows, releaseVars, IsBundle
<1>4. ASSUME NEW a \in Assets, Elapse(a) \/ Lapse(a) \/ Damage(a) PROVE TypeInv'
    <2>1. UNCHANGED <<request, round, passed, releaseVars>>
        BY <1>4 DEF Elapse, Lapse, Damage, scanVars
    <2>2. object' \in [Assets -> Contents] /\ lapsed' \subseteq Assets
        BY <1>4 DEF Elapse, Lapse, Damage, TypeInv, TypeOK, Contents
    <2>3. faults' \in 0 .. MaxFaults
        BY <1>4, FaultType DEF Elapse, Lapse, Damage, TypeInv, TypeOK
    <2> QED
        BY <1>1, <2>1, <2>2, <2>3
           DEF TypeInv, TypeOK, NewHasNoRow, RoundKnows, RowsKept, releaseVars, IsBundle
<1>5. CASE UNCHANGED vars
    BY <1>5 DEF vars, scanVars, releaseVars, TypeInv, TypeOK, IsBundle, NewHasNoRow, RoundKnows
<1> QED
    BY <1>2, <1>3, <1>4, <1>5

LEMMA NextType == TypeInv /\ [Next]_vars => TypeInv'
BY UploadType, RoundType, OtherType DEF Next

-----------------------------------------------------------------------------
(* The bundles *)

\* What ClamAV called clean stays so.
LEMMA PassedGrows == ASSUME TypeInv, [Next]_vars PROVE passed \subseteq passed'
BY DEF Next, UploadStep, Insert, Upload, UploadFails, Accept, AcceptFails, Refuse, RefuseFails,
       RoundStep, Claim, Fetch, Scan, ScanFails, Write, WriteFails,
       ReleaseStep, Review, Approve, Revoke, Queue, Sign, Submit,
       Elapse, Lapse, Damage, Crash, vars, scanVars

LEMMA PresentGrows == ASSUME TypeInv, RowsKept PROVE Present \subseteq Present'
BY DEF Present, RowsKept

\* A package is all there is, and all of it scanned clean.
LEMMA PackageScanned ==
    ASSUME IInv, Package # NONE
    PROVE  Package = Present /\ Package \subseteq passed
BY DEF Package, AllReady, Ready, Present, IInv, CleanWasScanned

LEMMA NextInv == IInv /\ [Next]_vars => IInv'
<1> SUFFICES ASSUME IInv, [Next]_vars PROVE IInv'
    OBVIOUS
<1>1. TypeInv' /\ RowsKept /\ passed \subseteq passed' /\ Present \subseteq Present'
    BY NextType, StepKeepsRows, PassedGrows, PresentGrows DEF IInv
<1>2. CleanWasScanned'
    BY <1>1 DEF RowsKept, CleanWasScanned, IInv
<1>3. BundlesGrow'
    <2>1. CASE UNCHANGED releaseVars
        BY <1>1, <2>1 DEF releaseVars, BundlesGrow, IInv
    <2>2. CASE Review \/ Approve \/ Revoke \/ Queue
        BY <1>1, <2>2 DEF Review, Approve, Revoke, Queue, BundlesGrow, IInv
    <2>3. CASE Sign
        BY <1>1, <2>3, PackageScanned DEF Sign, BundlesGrow, IInv
    <2>4. CASE Submit
        BY <1>1, <2>4 DEF Submit, BundlesGrow, IInv
    <2>5. \/ UNCHANGED releaseVars \/ Review \/ Approve \/ Revoke \/ Queue \/ Sign \/ Submit
        BY DEF Next, UploadStep, Insert, Upload, UploadFails, Accept, AcceptFails, Refuse, RefuseFails,
               RoundStep, Claim, Fetch, Scan, ScanFails, Write, WriteFails,
               ReleaseStep, Elapse, Lapse, Damage, Crash, vars
    <2> QED
        BY <2>1, <2>2, <2>3, <2>4, <2>5
<1> QED
    BY <1>1, <1>2, <1>3 DEF IInv

LEMMA InitInv == Init => IInv
BY InitType DEF IInv, Init, CleanWasScanned, BundlesGrow

LEMMA AlwaysIInv == Spec => []IInv
BY InitInv, NextInv, PTL DEF Spec

-----------------------------------------------------------------------------
\* Every variable keeps its type.
THEOREM TypeCorrect == Spec => []TypeOK
<1>1. IInv => TypeOK
    BY DEF IInv, TypeInv
<1> QED
    BY <1>1, AlwaysIInv, PTL

\* Only assets whose uploaded bytes ClamAV called clean are submitted
\* (updateAssetScanResult's lease, the hash of the bytes, can_create_approval
\* and build_gateway_release_package, together).
THEOREM OnlyScannedIsSubmitted == Spec => []SubmittedWasScanned
<1>1. IInv => SubmittedWasScanned
    BY DEF IInv, BundlesGrow, SubmittedWasScanned
<1> QED
    BY <1>1, AlwaysIInv, PTL

\* A submitted package leaves out none of the assets that were approved for
\* the release.
THEOREM ApprovedIsKept == Spec => []ApprovedIsSubmitted
<1>1. IInv => ApprovedIsSubmitted
    BY DEF IInv, BundlesGrow, ApprovedIsSubmitted
<1> QED
    BY <1>1, AlwaysIInv, PTL

\* CLEAN and REJECTED are final.
THEOREM VerdictsAreFinal == Spec => FinalVerdictStays
<1>1. IInv /\ [Next]_vars => [\A a \in Assets : row[a].status \in {"CLEAN", "REJECTED"}
                                                => row'[a].status = row[a].status]_vars
    BY StepKeepsRows DEF IInv, RowsKept
<1> QED
    BY <1>1, AlwaysIInv, PTL DEF Spec, FinalVerdictStays
=============================================================================
