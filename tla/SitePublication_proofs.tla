----------------------- MODULE SitePublication_proofs -----------------------
(***************************************************************************)
(* What holds of SitePublication for any number of languages and releases: *)
(* in general, and when dispatches run one at a time.                      *)
(*                                                                         *)
(* The type invariant becomes inductive with BranchIsThere: whoever writes *)
(* to the branch or merges it has read one. That a release is reported as  *)
(* published only after it was shown needs two facts more: a file is kept  *)
(* under the language of its release wherever it is (FilesInPlace), and    *)
(* what main holds has been shown (MainWasShown).                          *)
(*                                                                         *)
(* That offers are whole needs that what a dispatch plans and what it is   *)
(* about to push fit the pull request that is open (OffersWhole). That the *)
(* releases nobody cut across are kept is an argument over three commits   *)
(* (UncrossedInv): the branch, what a dispatch builds on, and main after a *)
(* merge. Each has a release of every such edition by the time the next is *)
(* made of it, also when a dispatch that was crossed makes it.             *)
(***************************************************************************)
EXTENDS SitePublication, FiniteSetTheorems, TLAPS

BranchIsThere ==
    /\ \A r \in Releases : stage[r] = "based" => parent[r] \in Parents
    /\ \A r \in Releases : stage[r] \in {"committed", "opening"} => branch \in Parents
    /\ pull.state = "OPEN" => branch \in Parents

\* A tree has each release under its own language.
InPlace(tree) == \A l \in Locales : tree[l] \in Releases => LocaleOf[tree[l]] = l

FilesInPlace ==
    /\ InPlace(main)
    /\ branch \in Parents => InPlace(branch.tree)
    /\ \A r \in Releases : parent[r] \in Parents => InPlace(parent[r].tree)

MainWasShown == \A l \in Locales : main[l] \in Releases => main[l] \in shown

TypeInv == TypeOK /\ BranchIsThere
IInv == TypeInv /\ FilesInPlace /\ MainWasShown /\ PublishedWasShown

-----------------------------------------------------------------------------
(* The type invariant *)

LEMMA InitType == Init => TypeInv
BY SiteAssumption DEF Init, TypeInv, TypeOK, BranchIsThere, Trees, Parents, PullStates, Stages

\* What a dispatch pushes is a commit.
LEMMA PushType ==
    ASSUME TypeOK, NEW r \in Releases, parent[r] \in Parents, Push(r)
    PROVE  branch' \in Parents
<1>1. LocaleOf[r] \in Locales /\ r \in Releases \cup {OLD, NONE}
    BY SiteAssumption
<1>2. [parent[r].tree EXCEPT ![LocaleOf[r]] = r] \in Trees /\ parent[r].base \in Trees
    BY <1>1 DEF Parents, Trees
<1>3. (IF branch = NONE THEN 1 ELSE branch.head + 1) \in Nat
    BY DEF TypeOK, Parents
<1> QED
    BY <1>2, <1>3 DEF Push, Parents

LEMMA NextType == TypeInv /\ [Next]_vars => TypeInv'
<1> SUFFICES ASSUME TypeInv, [Next]_vars PROVE TypeInv'
    OBVIOUS
<1> USE SiteAssumption DEF TypeInv, TypeOK, BranchIsThere, Goes, siteVars, gitVars, planVars, watchVars,
                           budgetVars, Trees, Parents, PullStates, Stages, UnderWay, Settled
<1>0. crossed' \subseteq Releases
    BY DEF Next, Crossing, vars
<1>1. ASSUME NEW r \in Releases, Look(r) PROVE TypeInv'
    BY <1>0, <1>1 DEF Look
<1>2. ASSUME NEW r \in Releases, ReadParent(r) PROVE TypeInv'
    BY <1>0, <1>2 DEF ReadParent
<1>3. ASSUME NEW r \in Releases, Commit(r) PROVE TypeInv'
    <2>1. parent[r] \in Parents /\ (branch' = branch \/ branch' \in Parents)
        BY <1>3, PushType DEF Commit
    <2>2. Unmoved(r) => branch' \in Parents
        BY <1>3, <2>1, PushType DEF Commit
    <2> QED
        BY <1>0, <1>3, <2>1, <2>2 DEF Commit
<1>4. ASSUME NEW r \in Releases, AskForPull(r) PROVE TypeInv'
    BY <1>0, <1>4 DEF AskForPull
<1>5. ASSUME NEW r \in Releases, OpenPull(r) PROVE TypeInv'
    BY <1>0, <1>5 DEF OpenPull, OpenedPull
<1>6. ASSUME NEW r \in Releases, RecordAccepted(r) PROVE TypeInv'
    BY <1>0, <1>6 DEF RecordAccepted
<1>7. ASSUME NEW r \in Releases, RequestFails(r) PROVE TypeInv'
    BY <1>0, <1>7 DEF RequestFails, Fault
<1>8. ASSUME NEW r \in Releases, CommitAnswerLost(r) PROVE TypeInv'
    BY <1>0, <1>8 DEF CommitAnswerLost, Fault, Unmoved, Push
<1>9. ASSUME NEW r \in Releases, OpeningLost(r) PROVE TypeInv'
    BY <1>0, <1>9 DEF OpeningLost, Fault, OpenedPull
<1>10. ASSUME NEW r \in Releases, WatchFile(r) PROVE TypeInv'
    BY <1>0, <1>10 DEF WatchFile
<1>11. ASSUME NEW r \in Releases, WatchPull(r) PROVE TypeInv'
    BY <1>0, <1>11 DEF WatchPull
<1>12. CASE Merge
    BY <1>0, <1>12 DEF Merge, EndPull, Changed
<1>13. CASE Close
    BY <1>0, <1>13 DEF Close, EndPull
<1>14. CASE UNCHANGED vars
    BY <1>14 DEF vars, codeVars
<1> QED
    BY <1>1, <1>2, <1>3, <1>4, <1>5, <1>6, <1>7, <1>8, <1>9, <1>10, <1>11, <1>12, <1>13, <1>14 DEF Next, Dispatch

\* Every variable keeps its type, however many dispatches are under way and
\* whatever fails between their requests.
THEOREM TypeCorrectness == Spec => []TypeOK
<1>1. TypeInv => TypeOK
    BY DEF TypeInv
<1> QED
    BY <1>1, InitType, NextType, PTL DEF Spec

-----------------------------------------------------------------------------
(* Published releases were shown *)

LEMMA InitInv == Init => IInv
<1> SUFFICES ASSUME Init PROVE IInv
    OBVIOUS
<1>1. TypeInv
    BY InitType
<1>2. FilesInPlace /\ MainWasShown
    BY SiteAssumption, NoneAssumption, <1>1 DEF Init, FilesInPlace, MainWasShown, InPlace, TypeInv, TypeOK
<1>3. PublishedWasShown
    BY DEF Init, PublishedWasShown
<1> QED
    BY <1>1, <1>2, <1>3 DEF IInv

\* What a dispatch pushes is in place.
LEMMA PushInPlace ==
    ASSUME TypeOK, NEW r \in Releases, parent[r] \in Parents, InPlace(parent[r].tree), Push(r)
    PROVE  InPlace(branch'.tree)
<1>1. branch'.tree = [parent[r].tree EXCEPT ![LocaleOf[r]] = r]
    BY DEF Push
<1>2. parent[r].tree \in Trees
    BY DEF Parents
<1>3. ASSUME NEW l \in Locales, branch'.tree[l] \in Releases
      PROVE  LocaleOf[branch'.tree[l]] = l
    <2>1. CASE l = LocaleOf[r]
        BY <1>1, <1>2, <2>1 DEF Trees
    <2>2. CASE l # LocaleOf[r]
        BY <1>1, <1>2, <1>3, <2>2 DEF Trees, InPlace
    <2> QED
        BY <2>1, <2>2
<1> QED
    BY <1>3 DEF InPlace

\* Without a merge or a push the files stay where they are.
LEMMA FilesStay ==
    ASSUME IInv, UNCHANGED siteVars, UNCHANGED branch, UNCHANGED parent
    PROVE  FilesInPlace' /\ MainWasShown'
BY DEF IInv, FilesInPlace, MainWasShown, InPlace, siteVars

LEMMA NextInv == IInv /\ [Next]_vars => IInv'
<1> SUFFICES ASSUME IInv, [Next]_vars PROVE IInv'
    OBVIOUS
<1>1. TypeInv'
    BY NextType DEF IInv
<1> USE DEF siteVars, gitVars, planVars
<1>2. FilesInPlace' /\ MainWasShown'
    <2>1. ASSUME NEW r \in Releases, ReadParent(r) PROVE FilesInPlace' /\ MainWasShown'
        BY <2>1 DEF ReadParent, IInv, TypeInv, TypeOK, FilesInPlace, MainWasShown, InPlace, Parents
    <2>2. ASSUME NEW r \in Releases, Commit(r) \/ CommitAnswerLost(r), Push(r)
          PROVE  FilesInPlace' /\ MainWasShown'
        <3>1. parent[r] \in Parents /\ UNCHANGED <<parent, siteVars>>
            BY <2>2 DEF Commit, CommitAnswerLost, Fault, Goes, IInv, TypeInv, BranchIsThere
        <3>2. InPlace(branch'.tree)
            BY <2>2, <3>1, PushInPlace DEF IInv, TypeInv, FilesInPlace
        <3> QED
            BY <3>1, <3>2 DEF IInv, FilesInPlace, MainWasShown, InPlace
    <2>3. CASE Merge
        <3>1. /\ branch \in Parents /\ UNCHANGED parent /\ main \in Trees
              /\ branch' = [branch EXCEPT !.base = branch.tree]
              /\ main' = [l \in Locales |-> IF Changed(l) THEN branch.tree[l] ELSE main[l]]
              /\ shown' = shown \cup {r \in Releases : main'[LocaleOf[r]] = r}
            BY <2>3 DEF Merge, EndPull, IInv, TypeInv, TypeOK, BranchIsThere
        <3>2. branch'.tree = branch.tree
            BY <3>1 DEF Parents
        <3>3. InPlace(branch.tree) /\ InPlace(main)
            BY <3>1 DEF IInv, FilesInPlace
        <3>4. InPlace(main')
            BY <3>1, <3>3 DEF InPlace
        <3>5. MainWasShown'
            BY <3>1, <3>4 DEF InPlace, MainWasShown
        <3> QED
            BY <3>1, <3>2, <3>3, <3>4, <3>5 DEF IInv, FilesInPlace, InPlace
    <2>4. CASE UNCHANGED <<siteVars, branch, parent>>
        BY <2>4, FilesStay
    <2>5. ASSUME NEW r \in Releases, ~Push(r),
                 Dispatch(r) \/ RequestFails(r) \/ CommitAnswerLost(r) \/ OpeningLost(r)
                   \/ WatchFile(r) \/ WatchPull(r)
          PROVE  ReadParent(r) \/ UNCHANGED <<siteVars, branch, parent>>
        BY <2>5 DEF Dispatch, Look, Commit, AskForPull, OpenPull, RecordAccepted, RequestFails,
                    CommitAnswerLost, OpeningLost, Fault, WatchFile, WatchPull
    <2>6. ASSUME NEW r \in Releases, Push(r),
                 Dispatch(r) \/ RequestFails(r) \/ CommitAnswerLost(r) \/ OpeningLost(r)
                   \/ WatchFile(r) \/ WatchPull(r)
          PROVE  \/ Commit(r) \/ CommitAnswerLost(r) \/ ReadParent(r)
                 \/ UNCHANGED <<siteVars, branch, parent>>
        BY <2>6 DEF Dispatch, Look, AskForPull, OpenPull, RecordAccepted, RequestFails,
                    OpeningLost, Fault, WatchFile, WatchPull
    <2>7. CASE Close \/ UNCHANGED vars
        BY <2>7, <2>4 DEF Close, EndPull, vars, codeVars
    <2> QED
        BY <2>1, <2>2, <2>3, <2>4, <2>5, <2>6, <2>7 DEF Next
<1>3. PublishedWasShown'
    <2>1. shown \subseteq shown'
        BY DEF Next, Dispatch, Look, ReadParent, Commit, AskForPull, OpenPull, RecordAccepted,
               RequestFails, CommitAnswerLost, OpeningLost, Fault, Merge, Close, WatchFile,
               WatchPull, vars, codeVars
    <2>2. ASSUME NEW r \in Releases, stage'[r] = "published"
          PROVE  stage[r] = "published" \/ main[LocaleOf[r]] = r
        <3> USE <2>2 DEF Goes, IInv, TypeInv, TypeOK
        <3>1. ASSUME NEW q \in Releases, WatchFile(q)
              PROVE  stage[r] = "published" \/ main[LocaleOf[r]] = r
            BY <3>1 DEF WatchFile
        <3>2. ASSUME NEW q \in Releases, WatchPull(q) PROVE stage[r] = "published"
            BY <3>2 DEF WatchPull
        <3>3. ASSUME NEW q \in Releases,
                     Dispatch(q) \/ RequestFails(q) \/ CommitAnswerLost(q) \/ OpeningLost(q)
              PROVE  stage[r] = "published"
            BY <3>3 DEF Dispatch, Look, ReadParent, Commit, AskForPull, OpenPull, RecordAccepted,
                        RequestFails, CommitAnswerLost, OpeningLost
        <3>4. CASE Merge \/ Close \/ UNCHANGED vars
            BY <3>4 DEF Merge, Close, EndPull, vars, codeVars
        <3> QED
            BY <3>1, <3>2, <3>3, <3>4 DEF Next
    <2>3. ASSUME NEW r \in Releases, main[LocaleOf[r]] = r PROVE r \in shown
        BY <2>3, SiteAssumption DEF IInv, MainWasShown
    <2> QED
        BY <2>1, <2>2, <2>3 DEF IInv, PublishedWasShown
<1> QED
    BY <1>1, <1>2, <1>3 DEF IInv

\* The gateway reports a release as published only after it was on the site's
\* main branch, whatever the owner and other dispatches do between its reads.
THEOREM PublishedIsTrue == Spec => []PublishedWasShown
<1>1. IInv => PublishedWasShown
    BY DEF IInv
<1> QED
    BY <1>1, InitInv, NextInv, PTL DEF Spec
-----------------------------------------------------------------------------
(* One dispatch at a time: the owner is offered whole articles *)

OneUnderWay ==
    \A q, r \in Releases : stage[q] \in UnderWay /\ stage[r] \in UnderWay => q = r

Whole(tree) == \A l \in Locales : tree[l] # NONE

\* A dispatch under an open pull request extends its branch, and one that opens a
\* pull request has found every language on the branch.
OffersWhole ==
    /\ \A r \in Releases :
        /\ stage[r] = "looked" /\ pull.state = "OPEN" => plan[r].extend
        /\ stage[r] = "based" /\ pull.state = "OPEN" => Whole(parent[r].tree)
        /\ stage[r] = "committed" => branch.tree[LocaleOf[r]] # NONE
        /\ stage[r] = "opening" => Whole(branch.tree)
    /\ OfferIsWhole

AloneInv == OneUnderWay /\ OffersWhole

LEMMA InitAlone == Init => AloneInv
BY DEF Init, AloneInv, OneUnderWay, OffersWhole, OfferIsWhole, UnderWay

\* A dispatch starts when none is under way.
LEMMA LookIsAlone ==
    ASSUME AtOnce = 1, OneUnderWay, NEW r \in Releases, Look(r)
    PROVE  \A q \in Releases : stage[q] \notin UnderWay
<1> DEFINE going == {q \in Releases : stage[q] \in UnderWay}
<1> SUFFICES ASSUME NEW q \in Releases, stage[q] \in UnderWay PROVE FALSE
    OBVIOUS
<1>1. q \in going /\ \A x \in going : x = q
    BY DEF OneUnderWay
<1>2. Cardinality(going) < 1
    BY DEF Look
<1> HIDE DEF going
<1>3. going = {q}
    BY <1>1
<1>4. Cardinality({q}) = 1
    BY FS_Singleton
<1> QED
    BY <1>2, <1>3, <1>4

LEMMA NextAlone == ASSUME AtOnce = 1 PROVE TypeInv /\ OneUnderWay /\ [Next]_vars => OneUnderWay'
<1> SUFFICES ASSUME TypeInv, OneUnderWay, [Next]_vars PROVE OneUnderWay'
    OBVIOUS
<1> USE DEF Goes, TypeInv, TypeOK
<1>1. ASSUME NEW r \in Releases, Look(r) PROVE OneUnderWay'
    BY <1>1, LookIsAlone DEF Look, OneUnderWay
<1>2. ASSUME NEW r \in Releases,
             ReadParent(r) \/ Commit(r) \/ AskForPull(r) \/ OpenPull(r) \/ RecordAccepted(r)
      PROVE  OneUnderWay'
    BY <1>2 DEF ReadParent, Commit, AskForPull, OpenPull, RecordAccepted, OneUnderWay, UnderWay
<1>3. ASSUME NEW r \in Releases,
             RequestFails(r) \/ CommitAnswerLost(r) \/ OpeningLost(r) \/ WatchFile(r) \/ WatchPull(r)
      PROVE  OneUnderWay'
    BY <1>3 DEF RequestFails, CommitAnswerLost, OpeningLost, WatchFile, WatchPull, OneUnderWay, UnderWay
<1>4. CASE Merge \/ Close \/ UNCHANGED vars
    BY <1>4 DEF Merge, Close, EndPull, vars, codeVars, OneUnderWay
<1> QED
    BY <1>1, <1>2, <1>3, <1>4 DEF Next, Dispatch

\* What a dispatch pushes has its own file and those of the commit it builds on.
LEMMA PushFiles ==
    ASSUME TypeInv, NEW r \in Releases, stage[r] = "based", Push(r)
    PROVE  /\ parent[r] \in Parents /\ branch' \in Parents
           /\ branch'.tree[LocaleOf[r]] = r
           /\ \A l \in Locales \ {LocaleOf[r]} : branch'.tree[l] = parent[r].tree[l]
<1>1. parent[r] \in Parents /\ parent[r].tree \in Trees
    BY DEF TypeInv, BranchIsThere, Parents
<1>2. branch'.tree = [parent[r].tree EXCEPT ![LocaleOf[r]] = r]
    BY DEF Push
<1> QED
    BY <1>1, <1>2, PushType, SiteAssumption DEF TypeInv, Trees

\* The stages of the other releases, and which of them are under way, when a
\* dispatch takes a step.
LEMMA OthersRest ==
    ASSUME TypeInv, OneUnderWay, NEW r \in Releases, NEW to,
           stage[r] \in UnderWay, stage' = [stage EXCEPT ![r] = to]
    PROVE  /\ stage'[r] = to
           /\ \A q \in Releases \ {r} : stage'[q] = stage[q] /\ stage'[q] \notin UnderWay
BY DEF TypeInv, TypeOK, OneUnderWay

LEMMA NextOffers == ASSUME AtOnce = 1 PROVE TypeInv /\ AloneInv /\ [Next]_vars => OffersWhole'
<1> SUFFICES ASSUME TypeInv, AloneInv, [Next]_vars PROVE OffersWhole'
    OBVIOUS
<1>0. OneUnderWay /\ OffersWhole /\ OfferIsWhole /\ NONE \notin Releases
    BY SiteAssumption DEF AloneInv, OffersWhole
<1> USE DEF Goes, OffersWhole, OfferIsWhole, Whole
<1>1. ASSUME NEW r \in Releases, Look(r) PROVE OffersWhole'
    <2>1. /\ stage'[r] = "looked" /\ \A q \in Releases \ {r} : stage'[q] = stage[q] /\ stage[q] \notin UnderWay
          /\ pull.state = "OPEN" => plan'[r].extend
          /\ UNCHANGED <<pull, branch, parent>>
        BY <1>0, <1>1, LookIsAlone DEF Look, TypeInv, TypeOK, gitVars
    <2> QED
        BY <1>0, <2>1 DEF UnderWay
<1>2. ASSUME NEW r \in Releases, ReadParent(r) PROVE OffersWhole'
    <2>1. /\ stage'[r] = "based" /\ \A q \in Releases \ {r} : stage'[q] \notin UnderWay
        BY <1>0, <1>2, OthersRest DEF ReadParent, UnderWay
    <2>2. UNCHANGED <<pull, branch>> /\ (pull.state = "OPEN" => parent'[r] = branch)
        BY <1>0, <1>2, NoneAssumption DEF ReadParent, gitVars, TypeInv, TypeOK, BranchIsThere
    <2> QED
        BY <1>0, <2>1, <2>2 DEF UnderWay
<1>3. ASSUME NEW r \in Releases, stage[r] = "based", Push(r), UNCHANGED pull,
             Goes(r, "based", "committed") \/ Goes(r, "based", "failed")
      PROVE  OffersWhole'
    <2>1. /\ stage'[r] \in {"committed", "failed"} /\ \A q \in Releases \ {r} : stage'[q] \notin UnderWay
        BY <1>0, <1>3, OthersRest DEF UnderWay
    <2>2. branch'.tree[LocaleOf[r]] # NONE
        BY <1>0, <1>3, PushFiles
    <2>3. OfferIsWhole'
        BY <1>0, <1>3, PushFiles
    <2> QED
        BY <2>1, <2>2, <2>3 DEF UnderWay
<1>4. ASSUME NEW r \in Releases, Commit(r) PROVE OffersWhole'
    <2>1. CASE Unmoved(r)
        BY <1>3, <1>4, <2>1 DEF Commit
    <2>2. CASE ~Unmoved(r)
        <3>1. /\ stage[r] = "based" /\ stage' = [stage EXCEPT ![r] = "failed"]
              /\ UNCHANGED <<branch, pull>>
            BY <1>4, <2>2 DEF Commit
        <3>2. stage[r] \in UnderWay
            BY <3>1 DEF UnderWay
        <3>3. /\ stage'[r] = "failed" /\ \A q \in Releases \ {r} : stage'[q] \notin UnderWay
            BY <1>0, <3>1, <3>2, OthersRest
        <3> QED
            BY <1>0, <3>1, <3>3 DEF UnderWay
    <2> QED
        BY <2>1, <2>2
<1>5. ASSUME NEW r \in Releases, AskForPull(r) PROVE OffersWhole'
    <2>1. /\ stage'[r] \in {"opening", "accepted"} /\ \A q \in Releases \ {r} : stage'[q] \notin UnderWay
          /\ stage'[r] = "opening" => OthersOnBranch(r)
        BY <1>0, <1>5, OthersRest DEF AskForPull, UnderWay
    <2>2. stage[r] = "committed" /\ branch.tree[LocaleOf[r]] # NONE /\ UNCHANGED <<pull, branch>>
        BY <1>0, <1>5 DEF AskForPull, gitVars
    <2> QED
        BY <1>0, <2>1, <2>2 DEF OthersOnBranch, UnderWay
<1>6. ASSUME NEW r \in Releases, OpenPull(r) \/ OpeningLost(r) PROVE OffersWhole'
    <2>1. /\ stage'[r] \in {"failed", "accepted", "ambiguous"}
          /\ \A q \in Releases \ {r} : stage'[q] \notin UnderWay
        BY <1>0, <1>6, OthersRest DEF OpenPull, OpeningLost, UnderWay
    <2>2. stage[r] = "opening" /\ UNCHANGED branch
        BY <1>6 DEF OpenPull, OpeningLost
    <2> QED
        BY <1>0, <2>1, <2>2 DEF UnderWay
<1>7. ASSUME NEW r \in Releases,
             RecordAccepted(r) \/ RequestFails(r) \/ WatchFile(r) \/ WatchPull(r)
      PROVE  OffersWhole'
    <2>1. /\ UNCHANGED <<pull, branch, plan, parent>>
          /\ \A q \in Releases : stage'[q] = stage[q] \/ stage'[q] \notin UnderWay
        BY <1>7 DEF RecordAccepted, RequestFails, Fault, WatchFile, WatchPull, gitVars, planVars, TypeInv,
                    TypeOK, UnderWay
    <2> QED
        BY <1>0, <2>1 DEF UnderWay
<1>8. CASE Merge
    <2>1. /\ pull'.state = "MERGED" /\ UNCHANGED <<stage, plan, parent>> /\ branch'.tree = branch.tree
        BY <1>8 DEF Merge, EndPull, planVars, TypeInv, TypeOK, BranchIsThere, Parents
    <2> QED
        BY <1>0, <2>1
<1>9. CASE Close \/ UNCHANGED vars
    BY <1>0, <1>9 DEF Close, EndPull, vars, codeVars, gitVars, planVars
<1> QED
    BY <1>1, <1>2, <1>4, <1>5, <1>6, <1>7, <1>8, <1>9, <1>3 DEF Next, Dispatch, CommitAnswerLost, Fault

\* The owner is never offered an article that lacks a language when dispatches
\* run one at a time, whatever the owner does between their requests and whichever
\* of these fail (dispatch: "the pull request waits").
THEOREM OffersAreWhole == ASSUME AtOnce = 1 PROVE Spec => []OfferIsWhole
<1>1. TypeInv /\ AloneInv /\ [Next]_vars => TypeInv' /\ AloneInv'
    BY NextType, NextAlone, NextOffers DEF AloneInv
<1>2. AloneInv => OfferIsWhole
    BY DEF AloneInv, OffersWhole
<1> QED
    BY <1>1, <1>2, InitType, InitAlone, PTL DEF Spec

-----------------------------------------------------------------------------
(* What nobody cut across is kept *)

Free == Releases \ crossed

\* A release that is free is dispatched alone.
Alone ==
    \A r \in Free, q \in Releases : stage[r] \in UnderWay /\ stage[q] \in UnderWay => q = r

Carries(tree, r) == tree[LocaleOf[r]] \in Releases

\* A commit only adds releases to the files it started from, and where these had
\* a release main has one.
Based(c) ==
    \A l \in Locales :
        /\ c.tree[l] \in Releases \/ c.tree[l] = c.base[l]
        /\ c.base[l] \in Releases => main[l] \in Releases

\* So for every commit, whoever pushes and merges when. After a merge the site has
\* every language.
FilesAdd ==
    /\ branch \in Parents => Based(branch)
    /\ \A r \in Releases : stage[r] = "based" => Based(parent[r])
    /\ pull.state = "MERGED" => Whole(main)

\* While a free release is dispatched, what branchState told it stays true; after
\* a merge it builds on main, and so comes to open a pull request.
PlanHolds(r) ==
    /\ stage[r] = "looked" => (plan[r].extend <=> pull.state # "MERGED")
    /\ stage[r] \in {"looked", "based", "committed"} /\ plan[r].open => pull.state = "OPEN"
    /\ pull.state = "MERGED" =>
        /\ stage[r] = "based" => Whole(parent[r].tree)
        /\ stage[r] = "committed" => Whole(branch.tree)
        /\ stage[r] # "accepted"
    /\ stage[r] \in {"committed", "opening", "accepted"} =>
        branch \in Parents /\ Carries(branch.tree, r)

\* A free release that waits has a release of its edition on the branch and, once
\* that is merged, on main; so has whatever a dispatch is to build on.
EditionStays(r) ==
    stage[r] = "pending" =>
        /\ branch \in Parents /\ Carries(branch.tree, r)
        /\ pull.state = "MERGED" => Carries(main, r)
        /\ \A q \in Releases :
            /\ stage[q] = "looked" /\ ~plan[q].extend => Carries(main, r)
            /\ stage[q] = "based" => Carries(parent[q].tree, r)

\* Nothing reached main between the two reads of a round of the watch.
WatchedIsOff(r) == watching = r => main[LocaleOf[r]] # r

FreeInv(r) == ~UnderClosed(r) /\ PlanHolds(r) /\ EditionStays(r) /\ WatchedIsOff(r)

UncrossedInv == Alone /\ FilesAdd /\ \A r \in Free : FreeInv(r)

LEMMA InitUncrossed == Init => UncrossedInv
<1> SUFFICES ASSUME Init PROVE UncrossedInv
    OBVIOUS
<1>1. /\ \A r \in Releases : stage[r] = "approved" /\ watching # r
      /\ branch \notin Parents /\ pull.state = "NONE"
    BY SiteAssumption, NoneAssumption DEF Init
<1>2. Alone /\ FilesAdd
    BY <1>1 DEF Alone, FilesAdd, UnderWay
<1>3. ASSUME NEW r \in Releases PROVE FreeInv(r)
    BY <1>1 DEF FreeInv, UnderClosed, PlanHolds, EditionStays, WatchedIsOff, UnderWay
<1> QED
    BY <1>2, <1>3 DEF UncrossedInv, Free

\* What a release that stays free is spared.
LEMMA StaysFree ==
    ASSUME TypeInv, Crossing, NEW r \in Free'
    PROVE  r \in Free /\ ~Together(r)' /\ ~UnderClosed(r)' /\ ~DecidedUpon(r)
<1>1. r \in Releases /\ r \notin crossed'
    BY DEF Free
<1>2. r \notin crossed
    BY <1>1 DEF Crossing
<1>3. ~(Together(r)' \/ UnderClosed(r)' \/ DecidedUpon(r))
    BY <1>1 DEF Crossing
<1> QED
    BY <1>1, <1>2, <1>3 DEF Free

\* The steps of a dispatch, and that a release that stays free rests meanwhile.
Acts(q) == Dispatch(q) \/ RequestFails(q) \/ CommitAnswerLost(q) \/ OpeningLost(q)

LEMMA FreeRests ==
    ASSUME TypeInv, Alone, Crossing, NEW q \in Releases, Acts(q), NEW r \in Free', r # q
    PROVE  stage'[r] = stage[r] /\ stage[r] \notin UnderWay
<1>1. PICK from, to : /\ stage[q] = from /\ stage' = [stage EXCEPT ![q] = to]
                      /\ from \in UnderWay \/ to \in UnderWay
    BY DEF Acts, Dispatch, Look, ReadParent, Commit, AskForPull, OpenPull, RecordAccepted,
           RequestFails, CommitAnswerLost, OpeningLost, Goes, UnderWay
<1>2. r \in Releases /\ r \in Free /\ ~Together(r)'
    BY StaysFree DEF Free
<1>3. stage'[r] = stage[r] /\ stage'[q] = to
    BY <1>1, <1>2 DEF TypeInv, TypeOK
<1>4. CASE from \in UnderWay
    BY <1>1, <1>2, <1>3, <1>4 DEF Alone
<1>5. CASE to \in UnderWay
    BY <1>2, <1>3, <1>5 DEF Together
<1> QED
    BY <1>1, <1>3, <1>4, <1>5

\* A merge leaves a release where the branch or main had one.
LEMMA MergeFiles ==
    ASSUME TypeInv, FilesAdd, Merge
    PROVE  /\ branch \in Parents /\ branch' \in Parents
           /\ branch'.tree = branch.tree /\ branch'.base = branch.tree
           /\ \A l \in Locales : /\ main[l] \in Releases => main'[l] \in Releases
                                 /\ branch.tree[l] \in Releases => main'[l] \in Releases
                                 /\ main'[l] # NONE
<1>1. branch \in Parents
    BY DEF Merge, EndPull, TypeInv, BranchIsThere
<1>2. /\ main' = [l \in Locales |-> IF Changed(l) THEN branch.tree[l] ELSE main[l]]
      /\ \A l \in Locales : main'[l] # NONE
      /\ branch' = [branch EXCEPT !.base = branch.tree]
    BY DEF Merge
<1>3. branch' \in Parents /\ branch'.tree = branch.tree /\ branch'.base = branch.tree
    BY <1>1, <1>2 DEF Parents
<1>4. \A l \in Locales : /\ branch.tree[l] \in Releases \/ branch.tree[l] = branch.base[l]
                         /\ branch.base[l] \in Releases => main[l] \in Releases
    BY <1>1 DEF FilesAdd, Based
<1> QED
    BY <1>1, <1>2, <1>3, <1>4 DEF Changed

LEMMA NextFilesAdd == TypeInv /\ FilesAdd /\ [Next]_vars => FilesAdd'
<1> SUFFICES ASSUME TypeInv, FilesAdd, [Next]_vars PROVE FilesAdd'
    OBVIOUS
<1> USE DEF Goes, TypeInv, TypeOK
<1>1. ASSUME NEW q \in Releases, ReadParent(q) PROVE FilesAdd'
    <2> DEFINE fresh == [tree |-> main, base |-> main, head |-> 0]
    <2>1. /\ UNCHANGED <<main, branch, pull>>
          /\ parent' = [parent EXCEPT ![q] = IF plan[q].extend /\ branch # NONE THEN branch ELSE fresh]
          /\ \A p \in Releases : stage'[p] = "based" => stage[p] = "based" \/ p = q
        BY <1>1 DEF ReadParent, siteVars, gitVars
    <2>2. Based(fresh)
        BY DEF Based
    <2>3. Based(parent'[q])
        BY <2>1, <2>2 DEF FilesAdd
    <2> HIDE DEF fresh
    <2> QED
        BY <2>1, <2>3 DEF FilesAdd, Based
<1>2. ASSUME NEW q \in Releases, stage[q] = "based", Push(q), UNCHANGED <<main, pull, parent>>,
             Goes(q, "based", "committed") \/ Goes(q, "based", "failed")
      PROVE  FilesAdd'
    <2>1. /\ branch' \in Parents /\ branch'.tree[LocaleOf[q]] = q
          /\ \A l \in Locales \ {LocaleOf[q]} : branch'.tree[l] = parent[q].tree[l]
          /\ branch'.base = parent[q].base
        BY <1>2, PushFiles DEF Push
    <2>2. \A p \in Releases : stage'[p] = "based" => stage[p] = "based"
        BY <1>2
    <2> QED
        BY <1>2, <2>1, <2>2 DEF FilesAdd, Based
<1>3. CASE Merge
    <2>1. /\ stage' = stage /\ parent' = parent
        BY <1>3 DEF Merge, EndPull, planVars
    <2> QED
        BY <1>3, <2>1, MergeFiles DEF FilesAdd, Based, Whole
<1>4. CASE /\ UNCHANGED <<main, branch, parent>>
           /\ pull'.state = "MERGED" => pull.state = "MERGED"
           /\ \A p \in Releases : stage'[p] = "based" => stage[p] = "based"
    BY <1>4 DEF FilesAdd, Based, Whole
<1>5. ASSUME NEW q \in Releases, Commit(q) \/ CommitAnswerLost(q)
      PROVE  FilesAdd'
    <2>1. CASE Push(q)
        <3>1. /\ stage[q] = "based" /\ UNCHANGED <<main, pull, parent>>
              /\ Goes(q, "based", "committed") \/ Goes(q, "based", "failed")
            BY <1>5 DEF Commit, CommitAnswerLost, Fault, siteVars, planVars
        <3> QED
            BY <1>2, <2>1, <3>1
    <2>2. CASE ~Push(q)
        <3>1. /\ UNCHANGED <<main, branch, parent, pull>>
              /\ \A p \in Releases : stage'[p] = "based" => stage[p] = "based"
            BY <1>5, <2>2 DEF Commit, CommitAnswerLost, Fault, siteVars, planVars
        <3> QED
            BY <1>4, <3>1
    <2> QED
        BY <2>1, <2>2
<1>6. ASSUME NEW q \in Releases,
             \/ Look(q) \/ AskForPull(q) \/ RecordAccepted(q) \/ RequestFails(q)
             \/ WatchFile(q) \/ WatchPull(q)
      PROVE  FilesAdd'
    <2>1. /\ UNCHANGED <<main, branch, parent, pull>>
          /\ \A p \in Releases : stage'[p] = "based" => stage[p] = "based"
        BY <1>6 DEF Look, AskForPull, RecordAccepted, RequestFails, WatchFile, WatchPull, Fault,
                    siteVars, gitVars, planVars
    <2> QED
        BY <1>4, <2>1
<1>7. ASSUME NEW q \in Releases, OpenPull(q) \/ OpeningLost(q) PROVE FilesAdd'
    <2>1. /\ UNCHANGED <<main, branch, parent>>
          /\ pull' = pull \/ pull'.state = "OPEN"
          /\ \A p \in Releases : stage'[p] = "based" => stage[p] = "based"
        BY <1>7 DEF OpenPull, OpeningLost, OpenedPull, Fault, siteVars, planVars
    <2> QED
        BY <1>4, <2>1
<1>8. CASE Close \/ UNCHANGED vars
    <2>1. /\ UNCHANGED <<main, branch, parent, stage>>
          /\ pull'.state = "MERGED" => pull.state = "MERGED"
        BY <1>8 DEF Close, EndPull, vars, codeVars, siteVars, gitVars, planVars
    <2> QED
        BY <1>4, <2>1
<1> QED
    BY <1>1, <1>3, <1>5, <1>6, <1>7, <1>8 DEF Next, Dispatch

\* A free release that waits keeps its edition while another release is dispatched.
LEMMA OthersKeepEdition ==
    ASSUME IInv, UncrossedInv, Crossing, NEW q \in Releases, Acts(q),
           NEW r \in Free', r # q
    PROVE  EditionStays(r)'
<1>1. r \in Free /\ r \in Releases /\ TypeInv
    BY StaysFree DEF Free, IInv
<1>2. FreeInv(r) /\ Alone
    BY <1>1 DEF UncrossedInv
<1>3. stage'[r] = stage[r] /\ stage[r] \notin UnderWay
    BY <1>1, <1>2, FreeRests
<1> SUFFICES ASSUME stage[r] = "pending" PROVE EditionStays(r)'
    BY <1>3 DEF EditionStays
<1>4. /\ branch \in Parents /\ Carries(branch.tree, r)
      /\ pull.state = "MERGED" => Carries(main, r)
      /\ pull.state # "CLOSED"
      /\ \A p \in Releases : /\ stage[p] = "looked" /\ ~plan[p].extend => Carries(main, r)
                             /\ stage[p] = "based" => Carries(parent[p].tree, r)
    BY <1>2 DEF FreeInv, EditionStays, UnderClosed
<1> USE DEF Goes, TypeInv, TypeOK
<1>5. CASE Look(q)
    <2>1. /\ UNCHANGED <<main, branch, pull, parent>>
          /\ \A p \in Releases \ {q} : stage'[p] = stage[p] /\ plan'[p] = plan[p]
          /\ stage'[q] = "looked" /\ (plan'[q].extend <=> pull.state \in {"NONE", "OPEN"})
        BY <1>1, <1>5 DEF Look, siteVars, gitVars
    <2>2. pull.state \in {"NONE", "OPEN", "MERGED"}
        BY <1>1, <1>4 DEF PullStates
    <2> QED
        BY <1>4, <2>1, <2>2 DEF EditionStays, Carries
<1>6. CASE ReadParent(q)
    <2> DEFINE fresh == [tree |-> main, base |-> main, head |-> 0]
    <2>1. /\ UNCHANGED <<main, branch, pull, plan>> /\ stage[q] = "looked"
          /\ \A p \in Releases \ {q} : stage'[p] = stage[p] /\ parent'[p] = parent[p]
          /\ stage'[q] = "based"
          /\ parent'[q] = IF plan[q].extend /\ branch # NONE THEN branch ELSE fresh
        BY <1>1, <1>6 DEF ReadParent, siteVars, gitVars
    <2>2. Carries(parent'[q].tree, r)
        BY <1>4, <2>1, NoneAssumption
    <2> HIDE DEF fresh
    <2> QED
        BY <1>4, <2>1, <2>2 DEF EditionStays, Carries
<1>7. CASE Push(q) /\ (Commit(q) \/ CommitAnswerLost(q))
    <2>1. /\ UNCHANGED <<main, pull, plan, parent>> /\ stage[q] = "based"
          /\ \A p \in Releases : stage'[p] \in {"looked", "based"} => stage'[p] = stage[p]
        BY <1>1, <1>7 DEF Commit, CommitAnswerLost, Fault, siteVars, planVars
    <2>2. /\ branch' \in Parents /\ branch'.tree[LocaleOf[q]] = q
          /\ \A l \in Locales \ {LocaleOf[q]} : branch'.tree[l] = parent[q].tree[l]
        BY <1>1, <1>7, <2>1, PushFiles
    <2>3. Carries(branch'.tree, r)
        BY <1>1, <1>4, <2>1, <2>2, SiteAssumption DEF Carries
    <2> QED
        BY <1>4, <2>1, <2>2, <2>3 DEF EditionStays, Carries
<1>8. CASE ~Look(q) /\ ~ReadParent(q) /\ ~(Push(q) /\ (Commit(q) \/ CommitAnswerLost(q)))
    <2>1. /\ UNCHANGED <<main, branch, plan, parent>>
          /\ pull' = pull \/ pull'.state = "OPEN"
        BY <1>8 DEF Acts, Dispatch, Commit, AskForPull, OpenPull, RecordAccepted, RequestFails,
                    CommitAnswerLost, OpeningLost, OpenedPull, Fault, siteVars, gitVars, planVars
    <2>2. \A p \in Releases : stage'[p] \in {"looked", "based"} => stage'[p] = stage[p]
        BY <1>1, <1>8 DEF Acts, Dispatch, Commit, AskForPull, OpenPull, RecordAccepted, RequestFails,
                    CommitAnswerLost, OpeningLost
    <2> QED
        BY <1>4, <2>1, <2>2 DEF EditionStays, Carries
<1> QED
    BY <1>5, <1>6, <1>7, <1>8

\* A dispatch of a free release keeps to its plan, and what it leaves waiting is
\* on the branch.
LEMMA OwnDispatchHolds ==
    ASSUME IInv, UncrossedInv, Crossing, NEW r \in Free', Acts(r)
    PROVE  PlanHolds(r)' /\ EditionStays(r)'
<1>1. r \in Free /\ r \in Releases /\ TypeInv /\ ~Together(r)' /\ ~UnderClosed(r)'
    BY StaysFree DEF Free, IInv
<1>2. FreeInv(r) /\ Alone /\ FilesAdd
    BY <1>1 DEF UncrossedInv
<1>3. PlanHolds(r) /\ ~UnderClosed(r) /\ (pull.state = "MERGED" => Whole(main))
    BY <1>2 DEF FreeInv, FilesAdd
<1>4. LocaleOf[r] \in Locales /\ NONE \notin Releases /\ pull.state \in PullStates
    BY <1>1, SiteAssumption DEF TypeInv, TypeOK
<1> USE DEF Goes, TypeInv, TypeOK
<1>5. CASE Look(r)
    <2>1. /\ stage'[r] = "looked" /\ UNCHANGED pull
          /\ plan'[r].extend <=> pull.state \in {"NONE", "OPEN"}
          /\ plan'[r].open <=> pull.state = "OPEN"
        BY <1>1, <1>5 DEF Look, gitVars
    <2>2. pull.state # "CLOSED"
        BY <1>1, <2>1 DEF UnderClosed, UnderWay
    <2> QED
        BY <1>4, <2>1, <2>2 DEF PlanHolds, EditionStays, PullStates
<1>6. CASE ReadParent(r)
    <2> DEFINE fresh == [tree |-> main, base |-> main, head |-> 0]
    <2>1. /\ stage[r] = "looked" /\ stage'[r] = "based" /\ UNCHANGED <<main, branch, pull, plan>>
          /\ parent'[r] = IF plan[r].extend /\ branch # NONE THEN branch ELSE fresh
        BY <1>1, <1>6 DEF ReadParent, siteVars, gitVars
    <2>2. pull.state = "MERGED" => Whole(parent'[r].tree)
        BY <1>3, <2>1 DEF PlanHolds
    <2> QED
        BY <1>3, <2>1, <2>2 DEF PlanHolds, EditionStays
<1>7. CASE Commit(r)
    <2>1. CASE Unmoved(r)
        <3>1. /\ stage[r] = "based" /\ stage'[r] = "committed" /\ UNCHANGED <<main, pull, plan, parent>>
              /\ Push(r)
            BY <1>1, <1>7, <2>1 DEF Commit, siteVars, planVars
        <3>2. /\ branch' \in Parents /\ branch'.tree[LocaleOf[r]] = r
              /\ \A l \in Locales \ {LocaleOf[r]} : branch'.tree[l] = parent[r].tree[l]
            BY <1>1, <3>1, PushFiles
        <3>3. pull.state = "MERGED" => Whole(branch'.tree)
            BY <1>1, <1>3, <1>4, <3>1, <3>2 DEF PlanHolds, Whole
        <3> QED
            BY <1>1, <1>3, <3>1, <3>2, <3>3 DEF PlanHolds, EditionStays, Carries
    <2>2. CASE ~Unmoved(r)
        BY <1>1, <1>7, <2>2 DEF Commit, PlanHolds, EditionStays
    <2> QED
        BY <2>1, <2>2
<1>8. CASE AskForPull(r)
    <2>1. /\ stage[r] = "committed" /\ UNCHANGED <<main, branch, pull, plan, parent>>
          /\ stage'[r] = IF OthersOnBranch(r) /\ ~plan[r].open THEN "opening" ELSE "accepted"
        BY <1>1, <1>8 DEF AskForPull, siteVars, gitVars, planVars
    <2>2. pull.state = "MERGED" => OthersOnBranch(r) /\ ~plan[r].open
        BY <1>3, <2>1 DEF PlanHolds, Whole, OthersOnBranch
    <2> QED
        BY <1>3, <2>1, <2>2 DEF PlanHolds, EditionStays, Carries
<1>9. CASE OpenPull(r)
    <2>1. /\ stage[r] = "opening" /\ UNCHANGED branch
          /\ stage'[r] = "failed" \/ (stage'[r] = "accepted" /\ pull'.state = "OPEN")
        BY <1>1, <1>9 DEF OpenPull, OpenedPull
    <2> QED
        BY <1>3, <2>1 DEF PlanHolds, EditionStays, Carries
<1>10. CASE RecordAccepted(r)
    <2>1. /\ stage[r] = "accepted" /\ stage'[r] = "pending"
          /\ UNCHANGED <<main, branch, pull, plan, parent>>
          /\ \A q \in Releases \ {r} : stage'[q] = stage[q]
        BY <1>1, <1>10 DEF RecordAccepted, siteVars, gitVars, planVars
    <2>2. \A q \in Releases \ {r} : stage'[q] \notin UnderWay
        BY <1>1, <1>2, <2>1 DEF Alone, UnderWay
    <2> QED
        BY <1>3, <2>1, <2>2 DEF PlanHolds, EditionStays, Carries, UnderWay
<1>11. CASE RequestFails(r) \/ CommitAnswerLost(r) \/ OpeningLost(r)
    <2>1. stage'[r] \in {"failed", "ambiguous"}
        BY <1>1, <1>11 DEF RequestFails, CommitAnswerLost, OpeningLost
    <2> QED
        BY <2>1 DEF PlanHolds, EditionStays
<1> QED
    BY <1>5, <1>6, <1>7, <1>8, <1>9, <1>10, <1>11 DEF Acts, Dispatch

\* What the watch reads and the owner decides leaves a free release as it is; a
\* merge publishes its edition.
LEMMA OthersLeaveFree ==
    ASSUME IInv, UncrossedInv, Crossing, NEW r \in Free',
           \/ \E q \in Releases : WatchFile(q) \/ WatchPull(q)
           \/ Merge \/ Close
    PROVE  PlanHolds(r)' /\ EditionStays(r)'
<1>1. /\ r \in Free /\ r \in Releases /\ TypeInv /\ LocaleOf[r] \in Locales
      /\ ~UnderClosed(r)' /\ ~DecidedUpon(r)
    BY StaysFree, SiteAssumption DEF Free, IInv
<1>2. PlanHolds(r) /\ EditionStays(r) /\ FilesAdd
    BY <1>1 DEF UncrossedInv, FreeInv
<1>3. ASSUME NEW q \in Releases, WatchFile(q) \/ WatchPull(q)
      PROVE  PlanHolds(r)' /\ EditionStays(r)'
    <2>1. /\ UNCHANGED <<main, branch, pull, plan, parent>>
          /\ \A p \in Releases : stage'[p] = stage[p] \/ stage'[p] \in Settled
        BY <1>1, <1>3 DEF WatchFile, WatchPull, Goes, Settled, siteVars, gitVars, planVars, TypeInv, TypeOK
    <2>2. \A p \in Releases : stage'[p] \in UnderWay \cup {"pending"} => stage'[p] = stage[p]
        BY <2>1 DEF UnderWay, Settled
    <2> QED
        BY <1>1, <1>2, <2>1, <2>2 DEF PlanHolds, EditionStays, Carries, UnderWay
<1>4. CASE Merge \/ Close
    <2>1. pull.state = "OPEN" /\ pull'.state \in {"MERGED", "CLOSED"} /\ UNCHANGED <<stage, plan, parent>>
        BY <1>4 DEF Merge, Close, EndPull, planVars
    <2>2. stage'[r] \notin UnderWay
        BY <1>1, <2>1 DEF DecidedUpon
    <2>3. PlanHolds(r)'
        BY <2>2 DEF PlanHolds, UnderWay
    <2>4. CASE Close
        <3>1. pull'.state = "CLOSED"
            BY <2>4 DEF Close, EndPull
        <3>2. stage'[r] # "pending"
            BY <1>1, <3>1 DEF UnderClosed
        <3> QED
            BY <2>3, <3>2 DEF EditionStays
    <2>5. CASE Merge
        <3>1. ASSUME NEW c, Carries(c, r), c = branch.tree \/ c = main PROVE Carries(main', r)
            BY <1>1, <1>2, <2>5, <3>1, MergeFiles DEF Carries
        <3>2. branch' \in Parents /\ branch'.tree = branch.tree
            BY <1>1, <1>2, <2>5, MergeFiles
        <3> QED
            BY <1>2, <2>1, <2>3, <3>1, <3>2 DEF EditionStays, Carries
    <2> QED
        BY <1>4, <2>3, <2>4, <2>5
<1> QED
    BY <1>3, <1>4

LEMMA NextUncrossed == IInv /\ UncrossedInv /\ [Next]_vars => UncrossedInv'
<1> SUFFICES ASSUME IInv, UncrossedInv, [Next]_vars PROVE UncrossedInv'
    OBVIOUS
<1>1. TypeInv /\ FilesAdd'
    BY NextFilesAdd DEF IInv, UncrossedInv
<1>2. CASE UNCHANGED vars
    BY <1>1, <1>2 DEF vars, codeVars, siteVars, gitVars, planVars, watchVars, UncrossedInv, Alone, Free,
                      FreeInv, UnderClosed, PlanHolds, EditionStays, Carries, WatchedIsOff, Whole
<1>3. CASE Next
    <2>1. Crossing /\ \A r \in Free' : r \in Free /\ ~Together(r)' /\ ~UnderClosed(r)' /\ ~DecidedUpon(r)
        BY <1>1, <1>3, StaysFree DEF Next
    <2>2. Alone'
        BY <2>1 DEF Alone, Together, Free
    <2>3. ASSUME NEW r \in Free' PROVE PlanHolds(r)' /\ EditionStays(r)'
        <3>1. ASSUME NEW q \in Releases, Acts(q), r # q PROVE PlanHolds(r)' /\ EditionStays(r)'
            <4>1. stage'[r] \notin UnderWay
                BY <1>1, <2>1, <3>1, FreeRests DEF UncrossedInv
            <4> QED
                BY <2>1, <3>1, <4>1, OthersKeepEdition DEF PlanHolds, UnderWay
        <3>2. ASSUME Acts(r) PROVE PlanHolds(r)' /\ EditionStays(r)'
            BY <2>1, <3>2, OwnDispatchHolds
        <3> QED
            BY <1>3, <2>1, <3>1, <3>2, OthersLeaveFree DEF Next, Acts
    <2>4. ASSUME NEW r \in Free' PROVE WatchedIsOff(r)'
        <3>1. r \in Releases /\ (watching = r => main[LocaleOf[r]] # r) /\ ~DecidedUpon(r)
            BY <2>1 DEF Free, UncrossedInv, FreeInv, WatchedIsOff
        <3>2. ASSUME NEW q \in Releases, WatchFile(q) \/ WatchPull(q) PROVE WatchedIsOff(r)'
            BY <3>1, <3>2, SiteAssumption DEF WatchFile, WatchPull, WatchedIsOff, siteVars
        <3>3. ASSUME NEW q \in Releases, Acts(q) PROVE WatchedIsOff(r)'
            BY <3>1, <3>3 DEF Acts, Dispatch, Look, ReadParent, Commit, AskForPull, OpenPull,
                RecordAccepted, RequestFails, CommitAnswerLost, OpeningLost, Fault, WatchedIsOff,
                siteVars, watchVars
        <3>4. CASE Merge \/ Close
            BY <3>1, <3>4 DEF Merge, Close, EndPull, DecidedUpon, WatchedIsOff
        <3> QED
            BY <1>3, <3>2, <3>3, <3>4 DEF Next, Acts
    <2> QED
        BY <1>1, <2>1, <2>2, <2>3, <2>4 DEF UncrossedInv, FreeInv
<1> QED
    BY <1>2, <1>3

\* What a step reports as superseded has another release of its edition on main.
LEMMA NextKept ==
    ASSUME IInv, UncrossedInv, UncrossedInv', UncrossedIsKept, [Next]_vars
    PROVE  UncrossedIsKept'
<1>1. shown \subseteq shown' /\ Free' \subseteq Free
    BY DEF Next, Dispatch, Look, ReadParent, Commit, AskForPull, OpenPull, RecordAccepted,
           RequestFails, CommitAnswerLost, OpeningLost, Fault, Merge, Close, EndPull, WatchFile,
           WatchPull, vars, codeVars, siteVars, Free, Crossing
<1>2. ASSUME NEW r \in Releases, stage'[r] = "superseded", stage[r] # "superseded"
      PROVE  stage[r] = "pending" /\ pull.state = "MERGED" /\ watching = r
    <2> USE <1>2 DEF Goes, IInv, TypeInv, TypeOK
    <2>1. ASSUME NEW q \in Releases, WatchPull(q) PROVE q = r
        BY <2>1 DEF WatchPull
    <2>2. ASSUME NEW q \in Releases, Acts(q) \/ WatchFile(q) PROVE FALSE
        <3>1. CASE WatchFile(q)
            BY <3>1 DEF WatchFile
        <3>2. CASE Acts(q)
            BY <3>2 DEF Acts, Dispatch, Look, ReadParent, Commit, AskForPull, OpenPull,
                        RecordAccepted, RequestFails, CommitAnswerLost, OpeningLost
        <3> QED
            BY <2>2, <3>1, <3>2
    <2>3. ~(Merge \/ Close \/ UNCHANGED vars)
        BY DEF Merge, Close, EndPull, vars, codeVars
    <2>4. WatchPull(r)
        BY <2>1, <2>2, <2>3 DEF Next, Acts
    <2> QED
        BY <2>4 DEF WatchPull
<1>3. ASSUME NEW r \in Free', stage'[r] = "superseded" PROVE Replaced(r)'
    <2>0. r \in Free /\ r \in Releases
        BY <1>1 DEF Free
    <2>1. CASE stage[r] = "superseded"
        BY <1>1, <2>0, <2>1 DEF UncrossedIsKept, Replaced, Free
    <2>2. CASE stage[r] # "superseded"
        <3>1. stage[r] = "pending" /\ pull.state = "MERGED" /\ watching = r
            BY <1>2, <1>3, <2>0, <2>2
        <3>2. main[LocaleOf[r]] \in Releases \ {r} /\ LocaleOf[r] \in Locales
            BY <2>0, <3>1, SiteAssumption DEF UncrossedInv, FreeInv, EditionStays, Carries, WatchedIsOff
        <3>3. main[LocaleOf[r]] \in shown /\ LocaleOf[main[LocaleOf[r]]] = LocaleOf[r]
            BY <3>2 DEF IInv, MainWasShown, FilesInPlace, InPlace
        <3> QED
            BY <1>1, <3>2, <3>3 DEF Replaced
    <2> QED
        BY <2>1, <2>2
<1>4. ASSUME NEW r \in Free', stage'[r] = "pending" PROVE Kept(r)'
    <2>1. branch'.tree[LocaleOf[r]] \in Releases
        BY <1>4 DEF UncrossedInv, FreeInv, EditionStays, Carries
    <2> QED
        BY <2>1 DEF Kept
<1> QED
    BY <1>3, <1>4 DEF UncrossedIsKept, Free

\* A release the provider accepted stays on the article's branch or on the site
\* until another release of its edition takes its place, and is superseded only by
\* one that was published, unless it was crossed itself: whatever requests fail, and
\* whatever the owner and the dispatches of other releases did before and do later
\* (commitToBranch, siteOutcomeOf).
THEOREM UncrossedAreKept == Spec => []UncrossedIsKept
<1>1. Init => IInv /\ UncrossedInv /\ UncrossedIsKept
    BY InitInv, InitUncrossed DEF Init, UncrossedIsKept
<1>2. (IInv /\ UncrossedInv /\ UncrossedIsKept) /\ [Next]_vars => (IInv /\ UncrossedInv /\ UncrossedIsKept)'
    BY NextInv, NextUncrossed, NextKept
<1> QED
    BY <1>1, <1>2, PTL DEF Spec
=============================================================================
