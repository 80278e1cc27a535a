-------------------------- MODULE SitePublication --------------------------
(***************************************************************************)
(* How the approved editions of one article of Selena Lab reach the site:  *)
(*                                                                         *)
(*   a dispatch (packages/lib/src/selena-release-provider-lab.ts over      *)
(*     selena-github.ts) adds its edition to the article's branch and      *)
(*     opens the pull request once every language is on it, in GitHub      *)
(*     requests between which others act;                                  *)
(*   the owner merges the pull request, which publishes what it holds, or  *)
(*     closes it;                                                          *)
(*   the watch of the gateway (apps/worker/src/selena-site-publication-    *)
(*     watch.ts) reads the site's main branch, and then the pull request,  *)
(*     and records how each accepted release ended.                        *)
(*                                                                         *)
(* A release is one edition and is dispatched once (ReleasePipeline). A    *)
(* merge is a merge commit: what the branch holds is in main from then on, *)
(* and the branch stays. Files of other articles, dates and texts are left *)
(* out.                                                                    *)
(*                                                                         *)
(* Bounds of an instance: AtOnce dispatches under way together, MaxCloses  *)
(* closed pull requests, MaxFaults failed GitHub requests. OwnerInterrupts *)
(* lets the owner act between the requests of a dispatch or of the watch.  *)
(***************************************************************************)
EXTENDS Naturals, FiniteSets

CONSTANTS
    Locales,            \* the languages an article has to have
    Releases, LocaleOf, \* the releases of the article, and their editions
    OLD,                \* an edition that is on the site from the start
    NONE,               \* no file, no branch, no release
    AtOnce, MaxCloses, MaxFaults, OwnerInterrupts

ASSUME SiteAssumption ==
    /\ LocaleOf \in [Releases -> Locales]
    /\ OLD \notin Releases /\ NONE \notin Releases /\ OLD # NONE
    /\ MaxCloses \in Nat /\ MaxFaults \in Nat
    /\ OwnerInterrupts \in BOOLEAN

VARIABLES
    main,       \* the article's files on the site's main branch, by language
    branch,     \* the article's branch: its files, the ones it started from, its head
    pull,       \* the latest pull request from the branch, and when it ended
    stage,      \* how far each release has come
    plan,       \* what branchState told each dispatch
    parent,     \* the commit each dispatch builds on
    acceptedAt, \* when the acceptance of a release was recorded
    watching,   \* the release whose file the watch has read
    shown,      \* the releases that have been on the main branch
    now,        \* orders acceptances and ends of pull requests
    closes, faults,
    crossed     \* history: the releases that others cut across (see Crossing)

siteVars == <<main, shown>>
gitVars == <<branch, pull>>
watchVars == <<acceptedAt, watching, now>>
planVars == <<plan, parent>>
budgetVars == <<closes, faults>>
codeVars == <<siteVars, gitVars, stage, planVars, watchVars, budgetVars>>
vars == <<codeVars, crossed>>

Trees == [Locales -> Releases \cup {OLD, NONE}]
Parents == [tree : Trees, base : Trees, head : Nat]
ASSUME NoneAssumption == NONE \notin Parents
PullStates == {"NONE", "OPEN", "MERGED", "CLOSED"}
UnderWay == {"looked", "based", "committed", "opening", "accepted"}
Settled == {"published", "closed", "superseded"}
Stages == {"approved", "pending", "failed", "ambiguous"} \cup UnderWay \cup Settled

TypeOK ==
    /\ main \in Trees
    /\ branch \in Parents \cup {NONE}
    /\ pull \in [state : PullStates, ended : Nat]
    /\ stage \in [Releases -> Stages]
    /\ plan \in [Releases -> [extend : BOOLEAN, open : BOOLEAN]]
    /\ parent \in [Releases -> Parents \cup {NONE}]
    /\ acceptedAt \in [Releases -> Nat]
    /\ watching \in Releases \cup {NONE}
    /\ shown \subseteq Releases
    /\ now \in Nat
    /\ closes \in 0..MaxCloses
    /\ faults \in 0..MaxFaults
    /\ crossed \subseteq Releases

\* The article is new, or both editions of it are on the site.
Init ==
    /\ \E file \in {NONE, OLD} : main = [l \in Locales |-> file]
    /\ branch = NONE
    /\ pull = [state |-> "NONE", ended |-> 0]
    /\ stage = [r \in Releases |-> "approved"]
    /\ plan = [r \in Releases |-> [extend |-> FALSE, open |-> FALSE]]
    /\ parent = [r \in Releases |-> NONE]
    /\ acceptedAt = [r \in Releases |-> 0]
    /\ watching = NONE
    /\ shown = {}
    /\ now = 0
    /\ closes = 0
    /\ faults = 0
    /\ crossed = {}

Goes(r, from, to) ==
    /\ stage[r] = from
    /\ stage' = [stage EXCEPT ![r] = to]

-----------------------------------------------------------------------------
(* A dispatch *)

\* Broken: a branch whose pull request is not there yet starts again too.
LookRestarts(r) ==
    /\ Goes(r, "approved", "looked")
    /\ Cardinality({q \in Releases : stage[q] \in UnderWay}) < AtOnce
    /\ plan' = [plan EXCEPT ![r] = [extend |-> pull.state = "OPEN", open |-> pull.state = "OPEN"]]
    /\ UNCHANGED <<siteVars, gitVars, parent, watchVars, budgetVars>>

\* branchState: collecting editions or under review, the branch is extended;
\* left from a pull request that is over, it starts again.
Look(r) ==
    /\ Goes(r, "approved", "looked")
    /\ Cardinality({q \in Releases : stage[q] \in UnderWay}) < AtOnce
    /\ plan' = [plan EXCEPT ![r] = [extend |-> pull.state \in {"NONE", "OPEN"},
                                     open |-> pull.state = "OPEN"]]
    /\ UNCHANGED <<siteVars, gitVars, parent, watchVars, budgetVars>>

\* commitToBranch, the reading half: the commit to build on, which is the main
\* branch's when the branch is to start again or is not there.
ReadParent(r) ==
    /\ Goes(r, "looked", "based")
    /\ parent' = [parent EXCEPT ![r] =
            IF plan[r].extend /\ branch # NONE THEN branch
            ELSE [tree |-> main, base |-> main, head |-> 0]]
    /\ UNCHANGED <<siteVars, gitVars, plan, watchVars, budgetVars>>

\* The ref moves to the commit. It is not forced on a branch that was read, and
\* forced on one that turns out to be there.
Unmoved(r) == parent[r].head # 0 => branch.head = parent[r].head

Push(r) ==
    branch' = [tree |-> [parent[r].tree EXCEPT ![LocaleOf[r]] = r],
               base |-> parent[r].base,
               head |-> IF branch = NONE THEN 1 ELSE branch.head + 1]

Commit(r) ==
    /\ Goes(r, "based", IF Unmoved(r) THEN "committed" ELSE "failed")
    /\ IF Unmoved(r) THEN Push(r) ELSE UNCHANGED branch
    /\ UNCHANGED <<pull, siteVars, planVars, watchVars, budgetVars>>

OthersOnBranch(r) ==
    \A l \in Locales \ {LocaleOf[r]} : branch.tree[l] # NONE

\* Broken: the pull request does not wait for the other language.
AskForPullEagerly(r) ==
    /\ Goes(r, "committed", IF ~plan[r].open THEN "opening" ELSE "accepted")
    /\ UNCHANGED <<siteVars, gitVars, planVars, watchVars, budgetVars>>

\* The release waits for the other language, or is under review, or opens the
\* pull request.
AskForPull(r) ==
    /\ Goes(r, "committed",
            IF OthersOnBranch(r) /\ ~plan[r].open THEN "opening" ELSE "accepted")
    /\ UNCHANGED <<siteVars, gitVars, planVars, watchVars, budgetVars>>

\* GitHub refuses a pull request without commits that main lacks.
Refused == branch.tree = branch.base

OpenedPull == IF pull.state = "OPEN" THEN pull ELSE [state |-> "OPEN", ended |-> 0]

OpenPull(r) ==
    /\ Goes(r, "opening", IF pull.state # "OPEN" /\ Refused THEN "failed" ELSE "accepted")
    /\ pull' = IF Refused THEN pull ELSE OpenedPull
    /\ UNCHANGED <<branch, siteVars, planVars, watchVars, budgetVars>>

\* record_postiz_submission_outcome, from ACCEPTED on
RecordAccepted(r) ==
    /\ Goes(r, "accepted", "pending")
    /\ acceptedAt' = [acceptedAt EXCEPT ![r] = now]
    /\ now' = now + 1
    /\ UNCHANGED <<siteVars, gitVars, planVars, watching, budgetVars>>

-----------------------------------------------------------------------------
(* Failed requests *)

Fault ==
    /\ faults < MaxFaults
    /\ faults' = faults + 1
    /\ UNCHANGED <<siteVars, planVars, watchVars, closes>>

\* A request before the pull request fails, or only its answer is lost.
RequestFails(r) ==
    /\ Fault
    /\ \E from \in {"looked", "based", "committed"} : Goes(r, from, "failed")
    /\ UNCHANGED gitVars

CommitAnswerLost(r) ==
    /\ Fault
    /\ Goes(r, "based", "failed")
    /\ Unmoved(r)
    /\ Push(r)
    /\ UNCHANGED pull

\* The request for the pull request is lost, with or without its effect.
OpeningLost(r) ==
    /\ Fault
    /\ Goes(r, "opening", "ambiguous")
    /\ \E opened \in BOOLEAN : pull' = IF opened /\ ~Refused THEN OpenedPull ELSE pull
    /\ UNCHANGED branch

-----------------------------------------------------------------------------
(* The owner *)

OwnerMay ==
    \/ OwnerInterrupts
    \/ watching = NONE /\ \A r \in Releases : stage[r] \notin UnderWay

Changed(l) == branch.tree[l] # branch.base[l]

EndPull(state) ==
    /\ OwnerMay
    /\ pull.state = "OPEN"
    /\ pull' = [state |-> state, ended |-> now]
    /\ now' = now + 1
    /\ UNCHANGED <<stage, planVars, acceptedAt, watching, faults>>

\* Publishes what the branch changes. The site refuses an article that lacks a
\* language, GitHub a file that main has changed as well.
Merge ==
    /\ EndPull("MERGED")
    /\ \A l \in Locales : Changed(l) => main[l] = branch.base[l]
    /\ main' = [l \in Locales |-> IF Changed(l) THEN branch.tree[l] ELSE main[l]]
    /\ \A l \in Locales : main'[l] # NONE
    /\ shown' = shown \cup {r \in Releases : main'[LocaleOf[r]] = r}
    /\ branch' = [branch EXCEPT !.base = branch.tree]
    /\ UNCHANGED closes

Close ==
    /\ EndPull("CLOSED")
    /\ closes < MaxCloses
    /\ closes' = closes + 1
    /\ UNCHANGED <<branch, siteVars>>

-----------------------------------------------------------------------------
(* The watch: siteOutcomeOf *)

\* Broken: the file is not looked for once the pull request has ended.
WatchFileWhileOpen(r) ==
    LET there == pull.state = "OPEN" /\ main[LocaleOf[r]] = r IN
    /\ watching = NONE
    /\ Goes(r, "pending", IF there THEN "published" ELSE "pending")
    /\ watching' = IF there THEN NONE ELSE r
    /\ UNCHANGED <<siteVars, gitVars, planVars, acceptedAt, now, budgetVars>>

\* The file on main carries the release, or the pull request is to be asked.
WatchFile(r) ==
    LET there == main[LocaleOf[r]] = r IN
    /\ watching = NONE
    /\ Goes(r, "pending", IF there THEN "published" ELSE "pending")
    /\ watching' = IF there THEN NONE ELSE r
    /\ UNCHANGED <<siteVars, gitVars, planVars, acceptedAt, now, budgetVars>>

EndedSince(r) ==
    pull.state \in {"MERGED", "CLOSED"} /\ pull.ended >= acceptedAt[r]

\* Broken: a merged pull request is taken for the publication.
WatchPullTrusting(r) ==
    /\ watching = r
    /\ watching' = NONE
    /\ Goes(r, "pending",
            IF ~EndedSince(r) THEN "pending"
            ELSE IF pull.state = "MERGED" THEN "published" ELSE "closed")
    /\ UNCHANGED <<siteVars, gitVars, planVars, acceptedAt, now, budgetVars>>

\* Broken: a merge is left to the file on main.
WatchPullClosedOnly(r) ==
    /\ watching = r
    /\ watching' = NONE
    /\ Goes(r, "pending",
            IF EndedSince(r) /\ pull.state = "CLOSED" THEN "closed" ELSE "pending")
    /\ UNCHANGED <<siteVars, gitVars, planVars, acceptedAt, now, budgetVars>>

\* Broken: the state of the pull request is recorded as it is.
WatchPullVerbatim(r) ==
    /\ watching = r
    /\ watching' = NONE
    /\ Goes(r, "pending", IF EndedSince(r) THEN pull.state ELSE "pending")
    /\ UNCHANGED <<siteVars, gitVars, planVars, acceptedAt, now, budgetVars>>

WatchPull(r) ==
    /\ watching = r
    /\ watching' = NONE
    /\ Goes(r, "pending",
            IF ~EndedSince(r) THEN "pending"
            ELSE IF pull.state = "MERGED" THEN "superseded" ELSE "closed")
    /\ UNCHANGED <<siteVars, gitVars, planVars, acceptedAt, now, budgetVars>>

-----------------------------------------------------------------------------
(***************************************************************************)
(* History: the releases that others cut across. Two dispatches are under  *)
(* way together; a dispatch is under way, or a release waits, under a      *)
(* closed pull request; the owner decides between two requests of a        *)
(* dispatch or between the two reads of the watch.                         *)
(***************************************************************************)
Together(r) ==
    \E q \in Releases \ {r} : stage[q] \in UnderWay /\ stage[r] \in UnderWay

UnderClosed(r) == pull.state = "CLOSED" /\ stage[r] \in UnderWay \cup {"pending"}

DecidedUpon(r) ==
    /\ pull.state = "OPEN" /\ pull'.state # "OPEN"
    /\ stage[r] \in UnderWay \/ watching = r

Crossing ==
    crossed' = crossed \cup {r \in Releases :
        Together(r)' \/ UnderClosed(r)' \/ DecidedUpon(r)}

-----------------------------------------------------------------------------
Dispatch(r) ==
    \/ Look(r) \/ ReadParent(r) \/ Commit(r) \/ AskForPull(r) \/ OpenPull(r)
    \/ RecordAccepted(r)

Next ==
    /\ \/ \E r \in Releases :
            \/ Dispatch(r)
            \/ RequestFails(r) \/ CommitAnswerLost(r) \/ OpeningLost(r)
            \/ WatchFile(r) \/ WatchPull(r)
       \/ Merge \/ Close
    /\ Crossing

Spec == Init /\ [][Next]_vars

(***************************************************************************)
(* A dispatch runs to its end, a round of the watch comes to every pending *)
(* release, and the owner decides about a pull request he is shown.        *)
(***************************************************************************)
FairSpec ==
    /\ Spec
    /\ \A r \in Releases :
        WF_codeVars(Dispatch(r)) /\ SF_codeVars(WatchFile(r)) /\ WF_codeVars(WatchPull(r))
    /\ SF_codeVars(Merge)

-----------------------------------------------------------------------------
(* Properties *)

\* A release is reported as published only after it was on the site's main
\* branch (siteOutcomeOf: the base branch is the truth), whoever acts when.
PublishedWasShown ==
    \A r \in Releases : stage[r] = "published" => r \in shown

\* The owner is never offered an article that lacks a language: what an open
\* pull request holds is complete (dispatch, "the pull request waits").
OfferIsWhole ==
    pull.state = "OPEN" => \A l \in Locales : branch.tree[l] # NONE

\* It has been on the site, is on the article's branch, has a pull request that
\* ended since, or another release of its edition has taken its place.
Kept(r) ==
    \/ r \in shown
    \/ branch.tree[LocaleOf[r]] = r
    \/ EndedSince(r)
    \/ \E q \in Releases \ {r} : branch.tree[LocaleOf[r]] = q

\* A release the provider accepted is not lost (commitToBranch: editions added
\* one after another accumulate).
AcceptedIsKept == \A r \in Releases : stage[r] = "pending" => Kept(r)

Replaced(r) == \E q \in shown \ {r} : LocaleOf[q] = LocaleOf[r]

\* A release is reported as superseded only when another release of its edition
\* was published (record_site_publication_outcome, SUPERSEDED).
SupersededWasReplaced == \A r \in Releases : stage[r] = "superseded" => Replaced(r)

\* Only a release that others cut across is ever lost or wrongly reported as
\* superseded: whatever befell other releases before, and befalls them later, one
\* that was not crossed itself stays on the branch or on the site until it is
\* replaced (commitToBranch, siteOutcomeOf).
UncrossedIsKept ==
    \A r \in Releases \ crossed :
        /\ stage[r] = "pending" => Kept(r)
        /\ stage[r] = "superseded" => Replaced(r)

\* A release reported as failed is not published afterwards (dispatch: "a
\* failure up to here is definitive").
FailedStaysOff ==
    \A r \in Releases : stage[r] = "failed" => r \notin shown

\* When the owner decides about every pull request, each release that is
\* pending under one comes to an end that is recorded.
PendingIsSettled ==
    \A r \in Releases :
        stage[r] = "pending" /\ pull.state = "OPEN" ~> stage[r] \in Settled
=============================================================================
