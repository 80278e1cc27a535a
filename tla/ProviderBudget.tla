--------------------------- MODULE ProviderBudget ---------------------------
(***************************************************************************)
(* The calls of a paid research provider (video-radar) and the budget an   *)
(* owner sets for them:                                                    *)
(*                                                                         *)
(*   runResearch (packages/lib/src/content-research-repositories.ts) does  *)
(*     everything in one transaction that holds the brand's advisory lock: *)
(*     it looks for the run of the key, reserves its calls, makes them,    *)
(*     settles the reservation and records the run;                        *)
(*   reserve_provider_call (migration 0046) admits a reservation that fits *)
(*     the newest budget's window;                                         *)
(*   VideoRadarAdapter has a second ceiling, on what the process has asked.*)
(*                                                                         *)
(* A request to the provider cannot be rolled back: when the transaction   *)
(* is, the request stays and its record goes.  Nor does the loss of the    *)
(* connection stop the run: it goes on to ask, without its lock, and fails *)
(* at its next statement.                                                  *)
(*                                                                         *)
(* What a call costs is fixed in the code, the unit of the cost here.      *)
(* Bounds of an instance: Days of the clock, Keys of the runs, MaxFaults.  *)
(***************************************************************************)
EXTENDS Integers, FiniteSets, Functions

CONSTANTS
    Brands,
    Keys,       \* idempotency keys of research runs
    Requests,   \* calls of runResearch that can be under way at once
    Budgets,    \* what an owner may set
    MaxCalls,   \* CONTENT_OS_VIDEO_RADAR_MAX_CALLS, 0 when it is not set
    Days,       \* the last day of the clock
    DaysInMonth,
    NONE,
    MaxFaults

Kinds == {"DAY", "MONTH"}

ASSUME BudgetAssumption ==
    /\ MaxCalls \in Nat /\ Days \in Nat /\ DaysInMonth \in Nat \ {0}
    /\ Budgets \subseteq [kind : Kinds, calls : Nat \ {0}, cost : Nat]
    /\ IsFiniteSet(Requests)
    /\ NONE \notin Budgets \cup Brands \cup Keys \cup Requests
    /\ MaxFaults \in Nat

VARIABLES
    clock,      \* the day
    budget,     \* the newest budget of each brand
    ledger,     \* provider_call_ledger: the row of each brand and key
    run,        \* content_research_runs: the status of each brand and key
    tx,         \* the open transactions
    count,      \* the process's ProviderCallLedger
    asked,      \* history: transactions of each brand and key that asked the provider
    undone,     \* history: those of them that were rolled back
    faults

vars == <<clock, budget, ledger, run, tx, count, asked, undone, faults>>

\* counted: COALESCE(actual_calls, estimated_calls).
\* made: history, what was asked of the provider.
Row == [status : {"NONE", "SETTLED", "FAILED"}, day : 0 .. Days,
        counted : 0 .. MaxCalls, made : 0 .. MaxCalls]
NoRow == [status |-> "NONE", day |-> 0, counted |-> 0, made |-> 0]

\* began: now() of the transaction.  at: "waiting" for the brand's lock,
\* "reserving", "fetching", "asking" the provider, "ending" with an outcome;
\* without its connection "adrift" before the search and "drifting" after it.
\* reserved: whether reserve_provider_call returned.
Transactions ==
    [at : {"idle", "waiting", "reserving", "fetching", "asking", "ending", "adrift", "drifting"},
     brand : Brands \cup {NONE}, key : Keys \cup {NONE}, began : 0 .. Days,
     reserved : BOOLEAN, made : 0 .. MaxCalls, outcome : {"NONE", "DONE", "FAILED"}]
Idle == [at |-> "idle", brand |-> NONE, key |-> NONE, began |-> 0,
         reserved |-> FALSE, made |-> 0, outcome |-> "NONE"]

TypeOK ==
    /\ clock \in 0 .. Days
    /\ budget \in [Brands -> Budgets \cup {NONE}]
    /\ ledger \in [Brands -> [Keys -> Row]]
    /\ run \in [Brands -> [Keys -> {"NONE", "DONE", "FAILED"}]]
    /\ tx \in [Requests -> Transactions]
    /\ count \in Nat
    /\ asked \in [Brands -> [Keys -> Nat]] /\ undone \in [Brands -> [Keys -> Nat]]
    /\ faults \in 0 .. MaxFaults

Init ==
    /\ clock = 0
    /\ budget = [b \in Brands |-> NONE]
    /\ ledger = [b \in Brands |-> [k \in Keys |-> NoRow]]
    /\ run = [b \in Brands |-> [k \in Keys |-> "NONE"]]
    /\ tx = [r \in Requests |-> Idle]
    /\ count = 0
    /\ asked = [b \in Brands |-> [k \in Keys |-> 0]]
    /\ undone = [b \in Brands |-> [k \in Keys |-> 0]]
    /\ faults = 0

Fault == faults < MaxFaults /\ faults' = faults + 1

-----------------------------------------------------------------------------
(* The gate: reserve_provider_call *)

WindowStart(kind, day) == IF kind = "DAY" THEN day ELSE day - (day % DaysInMonth)

\* The keys of the brand's rows in the window that a transaction of that day sees.
InWindow(b, kind, day) ==
    {k \in Keys : ledger[b][k].status # "NONE" /\ ledger[b][k].day >= WindowStart(kind, day)}

\* Broken: a failed call does not count.
SpentOnSuccess(b, kind, day) ==
    SumFunctionOnSet(
        [k \in Keys |-> IF ledger[b][k].status = "FAILED" THEN 0 ELSE ledger[b][k].counted],
        InWindow(b, kind, day))

SpentCalls(b, kind, day) ==
    SumFunctionOnSet([k \in Keys |-> ledger[b][k].counted], InWindow(b, kind, day))

\* No settlement tells the actual cost: every row counts at its estimate.
SpentCost(b, kind, day) == MaxCalls * Cardinality(InWindow(b, kind, day))

Fits(b, day) ==
    /\ budget[b] # NONE
    /\ SpentCalls(b, budget[b].kind, day) + MaxCalls <= budget[b].calls
    /\ SpentCost(b, budget[b].kind, day) + MaxCalls <= budget[b].cost

-----------------------------------------------------------------------------
(* runResearch *)

Begin(r, b, k) ==
    /\ tx[r].at = "idle"
    /\ tx' = [tx EXCEPT ![r] = [Idle EXCEPT !.at = "waiting", !.brand = b, !.key = k,
                                            !.began = clock]]
    /\ UNCHANGED <<clock, budget, ledger, run, count, asked, undone, faults>>

\* pg_advisory_xact_lock of the brand, held to the end of the transaction.
Locked(b) ==
    \E r \in Requests : tx[r].brand = b /\ tx[r].at \in {"reserving", "fetching", "asking", "ending"}

\* Broken: the transaction does not wait for the lock.
EnterAtOnce(r) ==
    /\ tx[r].at = "waiting"
    /\ tx' = [tx EXCEPT ![r] = IF run[@.brand][@.key] # "NONE" THEN Idle
                               ELSE [@ EXCEPT !.at = "reserving"]]
    /\ UNCHANGED <<clock, budget, ledger, run, count, asked, undone, faults>>

\* The lock, and the run there is: that of a repeated delivery is returned.
Enter(r) ==
    /\ tx[r].at = "waiting" /\ ~Locked(tx[r].brand)
    /\ tx' = [tx EXCEPT ![r] = IF run[@.brand][@.key] # "NONE" THEN Idle
                               ELSE [@ EXCEPT !.at = "reserving"]]
    /\ UNCHANGED <<clock, budget, ledger, run, count, asked, undone, faults>>

\* Broken: a refused reservation does not stop the run.
ReserveOrGoOn(r) ==
    LET t == tx[r] IN
    /\ t.at = "reserving"
    /\ tx' = [tx EXCEPT ![r] = [@ EXCEPT !.at = "fetching",
                !.reserved = ledger[t.brand][t.key].status # "NONE" \/ Fits(t.brand, t.began)]]
    /\ UNCHANGED <<clock, budget, ledger, run, count, asked, undone, faults>>

\* An estimate of no calls is refused, the key's own reservation returned, a new
\* one made if it fits.  A refusal becomes the outcome of the run (the savepoint
\* keeps the rest).
Reserve(r) ==
    LET t == tx[r] IN
    /\ t.at = "reserving"
    /\ tx' = [tx EXCEPT ![r] =
                IF MaxCalls > 0 /\ (ledger[t.brand][t.key].status # "NONE" \/ Fits(t.brand, t.began))
                THEN [@ EXCEPT !.at = "fetching", !.reserved = TRUE]
                ELSE [@ EXCEPT !.at = "ending", !.outcome = "FAILED"]]
    /\ UNCHANGED <<clock, budget, ledger, run, count, asked, undone, faults>>

\* The adapter's own ceiling, on what the process has asked, refuses.
Refuse(r) ==
    /\ tx[r].at = "fetching" /\ count >= MaxCalls
    /\ tx' = [tx EXCEPT ![r].at = "ending", ![r].outcome = "FAILED"]
    /\ UNCHANGED <<clock, budget, ledger, run, count, asked, undone, faults>>

\* The first request: the search.
Search(r) ==
    /\ tx[r].at = "fetching" /\ count < MaxCalls
    /\ tx' = [tx EXCEPT ![r].at = "asking", ![r].made = 1]
    /\ count' = count + 1
    /\ asked' = [asked EXCEPT ![tx[r].brand][tx[r].key] = @ + 1]
    /\ UNCHANGED <<clock, budget, ledger, run, undone, faults>>

\* The second, when something was found and it is permitted.
Statistics(r) ==
    /\ tx[r].at = "asking" /\ tx[r].made = 1 /\ MaxCalls > 1
    /\ tx' = [tx EXCEPT ![r].made = 2]
    /\ UNCHANGED <<clock, budget, ledger, run, count, asked, undone, faults>>

\* The answers are there: the process counts the second request too.  What the
\* pipeline makes of them may still throw.
Answered(r) ==
    /\ tx[r].at = "asking"
    /\ count' = count + tx[r].made - 1
    /\ \E outcome \in {"DONE", "FAILED"} :
          tx' = [tx EXCEPT ![r].at = "ending", ![r].outcome = outcome]
    /\ UNCHANGED <<clock, budget, ledger, run, asked, undone, faults>>

\* The last request throws.
NotAnswered(r) ==
    /\ tx[r].at = "asking"
    /\ tx' = [tx EXCEPT ![r].at = "ending", ![r].outcome = "FAILED"]
    /\ UNCHANGED <<clock, budget, ledger, run, count, asked, undone, faults>>

\* Broken: the ledger gets the status of the run.
SettledAsRun(t) ==
    [status |-> t.outcome, day |-> t.began,
     counted |-> IF t.outcome = "DONE" THEN t.made ELSE MaxCalls, made |-> t.made]

\* settle_provider_call: a failure does not tell how many calls were made.
SettledRow(t) ==
    [status |-> IF t.outcome = "DONE" THEN "SETTLED" ELSE "FAILED", day |-> t.began,
     counted |-> IF t.outcome = "DONE" THEN t.made ELSE MaxCalls, made |-> t.made]

\* Broken: a failed run leaves no record, for its key to be tried again.
CommitSuccess(r) ==
    LET t == tx[r] IN
    /\ t.at = "ending"
    /\ t.reserved => ledger[t.brand][t.key].status = "NONE"
    /\ ledger' = IF t.reserved THEN [ledger EXCEPT ![t.brand][t.key] = SettledRow(t)] ELSE ledger
    /\ run' = IF t.outcome = "DONE" THEN [run EXCEPT ![t.brand][t.key] = "DONE"] ELSE run
    /\ tx' = [tx EXCEPT ![r] = Idle]
    /\ UNCHANGED <<clock, budget, count, asked, undone, faults>>

\* The reservation is settled, the run recorded, and both are committed, unless
\* the reservation was settled before: enforce_provider_call_transition throws.
Commit(r) ==
    LET t == tx[r] IN
    /\ t.at = "ending"
    /\ t.reserved => ledger[t.brand][t.key].status = "NONE"
    /\ ledger' = IF t.reserved THEN [ledger EXCEPT ![t.brand][t.key] = SettledRow(t)] ELSE ledger
    /\ run' = [run EXCEPT ![t.brand][t.key] = t.outcome]
    /\ tx' = [tx EXCEPT ![r] = Idle]
    /\ UNCHANGED <<clock, budget, count, asked, undone, faults>>

\* What was asked by transactions that are no more.
Undo(gone) ==
    undone' = [b \in Brands |-> [k \in Keys |-> undone[b][k] +
        Cardinality({r \in gone : tx[r].brand = b /\ tx[r].key = k /\ tx[r].made > 0})]]

\* A statement throws, or the connection is lost while one is awaited.
Rollback(r) ==
    /\ tx[r].at \in {"waiting", "reserving", "ending"}
    /\ Fault
    /\ tx' = [tx EXCEPT ![r] = Idle]
    /\ Undo({r})
    /\ UNCHANGED <<clock, budget, ledger, run, count, asked>>

\* The connection is lost while no statement is awaited: the transaction and its
\* lock are no more, and the run has not noticed.
ConnectionLost(r) ==
    /\ tx[r].at \in {"fetching", "asking"}
    /\ Fault
    /\ tx' = [tx EXCEPT ![r].at = IF @ = "fetching" THEN "adrift" ELSE "drifting",
                         ![r].made = 0, ![r].reserved = FALSE]
    /\ Undo({r})
    /\ UNCHANGED <<clock, budget, ledger, run, count, asked>>

\* Such a run asks all the same, unless the adapter's ceiling refuses.  Its next
\* statement throws; by then the second request may have been counted too.
Drifts(r) ==
    \/ /\ tx[r].at = "adrift" /\ count < MaxCalls
       /\ tx' = [tx EXCEPT ![r].at = "drifting"]
       /\ count' = count + 1
       /\ asked' = [asked EXCEPT ![tx[r].brand][tx[r].key] = @ + 1]
       /\ undone' = [undone EXCEPT ![tx[r].brand][tx[r].key] = @ + 1]
       /\ UNCHANGED <<clock, budget, ledger, run, faults>>
    \/ /\ tx[r].at = "drifting" \/ (tx[r].at = "adrift" /\ count >= MaxCalls)
       /\ tx' = [tx EXCEPT ![r] = Idle]
       /\ \/ count' = count
          \/ tx[r].at = "drifting" /\ MaxCalls > 1 /\ count' = count + 1
       /\ UNCHANGED <<clock, budget, ledger, run, asked, undone, faults>>

\* The web process dies: its count starts again at zero.
Restart ==
    /\ Fault
    /\ tx' = [r \in Requests |-> Idle]
    /\ count' = 0
    /\ Undo(Requests)
    /\ UNCHANGED <<clock, budget, ledger, run, asked>>

-----------------------------------------------------------------------------
\* Broken: a budget is set without the brand's lock.
SetBudgetAtOnce(b, new) ==
    /\ new # budget[b]
    /\ budget' = [budget EXCEPT ![b] = new]
    /\ UNCHANGED <<clock, ledger, run, tx, count, asked, undone, faults>>

\* The owner, in a transaction that takes the brand's lock.
SetBudget(b, new) ==
    /\ ~Locked(b) /\ new # budget[b]
    /\ budget' = [budget EXCEPT ![b] = new]
    /\ UNCHANGED <<clock, ledger, run, tx, count, asked, undone, faults>>

NextDay ==
    /\ clock < Days
    /\ clock' = clock + 1
    /\ UNCHANGED <<budget, ledger, run, tx, count, asked, undone, faults>>

RequestStep(r) ==
    \/ \E b \in Brands, k \in Keys : Begin(r, b, k)
    \/ Enter(r) \/ Reserve(r) \/ Refuse(r) \/ Search(r) \/ Statistics(r)
    \/ Answered(r) \/ NotAnswered(r) \/ Commit(r) \/ Rollback(r)
    \/ ConnectionLost(r) \/ Drifts(r)

Next ==
    \/ \E r \in Requests : RequestStep(r)
    \/ \E b \in Brands, new \in Budgets : SetBudget(b, new)
    \/ Restart
    \/ NextDay

Spec == Init /\ [][Next]_vars

-----------------------------------------------------------------------------
Asking == {r \in Requests : tx[r].at = "asking"}

\* While a transaction asks the provider, what the recorded runs of its brand
\* truly asked in the budget's window and all that it may ask itself is within
\* both ceilings of the newest budget: failed runs, partly used reservations and
\* budgets changed in between included.  A row counts on the day on which its
\* transaction began; a run that was rolled back has none, and is not counted.
PaidWithinCeiling ==
    \A r \in Asking :
        LET b == tx[r].brand
            made == SumFunctionOnSet([k \in Keys |-> ledger[b][k].made],
                                     InWindow(b, budget[b].kind, tx[r].began))
        IN  /\ budget[b] # NONE
            /\ made + MaxCalls <= budget[b].calls /\ made + MaxCalls <= budget[b].cost

\* The provider is asked once for a key, however often and at once its run is
\* requested, unless the transaction that asked was rolled back.
AskedOncePerKey ==
    \A b \in Brands, k \in Keys : asked[b][k] <= 1 + undone[b][k]

\* A call leaves no trace only when its transaction is rolled back: any other,
\* of a run that failed too, is in a row or will be when its transaction ends.
TracedUnlessUndone ==
    \A b \in Brands, k \in Keys :
        asked[b][k] > undone[b][k] =>
            \/ ledger[b][k].status # "NONE"
            \/ \E r \in Requests : tx[r].brand = b /\ tx[r].key = k /\ tx[r].reserved

\* "a call ledger that survives every restart" and "Money may only move after a
\* RESERVED row exists here" (packages/lib/src/db/migrations/
\* 0046_provider_budget_ledger.sql:1 and 6): no call is asked without a trace.
CallsAreRecorded ==
    \A b \in Brands, k \in Keys :
        asked[b][k] > 0 => \/ ledger[b][k].status # "NONE"
                           \/ \E r \in Requests : tx[r].brand = b /\ tx[r].key = k /\ tx[r].reserved
=============================================================================
