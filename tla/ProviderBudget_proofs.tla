------------------------ MODULE ProviderBudget_proofs ------------------------
(***************************************************************************)
(* What holds of ProviderBudget for any brands, keys, budgets and ceilings *)
(* and any number of requests at once.                                     *)
(*                                                                         *)
(* AskedOncePerKey is not inductive: it needs that the brand's lock lets   *)
(* one transaction in at a time (OneAtATime), that the one inside found no *)
(* run of its key (Unrecorded), and that what was asked for a key without  *)
(* a run was rolled back, but for what the one inside has asked            *)
(* (Accounted).                                                            *)
(*                                                                         *)
(* PaidWithinCeiling compares what was asked with the budget, the gate     *)
(* what its rows count: rows cover what was asked (RowsCover), a row is of *)
(* a recorded run, so a reservation is new (RowsOfRuns), and what fitted   *)
(* when it was reserved fits as long as it is used (Admitted).             *)
(*                                                                         *)
(* CallsAreRecorded does not hold: a transaction that is rolled back takes *)
(* the rows of its calls with it.  Every other call is recorded            *)
(* (TracedUnlessUndone), on a reservation that the run's row or its open   *)
(* transaction stands for.                                                 *)
(***************************************************************************)
EXTENDS ProviderBudget, FiniteSetTheorems, TLAPS

Active(t) == t.at \in {"reserving", "fetching", "asking", "ending"}

\* A transaction knows its brand and key, and asks only once it is inside.
TxKnows(t) ==
    /\ t.at # "idle" => t.brand \in Brands /\ t.key \in Keys
    /\ t.made > 0 => t.at \in {"asking", "ending"}
    /\ t.at = "asking" => t.made > 0
    /\ t.at = "ending" => t.outcome # "NONE"

TypeInv == TypeOK /\ \A r \in Requests : TxKnows(tx[r])

OneAtATime ==
    \A r, s \in Requests :
        Active(tx[r]) /\ Active(tx[s]) /\ tx[r].brand = tx[s].brand => r = s

Unrecorded == \A r \in Requests : Active(tx[r]) => run[tx[r].brand][tx[r].key] = "NONE"

\* r has asked the provider for key k of brand b.
AskedFor(r, b, k) == tx[r].made > 0 /\ tx[r].brand = b /\ tx[r].key = k

Accounted ==
    \A b \in Brands, k \in Keys :
        /\ asked[b][k] <= 1 + undone[b][k]
        /\ run[b][k] = "NONE" /\ (\A r \in Requests : ~AskedFor(r, b, k)) => asked[b][k] <= undone[b][k]

IInv == TypeInv /\ OneAtATime /\ Unrecorded /\ Accounted

-----------------------------------------------------------------------------
(* What a step of a request does to its transaction *)

LEMMA IdleType == Idle \in Transactions /\ Idle.at = "idle" /\ Idle.made = 0
BY BudgetAssumption DEF Idle, Transactions

\* It opens, or ends without a trace, or is not inside any more.
Outside(r) ==
    \E new \in Transactions :
        /\ tx' = [tx EXCEPT ![r] = new]
        /\ new.at \in {"idle", "waiting", "adrift", "drifting"} /\ TxKnows(new)

\* It gets in.
GetsIn(r) ==
    \E new \in Transactions :
        /\ tx' = [tx EXCEPT ![r] = new]
        /\ TxKnows(new) /\ Active(new) /\ new.made = 0
        /\ tx[r].at = "waiting" /\ ~Locked(tx[r].brand)
        /\ new.brand = tx[r].brand /\ new.key = tx[r].key
        /\ run[new.brand][new.key] = "NONE"

\* It goes on inside, and has asked afterwards only if it had before.
GoesOn(r) ==
    \E new \in Transactions :
        /\ tx' = [tx EXCEPT ![r] = new]
        /\ TxKnows(new) /\ Active(new) /\ Active(tx[r])
        /\ new.brand = tx[r].brand /\ new.key = tx[r].key
        /\ new.made > 0 <=> tx[r].made > 0

LEMMA BeginMoves ==
    ASSUME TypeInv, NEW r \in Requests, NEW b \in Brands, NEW k \in Keys, Begin(r, b, k)
    PROVE  Outside(r)
<1> DEFINE new == [Idle EXCEPT !.at = "waiting", !.brand = b, !.key = k, !.began = clock]
<1>1. new \in Transactions /\ new.at = "waiting" /\ new.brand = b /\ new.key = k /\ new.made = 0
    BY IdleType DEF Transactions, TypeInv, TypeOK
<1>2. tx' = [tx EXCEPT ![r] = new]
    BY DEF Begin
<1> HIDE DEF new
<1>3. TxKnows(new)
    BY <1>1 DEF TxKnows
<1> QED
    BY <1>1, <1>2, <1>3 DEF Outside

LEMMA EnterMoves ==
    ASSUME TypeInv, NEW r \in Requests, Enter(r)
    PROVE  Outside(r) \/ GetsIn(r)
<1>1. tx[r] \in Transactions /\ TxKnows(tx[r]) /\ tx[r].at = "waiting" /\ ~Locked(tx[r].brand)
    BY DEF Enter, TypeInv, TypeOK
<1>2. CASE run[tx[r].brand][tx[r].key] # "NONE"
    <2>1. tx' = [tx EXCEPT ![r] = Idle]
        BY <1>2 DEF Enter, TypeInv, TypeOK
    <2>2. TxKnows(Idle)
        BY IdleType DEF TxKnows
    <2> QED
        BY <2>1, <2>2, IdleType DEF Outside
<1>3. CASE run[tx[r].brand][tx[r].key] = "NONE"
    <2> DEFINE new == [tx[r] EXCEPT !.at = "reserving"]
    <2>1. tx' = [tx EXCEPT ![r] = new]
        BY <1>3 DEF Enter, TypeInv, TypeOK
    <2>2. /\ new \in Transactions /\ new.at = "reserving" /\ new.made = tx[r].made
          /\ new.brand = tx[r].brand /\ new.key = tx[r].key
        BY <1>1 DEF Transactions
    <2>3. tx[r].made = 0
        BY <1>1 DEF TxKnows, Transactions
    <2> HIDE DEF new
    <2>4. TxKnows(new) /\ Active(new)
        BY <1>1, <2>2, <2>3 DEF TxKnows, Active
    <2>5. run[new.brand][new.key] = "NONE"
        BY <1>3, <2>2
    <2> QED
        BY <1>1, <2>1, <2>2, <2>3, <2>4, <2>5 DEF GetsIn
<1> QED
    BY <1>2, <1>3

LEMMA GoingOnMoves ==
    ASSUME TypeInv, NEW r \in Requests,
           Reserve(r) \/ Refuse(r) \/ Statistics(r) \/ Answered(r) \/ NotAnswered(r)
    PROVE  GoesOn(r)
<1>1. tx[r] \in Transactions /\ TxKnows(tx[r])
    BY DEF TypeInv, TypeOK
<1>2. CASE Reserve(r)
    <2>1. PICK new \in Transactions :
            /\ tx' = [tx EXCEPT ![r] = new] /\ new.made = tx[r].made
            /\ new.brand = tx[r].brand /\ new.key = tx[r].key
            /\ new.at = "fetching" \/ (new.at = "ending" /\ new.outcome = "FAILED")
        <3> DEFINE in == [tx[r] EXCEPT !.at = "fetching", !.reserved = TRUE]
                   out == [tx[r] EXCEPT !.at = "ending", !.outcome = "FAILED"]
        <3>1. tx' = [tx EXCEPT ![r] = in] \/ tx' = [tx EXCEPT ![r] = out]
            BY <1>2 DEF Reserve, TypeInv, TypeOK
        <3>2. /\ in \in Transactions /\ in.made = tx[r].made /\ in.brand = tx[r].brand
              /\ in.key = tx[r].key /\ in.at = "fetching"
            BY <1>1 DEF Transactions
        <3>3. /\ out \in Transactions /\ out.made = tx[r].made /\ out.brand = tx[r].brand
              /\ out.key = tx[r].key /\ out.at = "ending" /\ out.outcome = "FAILED"
            BY <1>1 DEF Transactions
        <3> HIDE DEF in, out
        <3>4. CASE tx' = [tx EXCEPT ![r] = in]
            BY <3>2, <3>4
        <3>5. CASE tx' = [tx EXCEPT ![r] = out]
            BY <3>3, <3>5
        <3> QED
            BY <3>1, <3>4, <3>5
    <2>2. tx[r].at = "reserving" /\ tx[r].made = 0
        BY <1>1, <1>2 DEF Reserve, TxKnows, Transactions
    <2>3. TxKnows(new) /\ Active(new) /\ Active(tx[r])
        BY <1>1, <2>1, <2>2 DEF TxKnows, Active
    <2> QED
        BY <2>1, <2>2, <2>3 DEF GoesOn
<1>3. CASE Statistics(r)
    <2> DEFINE new == [tx[r] EXCEPT !.made = 2]
    <2>1. tx' = [tx EXCEPT ![r] = new] /\ tx[r].at = "asking" /\ tx[r].made = 1 /\ MaxCalls > 1
        BY <1>3 DEF Statistics, TypeInv, TypeOK
    <2>2. /\ new \in Transactions /\ new.made = 2 /\ new.brand = tx[r].brand
          /\ new.key = tx[r].key /\ new.at = tx[r].at
        BY <1>1, <2>1, BudgetAssumption DEF Transactions
    <2> HIDE DEF new
    <2>3. TxKnows(new) /\ Active(new) /\ Active(tx[r])
        BY <1>1, <2>1, <2>2 DEF TxKnows, Active
    <2>4. new.made > 0 <=> tx[r].made > 0
        BY <2>1, <2>2
    <2> QED
        BY <2>1, <2>2, <2>3, <2>4 DEF GoesOn
<1>4. ASSUME NEW outcome \in {"DONE", "FAILED"}, tx[r].at \in {"fetching", "asking"},
             tx' = [tx EXCEPT ![r].at = "ending", ![r].outcome = outcome]
      PROVE  GoesOn(r)
    <2> DEFINE new == [tx[r] EXCEPT !.at = "ending", !.outcome = outcome]
    <2>1. tx' = [tx EXCEPT ![r] = new]
        BY <1>4 DEF TypeInv, TypeOK
    <2>2. /\ new \in Transactions /\ new.made = tx[r].made /\ new.brand = tx[r].brand
          /\ new.key = tx[r].key /\ new.at = "ending" /\ new.outcome = outcome
        BY <1>1 DEF Transactions
    <2> HIDE DEF new
    <2>3. TxKnows(new) /\ Active(new) /\ Active(tx[r])
        BY <1>1, <1>4, <2>2 DEF TxKnows, Active
    <2> QED
        BY <2>1, <2>2, <2>3 DEF GoesOn
<1> QED
    BY <1>2, <1>3, <1>4 DEF Refuse, Answered, NotAnswered

\* The search is the one step with which a transaction comes to have asked.
LEMMA SearchMoves ==
    ASSUME TypeInv, NEW r \in Requests, Search(r)
    PROVE  \E new \in Transactions :
             /\ tx' = [tx EXCEPT ![r] = new]
             /\ TxKnows(new) /\ Active(new) /\ Active(tx[r])
             /\ new.brand = tx[r].brand /\ new.key = tx[r].key
             /\ new.made > 0 /\ tx[r].made = 0
<1> DEFINE new == [tx[r] EXCEPT !.at = "asking", !.made = 1]
<1>1. tx[r] \in Transactions /\ TxKnows(tx[r]) /\ tx[r].at = "fetching"
    BY DEF Search, TypeInv, TypeOK
<1>2. tx' = [tx EXCEPT ![r] = new]
    BY DEF Search, TypeInv, TypeOK
<1>3. 1 \in 0 .. MaxCalls
    BY BudgetAssumption DEF Search, TypeInv, TypeOK
<1>4. /\ new \in Transactions /\ new.made = 1 /\ new.brand = tx[r].brand
      /\ new.key = tx[r].key /\ new.at = "asking"
    BY <1>1, <1>3 DEF Transactions
<1>5. tx[r].made = 0
    BY <1>1 DEF TxKnows, Transactions
<1> HIDE DEF new
<1>6. TxKnows(new) /\ Active(new) /\ Active(tx[r]) /\ new.made > 0
    BY <1>1, <1>4 DEF TxKnows, Active
<1> QED
    BY <1>2, <1>4, <1>5, <1>6

\* A run without its connection asks, and both counts know.
DriftAsks(r) ==
    /\ tx[r].at = "adrift"
    /\ asked' = [asked EXCEPT ![tx[r].brand][tx[r].key] = @ + 1]
    /\ undone' = [undone EXCEPT ![tx[r].brand][tx[r].key] = @ + 1]
    /\ tx' = [tx EXCEPT ![r].at = "drifting"] /\ count' = count + 1
    /\ UNCHANGED <<clock, budget, ledger, run, faults>>

\* Or it ends.
DriftEnds(r) ==
    /\ tx[r].at \in {"adrift", "drifting"}
    /\ tx' = [tx EXCEPT ![r] = Idle] /\ count' \in {count, count + 1}
    /\ UNCHANGED <<clock, budget, ledger, run, asked, undone, faults>>

LEMMA DriftsEither == ASSUME NEW r, Drifts(r) PROVE DriftAsks(r) \/ DriftEnds(r)
BY DEF Drifts, DriftAsks, DriftEnds

LEMMA EndMoves ==
    ASSUME TypeInv, NEW r \in Requests, Commit(r) \/ Rollback(r) \/ DriftEnds(r)
    PROVE  Outside(r)
BY IdleType DEF Commit, Rollback, DriftEnds, Outside, TxKnows

LEMMA LostMoves ==
    ASSUME TypeInv, NEW r \in Requests, ConnectionLost(r)
    PROVE  Outside(r)
<1> DEFINE where == IF tx[r].at = "fetching" THEN "adrift" ELSE "drifting"
           new == [tx[r] EXCEPT !.at = where, !.made = 0, !.reserved = FALSE]
<1>1. tx[r] \in Transactions /\ TxKnows(tx[r]) /\ tx[r].at \in {"fetching", "asking"}
    BY DEF ConnectionLost, TypeInv, TypeOK
<1>2. tx' = [tx EXCEPT ![r] = new]
    BY DEF ConnectionLost, TypeInv, TypeOK
<1>0. where \in {"adrift", "drifting"} /\ 0 \in 0 .. MaxCalls
    BY BudgetAssumption
<1> HIDE DEF where
<1>3. /\ new \in Transactions /\ new.at = where /\ new.made = 0
      /\ new.brand = tx[r].brand /\ new.key = tx[r].key
    BY <1>0, <1>1 DEF Transactions
<1> HIDE DEF new
<1>4. TxKnows(new)
    BY <1>0, <1>1, <1>3 DEF TxKnows
<1> QED
    BY <1>0, <1>2, <1>3, <1>4 DEF Outside

LEMMA DriftMoves ==
    ASSUME TypeInv, NEW r \in Requests, DriftAsks(r)
    PROVE  Outside(r)
<1> DEFINE new == [tx[r] EXCEPT !.at = "drifting"]
<1>1. tx[r] \in Transactions /\ TxKnows(tx[r]) /\ tx[r].at = "adrift"
    BY DEF DriftAsks, TypeInv, TypeOK
<1>2. tx' = [tx EXCEPT ![r] = new]
    BY DEF DriftAsks, TypeInv, TypeOK
<1>3. /\ new \in Transactions /\ new.at = "drifting" /\ new.made = tx[r].made
      /\ new.brand = tx[r].brand /\ new.key = tx[r].key
    BY <1>1 DEF Transactions
<1>4. tx[r].made = 0
    BY <1>1, BudgetAssumption DEF TxKnows, Transactions
<1> HIDE DEF new
<1>5. TxKnows(new)
    BY <1>1, <1>3, <1>4 DEF TxKnows
<1> QED
    BY <1>2, <1>3, <1>5 DEF Outside

-----------------------------------------------------------------------------
(* The lock, the runs and the count of what was asked *)

LEMMA OneMoves ==
    ASSUME TypeInv, NEW r \in Requests, NEW new \in Transactions, tx' = [tx EXCEPT ![r] = new]
    PROVE  tx' \in [Requests -> Transactions] /\ \A s \in Requests : tx'[s] = IF s = r THEN new ELSE tx[s]
BY DEF TypeInv, TypeOK

\* The variables a step inside leaves alone.
Kept == UNCHANGED <<run, asked, undone>>

LEMMA OutsideKeeps ==
    ASSUME IInv, NEW r \in Requests, Outside(r), Kept, tx[r].made = 0
    PROVE  /\ tx' \in [Requests -> Transactions] /\ \A s \in Requests : TxKnows(tx'[s])
           /\ OneAtATime' /\ Unrecorded' /\ Accounted'
<1>1. PICK new \in Transactions : /\ tx' = [tx EXCEPT ![r] = new]
                                  /\ new.at \in {"idle", "waiting", "adrift", "drifting"} /\ TxKnows(new)
    BY DEF Outside
<1>2. tx' \in [Requests -> Transactions] /\ \A s \in Requests : tx'[s] = IF s = r THEN new ELSE tx[s]
    BY <1>1, OneMoves DEF IInv
<1>3. ~Active(new) /\ ~(new.made > 0)
    BY <1>1 DEF Active, TxKnows
<1>4. \A s \in Requests : TxKnows(tx'[s])
    BY <1>1, <1>2 DEF IInv, TypeInv
<1>5. OneAtATime' /\ Unrecorded'
    BY <1>2, <1>3 DEF IInv, OneAtATime, Unrecorded, Kept
<1>6. Accounted'
    <2>1. ASSUME NEW b \in Brands, NEW k \in Keys, \A s \in Requests : ~AskedFor(s, b, k)'
          PROVE  \A s \in Requests : ~AskedFor(s, b, k)
        BY <1>2, <2>1 DEF AskedFor
    <2> QED
        BY <2>1 DEF Accounted, IInv, Kept
<1> QED
    BY <1>2, <1>4, <1>5, <1>6

LEMMA InsideKeeps ==
    ASSUME IInv, NEW r \in Requests, GetsIn(r) \/ GoesOn(r), Kept
    PROVE  /\ tx' \in [Requests -> Transactions] /\ \A s \in Requests : TxKnows(tx'[s])
           /\ OneAtATime' /\ Unrecorded' /\ Accounted'
<1>1. tx[r] \in Transactions /\ TxKnows(tx[r])
    BY DEF IInv, TypeInv, TypeOK
<1>2. PICK new \in Transactions :
        /\ tx' = [tx EXCEPT ![r] = new]
        /\ TxKnows(new) /\ Active(new)
        /\ new.brand = tx[r].brand /\ new.key = tx[r].key
        /\ new.made > 0 <=> tx[r].made > 0
        /\ run[new.brand][new.key] = "NONE"
        /\ Active(tx[r]) \/ ~Locked(tx[r].brand)
    <2>1. CASE GetsIn(r)
        <3>1. ~(tx[r].made > 0)
            BY <1>1, <2>1 DEF GetsIn, TxKnows
        <3>2. PICK new \in Transactions :
                /\ tx' = [tx EXCEPT ![r] = new]
                /\ TxKnows(new) /\ Active(new) /\ new.made = 0 /\ ~Locked(tx[r].brand)
                /\ new.brand = tx[r].brand /\ new.key = tx[r].key
                /\ run[new.brand][new.key] = "NONE"
            BY <2>1 DEF GetsIn
        <3>3. new.made > 0 <=> tx[r].made > 0
            BY <3>1, <3>2
        <3> QED
            BY <3>2, <3>3
    <2>2. CASE GoesOn(r)
        BY <2>2 DEF GoesOn, IInv, Unrecorded
    <2> QED
        BY <2>1, <2>2
<1>3. tx' \in [Requests -> Transactions] /\ \A s \in Requests : tx'[s] = IF s = r THEN new ELSE tx[s]
    BY <1>2, OneMoves DEF IInv
<1>4. \A s \in Requests : TxKnows(tx'[s])
    BY <1>2, <1>3 DEF IInv, TypeInv
<1>5. \A s \in Requests : Active(tx[s]) /\ tx[s].brand = new.brand => s = r
    BY <1>2 DEF IInv, OneAtATime, Locked, Active
<1>6. OneAtATime'
    BY <1>3, <1>5 DEF IInv, OneAtATime
<1>7. Unrecorded'
    BY <1>2, <1>3 DEF IInv, Unrecorded, Kept
<1>8. Accounted'
    <2>1. \A b \in Brands, k \in Keys, s \in Requests : AskedFor(s, b, k)' <=> AskedFor(s, b, k)
        BY <1>2, <1>3 DEF AskedFor
    <2> QED
        BY <2>1 DEF Accounted, IInv, Kept
<1> QED
    BY <1>3, <1>4, <1>6, <1>7, <1>8

LEMMA SearchKeeps ==
    ASSUME IInv, NEW r \in Requests, Search(r)
    PROVE  /\ tx' \in [Requests -> Transactions] /\ \A s \in Requests : TxKnows(tx'[s])
           /\ OneAtATime' /\ Unrecorded' /\ Accounted'
<1>1. PICK new \in Transactions :
        /\ tx' = [tx EXCEPT ![r] = new]
        /\ TxKnows(new) /\ Active(new) /\ Active(tx[r])
        /\ new.brand = tx[r].brand /\ new.key = tx[r].key
        /\ new.made > 0 /\ tx[r].made = 0
    BY SearchMoves DEF IInv
<1>2. tx' \in [Requests -> Transactions] /\ \A s \in Requests : tx'[s] = IF s = r THEN new ELSE tx[s]
    BY <1>1, OneMoves DEF IInv
<1>3. \A s \in Requests : TxKnows(tx'[s])
    BY <1>1, <1>2 DEF IInv, TypeInv
<1>4. OneAtATime'
    BY <1>1, <1>2 DEF IInv, OneAtATime
<1>5. Unrecorded'
    BY <1>1, <1>2 DEF IInv, Unrecorded, Search
<1>6. ASSUME NEW b \in Brands, NEW k \in Keys
      PROVE  /\ asked'[b][k] <= 1 + undone'[b][k]
             /\ run'[b][k] = "NONE" /\ (\A s \in Requests : ~AskedFor(s, b, k)')
                   => asked'[b][k] <= undone'[b][k]
    <2>1. /\ asked[b][k] \in Nat /\ undone[b][k] \in Nat /\ asked \in [Brands -> [Keys -> Nat]]
          /\ undone' = undone /\ run' = run /\ Accounted /\ tx[r].brand \in Brands /\ tx[r].key \in Keys
          /\ tx[r].at = "fetching"
        BY DEF IInv, TypeInv, TypeOK, TxKnows, Search
    <2>2. CASE b = tx[r].brand /\ k = tx[r].key
        <3>1. asked'[b][k] = asked[b][k] + 1
            BY <2>1, <2>2 DEF Search
        <3>2. \A s \in Requests : ~AskedFor(s, b, k)
            <4>1. \A s \in Requests : tx[s].made > 0 => Active(tx[s])
                BY DEF IInv, TypeInv, TxKnows, Active
            <4> QED
                BY <1>1, <2>2, <4>1 DEF AskedFor, IInv, OneAtATime
        <3>3. run[b][k] = "NONE"
            BY <1>1, <2>2 DEF IInv, Unrecorded
        <3>4. AskedFor(r, b, k)'
            BY <1>1, <1>2, <2>2 DEF AskedFor
        <3> QED
            BY <2>1, <3>1, <3>2, <3>3, <3>4 DEF Accounted
    <2>3. CASE ~(b = tx[r].brand /\ k = tx[r].key)
        <3>1. asked'[b][k] = asked[b][k]
            BY <2>1, <2>3 DEF Search
        <3>2. \A s \in Requests : AskedFor(s, b, k)' <=> AskedFor(s, b, k)
            BY <1>1, <1>2, <2>3 DEF AskedFor
        <3> QED
            BY <2>1, <3>1, <3>2 DEF Accounted
    <2> QED
        BY <2>2, <2>3
<1>7. Accounted'
    BY <1>6 DEF Accounted
<1> QED
    BY <1>2, <1>3, <1>4, <1>5, <1>7

\* The run of the key is there, and no other transaction is inside for it.
LEMMA CommitKeeps ==
    ASSUME IInv, NEW r \in Requests, Commit(r)
    PROVE  /\ tx' \in [Requests -> Transactions] /\ \A s \in Requests : TxKnows(tx'[s])
           /\ run' \in [Brands -> [Keys -> {"NONE", "DONE", "FAILED"}]]
           /\ OneAtATime' /\ Unrecorded' /\ Accounted'
<1> DEFINE b0 == tx[r].brand
           k0 == tx[r].key
<1>1. /\ tx[r] \in Transactions /\ TxKnows(tx[r]) /\ tx[r].at = "ending" /\ Active(tx[r])
      /\ run \in [Brands -> [Keys -> {"NONE", "DONE", "FAILED"}]]
    BY DEF IInv, TypeInv, TypeOK, Commit, Active
<1>2. b0 \in Brands /\ k0 \in Keys /\ tx[r].outcome \in {"DONE", "FAILED"}
    BY <1>1 DEF TxKnows, Transactions
<1>3. /\ run' \in [Brands -> [Keys -> {"NONE", "DONE", "FAILED"}]]
      /\ \A b \in Brands, k \in Keys :
            run'[b][k] = IF b = b0 /\ k = k0 THEN tx[r].outcome ELSE run[b][k]
    BY <1>1, <1>2 DEF Commit
<1>4. tx' \in [Requests -> Transactions] /\ \A s \in Requests : tx'[s] = IF s = r THEN Idle ELSE tx[s]
    BY IdleType, OneMoves DEF IInv, Commit
<1>5. \A s \in Requests : TxKnows(tx'[s])
    BY <1>4, IdleType DEF IInv, TypeInv, TxKnows
<1>6. ~Active(Idle)
    BY IdleType DEF Active
<1>7. OneAtATime'
    BY <1>4, <1>6 DEF IInv, OneAtATime
<1>8. Unrecorded'
    <2> SUFFICES ASSUME NEW s \in Requests, Active(tx'[s])
                 PROVE  run'[tx'[s].brand][tx'[s].key] = "NONE"
        BY DEF Unrecorded
    <2>1. s # r /\ tx'[s] = tx[s] /\ Active(tx[s])
        BY <1>4, <1>6
    <2>2. tx[s].brand # b0 /\ run[tx[s].brand][tx[s].key] = "NONE"
        BY <1>1, <2>1 DEF IInv, OneAtATime, Unrecorded
    <2>3. tx[s].brand \in Brands /\ tx[s].key \in Keys
        BY <2>1 DEF IInv, TypeInv, TxKnows, Active
    <2> QED
        BY <1>3, <2>1, <2>2, <2>3
<1>9. Accounted'
    <2> SUFFICES ASSUME NEW b \in Brands, NEW k \in Keys
                 PROVE  /\ asked'[b][k] <= 1 + undone'[b][k]
                        /\ run'[b][k] = "NONE" /\ (\A s \in Requests : ~AskedFor(s, b, k)')
                               => asked'[b][k] <= undone'[b][k]
        BY DEF Accounted
    <2>1. UNCHANGED <<asked, undone>> /\ Accounted
        BY DEF Commit, IInv
    <2>2. CASE b = b0 /\ k = k0
        BY <1>2, <1>3, <2>1, <2>2 DEF Accounted
    <2>3. CASE ~(b = b0 /\ k = k0)
        <3>1. run'[b][k] = run[b][k]
            BY <1>3, <2>3
        <3>2. \A s \in Requests : AskedFor(s, b, k) => AskedFor(s, b, k)'
            BY <1>4, <2>3 DEF AskedFor
        <3> QED
            BY <2>1, <3>1, <3>2 DEF Accounted
    <2> QED
        BY <2>2, <2>3
<1> QED
    BY <1>3, <1>4, <1>5, <1>7, <1>8, <1>9

\* Transactions that are rolled back are accounted for.
LEMMA UndoKeeps ==
    ASSUME IInv, NEW gone \in SUBSET Requests, Undo(gone), UNCHANGED <<run, asked>>,
           tx' \in [Requests -> Transactions], \A s \in Requests \ gone : tx'[s] = tx[s],
           \A s \in gone : TxKnows(tx'[s]) /\ ~Active(tx'[s])
    PROVE  /\ \A s \in Requests : TxKnows(tx'[s])
           /\ undone' \in [Brands -> [Keys -> Nat]]
           /\ OneAtATime' /\ Unrecorded' /\ Accounted'
<1> DEFINE Lost(b, k) == {r \in gone : tx[r].brand = b /\ tx[r].key = k /\ tx[r].made > 0}
<1>2. \A s \in Requests : TxKnows(tx'[s])
    BY DEF IInv, TypeInv
<1>4. OneAtATime' /\ Unrecorded'
    <2>1. \A s \in Requests : Active(tx'[s]) => tx'[s] = tx[s]
        OBVIOUS
    <2> QED
        BY <2>1 DEF IInv, OneAtATime, Unrecorded
<1>5. ASSUME NEW b \in Brands, NEW k \in Keys
      PROVE  /\ Cardinality(Lost(b, k)) \in Nat
             /\ Lost(b, k) # {} => Cardinality(Lost(b, k)) > 0
    <2>1. IsFiniteSet(Lost(b, k))
        BY BudgetAssumption, FS_Subset
    <2> HIDE DEF Lost
    <2> QED
        BY <2>1, FS_CardinalityType, FS_EmptySet
<1>6. undone' = [b \in Brands |-> [k \in Keys |-> undone[b][k] + Cardinality(Lost(b, k))]]
    BY DEF Undo
<1>7. undone \in [Brands -> [Keys -> Nat]] /\ asked \in [Brands -> [Keys -> Nat]]
    BY DEF IInv, TypeInv, TypeOK
<1>8. Accounted'
    <2> SUFFICES ASSUME NEW b \in Brands, NEW k \in Keys
                 PROVE  /\ asked'[b][k] <= 1 + undone'[b][k]
                        /\ run'[b][k] = "NONE" /\ (\A s \in Requests : ~AskedFor(s, b, k)')
                               => asked'[b][k] <= undone'[b][k]
        BY DEF Accounted
    <2>0. /\ undone'[b][k] = undone[b][k] + Cardinality(Lost(b, k))
          /\ undone[b][k] \in Nat /\ asked[b][k] \in Nat /\ asked' = asked
          /\ Cardinality(Lost(b, k)) \in Nat
          /\ Lost(b, k) # {} => Cardinality(Lost(b, k)) > 0
        <3> HIDE DEF Lost
        <3> QED
            BY <1>5, <1>6, <1>7
    <2>1. CASE Lost(b, k) # {}
        <3> HIDE DEF Lost
        <3> QED
            BY <2>0, <2>1 DEF IInv, Accounted
    <2>2. CASE Lost(b, k) = {}
        <3>1. \A s \in Requests : AskedFor(s, b, k) => AskedFor(s, b, k)'
            BY <2>2 DEF AskedFor
        <3> HIDE DEF Lost
        <3> QED
            BY <2>0, <3>1 DEF IInv, Accounted
    <2> QED
        BY <2>1, <2>2
<1>9. undone' \in [Brands -> [Keys -> Nat]]
    <2> HIDE DEF Lost
    <2> QED
        BY <1>5, <1>6, <1>7
<1> QED
    BY <1>2, <1>4, <1>8, <1>9

\* A run without its connection that asks is counted on both sides.
LEMMA DriftKeeps ==
    ASSUME IInv, NEW r \in Requests, DriftAsks(r)
    PROVE  /\ tx' \in [Requests -> Transactions] /\ \A s \in Requests : TxKnows(tx'[s])
           /\ asked' \in [Brands -> [Keys -> Nat]] /\ undone' \in [Brands -> [Keys -> Nat]]
           /\ OneAtATime' /\ Unrecorded' /\ Accounted'
<1>1. PICK new \in Transactions :
        /\ tx' = [tx EXCEPT ![r] = new]
        /\ new.at \in {"idle", "waiting", "adrift", "drifting"} /\ TxKnows(new)
    BY DriftMoves DEF IInv, Outside
<1>2. tx' \in [Requests -> Transactions] /\ \A s \in Requests : tx'[s] = IF s = r THEN new ELSE tx[s]
    BY <1>1, OneMoves DEF IInv
<1>3. ~Active(new)
    BY <1>1 DEF Active
<1>4. \A s \in Requests : TxKnows(tx'[s])
    BY <1>1, <1>2 DEF IInv, TypeInv
<1>5. OneAtATime' /\ Unrecorded'
    BY <1>2, <1>3 DEF IInv, OneAtATime, Unrecorded, DriftAsks
<1>6. /\ tx[r].brand \in Brands /\ tx[r].key \in Keys /\ ~(tx[r].made > 0)
      /\ asked \in [Brands -> [Keys -> Nat]] /\ undone \in [Brands -> [Keys -> Nat]]
    BY DEF IInv, TypeInv, TypeOK, TxKnows, DriftAsks
<1>7. /\ asked' \in [Brands -> [Keys -> Nat]] /\ undone' \in [Brands -> [Keys -> Nat]]
      /\ \A b \in Brands, k \in Keys :
            \/ asked'[b][k] = asked[b][k] /\ undone'[b][k] = undone[b][k]
            \/ asked'[b][k] = asked[b][k] + 1 /\ undone'[b][k] = undone[b][k] + 1
    BY <1>6 DEF DriftAsks
<1>8. Accounted'
    <2> SUFFICES ASSUME NEW b \in Brands, NEW k \in Keys
                 PROVE  /\ asked'[b][k] <= 1 + undone'[b][k]
                        /\ run'[b][k] = "NONE" /\ (\A s \in Requests : ~AskedFor(s, b, k)')
                               => asked'[b][k] <= undone'[b][k]
        BY DEF Accounted
    <2>1. \A s \in Requests : AskedFor(s, b, k) => AskedFor(s, b, k)'
        BY <1>2, <1>6 DEF AskedFor
    <2>2. /\ asked[b][k] <= 1 + undone[b][k]
          /\ run[b][k] = "NONE" /\ (\A s \in Requests : ~AskedFor(s, b, k)) => asked[b][k] <= undone[b][k]
          /\ asked[b][k] \in Nat /\ undone[b][k] \in Nat /\ run' = run
        BY <1>6 DEF IInv, Accounted, DriftAsks
    <2> QED
        BY <1>7, <2>1, <2>2
<1> QED
    BY <1>2, <1>4, <1>5, <1>7, <1>8

-----------------------------------------------------------------------------
(* Sums.  SumFunctionOnSet chooses a function that is recursive over the   *)
(* subsets of a set; that there is one, and what holds of it, follows from *)
(* a least set among those of which it would not hold.                     *)

Pick(S) == CHOOSE x \in S : TRUE

\* g sums f over every subset of S, as the fold does.
SumIs(g, f, S) ==
    g = [s \in SUBSET S |-> IF s = {} THEN 0 ELSE f[Pick(s)] + g[s \ {Pick(s)}]]

LEMMA SumUnfolds ==
    ASSUME NEW f, NEW S
    PROVE  SumFunctionOnSet(f, S) = (CHOOSE g : SumIs(g, f, S))[S]
BY Zenon DEF SumFunctionOnSet, FoldFunctionOnSet, MapThenFoldSet, SumIs, Pick

\* The induction over finite sets: of those in a set of them one is least.
LEMMA LeastSet ==
    ASSUME NEW S, IsFiniteSet(S), NEW bad \in SUBSET (SUBSET S), bad # {}
    PROVE  \E T \in bad : \A U \in SUBSET T : U # T => U \notin bad
<1>1. FiniteSubsetsOf(S) = SUBSET S
    BY FS_FiniteSubsetsOfFinite
<1>2. PICK T \in bad : \A U \in bad : ~(<<U, T>> \in StrictSubsetOrdering(S))
    BY <1>1, FS_StrictSubsetOrderingWellFounded, WFMin
<1> QED
    BY <1>2 DEF StrictSubsetOrdering

LEMMA PickRest ==
    ASSUME NEW s, s # {}
    PROVE  Pick(s) \in s /\ s \ {Pick(s)} \in SUBSET s /\ s \ {Pick(s)} # s
BY DEF Pick

LEMMA SumStep ==
    ASSUME NEW g, NEW f, NEW S, SumIs(g, f, S), NEW s \in SUBSET S
    PROVE  g[s] = IF s = {} THEN 0 ELSE f[Pick(s)] + g[s \ {Pick(s)}]
BY DEF SumIs

LEMMA SumIsByStep ==
    ASSUME NEW g, NEW f, NEW S, g = [s \in SUBSET S |-> g[s]],
           \A s \in SUBSET S : g[s] = IF s = {} THEN 0 ELSE f[Pick(s)] + g[s \ {Pick(s)}]
    PROVE  SumIs(g, f, S)
BY DEF SumIs

\* Two such functions agree where both are defined.
LEMMA SumUnique ==
    ASSUME NEW f, NEW S, IsFiniteSet(S), NEW R, NEW g, NEW h, SumIs(g, f, S), SumIs(h, f, R),
           NEW s \in SUBSET S, s \in SUBSET R
    PROVE  g[s] = h[s]
<1> DEFINE bad == {t \in SUBSET S : t \in SUBSET R /\ g[t] # h[t]}
<1> SUFFICES ASSUME bad # {} PROVE FALSE
    OBVIOUS
<1>1. PICK T \in bad : \A U \in SUBSET T : U # T => U \notin bad
    <2>1. bad \in SUBSET (SUBSET S)
        OBVIOUS
    <2> HIDE DEF bad
    <2> QED
        BY <2>1, LeastSet
<1>2. /\ T \in SUBSET S /\ T \in SUBSET R /\ g[T] # h[T]
      /\ \A U \in SUBSET T : U # T => g[U] = h[U]
    BY <1>1
<1> HIDE DEF bad
<1>3. g[T] = IF T = {} THEN 0 ELSE f[Pick(T)] + g[T \ {Pick(T)}]
    BY <1>2 DEF SumIs
<1>4. h[T] = IF T = {} THEN 0 ELSE f[Pick(T)] + h[T \ {Pick(T)}]
    BY <1>2 DEF SumIs
<1>5. CASE T = {}
    BY <1>2, <1>3, <1>4, <1>5
<1>6. CASE T # {}
    <2>1. g[T \ {Pick(T)}] = h[T \ {Pick(T)}]
        BY <1>2, <1>6, PickRest
    <2>2. g[T] = f[Pick(T)] + g[T \ {Pick(T)}] /\ h[T] = f[Pick(T)] + h[T \ {Pick(T)}]
        BY <1>3, <1>4, <1>6
    <2> QED
        BY <1>2, <2>1, <2>2
<1> QED
    BY <1>5, <1>6

\* There is one for every finite set.
LEMMA SumExists ==
    ASSUME NEW f, NEW S, IsFiniteSet(S)
    PROVE  \E g : SumIs(g, f, S)
<1> DEFINE bad == {t \in SUBSET S : ~ \E g : SumIs(g, f, t)}
<1> SUFFICES ASSUME bad # {} PROVE FALSE
    OBVIOUS
<1>1. PICK T \in bad : \A U \in SUBSET T : U # T => U \notin bad
    <2>1. bad \in SUBSET (SUBSET S)
        OBVIOUS
    <2> HIDE DEF bad
    <2> QED
        BY <2>1, LeastSet
<1>2. \A U \in SUBSET T : U # T => \E g : SumIs(g, f, U)
    BY <1>1
<1>3. T \in SUBSET S /\ IsFiniteSet(T)
    BY <1>1, FS_Subset
<1> DEFINE of(U) == CHOOSE g : SumIs(g, f, U)
           rest(s) == s \ {Pick(s)}
           all == [s \in SUBSET T |-> IF s = {} THEN 0 ELSE f[Pick(s)] + of(rest(s))[rest(s)]]
<1>4. ASSUME NEW U \in SUBSET T, U # T PROVE SumIs(of(U), f, U)
    BY <1>2, <1>4
<1>5. ASSUME NEW U \in SUBSET T, U # T PROVE all[U] = of(U)[U]
    <2>1. all[U] = IF U = {} THEN 0 ELSE f[Pick(U)] + of(rest(U))[rest(U)]
        BY <1>5
    <2>2. SumIs(of(U), f, U)
        BY <1>4, <1>5
    <2> HIDE DEF all, of
    <2>3. of(U)[U] = IF U = {} THEN 0 ELSE f[Pick(U)] + of(U)[rest(U)]
        BY <2>2, SumStep
    <2>4. CASE U # {}
        <3>1. rest(U) \in SUBSET U /\ rest(U) # T /\ rest(U) \in SUBSET T
            BY <2>4, <1>5, PickRest
        <3>2. SumIs(of(rest(U)), f, rest(U))
            BY <1>4, <3>1
        <3>3. IsFiniteSet(U)
            BY <1>3, FS_Subset
        <3>4. of(U)[rest(U)] = of(rest(U))[rest(U)]
            <4> HIDE DEF rest
            <4> QED
                BY <2>2, <3>1, <3>2, <3>3, SumUnique
        <3> QED
            BY <2>1, <2>3, <3>4
    <2> QED
        BY <2>1, <2>3, <2>4
<1>6. SumIs(all, f, T)
    <2>1. ASSUME NEW s \in SUBSET T, s # {} PROVE of(rest(s))[rest(s)] = all[rest(s)]
        <3>1. rest(s) \in SUBSET T /\ rest(s) # T
            BY <2>1, PickRest
        <3> HIDE DEF all, of, rest
        <3> QED
            BY <1>5, <3>1
    <2>2. all = [s \in SUBSET T |-> all[s]]
        OBVIOUS
    <2>3. ASSUME NEW s \in SUBSET T PROVE all[s] = IF s = {} THEN 0 ELSE f[Pick(s)] + all[s \ {Pick(s)}]
        <3> HIDE DEF of
        <3>1. all[s] = IF s = {} THEN 0 ELSE f[Pick(s)] + of(rest(s))[rest(s)]
            OBVIOUS
        <3>2. s # {} => of(rest(s))[rest(s)] = all[rest(s)]
            <4> HIDE DEF all, rest
            <4> QED
                BY <2>1
        <3> HIDE DEF all
        <3>3. CASE s = {}
            BY <3>1, <3>3
        <3>4. CASE s # {}
            BY <3>1, <3>2, <3>4
        <3> QED
            BY <3>3, <3>4
    <2> HIDE DEF all
    <2> QED
        BY <2>2, <2>3, SumIsByStep
<1> QED
    BY <1>1, <1>6

\* The sum over a finite set, element by element.
LEMMA SumRest ==
    ASSUME NEW f, NEW S, IsFiniteSet(S)
    PROVE  SumFunctionOnSet(f, S) =
             IF S = {} THEN 0 ELSE f[Pick(S)] + SumFunctionOnSet(f, S \ {Pick(S)})
<1> DEFINE g == CHOOSE g : SumIs(g, f, S)
           R == S \ {Pick(S)}
           h == CHOOSE h : SumIs(h, f, R)
<1>1. SumIs(g, f, S)
    BY SumExists
<1>2. IsFiniteSet(R) /\ R \in SUBSET S
    BY FS_Subset
<1>3. SumIs(h, f, R)
    <2> HIDE DEF R
    <2> QED
        BY <1>2, SumExists
<1>4. SumFunctionOnSet(f, S) = g[S]
    BY SumUnfolds
<1>5. SumFunctionOnSet(f, R) = h[R]
    <2> HIDE DEF R
    <2> QED
        BY SumUnfolds
<1> HIDE DEF g, h
<1>6. g[S] = IF S = {} THEN 0 ELSE f[Pick(S)] + g[R]
    BY <1>1, SumStep
<1>7. g[R] = h[R]
    <2> HIDE DEF R
    <2> QED
        BY <1>1, <1>2, <1>3, SumUnique
<1> QED
    BY <1>4, <1>5, <1>6, <1>7

\* What sums to no more element by element sums to no more.
LEMMA SumMonotone ==
    ASSUME NEW S, IsFiniteSet(S), NEW f, NEW g,
           \A x \in S : f[x] \in Nat /\ g[x] \in Nat /\ f[x] <= g[x]
    PROVE  /\ SumFunctionOnSet(f, S) \in Nat /\ SumFunctionOnSet(g, S) \in Nat
           /\ SumFunctionOnSet(f, S) <= SumFunctionOnSet(g, S)
<1> DEFINE Good(T) == /\ SumFunctionOnSet(f, T) \in Nat /\ SumFunctionOnSet(g, T) \in Nat
                      /\ SumFunctionOnSet(f, T) <= SumFunctionOnSet(g, T)
           bad == {T \in SUBSET S : ~Good(T)}
<1> SUFFICES Good(S)
    OBVIOUS
<1> SUFFICES ASSUME bad # {} PROVE FALSE
    <2> HIDE DEF Good
    <2> QED
        OBVIOUS
<1>1. PICK T \in bad : \A U \in SUBSET T : U # T => U \notin bad
    <2>1. bad \in SUBSET (SUBSET S)
        OBVIOUS
    <2> HIDE DEF bad
    <2> QED
        BY <2>1, LeastSet
<1>2. T \in SUBSET S /\ IsFiniteSet(T) /\ ~Good(T) /\ \A U \in SUBSET T : U # T => Good(U)
    <2> HIDE DEF Good
    <2> QED
        BY <1>1, FS_Subset
<1>3. SumFunctionOnSet(f, T) = IF T = {} THEN 0 ELSE f[Pick(T)] + SumFunctionOnSet(f, T \ {Pick(T)})
    BY <1>2, SumRest
<1>4. SumFunctionOnSet(g, T) = IF T = {} THEN 0 ELSE g[Pick(T)] + SumFunctionOnSet(g, T \ {Pick(T)})
    BY <1>2, SumRest
<1>5. CASE T # {}
    <2>1. Pick(T) \in S /\ Good(T \ {Pick(T)})
        BY <1>2, <1>5, PickRest
    <2> QED
        BY <1>2, <1>3, <1>4, <1>5, <2>1
<1>6. CASE T = {}
    BY <1>2, <1>3, <1>4, <1>6
<1> QED
    BY <1>5, <1>6

\* Numbers of at most c sum to at most c for each.
LEMMA SumBounded ==
    ASSUME NEW S, IsFiniteSet(S), NEW f, NEW c \in Nat, \A x \in S : f[x] \in 0 .. c
    PROVE  SumFunctionOnSet(f, S) \in Nat /\ SumFunctionOnSet(f, S) <= c * Cardinality(S)
<1> DEFINE Good(T) == SumFunctionOnSet(f, T) \in Nat /\ SumFunctionOnSet(f, T) <= c * Cardinality(T)
           bad == {T \in SUBSET S : ~Good(T)}
<1> SUFFICES Good(S)
    OBVIOUS
<1> SUFFICES ASSUME bad # {} PROVE FALSE
    <2> HIDE DEF Good
    <2> QED
        OBVIOUS
<1>1. PICK T \in bad : \A U \in SUBSET T : U # T => U \notin bad
    <2>1. bad \in SUBSET (SUBSET S)
        OBVIOUS
    <2> HIDE DEF bad
    <2> QED
        BY <2>1, LeastSet
<1>2. T \in SUBSET S /\ IsFiniteSet(T) /\ ~Good(T) /\ \A U \in SUBSET T : U # T => Good(U)
    <2> HIDE DEF Good
    <2> QED
        BY <1>1, FS_Subset
<1>3. SumFunctionOnSet(f, T) = IF T = {} THEN 0 ELSE f[Pick(T)] + SumFunctionOnSet(f, T \ {Pick(T)})
    BY <1>2, SumRest
<1>4. CASE T # {}
    <2>1. f[Pick(T)] \in 0 .. c /\ Good(T \ {Pick(T)}) /\ Pick(T) \in T
        BY <1>2, <1>4, PickRest
    <2>2. Cardinality(T \ {Pick(T)}) = Cardinality(T) - 1 /\ Cardinality(T) \in Nat
        BY <1>2, <2>1, FS_RemoveElement, FS_CardinalityType
    <2>3. c * (Cardinality(T) - 1) + c = c * Cardinality(T)
        BY <2>2
    <2> QED
        BY <1>2, <1>3, <1>4, <2>1, <2>2, <2>3
<1>5. CASE T = {}
    BY <1>2, <1>3, <1>5, FS_EmptySet
<1> QED
    BY <1>4, <1>5

-----------------------------------------------------------------------------
(* The inductive invariant *)

LEMMA InitInv == Init => IInv
<1> SUFFICES ASSUME Init PROVE IInv
    OBVIOUS
<1>1. NoRow \in Row
    BY BudgetAssumption DEF NoRow, Row
<1>2. TypeOK
    BY <1>1, IdleType, BudgetAssumption DEF Init, TypeOK
<1>3. \A r \in Requests : TxKnows(tx[r]) /\ ~Active(tx[r])
    BY IdleType DEF Init, TxKnows, Active
<1>4. Accounted
    BY DEF Init, Accounted
<1> QED
    BY <1>2, <1>3, <1>4 DEF IInv, TypeInv, OneAtATime, Unrecorded

LEMMA RowType ==
    ASSUME NEW t \in Transactions
    PROVE  t.at = "ending" => SettledRow(t) \in Row
<1>1. /\ t.began \in 0 .. Days /\ t.made \in 0 .. MaxCalls /\ MaxCalls \in 0 .. MaxCalls
    BY BudgetAssumption DEF Transactions
<1> QED
    BY <1>1 DEF SettledRow, Row

\* What a step of a request does to the variables the lock has no part in.
LEMMA RestType ==
    ASSUME TypeInv, NEW r \in Requests, RequestStep(r)
    PROVE  /\ clock' \in 0 .. Days /\ budget' \in [Brands -> Budgets \cup {NONE}]
           /\ ledger' \in [Brands -> [Keys -> Row]] /\ count' \in Nat
           /\ asked' \in [Brands -> [Keys -> Nat]] /\ faults' \in 0 .. MaxFaults
<1>1. clock' \in 0 .. Days /\ budget' \in [Brands -> Budgets \cup {NONE}]
    <2>1. UNCHANGED <<clock, budget>>
        BY DriftsEither
           DEF RequestStep, Begin, Enter, Reserve, Refuse, Search, Statistics, Answered,
               NotAnswered, Commit, Rollback, ConnectionLost, DriftAsks, DriftEnds
    <2> QED
        BY <2>1 DEF TypeInv, TypeOK
<1>2. ledger' \in [Brands -> [Keys -> Row]]
    <2>1. CASE Commit(r)
        <3>1. tx[r] \in Transactions /\ tx[r].at = "ending"
            BY <2>1 DEF Commit, TypeInv, TypeOK
        <3>2. SettledRow(tx[r]) \in Row
            BY <3>1, RowType
        <3> QED
            BY <2>1, <3>2 DEF Commit, TypeInv, TypeOK
    <2>2. CASE ~Commit(r)
        <3>1. ledger' = ledger
            BY <2>2, DriftsEither
               DEF RequestStep, Begin, Enter, Reserve, Refuse, Search, Statistics, Answered,
                   NotAnswered, Rollback, ConnectionLost, DriftAsks, DriftEnds
        <3> QED
            BY <3>1 DEF TypeInv, TypeOK
    <2> QED
        BY <2>1, <2>2
<1>3. count' \in Nat
    <2>1. CASE Answered(r)
        <3>1. tx[r].made \in Nat /\ tx[r].made > 0
            BY <2>1, BudgetAssumption DEF Answered, TypeInv, TypeOK, TxKnows, Transactions
        <3> QED
            BY <2>1, <3>1 DEF Answered, TypeInv, TypeOK
    <2>2. CASE ~Answered(r)
        <3>1. count' = count \/ count' = count + 1
            BY <2>2, DriftsEither
               DEF RequestStep, Begin, Enter, Reserve, Refuse, Search, Statistics,
                   NotAnswered, Commit, Rollback, ConnectionLost, DriftAsks, DriftEnds
        <3> QED
            BY <3>1 DEF TypeInv, TypeOK
    <2> QED
        BY <2>1, <2>2
<1>4. asked' \in [Brands -> [Keys -> Nat]]
    <2>1. CASE Search(r)
        <3>1. tx[r].brand \in Brands /\ tx[r].key \in Keys
            BY <2>1 DEF Search, TypeInv, TxKnows
        <3> QED
            BY <2>1, <3>1 DEF Search, TypeInv, TypeOK
    <2>2. CASE DriftAsks(r)
        <3>1. tx[r].brand \in Brands /\ tx[r].key \in Keys
            BY <2>2 DEF DriftAsks, TypeInv, TxKnows
        <3> QED
            BY <2>2, <3>1 DEF DriftAsks, TypeInv, TypeOK
    <2>3. CASE ~Search(r) /\ ~DriftAsks(r)
        <3>1. asked' = asked
            BY <2>3, DriftsEither
               DEF RequestStep, Begin, Enter, Reserve, Refuse, Statistics, Answered,
                   NotAnswered, Commit, Rollback, ConnectionLost, DriftEnds
        <3> QED
            BY <3>1 DEF TypeInv, TypeOK
    <2> QED
        BY <2>1, <2>2, <2>3
<1>5. faults' \in 0 .. MaxFaults
    <2>1. faults' = faults \/ Fault
        BY DriftsEither
           DEF RequestStep, Begin, Enter, Reserve, Refuse, Search, Statistics, Answered,
               NotAnswered, Commit, Rollback, ConnectionLost, DriftAsks, DriftEnds
    <2> QED
        BY <2>1, BudgetAssumption DEF Fault, TypeInv, TypeOK
<1> QED
    BY <1>1, <1>2, <1>3, <1>4, <1>5

LEMMA RequestHolds ==
    ASSUME IInv, NEW r \in Requests, RequestStep(r)
    PROVE  /\ tx' \in [Requests -> Transactions] /\ \A s \in Requests : TxKnows(tx'[s])
           /\ OneAtATime' /\ Unrecorded' /\ Accounted'
           /\ run' \in [Brands -> [Keys -> {"NONE", "DONE", "FAILED"}]]
           /\ undone' \in [Brands -> [Keys -> Nat]]
<1> DEFINE Held == /\ tx' \in [Requests -> Transactions] /\ \A s \in Requests : TxKnows(tx'[s])
                   /\ OneAtATime' /\ Unrecorded' /\ Accounted'
           Typed == /\ run' \in [Brands -> [Keys -> {"NONE", "DONE", "FAILED"}]]
                    /\ undone' \in [Brands -> [Keys -> Nat]]
<1>0. TypeInv
    BY DEF IInv
<1>1. CASE (\E b \in Brands, k \in Keys : Begin(r, b, k)) \/ Enter(r)
    <2>1. Outside(r) \/ GetsIn(r)
        BY <1>0, <1>1, BeginMoves, EnterMoves
    <2>2. Kept /\ tx[r].at \in {"idle", "waiting"}
        BY <1>1 DEF Begin, Enter, Kept
    <2>3. tx[r].made = 0
        BY <1>0, <2>2 DEF TypeInv, TypeOK, TxKnows, Transactions
    <2>4. Held
        BY <2>1, <2>2, <2>3, OutsideKeeps, InsideKeeps
    <2>5. Typed
        BY <1>0, <2>2 DEF Kept, TypeInv, TypeOK
    <2> QED
        BY <2>4, <2>5
<1>2. CASE Reserve(r) \/ Refuse(r) \/ Statistics(r) \/ Answered(r) \/ NotAnswered(r)
    <2>1. GoesOn(r) /\ Kept
        BY <1>0, <1>2, GoingOnMoves DEF Reserve, Refuse, Statistics, Answered, NotAnswered, Kept
    <2>2. Held
        BY <2>1, InsideKeeps
    <2>3. Typed
        BY <1>0, <2>1 DEF Kept, TypeInv, TypeOK
    <2> QED
        BY <2>2, <2>3
<1>3. CASE Search(r)
    <2>1. Held
        BY <1>3, SearchKeeps
    <2>2. Typed
        BY <1>0, <1>3 DEF Search, TypeInv, TypeOK
    <2> QED
        BY <2>1, <2>2
<1>4. CASE Commit(r)
    <2>1. Held /\ run' \in [Brands -> [Keys -> {"NONE", "DONE", "FAILED"}]]
        BY <1>4, CommitKeeps
    <2>2. undone' \in [Brands -> [Keys -> Nat]]
        BY <1>0, <1>4 DEF Commit, TypeInv, TypeOK
    <2> QED
        BY <2>1, <2>2
<1>5. CASE Rollback(r) \/ ConnectionLost(r)
    <2>1. PICK new \in Transactions :
            /\ tx' = [tx EXCEPT ![r] = new]
            /\ new.at \in {"idle", "waiting", "adrift", "drifting"} /\ TxKnows(new)
        BY <1>0, <1>5, EndMoves, LostMoves DEF Outside
    <2>2. tx' \in [Requests -> Transactions] /\ \A s \in Requests : tx'[s] = IF s = r THEN new ELSE tx[s]
        BY <1>0, <2>1, OneMoves
    <2>3. ~Active(new)
        BY <2>1 DEF Active
    <2>4. Undo({r}) /\ UNCHANGED <<run, asked>>
        BY <1>5 DEF Rollback, ConnectionLost
    <2>5. Held /\ undone' \in [Brands -> [Keys -> Nat]]
        <3>1. \A s \in Requests \ {r} : tx'[s] = tx[s]
            BY <2>2
        <3>2. \A s \in {r} : TxKnows(tx'[s]) /\ ~Active(tx'[s])
            BY <2>1, <2>2, <2>3
        <3> QED
            BY <2>2, <2>4, <3>1, <3>2, UndoKeeps
    <2>6. run' \in [Brands -> [Keys -> {"NONE", "DONE", "FAILED"}]]
        BY <1>0, <2>4 DEF TypeInv, TypeOK
    <2> QED
        BY <2>5, <2>6
<1>6. CASE DriftAsks(r)
    <2>1. run' \in [Brands -> [Keys -> {"NONE", "DONE", "FAILED"}]]
        BY <1>0, <1>6 DEF DriftAsks, TypeInv, TypeOK
    <2> QED
        BY <1>6, <2>1, DriftKeeps
<1>7. CASE DriftEnds(r)
    <2>1. Outside(r) /\ Kept
        BY <1>0, <1>7, EndMoves DEF DriftEnds, Kept
    <2>2. tx[r].made = 0
        BY <1>0, <1>7, BudgetAssumption DEF DriftEnds, TypeInv, TypeOK, TxKnows, Transactions
    <2>3. Held
        BY <2>1, <2>2, OutsideKeeps
    <2>4. Typed
        BY <1>0, <2>1 DEF Kept, TypeInv, TypeOK
    <2> QED
        BY <2>3, <2>4
<1> QED
    BY <1>1, <1>2, <1>3, <1>4, <1>5, <1>6, <1>7, DriftsEither DEF RequestStep

LEMMA RequestInv ==
    ASSUME IInv, NEW r \in Requests, RequestStep(r)
    PROVE  IInv'
<1>1. TypeInv'
    BY RequestHolds, RestType DEF IInv, TypeInv, TypeOK
<1> QED
    BY <1>1, RequestHolds DEF IInv

LEMMA NextInv == IInv /\ [Next]_vars => IInv'
<1> SUFFICES ASSUME IInv, [Next]_vars PROVE IInv'
    OBVIOUS
<1>1. ASSUME NEW b \in Brands, NEW new \in Budgets, SetBudget(b, new) PROVE IInv'
    BY <1>1 DEF SetBudget, IInv, TypeInv, TypeOK, OneAtATime, Unrecorded, Accounted, AskedFor
<1>2. CASE NextDay
    <2>1. clock' \in 0 .. Days
        BY <1>2, BudgetAssumption DEF NextDay, IInv, TypeInv, TypeOK
    <2> QED
        BY <1>2, <2>1 DEF NextDay, IInv, TypeInv, TypeOK, OneAtATime, Unrecorded, Accounted, AskedFor
<1>3. CASE Restart
    <2>1. /\ tx' \in [Requests -> Transactions]
          /\ \A s \in Requests : TxKnows(tx'[s]) /\ ~Active(tx'[s])
        BY <1>3, IdleType DEF Restart, TxKnows, Active
    <2>2. Undo(Requests) /\ UNCHANGED <<clock, budget, ledger, run, asked>> /\ count' = 0
        BY <1>3 DEF Restart
    <2>3. /\ tx' \in [Requests -> Transactions] /\ \A s \in Requests : TxKnows(tx'[s])
          /\ undone' \in [Brands -> [Keys -> Nat]]
          /\ OneAtATime' /\ Unrecorded' /\ Accounted'
        BY <2>1, <2>2, UndoKeeps
    <2>4. faults' \in 0 .. MaxFaults
        BY <1>3, BudgetAssumption DEF Restart, Fault, IInv, TypeInv, TypeOK
    <2> QED
        BY <2>2, <2>3, <2>4 DEF IInv, TypeInv, TypeOK
<1>4. CASE UNCHANGED vars
    BY <1>4 DEF vars, IInv, TypeInv, TypeOK, OneAtATime, Unrecorded, Accounted, AskedFor
<1> QED
    BY <1>1, <1>2, <1>3, <1>4, RequestInv DEF Next

LEMMA AlwaysIInv == Spec => []IInv
BY InitInv, NextInv, PTL DEF Spec

-----------------------------------------------------------------------------
(* What was paid for stays within the newest budget *)

\* r has reserved calls of brand b on that day, and makes them.
PaysFor(r, b, day) == tx[r].at \in {"fetching", "asking"} /\ tx[r].brand = b /\ tx[r].began = day

\* A row is of a run that is recorded (both are, in one transaction).
RowsOfRuns == \A b \in Brands, k \in Keys : ledger[b][k].status # "NONE" => run[b][k] # "NONE"

\* A row counts at least what was asked of the provider.
RowsCover == \A b \in Brands, k \in Keys : ledger[b][k].made <= ledger[b][k].counted

Recorded(b) == {k \in Keys : ledger[b][k].status # "NONE"}
RowsAreFinite == \A b \in Brands : IsFiniteSet(Recorded(b))

\* What a transaction reserved still fits while it asks: the lock keeps the
\* brand's rows and its budget as they were.
Admitted ==
    \A r \in Requests, b \in Brands, day \in 0 .. Days :
        PaysFor(r, b, day) => Fits(b, day)

PaidInv == RowsOfRuns /\ RowsCover /\ RowsAreFinite /\ Admitted

LEMMA InitPaid == Init => PaidInv
<1> SUFFICES ASSUME Init PROVE PaidInv
    OBVIOUS
<1>1. \A b \in Brands, k \in Keys : ledger[b][k] = NoRow
    BY DEF Init
<1>2. \A b \in Brands : Recorded(b) = {}
    BY <1>1 DEF Recorded, NoRow
<1>3. RowsAreFinite
    BY <1>2, FS_EmptySet DEF RowsAreFinite
<1>4. RowsOfRuns /\ RowsCover
    BY <1>1 DEF RowsOfRuns, RowsCover, NoRow
<1>5. Admitted
    BY IdleType DEF Init, Admitted, PaysFor
<1> QED
    BY <1>3, <1>4, <1>5 DEF PaidInv

\* Whether a reservation fits depends on the brand's rows and budget.
LEMMA FitsStays ==
    ASSUME NEW b, NEW day, Fits(b, day), ledger'[b] = ledger[b], budget'[b] = budget[b]
    PROVE  Fits(b, day)'
<1>1. \A kind : InWindow(b, kind, day)' = InWindow(b, kind, day)
    BY DEF InWindow
<1>2. \A kind : SpentCalls(b, kind, day)' = SpentCalls(b, kind, day)
    BY <1>1 DEF SpentCalls
<1>3. \A kind : SpentCost(b, kind, day)' = SpentCost(b, kind, day)
    BY <1>1 DEF SpentCost
<1> QED
    BY <1>2, <1>3 DEF Fits

\* Where rows and budgets stay, only a reservation can break it.
LEMMA PaidStays ==
    ASSUME PaidInv, UNCHANGED <<ledger, budget, run>>,
           \A r \in Requests, b \in Brands, day \in 0 .. Days : PaysFor(r, b, day)' => PaysFor(r, b, day)
    PROVE  PaidInv'
<1>1. RowsOfRuns' /\ RowsCover' /\ RowsAreFinite'
    BY DEF PaidInv, RowsOfRuns, RowsCover, RowsAreFinite, Recorded
<1>2. Admitted'
    <2> SUFFICES ASSUME NEW r \in Requests, NEW b \in Brands, NEW day \in 0 .. Days, PaysFor(r, b, day)'
                 PROVE  Fits(b, day)'
        BY DEF Admitted
    <2>1. Fits(b, day)
        BY DEF PaidInv, Admitted
    <2> QED
        BY <2>1, FitsStays
<1> QED
    BY <1>1, <1>2 DEF PaidInv

\* A reservation that is new has to fit: no row of its key can be there.
LEMMA ReservePaid ==
    ASSUME IInv, PaidInv, NEW r \in Requests, Reserve(r)
    PROVE  PaidInv'
<1>1. /\ tx[r].at = "reserving" /\ Active(tx[r]) /\ UNCHANGED <<ledger, budget, run>>
      /\ tx \in [Requests -> Transactions] /\ tx[r].brand \in Brands /\ tx[r].key \in Keys
    BY DEF Reserve, Active, IInv, TypeInv, TypeOK, TxKnows
<1>2. ledger[tx[r].brand][tx[r].key].status = "NONE"
    BY <1>1 DEF IInv, Unrecorded, PaidInv, RowsOfRuns
<1>3. RowsOfRuns' /\ RowsCover' /\ RowsAreFinite'
    BY <1>1 DEF PaidInv, RowsOfRuns, RowsCover, RowsAreFinite, Recorded
<1>4. Admitted'
    <2> SUFFICES ASSUME NEW s \in Requests, NEW b \in Brands, NEW day \in 0 .. Days, PaysFor(s, b, day)'
                 PROVE  Fits(b, day)
        BY <1>1, FitsStays DEF Admitted
    <2>1. CASE s = r
        <3>1. tx'[r].at = "fetching"
            BY <1>1, <2>1 DEF PaysFor, Reserve
        <3>2. Fits(tx[r].brand, tx[r].began)
            <4> SUFFICES ASSUME ~Fits(tx[r].brand, tx[r].began) PROVE FALSE
                OBVIOUS
            <4>1. tx' = [tx EXCEPT ![r] = [tx[r] EXCEPT !.at = "ending", !.outcome = "FAILED"]]
                BY <1>1, <1>2 DEF Reserve
            <4>2. tx'[r].at = "ending"
                BY <1>1, <4>1 DEF Transactions
            <4> QED
                BY <3>1, <4>2
        <3>3. tx'[r].brand = tx[r].brand /\ tx'[r].began = tx[r].began
            BY <1>1, <3>1 DEF Transactions, Reserve
        <3> QED
            BY <2>1, <3>2, <3>3 DEF PaysFor
    <2>2. CASE s # r
        <3>1. tx'[s] = tx[s]
            BY <1>1, <2>2 DEF Reserve
        <3> QED
            BY <3>1 DEF PaysFor, PaidInv, Admitted
    <2> QED
        BY <2>1, <2>2
<1> QED
    BY <1>3, <1>4 DEF PaidInv

\* A row counts what was made of it, or the whole reservation.
LEMMA RowCovers ==
    ASSUME NEW t \in Transactions
    PROVE  SettledRow(t).made <= SettledRow(t).counted
<1>1. t.made \in 0 .. MaxCalls /\ MaxCalls \in Nat
    BY BudgetAssumption DEF Transactions
<1> QED
    BY <1>1 DEF SettledRow

\* The row that is added is of a brand in which no other transaction pays.
LEMMA CommitPaid ==
    ASSUME IInv, PaidInv, NEW r \in Requests, Commit(r)
    PROVE  PaidInv'
<1> DEFINE b0 == tx[r].brand
           k0 == tx[r].key
<1>1. /\ tx[r].at = "ending" /\ Active(tx[r]) /\ b0 \in Brands /\ k0 \in Keys
      /\ tx[r] \in Transactions /\ tx[r].outcome # "NONE"
      /\ ledger \in [Brands -> [Keys -> Row]] /\ tx \in [Requests -> Transactions]
      /\ run \in [Brands -> [Keys -> {"NONE", "DONE", "FAILED"}]]
    BY DEF Commit, Active, IInv, TypeInv, TypeOK, TxKnows
<1>2. \A b \in Brands, k \in Keys :
        /\ run'[b][k] = IF b = b0 /\ k = k0 THEN tx[r].outcome ELSE run[b][k]
        /\ \/ ledger'[b][k] = ledger[b][k]
           \/ b = b0 /\ k = k0 /\ ledger'[b][k] = SettledRow(tx[r])
    BY <1>1 DEF Commit
<1>3. RowsOfRuns'
    BY <1>1, <1>2 DEF PaidInv, RowsOfRuns
<1>4. RowsCover'
    BY <1>1, <1>2, RowCovers DEF PaidInv, RowsCover
<1>5. RowsAreFinite'
    <2> SUFFICES ASSUME NEW b \in Brands PROVE IsFiniteSet(Recorded(b)')
        BY DEF RowsAreFinite
    <2>1. Recorded(b)' \in SUBSET (Recorded(b) \cup {k0})
        BY <1>2 DEF Recorded
    <2>2. IsFiniteSet(Recorded(b) \cup {k0})
        BY FS_AddElement DEF PaidInv, RowsAreFinite
    <2> QED
        BY <2>1, <2>2, FS_Subset
<1>6. Admitted'
    <2> SUFFICES ASSUME NEW s \in Requests, NEW b \in Brands, NEW day \in 0 .. Days, PaysFor(s, b, day)'
                 PROVE  Fits(b, day)'
        BY DEF Admitted
    <2>1. s # r /\ tx'[s] = tx[s]
        BY <1>1, IdleType DEF Commit, PaysFor
    <2>2. PaysFor(s, b, day) /\ Fits(b, day)
        BY <2>1 DEF PaysFor, PaidInv, Admitted
    <2>3. b # b0
        BY <1>1, <2>1, <2>2 DEF PaysFor, Active, IInv, OneAtATime
    <2>4. ledger'[b] = ledger[b] /\ budget'[b] = budget[b]
        BY <1>1, <2>3 DEF Commit
    <2> QED
        BY <2>2, <2>4, FitsStays
<1> QED
    BY <1>3, <1>4, <1>5, <1>6 DEF PaidInv

\* A reservation of a brand is made by a transaction that is inside.
LEMMA PayingIsInside ==
    ASSUME NEW b \in Brands, ~Locked(b), NEW r \in Requests, NEW day
    PROVE  ~PaysFor(r, b, day)
BY DEF Locked, PaysFor

LEMMA RequestPaid ==
    ASSUME IInv, PaidInv, NEW r \in Requests, RequestStep(r)
    PROVE  PaidInv'
<1>1. tx[r] \in Transactions /\ tx \in [Requests -> Transactions]
    BY DEF IInv, TypeInv, TypeOK
<1>2. ASSUME UNCHANGED <<ledger, budget, run>>, NEW new, tx' = [tx EXCEPT ![r] = new],
             /\ new.at \in {"fetching", "asking"}
             => /\ tx[r].at \in {"fetching", "asking"}
                /\ new.brand = tx[r].brand /\ new.began = tx[r].began
      PROVE  PaidInv'
    <2>1. ASSUME NEW s \in Requests, NEW b \in Brands, NEW day \in 0 .. Days, PaysFor(s, b, day)'
          PROVE  PaysFor(s, b, day)
        <3>1. tx'[s] = IF s = r THEN new ELSE tx[s]
            BY <1>1, <1>2
        <3> QED
            BY <1>2, <2>1, <3>1 DEF PaysFor
    <2> QED
        BY <1>2, <2>1, PaidStays
<1>3. ASSUME NEW b \in Brands, NEW k \in Keys, Begin(r, b, k) PROVE PaidInv'
    <2> DEFINE new == [Idle EXCEPT !.at = "waiting", !.brand = b, !.key = k, !.began = clock]
    <2>1. new.at = "waiting" /\ tx' = [tx EXCEPT ![r] = new] /\ UNCHANGED <<ledger, budget, run>>
        BY <1>3 DEF Begin, Idle
    <2> HIDE DEF new
    <2> QED
        BY <1>2, <2>1
<1>4. CASE Enter(r)
    <2> DEFINE new == IF run[tx[r].brand][tx[r].key] # "NONE" THEN Idle ELSE [tx[r] EXCEPT !.at = "reserving"]
    <2>1. tx' = [tx EXCEPT ![r] = new] /\ UNCHANGED <<ledger, budget, run>>
        BY <1>1, <1>4 DEF Enter
    <2>2. new.at \in {"idle", "reserving"}
        BY <1>1, IdleType DEF Transactions
    <2> HIDE DEF new
    <2> QED
        BY <1>2, <2>1, <2>2
<1>5. ASSUME NEW outcome, tx' = [tx EXCEPT ![r].at = "ending", ![r].outcome = outcome],
             UNCHANGED <<ledger, budget, run>>
      PROVE  PaidInv'
    <2> DEFINE new == [tx[r] EXCEPT !.at = "ending", !.outcome = outcome]
    <2>1. tx' = [tx EXCEPT ![r] = new] /\ new.at = "ending"
        BY <1>1, <1>5 DEF Transactions
    <2> HIDE DEF new
    <2> QED
        BY <1>2, <1>5, <2>1
<1>6. CASE Refuse(r) \/ Answered(r) \/ NotAnswered(r)
    BY <1>5, <1>6 DEF Refuse, Answered, NotAnswered
<1>7. CASE Search(r)
    <2> DEFINE new == [tx[r] EXCEPT !.at = "asking", !.made = 1]
    <2>1. /\ tx' = [tx EXCEPT ![r] = new] /\ UNCHANGED <<ledger, budget, run>>
          /\ tx[r].at = "fetching" /\ new.brand = tx[r].brand /\ new.began = tx[r].began
        BY <1>1, <1>7 DEF Search, Transactions
    <2> HIDE DEF new
    <2> QED
        BY <1>2, <2>1
<1>8. CASE Statistics(r)
    <2> DEFINE new == [tx[r] EXCEPT !.made = 2]
    <2>1. /\ tx' = [tx EXCEPT ![r] = new] /\ UNCHANGED <<ledger, budget, run>>
          /\ tx[r].at = "asking" /\ new.brand = tx[r].brand /\ new.began = tx[r].began
        BY <1>1, <1>8 DEF Statistics, Transactions
    <2> HIDE DEF new
    <2> QED
        BY <1>2, <2>1
<1>9. CASE Rollback(r) \/ ConnectionLost(r) \/ DriftAsks(r) \/ DriftEnds(r)
    <2>1. Outside(r)
        BY <1>9, EndMoves, LostMoves, DriftMoves DEF IInv
    <2>2. UNCHANGED <<ledger, budget, run>>
        BY <1>9 DEF Rollback, ConnectionLost, DriftAsks, DriftEnds
    <2> QED
        BY <1>2, <2>1, <2>2 DEF Outside
<1> QED
    BY <1>3, <1>4, <1>6, <1>7, <1>8, <1>9, ReservePaid, CommitPaid, DriftsEither DEF RequestStep

LEMMA NextPaid == IInv /\ PaidInv /\ [Next]_vars => PaidInv'
<1> SUFFICES ASSUME IInv, PaidInv, [Next]_vars PROVE PaidInv'
    OBVIOUS
<1>1. ASSUME NEW b0 \in Brands, NEW new \in Budgets, SetBudget(b0, new) PROVE PaidInv'
    <2>1. RowsOfRuns' /\ RowsCover' /\ RowsAreFinite'
        BY <1>1 DEF SetBudget, PaidInv, RowsOfRuns, RowsCover, RowsAreFinite, Recorded
    <2>2. Admitted'
        <3> SUFFICES ASSUME NEW s \in Requests, NEW b \in Brands, NEW day \in 0 .. Days, PaysFor(s, b, day)'
                     PROVE  Fits(b, day)'
            BY DEF Admitted
        <3>1. PaysFor(s, b, day) /\ Fits(b, day)
            BY <1>1 DEF SetBudget, PaysFor, PaidInv, Admitted
        <3>2. b # b0
            BY <1>1, <3>1, PayingIsInside DEF SetBudget
        <3>3. ledger'[b] = ledger[b] /\ budget'[b] = budget[b]
            BY <1>1, <3>2 DEF SetBudget, IInv, TypeInv, TypeOK
        <3> QED
            BY <3>1, <3>3, FitsStays
    <2> QED
        BY <2>1, <2>2 DEF PaidInv
<1>2. CASE Restart
    <2>1. UNCHANGED <<ledger, budget, run>> /\ \A r \in Requests : tx'[r] = Idle
        BY <1>2 DEF Restart
    <2> QED
        BY <2>1, PaidStays, IdleType DEF PaysFor
<1>3. CASE NextDay \/ UNCHANGED vars
    <2>1. UNCHANGED <<ledger, budget, run, tx>>
        BY <1>3 DEF NextDay, vars
    <2> QED
        BY <2>1, PaidStays DEF PaysFor
<1> QED
    BY <1>1, <1>2, <1>3, RequestPaid DEF Next

\* The gate's sum covers what was asked.
LEMMA PaidIsWithin ==
    ASSUME IInv, PaidInv
    PROVE  PaidWithinCeiling
<1> SUFFICES ASSUME NEW r \in Requests, tx[r].at = "asking",
                    NEW b, b = tx[r].brand, NEW day, day = tx[r].began,
                    NEW rows, rows = InWindow(b, budget[b].kind, day),
                    NEW made, made = SumFunctionOnSet([k \in Keys |-> ledger[b][k].made], rows)
             PROVE  /\ budget[b] # NONE
                    /\ made + MaxCalls <= budget[b].calls /\ made + MaxCalls <= budget[b].cost
    BY DEF PaidWithinCeiling, Asking
<1> DEFINE madeOf == [k \in Keys |-> ledger[b][k].made]
           countedOf == [k \in Keys |-> ledger[b][k].counted]
<1>1. /\ b \in Brands /\ day \in 0 .. Days /\ budget[b] \in Budgets \cup {NONE}
      /\ ledger[b] \in [Keys -> Row]
    BY DEF IInv, TypeInv, TypeOK, TxKnows, Transactions
<1>2. Fits(b, day)
    BY <1>1 DEF PaidInv, Admitted, PaysFor
<1>3. MaxCalls \in Nat /\ budget[b].calls \in Nat /\ budget[b].cost \in Nat
    BY <1>1, <1>2, BudgetAssumption DEF Fits
<1>4. rows \in SUBSET Keys /\ IsFiniteSet(rows)
    <2>1. rows \in SUBSET Recorded(b) /\ rows \in SUBSET Keys
        BY DEF InWindow, Recorded
    <2> QED
        BY <1>1, <2>1, FS_Subset DEF PaidInv, RowsAreFinite
<1>5. \A k \in rows : madeOf[k] \in 0 .. MaxCalls /\ countedOf[k] \in Nat /\ madeOf[k] <= countedOf[k]
    BY <1>1, <1>3, <1>4 DEF PaidInv, RowsCover, Row
<1>6. made = SumFunctionOnSet(madeOf, rows)
    OBVIOUS
<1>7. SumFunctionOnSet(countedOf, rows) + MaxCalls <= budget[b].calls
    BY <1>2 DEF Fits, SpentCalls
<1>8. MaxCalls * Cardinality(rows) + MaxCalls <= budget[b].cost
    BY <1>2 DEF Fits, SpentCost
<1> HIDE DEF madeOf, countedOf
<1>9. made \in Nat /\ SumFunctionOnSet(countedOf, rows) \in Nat /\ made <= SumFunctionOnSet(countedOf, rows)
    BY <1>3, <1>4, <1>5, <1>6, SumMonotone
<1>10. made <= MaxCalls * Cardinality(rows) /\ MaxCalls * Cardinality(rows) \in Nat
    <2>1. SumFunctionOnSet(madeOf, rows) <= MaxCalls * Cardinality(rows)
        BY <1>3, <1>4, <1>5, SumBounded
    <2>2. \A m, n \in Nat : m * n \in Nat
        OBVIOUS
    <2>3. MaxCalls * Cardinality(rows) \in Nat
        BY <1>3, <1>4, <2>2, FS_CardinalityType
    <2> QED
        BY <1>6, <2>1, <2>3
<1>11. made + MaxCalls <= budget[b].cost
    <2>1. PICK most \in Nat : made <= most /\ most + MaxCalls <= budget[b].cost
        BY <1>8, <1>10
    <2> QED
        BY <1>3, <1>9, <2>1
<1>12. made + MaxCalls <= budget[b].calls
    BY <1>3, <1>7, <1>9
<1> QED
    BY <1>2, <1>11, <1>12 DEF Fits

-----------------------------------------------------------------------------
(* What was asked and not rolled back is recorded *)

\* The provider is asked on a reservation only.
AskedOnReservation == \A r \in Requests : tx[r].at = "fetching" \/ tx[r].made > 0 => tx[r].reserved

\* A recorded run that asked, and was not rolled back, has its row.
RunsHaveRows ==
    \A b \in Brands, k \in Keys :
        run[b][k] # "NONE" /\ asked[b][k] > undone[b][k] => ledger[b][k].status # "NONE"

TraceInv == AskedOnReservation /\ RunsHaveRows

LEMMA InitTrace == Init => TraceInv
BY IdleType DEF Init, TraceInv, AskedOnReservation, RunsHaveRows

\* A step that leaves the records alone keeps what they say.
LEMMA RunsStay ==
    ASSUME IInv, TraceInv, UNCHANGED <<ledger, run, asked>>,
           \A b \in Brands, k \in Keys : undone'[b][k] \in Nat /\ undone'[b][k] >= undone[b][k]
    PROVE  RunsHaveRows'
<1>1. \A b \in Brands, k \in Keys : asked[b][k] \in Nat /\ undone[b][k] \in Nat
    BY DEF IInv, TypeInv, TypeOK
<1> QED
    BY <1>1 DEF TraceInv, RunsHaveRows

\* Requests rolled back add to what is undone.
LEMMA UndoneGrows ==
    ASSUME IInv, NEW gone \in SUBSET Requests, Undo(gone)
    PROVE  \A b \in Brands, k \in Keys : undone'[b][k] \in Nat /\ undone'[b][k] >= undone[b][k]
<1> SUFFICES ASSUME NEW b \in Brands, NEW k \in Keys
             PROVE  undone'[b][k] \in Nat /\ undone'[b][k] >= undone[b][k]
    OBVIOUS
<1>1. PICK lost : /\ lost = {r \in gone : tx[r].brand = b /\ tx[r].key = k /\ tx[r].made > 0}
                  /\ undone'[b][k] = undone[b][k] + Cardinality(lost)
    BY DEF Undo
<1>2. Cardinality(lost) \in Nat
    BY <1>1, BudgetAssumption, FS_Subset, FS_CardinalityType
<1>3. undone[b][k] \in Nat
    BY DEF IInv, TypeInv, TypeOK
<1> QED
    BY <1>1, <1>2, <1>3

\* Who ends without a reservation has asked nothing, and nobody else is inside.
LEMMA CommitTrace ==
    ASSUME IInv, TraceInv, NEW r \in Requests, Commit(r)
    PROVE  RunsHaveRows'
<1> DEFINE b0 == tx[r].brand
           k0 == tx[r].key
<1>1. /\ tx[r] \in Transactions /\ Active(tx[r]) /\ b0 \in Brands /\ k0 \in Keys /\ tx[r].outcome # "NONE"
      /\ ledger \in [Brands -> [Keys -> Row]]
      /\ run \in [Brands -> [Keys -> {"NONE", "DONE", "FAILED"}]]
      /\ asked \in [Brands -> [Keys -> Nat]] /\ undone \in [Brands -> [Keys -> Nat]]
      /\ tx[r].made \in Nat
    BY BudgetAssumption DEF Commit, Active, IInv, TypeInv, TypeOK, TxKnows, Transactions
<1> SUFFICES ASSUME NEW b \in Brands, NEW k \in Keys, run'[b][k] # "NONE", asked[b][k] > undone[b][k]
             PROVE  ledger'[b][k].status # "NONE"
    BY DEF RunsHaveRows, Commit
<1>2. CASE b = b0 /\ k = k0 /\ tx[r].reserved
    BY <1>1, <1>2 DEF Commit, SettledRow
<1>3. CASE b = b0 /\ k = k0 /\ ~tx[r].reserved
    <2>1. ~(tx[r].made > 0)
        BY <1>3 DEF TraceInv, AskedOnReservation
    <2>2. \A s \in Requests : tx[s].made > 0 => Active(tx[s])
        BY DEF IInv, TypeInv, TxKnows, Active
    <2>3. \A s \in Requests : ~AskedFor(s, b, k)
        BY <1>1, <1>3, <2>1, <2>2 DEF AskedFor, IInv, OneAtATime
    <2>4. run[b][k] = "NONE"
        BY <1>1, <1>3 DEF IInv, Unrecorded
    <2>5. asked[b][k] <= undone[b][k]
        BY <2>3, <2>4 DEF IInv, Accounted
    <2> QED
        BY <1>1, <2>5
<1>4. CASE ~(b = b0 /\ k = k0)
    BY <1>1, <1>4 DEF Commit, TraceInv, RunsHaveRows
<1> QED
    BY <1>2, <1>3, <1>4

LEMMA RequestTrace ==
    ASSUME IInv, TraceInv, NEW r \in Requests, RequestStep(r)
    PROVE  TraceInv'
<1>1. tx[r] \in Transactions /\ tx \in [Requests -> Transactions]
    BY DEF IInv, TypeInv, TypeOK
<1>2. AskedOnReservation'
    <2>1. ASSUME NEW new, tx' = [tx EXCEPT ![r] = new], new.at = "fetching" \/ new.made > 0 => new.reserved
          PROVE  AskedOnReservation'
        BY <1>1, <2>1 DEF TraceInv, AskedOnReservation
    <2>2. ASSUME NEW b \in Brands, NEW k \in Keys, Begin(r, b, k) PROVE AskedOnReservation'
        <3> DEFINE new == [Idle EXCEPT !.at = "waiting", !.brand = b, !.key = k, !.began = clock]
        <3>1. tx' = [tx EXCEPT ![r] = new] /\ new.at = "waiting" /\ ~(new.made > 0)
            BY <2>2 DEF Begin, Idle
        <3> HIDE DEF new
        <3> QED
            BY <2>1, <3>1
    <2>3. CASE Enter(r)
        BY <1>1, <2>1, <2>3, IdleType DEF Enter, Transactions, TraceInv, AskedOnReservation
    <2>4. CASE Reserve(r)
        BY <1>1, <2>1, <2>4 DEF Reserve, Transactions, TraceInv, AskedOnReservation
    <2>5. CASE Refuse(r) \/ Search(r) \/ Statistics(r) \/ Answered(r) \/ NotAnswered(r)
        BY <1>1, <2>5 DEF Refuse, Search, Statistics, Answered, NotAnswered, Transactions, TraceInv, AskedOnReservation
    <2>6. CASE Commit(r) \/ Rollback(r) \/ ConnectionLost(r) \/ DriftAsks(r) \/ DriftEnds(r)
        <3>1. Outside(r)
            BY <2>6, EndMoves, LostMoves, DriftMoves DEF IInv
        <3>2. PICK new \in Transactions :
                /\ tx' = [tx EXCEPT ![r] = new]
                /\ new.at \in {"idle", "waiting", "adrift", "drifting"} /\ TxKnows(new)
            BY <3>1 DEF Outside
        <3>3. new.at # "fetching" /\ ~(new.made > 0)
            BY <3>2 DEF TxKnows
        <3> QED
            BY <2>1, <3>2, <3>3
    <2> QED
        BY <2>2, <2>3, <2>4, <2>5, <2>6, DriftsEither DEF RequestStep
<1>3. RunsHaveRows'
    <2>1. CASE Commit(r)
        BY <2>1, CommitTrace
    <2>2. CASE Search(r)
        <3>1. /\ tx[r].brand \in Brands /\ tx[r].key \in Keys /\ Active(tx[r])
              /\ UNCHANGED <<ledger, run, undone>>
              /\ asked' = [asked EXCEPT ![tx[r].brand][tx[r].key] = @ + 1]
              /\ asked \in [Brands -> [Keys -> Nat]]
            BY <2>2 DEF Search, Active, IInv, TypeInv, TypeOK, TxKnows
        <3>2. run[tx[r].brand][tx[r].key] = "NONE"
            BY <3>1 DEF IInv, Unrecorded
        <3> QED
            BY <3>1, <3>2 DEF TraceInv, RunsHaveRows
    <2>3. CASE Rollback(r) \/ ConnectionLost(r)
        BY <2>3, UndoneGrows, RunsStay DEF Rollback, ConnectionLost
    <2>4. CASE DriftAsks(r)
        <3>1. /\ asked \in [Brands -> [Keys -> Nat]] /\ undone \in [Brands -> [Keys -> Nat]]
              /\ tx[r].brand \in Brands /\ tx[r].key \in Keys /\ UNCHANGED <<ledger, run>>
            BY <2>4 DEF DriftAsks, IInv, TypeInv, TypeOK, TxKnows
        <3>2. \A b \in Brands, k \in Keys :
                \/ asked'[b][k] = asked[b][k] /\ undone'[b][k] = undone[b][k]
                \/ asked'[b][k] = asked[b][k] + 1 /\ undone'[b][k] = undone[b][k] + 1
            BY <2>4, <3>1 DEF DriftAsks
        <3>3. \A b \in Brands, k \in Keys : asked'[b][k] > undone'[b][k] => asked[b][k] > undone[b][k]
            BY <3>1, <3>2
        <3> QED
            BY <3>1, <3>3 DEF TraceInv, RunsHaveRows
    <2>5. CASE ~Commit(r) /\ ~Search(r) /\ ~Rollback(r) /\ ~ConnectionLost(r) /\ ~DriftAsks(r)
        <3>1. UNCHANGED <<ledger, run, asked, undone>>
            BY <2>5, DriftsEither
               DEF RequestStep, Begin, Enter, Reserve, Refuse, Statistics, Answered, NotAnswered, DriftEnds
        <3> QED
            BY <3>1 DEF TraceInv, RunsHaveRows
    <2> QED
        BY <2>1, <2>2, <2>3, <2>4, <2>5
<1> QED
    BY <1>2, <1>3 DEF TraceInv

LEMMA NextTrace == IInv /\ TraceInv /\ [Next]_vars => TraceInv'
<1> SUFFICES ASSUME IInv, TraceInv, [Next]_vars PROVE TraceInv'
    OBVIOUS
<1>1. CASE Restart
    <2>1. AskedOnReservation'
        BY <1>1, IdleType DEF Restart, AskedOnReservation
    <2>2. RunsHaveRows'
        BY <1>1, UndoneGrows, RunsStay DEF Restart
    <2> QED
        BY <2>1, <2>2 DEF TraceInv
<1>2. CASE (\E b \in Brands, new \in Budgets : SetBudget(b, new)) \/ NextDay \/ UNCHANGED vars
    <2>1. UNCHANGED <<tx, ledger, run, asked, undone>>
        BY <1>2 DEF SetBudget, NextDay, vars
    <2> QED
        BY <2>1 DEF TraceInv, AskedOnReservation, RunsHaveRows
<1> QED
    BY <1>1, <1>2, RequestTrace DEF Next

LEMMA TracesAreThere == IInv /\ TraceInv => TracedUnlessUndone
<1> SUFFICES ASSUME IInv, TraceInv, NEW b \in Brands, NEW k \in Keys, asked[b][k] > undone[b][k],
                    ledger[b][k].status = "NONE"
             PROVE  \E r \in Requests : tx[r].brand = b /\ tx[r].key = k /\ tx[r].reserved
    BY DEF TracedUnlessUndone
<1>1. asked[b][k] \in Nat /\ undone[b][k] \in Nat
    BY DEF IInv, TypeInv, TypeOK
<1>2. run[b][k] = "NONE"
    BY DEF TraceInv, RunsHaveRows
<1>3. PICK r \in Requests : AskedFor(r, b, k)
    BY <1>1, <1>2 DEF IInv, Accounted
<1> QED
    BY <1>3 DEF AskedFor, TraceInv, AskedOnReservation

-----------------------------------------------------------------------------
\* Every variable keeps its type.
THEOREM TypeCorrect == Spec => []TypeOK
<1>1. IInv => TypeOK
    BY DEF IInv, TypeInv
<1> QED
    BY <1>1, AlwaysIInv, PTL

\* The provider is asked for a key by one transaction, unless that was rolled
\* back (the brand's lock in withBrandRequestContext, the look for the key's
\* run inside it, and the record of failed runs, together).
THEOREM KeysAreAskedOnce == Spec => []AskedOncePerKey
<1>1. IInv => AskedOncePerKey
    BY DEF IInv, Accounted, AskedOncePerKey
<1> QED
    BY <1>1, AlwaysIInv, PTL

\* While a transaction asks, what the recorded runs of the window asked and what
\* it may ask itself is within both ceilings of the newest budget: the gate's sum
\* of the rows is kept true by the lock that setting a budget and settling a
\* reservation take as well (reserve_provider_call).  The days are those on which
\* transactions began; what rolled-back runs asked is in no sum.
THEOREM CeilingIsKept == Spec => []PaidWithinCeiling
<1>1. IInv /\ PaidInv => PaidWithinCeiling
    BY PaidIsWithin
<1> QED
    BY <1>1, AlwaysIInv, InitPaid, NextPaid, PTL DEF Spec

\* A call without a row, and without a transaction that will write one, is of a
\* transaction that was rolled back (reserve_provider_call and the settlement
\* are in the transaction of the run, which the request to the provider is not).
THEOREM CallsAreTraced == Spec => []TracedUnlessUndone
BY AlwaysIInv, InitTrace, NextTrace, TracesAreThere, PTL DEF Spec
=============================================================================
