---------------------------- MODULE PromptClaims ----------------------------
(***************************************************************************)
(* What the repository's comments say of the prompt scheduler and its code *)
(* does not keep. A configuration named claim_... finds the behaviour      *)
(* breaking each; README.md tells them all.                                *)
(***************************************************************************)
EXTENDS PromptScheduler

\* "a cycle writes it whatever the outcome" (expedite.ts:14): after a cycle in
\* which every run failed, a job of the prompt carries the streak. The send is
\* dropped when its slot was taken, and the next job starts from zero.
StreakIsWritten ==
    [][\A h \in Handlers :
          Reschedule(h) /\ ~cycle[h].got => \E r \in Waiting(jobs') : jobs'[r].fails > 0]_vars

\* "Keep the prompt going without spending anything" (process-prompt.ts:454): a
\* job that fired early, with everything fresh, leaves a next job behind.
EarlyFiringKeepsGoing ==
    [][\A h \in Handlers, r \in Rows :
          Skip(h, r) /\ Due = {} => Waiting(jobs') # {}]_vars

\* "structurally prevents duplicate-fire oversampling" (policy.ts:12): no run
\* of a target is recorded before its interval, less the tolerance, is over.
NoDuplicateFire ==
    [][\A h \in Handlers, t \in Targets :
          Record(h, t) => lastRun[t] >= Interval[t] - Tolerance(t)]_vars

\* "a cycle either records a run, which the run window then blocks on, or
\* fails, which sets the streak. Either way the next pass refuses"
\* (expedite.ts:17). A cycle skipped at the daily ceiling does neither.
NextPassRefuses ==
    [][\A h \in Handlers, r \in Rows :
          Skip(h, r) /\ enabled /\ plan # {} =>
              ~(Overdue /\ Quiet /\ \E s \in Waiting(jobs') : jobs'[s].fails = 0)]_vars

\* "the singletonKey prevents duplicates" (job-scheduler.ts:131): the jobs of a
\* prompt end as one chain.
ChainsMerge == <>[](\A r, s \in Heads : r = s)
=============================================================================
