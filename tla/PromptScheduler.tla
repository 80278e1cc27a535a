---------------------------- MODULE PromptScheduler ----------------------------
(***************************************************************************)
(* One tracked prompt and the jobs that run it: the worker's handler       *)
(* (process-prompt.ts), the self-healing pass (schedule-maintenance.ts),   *)
(* the web application's senders (job-scheduler.ts, expedite-prompts.ts)   *)
(* and the queue between them.                                             *)
(*                                                                         *)
(* A prompt has no cron entry.  A cycle runs the targets that are due and, *)
(* on its way out, sends the job of the next cycle; the maintenance pass   *)
(* restarts a prompt whose chain broke.  Sends are throttled by the queue: *)
(* a singleton send of length L lands in the slot that starts at the last  *)
(* multiple of L, and is dropped when a job was ever sent with that slot.  *)
(*                                                                         *)
(* Time is in ticks.  Every age and every delay is kept relative to now,   *)
(* and the clock modulo Period, so that unbounded time has finitely many   *)
(* states.                                                                 *)
(***************************************************************************)
EXTENDS Integers, Sequences, FiniteSets

CONSTANTS
    Targets,       \* model/provider pairs a plan may contain
    Interval,      \* target |-> its cadence
    BrandCadence,  \* cadence of a disabled prompt's chain
    Backoff,       \* FAILURE_BACKOFF_HOURS
    Hour,          \* slot of the senders other than the cycle itself
    HalfHour,      \* cap of the jitter tolerance
    Expiry,        \* expireInSeconds of the worker's jobs
    WebExpiry,     \* expireInSeconds of the web application's jobs
    Retries,       \* retryLimit of the web application's jobs
    Longest,       \* no cycle takes longer: the providers' task ceiling
    Period,        \* the clock is kept modulo Period
    Oldest,        \* an age from here on is kept as Oldest: long ago, or never
    Metered,       \* the organization has a daily run ceiling
    Handlers,      \* job handlers of the worker
    Rows,          \* bound: identities of unfinished jobs
    MaxOutside,    \* bound: actions of users
    MaxFaults      \* bound: crashes, thrown errors and lost sends

Least(S) == CHOOSE x \in S : \A y \in S : x <= y
Smaller(a, b) == IF a <= b THEN a ELSE b

\* Hours until the prompt next runs: the fastest of the plan's targets.
Cadence(plan) == Least({Interval[t] : t \in plan})

\* Hours to wait after the f-th all-failed cycle in a row.
BackoffOf(f, cadence) ==
    IF f = 0 \/ f > Len(Backoff) THEN cadence ELSE Smaller(Backoff[f], cadence)

\* A job that fires slightly early still runs its targets.
Tolerance(t) == Smaller(HalfHour, Interval[t] \div 4)

Cadences == {Interval[t] : t \in Targets} \cup {BrandCadence}
Slots    == Cadences \cup {Hour}
            \cup {Smaller(Backoff[i], c) : i \in DOMAIN Backoff, c \in Cadences}

ASSUME TimeAssumption ==
    /\ Interval \in [Targets -> Nat \ {0}]
    /\ {BrandCadence, Hour, Expiry, WebExpiry, Period} \subseteq Nat \ {0}
    /\ Backoff \in Seq(Nat \ {0})
    /\ {HalfHour, Retries, Longest, MaxOutside, MaxFaults} \subseteq Nat
    /\ Metered \in BOOLEAN
    /\ Oldest \in Nat
    /\ \A s \in Slots : Period % s = 0 /\ s < Oldest
\* "The expiry has to outlast the whole fan-out" (process-prompt.ts:41).
ASSUME ExpiryAssumption == Longest < Expiry
ASSUME RowsAssumption == Rows = 1 .. Cardinality(Rows) /\ Rows # {}

VARIABLES
    clock,      \* now, modulo Period
    taken,      \* ages of the singleton slots that hold a job, finished or not
    jobs,       \* Rows -> unfinished jobs
    cycle,      \* Handlers -> what the handler is doing
    maintenance,\* what the pass has read or decided about the prompt
    request,    \* what a user's request has still to do in the queue
    lastRun,    \* target |-> age of its newest recorded run
    enabled,    \* the prompt and its brand are enabled
    plan,       \* the targets the run policy resolves now; {}: nothing to run
    outside,    \* user actions taken so far
    faults      \* faults suffered so far

vars == <<clock, taken, jobs, cycle, maintenance, request, lastRun, enabled, plan, outside, faults>>

NoJob == [st |-> "none", wait |-> 0, fails |-> 0, web |-> FALSE, left |-> 0, ran |-> 0]
Idle  == [st |-> "idle", row |-> 0, asked |-> {}, got |-> FALSE, fails |-> 0,
          cadence |-> 1, age |-> 0, shared |-> FALSE]
Rest  == [op |-> "rest", row |-> 0]

Jobs == [st : {"none", "created", "active", "retry"}, wait : Nat, fails : Nat,
         web : BOOLEAN, left : Nat, ran : Nat]
Cycles == [st : {"idle", "running"}, row : Rows \cup {0}, asked : SUBSET Targets,
           got : BOOLEAN, fails : Nat, cadence : Nat \ {0}, age : Nat, shared : BOOLEAN]

TypeOK ==
    /\ clock \in 0 .. (Period - 1)
    /\ taken \in SUBSET Nat
    /\ jobs \in [Rows -> Jobs]
    /\ cycle \in [Handlers -> Cycles]
    /\ maintenance \in [op : {"rest", "quiet", "recent", "send", "pull"}, row : Rows \cup {0}]
    /\ request \in {"rest", "send", "pull"}
    /\ lastRun \in [Targets -> Nat]
    /\ enabled \in BOOLEAN
    /\ plan \in SUBSET Targets
    /\ outside \in 0 .. MaxOutside
    /\ faults \in 0 .. MaxFaults

Init ==
    /\ clock = 0
    /\ taken = {}
    /\ jobs = [r \in Rows |-> NoJob]
    /\ cycle = [h \in Handlers |-> Idle]
    /\ maintenance = Rest
    /\ request = "rest"
    /\ lastRun = [t \in Targets |-> Oldest]
    /\ enabled \in BOOLEAN
    /\ plan \in SUBSET Targets
    /\ outside = 0
    /\ faults = 0

--------------------------------------------------------------------------------
(* The queue. *)

Unfinished(js) == {r \in Rows : js[r].st # "none"}
Waiting(js)    == {r \in Rows : js[r].st \in {"created", "retry"}}

Activated(job) == [job EXCEPT !.st = "active", !.ran = 0]
MovedToNow(job) == [job EXCEPT !.wait = 0]

Job(wait, fails, web) ==
    [st |-> "created", wait |-> wait, fails |-> fails, web |-> web,
     left |-> IF web THEN Retries ELSE 0, ran |-> 0]

\* No job gets the identity a handler or the maintenance pass still refers to.
FreeRow(js) ==
    Least({r \in Rows \ Unfinished(js) :
             r # maintenance.row /\ \A h \in Handlers : cycle[h].row # r})

\* boss.send with singletonSeconds = slot: ON CONFLICT DO NOTHING.
Throttled(slot) == clock % slot \in taken
Sent(js, slot, job) ==
    IF Throttled(slot) THEN js ELSE [js EXCEPT ![FreeRow(js)] = job]
TakeSlot(slot) == taken' = taken \cup {clock % slot}

\* Broken: a failed job stays unfinished under a state of its own.
FailedKept(job) ==
    IF job.left > 0 THEN [job EXCEPT !.st = "retry", !.left = @ - 1] ELSE [job EXCEPT !.st = "failed"]

\* What becomes of a job whose handler threw or did not answer in time.
Failed(job) ==
    IF job.left > 0 THEN [job EXCEPT !.st = "retry", !.left = @ - 1, !.ran = 0] ELSE NoJob

Patience(job) == IF job.web THEN WebExpiry ELSE Expiry

\* The queue gives up on a job; the promise that runs it is not cancelled.
Expire(r) ==
    /\ jobs[r].st = "active"
    /\ jobs[r].ran >= Patience(jobs[r])
    /\ jobs' = [jobs EXCEPT ![r] = Failed(@)]
    /\ UNCHANGED <<clock, taken, cycle, maintenance, request, lastRun, enabled, plan, outside, faults>>

--------------------------------------------------------------------------------
(* The worker's handler. *)

Working == {h \in Handlers : cycle[h].st = "running"}

\* Broken: the run history is not consulted.
DueAlways == plan

Due == {t \in plan : lastRun[t] >= Interval[t] - Tolerance(t)}

Fetched(h, r) ==
    /\ cycle[h].st = "idle"
    /\ r \in Waiting(jobs)
    /\ jobs[r].wait = 0

\* Nothing to run and nothing to wait for: the job ends and sends no other.
Stop(h, r) ==
    /\ Fetched(h, r)
    /\ enabled /\ plan = {}
    /\ jobs' = [jobs EXCEPT ![r] = NoJob]
    /\ UNCHANGED <<clock, taken, cycle, maintenance, request, lastRun, enabled, plan, outside, faults>>

\* A firing that spends nothing, and sends the next job: the prompt is disabled,
\* everything is fresh, or the organization is over its daily ceiling.
SkipInto(h, r, js) ==
    LET delay == IF enabled THEN Cadence(plan) ELSE BrandCadence IN
    /\ Fetched(h, r)
    /\ enabled => plan # {} /\ (Due = {} \/ Metered)
    /\ jobs' = Sent(js, delay, Job(delay, 0, FALSE))
    /\ TakeSlot(delay)

Skip(h, r) ==
    /\ SkipInto(h, r, [jobs EXCEPT ![r] = NoJob])
    /\ UNCHANGED <<clock, cycle, maintenance, request, lastRun, enabled, plan, outside, faults>>

\* The due targets are asked, all at once.
Begin(h, r) ==
    /\ Fetched(h, r)
    /\ enabled /\ Due # {}
    /\ jobs' = [jobs EXCEPT ![r] = Activated(@)]
    /\ cycle' = [k \in Handlers |->
                   IF k = h
                   THEN [st |-> "running", row |-> r, asked |-> Due, got |-> FALSE,
                         fails |-> jobs[r].fails, cadence |-> Cadence(plan), age |-> 0,
                         shared |-> Working # {}]
                   ELSE IF k \in Working THEN [cycle[k] EXCEPT !.shared = TRUE] ELSE cycle[k]]
    /\ UNCHANGED <<clock, taken, maintenance, request, lastRun, enabled, plan, outside, faults>>

\* A target answered: its run is recorded.  The run counts as failed all the
\* same when its citations or its usage cannot be saved.
Record(h, t) ==
    /\ h \in Working /\ t \in cycle[h].asked
    /\ lastRun' = [lastRun EXCEPT ![t] = 0]
    /\ \/ cycle' = [cycle EXCEPT ![h].asked = @ \ {t}, ![h].got = TRUE] /\ UNCHANGED faults
       \/ /\ faults < MaxFaults /\ faults' = faults + 1
          /\ cycle' = [cycle EXCEPT ![h].asked = @ \ {t}]
    /\ UNCHANGED <<clock, taken, jobs, maintenance, request, enabled, plan, outside>>

\* Every run of a target failed: nothing is recorded.
Miss(h, t) ==
    /\ h \in Working /\ t \in cycle[h].asked
    /\ cycle' = [cycle EXCEPT ![h].asked = @ \ {t}]
    /\ UNCHANGED <<clock, taken, jobs, maintenance, request, lastRun, enabled, plan, outside, faults>>

\* The queue marks the handler's job finished if it still counts as active.
Done(h) == [r \in Rows |-> IF r = cycle[h].row /\ jobs[r].st = "active" THEN NoJob ELSE jobs[r]]

Settled(h) == h \in Working /\ cycle[h].asked = {}

\* All runs are settled: the handler sends the next job.  A cycle where nothing
\* came back lengthens the streak, which travels on the job.
SendNext(h, js) ==
    LET fails == IF cycle[h].got THEN 0 ELSE Smaller(cycle[h].fails + 1, Len(Backoff) + 1)
        delay == BackoffOf(fails, cycle[h].cadence)
    IN  /\ Settled(h)
        /\ jobs' = Sent(js, delay, Job(delay, fails, FALSE))
        /\ TakeSlot(delay)

\* It returns, and its own job is finished.
Reschedule(h) ==
    /\ SendNext(h, Done(h))
    /\ cycle' = [cycle EXCEPT ![h] = Idle]
    /\ UNCHANGED <<clock, maintenance, request, lastRun, enabled, plan, outside, faults>>

\* The send failed: the error is logged and the handler returns.
RescheduleLost(h) ==
    /\ Settled(h) /\ faults < MaxFaults
    /\ jobs' = Done(h)
    /\ cycle' = [cycle EXCEPT ![h] = Idle]
    /\ faults' = faults + 1
    /\ UNCHANGED <<clock, taken, maintenance, request, lastRun, enabled, plan, outside>>

\* The database failed under the handler.
Throw(h) ==
    /\ h \in Working /\ faults < MaxFaults
    /\ jobs' = [r \in Rows |-> IF r = cycle[h].row /\ jobs[r].st = "active"
                               THEN Failed(jobs[r]) ELSE jobs[r]]
    /\ cycle' = [cycle EXCEPT ![h] = Idle]
    /\ faults' = faults + 1
    /\ UNCHANGED <<clock, taken, maintenance, request, lastRun, enabled, plan, outside>>

\* The worker process dies: in a cycle or a pass, with a job it had just
\* fetched, or after it sent the next job.  The jobs it held stay active until
\* the queue expires them.
Crash ==
    /\ faults < MaxFaults
    /\ \/ (Working # {} \/ maintenance # Rest) /\ UNCHANGED <<jobs, taken>>
       \/ \E h \in Handlers : SendNext(h, jobs)
       \/ \E h \in Handlers, r \in Rows :
             LET held == [jobs EXCEPT ![r] = Activated(@)] IN
             \/ Fetched(h, r) /\ jobs' = held /\ UNCHANGED taken
             \/ SkipInto(h, r, held)
    /\ cycle' = [h \in Handlers |-> Idle]
    /\ maintenance' = Rest
    /\ faults' = faults + 1
    /\ UNCHANGED <<clock, request, lastRun, enabled, plan, outside>>

--------------------------------------------------------------------------------
(* The maintenance pass. *)

Overdue == \E t \in plan : lastRun[t] > Interval[t]

\* No run was recorded lately, of any target.
Quiet == \A t \in Targets : lastRun[t] >= Smaller(Cadence(plan), Hour)

\* The pass reads the runs of the prompt, and then its jobs.
LookAtRuns ==
    /\ maintenance = Rest
    /\ enabled /\ plan # {} /\ Overdue
    /\ maintenance' = [op |-> IF Quiet THEN "quiet" ELSE "recent", row |-> 0]
    /\ UNCHANGED <<clock, taken, jobs, cycle, request, lastRun, enabled, plan, outside, faults>>

\* shouldExpediteJob: the job does not wait out a backoff.
Stalled(r) == jobs[r].fails = 0 /\ maintenance.op = "quiet"

\* Broken: a job that is running does not count.
DecidePastActive ==
    /\ maintenance.op \in {"quiet", "recent"}
    /\ maintenance' = IF \A r \in Unfinished(jobs) : jobs[r].st = "active"
                      THEN [op |-> "send", row |-> 0] ELSE Rest
    /\ UNCHANGED <<clock, taken, jobs, cycle, request, lastRun, enabled, plan, outside, faults>>

\* Broken: a prompt without a job is left alone.
DecideOnJobs ==
    /\ maintenance.op \in {"quiet", "recent"}
    /\ \/ Unfinished(jobs) = {} /\ maintenance' = Rest
       \/ \E r \in Unfinished(jobs) : maintenance' = [op |-> "pull", row |-> r]
    /\ UNCHANGED <<clock, taken, jobs, cycle, request, lastRun, enabled, plan, outside, faults>>

\* A prompt without a job gets one; its job is pulled forward, one of them if it
\* has several, unless one is running or is retried.
Decide ==
    /\ maintenance.op \in {"quiet", "recent"}
    /\ \/ Unfinished(jobs) = {} /\ maintenance' = [op |-> "send", row |-> 0]
       \/ \E r \in Unfinished(jobs) :
             maintenance' = IF Stalled(r) /\ \A s \in Unfinished(jobs) : jobs[s].st = "created"
                            THEN [op |-> "pull", row |-> r] ELSE Rest
    /\ UNCHANGED <<clock, taken, jobs, cycle, request, lastRun, enabled, plan, outside, faults>>

\* The pass starts the prompt again.
Revive ==
    /\ maintenance.op = "send"
    /\ jobs' = Sent(jobs, Hour, Job(0, 0, FALSE))
    /\ TakeSlot(Hour)
    /\ maintenance' = Rest
    /\ UNCHANGED <<clock, cycle, request, lastRun, enabled, plan, outside, faults>>

\* The pass moves the job it saw to now, if it is still waiting.
Expedite ==
    /\ maintenance.op = "pull"
    /\ jobs' = [r \in Rows |-> IF r = maintenance.row /\ jobs[r].st = "created"
                               THEN MovedToNow(jobs[r]) ELSE jobs[r]]
    /\ maintenance' = Rest
    /\ UNCHANGED <<clock, taken, cycle, request, lastRun, enabled, plan, outside, faults>>

--------------------------------------------------------------------------------
(* The web application: a user's edit commits first, its effect on the queue *)
(* follows.                                                                   *)

UserActs == request = "rest" /\ outside < MaxOutside /\ outside' = outside + 1

\* A prompt is created or enabled.
Enable ==
    /\ UserActs
    /\ ~enabled /\ enabled' = TRUE
    /\ request' = "send"
    /\ UNCHANGED <<clock, taken, jobs, cycle, maintenance, lastRun, plan, faults>>

\* Disabling leaves the queue alone.
Disable ==
    /\ UserActs
    /\ enabled /\ enabled' = FALSE
    /\ UNCHANGED <<clock, taken, jobs, cycle, maintenance, request, lastRun, plan, faults>>

\* Targets are added to the brand or the prompt; or the subscription changes.
ChangePlan(S) ==
    /\ UserActs
    /\ S # plan /\ plan' = S
    /\ \/ S \ plan # {} /\ enabled /\ request' = "pull"
       \/ UNCHANGED request
    /\ UNCHANGED <<clock, taken, jobs, cycle, maintenance, lastRun, enabled, faults>>

\* createPromptJobScheduler.
WebSend ==
    /\ request = "send"
    /\ jobs' = Sent(jobs, Hour, Job(0, 0, TRUE))
    /\ TakeSlot(Hour)
    /\ request' = "rest"
    /\ UNCHANGED <<clock, cycle, maintenance, lastRun, enabled, plan, outside, faults>>

\* expeditePromptRuns: the waiting jobs are moved to now; without one, a new
\* job is sent.
WebPull ==
    LET waiting == {r \in Rows : jobs[r].st = "created"} IN
    /\ request = "pull"
    /\ jobs' = [r \in Rows |-> IF r \in waiting THEN MovedToNow(jobs[r]) ELSE jobs[r]]
    /\ request' = IF waiting = {} THEN "send" ELSE "rest"
    /\ UNCHANGED <<clock, taken, cycle, maintenance, lastRun, enabled, plan, outside, faults>>

\* The administrator's "run now": no singleton.
RunNow ==
    /\ UserActs
    /\ jobs' = [jobs EXCEPT ![FreeRow(jobs)] = Job(0, 0, TRUE)]
    /\ UNCHANGED <<clock, taken, cycle, maintenance, request, lastRun, enabled, plan, faults>>

\* The queue cannot be reached: the request succeeds without it.
WebLost ==
    /\ request # "rest" /\ faults < MaxFaults
    /\ request' = "rest"
    /\ faults' = faults + 1
    /\ UNCHANGED <<clock, taken, jobs, cycle, maintenance, lastRun, enabled, plan, outside>>

--------------------------------------------------------------------------------

\* A job one tick later.
Aged(job) ==
    [job EXCEPT !.wait = IF @ = 0 THEN 0 ELSE @ - 1,
                !.ran = IF job.st = "active" THEN Smaller(@ + 1, Patience(job)) ELSE @]

\* Time passes.  No cycle outlasts the providers' ceiling.
Tick ==
    /\ \A h \in Working : cycle[h].age < Longest
    /\ clock' = (clock + 1) % Period
    /\ taken' = {a + 1 : a \in taken} \cap 0 .. (Oldest - 2)
    /\ jobs' = [r \in Rows |-> Aged(jobs[r])]
    /\ cycle' = [h \in Handlers |->
                   IF h \in Working THEN [cycle[h] EXCEPT !.age = @ + 1] ELSE cycle[h]]
    /\ lastRun' = [t \in Targets |-> Smaller(lastRun[t] + 1, Oldest)]
    /\ UNCHANGED <<maintenance, request, enabled, plan, outside, faults>>

Fetch == \E h \in Handlers, r \in Rows : Begin(h, r) \/ Skip(h, r) \/ Stop(h, r)

Next ==
    \/ Tick
    \/ Fetch
    \/ \E h \in Handlers :
          \/ \E t \in Targets : Record(h, t) \/ Miss(h, t)
          \/ Reschedule(h) \/ RescheduleLost(h) \/ Throw(h)
    \/ Crash
    \/ \E r \in Rows : Expire(r)
    \/ LookAtRuns \/ Decide \/ Revive \/ Expedite
    \/ Enable \/ Disable \/ RunNow \/ (\E S \in SUBSET Targets : ChangePlan(S))
    \/ WebSend \/ WebPull \/ WebLost

Spec == Init /\ [][Next]_vars

\* The worker and the queue work on, time passes and the pass comes round; the
\* organization is not over its ceiling, and a provider does not fail, every
\* time.
FairSpec ==
    /\ Spec
    /\ WF_vars(Tick)
    /\ WF_vars(Fetch)
    /\ SF_vars(\E h \in Handlers, r \in Rows : Begin(h, r))
    /\ \A h \in Handlers :
          /\ WF_vars(Reschedule(h))
          /\ \A t \in Targets : WF_vars(Record(h, t) \/ Miss(h, t))
    /\ \A t \in Targets : SF_vars(\E h \in Handlers : Record(h, t))
    /\ WF_vars(\E r \in Rows : Expire(r))
    /\ WF_vars(LookAtRuns) /\ WF_vars(Decide \/ Revive \/ Expedite)
    /\ WF_vars(WebSend \/ WebPull)

--------------------------------------------------------------------------------
(* Properties. *)

\* The jobs that will run the prompt again: those that wait, and those of the
\* cycles under way.  A job left active by a worker that died is neither.
Heads == Waiting(jobs) \cup {cycle[h].row : h \in Working}

\* What the worker and its maintenance pass do on their own never gives the
\* prompt two chains of jobs or two cycles at once, however their reads and
\* sends interleave with expiries, crashes and lost sends.
OneChain ==
    outside = 0 =>
        /\ \A r, s \in Heads : r = s
        /\ \A g, h \in Working : g = h

\* A target that is sampled early was being asked by two cycles at once: a
\* cycle that overlaps no other never records a run of a target before its
\* interval, less the tolerance, has passed since the last.
OversamplingIsShared ==
    [][\A h \in Handlers, t \in Targets :
          Record(h, t) /\ ~cycle[h].shared => lastRun[t] >= Interval[t] - Tolerance(t)]_vars

\* Whatever job is dropped, expires or is lost, every target that stays in the
\* plan of an enabled prompt is sampled again and again.
KeepsSampling == \A t \in Targets : []<>(lastRun[t] = 0 \/ ~enabled \/ t \notin plan)

================================================================================
