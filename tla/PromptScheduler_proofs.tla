------------------------ MODULE PromptScheduler_proofs ------------------------
(***************************************************************************)
(* The state stays well typed, the worker on its own never gives the       *)
(* prompt a second job, and a sample ahead of its time is one two cycles   *)
(* under way share, for every plan, cadence, backoff, clock and bound.     *)
(***************************************************************************)
EXTENDS PromptScheduler, TLAPS, WellFoundedInduction

\* No cycle is older than the providers' ceiling.
CyclesEnd == \A h \in Handlers : cycle[h].age <= Longest

\* Jobs of the worker itself are not retried.
Plain(js) == \A r \in Rows : ~js[r].web /\ js[r].left = 0

\* As long as no user has acted: every job is one of the worker's, the prompt
\* has one chain, a cycle under way holds its job, which is not old enough to
\* expire, and the pass has decided to send a job only where there is none.
WorkerAlone ==
    /\ request = "rest"
    /\ Plain(jobs)
    /\ \A r, s \in Heads : r = s
    /\ \A h \in Working : /\ cycle[h].row \in Rows
                          /\ jobs[cycle[h].row].st = "active"
                          /\ jobs[cycle[h].row].ran <= cycle[h].age
    /\ \A g, h \in Working : g = h
    /\ maintenance.op = "send" => Unfinished(jobs) = {}

Inv == TypeOK /\ CyclesEnd /\ (outside = 0 => WorkerAlone)

--------------------------------------------------------------------------------
(* The helpers. *)

\* The least element of a set of numbers is one of them.
LEMMA LeastIsElement ==
    ASSUME NEW S \in SUBSET Nat, S # {}
    PROVE  Least(S) \in S
<1>1. PICK x \in S : \A y \in S : ~(<<y, x>> \in OpToRel(<, Nat))
  BY NatLessThanWellFounded, WFMin
<1>2. \A y \in S : ~(y < x)
  BY <1>1 DEF OpToRel
<1>3. \A y \in S : x <= y
  BY <1>2
<1> QED
  BY <1>1, <1>3 DEF Least

\* The cadence of a plan is a number of ticks, and positive.
LEMMA CadenceType ==
    ASSUME NEW p \in SUBSET Targets, p # {}
    PROVE  Cadence(p) \in Nat \ {0}
<1>1. {Interval[t] : t \in p} \in SUBSET Nat /\ {Interval[t] : t \in p} # {}
  BY TimeAssumption
<1> QED
  BY <1>1, LeastIsElement, TimeAssumption DEF Cadence

\* So is every backoff.
LEMMA BackoffType ==
    ASSUME NEW f \in Nat, NEW c \in Nat \ {0}
    PROVE  BackoffOf(f, c) \in Nat \ {0}
<1>1. CASE f = 0 \/ f > Len(Backoff)
  BY <1>1 DEF BackoffOf
<1>2. CASE f # 0 /\ f <= Len(Backoff)
  <2>1. f \in 1 .. Len(Backoff) /\ Len(Backoff) \in Nat
    BY <1>2, TimeAssumption
  <2>2. Backoff[f] \in Nat \ {0}
    BY <2>1, TimeAssumption
  <2> QED
    BY <1>2, <2>1, <2>2 DEF BackoffOf, Smaller
<1> QED
  BY <1>1, <1>2, TimeAssumption

\* A job is well typed as it is sent.
LEMMA JobType ==
    ASSUME NEW w \in Nat, NEW f \in Nat, NEW b \in BOOLEAN
    PROVE  Job(w, f, b) \in Jobs
BY TimeAssumption DEF Job, Jobs

LEMMA NoJobType == NoJob \in Jobs
BY DEF NoJob, Jobs

\* A send keeps the table of jobs well typed.
LEMMA SentType ==
    ASSUME NEW js \in [Rows -> Jobs], NEW slot, NEW job \in Jobs
    PROVE  Sent(js, slot, job) \in [Rows -> Jobs]
BY DEF Sent

\* A send into a table without waiting jobs leaves at most the one it sends.
LEMMA SentOne ==
    ASSUME NEW js \in [Rows -> Jobs], NEW slot, NEW w \in Nat, NEW f \in Nat,
           Waiting(js) = {}, Plain(js)
    PROVE  LET sent == Sent(js, slot, Job(w, f, FALSE)) IN
           Plain(sent) /\ \A r, s \in Waiting(sent) : r = s
<1>1. Job(w, f, FALSE).web = FALSE /\ Job(w, f, FALSE).left = 0
  BY DEF Job
<1> QED
  BY <1>1 DEF Sent, Waiting, Plain

\* A slot's age is a number.
LEMMA SlotType ==
    ASSUME NEW n \in Nat, NEW slot \in Nat \ {0}
    PROVE  n % slot \in 0 .. (slot - 1)
OBVIOUS

\* Facts about the constants, in the form the steps use.
LEMMA Constants ==
    /\ Hour \in Nat \ {0} /\ BrandCadence \in Nat \ {0} /\ Period \in Nat \ {0}
    /\ Expiry \in Nat /\ WebExpiry \in Nat /\ Longest \in Nat /\ Retries \in Nat
    /\ MaxOutside \in Nat /\ MaxFaults \in Nat /\ Len(Backoff) \in Nat /\ Oldest \in Nat
    /\ 0 \notin Rows
<1>1. Len(Backoff) \in Nat
  BY TimeAssumption
<1>2. 0 \notin Rows
  <2>1. 0 \notin 1 .. Cardinality(Rows)
    OBVIOUS
  <2> QED
    BY <2>1, RowsAssumption
<1> QED
  BY <1>1, <1>2, TimeAssumption

\* The slot a send takes is a well typed age.
LEMMA TakeSlotType ==
    ASSUME TypeOK, NEW slot \in Nat \ {0}, TakeSlot(slot)
    PROVE  taken' \in SUBSET Nat
<1>1. clock \in Nat
  BY Constants DEF TypeOK
<1>2. clock % slot \in Nat
  BY <1>1, SlotType
<1> QED
  BY <1>2 DEF TypeOK, TakeSlot

\* What is left of a failed job is a job.
LEMMA FailedType ==
    ASSUME NEW j \in Jobs
    PROVE  Failed(j) \in Jobs
<1>1. CASE j.left > 0
  <2>1. j.left \in Nat /\ j.left - 1 \in Nat
    BY <1>1 DEF Jobs
  <2> QED
    BY <1>1, <2>1 DEF Failed, Jobs
<1>2. CASE ~(j.left > 0)
  BY <1>2, NoJobType DEF Failed
<1> QED
  BY <1>1, <1>2

\* A job of the worker is not retried.
LEMMA PlainJobFails ==
    ASSUME NEW j, j.left = 0
    PROVE  Failed(j) = NoJob
<1>1. ~(j.left > 0)
  OBVIOUS
<1> QED
  BY <1>1 DEF Failed

LEMMA ActivatedType ==
    ASSUME NEW j \in Jobs
    PROVE  Activated(j) \in Jobs
BY DEF Activated, Jobs

LEMMA MovedType ==
    ASSUME NEW j \in Jobs
    PROVE  MovedToNow(j) \in Jobs
BY DEF MovedToNow, Jobs

LEMMA AgedType ==
    ASSUME NEW j \in Jobs
    PROVE  Aged(j) \in Jobs
<1>1. j.wait \in Nat /\ j.ran \in Nat
  BY DEF Jobs
<1>2. (IF j.wait = 0 THEN 0 ELSE j.wait - 1) \in Nat
  BY <1>1
<1>3. (IF j.st = "active" THEN Smaller(j.ran + 1, Patience(j)) ELSE j.ran) \in Nat
  BY <1>1, Constants DEF Smaller, Patience
<1> QED
  BY <1>2, <1>3 DEF Aged, Jobs

LEMMA IdleType == Idle \in Cycles
BY DEF Idle, Cycles

--------------------------------------------------------------------------------
(* Types. *)

LEMMA InitType == Init => TypeOK
<1> SUFFICES ASSUME Init PROVE TypeOK
  OBVIOUS
<1>1. lastRun \in [Targets -> Nat]
  BY Constants DEF Init
<1> QED
  BY <1>1, NoJobType, IdleType, Constants DEF Init, TypeOK, Rest

LEMMA FetchType ==
    ASSUME TypeOK, NEW h \in Handlers, NEW r \in Rows, Begin(h, r) \/ Skip(h, r) \/ Stop(h, r)
    PROVE  TypeOK'
<1>1. CASE Begin(h, r)
  <2>1. plan # {}
    BY <1>1 DEF Begin, Due
  <2>2. Cadence(plan) \in Nat \ {0}
    BY <2>1, CadenceType DEF TypeOK
  <2>3. Due \in SUBSET Targets
    BY DEF Due, TypeOK
  <2>4. jobs' \in [Rows -> Jobs]
    BY <1>1, ActivatedType DEF Begin, TypeOK
  <2>5. jobs[r].fails \in Nat
    BY DEF TypeOK, Jobs
  <2> DEFINE new == [st |-> "running", row |-> r, asked |-> Due, got |-> FALSE,
                     fails |-> jobs[r].fails, cadence |-> Cadence(plan), age |-> 0,
                     shared |-> Working # {}]
  <2>7. new \in Cycles
    BY <2>2, <2>3, <2>5 DEF Cycles
  <2>8. \A k \in Handlers : cycle[k] \in Cycles /\ [cycle[k] EXCEPT !.shared = TRUE] \in Cycles
    BY DEF TypeOK, Cycles
  <2>9. cycle' = [k \in Handlers |-> IF k = h THEN new
                    ELSE IF k \in Working THEN [cycle[k] EXCEPT !.shared = TRUE] ELSE cycle[k]]
    BY <1>1 DEF Begin
  <2> HIDE DEF new
  <2>6. cycle' \in [Handlers -> Cycles]
    BY <2>7, <2>8, <2>9
  <2> QED
    BY <1>1, <2>4, <2>6 DEF Begin, TypeOK
<1>2. CASE Skip(h, r)
  <2> DEFINE delay == IF enabled THEN Cadence(plan) ELSE BrandCadence
  <2>1. delay \in Nat \ {0}
    BY <1>2, CadenceType, Constants DEF Skip, SkipInto, TypeOK
  <2>2. [jobs EXCEPT ![r] = NoJob] \in [Rows -> Jobs]
    BY NoJobType DEF TypeOK
  <2>3. jobs' \in [Rows -> Jobs]
    BY <1>2, <2>1, <2>2, JobType, SentType DEF Skip, SkipInto
  <2>4. taken' \in SUBSET Nat
    BY <1>2, <2>1, TakeSlotType DEF Skip, SkipInto
  <2> QED
    BY <1>2, <2>3, <2>4 DEF Skip, TypeOK
<1>3. CASE Stop(h, r)
  BY <1>3, NoJobType DEF Stop, TypeOK
<1> QED
  BY <1>1, <1>2, <1>3

LEMMA DoneType ==
    ASSUME TypeOK, NEW h \in Handlers
    PROVE  Done(h) \in [Rows -> Jobs]
BY NoJobType DEF Done, TypeOK

LEMMA CycleType ==
    ASSUME TypeOK, NEW h \in Handlers,
           \/ \E t \in Targets : Record(h, t) \/ Miss(h, t)
           \/ RescheduleLost(h) \/ Throw(h)
    PROVE  TypeOK'
<1>1. ASSUME NEW t \in Targets, Record(h, t) \/ Miss(h, t) PROVE TypeOK'
  <2>1. cycle' \in [Handlers -> Cycles]
    BY <1>1 DEF Record, Miss, TypeOK, Cycles
  <2>2. faults' \in 0 .. MaxFaults
    BY <1>1, Constants DEF Record, Miss, TypeOK
  <2> QED
    BY <1>1, <2>1, <2>2 DEF Record, Miss, TypeOK
<1>2. CASE RescheduleLost(h)
  BY <1>2, DoneType, IdleType, Constants DEF RescheduleLost, TypeOK
<1>3. CASE Throw(h)
  <2>1. jobs' \in [Rows -> Jobs]
    BY <1>3, FailedType DEF Throw, TypeOK
  <2> QED
    BY <1>3, <2>1, IdleType, Constants DEF Throw, TypeOK
<1> QED
  BY <1>1, <1>2, <1>3

\* The job of the next cycle is well typed.
LEMMA SendNextType ==
    ASSUME TypeOK, NEW h \in Handlers, NEW js \in [Rows -> Jobs], SendNext(h, js)
    PROVE  jobs' \in [Rows -> Jobs] /\ taken' \in SUBSET Nat
<1> DEFINE fails == IF cycle[h].got THEN 0 ELSE Smaller(cycle[h].fails + 1, Len(Backoff) + 1)
           delay == BackoffOf(fails, cycle[h].cadence)
<1>1. fails \in Nat
  BY Constants DEF TypeOK, Cycles, Smaller
<1>2. cycle[h].cadence \in Nat \ {0}
  BY DEF TypeOK, Cycles
<1>3. delay \in Nat \ {0}
  BY <1>1, <1>2, BackoffType
<1>4. jobs' \in [Rows -> Jobs]
  BY <1>1, <1>3, JobType, SentType DEF SendNext
<1>5. taken' \in SUBSET Nat
  BY <1>3, TakeSlotType DEF SendNext
<1> QED
  BY <1>4, <1>5

LEMMA RescheduleType ==
    ASSUME TypeOK, NEW h \in Handlers, Reschedule(h)
    PROVE  TypeOK'
<1>1. jobs' \in [Rows -> Jobs] /\ taken' \in SUBSET Nat
  BY DoneType, SendNextType DEF Reschedule
<1> QED
  BY <1>1, IdleType DEF Reschedule, TypeOK

LEMMA MaintenanceType ==
    ASSUME TypeOK, LookAtRuns \/ Decide \/ Revive \/ Expedite
    PROVE  TypeOK'
<1>1. CASE LookAtRuns \/ Decide
  <2>1. CASE LookAtRuns
    BY <2>1 DEF LookAtRuns, TypeOK
  <2>2. CASE Decide
    BY <2>2 DEF Decide, TypeOK, Unfinished, Rest
  <2> QED
    BY <1>1, <2>1, <2>2
<1>2. CASE Revive
  <2>1. jobs' \in [Rows -> Jobs]
    BY <1>2, JobType, SentType DEF Revive, TypeOK
  <2>2. taken' \in SUBSET Nat
    BY <1>2, TakeSlotType, Constants DEF Revive
  <2> QED
    BY <1>2, <2>1, <2>2 DEF Revive, TypeOK, Rest
<1>3. CASE Expedite
  <2>1. jobs' \in [Rows -> Jobs]
    BY <1>3, MovedType DEF Expedite, TypeOK
  <2> QED
    BY <1>3, <2>1 DEF Expedite, TypeOK, Rest
<1> QED
  BY <1>1, <1>2, <1>3

LEMMA UserType ==
    ASSUME TypeOK,
           \/ Enable \/ Disable \/ RunNow \/ (\E S \in SUBSET Targets : ChangePlan(S))
           \/ WebSend \/ WebPull \/ WebLost
    PROVE  TypeOK'
<1>0. UserActs => outside' \in 0 .. MaxOutside
  BY Constants DEF UserActs, TypeOK
<1>1. CASE Enable
  BY <1>0, <1>1 DEF Enable, TypeOK
<1>2. CASE Disable
  BY <1>0, <1>2 DEF Disable, TypeOK
<1>3. CASE RunNow
  <2>1. jobs' \in [Rows -> Jobs]
    BY <1>3, JobType DEF RunNow, TypeOK
  <2> QED
    BY <1>0, <1>3, <2>1 DEF RunNow, TypeOK
<1>4. ASSUME NEW S \in SUBSET Targets, ChangePlan(S) PROVE TypeOK'
  BY <1>0, <1>4 DEF ChangePlan, TypeOK
<1>5. CASE WebSend
  <2>1. jobs' \in [Rows -> Jobs]
    BY <1>5, JobType, SentType DEF WebSend, TypeOK
  <2>2. taken' \in SUBSET Nat
    BY <1>5, TakeSlotType, Constants DEF WebSend
  <2> QED
    BY <1>5, <2>1, <2>2 DEF WebSend, TypeOK
<1>6. CASE WebPull
  <2>1. jobs' \in [Rows -> Jobs]
    BY <1>6, MovedType DEF WebPull, TypeOK
  <2> QED
    BY <1>6, <2>1 DEF WebPull, TypeOK
<1>7. CASE WebLost
  BY <1>7, Constants DEF WebLost, TypeOK
<1> QED
  BY <1>1, <1>2, <1>3, <1>4, <1>5, <1>6, <1>7

LEMMA QueueType ==
    ASSUME TypeOK, Crash \/ (\E r \in Rows : Expire(r))
    PROVE  TypeOK'
<1>1. ASSUME NEW r \in Rows, Expire(r) PROVE TypeOK'
  BY <1>1, FailedType DEF Expire, TypeOK
<1>2. CASE Crash
  <2>1. jobs' \in [Rows -> Jobs] /\ taken' \in SUBSET Nat
    <3>1. ASSUME NEW h \in Handlers, SendNext(h, jobs) 
          PROVE  jobs' \in [Rows -> Jobs] /\ taken' \in SUBSET Nat
      BY <3>1, SendNextType DEF TypeOK
    <3>2. \A r \in Rows : [jobs EXCEPT ![r] = Activated(@)] \in [Rows -> Jobs]
      BY ActivatedType DEF TypeOK
    <3>3. ASSUME NEW h \in Handlers, NEW r \in Rows, SkipInto(h, r, [jobs EXCEPT ![r] = Activated(@)])
          PROVE  jobs' \in [Rows -> Jobs] /\ taken' \in SUBSET Nat
      <4> DEFINE delay == IF enabled THEN Cadence(plan) ELSE BrandCadence
      <4>1. delay \in Nat \ {0}
        BY <3>3, CadenceType, Constants DEF SkipInto, TypeOK
      <4>2. jobs' \in [Rows -> Jobs]
        BY <3>2, <3>3, <4>1, JobType, SentType DEF SkipInto
      <4>3. taken' \in SUBSET Nat
        BY <3>3, <4>1, TakeSlotType DEF SkipInto
      <4> QED
        BY <4>2, <4>3
    <3> QED
      BY <1>2, <3>1, <3>2, <3>3 DEF Crash, TypeOK
  <2>2. cycle' \in [Handlers -> Cycles]
    BY <1>2, IdleType DEF Crash
  <2> QED
    BY <1>2, <2>1, <2>2, Constants DEF Crash, TypeOK, Rest
<1> QED
  BY <1>1, <1>2

LEMMA TickType ==
    ASSUME TypeOK, Tick
    PROVE  TypeOK'
<1>1. clock' \in 0 .. (Period - 1)
  <2>1. clock + 1 \in Nat
    BY Constants DEF TypeOK
  <2> QED
    BY <2>1, Constants, SlotType DEF Tick
<1>2. taken' \in SUBSET Nat
  BY Constants DEF Tick
<1>3. jobs' \in [Rows -> Jobs]
  BY AgedType DEF Tick, TypeOK
<1>4. cycle' \in [Handlers -> Cycles]
  <2>1. \A k \in Handlers : [cycle[k] EXCEPT !.age = @ + 1] \in Cycles
    BY DEF TypeOK, Cycles
  <2> QED
    BY <2>1 DEF Tick, TypeOK
<1>5. lastRun' \in [Targets -> Nat]
  BY Constants DEF Tick, TypeOK, Smaller
<1> QED
  BY <1>1, <1>2, <1>3, <1>4, <1>5 DEF Tick, TypeOK

\* Every step keeps the state well typed.
LEMMA StepType ==
    ASSUME TypeOK, [Next]_vars
    PROVE  TypeOK'
<1>1. CASE Next
  BY <1>1, FetchType, CycleType, RescheduleType, MaintenanceType, UserType, QueueType, TickType
  DEF Next, Fetch
<1>2. CASE UNCHANGED vars
  BY <1>2 DEF vars, TypeOK
<1> QED
  BY <1>1, <1>2

\* The state of the prompt, its jobs, the handlers and the maintenance pass is
\* well typed: a job keeps its parts through sends, retries and moves, and
\* every delay computed from the plan, the failures and the clock is a number
\* of ticks.
THEOREM TypeCorrect == Spec => []TypeOK
<1>1. Init => TypeOK
  BY InitType
<1>2. TypeOK /\ [Next]_vars => TypeOK'
  BY StepType
<1> QED
  BY <1>1, <1>2, PTL DEF Spec

--------------------------------------------------------------------------------
(* One chain. *)

LEMMA CyclesEndStep ==
    ASSUME TypeOK, CyclesEnd, [Next]_vars
    PROVE  CyclesEnd'
<1>0. Idle.age = 0 /\ Longest \in Nat
  BY Constants DEF Idle
<1>1. CASE Tick
  <2> SUFFICES ASSUME NEW h \in Handlers PROVE cycle'[h].age <= Longest
    BY DEF CyclesEnd
  <2>1. CASE h \in Working
    <3>1. cycle'[h].age = cycle[h].age + 1 /\ cycle[h].age < Longest
      BY <1>1, <2>1 DEF Tick, TypeOK, Cycles
    <3> QED
      BY <1>0, <3>1 DEF TypeOK, Cycles
  <2>2. CASE h \notin Working
    BY <1>1, <2>2 DEF Tick, CyclesEnd
  <2> QED
    BY <2>1, <2>2
<1>2. ASSUME NEW h \in Handlers, NEW r \in Rows, Begin(h, r) PROVE CyclesEnd'
  <2> SUFFICES ASSUME NEW k \in Handlers PROVE cycle'[k].age <= Longest
    BY DEF CyclesEnd
  <2>1. cycle'[k].age = IF k = h THEN 0 ELSE cycle[k].age
    BY <1>2 DEF Begin, TypeOK, Cycles
  <2> QED
    BY <1>0, <2>1 DEF CyclesEnd
<1>3. ASSUME NEW h \in Handlers, NEW t \in Targets, Record(h, t) \/ Miss(h, t) PROVE CyclesEnd'
  BY <1>3 DEF Record, Miss, CyclesEnd, TypeOK, Cycles
<1>4. ASSUME NEW h \in Handlers, Reschedule(h) \/ RescheduleLost(h) \/ Throw(h) PROVE CyclesEnd'
  BY <1>0, <1>4 DEF Reschedule, RescheduleLost, Throw, CyclesEnd, TypeOK
<1>5. CASE Crash
  BY <1>0, <1>5 DEF Crash, CyclesEnd
<1>6. CASE UNCHANGED cycle
  BY <1>6 DEF CyclesEnd
<1> QED
  BY <1>1, <1>2, <1>3, <1>4, <1>5, <1>6
  DEF Next, Fetch, Skip, Stop, Expire, LookAtRuns, Decide, Revive, Expedite, Enable, Disable, RunNow,
      ChangePlan, WebSend, WebPull, WebLost, vars

\* A waiting job is the prompt's only chain: no cycle is under way.
LEMMA NoCycleBesideAWaitingJob ==
    ASSUME TypeOK, WorkerAlone, NEW r \in Waiting(jobs)
    PROVE  Working = {} /\ Waiting(jobs) = {r} /\ maintenance.op # "send"
<1>1. r \in Heads /\ r \in Unfinished(jobs) /\ jobs[r].st # "active"
  BY DEF Heads, Waiting, Unfinished
<1>2. \A h \in Working : cycle[h].row \in Heads
  BY DEF Heads
<1> QED
  BY <1>1, <1>2 DEF WorkerAlone, Heads

\* And beside a cycle no job waits.
LEMMA NoWaitingJobBesideACycle ==
    ASSUME TypeOK, WorkerAlone, NEW h \in Working
    PROVE  Working = {h} /\ Waiting(jobs) = {} /\ maintenance.op # "send"
<1>1. cycle[h].row \in Rows /\ jobs[cycle[h].row].st = "active"
  BY DEF WorkerAlone
<1>2. cycle[h].row \in Unfinished(jobs)
  BY <1>1 DEF Unfinished
<1>3. Waiting(jobs) = {}
  BY NoCycleBesideAWaitingJob
<1> QED
  BY <1>2, <1>3 DEF WorkerAlone

\* Without a cycle, what has to be shown of the next state is about the jobs.
LEMMA BetweenCycles ==
    ASSUME request' = "rest", Plain(jobs'), \A r, s \in Waiting(jobs') : r = s, Working' = {},
           maintenance'.op = "send" => Unfinished(jobs') = {}
    PROVE  WorkerAlone'
BY DEF WorkerAlone, Heads

LEMMA FetchKeepsOneChain ==
    ASSUME TypeOK, WorkerAlone, NEW h \in Handlers, NEW r \in Rows,
           Begin(h, r) \/ Skip(h, r) \/ Stop(h, r)
    PROVE  WorkerAlone'
<1>1. r \in Waiting(jobs)
  BY DEF Begin, Skip, SkipInto, Stop, Fetched
<1>2. Working = {} /\ Waiting(jobs) = {r} /\ maintenance.op # "send"
  BY <1>1, NoCycleBesideAWaitingJob
<1>3. CASE Begin(h, r)
  <2>1. jobs'[r].st = "active" /\ jobs'[r].ran = 0 /\ jobs'[r].web = jobs[r].web /\ jobs'[r].left = jobs[r].left
    BY <1>3 DEF Begin, Activated, TypeOK, Jobs
  <2>2. \A s \in Rows : s # r => jobs'[s] = jobs[s]
    BY <1>3 DEF Begin, TypeOK
  <2>3. cycle'[h].st = "running" /\ cycle'[h].row = r /\ cycle'[h].age = 0
    BY <1>3 DEF Begin
  <2>4. \A k \in Handlers : k # h => cycle'[k] = cycle[k]
    BY <1>2, <1>3 DEF Begin
  <2>5. Working' = {h}
    BY <1>2, <2>3, <2>4 DEF Working
  <2>6. Waiting(jobs') = {}
    BY <1>2, <2>1, <2>2 DEF Waiting
  <2>7. Heads' = {r}
    BY <2>3, <2>5, <2>6 DEF Heads
  <2>8. Plain(jobs')
    BY <2>1, <2>2 DEF WorkerAlone, Plain
  <2>9. request' = "rest" /\ maintenance' = maintenance
    BY <1>3 DEF Begin, WorkerAlone
  <2> QED
    BY <1>2, <2>1, <2>3, <2>5, <2>7, <2>8, <2>9 DEF WorkerAlone
<1>4. CASE Skip(h, r)
  <2> DEFINE delay == IF enabled THEN Cadence(plan) ELSE BrandCadence
             js == [jobs EXCEPT ![r] = NoJob]
  <2>1. delay \in Nat
    BY <1>4, CadenceType, Constants DEF Skip, SkipInto, TypeOK
  <2>2. js \in [Rows -> Jobs] /\ Waiting(js) = {} /\ Plain(js)
    BY <1>2, NoJobType DEF TypeOK, Waiting, Plain, WorkerAlone, NoJob
  <2>3. jobs' = Sent(js, delay, Job(delay, 0, FALSE))
    BY <1>4 DEF Skip, SkipInto
  <2>4. Plain(jobs') /\ \A q, s \in Waiting(jobs') : q = s
    BY <2>1, <2>2, <2>3, SentOne
  <2>5. Working' = {} /\ request' = "rest" /\ maintenance' = maintenance
    BY <1>2, <1>4 DEF Skip, Working, WorkerAlone
  <2> QED
    BY <1>2, <2>4, <2>5, BetweenCycles
<1>5. CASE Stop(h, r)
  <2>1. Waiting(jobs') = {} /\ Plain(jobs')
    BY <1>2, <1>5 DEF Stop, TypeOK, Waiting, Plain, WorkerAlone, NoJob
  <2>2. Working' = {} /\ request' = "rest" /\ maintenance' = maintenance
    BY <1>2, <1>5 DEF Stop, Working, WorkerAlone
  <2> QED
    BY <1>2, <2>1, <2>2, BetweenCycles
<1> QED
  BY <1>3, <1>4, <1>5

\* What the next job is sent into, and what comes of it.
LEMMA SendNextKeepsOneChain ==
    ASSUME TypeOK, NEW h \in Handlers, NEW js \in [Rows -> Jobs], Waiting(js) = {}, Plain(js),
           SendNext(h, js)
    PROVE  Plain(jobs') /\ \A r, s \in Waiting(jobs') : r = s
<1> DEFINE fails == IF cycle[h].got THEN 0 ELSE Smaller(cycle[h].fails + 1, Len(Backoff) + 1)
           delay == BackoffOf(fails, cycle[h].cadence)
<1>1. fails \in Nat
  BY Constants DEF TypeOK, Cycles, Smaller
<1>2. cycle[h].cadence \in Nat \ {0}
  BY DEF TypeOK, Cycles
<1>3. delay \in Nat
  BY <1>1, <1>2, BackoffType
<1>4. jobs' = Sent(js, delay, Job(delay, fails, FALSE))
  BY DEF SendNext
<1> HIDE DEF fails, delay
<1> QED
  BY <1>1, <1>3, <1>4, SentOne

LEMMA DoneIsQuiet ==
    ASSUME TypeOK, WorkerAlone, NEW h \in Working
    PROVE  Waiting(Done(h)) = {} /\ Plain(Done(h))
BY NoWaitingJobBesideACycle DEF Done, Waiting, Plain, WorkerAlone, NoJob

LEMMA CycleKeepsOneChain ==
    ASSUME TypeOK, WorkerAlone, NEW h \in Handlers,
           \/ \E t \in Targets : Record(h, t) \/ Miss(h, t)
           \/ Reschedule(h) \/ RescheduleLost(h) \/ Throw(h)
    PROVE  WorkerAlone'
<1>1. h \in Working
  BY DEF Record, Miss, Reschedule, SendNext, RescheduleLost, Throw, Settled
<1>2. Working = {h} /\ Waiting(jobs) = {} /\ maintenance.op # "send"
  BY <1>1, NoWaitingJobBesideACycle
<1>3. cycle' = [cycle EXCEPT ![h] = Idle] => Working' = {}
  BY <1>2 DEF Working, Idle, TypeOK
<1>4. ASSUME NEW t \in Targets, Record(h, t) \/ Miss(h, t) PROVE WorkerAlone'
  <2>1. \A k \in Handlers : /\ cycle'[k].st = cycle[k].st /\ cycle'[k].row = cycle[k].row
                            /\ cycle'[k].age = cycle[k].age
    BY <1>4 DEF Record, Miss, TypeOK, Cycles
  <2>2. Working' = Working /\ jobs' = jobs /\ request' = request /\ maintenance' = maintenance
    BY <1>4, <2>1 DEF Record, Miss, Working
  <2>3. Heads' = Heads
    BY <2>1, <2>2 DEF Heads, Working
  <2> QED
    BY <2>1, <2>2, <2>3 DEF WorkerAlone, Working
<1>5. CASE Reschedule(h)
  <2>1. Plain(jobs') /\ \A r, s \in Waiting(jobs') : r = s
    BY <1>1, <1>5, DoneIsQuiet, DoneType, SendNextKeepsOneChain DEF Reschedule
  <2>2. Working' = {} /\ request' = "rest" /\ maintenance' = maintenance
    BY <1>3, <1>5 DEF Reschedule, WorkerAlone
  <2> QED
    BY <1>2, <2>1, <2>2, BetweenCycles
<1>6. CASE RescheduleLost(h)
  <2>1. Plain(jobs') /\ Waiting(jobs') = {}
    BY <1>1, <1>6, DoneIsQuiet DEF RescheduleLost
  <2>2. Working' = {} /\ request' = "rest" /\ maintenance' = maintenance
    BY <1>3, <1>6 DEF RescheduleLost, WorkerAlone
  <2> QED
    BY <1>2, <2>1, <2>2, BetweenCycles
<1>7. CASE Throw(h)
  <2>1. \A r \in Rows : jobs'[r] = NoJob \/ jobs'[r] = jobs[r]
    BY <1>7, PlainJobFails DEF Throw, WorkerAlone, Plain
  <2>2. Plain(jobs') /\ Waiting(jobs') = {}
    BY <1>2, <2>1 DEF Plain, Waiting, NoJob, WorkerAlone
  <2>3. Working' = {} /\ request' = "rest" /\ maintenance' = maintenance
    BY <1>3, <1>7 DEF Throw, WorkerAlone
  <2> QED
    BY <1>2, <2>2, <2>3, BetweenCycles
<1> QED
  BY <1>4, <1>5, <1>6, <1>7

LEMMA CrashKeepsOneChain ==
    ASSUME TypeOK, WorkerAlone, Crash
    PROVE  WorkerAlone'
<1>1. Working' = {}
  BY DEF Crash, Working, Idle
<1>2. request' = "rest" /\ maintenance'.op # "send"
  BY DEF Crash, Rest, WorkerAlone
<1>3. \A h \in Handlers, r \in Rows : Fetched(h, r) =>
         LET held == [jobs EXCEPT ![r] = Activated(@)] IN
         held \in [Rows -> Jobs] /\ Waiting(held) = {} /\ Plain(held)
  <2> SUFFICES ASSUME NEW h \in Handlers, NEW r \in Rows, Fetched(h, r)
               PROVE  LET held == [jobs EXCEPT ![r] = Activated(@)] IN
                      held \in [Rows -> Jobs] /\ Waiting(held) = {} /\ Plain(held)
    OBVIOUS
  <2>1. Waiting(jobs) = {r}
    BY NoCycleBesideAWaitingJob DEF Fetched
  <2>2. LET j == Activated(jobs[r]) IN
        j \in Jobs /\ j.st = "active" /\ j.web = jobs[r].web /\ j.left = jobs[r].left
    BY ActivatedType DEF Activated, TypeOK, Jobs
  <2> QED
    BY <2>1, <2>2 DEF Waiting, Plain, WorkerAlone, TypeOK
<1>4. CASE UNCHANGED jobs
  <2>1. Plain(jobs') /\ \A r, s \in Waiting(jobs') : r = s
    BY <1>4 DEF WorkerAlone, Heads
  <2> QED
    BY <1>1, <1>2, <2>1, BetweenCycles
<1>5. ASSUME NEW h \in Handlers, SendNext(h, jobs) PROVE WorkerAlone'
  <2>1. h \in Working
    BY <1>5 DEF SendNext, Settled
  <2>2. Waiting(jobs) = {} /\ Plain(jobs) /\ jobs \in [Rows -> Jobs]
    BY <2>1, NoWaitingJobBesideACycle DEF WorkerAlone, TypeOK
  <2>3. Plain(jobs') /\ \A r, s \in Waiting(jobs') : r = s
    BY <1>5, <2>2, SendNextKeepsOneChain
  <2> QED
    BY <1>1, <1>2, <2>3, BetweenCycles
<1>6. ASSUME NEW h \in Handlers, NEW r \in Rows, Fetched(h, r),
             jobs' = [jobs EXCEPT ![r] = Activated(@)]
      PROVE  WorkerAlone'
  BY <1>1, <1>2, <1>3, <1>6, BetweenCycles
<1>7. ASSUME NEW h \in Handlers, NEW r \in Rows, SkipInto(h, r, [jobs EXCEPT ![r] = Activated(@)])
      PROVE  WorkerAlone'
  <2> DEFINE delay == IF enabled THEN Cadence(plan) ELSE BrandCadence
             held == [jobs EXCEPT ![r] = Activated(@)]
  <2>1. delay \in Nat
    BY <1>7, CadenceType, Constants DEF SkipInto, TypeOK
  <2>2. held \in [Rows -> Jobs] /\ Waiting(held) = {} /\ Plain(held)
    BY <1>3, <1>7 DEF SkipInto
  <2>3. jobs' = Sent(held, delay, Job(delay, 0, FALSE))
    BY <1>7 DEF SkipInto
  <2> HIDE DEF held, delay
  <2>4. Plain(jobs') /\ \A q, s \in Waiting(jobs') : q = s
    BY <2>1, <2>2, <2>3, SentOne
  <2> QED
    BY <1>1, <1>2, <2>4, BetweenCycles
<1> QED
  BY <1>4, <1>5, <1>6, <1>7 DEF Crash

\* A job old enough to expire is held by no cycle.
LEMMA ExpireKeepsOneChain ==
    ASSUME TypeOK, CyclesEnd, WorkerAlone, NEW r \in Rows, Expire(r)
    PROVE  WorkerAlone'
<1>1. jobs[r].st = "active" /\ jobs[r].ran >= Expiry
  BY DEF Expire, Patience, WorkerAlone, Plain
<1>2. \A h \in Working : cycle[h].row # r
  <2> SUFFICES ASSUME NEW h \in Working, cycle[h].row = r PROVE FALSE
    OBVIOUS
  <2>1. jobs[r].ran <= cycle[h].age /\ cycle[h].age <= Longest
    BY DEF WorkerAlone, CyclesEnd, Working
  <2>2. jobs[r].ran \in Nat /\ cycle[h].age \in Nat
    BY DEF TypeOK, Jobs, Cycles, Working
  <2> QED
    BY <1>1, <2>1, <2>2, ExpiryAssumption, Constants
<1>3. jobs' = [jobs EXCEPT ![r] = NoJob]
  <2>1. jobs[r].left = 0
    BY DEF WorkerAlone, Plain
  <2> QED
    BY <2>1, PlainJobFails DEF Expire
<1>4. Plain(jobs') /\ Waiting(jobs') = Waiting(jobs) /\ Unfinished(jobs') \subseteq Unfinished(jobs)
  BY <1>1, <1>3 DEF Plain, Waiting, Unfinished, NoJob, TypeOK, WorkerAlone
<1>5. Working' = Working /\ cycle' = cycle /\ request' = request /\ maintenance' = maintenance
  BY DEF Expire, Working
<1>6. Heads' = Heads
  BY <1>4, <1>5 DEF Heads
<1>7. \A h \in Working : jobs'[cycle[h].row] = jobs[cycle[h].row]
  BY <1>2, <1>3 DEF TypeOK, WorkerAlone
<1> QED
  BY <1>4, <1>5, <1>6, <1>7 DEF WorkerAlone

LEMMA MaintenanceKeepsOneChain ==
    ASSUME TypeOK, WorkerAlone, LookAtRuns \/ Decide \/ Revive \/ Expedite
    PROVE  WorkerAlone'
<1>1. CASE LookAtRuns \/ Decide
  <2>1. UNCHANGED <<jobs, cycle, request>> /\ (maintenance'.op = "send" => Unfinished(jobs) = {})
    BY <1>1 DEF LookAtRuns, Decide, Rest
  <2> QED
    BY <2>1 DEF WorkerAlone, Heads, Working
<1>2. CASE Revive
  <2>1. Unfinished(jobs) = {}
    BY <1>2 DEF Revive, WorkerAlone
  <2>2. Working = {} /\ Waiting(jobs) = {}
    BY <2>1 DEF Unfinished, Waiting, WorkerAlone
  <2>3. jobs' = Sent(jobs, Hour, Job(0, 0, FALSE)) /\ Plain(jobs) /\ jobs \in [Rows -> Jobs]
    BY <1>2 DEF Revive, WorkerAlone, TypeOK
  <2>4. Plain(jobs') /\ \A r, s \in Waiting(jobs') : r = s
    BY <2>2, <2>3, SentOne
  <2>5. Working' = {} /\ request' = "rest" /\ maintenance'.op # "send"
    BY <1>2, <2>2 DEF Revive, Working, Rest, WorkerAlone
  <2> QED
    BY <2>4, <2>5, BetweenCycles
<1>3. CASE Expedite
  <2>1. \A r \in Rows : /\ jobs'[r].st = jobs[r].st /\ jobs'[r].web = jobs[r].web
                        /\ jobs'[r].left = jobs[r].left /\ jobs'[r].ran = jobs[r].ran
    BY <1>3 DEF Expedite, MovedToNow, TypeOK, Jobs
  <2>2. UNCHANGED <<cycle, request>> /\ maintenance'.op # "send"
    BY <1>3 DEF Expedite, Rest
  <2>3. Working' = Working /\ Waiting(jobs') = Waiting(jobs)
    BY <2>1, <2>2 DEF Working, Waiting
  <2>4. Heads' = Heads
    BY <2>2, <2>3 DEF Heads
  <2>5. Plain(jobs')
    BY <2>1 DEF Plain, WorkerAlone
  <2> QED
    BY <2>1, <2>2, <2>3, <2>4, <2>5 DEF WorkerAlone
<1> QED
  BY <1>1, <1>2, <1>3

LEMMA TickKeepsOneChain ==
    ASSUME TypeOK, WorkerAlone, Tick
    PROVE  WorkerAlone'
<1>1. \A r \in Rows : /\ jobs'[r].st = jobs[r].st /\ jobs'[r].web = jobs[r].web
                      /\ jobs'[r].left = jobs[r].left /\ jobs'[r].ran <= jobs[r].ran + 1
  <2> SUFFICES ASSUME NEW r \in Rows
               PROVE  /\ jobs'[r].st = jobs[r].st /\ jobs'[r].web = jobs[r].web
                      /\ jobs'[r].left = jobs[r].left /\ jobs'[r].ran <= jobs[r].ran + 1
    OBVIOUS
  <2>1. jobs'[r] = Aged(jobs[r]) /\ jobs[r] \in Jobs
    BY DEF Tick, TypeOK
  <2>2. Patience(jobs[r]) \in Nat /\ jobs[r].ran \in Nat
    BY <2>1, Constants DEF Patience, Jobs
  <2> QED
    BY <2>1, <2>2 DEF Aged, Smaller, Jobs
<1>2. \A h \in Handlers : /\ cycle'[h].st = cycle[h].st /\ cycle'[h].row = cycle[h].row
                          /\ h \in Working => cycle'[h].age = cycle[h].age + 1
  BY DEF Tick, TypeOK, Cycles
<1>3. UNCHANGED <<request, maintenance>>
  BY DEF Tick
<1>4. Working' = Working /\ Waiting(jobs') = Waiting(jobs) /\ Unfinished(jobs') = Unfinished(jobs)
  BY <1>1, <1>2 DEF Working, Waiting, Unfinished
<1>5. Heads' = Heads
  BY <1>2, <1>4 DEF Heads, Working
<1>6. Plain(jobs')
  BY <1>1 DEF Plain, WorkerAlone
<1>7. \A h \in Working : /\ cycle'[h].row \in Rows /\ jobs'[cycle'[h].row].st = "active"
                         /\ jobs'[cycle'[h].row].ran <= cycle'[h].age
  <2> SUFFICES ASSUME NEW h \in Working
               PROVE  /\ cycle'[h].row \in Rows /\ jobs'[cycle'[h].row].st = "active"
                      /\ jobs'[cycle'[h].row].ran <= cycle'[h].age
    OBVIOUS
  <2>1. h \in Handlers /\ cycle[h].row \in Rows /\ jobs[cycle[h].row].st = "active"
        /\ jobs[cycle[h].row].ran <= cycle[h].age
    BY DEF WorkerAlone, Working
  <2>2. jobs[cycle[h].row].ran \in Nat /\ cycle[h].age \in Nat /\ jobs'[cycle[h].row].ran \in Nat
    BY <2>1, TickType DEF TypeOK, Jobs, Cycles
  <2> QED
    BY <1>1, <1>2, <2>1, <2>2
<1> QED
  BY <1>3, <1>4, <1>5, <1>6, <1>7 DEF WorkerAlone

\* Every step keeps the invariant; what a user does is outside it.
LEMMA StepInv ==
    ASSUME Inv, [Next]_vars
    PROVE  Inv'
<1>1. TypeOK' /\ CyclesEnd'
  BY StepType, CyclesEndStep DEF Inv
<1> SUFFICES ASSUME outside' = 0 PROVE WorkerAlone'
  BY <1>1 DEF Inv
<1>2. outside = 0
  <2>1. outside \in Nat
    BY Constants DEF Inv, TypeOK
  <2>2. outside' = outside \/ UserActs
    BY DEF Next, Fetch, Begin, Skip, Stop, Record, Miss, Reschedule, RescheduleLost, Throw, Crash,
       Expire, LookAtRuns, Decide, Revive, Expedite, Enable, Disable, RunNow, ChangePlan, WebSend, WebPull,
       WebLost, Tick, vars
  <2>3. UserActs => outside' = outside + 1
    BY DEF UserActs
  <2> QED
    BY <2>1, <2>2, <2>3
<1>3. WorkerAlone /\ TypeOK /\ CyclesEnd
  BY <1>2 DEF Inv
<1>4. CASE UNCHANGED vars
  BY <1>3, <1>4 DEF vars, WorkerAlone, Heads, Working
<1>5. ~Enable /\ ~Disable /\ ~RunNow /\ (\A S \in SUBSET Targets : ~ChangePlan(S))
  BY <1>2 DEF Enable, Disable, RunNow, ChangePlan, UserActs
<1>6. ~WebSend /\ ~WebPull /\ ~WebLost
  BY <1>3 DEF WorkerAlone, WebSend, WebPull, WebLost
<1> QED
  BY <1>3, <1>4, <1>5, <1>6, FetchKeepsOneChain, CycleKeepsOneChain, CrashKeepsOneChain,
     ExpireKeepsOneChain, MaintenanceKeepsOneChain, TickKeepsOneChain
  DEF Next, Fetch

LEMMA InitInv == Init => Inv
<1> SUFFICES ASSUME Init PROVE Inv
  OBVIOUS
<1>1. Working = {} /\ Waiting(jobs) = {} /\ Plain(jobs)
  BY DEF Init, Working, Waiting, Plain, Idle, NoJob
<1>2. CyclesEnd
  BY Constants DEF Init, CyclesEnd, Idle
<1>3. WorkerAlone
  BY <1>1 DEF WorkerAlone, Heads, Init, Rest
<1> QED
  BY <1>2, <1>3, InitType DEF Inv

\* Without an action of a user, the worker and its maintenance pass never give
\* the prompt a second chain of jobs or a second cycle: for every plan, cadence
\* and backoff, every slot the queue may drop a send into, and any number of
\* crashes, expiries and lost sends.
THEOREM WorkerKeepsOneChain == Spec => []OneChain
<1>1. Init => Inv
  BY InitInv
<1>2. Inv /\ [Next]_vars => Inv'
  BY StepInv
<1>3. Inv => OneChain
  BY DEF Inv, WorkerAlone, OneChain
<1> QED
  BY <1>1, <1>2, <1>3, PTL DEF Spec

--------------------------------------------------------------------------------
(* Early samples. *)

Ripe(t) == lastRun[t] >= Interval[t] - Tolerance(t)

\* Two cycles under way know of each other, and what a cycle alone has still to
\* ask is due.
AloneIsDue ==
    /\ \A g, h \in Working : g # h => cycle[g].shared
    /\ \A h \in Working : ~cycle[h].shared => \A t \in cycle[h].asked : Ripe(t)

\* An interval, less the tolerance, is a time the ages of runs reach.
LEMMA RipeInTime ==
    ASSUME NEW t \in Targets
    PROVE  Interval[t] - Tolerance(t) \in Int /\ Interval[t] - Tolerance(t) <= Oldest
<1>1. Interval[t] \in Nat /\ HalfHour \in Nat /\ Oldest \in Nat
  BY TimeAssumption
<1>2. Interval[t] < Oldest
  BY TimeAssumption DEF Slots, Cadences
<1>3. Interval[t] \div 4 \in Nat
  BY <1>1
<1>4. Tolerance(t) \in Nat
  BY <1>1, <1>3 DEF Tolerance, Smaller
<1> QED
  BY <1>1, <1>2, <1>4

\* What was due stays due as time passes.
LEMMA TickKeepsRipe ==
    ASSUME TypeOK, Tick, NEW t \in Targets, Ripe(t)
    PROVE  Ripe(t)'
<1>1. lastRun[t] \in Nat /\ Oldest \in Nat
  BY Constants DEF TypeOK
<1>2. lastRun'[t] = IF lastRun[t] + 1 <= Oldest THEN lastRun[t] + 1 ELSE Oldest
  BY DEF Tick, Smaller
<1>3. lastRun[t] >= Interval[t] - Tolerance(t)
  BY DEF Ripe
<1>4. lastRun'[t] >= Interval[t] - Tolerance(t)
  BY <1>1, <1>2, <1>3, RipeInTime
<1> QED
  BY <1>4 DEF Ripe, Tolerance

\* Every step keeps it: a cycle that begins finds its targets due, and only a
\* cycle that is not alone meets another's records.
LEMMA AloneIsDueStep ==
    ASSUME TypeOK, AloneIsDue, [Next]_vars
    PROVE  AloneIsDue'
<1>0. Idle.st = "idle"
  BY DEF Idle
<1>1. CASE Tick
  <2>1. Working' = Working
    BY <1>1 DEF Tick, Working, TypeOK, Cycles
  <2>2. \A h \in Working : cycle'[h].shared = cycle[h].shared /\ cycle'[h].asked = cycle[h].asked
    BY <1>1 DEF Tick, Working, TypeOK, Cycles
  <2>3. \A h \in Working : cycle[h].asked \subseteq Targets
    BY DEF TypeOK, Cycles, Working
  <2>4. ASSUME NEW h \in Working, ~cycle[h].shared, NEW t \in cycle[h].asked PROVE Ripe(t)'
    BY <1>1, <2>3, <2>4, TickKeepsRipe DEF AloneIsDue
  <2> QED
    BY <2>1, <2>2, <2>4 DEF AloneIsDue
<1>2. ASSUME NEW h \in Handlers, NEW r \in Rows, Begin(h, r) PROVE AloneIsDue'
  <2>1. h \notin Working /\ lastRun' = lastRun /\ Working' = Working \cup {h}
    BY <1>2 DEF Begin, Fetched, Working, TypeOK
  <2>2. cycle'[h].shared = (Working # {}) /\ cycle'[h].asked = Due
    BY <1>2 DEF Begin
  <2>3. \A k \in Working : cycle'[k].shared /\ k # h
    BY <1>2, <2>1 DEF Begin, TypeOK, Cycles, Working
  <2>4. \A t \in Due : Ripe(t)
    BY DEF Due, Ripe
  <2>5. \A t \in Due : Ripe(t)'
    BY <2>1, <2>4 DEF Ripe, Tolerance
  <2> QED
    BY <2>1, <2>2, <2>3, <2>5 DEF AloneIsDue
<1>3. ASSUME NEW h \in Handlers, NEW t \in Targets, Record(h, t) PROVE AloneIsDue'
  <2>1. h \in Working /\ Working' = Working
    BY <1>3 DEF Record, Working, TypeOK, Cycles
  <2>2. \A k \in Working : cycle'[k].shared = cycle[k].shared
    BY <1>3 DEF Record, Working, TypeOK, Cycles
  <2>3. cycle'[h].asked = cycle[h].asked \ {t} /\ \A k \in Working : k # h => cycle'[k].asked = cycle[k].asked
    BY <1>3 DEF Record, Working, TypeOK, Cycles
  <2>4. \A u \in Targets : u # t => lastRun'[u] = lastRun[u]
    BY <1>3 DEF Record, TypeOK
  <2>5. \A k \in Working : cycle[k].asked \subseteq Targets
    BY DEF TypeOK, Cycles, Working
  <2>6. ASSUME NEW k \in Working, ~cycle'[k].shared, NEW u \in cycle'[k].asked PROVE Ripe(u)'
    <3>1. k = h
      BY <2>1, <2>2, <2>6 DEF AloneIsDue
    <3>2. u # t /\ u \in cycle[k].asked /\ u \in Targets
      BY <2>3, <2>5, <2>6, <3>1
    <3>3. Ripe(u)
      BY <2>2, <2>6, <3>2 DEF AloneIsDue
    <3> QED
      BY <2>4, <3>2, <3>3 DEF Ripe, Tolerance
  <2> QED
    BY <2>1, <2>2, <2>6 DEF AloneIsDue
<1>4. ASSUME NEW h \in Handlers, NEW t \in Targets, Miss(h, t) PROVE AloneIsDue'
  <2>1. Working' = Working /\ lastRun' = lastRun
    BY <1>4 DEF Miss, Working, TypeOK, Cycles
  <2>2. \A k \in Working : cycle'[k].shared = cycle[k].shared /\ cycle'[k].asked \subseteq cycle[k].asked
    BY <1>4 DEF Miss, Working, TypeOK, Cycles
  <2> QED
    BY <2>1, <2>2 DEF AloneIsDue, Ripe, Tolerance
<1>5. CASE /\ lastRun' = lastRun
           /\ \A k \in Handlers : cycle'[k] = cycle[k] \/ cycle'[k] = Idle
  <2>1. \A k \in Working' : k \in Working /\ cycle'[k] = cycle[k]
    BY <1>0, <1>5 DEF Working
  <2> QED
    BY <1>5, <2>1 DEF AloneIsDue, Ripe, Tolerance
<1>6. ASSUME NEW h \in Handlers, Reschedule(h) \/ RescheduleLost(h) \/ Throw(h) PROVE AloneIsDue'
  BY <1>5, <1>6 DEF Reschedule, RescheduleLost, Throw, TypeOK
<1>7. CASE Crash
  BY <1>5, <1>7 DEF Crash
<1>8. CASE UNCHANGED <<cycle, lastRun>>
  BY <1>5, <1>8
<1> QED
  BY <1>1, <1>2, <1>3, <1>4, <1>6, <1>7, <1>8
  DEF Next, Fetch, Skip, Stop, Expire, LookAtRuns, Decide, Revive, Expedite, Enable, Disable, RunNow,
      ChangePlan, WebSend, WebPull, WebLost, vars

\* A cycle that never overlapped another records no run of a target before its
\* interval, less the tolerance, is over: for any number of handlers and
\* whatever jobs expire, are moved or are asked for by users meanwhile.
THEOREM EarlySamplesAreShared == Spec => OversamplingIsShared
<1>1. Init => TypeOK /\ AloneIsDue
  BY InitType DEF Init, AloneIsDue, Working, Idle
<1>2. TypeOK /\ AloneIsDue /\ [Next]_vars => TypeOK' /\ AloneIsDue'
  BY StepType, AloneIsDueStep
<1>3. TypeOK /\ AloneIsDue =>
        [\A h \in Handlers, t \in Targets :
            Record(h, t) /\ ~cycle[h].shared => lastRun[t] >= Interval[t] - Tolerance(t)]_vars
  BY DEF AloneIsDue, Ripe, Record
<1> QED
  BY <1>1, <1>2, <1>3, PTL DEF Spec, OversamplingIsShared

================================================================================
