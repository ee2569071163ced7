------------------------ MODULE RequestWorkers_proofs ------------------------
(***************************************************************************)
(* Proofs about the worker pool, for any number of workers, lanes and      *)
(* requests.  Type correctness first; then the invariant that ties lanes   *)
(* to the jobs that hold them, which is inductive where LaneExclusive and  *)
(* LaneNotStranded alone are not.                                          *)
(***************************************************************************)
EXTENDS RequestWorkers, SequenceTheorems, FiniteSetTheorems, TLAPS

\* Facts about the sequence operators, in the form the proofs use them.
LEMMA AppendFacts ==
  ASSUME NEW S, NEW s \in Seq(S), NEW e \in S
  PROVE  /\ Append(s, e) \in Seq(S)
         /\ DOMAIN Append(s, e) = DOMAIN s \cup {Len(s) + 1}
         /\ Len(s) + 1 \notin DOMAIN s
         /\ \A i \in DOMAIN s : Append(s, e)[i] = s[i]
         /\ Append(s, e)[Len(s) + 1] = e
  BY AppendProperties, SMT

LEMMA TailFacts ==
  ASSUME NEW S, NEW s \in Seq(S), s # <<>>
  PROVE  /\ Head(s) \in S /\ Head(s) = s[1] /\ 1 \in DOMAIN s
         /\ Tail(s) \in Seq(S)
         /\ \A i \in DOMAIN Tail(s) : i + 1 \in DOMAIN s /\ i + 1 # 1 /\ Tail(s)[i] = s[i + 1]
         /\ \A i \in DOMAIN s : i # 1 => i - 1 \in DOMAIN Tail(s) /\ Tail(s)[i - 1] = s[i]
         /\ \A i, j \in DOMAIN Tail(s) : i + 1 = j + 1 => i = j
  BY HeadTailProperties, SMT

LEMMA ElementFacts ==
  ASSUME NEW S, NEW s \in Seq(S), NEW i \in DOMAIN s
  PROVE  s[i] \in S
  BY ElementOfSeq, LenProperties

LEMMA EmptyFacts ==
  ASSUME NEW S
  PROVE  <<>> \in Seq(S) /\ DOMAIN <<>> = {}
  OBVIOUS

\* A notify changes only which workers are awake.
LEMMA NotifyFacts ==
  ASSUME NEW st \in [Workers -> WorkerState], NotifyOne(st)
  PROVE  /\ worker' \in [Workers -> WorkerState]
         /\ \A w \in Workers : worker'[w] = st[w] \/ (st[w] = "sleeping" /\ worker'[w] = "ready")
  BY DEF NotifyOne, WorkerState

-----------------------------------------------------------------------------
LEMMA TypeInit == Init => TypeOK
  BY EmptyFacts DEF Init, TypeOK, WorkerState

LEMMA TypeStep == TypeOK /\ [Next]_vars => TypeOK'
<1> SUFFICES ASSUME TypeOK, [Next]_vars PROVE TypeOK'
  OBVIOUS
<1> USE DEF TypeOK
<1>1. ASSUME NEW id \in Ids, NEW lane \in Lanes \cup {NoLane}, Submit(id, lane)
      PROVE  TypeOK'
  <2> DEFINE j == [id |-> id, lane |-> lane]
  <2>1. j \in Job
    BY DEF Job
  <2>2. CASE RunsNow(lane)
    <3>1. jobs' = Append(jobs, j) /\ NotifyOne(worker) /\ Claim(lane)
      BY <1>1, <2>2 DEF Submit
    <3>2. jobs' \in Seq(Job)
      BY <2>1, <3>1, AppendFacts
    <3>3. worker' \in [Workers -> WorkerState]
      BY <3>1, NotifyFacts
    <3>4. QED
      BY <1>1, <2>2, <3>1, <3>2, <3>3 DEF Submit, Claim
  <2>3. CASE ~RunsNow(lane)
    <3>1. lane \in Lanes /\ lane_jobs[lane] \in Seq(Job)
      BY <2>3 DEF RunsNow
    <3>2. Append(lane_jobs[lane], j) \in Seq(Job)
      BY <2>1, <3>1, AppendFacts
    <3>3. QED
      BY <1>1, <2>3, <3>1, <3>2 DEF Submit
  <2>4. QED
    BY <2>2, <2>3
<1>2. CASE Stop
  BY <1>2, EmptyFacts DEF Stop, WorkerState
<1>3. CASE Join
  BY <1>3 DEF Join
<1>4. ASSUME NEW w \in Workers, Exit(w) PROVE TypeOK'
  BY <1>4 DEF Exit, WorkerState
<1>5. ASSUME NEW w \in Workers, Sleep(w) PROVE TypeOK'
  BY <1>5 DEF Sleep, WorkerState
<1>6. ASSUME NEW w \in Workers, Take(w) PROVE TypeOK'
  <2>1. Head(jobs) \in Job /\ Tail(jobs) \in Seq(Job)
    BY <1>6, TailFacts DEF Take
  <2>2. QED
    BY <1>6, <2>1 DEF Take, WorkerState
<1>7. ASSUME NEW w \in Workers, JobReturns(w) PROVE TypeOK'
  BY <1>7 DEF JobReturns, WorkerState
<1>8. ASSUME NEW w \in Workers, SpuriousWake(w) PROVE TypeOK'
  BY <1>8 DEF SpuriousWake, WorkerState
<1>9. ASSUME NEW w \in Workers, Finish(w) PROVE TypeOK'
  <2> DEFINE l == job[w].lane
             back == [worker EXCEPT ![w] = "ready"]
  <2>1. back \in [Workers -> WorkerState]
    BY DEF WorkerState
  <2>2. CASE LaneWaiting(l)
    <3>1. l \in Lanes /\ lane_jobs[l] \in Seq(Job) /\ lane_jobs[l] # <<>>
      BY <2>2 DEF LaneWaiting
    <3>2. Head(lane_jobs[l]) \in Job /\ Tail(lane_jobs[l]) \in Seq(Job)
      BY <3>1, TailFacts
    <3>3. PassLane(l) /\ NotifyOne(back) /\ UNCHANGED active_lanes
      BY <1>9, <2>2 DEF Finish
    <3>4. jobs' \in Seq(Job)
      BY <3>2, <3>3, AppendFacts DEF PassLane
    <3>5. worker' \in [Workers -> WorkerState]
      BY <2>1, <3>3, NotifyFacts
    <3>6. QED
      BY <1>9, <3>1, <3>2, <3>3, <3>4, <3>5 DEF Finish, PassLane
  <2>3. CASE ~LaneWaiting(l)
    BY <1>9, <2>1, <2>3 DEF Finish
  <2>4. QED
    BY <2>2, <2>3
<1>10. CASE UNCHANGED vars
  BY <1>10 DEF vars
<1>11. QED
  BY <1>1, <1>2, <1>3, <1>4, <1>5, <1>6, <1>7, <1>8, <1>9, <1>10 DEF Next, Work, Destroyed

\* Type correctness of the pool: in every reachable state the queues hold
\* jobs, the lane tables hold lanes and each thread is in a known state.
THEOREM TypeCorrect == Spec => []TypeOK
<1>1. Init => TypeOK
  BY TypeInit
<1>2. TypeOK /\ [Next]_vars => TypeOK'
  BY TypeStep
<1>3. QED
  BY <1>1, <1>2, PTL DEF Spec

-----------------------------------------------------------------------------
\* The strengthening of LaneExclusive and LaneNotStranded that every step
\* preserves: whoever is queued or running in a lane has the lane marked
\* active, jobs are parked under their own lane, and stop() empties the queues
\* for good.
LaneInv ==
  /\ LaneExclusive
  /\ LaneNotStranded
  /\ \A i \in DOMAIN jobs : jobs[i].lane # NoLane => jobs[i].lane \in active_lanes
  /\ \A w \in Busy : job[w] \in Job /\ (job[w].lane # NoLane => job[w].lane \in active_lanes)
  /\ \A l \in Lanes : \A i \in DOMAIN lane_jobs[l] : lane_jobs[l][i].lane = l
  /\ stopping => jobs = <<>> /\ \A l \in Lanes : lane_jobs[l] = <<>>
  /\ joined => stopping /\ \A w \in Workers : worker[w] = "exited"

LEMMA LaneInit == Init => LaneInv
  BY EmptyFacts DEF Init, LaneInv, LaneExclusive, LaneNotStranded, Busy

\* A step that moves no job and no lane, and leaves the same workers busy.
LEMMA LaneIdleStep ==
  ASSUME LaneInv, UNCHANGED <<stopping, jobs, lane_jobs, active_lanes, job>>, Busy' = Busy,
         joined' => stopping /\ \A w \in Workers : worker'[w] = "exited"
  PROVE  LaneInv'
  BY DEF LaneInv, LaneExclusive, LaneNotStranded

LEMMA LaneSubmit ==
  ASSUME TypeOK, LaneInv, NEW id \in Ids, NEW lane \in Lanes \cup {NoLane}, Submit(id, lane)
  PROVE  LaneInv'
<1> DEFINE j == [id |-> id, lane |-> lane]
<1>1. j \in Job /\ j.lane = lane
  BY DEF Job
<1>2. ~stopping /\ UNCHANGED <<stopping, job, joined>> /\ ~joined
  BY DEF Submit, Accepts, LaneInv
<1>3. CASE RunsNow(lane)
  <2>1. /\ jobs' = Append(jobs, j) /\ NotifyOne(worker) /\ UNCHANGED lane_jobs
        /\ active_lanes' = active_lanes \cup ({lane} \ {NoLane})
    BY <1>3 DEF Submit, Claim
  <2>2. /\ DOMAIN jobs' = DOMAIN jobs \cup {Len(jobs) + 1}
        /\ Len(jobs) + 1 \notin DOMAIN jobs
        /\ \A i \in DOMAIN jobs : jobs'[i] = jobs[i]
        /\ jobs'[Len(jobs) + 1] = j
    BY <1>1, <2>1, AppendFacts DEF TypeOK
  <2>3. Busy' = Busy
    BY <2>1, NotifyFacts DEF Busy, TypeOK, WorkerState
  <2>4. lane # NoLane => /\ \A i \in DOMAIN jobs : jobs[i].lane # lane
                         /\ \A w \in Busy : job[w].lane # lane
    BY <1>3 DEF RunsNow, LaneInv
  <2>5. LaneExclusive'
    BY <1>1, <1>2, <2>2, <2>3, <2>4 DEF LaneInv, LaneExclusive
  <2>6. LaneNotStranded'
    BY <1>1, <1>2, <2>1, <2>2, <2>3 DEF LaneInv, LaneNotStranded
  <2>7. QED
    BY <1>1, <1>2, <2>1, <2>2, <2>3, <2>5, <2>6 DEF LaneInv
<1>4. CASE ~RunsNow(lane)
  <2>1. lane \in Lanes /\ lane \in active_lanes /\ lane_jobs[lane] \in Seq(Job)
    BY <1>4 DEF RunsNow, TypeOK
  <2>2. /\ lane_jobs' = [lane_jobs EXCEPT ![lane] = Append(@, j)]
        /\ UNCHANGED <<active_lanes, jobs, worker>>
    BY <1>4 DEF Submit
  <2>3. Busy' = Busy
    BY <2>2 DEF Busy
  <2>4. \A l \in Lanes : \A i \in DOMAIN lane_jobs'[l] : lane_jobs'[l][i].lane = l
    <3>1. \A i \in DOMAIN Append(lane_jobs[lane], j) : Append(lane_jobs[lane], j)[i].lane = lane
      BY <1>1, <2>1, AppendFacts DEF LaneInv
    <3>2. QED
      BY <2>1, <2>2, <3>1 DEF LaneInv, TypeOK
  <2>5. \A l \in Lanes : lane_jobs'[l] # <<>> => l \in active_lanes
    BY <1>2, <2>1, <2>2 DEF LaneInv, LaneNotStranded, TypeOK
  <2>6. QED
    BY <1>2, <2>2, <2>3, <2>4, <2>5 DEF LaneInv, LaneExclusive, LaneNotStranded
<1>5. QED
  BY <1>3, <1>4

LEMMA LaneTake ==
  ASSUME TypeOK, LaneInv, NEW w \in Workers, Take(w)
  PROVE  LaneInv'
<1>1. /\ job' = [job EXCEPT ![w] = jobs[1]] /\ jobs' = Tail(jobs) /\ jobs[1] \in Job
      /\ w \notin Busy /\ Busy' = Busy \cup {w} /\ ~stopping /\ ~joined
      /\ UNCHANGED <<stopping, lane_jobs, active_lanes, joined>>
  BY TailFacts DEF Take, Busy, TypeOK, LaneInv
<1>2. /\ 1 \in DOMAIN jobs
      /\ \A i \in DOMAIN jobs' : i + 1 \in DOMAIN jobs /\ i + 1 # 1 /\ jobs'[i] = jobs[i + 1]
      /\ \A i \in DOMAIN jobs : i # 1 => i - 1 \in DOMAIN jobs' /\ jobs'[i - 1] = jobs[i]
      /\ \A i, k \in DOMAIN jobs' : i + 1 = k + 1 => i = k
  BY <1>1, TailFacts DEF Take, TypeOK
<1>3. job'[w] = jobs[1] /\ \A v \in Busy : v # w /\ job'[v] = job[v]
  BY <1>1 DEF TypeOK, Busy
<1>4. LaneExclusive'
  BY <1>1, <1>2, <1>3 DEF LaneInv, LaneExclusive
<1>5. LaneNotStranded'
  <2> SUFFICES ASSUME NEW l \in Lanes, l \in active_lanes
               PROVE  \/ \E i \in DOMAIN jobs' : jobs'[i].lane = l
                      \/ \E v \in Busy' : job'[v].lane = l
    BY <1>1 DEF LaneInv, LaneNotStranded
  <2>1. CASE \E i \in DOMAIN jobs : jobs[i].lane = l
    <3>1. PICK i \in DOMAIN jobs : jobs[i].lane = l
      BY <2>1
    <3>2. CASE i = 1
      BY <1>1, <1>3, <3>1, <3>2
    <3>3. CASE i # 1
      <4>1. i - 1 \in DOMAIN jobs' /\ jobs'[i - 1].lane = l
        BY <1>2, <3>1, <3>3
      <4>2. QED
        BY <4>1
    <3>4. QED
      BY <3>2, <3>3
  <2>2. CASE \E v \in Busy : job[v].lane = l
    BY <1>1, <1>3, <2>2
  <2>3. QED
    BY <1>1, <2>1, <2>2 DEF LaneInv, LaneNotStranded
<1>6. QED
  BY <1>1, <1>2, <1>3, <1>4, <1>5 DEF LaneInv

LEMMA LaneFinish ==
  ASSUME TypeOK, LaneInv, NEW w \in Workers, Finish(w)
  PROVE  LaneInv'
<1> DEFINE l == job[w].lane
           back == [worker EXCEPT ![w] = "ready"]
<1>1. /\ w \in Busy /\ ~joined /\ UNCHANGED <<stopping, joined>>
      /\ job[w] \in Job /\ l \in Lanes \cup {NoLane} /\ job' = [job EXCEPT ![w] = NoJob]
  BY DEF Finish, Busy, LaneInv, Job
<1>2. back \in [Workers -> WorkerState]
  BY DEF TypeOK, WorkerState
<1>3. \A v \in Busy \ {w} : job'[v] = job[v]
  BY <1>1 DEF TypeOK, Busy
<1>4. CASE LaneWaiting(l)
  <2>1. /\ l \in Lanes /\ l # NoLane /\ lane_jobs[l] \in Seq(Job) /\ lane_jobs[l] # <<>>
        /\ l \in active_lanes /\ ~stopping
    BY <1>1, <1>4, LanesAssumption DEF LaneWaiting, LaneInv, TypeOK
  <2>2. /\ jobs' = Append(jobs, Head(lane_jobs[l]))
        /\ lane_jobs' = [lane_jobs EXCEPT ![l] = Tail(@)]
        /\ NotifyOne(back) /\ UNCHANGED active_lanes
    BY <1>4 DEF Finish, PassLane
  <2>3. Head(lane_jobs[l]) \in Job /\ Head(lane_jobs[l]).lane = l
    BY <2>1, TailFacts DEF LaneInv
  <2>4. /\ DOMAIN jobs' = DOMAIN jobs \cup {Len(jobs) + 1}
        /\ Len(jobs) + 1 \notin DOMAIN jobs
        /\ \A i \in DOMAIN jobs : jobs'[i] = jobs[i]
        /\ jobs'[Len(jobs) + 1].lane = l
    BY <2>2, <2>3, AppendFacts DEF TypeOK
  <2>5. Busy' = Busy \ {w}
    BY <1>2, <2>2, NotifyFacts DEF Busy, TypeOK, WorkerState
  <2>6. /\ \A i \in DOMAIN jobs : jobs[i].lane # l
        /\ \A v \in Busy \ {w} : job[v].lane # l
    BY <1>1, <2>1 DEF LaneInv, LaneExclusive
  <2>7. LaneExclusive'
    BY <1>3, <2>4, <2>5, <2>6 DEF LaneInv, LaneExclusive
  <2>8. \A m \in Lanes : \A i \in DOMAIN lane_jobs'[m] : lane_jobs'[m][i].lane = m
    <3>1. \A i \in DOMAIN Tail(lane_jobs[l]) : Tail(lane_jobs[l])[i].lane = l
      BY <2>1, TailFacts DEF LaneInv
    <3>2. QED
      BY <2>1, <2>2, <3>1 DEF LaneInv, TypeOK
  <2>9. \A m \in Lanes : lane_jobs'[m] # <<>> => m \in active_lanes
    BY <2>1, <2>2 DEF LaneInv, LaneNotStranded, TypeOK
  <2>10. ASSUME NEW m \in Lanes, m \in active_lanes
         PROVE  \/ \E i \in DOMAIN jobs' : jobs'[i].lane = m
                \/ \E v \in Busy' : job'[v].lane = m
    <3>1. CASE m = l
      BY <2>4, <3>1
    <3>2. CASE m # l
      BY <1>3, <2>1, <2>4, <2>5, <2>10, <3>2 DEF LaneInv, LaneNotStranded
    <3>3. QED
      BY <3>1, <3>2
  <2>11. LaneNotStranded'
    BY <1>1, <2>2, <2>9, <2>10 DEF LaneNotStranded
  <2>12. QED
    BY <1>1, <1>3, <2>1, <2>2, <2>4, <2>5, <2>7, <2>8, <2>11 DEF LaneInv
<1>5. CASE ~LaneWaiting(l)
  <2>1. /\ active_lanes' = active_lanes \ {l} /\ worker' = back /\ UNCHANGED <<jobs, lane_jobs>>
    BY <1>5 DEF Finish
  <2>2. Busy' = Busy \ {w}
    BY <2>1 DEF Busy, TypeOK
  <2>3. l # NoLane => /\ \A i \in DOMAIN jobs : jobs[i].lane # l
                      /\ \A v \in Busy \ {w} : job[v].lane # l
    BY <1>1 DEF LaneInv, LaneExclusive
  <2>4. LaneExclusive'
    BY <1>3, <2>1, <2>2 DEF LaneInv, LaneExclusive
  <2>5. LaneNotStranded'
    BY <1>1, <1>3, <1>5, <2>1, <2>2 DEF LaneInv, LaneNotStranded, LaneWaiting
  <2>6. QED
    BY <1>1, <1>3, <2>1, <2>2, <2>3, <2>4, <2>5 DEF LaneInv
<1>6. QED
  BY <1>4, <1>5

LEMMA LaneStep == TypeOK /\ LaneInv /\ [Next]_vars => LaneInv'
<1> SUFFICES ASSUME TypeOK, LaneInv, [Next]_vars PROVE LaneInv'
  OBVIOUS
<1>1. ASSUME NEW id \in Ids, NEW lane \in Lanes \cup {NoLane}, Submit(id, lane)
      PROVE  LaneInv'
  BY <1>1, LaneSubmit
<1>2. CASE Stop
  <2>1. Busy' = Busy /\ ~joined
    BY <1>2 DEF Stop, Busy, TypeOK, LaneInv
  <2>2. QED
    BY <1>2, <2>1, EmptyFacts DEF Stop, LaneInv, LaneExclusive, LaneNotStranded
<1>3. CASE Join
  BY <1>3 DEF Join, Busy, LaneInv, LaneExclusive, LaneNotStranded
<1>4. ASSUME NEW w \in Workers, Exit(w) \/ Sleep(w) \/ JobReturns(w) \/ SpuriousWake(w)
      PROVE  LaneInv'
  <2>1. UNCHANGED <<stopping, jobs, lane_jobs, active_lanes, job, joined>> /\ ~joined
    BY <1>4 DEF Exit, Sleep, JobReturns, SpuriousWake, LaneInv
  <2>2. Busy' = Busy
    BY <1>4 DEF Exit, Sleep, JobReturns, SpuriousWake, Busy, TypeOK
  <2>3. QED
    BY <2>1, <2>2, LaneIdleStep
<1>5. ASSUME NEW w \in Workers, Take(w) PROVE LaneInv'
  BY <1>5, LaneTake
<1>6. ASSUME NEW w \in Workers, Finish(w) PROVE LaneInv'
  BY <1>6, LaneFinish
<1>7. CASE UNCHANGED vars
  BY <1>7 DEF vars, Busy, LaneInv, LaneExclusive, LaneNotStranded
<1>8. QED
  BY <1>1, <1>2, <1>3, <1>4, <1>5, <1>6, <1>7 DEF Next, Work, Destroyed

LEMMA LaneInvariant == Spec => [](TypeOK /\ LaneInv)
<1>1. Init => TypeOK /\ LaneInv
  BY TypeInit, LaneInit
<1>2. TypeOK /\ LaneInv /\ [Next]_vars => (TypeOK /\ LaneInv)'
  BY TypeStep, LaneStep
<1>3. QED
  BY <1>1, <1>2, PTL DEF Spec

\* Jobs of one lane are never queued or running at the same time.
THEOREM LanesAreExclusive == Spec => []LaneExclusive
<1>1. TypeOK /\ LaneInv => LaneExclusive
  BY DEF LaneInv
<1>2. QED
  BY <1>1, LaneInvariant, PTL

\* A job parked behind a lane always has a job ahead of it that will pass the
\* lane on.
THEOREM LanesAreNotStranded == Spec => []LaneNotStranded
<1>1. TypeOK /\ LaneInv => LaneNotStranded
  BY DEF LaneInv
<1>2. QED
  BY <1>1, LaneInvariant, PTL

\* When stop() has returned the pool is empty, idle and closed, so the objects
\* its jobs captured may be destroyed.
THEOREM StopQuiesces == Spec => []QuietAfterStop
<1>1. TypeOK /\ LaneInv => QuietAfterStop
  BY DEF LaneInv, QuietAfterStop, Busy, Accepts
<1>2. QED
  BY <1>1, LaneInvariant, PTL
-----------------------------------------------------------------------------
\* Some job that the pool still owes a run, or that runs, has this id.
Owed(id) ==
  \/ \E i \in DOMAIN jobs : jobs[i].id = id
  \/ \E w \in Busy : job[w].id = id
  \/ \E l \in Lanes : \E i \in DOMAIN lane_jobs[l] : lane_jobs[l][i].id = id

\* No two jobs that are queued, parked or held by a worker share an id.
IdsDistinct ==
  /\ \A i, k \in DOMAIN jobs : jobs[i].id = jobs[k].id => i = k
  /\ \A v, w \in Busy : job[v].id = job[w].id => v = w
  /\ \A i \in DOMAIN jobs, w \in Busy : jobs[i].id # job[w].id
  /\ \A l, m \in Lanes : \A i \in DOMAIN lane_jobs[l], k \in DOMAIN lane_jobs[m] :
        lane_jobs[l][i].id = lane_jobs[m][k].id => l = m /\ i = k
  /\ \A l \in Lanes : \A k \in DOMAIN lane_jobs[l] :
        /\ \A i \in DOMAIN jobs : jobs[i].id # lane_jobs[l][k].id
        /\ \A w \in Busy : job[w].id # lane_jobs[l][k].id

\* The strengthening of IdsAccounted that every step preserves.  Without
\* IdsDistinct the id a finishing worker takes out of active_ids could still
\* belong to another job.
IdInv ==
  /\ IsFiniteSet(active_ids) /\ Cardinality(active_ids) <= kMaxJobs
  /\ ~stopping => \A id \in Ids : id \in active_ids <=> Owed(id)
  /\ \A w \in Busy : job[w].id \in active_ids
  /\ IdsDistinct

LEMMA IdInit == Init => IdInv
<1> SUFFICES ASSUME Init PROVE IdInv
  OBVIOUS
<1>1. Busy = {} /\ DOMAIN jobs = {} /\ \A l \in Lanes : DOMAIN lane_jobs[l] = {}
  BY EmptyFacts DEF Init, Busy
<1>2. IsFiniteSet(active_ids) /\ Cardinality(active_ids) <= kMaxJobs
  BY FS_EmptySet, MaxJobsAssumption DEF Init
<1>3. QED
  BY <1>1, <1>2 DEF Init, IdInv, IdsDistinct, Owed

\* A step that moves no job, and leaves the same workers busy.
LEMMA IdIdleStep ==
  ASSUME IdInv, UNCHANGED <<stopping, jobs, lane_jobs, active_ids, job>>, Busy' = Busy
  PROVE  IdInv'
  BY DEF IdInv, IdsDistinct, Owed

LEMMA IdSubmit ==
  ASSUME TypeOK, IdInv, NEW id \in Ids, NEW lane \in Lanes \cup {NoLane}, Submit(id, lane)
  PROVE  IdInv'
<1> DEFINE j == [id |-> id, lane |-> lane]
<1>1. j \in Job /\ j.id = id
  BY DEF Job
<1>2. /\ ~stopping /\ UNCHANGED <<stopping, job>> /\ active_ids' = active_ids \cup {id}
      /\ id \notin active_ids /\ Cardinality(active_ids) < kMaxJobs /\ ~Owed(id)
  BY DEF Submit, Accepts, IdInv
<1>3. IsFiniteSet(active_ids') /\ Cardinality(active_ids') <= kMaxJobs
  <2>1. IsFiniteSet(active_ids) /\ Cardinality(active_ids) \in Nat
    BY FS_CardinalityType DEF IdInv
  <2>2. IsFiniteSet(active_ids') /\ Cardinality(active_ids') = Cardinality(active_ids) + 1
    BY <1>2, <2>1, FS_AddElement
  <2>3. QED
    BY <1>2, <2>1, <2>2, MaxJobsAssumption
<1>4. CASE RunsNow(lane)
  <2>1. jobs' = Append(jobs, j) /\ NotifyOne(worker) /\ UNCHANGED lane_jobs
    BY <1>4 DEF Submit
  <2>2. /\ DOMAIN jobs' = DOMAIN jobs \cup {Len(jobs) + 1}
        /\ Len(jobs) + 1 \notin DOMAIN jobs
        /\ \A i \in DOMAIN jobs : jobs'[i] = jobs[i]
        /\ jobs'[Len(jobs) + 1].id = id
    BY <1>1, <2>1, AppendFacts DEF TypeOK
  <2>3. Busy' = Busy
    BY <2>1, NotifyFacts DEF Busy, TypeOK, WorkerState
  <2>4. IdsDistinct'
    BY <1>2, <2>1, <2>2, <2>3 DEF IdInv, IdsDistinct, Owed
  <2>5. \A x \in Ids : Owed(x)' <=> Owed(x) \/ x = id
    BY <1>2, <2>1, <2>2, <2>3 DEF Owed
  <2>6. QED
    BY <1>2, <1>3, <2>3, <2>4, <2>5 DEF IdInv
<1>5. CASE ~RunsNow(lane)
  <2>1. lane \in Lanes /\ lane_jobs[lane] \in Seq(Job)
    BY <1>5 DEF RunsNow, TypeOK
  <2>2. lane_jobs' = [lane_jobs EXCEPT ![lane] = Append(@, j)] /\ UNCHANGED <<jobs, worker>>
    BY <1>5 DEF Submit
  <2>3. Busy' = Busy
    BY <2>2 DEF Busy
  <2> DEFINE n == Len(lane_jobs[lane]) + 1
  <2>4. /\ \A l \in Lanes \ {lane} : lane_jobs'[l] = lane_jobs[l]
        /\ DOMAIN lane_jobs'[lane] = DOMAIN lane_jobs[lane] \cup {n}
        /\ n \notin DOMAIN lane_jobs[lane]
        /\ \A i \in DOMAIN lane_jobs[lane] : lane_jobs'[lane][i] = lane_jobs[lane][i]
        /\ lane_jobs'[lane][n].id = id
    <3>1. lane_jobs'[lane] = Append(lane_jobs[lane], j)
      BY <2>1, <2>2 DEF TypeOK
    <3>2. \A l \in Lanes \ {lane} : lane_jobs'[l] = lane_jobs[l]
      BY <2>2 DEF TypeOK
    <3>3. QED
      BY <1>1, <2>1, <3>1, <3>2, AppendFacts
  <2> HIDE DEF n
  <2>5. IdsDistinct'
    BY <1>2, <2>1, <2>2, <2>3, <2>4 DEF IdInv, IdsDistinct, Owed
  <2>6. \A x \in Ids : Owed(x)' <=> Owed(x) \/ x = id
    BY <1>2, <2>1, <2>2, <2>3, <2>4 DEF Owed
  <2>7. QED
    BY <1>2, <1>3, <2>3, <2>5, <2>6 DEF IdInv
<1>6. QED
  BY <1>4, <1>5

LEMMA IdTake ==
  ASSUME TypeOK, IdInv, NEW w \in Workers, Take(w)
  PROVE  IdInv'
<1>1. /\ job' = [job EXCEPT ![w] = jobs[1]] /\ jobs' = Tail(jobs) /\ jobs[1] \in Job
      /\ w \notin Busy /\ Busy' = Busy \cup {w} /\ ~stopping
      /\ UNCHANGED <<stopping, lane_jobs, active_ids>>
  BY TailFacts DEF Take, Busy, TypeOK
<1>2. /\ 1 \in DOMAIN jobs
      /\ \A i \in DOMAIN jobs' : i + 1 \in DOMAIN jobs /\ i + 1 # 1 /\ jobs'[i] = jobs[i + 1]
      /\ \A i \in DOMAIN jobs : i # 1 => i - 1 \in DOMAIN jobs' /\ jobs'[i - 1] = jobs[i]
      /\ \A i, k \in DOMAIN jobs' : i + 1 = k + 1 => i = k
  BY <1>1, TailFacts DEF Take, TypeOK
<1>3. job'[w] = jobs[1] /\ \A v \in Busy : v # w /\ job'[v] = job[v]
  BY <1>1 DEF TypeOK, Busy
<1>4. IdsDistinct'
  BY <1>1, <1>2, <1>3 DEF IdInv, IdsDistinct
<1>5. \A x \in Ids : Owed(x)' <=> Owed(x)
  <2> SUFFICES ASSUME NEW x \in Ids
               PROVE  (\E i \in DOMAIN jobs' : jobs'[i].id = x) \/ (\E v \in Busy' : job'[v].id = x)
                  <=> (\E i \in DOMAIN jobs : jobs[i].id = x) \/ (\E v \in Busy : job[v].id = x)
    BY <1>1 DEF Owed
  <2>1. ASSUME NEW i \in DOMAIN jobs, jobs[i].id = x
        PROVE  (\E k \in DOMAIN jobs' : jobs'[k].id = x) \/ (\E v \in Busy' : job'[v].id = x)
    <3>1. CASE i = 1
      BY <1>1, <1>3, <2>1, <3>1
    <3>2. CASE i # 1
      BY <1>2, <2>1, <3>2
    <3>3. QED
      BY <3>1, <3>2
  <2>2. QED
    BY <1>1, <1>2, <1>3, <2>1
<1>6. \A v \in Busy' : job'[v].id \in active_ids
  <2>1. jobs[1].id \in Ids /\ Owed(jobs[1].id)
    BY <1>1, <1>2 DEF Owed, Job
  <2>2. QED
    BY <1>1, <1>3, <2>1 DEF IdInv
<1>7. QED
  BY <1>1, <1>4, <1>5, <1>6 DEF IdInv

LEMMA IdFinish ==
  ASSUME TypeOK, LaneInv, IdInv, NEW w \in Workers, Finish(w)
  PROVE  IdInv'
<1> DEFINE l == job[w].lane
           id == job[w].id
           back == [worker EXCEPT ![w] = "ready"]
<1>1. /\ w \in Busy /\ UNCHANGED stopping /\ job[w] \in Job /\ id \in Ids
      /\ job' = [job EXCEPT ![w] = NoJob] /\ active_ids' = active_ids \ {id}
  BY DEF Finish, Busy, LaneInv, Job
<1>2. back \in [Workers -> WorkerState]
  BY DEF TypeOK, WorkerState
<1>3. \A v \in Busy \ {w} : job'[v] = job[v]
  BY <1>1 DEF TypeOK, Busy
<1>4. IsFiniteSet(active_ids') /\ Cardinality(active_ids') <= kMaxJobs
  <2>1. IsFiniteSet(active_ids) /\ Cardinality(active_ids) \in Nat
    BY FS_CardinalityType DEF IdInv
  <2>2. /\ IsFiniteSet(active_ids')
        /\ Cardinality(active_ids') \in {Cardinality(active_ids) - 1, Cardinality(active_ids)}
    BY <1>1, <2>1, FS_RemoveElement
  <2>3. QED
    BY <2>1, <2>2, MaxJobsAssumption DEF IdInv
<1>5. Busy' = Busy \ {w}
  <2>1. CASE LaneWaiting(l)
    <3>1. NotifyOne(back)
      BY <2>1 DEF Finish
    <3>2. QED
      BY <1>2, <3>1, NotifyFacts DEF Busy, TypeOK, WorkerState
  <2>2. CASE ~LaneWaiting(l)
    BY <2>2 DEF Finish, Busy, TypeOK
  <2>3. QED
    BY <2>1, <2>2
<1>6. \A v \in Busy' : job'[v].id \in active_ids'
  BY <1>1, <1>3, <1>5 DEF IdInv, IdsDistinct
<1>7. CASE LaneWaiting(l)
  <2>1. l \in Lanes /\ lane_jobs[l] \in Seq(Job) /\ lane_jobs[l] # <<>>
    BY <1>7 DEF LaneWaiting, TypeOK
  <2>2. /\ jobs' = Append(jobs, lane_jobs[l][1])
        /\ lane_jobs' = [lane_jobs EXCEPT ![l] = Tail(@)]
    BY <1>7, <2>1, TailFacts DEF Finish, PassLane
  <2> DEFINE n == Len(jobs) + 1
             s == lane_jobs[l]
             t == lane_jobs'[l]
  <2>3. /\ DOMAIN jobs' = DOMAIN jobs \cup {n} /\ n \notin DOMAIN jobs
        /\ \A i \in DOMAIN jobs : jobs'[i] = jobs[i]
        /\ jobs'[n] = s[1]
    BY <2>1, <2>2, TailFacts, AppendFacts DEF TypeOK
  <2>4. /\ \A m \in Lanes \ {l} : lane_jobs'[m] = lane_jobs[m]
        /\ t = Tail(s)
    BY <2>1, <2>2 DEF TypeOK
  <2>5. /\ 1 \in DOMAIN s
        /\ \A i \in DOMAIN t : i + 1 \in DOMAIN s /\ i + 1 # 1 /\ t[i] = s[i + 1]
        /\ \A i \in DOMAIN s : i # 1 => i - 1 \in DOMAIN t /\ t[i - 1] = s[i]
        /\ \A i, k \in DOMAIN t : i + 1 = k + 1 => i = k
    BY <2>1, <2>4, TailFacts
  <2> DEFINE was(m, k) == IF m = l THEN k + 1 ELSE k
  <2>6. \A m \in Lanes : \A k \in DOMAIN lane_jobs'[m] :
          /\ was(m, k) \in DOMAIN lane_jobs[m] /\ lane_jobs'[m][k] = lane_jobs[m][was(m, k)]
          /\ m = l => was(m, k) # 1
          /\ \A i \in DOMAIN lane_jobs'[m] : was(m, i) = was(m, k) => i = k
    BY <2>1, <2>4, <2>5
  <2>7. ASSUME NEW m \in Lanes, NEW i \in DOMAIN lane_jobs[m], m # l \/ i # 1
        PROVE  \E k \in DOMAIN lane_jobs'[m] : lane_jobs'[m][k] = lane_jobs[m][i]
    <3>1. CASE m = l
      BY <2>5, <2>7, <3>1
    <3>2. CASE m # l
      BY <2>4, <2>7, <3>2
    <3>3. QED
      BY <3>1, <3>2
  <2>8. l \in Lanes /\ 1 \in DOMAIN lane_jobs[l] /\ jobs'[n].id = lane_jobs[l][1].id
    BY <2>1, <2>3, <2>5
  <2> HIDE DEF n, was, l, s, t, id
  <2>9. IdsDistinct'
    <3>1. \A i, k \in DOMAIN jobs' : jobs'[i].id = jobs'[k].id => i = k
      BY <2>3, <2>8 DEF IdInv, IdsDistinct
    <3>2. \A i \in DOMAIN jobs', v \in Busy' : jobs'[i].id # job'[v].id
      BY <1>3, <1>5, <2>3, <2>8 DEF IdInv, IdsDistinct
    <3>3. \A m, o \in Lanes : \A i \in DOMAIN lane_jobs'[m], k \in DOMAIN lane_jobs'[o] :
            lane_jobs'[m][i].id = lane_jobs'[o][k].id => m = o /\ i = k
      BY <2>6 DEF IdInv, IdsDistinct
    <3>4. \A m \in Lanes : \A k \in DOMAIN lane_jobs'[m] :
            /\ \A i \in DOMAIN jobs' : jobs'[i].id # lane_jobs'[m][k].id
            /\ \A v \in Busy' : job'[v].id # lane_jobs'[m][k].id
      BY <1>3, <1>5, <2>3, <2>6, <2>8 DEF IdInv, IdsDistinct
    <3>5. \A u, v \in Busy' : job'[u].id = job'[v].id => u = v
      BY <1>3, <1>5 DEF IdInv, IdsDistinct
    <3>6. QED
      BY <3>1, <3>2, <3>3, <3>4, <3>5 DEF IdsDistinct
  <2>10. ASSUME NEW x \in Ids PROVE Owed(x)' <=> Owed(x) /\ x # id
    <3>1. Owed(x) /\ x # id => Owed(x)'
      <4>1. (\E i \in DOMAIN jobs : jobs[i].id = x) => Owed(x)'
        BY <2>3 DEF Owed
      <4>2. (\E v \in Busy : job[v].id = x) /\ x # id => Owed(x)'
        BY <1>3, <1>5 DEF Owed, id
      <4>3. ASSUME NEW m \in Lanes, NEW i \in DOMAIN lane_jobs[m], lane_jobs[m][i].id = x
            PROVE  Owed(x)'
        <5>1. CASE m = l /\ i = 1
          BY <2>3, <2>8, <4>3, <5>1 DEF Owed
        <5>2. CASE m # l \/ i # 1
          BY <2>7, <4>3, <5>2 DEF Owed
        <5>3. QED
          BY <5>1, <5>2
      <4>4. QED
        BY <4>1, <4>2, <4>3 DEF Owed
    <3>2. Owed(x)' => Owed(x) /\ x # id
      <4>1. ASSUME NEW i \in DOMAIN jobs', jobs'[i].id = x PROVE Owed(x) /\ x # id
        BY <1>1, <2>3, <2>8, <4>1 DEF Owed, IdInv, IdsDistinct, id
      <4>2. ASSUME NEW v \in Busy', job'[v].id = x PROVE Owed(x) /\ x # id
        BY <1>1, <1>3, <1>5, <4>2 DEF Owed, IdInv, IdsDistinct, id
      <4>3. ASSUME NEW m \in Lanes, NEW k \in DOMAIN lane_jobs'[m], lane_jobs'[m][k].id = x
            PROVE  Owed(x) /\ x # id
        BY <1>1, <2>6, <4>3 DEF Owed, IdInv, IdsDistinct, id
      <4>4. QED
        BY <4>1, <4>2, <4>3 DEF Owed
    <3>3. QED
      BY <3>1, <3>2
  <2>11. QED
    BY <1>1, <1>4, <1>6, <2>9, <2>10 DEF IdInv
<1>8. CASE ~LaneWaiting(l)
  <2>1. UNCHANGED <<jobs, lane_jobs>>
    BY <1>8 DEF Finish
  <2>2. IdsDistinct'
    BY <1>3, <1>5, <2>1 DEF IdInv, IdsDistinct
  <2>3. \A x \in Ids : Owed(x)' <=> Owed(x) /\ x # id
    BY <1>1, <1>3, <1>5, <2>1 DEF Owed, IdInv, IdsDistinct
  <2>4. QED
    BY <1>1, <1>4, <1>6, <2>2, <2>3 DEF IdInv
<1>9. QED
  BY <1>7, <1>8

LEMMA IdStep == TypeOK /\ LaneInv /\ IdInv /\ [Next]_vars => IdInv'
<1> SUFFICES ASSUME TypeOK, LaneInv, IdInv, [Next]_vars PROVE IdInv'
  OBVIOUS
<1>1. ASSUME NEW id \in Ids, NEW lane \in Lanes \cup {NoLane}, Submit(id, lane)
      PROVE  IdInv'
  BY <1>1, IdSubmit
<1>2. CASE Stop
  <2>1. Busy' = Busy
    BY <1>2 DEF Stop, Busy, TypeOK
  <2>2. DOMAIN jobs' = {} /\ \A l \in Lanes : DOMAIN lane_jobs'[l] = {}
    BY <1>2, EmptyFacts DEF Stop
  <2>3. QED
    BY <1>2, <2>1, <2>2 DEF Stop, IdInv, IdsDistinct
<1>3. CASE Join
  <2>1. Busy' = Busy /\ UNCHANGED <<stopping, jobs, lane_jobs, active_ids, job>>
    BY <1>3 DEF Join, Busy
  <2>2. QED
    BY <2>1, IdIdleStep
<1>4. ASSUME NEW w \in Workers, Exit(w) \/ Sleep(w) \/ JobReturns(w) \/ SpuriousWake(w)
      PROVE  IdInv'
  <2>1. UNCHANGED <<stopping, jobs, lane_jobs, active_ids, job>>
    BY <1>4 DEF Exit, Sleep, JobReturns, SpuriousWake
  <2>2. Busy' = Busy
    BY <1>4 DEF Exit, Sleep, JobReturns, SpuriousWake, Busy, TypeOK
  <2>3. QED
    BY <2>1, <2>2, IdIdleStep
<1>5. ASSUME NEW w \in Workers, Take(w) PROVE IdInv'
  BY <1>5, IdTake
<1>6. ASSUME NEW w \in Workers, Finish(w) PROVE IdInv'
  BY <1>6, IdFinish
<1>7. CASE UNCHANGED vars
  <2>1. Busy' = Busy /\ UNCHANGED <<stopping, jobs, lane_jobs, active_ids, job>>
    BY <1>7 DEF vars, Busy
  <2>2. QED
    BY <2>1, IdIdleStep
<1>8. QED
  BY <1>1, <1>2, <1>3, <1>4, <1>5, <1>6, <1>7 DEF Next, Work, Destroyed

-----------------------------------------------------------------------------
\* The workers are finitely many, so the awake ones can be counted.
LEMMA ReadyFinite == IsFiniteSet(Ready) /\ Cardinality(Ready) \in Nat
<1>1. Ready \in SUBSET Workers
  BY DEF Ready
<1>2. IsFiniteSet(Ready)
  BY <1>1, FS_Subset, WorkersAssumption
<1>3. QED
  BY <1>2, FS_CardinalityType

\* One notify pays for one pushed job: either nobody sleeps any more, or one
\* more worker is awake than the states st had.
LEMMA NotifyPays ==
  ASSUME NEW st \in [Workers -> WorkerState], NotifyOne(st), Asleep' # {}
  PROVE  LET R == {w \in Workers : st[w] = "ready"}
         IN  /\ IsFiniteSet(R) /\ Cardinality(R) \in Nat
             /\ Cardinality(Ready') = Cardinality(R) + 1
             /\ \E w \in Workers : st[w] = "sleeping"
<1> DEFINE R == {w \in Workers : st[w] = "ready"}
<1>1. IsFiniteSet(R) /\ Cardinality(R) \in Nat
  <2>1. R \in SUBSET Workers
    OBVIOUS
  <2>2. QED
    BY <2>1, FS_Subset, FS_CardinalityType, WorkersAssumption
<1>2. \E w \in Workers : st[w] = "sleeping"
  BY DEF NotifyOne, Asleep
<1>3. PICK w \in Workers : st[w] = "sleeping" /\ worker' = [st EXCEPT ![w] = "ready"]
  BY <1>2 DEF NotifyOne
<1>4. Ready' = R \cup {w} /\ w \notin R
  BY <1>3 DEF Ready
<1>5. Cardinality(Ready') = Cardinality(R) + 1
  BY <1>1, <1>4, FS_AddElement
<1>6. QED
  BY <1>1, <1>2, <1>5

\* A push keeps NoLostWakeup when it notifies from states st in which the
\* jobs were covered by awake workers, or in which nobody slept.
LEMMA PushCovered ==
  ASSUME TypeOK, NEW st \in [Workers -> WorkerState], NotifyOne(st), NEW e \in Job,
         jobs' = Append(jobs, e),
         (\E w \in Workers : st[w] = "sleeping")
            => Len(jobs) <= Cardinality({w \in Workers : st[w] = "ready"})
  PROVE  NoLostWakeup'
<1>1. Len(jobs) \in Nat /\ Len(jobs') = Len(jobs) + 1
  BY AppendProperties, LenProperties DEF TypeOK
<1> SUFFICES ASSUME Asleep' # {} PROVE Len(jobs') <= Cardinality(Ready')
  BY DEF NoLostWakeup
<1>2. Cardinality(Ready') \in Nat /\ Cardinality(Ready') > Len(jobs)
  <2> DEFINE R == {w \in Workers : st[w] = "ready"}
  <2>1. /\ Cardinality(R) \in Nat /\ Cardinality(Ready') = Cardinality(R) + 1
        /\ \E w \in Workers : st[w] = "sleeping"
    BY NotifyPays
  <2>2. Len(jobs) <= Cardinality(R)
    BY <2>1
  <2> HIDE DEF R
  <2>3. QED
    BY <1>1, <2>1, <2>2
<1>3. QED
  BY <1>1, <1>2

LEMMA WakeupStep == TypeOK /\ LaneInv /\ NoLostWakeup /\ [Next]_vars => NoLostWakeup'
<1> SUFFICES ASSUME TypeOK, LaneInv, NoLostWakeup, [Next]_vars PROVE NoLostWakeup'
  OBVIOUS
<1>1. Len(jobs) \in Nat /\ IsFiniteSet(Ready) /\ Cardinality(Ready) \in Nat
  BY ReadyFinite, LenProperties DEF TypeOK
<1>2. ASSUME NEW id \in Ids, NEW lane \in Lanes \cup {NoLane}, Submit(id, lane)
      PROVE  NoLostWakeup'
  <2>1. CASE RunsNow(lane)
    <3>1. jobs' = Append(jobs, [id |-> id, lane |-> lane]) /\ NotifyOne(worker) /\ ~stopping
      BY <1>2, <2>1 DEF Submit, Accepts
    <3>2. [id |-> id, lane |-> lane] \in Job /\ worker \in [Workers -> WorkerState]
      BY DEF Job, TypeOK
    <3>3. (\E w \in Workers : worker[w] = "sleeping")
            => Len(jobs) <= Cardinality({w \in Workers : worker[w] = "ready"})
      BY <3>1 DEF NoLostWakeup, Asleep, Ready
    <3>4. QED
      BY <3>1, <3>2, <3>3, PushCovered
  <2>2. CASE ~RunsNow(lane)
    BY <1>2, <2>2 DEF Submit, NoLostWakeup, Asleep, Ready
  <2>3. QED
    BY <2>1, <2>2
<1>3. CASE Stop
  BY <1>3 DEF Stop, NoLostWakeup
<1>4. CASE Join
  BY <1>4 DEF Join, NoLostWakeup
<1>5. ASSUME NEW w \in Workers, Exit(w) PROVE NoLostWakeup'
  BY <1>5 DEF Exit, NoLostWakeup
<1>6. ASSUME NEW w \in Workers, Sleep(w) PROVE NoLostWakeup'
  <2>1. Ready' = Ready \ {w}
    BY <1>6 DEF Sleep, Ready, TypeOK
  <2>2. Cardinality(Ready') \in Nat
    BY <1>1, <2>1, FS_RemoveElement, FS_CardinalityType
  <2>3. Len(jobs') = 0
    BY <1>6 DEF Sleep
  <2>4. QED
    BY <2>2, <2>3 DEF NoLostWakeup
<1>7. ASSUME NEW w \in Workers, Take(w) PROVE NoLostWakeup'
  <2>1. Ready' = Ready \ {w} /\ w \in Ready /\ Asleep' = Asleep /\ ~stopping
    BY <1>7 DEF Take, Ready, Asleep, TypeOK
  <2>2. Cardinality(Ready') = Cardinality(Ready) - 1
    BY <1>1, <2>1, FS_RemoveElement
  <2>3. Len(jobs') = Len(jobs) - 1
    BY <1>7, HeadTailProperties DEF Take, TypeOK
  <2>4. QED
    BY <1>1, <2>1, <2>2, <2>3 DEF NoLostWakeup
<1>8. ASSUME NEW w \in Workers, JobReturns(w) PROVE NoLostWakeup'
  <2>1. Ready' = Ready /\ Asleep' = Asleep
    BY <1>8 DEF JobReturns, Ready, Asleep, TypeOK
  <2>2. QED
    BY <1>8, <2>1 DEF JobReturns, NoLostWakeup
<1>9. ASSUME NEW w \in Workers, SpuriousWake(w) PROVE NoLostWakeup'
  <2>1. Ready' = Ready \cup {w} /\ w \notin Ready /\ Asleep # {}
    BY <1>9 DEF SpuriousWake, Ready, Asleep, TypeOK
  <2>2. Cardinality(Ready') = Cardinality(Ready) + 1
    BY <1>1, <2>1, FS_AddElement
  <2>3. QED
    BY <1>1, <1>9, <2>1, <2>2 DEF SpuriousWake, NoLostWakeup
<1>10. ASSUME NEW w \in Workers, Finish(w) PROVE NoLostWakeup'
  <2> DEFINE l == job[w].lane
             back == [worker EXCEPT ![w] = "ready"]
             R == {v \in Workers : back[v] = "ready"}
  <2>1. back \in [Workers -> WorkerState] /\ w \notin Ready /\ w \notin Asleep
    BY <1>10 DEF Finish, TypeOK, WorkerState, Ready, Asleep
  <2>2. R = Ready \cup {w} /\ {v \in Workers : back[v] = "sleeping"} = Asleep
    BY <1>10, <2>1 DEF Ready, Asleep, TypeOK
  <2>3. Cardinality(R) = Cardinality(Ready) + 1
    BY <1>1, <2>1, <2>2, FS_AddElement
  <2>4. CASE LaneWaiting(l)
    <3>1. l \in Lanes /\ lane_jobs[l] \in Seq(Job) /\ lane_jobs[l] # <<>> /\ ~stopping
      BY <2>4 DEF LaneWaiting, TypeOK, LaneInv
    <3>2. jobs' = Append(jobs, Head(lane_jobs[l])) /\ NotifyOne(back)
      BY <1>10, <2>4 DEF Finish, PassLane
    <3>3. Head(lane_jobs[l]) \in Job
      BY <3>1, TailFacts
    <3>4. (\E v \in Workers : back[v] = "sleeping") => Len(jobs) <= Cardinality(R)
      BY <1>1, <2>2, <2>3, <3>1 DEF NoLostWakeup
    <3>5. QED
      BY <2>1, <3>2, <3>3, <3>4, PushCovered
  <2>5. CASE ~LaneWaiting(l)
    <3>1. Ready' = R /\ Asleep' = Asleep /\ UNCHANGED <<stopping, jobs>>
      BY <1>10, <2>2, <2>5 DEF Finish, Ready, Asleep
    <3>2. QED
      BY <1>1, <2>3, <3>1 DEF NoLostWakeup
  <2>6. QED
    BY <2>4, <2>5
<1>11. CASE UNCHANGED vars
  BY <1>11 DEF vars, NoLostWakeup, Asleep, Ready
<1>12. QED
  BY <1>2, <1>3, <1>4, <1>5, <1>6, <1>7, <1>8, <1>9, <1>10, <1>11 DEF Next, Work, Destroyed

LEMMA PoolInvariant == Spec => [](TypeOK /\ LaneInv /\ IdInv /\ NoLostWakeup)
<1>1. Init => TypeOK /\ LaneInv /\ IdInv /\ NoLostWakeup
  BY TypeInit, LaneInit, IdInit DEF Init, NoLostWakeup, Asleep
<1>2. TypeOK /\ LaneInv /\ IdInv /\ NoLostWakeup /\ [Next]_vars
        => (TypeOK /\ LaneInv /\ IdInv /\ NoLostWakeup)'
  BY TypeStep, LaneStep, IdStep, WakeupStep
<1>3. QED
  BY <1>1, <1>2, PTL DEF Spec

\* active_ids_ holds exactly the ids of the jobs that are queued, parked or
\* running and never more than kMaxJobs of them, and no queued job waits
\* beside a worker that sleeps unnotified.
THEOREM NothingIsForgotten == Spec => []NothingForgotten
<1>1. TypeOK /\ LaneInv /\ IdInv /\ NoLostWakeup => NothingForgotten
  <2> SUFFICES ASSUME TypeOK, LaneInv, IdInv PROVE IdsAccounted
    BY DEF NothingForgotten
  <2>1. HeldIds \subseteq active_ids /\ Cardinality(active_ids) <= kMaxJobs
    BY DEF HeldIds, IdInv
  <2>2. ASSUME ~stopping
        PROVE  active_ids = QueuedIds \cup HeldIds \cup UNION {ParkedIds(l) : l \in Lanes}
    <3> DEFINE Unfinished == QueuedIds \cup HeldIds \cup UNION {ParkedIds(l) : l \in Lanes}
    <3>1. \A id : Owed(id) <=> id \in Unfinished
      BY DEF Owed, QueuedIds, HeldIds, ParkedIds
    <3>2. \A id : Owed(id) => id \in Ids
      <4>1. \A i \in DOMAIN jobs : jobs[i] \in Job
        BY ElementFacts DEF TypeOK
      <4>2. ASSUME NEW l \in Lanes PROVE \A i \in DOMAIN lane_jobs[l] : lane_jobs[l][i] \in Job
        <5>1. lane_jobs[l] \in Seq(Job)
          BY DEF TypeOK
        <5>2. QED
          BY <5>1, ElementFacts
      <4>3. \A w \in Busy : job[w] \in Job
        BY DEF LaneInv
      <4>4. QED
        BY <4>1, <4>2, <4>3 DEF Owed, Job
    <3>3. QED
      BY <2>2, <3>1, <3>2 DEF IdInv, TypeOK
  <2>3. QED
    BY <2>1, <2>2 DEF IdsAccounted
<1>2. QED
  BY <1>1, PoolInvariant, PTL
-----------------------------------------------------------------------------
\* Facts about a sequence with one element put before it.
LEMMA ConsFacts ==
  ASSUME NEW S, NEW x \in S, NEW s \in Seq(S)
  PROVE  /\ <<x>> \o s \in Seq(S) /\ <<x>> \o s # <<>>
         /\ Head(<<x>> \o s) = x /\ Tail(<<x>> \o s) = s
         /\ \A i \in DOMAIN (<<x>> \o s) :
              (<<x>> \o s)[i] = x \/ \E k \in DOMAIN s : (<<x>> \o s)[i] = s[k]
<1> DEFINE q == <<x>> \o s
<1>1. /\ <<x>> \in Seq(S) /\ Len(<<x>>) = 1 /\ <<x>>[1] = x
      /\ Len(s) \in Nat /\ DOMAIN s = 1..Len(s)
  BY LenProperties
<1>2. /\ q \in Seq(S) /\ Len(q) = 1 + Len(s) /\ DOMAIN q = 1..Len(q)
      /\ \A i \in 1..Len(q) : q[i] = IF i <= 1 THEN <<x>>[i] ELSE s[i - 1]
  <2>1. q \in Seq(S) /\ Len(q) = 1 + Len(s)
    BY <1>1, ConcatProperties
  <2>2. QED
    BY <1>1, <2>1, ConcatProperties, LenProperties
<1> HIDE DEF q
<1>3. q # <<>>
  BY <1>1, <1>2
<1>4. Head(q) = x
  BY <1>1, <1>2, <1>3
<1>5. Tail(q) = s
  <2>1. Tail(q) \in Seq(S) /\ Len(Tail(q)) = Len(s) /\ \A i \in 1..Len(s) : Tail(q)[i] = q[i + 1]
    BY <1>1, <1>2, <1>3, HeadTailProperties
  <2>2. \A i \in 1..Len(s) : Tail(q)[i] = s[i]
    BY <1>1, <1>2, <2>1
  <2>3. QED
    BY <1>1, <2>1, <2>2, SeqEqual
<1>6. \A i \in DOMAIN q : q[i] = x \/ \E k \in DOMAIN s : q[i] = s[k]
  <2> TAKE i \in DOMAIN q
  <2>1. CASE i = 1
    BY <1>1, <1>2, <2>1
  <2>2. CASE i # 1
    <3>1. i - 1 \in DOMAIN s /\ q[i] = s[i - 1]
      BY <1>1, <1>2, <2>2
    <3>2. QED
      BY <3>1
  <2>3. QED
    BY <2>1, <2>2
<1>7. QED
  BY <1>2, <1>3, <1>4, <1>5, <1>6 DEF q

\* Appending behind a first element, and splitting a sequence at its first.
LEMMA ConsAppend ==
  ASSUME NEW S, NEW x \in S, NEW e \in S, NEW s \in Seq(S)
  PROVE  Append(<<x>> \o s, e) = <<x>> \o Append(s, e)
<1>1. <<x>> \in Seq(S) /\ <<e>> \in Seq(S)
  OBVIOUS
<1>2. Append(s, e) = s \o <<e>>
  BY AppendIsConcat
<1>3. Append(<<x>> \o s, e) = (<<x>> \o s) \o <<e>>
  <2>1. <<x>> \o s \in Seq(S)
    BY ConsFacts
  <2>2. QED
    BY <2>1, AppendIsConcat
<1>4. QED
  BY <1>1, <1>2, <1>3, ConcatAssociative
\* The ids of a sequence of jobs.
IdSeq(s) == [i \in DOMAIN s |-> s[i].id]

LEMMA IdSeqType ==
  ASSUME NEW s \in Seq(Job)
  PROVE  IdSeq(s) \in Seq(Ids) /\ Len(IdSeq(s)) = Len(s) /\ DOMAIN IdSeq(s) = DOMAIN s
<1>1. Len(s) \in Nat /\ DOMAIN s = 1..Len(s)
  BY LenProperties
<1>2. IdSeq(s) \in [1..Len(s) -> Ids]
  <2>1. \A i \in DOMAIN s : s[i] \in Job
    BY ElementFacts
  <2>2. QED
    BY <1>1, <2>1 DEF IdSeq, Job
<1>3. IdSeq(s) \in Seq(Ids)
  BY <1>1, <1>2, IsASeq
<1>4. QED
  BY <1>1, <1>2, <1>3, LenProperties

LEMMA IdSeqEmpty == IdSeq(<<>>) = <<>>
<1>1. <<>> \in Seq(Job)
  OBVIOUS
<1>2. IdSeq(<<>>) \in Seq(Ids) /\ Len(IdSeq(<<>>)) = 0
  BY <1>1, IdSeqType
<1>3. QED
  BY <1>2, EmptySeq

LEMMA IdSeqAppend ==
  ASSUME NEW s \in Seq(Job), NEW e \in Job
  PROVE  IdSeq(Append(s, e)) = Append(IdSeq(s), e.id)
<1>1. Len(s) \in Nat /\ DOMAIN s = 1..Len(s) /\ e.id \in Ids
  BY LenProperties DEF Job
<1>2. /\ IdSeq(s) \in Seq(Ids) /\ Len(IdSeq(s)) = Len(s)
      /\ Append(s, e) \in Seq(Job) /\ Len(Append(s, e)) = Len(s) + 1
  BY IdSeqType, AppendProperties
<1>3. /\ IdSeq(Append(s, e)) \in Seq(Ids) /\ Len(IdSeq(Append(s, e))) = Len(s) + 1
  BY <1>2, IdSeqType
<1>4. Append(IdSeq(s), e.id) \in Seq(Ids) /\ Len(Append(IdSeq(s), e.id)) = Len(s) + 1
  BY <1>1, <1>2, AppendProperties
<1>5. ASSUME NEW i \in 1..Len(s) + 1 PROVE IdSeq(Append(s, e))[i] = Append(IdSeq(s), e.id)[i]
  <2>1. i \in DOMAIN Append(s, e)
    BY <1>2, LenProperties
  <2>2. IdSeq(Append(s, e))[i] = Append(s, e)[i].id
    BY <2>1 DEF IdSeq
  <2>3. CASE i \in 1..Len(s)
    <3>1. Append(s, e)[i] = s[i] /\ Append(IdSeq(s), e.id)[i] = IdSeq(s)[i]
      BY <1>1, <1>2, <2>3, AppendProperties
    <3>2. IdSeq(s)[i] = s[i].id
      BY <1>1, <2>3 DEF IdSeq
    <3>3. QED
      BY <2>2, <3>1, <3>2
  <2>4. CASE i = Len(s) + 1
    <3>1. Append(s, e)[i] = e /\ Append(IdSeq(s), e.id)[i] = e.id
      BY <1>1, <1>2, <2>4, AppendProperties
    <3>2. QED
      BY <2>2, <3>1
  <2>5. i \in 1..Len(s) \/ i = Len(s) + 1
    BY <1>1
  <2>6. QED
    BY <2>3, <2>4, <2>5
<1>6. QED
  BY <1>3, <1>4, <1>5, SeqEqual

LEMMA IdSeqSplit ==
  ASSUME NEW s \in Seq(Job), s # <<>>
  PROVE  IdSeq(s) = <<Head(s).id>> \o IdSeq(Tail(s))
<1> DEFINE x == Head(s).id
           t == IdSeq(Tail(s))
<1>1. /\ Len(s) \in Nat /\ DOMAIN s = 1..Len(s) /\ Head(s) \in Job /\ Head(s) = s[1] /\ 1 \in DOMAIN s
      /\ Tail(s) \in Seq(Job) /\ Len(Tail(s)) = Len(s) - 1
      /\ \A i \in 1..(Len(s) - 1) : Tail(s)[i] = s[i + 1]
  BY TailFacts, HeadTailProperties, LenProperties
<1>2. x \in Ids /\ <<x>> \in Seq(Ids) /\ Len(<<x>>) = 1 /\ <<x>>[1] = x
  BY <1>1 DEF Job
<1>3. t \in Seq(Ids) /\ Len(t) = Len(s) - 1
  <2>1. ASSUME NEW u \in Seq(Job) PROVE IdSeq(u) \in Seq(Ids) /\ Len(IdSeq(u)) = Len(u)
    BY IdSeqType
  <2>2. Tail(s) \in Seq(Job) /\ Len(Tail(s)) = Len(s) - 1
    BY <1>1
  <2>3. QED
    BY <2>1, <2>2, Zenon
<1>4. IdSeq(s) \in Seq(Ids) /\ Len(IdSeq(s)) = Len(s)
  BY IdSeqType
<1>5. \A i \in 1..(Len(s) - 1) : t[i] = s[i + 1].id
  <2>1. DOMAIN Tail(s) = 1..(Len(s) - 1)
    BY <1>1, LenProperties
  <2>2. QED
    BY <1>1, <2>1 DEF IdSeq
<1> HIDE DEF x, t
<1>6. /\ <<x>> \o t \in Seq(Ids) /\ Len(<<x>> \o t) = Len(s)
      /\ \A i \in 1..Len(s) : (<<x>> \o t)[i] = IF i <= 1 THEN <<x>>[i] ELSE t[i - 1]
  <2>1. /\ <<x>> \o t \in Seq(Ids) /\ Len(<<x>> \o t) = Len(<<x>>) + Len(t)
        /\ \A i \in 1..(Len(<<x>>) + Len(t)) :
             (<<x>> \o t)[i] = IF i <= Len(<<x>>) THEN <<x>>[i] ELSE t[i - Len(<<x>>)]
    BY <1>2, <1>3, ConcatProperties
  <2>2. Len(<<x>>) + Len(t) = Len(s)
    BY <1>1, <1>2, <1>3
  <2>3. QED
    BY <1>2, <2>1, <2>2
<1>7. ASSUME NEW i \in 1..Len(s) PROVE IdSeq(s)[i] = (<<x>> \o t)[i]
  <2>1. IdSeq(s)[i] = s[i].id
    BY <1>1 DEF IdSeq
  <2>2. CASE i = 1
    BY <1>1, <1>2, <1>6, <2>1, <2>2 DEF x
  <2>3. CASE i # 1
    BY <1>1, <1>5, <1>6, <2>1, <2>3
  <2>4. QED
    BY <2>2, <2>3
<1>8. IdSeq(s) = <<x>> \o t
  BY <1>4, <1>6, <1>7, SeqEqual
<1>9. QED
  BY <1>8 DEF x, t
-----------------------------------------------------------------------------
\* The refinement mapping, piece by piece.  A lane has at most one holder, so
\* the CHOOSE in LaneQueue has at most one id to choose from.
AbstractQueue == [l \in Lanes |-> LaneQueue(l)]
AbstractLoose == {jobs[i].id : i \in {i \in DOMAIN jobs : jobs[i].lane = NoLane}}

LEMMA TheOnlyOne == \A x : (CHOOSE id \in {x} : TRUE) = x
  OBVIOUS

LEMMA QueueHeld ==
  ASSUME NEW l, NEW x, LaneHolderIds(l) = {x}
  PROVE  LaneQueue(l) = <<x>> \o LaneIds(l)
  BY TheOnlyOne DEF LaneQueue

LEMMA QueueHeldAfter ==
  ASSUME NEW l, NEW x, LaneHolderIds(l)' = {x}
  PROVE  LaneQueue(l)' = <<x>> \o LaneIds(l)'
  BY TheOnlyOne DEF LaneQueue

LEMMA HeldByQueued ==
  ASSUME LaneInv, NEW l \in Lanes, NEW i \in DOMAIN jobs, jobs[i].lane = l
  PROVE  LaneHolderIds(l) = {jobs[i].id}
<1>1. l # NoLane
  BY LanesAssumption
<1>2. {k \in DOMAIN jobs : jobs[k].lane = l} = {i}
  BY <1>1 DEF LaneInv, LaneExclusive
<1>3. {w \in Busy : job[w].lane = l} = {}
  BY <1>1 DEF LaneInv, LaneExclusive
<1>4. QED
  BY <1>2, <1>3 DEF LaneHolderIds

LEMMA HeldByWorker ==
  ASSUME LaneInv, NEW l \in Lanes, NEW w \in Busy, job[w].lane = l
  PROVE  LaneHolderIds(l) = {job[w].id}
<1>1. l # NoLane
  BY LanesAssumption
<1>2. {k \in DOMAIN jobs : jobs[k].lane = l} = {}
  BY <1>1 DEF LaneInv, LaneExclusive
<1>3. {v \in Busy : job[v].lane = l} = {w}
  BY <1>1 DEF LaneInv, LaneExclusive
<1>4. QED
  BY <1>2, <1>3 DEF LaneHolderIds

\* The two shapes of a lane's queue.
LEMMA QueueShape ==
  ASSUME TypeOK, LaneInv, NEW l \in Lanes
  PROVE  /\ LaneIds(l) = IdSeq(lane_jobs[l]) /\ LaneIds(l) \in Seq(Ids)
         /\ \/ LaneHolderIds(l) = {} /\ LaneQueue(l) = LaneIds(l)
            \/ \E x \in Ids : LaneHolderIds(l) = {x} /\ LaneQueue(l) = <<x>> \o LaneIds(l)
<1>1. lane_jobs[l] \in Seq(Job)
  BY DEF TypeOK
<1>2. LaneIds(l) = IdSeq(lane_jobs[l])
  BY DEF LaneIds, IdSeq
<1>3. LaneIds(l) \in Seq(Ids)
  BY <1>1, <1>2, IdSeqType
<1>4. ASSUME NEW i \in DOMAIN jobs, jobs[i].lane = l
      PROVE  \E x \in Ids : LaneHolderIds(l) = {x}
  <2>1. jobs[i] \in Job
    BY ElementFacts DEF TypeOK
  <2>2. QED
    BY <1>4, <2>1, HeldByQueued DEF Job
<1>5. ASSUME NEW w \in Busy, job[w].lane = l
      PROVE  \E x \in Ids : LaneHolderIds(l) = {x}
  <2>1. job[w].id \in Ids
    BY DEF LaneInv, Job
  <2>2. QED
    BY <1>5, <2>1, HeldByWorker
<1>6. CASE LaneHolderIds(l) = {}
  BY <1>2, <1>3, <1>6 DEF LaneQueue
<1>7. CASE LaneHolderIds(l) # {}
  <2>1. PICK x \in Ids : LaneHolderIds(l) = {x}
    BY <1>4, <1>5, <1>7 DEF LaneHolderIds
  <2>2. LaneQueue(l) = <<x>> \o LaneIds(l)
    BY <2>1, QueueHeld
  <2>3. QED
    BY <1>2, <1>3, <2>1, <2>2
<1>8. QED
  BY <1>6, <1>7

LEMMA QueueIdsOwed ==
  ASSUME TypeOK, LaneInv, NEW l \in Lanes, NEW i \in DOMAIN LaneQueue(l)
  PROVE  Owed(LaneQueue(l)[i])
<1>1. ASSUME NEW k \in DOMAIN LaneIds(l) PROVE Owed(LaneIds(l)[k])
  BY DEF LaneIds, Owed
<1>2. \A x \in LaneHolderIds(l) : Owed(x)
  BY DEF LaneHolderIds, Owed
<1>3. CASE LaneQueue(l) = LaneIds(l)
  BY <1>1, <1>3
<1>4. ASSUME NEW x \in Ids, LaneHolderIds(l) = {x}, LaneQueue(l) = <<x>> \o LaneIds(l)
      PROVE  Owed(LaneQueue(l)[i])
  <2>1. LaneIds(l) \in Seq(Ids)
    BY QueueShape
  <2>2. \A k \in DOMAIN (<<x>> \o LaneIds(l)) :
          \/ (<<x>> \o LaneIds(l))[k] = x
          \/ \E o \in DOMAIN LaneIds(l) : (<<x>> \o LaneIds(l))[k] = LaneIds(l)[o]
    BY <2>1, ConsFacts
  <2>3. LaneQueue(l)[i] = x \/ \E o \in DOMAIN LaneIds(l) : LaneQueue(l)[i] = LaneIds(l)[o]
    BY <1>4, <2>2
  <2>4. QED
    BY <1>1, <1>2, <1>4, <2>3
<1>5. QED
  BY <1>3, <1>4, QueueShape
LEMMA RefineSubmit ==
  ASSUME TypeOK, LaneInv, IdInv, NEW id \in Ids, NEW lane \in Lanes \cup {NoLane},
         Submit(id, lane)
  PROVE  Promise!Accept(id, lane)
<1> DEFINE j == [id |-> id, lane |-> lane]
<1>1. j \in Job /\ j.id = id /\ j.lane = lane
  BY DEF Job
<1>2. /\ ~stopping /\ UNCHANGED <<stopping, job>> /\ ~Owed(id)
  BY DEF Submit, Accepts, IdInv
<1>3. id \notin Promise!Unfinished
  <2>1. \A l \in Lanes : \A i \in DOMAIN LaneQueue(l) : LaneQueue(l)[i] # id
    BY <1>2, QueueIdsOwed
  <2>2. id \notin HeldIds /\ id \notin AbstractLoose
    BY <1>2 DEF HeldIds, AbstractLoose, Owed
  <2>3. QED
    BY <2>1, <2>2 DEF Promise!Unfinished, AbstractLoose
<1>4. Busy' = Busy
  <2>1. CASE RunsNow(lane)
    <3>1. NotifyOne(worker)
      BY <2>1 DEF Submit
    <3>2. QED
      BY <3>1, NotifyFacts DEF Busy, TypeOK, WorkerState
  <2>2. CASE ~RunsNow(lane)
    BY <2>2 DEF Submit, Busy
  <2>3. QED
    BY <2>1, <2>2
<1>5. HeldIds' = HeldIds
  BY <1>2, <1>4 DEF HeldIds
<1>6. CASE RunsNow(lane)
  <2>1. jobs' = Append(jobs, j) /\ UNCHANGED lane_jobs
    BY <1>6 DEF Submit
  <2> DEFINE n == Len(jobs) + 1
  <2>2. /\ DOMAIN jobs' = DOMAIN jobs \cup {n} /\ n \notin DOMAIN jobs
        /\ \A i \in DOMAIN jobs : jobs'[i] = jobs[i]
        /\ jobs'[n] = j
    BY <1>1, <2>1, AppendFacts DEF TypeOK
  <2> HIDE DEF n, j
  <2>3. \A l \in Lanes : LaneIds(l)' = LaneIds(l)
    BY <2>1 DEF LaneIds
  <2>4. ASSUME NEW l \in Lanes, l # lane PROVE LaneQueue(l)' = LaneQueue(l)
    <3>1. LaneHolderIds(l)' = LaneHolderIds(l)
      BY <1>1, <1>2, <1>4, <2>2, <2>4 DEF LaneHolderIds
    <3>2. QED
      BY <2>3, <3>1 DEF LaneQueue
  <2>5. CASE lane = NoLane
    <3>1. AbstractLoose' = AbstractLoose \cup {id}
      BY <1>1, <2>2, <2>5 DEF AbstractLoose
    <3>2. AbstractQueue' = AbstractQueue
      BY <2>4, <2>5, LanesAssumption DEF AbstractQueue
    <3>3. QED
      BY <1>2, <1>3, <1>5, <2>5, <3>1, <3>2 DEF Promise!Accept, AbstractLoose, AbstractQueue
  <2>6. CASE lane # NoLane
    <3>1. lane \in Lanes /\ lane \notin active_lanes
      BY <1>6, <2>6 DEF RunsNow
    <3>2. /\ \A i \in DOMAIN jobs : jobs[i].lane # lane
          /\ \A w \in Busy : job[w].lane # lane
          /\ lane_jobs[lane] = <<>>
      BY <1>2, <2>6, <3>1 DEF LaneInv, LaneNotStranded
    <3>3. LaneHolderIds(lane) = {} /\ LaneHolderIds(lane)' = {id}
      BY <1>1, <1>2, <1>4, <2>2, <3>2 DEF LaneHolderIds
    <3>4. LaneIds(lane) = <<>>
      <4>1. LaneIds(lane) = IdSeq(lane_jobs[lane])
        BY <3>1, QueueShape
      <4>2. QED
        BY <3>2, <4>1, IdSeqEmpty
    <3>5. LaneQueue(lane) = <<>>
      BY <3>3, <3>4 DEF LaneQueue
    <3>6. LaneQueue(lane)' = <<id>> \o <<>>
      BY <2>3, <3>1, <3>3, <3>4, QueueHeldAfter
    <3>7. LaneQueue(lane)' = Append(LaneQueue(lane), id)
      <4>1. <<id>> \o <<>> = <<id>> /\ Append(<<>>, id) = <<id>>
        OBVIOUS
      <4>2. QED
        BY <3>5, <3>6, <4>1
    <3>8. AbstractQueue' = [AbstractQueue EXCEPT ![lane] = Append(@, id)]
      BY <2>4, <3>1, <3>7 DEF AbstractQueue
    <3>9. AbstractLoose' = AbstractLoose
      BY <1>1, <2>2, <2>6 DEF AbstractLoose
    <3>10. QED
      BY <1>2, <1>3, <1>5, <2>6, <3>8, <3>9 DEF Promise!Accept, AbstractLoose, AbstractQueue
  <2>7. QED
    BY <2>5, <2>6
<1>7. CASE ~RunsNow(lane)
  <2>1. lane \in Lanes /\ lane # NoLane /\ lane \in active_lanes /\ lane_jobs[lane] \in Seq(Job)
    BY <1>7 DEF RunsNow, TypeOK
  <2>2. lane_jobs' = [lane_jobs EXCEPT ![lane] = Append(@, j)] /\ UNCHANGED jobs
    BY <1>7 DEF Submit
  <2>3. \A l \in Lanes : LaneHolderIds(l)' = LaneHolderIds(l)
    BY <1>2, <1>4, <2>2 DEF LaneHolderIds
  <2>4. \A l \in Lanes \ {lane} : LaneQueue(l)' = LaneQueue(l)
    <3>1. \A l \in Lanes \ {lane} : lane_jobs'[l] = lane_jobs[l]
      BY <2>2 DEF TypeOK
    <3>2. \A l \in Lanes \ {lane} : LaneIds(l)' = LaneIds(l)
      BY <3>1 DEF LaneIds
    <3>3. ASSUME NEW l \in Lanes \ {lane} PROVE LaneQueue(l)' = LaneQueue(l)
      <4>1. LaneHolderIds(l)' = LaneHolderIds(l) /\ LaneIds(l)' = LaneIds(l)
        BY <2>3, <3>2
      <4>2. QED
        BY <4>1 DEF LaneQueue
    <3>4. QED
      BY <3>3
  <2>5. LaneIds(lane)' = Append(LaneIds(lane), id)
    <3>1. lane_jobs'[lane] = Append(lane_jobs[lane], j)
      BY <2>1, <2>2 DEF TypeOK
    <3>2. LaneIds(lane)' = IdSeq(lane_jobs'[lane]) /\ LaneIds(lane) = IdSeq(lane_jobs[lane])
      BY DEF LaneIds, IdSeq
    <3>3. IdSeq(Append(lane_jobs[lane], j)) = Append(IdSeq(lane_jobs[lane]), id)
      BY <1>1, <2>1, IdSeqAppend
    <3>4. QED
      BY <3>1, <3>2, <3>3
  <2>6. PICK x \in Ids : LaneHolderIds(lane) = {x} /\ LaneQueue(lane) = <<x>> \o LaneIds(lane)
    <3>1. LaneHolderIds(lane) # {}
      <4>1. CASE \E i \in DOMAIN jobs : jobs[i].lane = lane
        BY <4>1 DEF LaneHolderIds
      <4>2. CASE \E w \in Busy : job[w].lane = lane
        BY <4>2 DEF LaneHolderIds
      <4>3. QED
        BY <1>2, <2>1, <4>1, <4>2 DEF LaneInv, LaneNotStranded
    <3>2. QED
      BY <2>1, <3>1, QueueShape
  <2>7. LaneQueue(lane)' = Append(LaneQueue(lane), id)
    <3>1. LaneQueue(lane)' = <<x>> \o Append(LaneIds(lane), id)
      BY <2>1, <2>3, <2>5, <2>6, QueueHeldAfter
    <3>2. LaneIds(lane) \in Seq(Ids)
      BY <2>1, QueueShape
    <3>3. Append(<<x>> \o LaneIds(lane), id) = <<x>> \o Append(LaneIds(lane), id)
      BY <3>2, ConsAppend
    <3>4. QED
      BY <2>6, <3>1, <3>3
  <2>8. AbstractQueue' = [AbstractQueue EXCEPT ![lane] = Append(@, id)]
    BY <2>1, <2>4, <2>7 DEF AbstractQueue
  <2>9. AbstractLoose' = AbstractLoose
    BY <2>2 DEF AbstractLoose
  <2>10. QED
    BY <1>2, <1>3, <1>5, <2>1, <2>8, <2>9 DEF Promise!Accept, AbstractLoose, AbstractQueue
<1>8. QED
  BY <1>6, <1>7
LEMMA RefineTake ==
  ASSUME TypeOK, LaneInv, IdInv, NEW w \in Workers, Take(w),
         NEW id \in Ids, NEW lane \in Lanes \cup {NoLane}, jobs[1].id = id, jobs[1].lane = lane
  PROVE  IF lane = NoLane THEN Promise!StartLoose(id) ELSE Promise!StartInLane(lane)
<1>1. /\ job' = [job EXCEPT ![w] = jobs[1]] /\ jobs' = Tail(jobs) /\ jobs[1] \in Job
      /\ w \notin Busy /\ Busy' = Busy \cup {w} /\ ~stopping
      /\ UNCHANGED <<stopping, lane_jobs>>
  BY TailFacts DEF Take, Busy, TypeOK
<1>2. /\ 1 \in DOMAIN jobs
      /\ \A i \in DOMAIN jobs' : i + 1 \in DOMAIN jobs /\ i + 1 # 1 /\ jobs'[i] = jobs[i + 1]
      /\ \A i \in DOMAIN jobs : i # 1 => i - 1 \in DOMAIN jobs' /\ jobs'[i - 1] = jobs[i]
  BY <1>1, TailFacts DEF Take, TypeOK
<1>3. job'[w] = jobs[1] /\ \A v \in Busy : v # w /\ job'[v] = job[v]
  BY <1>1 DEF TypeOK, Busy
<1>4. HeldIds' = HeldIds \cup {id} /\ id \notin HeldIds
  BY <1>1, <1>2, <1>3 DEF HeldIds, IdInv, IdsDistinct
\* The job changes hands, from the run queue to the worker, inside its lane.
<1>5. ASSUME NEW l \in Lanes PROVE LaneHolderIds(l)' = LaneHolderIds(l)
  <2>1. ASSUME NEW x \in LaneHolderIds(l)' PROVE x \in LaneHolderIds(l)
    <3>1. CASE \E i \in DOMAIN jobs' : jobs'[i].lane = l /\ jobs'[i].id = x
      BY <1>2, <3>1 DEF LaneHolderIds
    <3>2. CASE \E v \in Busy' : job'[v].lane = l /\ job'[v].id = x
      BY <1>1, <1>2, <1>3, <3>2 DEF LaneHolderIds
    <3>3. QED
      BY <2>1, <3>1, <3>2 DEF LaneHolderIds
  <2>2. ASSUME NEW x \in LaneHolderIds(l) PROVE x \in LaneHolderIds(l)'
    <3>1. ASSUME NEW i \in DOMAIN jobs, jobs[i].lane = l, jobs[i].id = x
          PROVE  x \in LaneHolderIds(l)'
      <4>1. CASE i = 1
        BY <1>1, <1>3, <3>1, <4>1 DEF LaneHolderIds
      <4>2. CASE i # 1
        <5>1. i - 1 \in DOMAIN jobs' /\ jobs'[i - 1].lane = l /\ jobs'[i - 1].id = x
          BY <1>2, <3>1, <4>2
        <5>2. QED
          BY <5>1 DEF LaneHolderIds
      <4>3. QED
        BY <4>1, <4>2
    <3>2. CASE \E v \in Busy : job[v].lane = l /\ job[v].id = x
      BY <1>1, <1>3, <3>2 DEF LaneHolderIds
    <3>3. QED
      BY <2>2, <3>1, <3>2 DEF LaneHolderIds
  <2>3. QED
    BY <2>1, <2>2
<1>6. AbstractQueue' = AbstractQueue
  <2>1. ASSUME NEW l \in Lanes PROVE LaneQueue(l)' = LaneQueue(l)
    <3>1. LaneIds(l)' = LaneIds(l)
      BY <1>1 DEF LaneIds
    <3>2. LaneHolderIds(l)' = LaneHolderIds(l)
      BY <1>5
    <3>3. QED
      BY <3>1, <3>2 DEF LaneQueue
  <2>2. QED
    BY <2>1 DEF AbstractQueue
<1>7. CASE lane = NoLane
  <2>1. AbstractLoose' = AbstractLoose \ {id}
    <3>1. ASSUME NEW x \in AbstractLoose' PROVE x \in AbstractLoose \ {id}
      BY <1>2, <3>1 DEF AbstractLoose, IdInv, IdsDistinct
    <3>2. ASSUME NEW x \in AbstractLoose, x # id PROVE x \in AbstractLoose'
      <4>1. PICK i \in DOMAIN jobs : jobs[i].lane = NoLane /\ jobs[i].id = x
        BY <3>2 DEF AbstractLoose
      <4>2. i - 1 \in DOMAIN jobs' /\ jobs'[i - 1].lane = NoLane /\ jobs'[i - 1].id = x
        BY <1>2, <3>2, <4>1
      <4>3. QED
        BY <4>2 DEF AbstractLoose
    <3>3. QED
      BY <3>1, <3>2
  <2>2. id \in AbstractLoose
    BY <1>2, <1>7 DEF AbstractLoose
  <2>3. QED
    BY <1>1, <1>4, <1>6, <1>7, <2>1, <2>2
    DEF Promise!StartLoose, AbstractLoose, AbstractQueue
<1>8. CASE lane # NoLane
  <2>1. lane \in Lanes
    BY <1>8
  <2>2. AbstractLoose' = AbstractLoose
    <3>1. ASSUME NEW x \in AbstractLoose' PROVE x \in AbstractLoose
      BY <1>2, <3>1 DEF AbstractLoose
    <3>2. ASSUME NEW x \in AbstractLoose PROVE x \in AbstractLoose'
      <4>1. PICK i \in DOMAIN jobs : jobs[i].lane = NoLane /\ jobs[i].id = x
        BY <3>2 DEF AbstractLoose
      <4>2. i - 1 \in DOMAIN jobs' /\ jobs'[i - 1].lane = NoLane /\ jobs'[i - 1].id = x
        BY <1>2, <1>8, <4>1
      <4>3. QED
        BY <4>2 DEF AbstractLoose
    <3>3. QED
      BY <3>1, <3>2
  <2>3. AbstractQueue[lane] # <<>> /\ Head(AbstractQueue[lane]) = id
    <3>1. LaneHolderIds(lane) = {id}
      BY <1>2, <2>1, HeldByQueued
    <3>2. AbstractQueue[lane] = <<id>> \o LaneIds(lane)
      BY <2>1, <3>1, QueueHeld DEF AbstractQueue
    <3>3. LaneIds(lane) \in Seq(Ids)
      BY <2>1, QueueShape
    <3>4. QED
      BY <3>2, <3>3, ConsFacts
  <2>4. QED
    BY <1>1, <1>4, <1>6, <1>8, <2>1, <2>2, <2>3
    DEF Promise!StartInLane, AbstractLoose, AbstractQueue
<1>9. QED
  BY <1>7, <1>8

LEMMA RefineFinish ==
  ASSUME TypeOK, LaneInv, IdInv, NEW w \in Workers, Finish(w),
         NEW id \in Ids, NEW lane \in Lanes \cup {NoLane}, job[w].id = id, job[w].lane = lane
  PROVE  Promise!Finish(id)
<1> DEFINE back == [worker EXCEPT ![w] = "ready"]
           TailIfHead(q) == IF q # <<>> /\ Head(q) = id THEN Tail(q) ELSE q
<1>1. w \in Busy /\ UNCHANGED stopping /\ job' = [job EXCEPT ![w] = NoJob]
  BY DEF Finish, Busy, LaneInv, Job
<1>2. back \in [Workers -> WorkerState]
  BY DEF TypeOK, WorkerState
<1>3. \A v \in Busy \ {w} : job'[v] = job[v]
  BY <1>1 DEF TypeOK, Busy
<1>4. Busy' = Busy \ {w}
  <2>1. CASE LaneWaiting(lane)
    <3>1. NotifyOne(back)
      BY <2>1 DEF Finish
    <3>2. QED
      BY <1>2, <3>1, NotifyFacts DEF Busy, TypeOK, WorkerState
  <2>2. CASE ~LaneWaiting(lane)
    BY <2>2 DEF Finish, Busy, TypeOK
  <2>3. QED
    BY <2>1, <2>2
<1>5. HeldIds' = HeldIds \ {id} /\ id \in HeldIds
  BY <1>1, <1>3, <1>4 DEF HeldIds, IdInv, IdsDistinct
\* A lane that the worker does not hold keeps its queue, and its first id is
\* another one.
<1>6. ASSUME NEW l \in Lanes, l # lane PROVE TailIfHead(LaneQueue(l)) = LaneQueue(l)
  <2>1. id \notin LaneHolderIds(l)
    BY <1>1, <1>6 DEF LaneHolderIds, IdInv, IdsDistinct
  <2>2. \A i \in DOMAIN lane_jobs[l] : LaneIds(l)[i] # id
    BY <1>1 DEF LaneIds, IdInv, IdsDistinct
  <2>3. LaneIds(l) \in Seq(Ids) /\ DOMAIN LaneIds(l) = DOMAIN lane_jobs[l]
    BY QueueShape DEF LaneIds
  <2>4. CASE LaneQueue(l) = LaneIds(l)
    <3>1. LaneIds(l) # <<>> => Head(LaneIds(l)) = LaneIds(l)[1] /\ 1 \in DOMAIN LaneIds(l)
      BY <2>3, TailFacts
    <3>2. QED
      BY <2>2, <2>3, <2>4, <3>1
  <2>5. ASSUME NEW x \in Ids, LaneHolderIds(l) = {x}, LaneQueue(l) = <<x>> \o LaneIds(l)
        PROVE  TailIfHead(LaneQueue(l)) = LaneQueue(l)
    <3>1. Head(LaneQueue(l)) = x
      BY <2>3, <2>5, ConsFacts
    <3>2. QED
      BY <2>1, <2>5, <3>1
  <2>6. QED
    BY <2>4, <2>5, QueueShape
\* The lane that the worker holds loses its first id.
<1>7. ASSUME lane \in Lanes
      PROVE  /\ LaneQueue(lane) = <<id>> \o LaneIds(lane) /\ LaneIds(lane) \in Seq(Ids)
             /\ TailIfHead(LaneQueue(lane)) = LaneIds(lane)
  <2>1. LaneHolderIds(lane) = {id}
    BY <1>1, <1>7, HeldByWorker
  <2>2. LaneQueue(lane) = <<id>> \o LaneIds(lane)
    BY <2>1, QueueHeld
  <2>3. LaneIds(lane) \in Seq(Ids)
    BY <1>7, QueueShape
  <2>4. <<id>> \o LaneIds(lane) # <<>> /\ Head(<<id>> \o LaneIds(lane)) = id
        /\ Tail(<<id>> \o LaneIds(lane)) = LaneIds(lane)
    BY <1>1, <2>3, ConsFacts
  <2>5. QED
    BY <2>2, <2>3, <2>4
<1>8. /\ \A l \in Lanes : LaneQueue(l)' = TailIfHead(LaneQueue(l))
      /\ AbstractLoose' = AbstractLoose
  <2>1. CASE LaneWaiting(lane)
    <3>1. lane \in Lanes /\ lane # NoLane /\ lane_jobs[lane] \in Seq(Job) /\ lane_jobs[lane] # <<>>
      BY <2>1, LanesAssumption DEF LaneWaiting, TypeOK
    <3>2. jobs' = Append(jobs, Head(lane_jobs[lane])) /\ lane_jobs' = [lane_jobs EXCEPT ![lane] = Tail(@)]
      BY <2>1 DEF Finish, PassLane
    <3> DEFINE n == Len(jobs) + 1
               e == Head(lane_jobs[lane])
    <3>3. e \in Job /\ e.lane = lane /\ Tail(lane_jobs[lane]) \in Seq(Job)
      BY <3>1, TailFacts DEF LaneInv
    <3>4. /\ DOMAIN jobs' = DOMAIN jobs \cup {n} /\ n \notin DOMAIN jobs
          /\ \A i \in DOMAIN jobs : jobs'[i] = jobs[i]
          /\ jobs'[n] = e
      BY <3>2, <3>3, AppendFacts DEF TypeOK
    <3>5. /\ \A l \in Lanes \ {lane} : lane_jobs'[l] = lane_jobs[l]
          /\ lane_jobs'[lane] = Tail(lane_jobs[lane])
      BY <3>1, <3>2 DEF TypeOK
    <3> HIDE DEF n, e
    <3>6. /\ \A i \in DOMAIN jobs : jobs[i].lane # lane
          /\ \A v \in Busy \ {w} : job[v].lane # lane
      BY <1>1, <3>1 DEF LaneInv, LaneExclusive
    <3>7. AbstractLoose' = AbstractLoose
      BY <3>1, <3>3, <3>4 DEF AbstractLoose
    <3>8. ASSUME NEW l \in Lanes, l # lane PROVE LaneQueue(l)' = LaneQueue(l)
      <4>1. LaneHolderIds(l)' = LaneHolderIds(l)
        BY <1>3, <1>4, <3>3, <3>4, <3>8 DEF LaneHolderIds
      <4>2. LaneIds(l)' = LaneIds(l)
        BY <3>5, <3>8 DEF LaneIds
      <4>3. QED
        BY <4>1, <4>2 DEF LaneQueue
    <3>9. LaneQueue(lane)' = LaneIds(lane)
      <4>1. LaneHolderIds(lane)' = {e.id}
        BY <1>3, <1>4, <3>3, <3>4, <3>6 DEF LaneHolderIds
      <4>2. LaneQueue(lane)' = <<e.id>> \o LaneIds(lane)'
        BY <4>1, QueueHeldAfter
      <4>3. LaneIds(lane)' = IdSeq(Tail(lane_jobs[lane])) /\ LaneIds(lane) = IdSeq(lane_jobs[lane])
        BY <3>5 DEF LaneIds, IdSeq
      <4>4. IdSeq(lane_jobs[lane]) = <<e.id>> \o IdSeq(Tail(lane_jobs[lane]))
        BY <3>1, IdSeqSplit DEF e
      <4>5. QED
        BY <4>2, <4>3, <4>4
    <3>10. QED
      BY <1>6, <1>7, <3>1, <3>7, <3>8, <3>9
  <2>2. CASE ~LaneWaiting(lane)
    <3>1. UNCHANGED <<jobs, lane_jobs>>
      BY <2>2 DEF Finish
    <3>2. AbstractLoose' = AbstractLoose
      BY <3>1 DEF AbstractLoose
    <3>3. ASSUME NEW l \in Lanes, l # lane PROVE LaneQueue(l)' = LaneQueue(l)
      <4>1. LaneHolderIds(l)' = LaneHolderIds(l)
        BY <1>3, <1>4, <3>1, <3>3 DEF LaneHolderIds
      <4>2. QED
        BY <3>1, <4>1 DEF LaneQueue, LaneIds
    <3>4. ASSUME lane \in Lanes PROVE LaneQueue(lane)' = LaneIds(lane)
      <4>1. LaneHolderIds(lane)' = {}
        <5>1. lane # NoLane
          BY <3>4, LanesAssumption
        <5>2. /\ \A i \in DOMAIN jobs : jobs[i].lane # lane
              /\ \A v \in Busy \ {w} : job[v].lane # lane
          BY <1>1, <5>1 DEF LaneInv, LaneExclusive
        <5>3. QED
          BY <1>3, <1>4, <3>1, <5>2 DEF LaneHolderIds
      <4>2. QED
        BY <3>1, <4>1 DEF LaneQueue, LaneIds
    <3>5. QED
      BY <1>6, <1>7, <3>2, <3>3, <3>4
  <2>3. QED
    BY <2>1, <2>2
<1>9. AbstractQueue' = [l \in Lanes |-> TailIfHead(AbstractQueue[l])]
  BY <1>8 DEF AbstractQueue
<1>10. QED
  BY <1>1, <1>5, <1>8, <1>9 DEF Promise!Finish, AbstractLoose, AbstractQueue
LEMMA RefineStop ==
  ASSUME TypeOK, LaneInv, IdInv, Stop
  PROVE  Promise!Close
<1>1. /\ ~stopping /\ stopping' = TRUE /\ UNCHANGED job
      /\ jobs' = <<>> /\ DOMAIN jobs' = {} /\ lane_jobs' = [l \in Lanes |-> <<>>]
  BY EmptyFacts DEF Stop
<1>2. Busy' = Busy
  BY DEF Stop, Busy, TypeOK
<1>3. HeldIds' = HeldIds
  BY <1>1, <1>2 DEF HeldIds
<1>4. AbstractLoose' = {}
  BY <1>1 DEF AbstractLoose
<1> DEFINE Kept(q) == IF q # <<>> /\ Head(q) \in HeldIds THEN <<Head(q)>> ELSE <<>>
<1>5. ASSUME NEW l \in Lanes PROVE LaneQueue(l)' = Kept(LaneQueue(l))
  <2>1. LaneIds(l)' = <<>>
    <3>1. LaneIds(l)' = IdSeq(lane_jobs'[l]) /\ lane_jobs'[l] = <<>>
      BY <1>1 DEF LaneIds, IdSeq
    <3>2. QED
      BY <3>1, IdSeqEmpty
  <2>2. LaneHolderIds(l)' = {job[w].id : w \in {w \in Busy : job[w].lane = l}}
    BY <1>1, <1>2 DEF LaneHolderIds
  <2>3. LaneIds(l) \in Seq(Ids)
    BY QueueShape
  <2>4. ASSUME NEW w \in Busy, job[w].lane = l PROVE LaneQueue(l)' = Kept(LaneQueue(l))
    <3>1. job[w].id \in Ids /\ job[w].id \in HeldIds
      BY DEF LaneInv, Job, HeldIds
    <3> DEFINE x == job[w].id
    <3>2. LaneHolderIds(l) = {x} /\ LaneQueue(l) = <<x>> \o LaneIds(l)
      BY <2>4, HeldByWorker, QueueHeld
    <3>3. <<x>> \o LaneIds(l) # <<>> /\ Head(<<x>> \o LaneIds(l)) = x
      BY <2>3, <3>1, ConsFacts
    <3>4. Kept(LaneQueue(l)) = <<x>>
      BY <3>1, <3>2, <3>3
    <3>5. LaneHolderIds(l)' = LaneHolderIds(l)
      <4>1. {i \in DOMAIN jobs : jobs[i].lane = l} = {}
        BY <2>4, LanesAssumption DEF LaneInv, LaneExclusive
      <4>2. QED
        BY <2>2, <4>1 DEF LaneHolderIds
    <3> HIDE DEF x
    <3>6. LaneQueue(l)' = <<CHOOSE id \in {x} : TRUE>> \o <<>>
      BY <2>1, <3>2, <3>5 DEF LaneQueue
    <3>7. LaneQueue(l)' = <<x>> \o <<>>
      BY <3>6, TheOnlyOne
    <3>8. <<x>> \o <<>> = <<x>>
      OBVIOUS
    <3>9. QED
      BY <3>4, <3>7, <3>8
  <2>5. ASSUME ~ \E w \in Busy : job[w].lane = l PROVE LaneQueue(l)' = Kept(LaneQueue(l))
    <3>1. LaneQueue(l)' = <<>>
      <4>1. LaneHolderIds(l)' = {}
        BY <2>2, <2>5
      <4>2. QED
        BY <2>1, <4>1 DEF LaneQueue
    <3>2. CASE \E i \in DOMAIN jobs : jobs[i].lane = l
      <4>1. PICK i \in DOMAIN jobs : jobs[i].lane = l
        BY <3>2
      <4> DEFINE x == jobs[i].id
      <4>2. x \in Ids /\ x \notin HeldIds
        <5>1. jobs[i] \in Job
          BY ElementFacts DEF TypeOK
        <5>2. QED
          BY <5>1 DEF Job, HeldIds, IdInv, IdsDistinct
      <4>3. LaneHolderIds(l) = {x} /\ LaneQueue(l) = <<x>> \o LaneIds(l)
        BY <4>1, HeldByQueued, QueueHeld
      <4>4. Head(<<x>> \o LaneIds(l)) = x
        BY <2>3, <4>2, ConsFacts
      <4>5. QED
        BY <3>1, <4>2, <4>3, <4>4
    <3>3. CASE ~ \E i \in DOMAIN jobs : jobs[i].lane = l
      <4>1. LaneHolderIds(l) = {}
        BY <2>5, <3>3 DEF LaneHolderIds
      <4>2. lane_jobs[l] = <<>>
        BY <1>1, <2>5, <3>3 DEF LaneInv, LaneNotStranded
      <4>3. LaneIds(l) = IdSeq(lane_jobs[l])
        BY QueueShape
      <4>4. LaneQueue(l) = <<>>
        BY <4>1, <4>2, <4>3, IdSeqEmpty DEF LaneQueue
      <4>5. QED
        BY <3>1, <4>4
    <3>4. QED
      BY <3>2, <3>3
  <2>6. QED
    BY <2>4, <2>5
<1>6. AbstractQueue' = [l \in Lanes |-> Kept(AbstractQueue[l])]
  BY <1>5 DEF AbstractQueue
<1>7. QED
  BY <1>1, <1>3, <1>4, <1>6 DEF Promise!Close, AbstractQueue, AbstractLoose

LEMMA RefineStep ==
  TypeOK /\ LaneInv /\ IdInv /\ [Next]_vars => [Promise!Next]_(Promise!vars)
<1> SUFFICES ASSUME TypeOK, LaneInv, IdInv, [Next]_vars PROVE [Promise!Next]_(Promise!vars)
  OBVIOUS
<1>1. ASSUME NEW id \in Ids, NEW lane \in Lanes \cup {NoLane}, Submit(id, lane)
      PROVE  Promise!Next
  BY <1>1, RefineSubmit DEF Promise!Next
<1>2. CASE Stop
  BY <1>2, RefineStop DEF Promise!Next
<1>3. ASSUME UNCHANGED <<stopping, jobs, lane_jobs, job>>, Busy' = Busy
      PROVE  UNCHANGED Promise!vars
  <2>1. HeldIds' = HeldIds /\ AbstractLoose' = AbstractLoose
    BY <1>3 DEF HeldIds, AbstractLoose
  <2>2. AbstractQueue' = AbstractQueue
    BY <1>3 DEF AbstractQueue, LaneQueue, LaneHolderIds, LaneIds
  <2>3. QED
    BY <1>3, <2>1, <2>2 DEF Promise!vars, AbstractQueue, AbstractLoose
<1>4. CASE Join
  <2>1. UNCHANGED <<stopping, jobs, lane_jobs, job>> /\ Busy' = Busy
    BY <1>4 DEF Join, Busy
  <2>2. QED
    BY <1>3, <2>1
<1>5. ASSUME NEW w \in Workers, Exit(w) \/ Sleep(w) \/ JobReturns(w) \/ SpuriousWake(w)
      PROVE  UNCHANGED Promise!vars
  <2>1. UNCHANGED <<stopping, jobs, lane_jobs, job>>
    BY <1>5 DEF Exit, Sleep, JobReturns, SpuriousWake
  <2>2. Busy' = Busy
    BY <1>5 DEF Exit, Sleep, JobReturns, SpuriousWake, Busy, TypeOK
  <2>3. QED
    BY <1>3, <2>1, <2>2
<1>6. ASSUME NEW w \in Workers, Take(w) PROVE Promise!Next
  <2>1. jobs[1] \in Job
    BY <1>6, TailFacts DEF Take, TypeOK
  <2>2. PICK id \in Ids, lane \in Lanes \cup {NoLane} : jobs[1].id = id /\ jobs[1].lane = lane
    BY <2>1 DEF Job
  <2>3. IF lane = NoLane THEN Promise!StartLoose(id) ELSE Promise!StartInLane(lane)
    BY <1>6, <2>2, RefineTake
  <2>4. QED
    BY <2>3 DEF Promise!Next
<1>7. ASSUME NEW w \in Workers, Finish(w) PROVE Promise!Next
  <2>1. w \in Busy
    BY <1>7 DEF Finish, Busy
  <2>2. PICK id \in Ids, lane \in Lanes \cup {NoLane} : job[w].id = id /\ job[w].lane = lane
    BY <2>1 DEF LaneInv, Job
  <2>3. QED
    BY <1>7, <2>2, RefineFinish DEF Promise!Next
<1>8. CASE UNCHANGED vars
  <2>1. UNCHANGED <<stopping, jobs, lane_jobs, job>> /\ Busy' = Busy
    BY <1>8 DEF vars, Busy
  <2>2. QED
    BY <1>3, <2>1
<1>9. QED
  BY <1>1, <1>2, <1>4, <1>5, <1>6, <1>7, <1>8 DEF Next, Work, Destroyed

\* The pool implements serial lanes: each accepted job starts at most once,
\* the jobs of a lane run one at a time and in the order submit() accepted
\* them, and none starts after stop(), for any number of workers and lanes.
THEOREM PoolRunsLanesInOrder == Spec => RunsLanesInOrder
<1>1. Init => Promise!Init
  <2> SUFFICES ASSUME Init PROVE Promise!Init
    OBVIOUS
  <2>1. Busy = {} /\ DOMAIN jobs = {} /\ \A l \in Lanes : lane_jobs[l] = <<>>
    BY EmptyFacts DEF Init, Busy
  <2>2. ASSUME NEW l \in Lanes PROVE LaneQueue(l) = <<>>
    <3>1. LaneHolderIds(l) = {}
      BY <2>1 DEF LaneHolderIds
    <3>2. LaneIds(l) = <<>>
      BY <2>1, IdSeqEmpty DEF LaneIds, IdSeq
    <3>3. QED
      BY <3>1, <3>2 DEF LaneQueue
  <2>3. QED
    BY <2>1, <2>2 DEF Init, Promise!Init, HeldIds
<1>2. TypeOK /\ LaneInv /\ IdInv /\ NoLostWakeup /\ [Next]_vars => [Promise!Next]_(Promise!vars)
  BY RefineStep
<1>3. QED
  BY <1>1, <1>2, PoolInvariant, PTL DEF Spec, RunsLanesInOrder, Promise!Spec
-----------------------------------------------------------------------------
\* What a user of the pool needs to know of each operation: which jobs are yet
\* to return.  A job with this id is queued, parked or running.
Awaited(id) ==
  \/ \E i \in DOMAIN jobs : jobs[i].id = id
  \/ \E l \in Lanes : \E i \in DOMAIN lane_jobs[l] : lane_jobs[l][i].id = id
  \/ \E w \in Workers : worker[w] = "running" /\ job[w].id = id

LEMMA AwaitedInit == Init => \A id : ~Awaited(id)
  BY EmptyFacts DEF Init, Awaited

LEMMA AwaitedActive ==
  ASSUME TypeOK, LaneInv, IdInv, NEW id, Awaited(id)
  PROVE  id \in active_ids /\ id \in Ids
<1>1. CASE \E w \in Workers : worker[w] = "running" /\ job[w].id = id
  BY <1>1 DEF IdInv, Busy, TypeOK
<1>2. CASE \E i \in DOMAIN jobs : jobs[i].id = id
  <2>1. PICK i \in DOMAIN jobs : jobs[i].id = id
    BY <1>2
  <2>2. jobs[i] \in Job
    BY <2>1, ElementFacts DEF TypeOK
  <2>3. ~stopping
    BY <2>1, EmptyFacts DEF LaneInv
  <2>4. QED
    BY <2>1, <2>2, <2>3 DEF IdInv, Owed, Job
<1>3. CASE \E l \in Lanes : \E i \in DOMAIN lane_jobs[l] : lane_jobs[l][i].id = id
  <2>1. PICK l \in Lanes : \E i \in DOMAIN lane_jobs[l] : lane_jobs[l][i].id = id
    BY <1>3
  <2>2. \A i \in DOMAIN lane_jobs[l] : lane_jobs[l][i] \in Job
    BY ElementFacts DEF TypeOK
  <2>3. ~stopping
    BY <2>1, EmptyFacts DEF LaneInv
  <2>4. QED
    BY <2>1, <2>2, <2>3 DEF IdInv, Owed, Job
<1>4. QED
  BY <1>1, <1>2, <1>3 DEF Awaited

LEMMA AwaitedSubmit ==
  ASSUME TypeOK, NEW id \in Ids, NEW lane \in Lanes \cup {NoLane}, Submit(id, lane)
  PROVE  \A i : Awaited(i)' <=> Awaited(i) \/ i = id
<1> DEFINE j == [id |-> id, lane |-> lane]
<1>1. j \in Job /\ j.id = id
  BY DEF Job
<1>2. CASE RunsNow(lane)
  <2>1. jobs' = Append(jobs, j) /\ NotifyOne(worker) /\ UNCHANGED <<lane_jobs, job>>
    BY <1>2 DEF Submit
  <2>2. \A w \in Workers : worker'[w] = "running" <=> worker[w] = "running"
    BY <2>1, NotifyFacts DEF TypeOK
  <2> HIDE DEF j
  <2>3. /\ DOMAIN jobs' = DOMAIN jobs \cup {Len(jobs) + 1}
        /\ \A i \in DOMAIN jobs : jobs'[i] = jobs[i]
        /\ jobs'[Len(jobs) + 1] = j
    BY <1>1, <2>1, AppendFacts DEF TypeOK
  <2>4. QED
    BY <1>1, <2>1, <2>2, <2>3 DEF Awaited
<1>3. CASE ~RunsNow(lane)
  <2>1. /\ lane \in Lanes /\ lane_jobs[lane] \in Seq(Job)
        /\ lane_jobs' = [lane_jobs EXCEPT ![lane] = Append(lane_jobs[lane], j)]
        /\ UNCHANGED <<jobs, worker, job>>
    BY <1>3 DEF Submit, RunsNow, TypeOK
  <2> HIDE DEF j
  <2>2. \A l \in Lanes : l # lane => lane_jobs'[l] = lane_jobs[l]
    BY <2>1 DEF TypeOK
  <2>3. lane_jobs'[lane] = Append(lane_jobs[lane], j)
    BY <2>1 DEF TypeOK
  <2>4. /\ DOMAIN lane_jobs'[lane] = DOMAIN lane_jobs[lane] \cup {Len(lane_jobs[lane]) + 1}
        /\ \A i \in DOMAIN lane_jobs[lane] : lane_jobs'[lane][i] = lane_jobs[lane][i]
        /\ lane_jobs'[lane][Len(lane_jobs[lane]) + 1] = j
    BY <1>1, <2>1, <2>3, AppendFacts
  <2>5. \A i : (\E l \in Lanes : \E k \in DOMAIN lane_jobs'[l] : lane_jobs'[l][k].id = i)
                <=> \/ \E l \in Lanes : \E k \in DOMAIN lane_jobs[l] : lane_jobs[l][k].id = i
                    \/ i = id
    BY <1>1, <2>1, <2>2, <2>4
  <2>6. QED
    BY <2>1, <2>5 DEF Awaited
<1>4. QED
  BY <1>2, <1>3

LEMMA AwaitedReturn ==
  ASSUME TypeOK, IdInv, NEW w \in Workers, JobReturns(w)
  PROVE  /\ Awaited(job[w].id)
         /\ \A i : Awaited(i)' <=> Awaited(i) /\ i # job[w].id
<1>1. /\ worker[w] = "running" /\ w \in Busy /\ UNCHANGED <<jobs, lane_jobs, job>>
      /\ \A v \in Workers : worker'[v] = IF v = w THEN "finishing" ELSE worker[v]
  BY DEF JobReturns, Busy, TypeOK
<1>2. /\ \A i \in DOMAIN jobs : jobs[i].id # job[w].id
      /\ \A l \in Lanes : \A i \in DOMAIN lane_jobs[l] : lane_jobs[l][i].id # job[w].id
      /\ \A v \in Workers : worker[v] = "running" /\ job[v].id = job[w].id => v = w
  BY <1>1 DEF IdInv, IdsDistinct, Busy
<1>3. QED
  BY <1>1, <1>2 DEF Awaited

LEMMA AwaitedWork ==
  ASSUME TypeOK, NEW w \in Workers, Work(w) \/ SpuriousWake(w)
  PROVE  \A i : Awaited(i)' <=> Awaited(i)
<1>1. CASE Exit(w) \/ Sleep(w) \/ SpuriousWake(w)
  <2>1. /\ UNCHANGED <<jobs, lane_jobs, job>>
        /\ \A v \in Workers : worker'[v] = "running" <=> worker[v] = "running"
    BY <1>1 DEF Exit, Sleep, SpuriousWake, TypeOK
  <2>2. QED
    BY <2>1 DEF Awaited
<1>2. CASE Take(w)
  <2>1. /\ worker[w] = "ready" /\ jobs # <<>> /\ jobs' = Tail(jobs) /\ lane_jobs' = lane_jobs
        /\ \A v \in Workers : worker'[v] = IF v = w THEN "running" ELSE worker[v]
        /\ \A v \in Workers : job'[v] = IF v = w THEN Head(jobs) ELSE job[v]
    BY <1>2 DEF Take, TypeOK
  <2>2. /\ Head(jobs) = jobs[1] /\ 1 \in DOMAIN jobs
        /\ \A i \in DOMAIN jobs' : i + 1 \in DOMAIN jobs /\ jobs'[i] = jobs[i + 1]
        /\ \A i \in DOMAIN jobs : i # 1 => i - 1 \in DOMAIN jobs' /\ jobs'[i - 1] = jobs[i]
    BY <2>1, TailFacts DEF TypeOK
  <2>3. \A i : (\E k \in DOMAIN jobs : jobs[k].id = i)
                <=> (\E k \in DOMAIN jobs' : jobs'[k].id = i) \/ i = Head(jobs).id
    BY <2>2
  <2>4. \A i : (\E v \in Workers : worker'[v] = "running" /\ job'[v].id = i)
                <=> (\E v \in Workers : worker[v] = "running" /\ job[v].id = i) \/ i = Head(jobs).id
    BY <2>1
  <2>5. QED
    BY <2>1, <2>3, <2>4 DEF Awaited
<1>3. CASE Finish(w)
  <2> DEFINE back == [worker EXCEPT ![w] = "ready"]
  <2>1. worker[w] = "finishing" /\ job' = [job EXCEPT ![w] = NoJob]
    BY <1>3 DEF Finish
  <2>2. /\ back \in [Workers -> WorkerState]
        /\ \A v \in Workers : back[v] = "running" <=> worker[v] = "running"
    BY <2>1 DEF TypeOK, WorkerState
  <2>3. PICK l : l = job[w].lane
    OBVIOUS
  <2>4. CASE LaneWaiting(l)
    <3>1. l \in Lanes /\ lane_jobs[l] # <<>> /\ lane_jobs[l] \in Seq(Job)
      BY <2>4 DEF LaneWaiting, TypeOK
    <3>2. PassLane(l) /\ NotifyOne(back)
      BY <1>3, <2>3, <2>4 DEF Finish
    <3>3. \A v \in Workers : worker'[v] = "running" <=> back[v] = "running"
      BY <2>2, <3>2, NotifyFacts
    <3>4. /\ lane_jobs' = [lane_jobs EXCEPT ![l] = Tail(lane_jobs[l])]
          /\ jobs' = Append(jobs, Head(lane_jobs[l]))
      BY <3>2 DEF PassLane
    <3>5. \A m \in Lanes : m # l => lane_jobs'[m] = lane_jobs[m]
      BY <3>4 DEF TypeOK
    <3>6. lane_jobs'[l] = Tail(lane_jobs[l])
      BY <3>1, <3>4 DEF TypeOK
    <3>7. PICK h \in Job : h = Head(lane_jobs[l])
      BY <3>1, TailFacts
    <3>8. /\ h = lane_jobs[l][1] /\ 1 \in DOMAIN lane_jobs[l]
          /\ \A i \in DOMAIN lane_jobs'[l] :
               i + 1 \in DOMAIN lane_jobs[l] /\ lane_jobs'[l][i] = lane_jobs[l][i + 1]
          /\ \A i \in DOMAIN lane_jobs[l] :
               i # 1 => i - 1 \in DOMAIN lane_jobs'[l] /\ lane_jobs'[l][i - 1] = lane_jobs[l][i]
      BY <3>1, <3>6, <3>7, TailFacts
    <3>9. /\ DOMAIN jobs' = DOMAIN jobs \cup {Len(jobs) + 1}
          /\ \A i \in DOMAIN jobs : jobs'[i] = jobs[i]
          /\ jobs'[Len(jobs) + 1] = h
      BY <3>4, <3>7, AppendFacts DEF TypeOK
    <3>10. \A i : (\E k \in DOMAIN jobs' : jobs'[k].id = i)
                   <=> (\E k \in DOMAIN jobs : jobs[k].id = i) \/ i = h.id
      BY <3>9
    <3>11. \A i : (\E k \in DOMAIN lane_jobs[l] : lane_jobs[l][k].id = i)
                   <=> (\E k \in DOMAIN lane_jobs'[l] : lane_jobs'[l][k].id = i) \/ i = h.id
      BY <3>8
    <3>12. \A i : (\E m \in Lanes : \E k \in DOMAIN lane_jobs[m] : lane_jobs[m][k].id = i)
                   <=> \/ \E m \in Lanes : \E k \in DOMAIN lane_jobs'[m] : lane_jobs'[m][k].id = i
                       \/ i = h.id
      BY <3>1, <3>5, <3>11
    <3>13. \A i : (\E v \in Workers : worker'[v] = "running" /\ job'[v].id = i)
                   <=> (\E v \in Workers : worker[v] = "running" /\ job[v].id = i)
      BY <2>1, <2>2, <3>3 DEF TypeOK
    <3>14. QED
      BY <3>10, <3>12, <3>13 DEF Awaited
  <2>5. CASE ~LaneWaiting(l)
    <3>1. worker' = back /\ UNCHANGED <<jobs, lane_jobs>>
      BY <1>3, <2>3, <2>5 DEF Finish
    <3>2. \A i : (\E v \in Workers : worker'[v] = "running" /\ job'[v].id = i)
                  <=> (\E v \in Workers : worker[v] = "running" /\ job[v].id = i)
      BY <2>1, <2>2, <3>1 DEF TypeOK
    <3>3. QED
      BY <3>1, <3>2 DEF Awaited
  <2>6. QED
    BY <2>4, <2>5
<1>4. QED
  BY <1>1, <1>2, <1>3 DEF Work

LEMMA AwaitedStop ==
  ASSUME TypeOK, Stop
  PROVE  \A i : Awaited(i)' => Awaited(i)
<1>1. /\ DOMAIN jobs' = {} /\ \A l \in Lanes : DOMAIN lane_jobs'[l] = {}
      /\ job' = job /\ \A w \in Workers : worker'[w] = "running" => worker[w] = "running"
  BY EmptyFacts DEF Stop
<1>2. QED
  BY <1>1 DEF Awaited
=============================================================================
