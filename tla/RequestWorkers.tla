--------------------------- MODULE RequestWorkers ---------------------------
(***************************************************************************)
(* The worker pool behind one server session (class RequestWorkers,        *)
(* src/server/session.cpp).  Waits that may block for long are taken off   *)
(* the session's control lane and given to the pool.  A job may name a     *)
(* lane, the native queue it waits on: jobs of one lane run one at a time  *)
(* and in the order they were submitted, jobs without a lane run as soon   *)
(* as a worker is free.                                                    *)
(*                                                                         *)
(* Every critical section of mutex_ is one action.  The condition variable *)
(* is modelled by the workers' states: a worker that found the predicate   *)
(* false is "sleeping" until a notify (or a spurious wake-up) makes it     *)
(* "ready" to take the mutex and look again.  What a job does while it     *)
(* runs is left to the module that uses the pool; here it merely returns.  *)
(***************************************************************************)
EXTENDS Naturals, Sequences, FiniteSets

CONSTANTS Ids,       \* request ids, never 0 (the session refuses waits with id 0)
          Lanes,     \* the lanes other than 0, one per native queue
          NoLane,    \* lane 0: no ordering is asked for
          Workers,   \* the pool's threads
          kMaxJobs   \* how many accepted jobs may be unfinished

ASSUME LanesAssumption == NoLane \notin Lanes
ASSUME WorkersAssumption == IsFiniteSet(Workers)
ASSUME MaxJobsAssumption == kMaxJobs \in Nat \ {0}

VARIABLES stopping,      \* stopping_
          jobs,          \* jobs_: the run queue
          lane_jobs,     \* lane_jobs_: per lane, the jobs behind the active one
          active_lanes,  \* active_lanes_
          active_ids,    \* active_ids_
          worker,        \* what each thread is doing
          job,           \* the job each thread holds
          joined         \* stop() has joined every thread

vars == <<stopping, jobs, lane_jobs, active_lanes, active_ids, worker, job, joined>>

Job == [id : Ids, lane : Lanes \cup {NoLane}]
NoJob == [id |-> NoLane, lane |-> NoLane]  \* held by no request and on no lane

WorkerState == {"ready", "sleeping", "running", "finishing", "exited"}

TypeOK ==
  /\ stopping \in BOOLEAN
  /\ jobs \in Seq(Job)
  /\ lane_jobs \in [Lanes -> Seq(Job)]
  /\ active_lanes \in SUBSET Lanes
  /\ active_ids \in SUBSET Ids
  /\ worker \in [Workers -> WorkerState]
  /\ job \in [Workers -> Job \cup {NoJob}]
  /\ joined \in BOOLEAN

Init ==
  /\ stopping = FALSE
  /\ jobs = <<>>
  /\ lane_jobs = [l \in Lanes |-> <<>>]
  /\ active_lanes = {}
  /\ active_ids = {}
  /\ worker = [w \in Workers |-> "ready"]
  /\ job = [w \in Workers |-> NoJob]
  /\ joined = FALSE

-----------------------------------------------------------------------------
Asleep == {w \in Workers : worker[w] = "sleeping"}
Ready  == {w \in Workers : worker[w] = "ready"}
Busy   == {w \in Workers : worker[w] \in {"running", "finishing"}}

\* Mutant: a push that forgets cv_.notify_one().
NotifyNone(st) == worker' = st

\* cv_.notify_one() when the workers are in the states st: some sleeping
\* worker, if there is one, is woken.
NotifyOne(st) ==
  IF \E w \in Workers : st[w] = "sleeping"
    THEN \E w \in Workers : /\ st[w] = "sleeping"
                            /\ worker' = [st EXCEPT ![w] = "ready"]
    ELSE worker' = st

\* Mutant: the limit is off by one.
AcceptsOneMore(id) ==
  ~stopping /\ id \notin active_ids /\ Cardinality(active_ids) <= kMaxJobs

\* submit() takes the job; otherwise it returns false and changes nothing.
Accepts(id) ==
  /\ ~stopping
  /\ id \notin active_ids
  /\ Cardinality(active_ids) < kMaxJobs

\* Mutant: every job goes straight to the run queue.
RunsNowAlways(lane) == TRUE

\* The job goes to the run queue; otherwise it parks behind its lane.
RunsNow(lane) == lane = NoLane \/ lane \notin active_lanes

\* Mutant: lane 0 is taken for a lane.
ClaimAny(lane) == active_lanes' = active_lanes \cup {lane}

\* if (lane) active_lanes_.insert(lane)
Claim(lane) == active_lanes' = active_lanes \cup ({lane} \ {NoLane})

Submit(id, lane) ==
  /\ Accepts(id)
  /\ active_ids' = active_ids \cup {id}
  /\ IF RunsNow(lane)
       THEN /\ Claim(lane)
            /\ jobs' = Append(jobs, [id |-> id, lane |-> lane])
            /\ NotifyOne(worker)
            /\ UNCHANGED lane_jobs
       ELSE /\ lane_jobs' = [lane_jobs EXCEPT ![lane] = Append(@, [id |-> id, lane |-> lane])]
            /\ UNCHANGED <<active_lanes, jobs, worker>>
  /\ UNCHANGED <<stopping, job, joined>>

\* stop(): the queues are dropped and every sleeper is woken.  Joining is
\* an action of its own because it waits for the threads.
Stop ==
  /\ ~stopping
  /\ stopping' = TRUE
  /\ jobs' = <<>>
  /\ lane_jobs' = [l \in Lanes |-> <<>>]
  /\ worker' = [w \in Workers |-> IF worker[w] = "sleeping" THEN "ready" ELSE worker[w]]
  /\ UNCHANGED <<active_lanes, active_ids, job, joined>>

\* Mutant: stop() returns without waiting for its threads.
JoinDetached ==
  /\ stopping /\ ~joined
  /\ joined' = TRUE
  /\ UNCHANGED <<stopping, jobs, lane_jobs, active_lanes, active_ids, worker, job>>

Join ==
  /\ stopping /\ ~joined
  /\ \A w \in Workers : worker[w] = "exited"
  /\ joined' = TRUE
  /\ UNCHANGED <<stopping, jobs, lane_jobs, active_lanes, active_ids, worker, job>>

\* run(): the first critical section, for each outcome of the wait.
Exit(w) ==
  /\ worker[w] = "ready" /\ stopping
  /\ worker' = [worker EXCEPT ![w] = "exited"]
  /\ UNCHANGED <<stopping, jobs, lane_jobs, active_lanes, active_ids, job, joined>>

Sleep(w) ==
  /\ worker[w] = "ready" /\ ~stopping /\ jobs = <<>>
  /\ worker' = [worker EXCEPT ![w] = "sleeping"]
  /\ UNCHANGED <<stopping, jobs, lane_jobs, active_lanes, active_ids, job, joined>>

Take(w) ==
  /\ worker[w] = "ready" /\ ~stopping /\ jobs # <<>>
  /\ job' = [job EXCEPT ![w] = Head(jobs)]
  /\ jobs' = Tail(jobs)
  /\ worker' = [worker EXCEPT ![w] = "running"]
  /\ UNCHANGED <<stopping, lane_jobs, active_lanes, active_ids, joined>>

SpuriousWake(w) ==
  /\ worker[w] = "sleeping"
  /\ worker' = [worker EXCEPT ![w] = "ready"]
  /\ UNCHANGED <<stopping, jobs, lane_jobs, active_lanes, active_ids, job, joined>>

\* job.run() returns; the mutex is not held.
JobReturns(w) ==
  /\ worker[w] = "running"
  /\ worker' = [worker EXCEPT ![w] = "finishing"]
  /\ UNCHANGED <<stopping, jobs, lane_jobs, active_lanes, active_ids, job, joined>>

\* Mutants: the youngest parked job overtakes the others; the lane is released
\* although a job is parked behind it.
PassLaneToLast(l) ==
  LET n == Len(lane_jobs[l]) IN
  /\ jobs' = Append(jobs, lane_jobs[l][n])
  /\ lane_jobs' = [lane_jobs EXCEPT ![l] = SubSeq(@, 1, n - 1)]
NeverWaiting(l) == FALSE

\* A job is parked behind lane l.
LaneWaiting(l) == l \in Lanes /\ lane_jobs[l] # <<>>

\* The lane passes to the oldest job behind it.
PassLane(l) ==
  /\ jobs' = Append(jobs, Head(lane_jobs[l]))
  /\ lane_jobs' = [lane_jobs EXCEPT ![l] = Tail(@)]

\* run(): the second critical section.  The job's lane passes to the next job
\* behind it, or is released when there is none.
Finish(w) ==
  LET l == job[w].lane
      back == [worker EXCEPT ![w] = "ready"]
  IN
  /\ worker[w] = "finishing"
  /\ active_ids' = active_ids \ {job[w].id}
  /\ job' = [job EXCEPT ![w] = NoJob]
  /\ IF LaneWaiting(l)
       THEN /\ PassLane(l)
            /\ NotifyOne(back)
            /\ UNCHANGED active_lanes
       ELSE /\ active_lanes' = active_lanes \ {l}
            /\ worker' = back
            /\ UNCHANGED <<jobs, lane_jobs>>
  /\ UNCHANGED <<stopping, joined>>

\* The pool is destroyed after stop(): nothing is left to happen.
Destroyed == joined /\ UNCHANGED vars

Work(w) == Exit(w) \/ Sleep(w) \/ Take(w) \/ Finish(w)

Next ==
  \/ \E id \in Ids, lane \in Lanes \cup {NoLane} : Submit(id, lane)
  \/ Stop \/ Join
  \/ \E w \in Workers : Work(w) \/ JobReturns(w) \/ SpuriousWake(w)
  \/ Destroyed

Spec == Init /\ [][Next]_vars

\* A thread that can run does run, and a job's native wait returns; nothing
\* obliges the session to submit or to stop, and no spurious wake-up is owed.
Fairness == /\ \A w \in Workers : WF_vars(Work(w)) /\ WF_vars(JobReturns(w))
            /\ WF_vars(Join)
FairSpec == Spec /\ Fairness

-----------------------------------------------------------------------------
\* Session teardown destroys the Vulkan objects the jobs captured as soon as
\* stop() returns.  Once it has returned no job is running and none will be:
\* the queues are empty and nothing is accepted any more.
QuietAfterStop ==
  joined => /\ jobs = <<>> /\ \A l \in Lanes : lane_jobs[l] = <<>>
            /\ Busy = {}
            /\ \A id \in Ids : ~Accepts(id)

\* Two jobs of one lane are never at once in the hands of the workers or in
\* the run queue: vkQueueWaitIdle never runs twice at a time on one VkQueue.
LaneExclusive ==
  /\ \A i, j \in DOMAIN jobs : jobs[i].lane = jobs[j].lane /\ jobs[i].lane # NoLane => i = j
  /\ \A i \in DOMAIN jobs, w \in Busy : jobs[i].lane = job[w].lane => jobs[i].lane = NoLane
  /\ \A v, w \in Busy : job[v].lane = job[w].lane /\ job[v].lane # NoLane => v = w

\* A job parked behind a lane is never forgotten: some job ahead of it is
\* queued or running and will hand the lane over when it finishes; and a
\* lane that nobody holds is free for the next submit.
LaneNotStranded ==
  ~stopping => \A l \in Lanes :
     /\ l \in active_lanes => \/ \E i \in DOMAIN jobs : jobs[i].lane = l
                            \/ \E w \in Busy : job[w].lane = l
     /\ lane_jobs[l] # <<>> => l \in active_lanes

\* The ids of the jobs the pool still owes a run, by where the job is.
QueuedIds == {jobs[i].id : i \in DOMAIN jobs}
ParkedIds(l) == {lane_jobs[l][i].id : i \in DOMAIN lane_jobs[l]}
HeldIds == {job[w].id : w \in Busy}

\* The duplicate-id check and the kMaxJobs check count exactly the jobs that
\* are queued, parked or running: an id leaks neither when its job finishes
\* nor while its lane is handed over, so the pool cannot fill up with ghosts.
IdsAccounted ==
  /\ ~stopping => active_ids = QueuedIds \cup HeldIds \cup UNION {ParkedIds(l) : l \in Lanes}
  /\ HeldIds \subseteq active_ids
  /\ Cardinality(active_ids) <= kMaxJobs

\* A queued job never waits while a worker sleeps unnotified: whenever some
\* worker sleeps, at least as many workers are awake and looking for work as
\* there are jobs in the run queue (one notify_one per pushed job suffices).
NoLostWakeup ==
  ~stopping /\ Asleep # {} => Len(jobs) <= Cardinality(Ready)

\* What the pool promises its callers, as a specification of its own.  The
\* unfinished jobs of a lane, oldest first, are the one that is queued or held
\* by a worker and those parked behind it.
LaneIds(l) ==
  [i \in DOMAIN lane_jobs[l] |-> lane_jobs[l][i].id]
LaneHolderIds(l) == {jobs[i].id : i \in {i \in DOMAIN jobs : jobs[i].lane = l}}
                       \cup {job[w].id : w \in {w \in Busy : job[w].lane = l}}
LaneQueue(l) ==
  IF LaneHolderIds(l) = {} THEN LaneIds(l)
  ELSE <<CHOOSE id \in LaneHolderIds(l) : TRUE>> \o LaneIds(l)

Promise == INSTANCE SerialLanes WITH
             closed  <- stopping,
             queue   <- [l \in Lanes |-> LaneQueue(l)],
             loose   <- {jobs[i].id : i \in {i \in DOMAIN jobs : jobs[i].lane = NoLane}},
             running <- HeldIds

\* The pool implements serial lanes: jobs of one lane run one at a time in the
\* order submit() accepted them, whatever the order in which workers take the
\* run queue, and each accepted job runs at most once.
RunsLanesInOrder == Promise!Spec

\* Every accepted job finishes, unless the session is being torn down.
AcceptedJobFinishes ==
  \A id \in Ids : id \in active_ids ~> (id \notin active_ids \/ stopping)

\* stop() returns: it never waits for a worker that sleeps for ever.
StopReturns == stopping ~> joined

\* The account of unfinished jobs is exact, and none of them waits beside a worker
\* that nobody wakes: the limit of submit() and notify_one() together.
NothingForgotten == IdsAccounted /\ NoLostWakeup

\* The pool never comes to a halt: every accepted job finishes and stop() returns.
PoolProgresses == AcceptedJobFinishes /\ StopReturns
=============================================================================
