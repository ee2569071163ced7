---------------------------- MODULE Session_proofs ----------------------------
(***************************************************************************)
(* Proofs about a server session, for any number of messages, workers and  *)
(* native queues.  What is proved of the worker pool is taken over: every  *)
(* step of the session is a step of its pool or leaves it alone.  On top   *)
(* of that, the control lane and the workers between them answer each      *)
(* request once, and no error of a one-way command is reported twice or    *)
(* lost.                                                                   *)
(***************************************************************************)
EXTENDS Session, SequenceTheorems, FiniteSetTheorems, TLAPS

\* The pool's theorems, about this session's pool.
P == INSTANCE RequestWorkers_proofs WITH Lanes <- Queues

PoolInv == P!TypeOK /\ P!LaneInv /\ P!IdInv

\* The pool runs as long as the control lane serves, and has been joined when
\* the objects are destroyed.
ControlInv ==
  /\ control = "serving" => ~stopping
  /\ control = "destroying" \/ destroyed => joined

\* The first message is the handshake, or the loop is left with it.
AdmitInv ==
  /\ handshake_complete => received # <<>> /\ received[1] = "Handshake"
  /\ ~handshake_complete => Len(received) <= 1 /\ (control = "serving" => received = <<>>)
  /\ \A n \in DOMAIN replies : replies[n].id \in DOMAIN received
  /\ active_ids \subseteq DOMAIN received
  /\ HandshakeFirst

\* A request is in the pool until it is answered.
AnswerInv ==
  /\ \A m, n \in DOMAIN replies : replies[m].id = replies[n].id => m = n
  /\ \A i \in Ids : P!Awaited(i) => ~Replied(i)
  /\ ~closing /\ control = "serving" =>
       \A i \in DOMAIN received : Replied(i) \/ P!Awaited(i) \/ received[i] \in OnewayKinds

\* An error is in one place: counted, carried by one vkDeviceWaitIdle, or
\* reported by one submission.  A vkDeviceWaitIdle that is answered reports what
\* it carried, unless the pool refused it.
ErrorInv ==
  /\ oneway_errors \subseteq DOMAIN received
  /\ \A j \in Ids : /\ carried[j] \subseteq DOMAIN received
                    /\ carried[j] \cap oneway_errors = {}
                    /\ carried[j] # {} => j \in DOMAIN received /\ received[j] = "DeviceIdle"
  /\ \A j, k \in Ids : j # k => carried[j] \cap carried[k] = {}

\* What a reply says of errors.
Truthful(r) ==
  /\ r.errors \subseteq DOMAIN received
  /\ received[r.id] = "DeviceIdle" =>
       \/ r.errors = carried[r.id]
       \/ r = [id |-> r.id, status |-> "error", errors |-> {}]
  /\ received[r.id] = "Submit" =>
       /\ r.errors \cap oneway_errors = {}
       /\ \A j \in Ids : r.errors \cap carried[j] = {}
  /\ received[r.id] \notin {"DeviceIdle", "Submit"} => r.errors = {}

ReportInv ==
  /\ \A n \in DOMAIN replies : Truthful(replies[n])
  /\ \A m, n \in DOMAIN replies :
       m # n /\ received[replies[m].id] = "Submit" /\ received[replies[n].id] = "Submit"
         => replies[m].errors \cap replies[n].errors = {}

\* No error is forgotten while the control lane serves.
KeptInv ==
  handshake_complete /\ control = "serving" =>
    \A i \in DOMAIN received : received[i] = "BadCommand" =>
      \/ i \in oneway_errors
      \/ \E j \in Ids : i \in carried[j]
      \/ \E n \in DOMAIN replies : i \in replies[n].errors
      \/ Silenced(i)

SessionInv ==
  TypeOK /\ PoolInv /\ ControlInv /\ AdmitInv /\ AnswerInv /\ ErrorInv /\ ReportInv /\ KeptInv
-----------------------------------------------------------------------------
\* The pool that the session runs and the pool that the theorems are about.
LEMMA PoolSame ==
  /\ Pool!TypeOK <=> P!TypeOK
  /\ Pool!Init <=> P!Init
  /\ \A id : Pool!Accepts(id) <=> P!Accepts(id)
  /\ \A id, l : Pool!Submit(id, l) <=> P!Submit(id, l)
  /\ Pool!Stop <=> P!Stop
  /\ Pool!Join <=> P!Join
  /\ \A w : Pool!JobReturns(w) <=> P!JobReturns(w)
  /\ \A w : Pool!Work(w) <=> P!Work(w)
  /\ \A w : Pool!SpuriousWake(w) <=> P!SpuriousWake(w)
  /\ pool = P!vars
<1>1. Pool!TypeOK <=> P!TypeOK
  BY DEF Pool!TypeOK, P!TypeOK, Pool!Job, P!Job, Pool!NoJob, P!NoJob, Pool!WorkerState, P!WorkerState
<1>2. Pool!Init <=> P!Init
  BY DEF Pool!Init, P!Init, Pool!NoJob, P!NoJob
<1>3. \A id : Pool!Accepts(id) <=> P!Accepts(id)
  BY DEF Pool!Accepts, P!Accepts, Pool!Cardinality, P!Cardinality, Cardinality
<1>4. \A st : Pool!NotifyOne(st) <=> P!NotifyOne(st)
  BY DEF Pool!NotifyOne, P!NotifyOne
<1>5. \A id, l : Pool!Submit(id, l) <=> P!Submit(id, l)
  BY <1>3, <1>4 DEF Pool!Submit, P!Submit, Pool!RunsNow, P!RunsNow, Pool!Claim, P!Claim
<1>6. Pool!Stop <=> P!Stop
  BY DEF Pool!Stop, P!Stop
<1>7. Pool!Join <=> P!Join
  BY DEF Pool!Join, P!Join
<1>8. \A w : Pool!JobReturns(w) <=> P!JobReturns(w)
  BY DEF Pool!JobReturns, P!JobReturns
<1>9. \A w : Pool!Work(w) <=> P!Work(w)
  BY <1>4 DEF Pool!Work, P!Work, Pool!Exit, P!Exit, Pool!Sleep, P!Sleep, Pool!Take, P!Take,
     Pool!Finish, P!Finish, Pool!LaneWaiting, P!LaneWaiting, Pool!PassLane, P!PassLane,
     Pool!NoJob, P!NoJob
<1>10. \A w : Pool!SpuriousWake(w) <=> P!SpuriousWake(w)
  BY DEF Pool!SpuriousWake, P!SpuriousWake
<1>11. pool = P!vars
  BY DEF pool, P!vars
<1>12. QED
  BY <1>1, <1>2, <1>3, <1>5, <1>6, <1>7, <1>8, <1>9, <1>10, <1>11

\* What RequestWorkers assumes of its constants.
LEMMA PoolAssumptions ==
  NoLane \notin Queues /\ P!IsFiniteSet(Workers) /\ kMaxJobs \in Nat \ {0}
  BY LanesAssumption, WorkersAssumption, MaxJobsAssumption DEF IsFiniteSet, P!IsFiniteSet

LEMMA PoolInitInv == P!Init => PoolInv
<1>1. P!Init => P!TypeOK
  BY P!TypeInit, PoolAssumptions
<1>2. P!Init => P!LaneInv
  BY P!LaneInit, PoolAssumptions
<1>3. P!Init => P!IdInv
  BY P!IdInit, PoolAssumptions
<1>4. QED
  BY <1>1, <1>2, <1>3 DEF PoolInv

LEMMA PoolStepInv ==
  ASSUME PoolInv, [P!Next]_(P!vars)  PROVE PoolInv'
<1>1. P!TypeOK /\ [P!Next]_(P!vars) => P!TypeOK'
  BY P!TypeStep, PoolAssumptions
<1>2. P!TypeOK /\ P!LaneInv /\ [P!Next]_(P!vars) => P!LaneInv'
  BY P!LaneStep, PoolAssumptions
<1>3. P!TypeOK /\ P!LaneInv /\ P!IdInv /\ [P!Next]_(P!vars) => P!IdInv'
  BY P!IdStep, PoolAssumptions
<1>4. QED
  BY <1>1, <1>2, <1>3 DEF PoolInv

\* What each operation of the pool does to the requests in it.
LEMMA PoolSubmits ==
  ASSUME PoolInv, NEW id \in Ids, NEW l \in Queues \cup {NoLane}, P!Submit(id, l)
  PROVE  PoolInv' /\ \A i : P!Awaited(i)' <=> P!Awaited(i) \/ i = id
<1>1. P!TypeOK
  BY DEF PoolInv
<1>2. \A i : P!Awaited(i)' <=> P!Awaited(i) \/ i = id
  BY <1>1, P!AwaitedSubmit, PoolAssumptions
<1>3. P!Next
  BY DEF P!Next
<1>4. QED
  BY <1>2, <1>3, PoolStepInv
LEMMA PoolReturns ==
  ASSUME PoolInv, NEW w \in Workers, P!JobReturns(w)
  PROVE  /\ PoolInv' /\ UNCHANGED <<stopping, active_ids, job, joined>>
         /\ job[w].id \in Ids /\ job[w].id \in active_ids /\ P!Awaited(job[w].id)
         /\ \A i : P!Awaited(i)' <=> P!Awaited(i) /\ i # job[w].id
<1>1. P!TypeOK /\ P!LaneInv /\ P!IdInv
  BY DEF PoolInv
<1>2. P!Awaited(job[w].id) /\ \A i : P!Awaited(i)' <=> P!Awaited(i) /\ i # job[w].id
  BY <1>1, P!AwaitedReturn, PoolAssumptions
<1>3. job[w].id \in Ids /\ job[w].id \in active_ids
  BY <1>1, <1>2, P!AwaitedActive, PoolAssumptions
<1>4. P!Next
  BY DEF P!Next
<1>5. UNCHANGED <<stopping, active_ids, job, joined>>
  BY DEF P!JobReturns
<1>6. QED
  BY <1>2, <1>3, <1>4, <1>5, PoolStepInv

LEMMA PoolWorks ==
  ASSUME PoolInv, NEW w \in Workers, P!Work(w) \/ P!SpuriousWake(w)
  PROVE  /\ PoolInv' /\ UNCHANGED <<stopping, joined>> /\ active_ids' \subseteq active_ids
         /\ \A i : P!Awaited(i)' <=> P!Awaited(i)
<1>1. P!TypeOK
  BY DEF PoolInv
<1>2. \A i : P!Awaited(i)' <=> P!Awaited(i)
  BY <1>1, P!AwaitedWork, PoolAssumptions
<1>3. P!Next
  BY DEF P!Next
<1>4. UNCHANGED <<stopping, joined>> /\ active_ids' \subseteq active_ids
  BY DEF P!Work, P!SpuriousWake, P!Exit, P!Sleep, P!Take, P!Finish
<1>5. QED
  BY <1>2, <1>3, <1>4, PoolStepInv

LEMMA PoolStops ==
  ASSUME PoolInv, P!Stop
  PROVE  PoolInv' /\ UNCHANGED <<active_ids, joined>> /\ \A i : P!Awaited(i)' => P!Awaited(i)
<1>1. P!TypeOK
  BY DEF PoolInv
<1>2. \A i : P!Awaited(i)' => P!Awaited(i)
  BY <1>1, P!AwaitedStop, PoolAssumptions
<1>3. P!Next
  BY DEF P!Next
<1>4. UNCHANGED <<active_ids, joined>>
  BY DEF P!Stop
<1>5. QED
  BY <1>2, <1>3, <1>4, PoolStepInv

LEMMA PoolJoins ==
  ASSUME PoolInv, P!Join
  PROVE  /\ PoolInv' /\ stopping /\ joined' /\ UNCHANGED <<stopping, active_ids>>
         /\ \A i : P!Awaited(i)' <=> P!Awaited(i)
<1>1. P!Next
  BY DEF P!Next
<1>2. stopping /\ joined' /\ UNCHANGED <<stopping, jobs, lane_jobs, active_ids, worker, job>>
  BY DEF P!Join
<1>3. \A i : P!Awaited(i)' <=> P!Awaited(i)
  BY <1>2 DEF P!Awaited
<1>4. QED
  BY <1>1, <1>2, <1>3, PoolStepInv

LEMMA PoolRests ==
  ASSUME PoolInv, UNCHANGED pool
  PROVE  /\ PoolInv' /\ UNCHANGED <<stopping, active_ids, joined>>
         /\ \A i : P!Awaited(i)' <=> P!Awaited(i)
<1>1. UNCHANGED P!vars
  BY DEF pool, P!vars
<1>2. UNCHANGED <<stopping, jobs, lane_jobs, active_ids, worker, job, joined>>
  BY DEF pool
<1>3. \A i : P!Awaited(i)' <=> P!Awaited(i)
  BY <1>2 DEF P!Awaited
<1>4. QED
  BY <1>1, <1>2, <1>3, PoolStepInv

\* What PoolInv says of the pool in the words of the model.
LEMMA PoolFacts ==
  ASSUME PoolInv
  PROVE  /\ Pool!TypeOK
         /\ \A i : P!Awaited(i) => i \in active_ids /\ i \in Ids
         /\ \A i : InPool(i) <=> P!Awaited(i)
         /\ joined => Pool!Busy = {} /\ jobs = <<>> /\ \A l \in Queues : lane_jobs[l] = <<>>
<1>1. P!TypeOK /\ P!LaneInv /\ P!IdInv
  BY DEF PoolInv
<1>2. \A i : P!Awaited(i) => i \in active_ids /\ i \in Ids
  BY <1>1, P!AwaitedActive, PoolAssumptions
<1>3. \A i : InPool(i) <=> P!Awaited(i)
  <2>1. \A i : i \in Pool!QueuedIds <=> \E k \in DOMAIN jobs : jobs[k].id = i
    BY DEF Pool!QueuedIds
  <2>2. \A l : \A i : i \in Pool!ParkedIds(l) <=> \E k \in DOMAIN lane_jobs[l] : lane_jobs[l][k].id = i
    BY DEF Pool!ParkedIds
  <2>3. \A i : i \in UNION {Pool!ParkedIds(l) : l \in Queues}
                 <=> \E l \in Queues : \E k \in DOMAIN lane_jobs[l] : lane_jobs[l][k].id = i
    BY <2>2
  <2>4. QED
    BY <2>1, <2>3 DEF InPool, P!Awaited
<1>4. joined => Pool!Busy = {} /\ jobs = <<>> /\ \A l \in Queues : lane_jobs[l] = <<>>
  BY <1>1 DEF P!LaneInv, Pool!Busy
<1>5. QED
  BY <1>1, <1>2, <1>3, <1>4, PoolSame
-----------------------------------------------------------------------------
\* A sequence with one more element.
LEMMA Appended ==
  ASSUME NEW S, NEW s \in Seq(S), NEW e \in S
  PROVE  /\ Append(s, e) \in Seq(S) /\ Len(Append(s, e)) = Len(s) + 1
         /\ DOMAIN Append(s, e) = DOMAIN s \cup {Len(s) + 1}
         /\ Len(s) + 1 \notin DOMAIN s
         /\ \A i \in DOMAIN s : Append(s, e)[i] = s[i]
         /\ Append(s, e)[Len(s) + 1] = e
  BY AppendProperties, SMT

\* The messages received are numbered from 1, and the next one has no number yet.
LEMMA Positions ==
  ASSUME TypeOK
  PROVE  /\ DOMAIN received = 1 .. Len(received) /\ Len(received) \in Nat
         /\ DOMAIN received \subseteq Ids
<1>1. DOMAIN received = 1 .. Len(received) /\ Len(received) \in Nat /\ Len(received) <= MaxMessages
  BY LenProperties DEF TypeOK
<1>2. QED
  BY <1>1, MaxMessagesAssumption DEF Ids

\* The steps after which the control lane and the replies are as they were, and
\* no request enters the pool; a request leaves it unanswered only when the
\* session closes.
LEMMA QuietStep ==
  ASSUME SessionInv, UNCHANGED <<lane, replies>>, TypeOK', PoolInv', ControlInv',
         active_ids' \subseteq active_ids,
         \A i : P!Awaited(i)' => P!Awaited(i),
         control' = "serving" => control = "serving",
         ~closing' /\ control' = "serving" =>
            ~closing /\ \A i \in Ids : P!Awaited(i) => P!Awaited(i)'
  PROVE  SessionInv'
<1>1. UNCHANGED <<received, handshake_complete, oneway_errors, carried, replies>>
  BY DEF lane
<1>2. \A i : Replied(i)' <=> Replied(i)
  BY <1>1 DEF Replied
<1>3. DOMAIN received \subseteq Ids
  BY Positions DEF SessionInv
<1>4. AdmitInv'
  BY <1>1, <1>2 DEF SessionInv, AdmitInv, HandshakeFirst
<1>5. AnswerInv'
  BY <1>1, <1>2, <1>3 DEF SessionInv, AnswerInv
<1>6. ErrorInv' /\ ReportInv' /\ KeptInv'
  BY <1>1 DEF SessionInv, ErrorInv, ReportInv, Truthful, KeptInv, Silenced
<1>7. QED
  BY <1>4, <1>5, <1>6 DEF SessionInv

\* TypeOK apart from the pool.
LEMMA TypeKept ==
  ASSUME SessionInv, UNCHANGED <<lane, replies>>, PoolInv', hungup' \in BOOLEAN,
         signalled' \subseteq Ids, closing' \in BOOLEAN, destroyed' \in BOOLEAN,
         control' \in {"serving", "closing", "unwinding", "destroying", "ended"}
  PROVE  TypeOK'
<1>1. Pool!TypeOK'
  BY DEF PoolInv, Pool!TypeOK, P!TypeOK, Pool!Job, P!Job, Pool!NoJob, P!NoJob, Pool!WorkerState,
     P!WorkerState
<1>2. QED
  BY <1>1 DEF SessionInv, TypeOK, lane

LEMMA WorldStep ==
  ASSUME SessionInv, HangUp \/ (\E i \in Ids : Signal(i)) \/ Ended
  PROVE  SessionInv'
<1>1. /\ UNCHANGED <<lane, replies, control, closing, destroyed, pool>>
      /\ hungup' \in BOOLEAN /\ signalled' \subseteq Ids
  BY DEF HangUp, Signal, Ended, vars, SessionInv, TypeOK
<1>2. /\ PoolInv' /\ UNCHANGED <<stopping, active_ids, joined>>
      /\ \A i : P!Awaited(i)' <=> P!Awaited(i)
  BY <1>1, PoolRests DEF SessionInv
<1>3. TypeOK'
  BY <1>1, <1>2, TypeKept DEF SessionInv, TypeOK
<1>4. ControlInv'
  BY <1>1, <1>2 DEF SessionInv, ControlInv
<1>5. QED
  BY <1>1, <1>2, <1>3, <1>4, QuietStep

LEMMA WorkStep ==
  ASSUME SessionInv, NEW w \in Workers, WorkerStep(w) \/ SpuriousWake(w)
  PROVE  SessionInv'
<1>1. UNCHANGED <<lane, replies, control, closing, destroyed, hungup, signalled>>
  BY DEF WorkerStep, SpuriousWake
<1>2. P!Work(w) \/ P!SpuriousWake(w)
  BY PoolSame DEF WorkerStep, SpuriousWake
<1>3. /\ PoolInv' /\ UNCHANGED <<stopping, joined>> /\ active_ids' \subseteq active_ids
      /\ \A i : P!Awaited(i)' <=> P!Awaited(i)
  BY <1>2, PoolWorks DEF SessionInv
<1>4. TypeOK'
  BY <1>1, <1>3, TypeKept DEF SessionInv, TypeOK
<1>5. ControlInv'
  BY <1>1, <1>3 DEF SessionInv, ControlInv
<1>6. QED
  BY <1>1, <1>3, <1>4, <1>5, QuietStep

LEMMA ThrowStep ==
  ASSUME SessionInv, NEW w \in Workers, JobThrows(w)
  PROVE  SessionInv'
<1>1. /\ UNCHANGED <<lane, replies, control, destroyed, signalled>>
      /\ closing' = TRUE /\ hungup' \in BOOLEAN
  BY DEF JobThrows, SessionInv, TypeOK
<1>2. P!JobReturns(w)
  BY PoolSame DEF JobThrows
<1>3. /\ PoolInv' /\ UNCHANGED <<stopping, active_ids, joined>>
      /\ \A i : P!Awaited(i)' => P!Awaited(i)
  BY <1>2, PoolReturns DEF SessionInv
<1>4. TypeOK'
  BY <1>1, <1>3, TypeKept DEF SessionInv, TypeOK
<1>5. ControlInv'
  BY <1>1, <1>3 DEF SessionInv, ControlInv
<1>6. QED
  BY <1>1, <1>3, <1>4, <1>5, QuietStep

LEMMA TeardownStep ==
  ASSUME SessionInv, Teardown
  PROVE  SessionInv'
<1>1. CASE EndOfStream
  <2>1. /\ UNCHANGED <<lane, replies, destroyed, hungup, signalled, pool>>
        /\ closing' = TRUE /\ control' = "closing"
    BY <1>1 DEF EndOfStream, LeaveLoop, lane
  <2>2. /\ PoolInv' /\ UNCHANGED <<stopping, active_ids, joined>>
        /\ \A i : P!Awaited(i)' <=> P!Awaited(i)
    BY <2>1, PoolRests DEF SessionInv
  <2>3. TypeOK'
    BY <2>1, <2>2, TypeKept DEF SessionInv, TypeOK
  <2>4. ControlInv'
    BY <2>1, <2>2 DEF SessionInv, ControlInv
  <2>5. QED
    BY <2>1, <2>2, <2>3, <2>4, QuietStep
<1>2. CASE StopWorkers
  <2>1. /\ UNCHANGED <<lane, replies, destroyed, hungup, signalled, closing, control>>
        /\ control \in {"closing", "unwinding"}
    BY <1>2 DEF StopWorkers
  <2>2. /\ PoolInv' /\ UNCHANGED <<active_ids, joined>> /\ \A i : P!Awaited(i)' => P!Awaited(i)
    BY <1>2, PoolSame, PoolStops DEF SessionInv, StopWorkers
  <2>3. TypeOK'
    BY <2>1, <2>2, TypeKept DEF SessionInv, TypeOK
  <2>4. ControlInv'
    BY <2>1, <2>2 DEF SessionInv, ControlInv
  <2>5. QED
    BY <2>1, <2>2, <2>3, <2>4, QuietStep
<1>3. CASE JoinWorkers
  <2>1. /\ UNCHANGED <<lane, replies, destroyed, hungup, signalled, closing>>
        /\ control' \in {"ended", "destroying"}
    BY <1>3 DEF JoinWorkers
  <2>2. /\ PoolInv' /\ joined' /\ UNCHANGED active_ids /\ \A i : P!Awaited(i)' <=> P!Awaited(i)
    BY <1>3, PoolSame, PoolJoins DEF SessionInv, JoinWorkers, WorkersJoined
  <2>3. TypeOK'
    BY <2>1, <2>2, TypeKept DEF SessionInv, TypeOK
  <2>4. ControlInv'
    BY <2>1, <2>2 DEF ControlInv
  <2>5. QED
    BY <2>1, <2>2, <2>3, <2>4, QuietStep
<1>4. CASE DestroySessionObjects
  <2>1. /\ UNCHANGED <<lane, replies, hungup, signalled, closing, pool>>
        /\ control = "destroying" /\ control' = "ended" /\ destroyed' = TRUE
    BY <1>4 DEF DestroySessionObjects
  <2>2. /\ PoolInv' /\ UNCHANGED <<stopping, active_ids, joined>>
        /\ \A i : P!Awaited(i)' <=> P!Awaited(i)
    BY <2>1, PoolRests DEF SessionInv
  <2>3. TypeOK'
    BY <2>1, <2>2, TypeKept DEF SessionInv, TypeOK
  <2>4. ControlInv'
    BY <2>1, <2>2 DEF SessionInv, ControlInv
  <2>5. QED
    BY <2>1, <2>2, <2>3, <2>4, QuietStep
<1>5. QED
  BY <1>1, <1>2, <1>3, <1>4 DEF Teardown
-----------------------------------------------------------------------------
\* A worker answers the request whose wait has returned.
LEMMA CompleteStep ==
  ASSUME SessionInv, NEW w \in Workers, CompleteJob(w)
  PROVE  SessionInv'
<1>1. /\ UNCHANGED <<received, handshake_complete, oneway_errors, carried>>
      /\ UNCHANGED <<control, closing, destroyed, hungup, signalled>>
  BY DEF CompleteJob, lane
<1>2. P!JobReturns(w)
  BY PoolSame DEF CompleteJob
<1>3. PICK id : id = job[w].id
  OBVIOUS
<1>4. /\ PoolInv' /\ UNCHANGED <<stopping, active_ids, joined>>
      /\ id \in Ids /\ id \in active_ids /\ P!Awaited(id)
      /\ \A i : P!Awaited(i)' <=> P!Awaited(i) /\ i # id
  BY <1>2, <1>3, PoolReturns DEF SessionInv
<1>5. PICK r \in Reply : r.id = id /\ r.errors = carried[id] /\ replies' = Append(replies, r)
  <2> DEFINE r == [id |-> id, status |-> "ok", errors |-> carried[id]]
  <2>1. carried[id] \subseteq Ids
    BY <1>4 DEF SessionInv, TypeOK
  <2>2. r \in Reply /\ r.id = id /\ r.errors = carried[id]
    BY <1>4, <2>1 DEF Reply
  <2>3. replies' = Append(replies, r)
    BY <1>3 DEF CompleteJob, Send
  <2>4. QED
    BY <2>2, <2>3
<1>6. PICK k : k = Len(replies) + 1
  OBVIOUS
<1>7. /\ replies' \in Seq(Reply) /\ DOMAIN replies' = DOMAIN replies \cup {k} /\ k \notin DOMAIN replies
      /\ \A n \in DOMAIN replies : replies'[n] = replies[n]
      /\ replies'[k] = r
  BY <1>5, <1>6, Appended DEF SessionInv, TypeOK
<1>8. \A i : Replied(i)' <=> Replied(i) \/ i = id
  BY <1>5, <1>7 DEF Replied
<1>9. id \in DOMAIN received /\ ~Replied(id)
  BY <1>4 DEF SessionInv, AdmitInv, AnswerInv
<1>10. DOMAIN received \subseteq Ids
  BY Positions DEF SessionInv
<1>11. TypeOK'
  <2>1. Pool!TypeOK'
    BY <1>4 DEF PoolInv, Pool!TypeOK, P!TypeOK, Pool!Job, P!Job, Pool!NoJob, P!NoJob,
       Pool!WorkerState, P!WorkerState
  <2>2. QED
    BY <1>1, <1>7, <2>1 DEF SessionInv, TypeOK
<1>12. ControlInv'
  BY <1>1, <1>4 DEF SessionInv, ControlInv
<1>13. AdmitInv'
  <2>1. HandshakeFirst'
    BY <1>1, <1>4, <1>8 DEF SessionInv, AdmitInv, HandshakeFirst
  <2>2. QED
    BY <1>1, <1>4, <1>5, <1>7, <1>9, <2>1 DEF SessionInv, AdmitInv
<1>14. AnswerInv'
  <2>1. \A m \in DOMAIN replies : replies[m].id # id
    BY <1>9 DEF Replied
  <2>2. \A m, n \in DOMAIN replies' : replies'[m].id = replies'[n].id => m = n
    BY <1>5, <1>7, <2>1 DEF SessionInv, AnswerInv
  <2>3. \A i \in Ids : P!Awaited(i)' => ~Replied(i)'
    BY <1>4, <1>8 DEF SessionInv, AnswerInv
  <2>4. ~closing' /\ control' = "serving" =>
          \A i \in DOMAIN received' : Replied(i)' \/ P!Awaited(i)' \/ received'[i] \in OnewayKinds
    BY <1>1, <1>4, <1>8 DEF SessionInv, AnswerInv
  <2>5. QED
    BY <2>2, <2>3, <2>4 DEF AnswerInv
<1>15. ErrorInv'
  BY <1>1 DEF SessionInv, ErrorInv
<1>16. ReportInv'
  <2>1. \A x : Truthful(x)' <=> Truthful(x)
    BY <1>1 DEF Truthful
  <2>2. Truthful(r)
    BY <1>4, <1>5 DEF SessionInv, ErrorInv, Truthful
  <2>3. \A n \in DOMAIN replies' : Truthful(replies'[n])
    BY <1>7, <2>2 DEF SessionInv, ReportInv
  <2>4. \A m, n \in DOMAIN replies' :
          m # n /\ received[replies'[m].id] = "Submit" /\ received[replies'[n].id] = "Submit"
            => replies'[m].errors \cap replies'[n].errors = {}
    <3>1. received[id] = "Submit" => r.errors = {}
      BY <1>4, <1>5 DEF SessionInv, ErrorInv
    <3>2. QED
      BY <1>5, <1>7, <3>1 DEF SessionInv, ReportInv
  <2>5. QED
    BY <1>1, <2>1, <2>3, <2>4 DEF ReportInv
<1>17. KeptInv'
  BY <1>1, <1>7 DEF SessionInv, KeptInv, Silenced
<1>18. QED
  BY <1>4, <1>11, <1>12, <1>13, <1>14, <1>15, <1>16, <1>17 DEF SessionInv
-----------------------------------------------------------------------------
\* A handler of the control lane writes the replies rs, at most one, to the
\* message it has taken.
Sent(id, rs) ==
  \/ rs = {} /\ replies' = replies
  \/ \E r \in Reply : rs = {r} /\ r.id = id /\ replies' = Append(replies, r)

\* The next message: its number is new everywhere.
LEMMA TakenFacts ==
  ASSUME SessionInv, NEW kind, Receive(kind), NEW id, id = NewId
  PROVE  /\ kind \in AllKinds /\ id \in Ids /\ id \notin DOMAIN received
         /\ received' \in Seq(AllKinds) /\ Len(received') <= MaxMessages
         /\ Len(received') = id /\ 1 \in DOMAIN received'
         /\ DOMAIN received' = DOMAIN received \cup {id}
         /\ \A i \in DOMAIN received : received'[i] = received[i]
         /\ received'[id] = kind
         /\ DOMAIN received \subseteq Ids
         /\ ~Replied(id) /\ ~P!Awaited(id) /\ carried[id] = {}
         /\ control = "serving" /\ UNCHANGED <<hungup, signalled, destroyed>>
<1>1. /\ control = "serving" /\ Len(received) < MaxMessages /\ kind \in AllKinds
      /\ received' = Append(received, kind) /\ UNCHANGED <<hungup, signalled, destroyed>>
  BY KindsAssumption DEF Receive
<1>2. /\ DOMAIN received = 1 .. Len(received) /\ Len(received) \in Nat /\ DOMAIN received \subseteq Ids
  BY Positions DEF SessionInv
<1>3. id = Len(received) + 1 /\ received \in Seq(AllKinds)
  BY DEF NewId, SessionInv, TypeOK
<1>4. /\ received' \in Seq(AllKinds) /\ Len(received') = id
      /\ DOMAIN received' = DOMAIN received \cup {id} /\ id \notin DOMAIN received
      /\ \A i \in DOMAIN received : received'[i] = received[i]
      /\ received'[id] = kind
  BY <1>1, <1>3, Appended
<1>5. id \in Ids /\ id <= MaxMessages /\ 1 \in DOMAIN received'
  BY <1>1, <1>2, <1>3, <1>4, MaxMessagesAssumption DEF Ids
<1>6. ~Replied(id) /\ carried[id] = {}
  BY <1>4, <1>5 DEF SessionInv, AdmitInv, ErrorInv, Replied
<1>7. ~P!Awaited(id)
  BY <1>4, PoolFacts DEF SessionInv, AdmitInv
<1>8. QED
  BY <1>1, <1>2, <1>4, <1>5, <1>6, <1>7

LEMMA SentFacts ==
  ASSUME SessionInv, NEW id, NEW rs, Sent(id, rs)
  PROVE  /\ replies' \in Seq(Reply)
         /\ DOMAIN replies \subseteq DOMAIN replies'
         /\ \A n \in DOMAIN replies : replies'[n] = replies[n]
         /\ \A n \in DOMAIN replies' : n \in DOMAIN replies \/ replies'[n] \in rs
         /\ \A m, n \in DOMAIN replies' : m \in DOMAIN replies \/ n \in DOMAIN replies \/ m = n
         /\ \A r \in rs : r.id = id /\ \E n \in DOMAIN replies' : replies'[n] = r
         /\ \A i : Replied(i)' <=> Replied(i) \/ (i = id /\ rs # {})
<1>1. CASE rs = {} /\ replies' = replies
  BY <1>1 DEF SessionInv, TypeOK, Replied
<1>2. CASE \E r \in Reply : rs = {r} /\ r.id = id /\ replies' = Append(replies, r)
  <2>1. PICK r \in Reply : rs = {r} /\ r.id = id /\ replies' = Append(replies, r)
    BY <1>2
  <2>2. PICK k : k = Len(replies) + 1
    OBVIOUS
  <2>3. /\ replies' \in Seq(Reply) /\ DOMAIN replies' = DOMAIN replies \cup {k} /\ k \notin DOMAIN replies
        /\ \A n \in DOMAIN replies : replies'[n] = replies[n]
        /\ replies'[k] = r
    BY <2>1, <2>2, Appended DEF SessionInv, TypeOK
  <2>4. \A i : Replied(i)' <=> Replied(i) \/ i = id
    BY <2>1, <2>3 DEF Replied
  <2>5. QED
    BY <2>1, <2>3, <2>4
<1>3. QED
  BY <1>1, <1>2 DEF Sent

\* Admission: a message that the checks refuse is not answered and ends the
\* loop; a first message that they let through is a handshake, a later one is
\* not.
LEMMA AdmitTaken ==
  ASSUME SessionInv, NEW kind, Receive(kind), NEW id, id = NewId, NEW rs, Sent(id, rs),
         active_ids' \subseteq active_ids \cup {id},
         Gated(kind) => rs = {} /\ active_ids' = active_ids /\ control' # "serving",
         \/ handshake_complete' = handshake_complete
         \/ handshake_complete' = TRUE /\ kind = "Handshake" /\ ~handshake_complete,
         control' = "serving" => handshake_complete'
  PROVE  AdmitInv'
<1>1. /\ id \in Ids /\ id \notin DOMAIN received /\ Len(received') = id /\ 1 \in DOMAIN received'
      /\ DOMAIN received' = DOMAIN received \cup {id}
      /\ \A i \in DOMAIN received : received'[i] = received[i]
      /\ received'[id] = kind /\ control = "serving"
  BY TakenFacts
<1>2. /\ \A i : Replied(i)' <=> Replied(i) \/ (i = id /\ rs # {})
      /\ \A r \in rs : r.id = id
      /\ \A n \in DOMAIN replies : replies'[n] = replies[n]
      /\ \A n \in DOMAIN replies' : n \in DOMAIN replies \/ replies'[n] \in rs
  BY SentFacts
<1>3. handshake_complete => 1 \in DOMAIN received /\ received[1] = "Handshake" /\ id # 1
  BY <1>1, EmptySeq, Positions DEF SessionInv, AdmitInv, TypeOK
<1>4. ~handshake_complete => received = <<>> /\ id = 1
  BY <1>1 DEF SessionInv, AdmitInv, NewId
<1>5. ~Gated(kind) => (kind \in HandshakeKinds <=> ~handshake_complete)
  BY DEF Gated
<1>6. handshake_complete' => received' # <<>> /\ received'[1] = "Handshake"
  <2>1. received' # <<>>
    BY <1>1
  <2>2. CASE handshake_complete
    BY <1>1, <1>3, <2>1, <2>2
  <2>3. CASE ~handshake_complete
    BY <1>1, <1>4, <2>1, <2>3
  <2>4. QED
    BY <2>2, <2>3
<1>7. ~handshake_complete' => Len(received') <= 1 /\ (control' = "serving" => received' = <<>>)
  BY <1>1, <1>4
<1>8. /\ \A n \in DOMAIN replies' : replies'[n].id \in DOMAIN received'
      /\ active_ids' \subseteq DOMAIN received'
  BY <1>1, <1>2 DEF SessionInv, AdmitInv
<1>9. HandshakeFirst'
  <2> SUFFICES ASSUME NEW i \in Ids, Replied(i)' \/ i \in active_ids'
               PROVE  /\ (received'[i] \in HandshakeKinds) <=> (i = 1)
                      /\ i # 1 => received'[1] = "Handshake"
    BY DEF HandshakeFirst
  <2>1. CASE Replied(i) \/ i \in active_ids
    <3>1. i \in DOMAIN received
      BY <2>1 DEF SessionInv, AdmitInv, Replied
    <3>2. received'[i] = received[i] /\ 1 \in DOMAIN received
      BY <1>1, <3>1, Positions DEF SessionInv
    <3>3. QED
      BY <1>1, <2>1, <3>2 DEF SessionInv, AdmitInv, HandshakeFirst
  <2>2. CASE ~(Replied(i) \/ i \in active_ids)
    <3>1. i = id /\ ~Gated(kind)
      BY <1>2, <2>2
    <3>2. QED
      BY <1>1, <1>3, <1>4, <1>5, <3>1
  <2>3. QED
    BY <2>1, <2>2
<1>10. QED
  BY <1>6, <1>7, <1>8, <1>9 DEF AdmitInv

\* A message is answered, or given to the pool, or needs no answer.
LEMMA AnswerTaken ==
  ASSUME SessionInv, NEW kind, Receive(kind), NEW id, id = NewId, NEW rs, Sent(id, rs),
         NEW given \in BOOLEAN, given => rs = {},
         \A i : P!Awaited(i)' <=> P!Awaited(i) \/ (i = id /\ given),
         ~closing' /\ control' = "serving" => ~closing /\ (rs # {} \/ given \/ kind \in OnewayKinds)
  PROVE  AnswerInv'
<1>1. /\ id \notin DOMAIN received
      /\ DOMAIN received' = DOMAIN received \cup {id}
      /\ \A i \in DOMAIN received : received'[i] = received[i]
      /\ received'[id] = kind /\ ~Replied(id) /\ ~P!Awaited(id) /\ control = "serving"
  BY TakenFacts
<1>2. /\ \A i : Replied(i)' <=> Replied(i) \/ (i = id /\ rs # {})
      /\ \A r \in rs : r.id = id
      /\ \A n \in DOMAIN replies : replies'[n] = replies[n]
      /\ \A n \in DOMAIN replies' : n \in DOMAIN replies \/ replies'[n] \in rs
      /\ \A m, n \in DOMAIN replies' : m \in DOMAIN replies \/ n \in DOMAIN replies \/ m = n
  BY SentFacts
<1>3. \A m \in DOMAIN replies : replies[m].id # id
  BY <1>1 DEF Replied
<1>4. \A m, n \in DOMAIN replies' : replies'[m].id = replies'[n].id => m = n
  BY <1>2, <1>3 DEF SessionInv, AnswerInv
<1>5. \A i \in Ids : P!Awaited(i)' => ~Replied(i)'
  BY <1>1, <1>2 DEF SessionInv, AnswerInv
<1>6. ~closing' /\ control' = "serving" =>
        \A i \in DOMAIN received' : Replied(i)' \/ P!Awaited(i)' \/ received'[i] \in OnewayKinds
  BY <1>1, <1>2 DEF SessionInv, AnswerInv
<1>7. QED
  BY <1>4, <1>5, <1>6 DEF AnswerInv
\* What the message is does not change what the earlier replies say.
LEMMA TruthfulTaken ==
  ASSUME SessionInv, NEW kind, Receive(kind), NEW id, id = NewId,
         NEW n \in DOMAIN replies, oneway_errors' \subseteq oneway_errors \cup {id},
         \A j \in Ids \ {id} : carried'[j] = carried[j],
         carried'[id] \subseteq oneway_errors
  PROVE  /\ Truthful(replies[n]) /\ replies[n].id # id /\ received'[replies[n].id] = received[replies[n].id]
         /\ \A r : r = replies[n] => Truthful(r)'
<1>1. /\ id \in Ids /\ id \notin DOMAIN received /\ DOMAIN received' = DOMAIN received \cup {id}
      /\ \A i \in DOMAIN received : received'[i] = received[i]
      /\ DOMAIN received \subseteq Ids
  BY TakenFacts
<1>2. PICK r : r = replies[n]
  OBVIOUS
<1>3. Truthful(r) /\ r.id \in DOMAIN received
  BY <1>2 DEF SessionInv, ReportInv, AdmitInv
<1>4. received'[r.id] = received[r.id] /\ r.id # id /\ r.id \in Ids /\ carried'[r.id] = carried[r.id]
  BY <1>1, <1>3
<1>5. id \notin r.errors
  BY <1>1, <1>3 DEF Truthful
<1>6. received[r.id] = "Submit" => /\ r.errors \cap oneway_errors' = {}
                                  /\ \A j \in Ids : r.errors \cap carried'[j] = {}
  BY <1>3, <1>5 DEF Truthful
<1>7. Truthful(r)'
  BY <1>1, <1>3, <1>4, <1>6 DEF Truthful
<1>8. QED
  BY <1>2, <1>3, <1>4, <1>7

\* The ways in which a message moves errors: it may add its own, report all that
\* are counted, or take them along.
Moves(kind, id) ==
  \/ UNCHANGED <<oneway_errors, carried>>
  \/ oneway_errors' = oneway_errors \cup {id} /\ UNCHANGED carried
  \/ oneway_errors' = {} /\ UNCHANGED carried
  \/ oneway_errors' = {} /\ carried' = [carried EXCEPT ![id] = oneway_errors] /\ kind = "DeviceIdle"

LEMMA MovesFacts ==
  ASSUME SessionInv, NEW kind, NEW id \in Ids, Moves(kind, id), carried[id] = {}
  PROVE  /\ oneway_errors' \subseteq oneway_errors \cup {id}
         /\ carried' \in [Ids -> SUBSET Ids]
         /\ \A j \in Ids \ {id} : carried'[j] = carried[j]
         /\ carried'[id] \subseteq oneway_errors
         /\ carried'[id] # {} => kind = "DeviceIdle" /\ oneway_errors' = {}
  BY DEF Moves, SessionInv, TypeOK

LEMMA ErrorTaken ==
  ASSUME SessionInv, NEW kind, Receive(kind), NEW id, id = NewId, Moves(kind, id)
  PROVE  ErrorInv'
<1>1. /\ id \in Ids /\ id \notin DOMAIN received /\ DOMAIN received' = DOMAIN received \cup {id}
      /\ \A i \in DOMAIN received : received'[i] = received[i]
      /\ received'[id] = kind /\ carried[id] = {} /\ DOMAIN received \subseteq Ids
  BY TakenFacts
<1>2. /\ oneway_errors' \subseteq oneway_errors \cup {id}
      /\ \A j \in Ids \ {id} : carried'[j] = carried[j]
      /\ carried'[id] \subseteq oneway_errors
      /\ carried'[id] # {} => kind = "DeviceIdle" /\ oneway_errors' = {}
  BY <1>1, MovesFacts
<1>3. ErrorInv
  BY DEF SessionInv
<1>4. oneway_errors' \subseteq DOMAIN received'
  BY <1>1, <1>2, <1>3 DEF ErrorInv
<1>5. \A j \in Ids : /\ carried'[j] \subseteq DOMAIN received'
                     /\ carried'[j] \cap oneway_errors' = {}
                     /\ carried'[j] # {} => j \in DOMAIN received' /\ received'[j] = "DeviceIdle"
  <2> SUFFICES ASSUME NEW j \in Ids
               PROVE  /\ carried'[j] \subseteq DOMAIN received'
                      /\ carried'[j] \cap oneway_errors' = {}
                      /\ carried'[j] # {} => j \in DOMAIN received' /\ received'[j] = "DeviceIdle"
    OBVIOUS
  <2>1. CASE j = id
    BY <1>1, <1>2, <1>3, <2>1 DEF ErrorInv
  <2>2. CASE j # id
    <3>1. /\ carried'[j] = carried[j] /\ carried[j] \subseteq DOMAIN received
          /\ carried[j] \cap oneway_errors = {}
          /\ carried[j] # {} => j \in DOMAIN received /\ received[j] = "DeviceIdle"
      BY <1>2, <1>3, <2>2 DEF ErrorInv
    <3>2. id \notin carried[j]
      BY <1>1, <3>1
    <3>3. QED
      BY <1>1, <1>2, <3>1, <3>2
  <2>3. QED
    BY <2>1, <2>2
<1>6. \A j, k \in Ids : j # k => carried'[j] \cap carried'[k] = {}
  <2> SUFFICES ASSUME NEW j \in Ids, NEW k \in Ids, j # k
               PROVE  carried'[j] \cap carried'[k] = {}
    OBVIOUS
  <2>1. CASE j # id /\ k # id
    BY <1>2, <1>3, <2>1 DEF ErrorInv
  <2>2. CASE j = id
    BY <1>2, <1>3, <2>2 DEF ErrorInv
  <2>3. CASE k = id
    BY <1>2, <1>3, <2>3 DEF ErrorInv
  <2>4. QED
    BY <2>1, <2>2, <2>3
<1>7. QED
  BY <1>4, <1>5, <1>6 DEF ErrorInv

LEMMA ReportTaken ==
  ASSUME SessionInv, NEW kind, Receive(kind), NEW id, id = NewId, NEW rs, Sent(id, rs),
         Moves(kind, id), \A r \in rs : Truthful(r)',
         \A r \in rs : r.errors \subseteq oneway_errors
  PROVE  ReportInv'
<1>1. id \in Ids /\ carried[id] = {}
  BY TakenFacts
<1>2. /\ oneway_errors' \subseteq oneway_errors \cup {id}
      /\ \A j \in Ids \ {id} : carried'[j] = carried[j]
      /\ carried'[id] \subseteq oneway_errors
  BY <1>1, MovesFacts
<1>3. /\ \A n \in DOMAIN replies : replies'[n] = replies[n]
      /\ \A n \in DOMAIN replies' : n \in DOMAIN replies \/ replies'[n] \in rs
      /\ \A m, n \in DOMAIN replies' : m \in DOMAIN replies \/ n \in DOMAIN replies \/ m = n
  BY SentFacts
<1>4. \A n \in DOMAIN replies : \A r : r = replies[n] => Truthful(r)'
  BY <1>2, TruthfulTaken
<1>5. \A n \in DOMAIN replies : /\ Truthful(replies[n])
                                /\ received'[replies[n].id] = received[replies[n].id]
  BY <1>2, TruthfulTaken
<1>6. \A n \in DOMAIN replies' : Truthful(replies[n])'
  <2> SUFFICES ASSUME NEW n \in DOMAIN replies'  PROVE Truthful(replies[n])'
    OBVIOUS
  <2>1. PICK r : r = replies'[n]
    OBVIOUS
  <2>2. Truthful(r)'
    BY <1>3, <1>4, <2>1
  <2>3. QED
    BY <2>1, <2>2 DEF Truthful
<1>7. \A m, n \in DOMAIN replies' :
        m # n /\ received'[replies'[m].id] = "Submit" /\ received'[replies'[n].id] = "Submit"
          => replies'[m].errors \cap replies'[n].errors = {}
  <2>1. \A m, n \in DOMAIN replies :
          m # n /\ received[replies[m].id] = "Submit" /\ received[replies[n].id] = "Submit"
            => replies[m].errors \cap replies[n].errors = {}
    BY DEF SessionInv, ReportInv
  <2>2. \A n \in DOMAIN replies : received[replies[n].id] = "Submit"
          => \A r \in rs : r.errors \cap replies[n].errors = {}
    BY <1>5 DEF Truthful
  <2>3. QED
    BY <1>3, <1>5, <2>1, <2>2
<1>8. QED
  BY <1>6, <1>7 DEF ReportInv

LEMMA KeptTaken ==
  ASSUME SessionInv, NEW kind, Receive(kind), NEW id, id = NewId, NEW rs, Sent(id, rs),
         \A j \in Ids : carried[j] \subseteq carried'[j],
         control' = "serving" =>
           /\ \A i \in oneway_errors : \/ i \in oneway_errors' \/ i \in carried'[id]
                                       \/ \E r \in rs : i \in r.errors
                                       \/ kind = "MuteSubmit"
           /\ kind = "BadCommand" => id \in oneway_errors'
  PROVE  KeptInv'
<1>1. /\ id \in Ids /\ DOMAIN received' = DOMAIN received \cup {id}
      /\ \A i \in DOMAIN received : received'[i] = received[i] /\ i < id
      /\ received'[id] = kind /\ control = "serving"
  <2>1. DOMAIN received = 1 .. Len(received) /\ Len(received) \in Nat
    BY Positions DEF SessionInv
  <2>2. \A i \in DOMAIN received : i < id
    BY <2>1 DEF NewId
  <2>3. QED
    BY <2>2, TakenFacts
<1>2. /\ DOMAIN replies \subseteq DOMAIN replies'
      /\ \A n \in DOMAIN replies : replies'[n] = replies[n]
      /\ \A r \in rs : r.id = id /\ \E n \in DOMAIN replies' : replies'[n] = r
  BY SentFacts
<1> SUFFICES ASSUME control' = "serving", NEW i \in DOMAIN received', received'[i] = "BadCommand"
             PROVE  \/ i \in oneway_errors'
                    \/ \E j \in Ids : i \in carried'[j]
                    \/ \E n \in DOMAIN replies' : i \in replies'[n].errors
                    \/ Silenced(i)'
  BY DEF KeptInv
<1>3. CASE i = id
  BY <1>1, <1>3
<1>4. CASE i # id
  <2>1. i \in DOMAIN received /\ received[i] = "BadCommand"
    BY <1>1, <1>4
  <2>2. handshake_complete
    BY <1>1, <2>1 DEF SessionInv, AdmitInv
  <2>3. \/ i \in oneway_errors
        \/ \E j \in Ids : i \in carried[j]
        \/ \E n \in DOMAIN replies : i \in replies[n].errors
        \/ Silenced(i)
    BY <1>1, <2>1, <2>2 DEF SessionInv, KeptInv
  <2>4. CASE i \in oneway_errors
    BY <1>1, <1>2, <2>1, <2>4 DEF Silenced
  <2>5. CASE \E j \in Ids : i \in carried[j]
    BY <2>5
  <2>6. CASE \E n \in DOMAIN replies : i \in replies[n].errors
    BY <1>2, <2>6
  <2>7. CASE Silenced(i)
    BY <1>1, <2>7 DEF Silenced
  <2>8. QED
    BY <2>3, <2>4, <2>5, <2>6, <2>7
<1>5. QED
  BY <1>3, <1>4
\* What a handler must do to keep the invariant.  The message is answered with
\* rs, or given to the pool.
Handled(kind, id, rs, given) ==
  /\ Receive(kind) /\ Sent(id, rs) /\ Moves(kind, id)
  /\ given \in BOOLEAN /\ (given => rs = {})
  /\ PoolInv' /\ UNCHANGED <<stopping, joined>> /\ active_ids' \subseteq active_ids \cup {id}
  /\ \A i : P!Awaited(i)' <=> P!Awaited(i) \/ (i = id /\ given)
  /\ Gated(kind) => rs = {} /\ active_ids' = active_ids /\ control' # "serving"
  /\ \/ handshake_complete' = handshake_complete
     \/ handshake_complete' = TRUE /\ kind = "Handshake" /\ ~handshake_complete
  /\ control' = "serving" => handshake_complete'
  /\ control' \in {"serving", "closing", "unwinding"} /\ closing' \in BOOLEAN
  /\ ~closing' /\ control' = "serving" => ~closing /\ (rs # {} \/ given \/ kind \in OnewayKinds)
  /\ \A r \in rs : Truthful(r)' /\ r.errors \subseteq oneway_errors
  /\ control' = "serving" =>
       /\ \A i \in oneway_errors : \/ i \in oneway_errors' \/ i \in carried'[id]
                                   \/ \E r \in rs : i \in r.errors
                                   \/ kind = "MuteSubmit"
       /\ kind = "BadCommand" => id \in oneway_errors'

LEMMA TakenStep ==
  ASSUME SessionInv, NEW kind, NEW id, id = NewId, NEW rs, NEW given, Handled(kind, id, rs, given)
  PROVE  SessionInv'
<1>0. Receive(kind) /\ Sent(id, rs) /\ Moves(kind, id) /\ PoolInv'
  BY DEF Handled
<1>1. /\ id \in Ids /\ carried[id] = {} /\ received' \in Seq(AllKinds) /\ Len(received') <= MaxMessages
      /\ control = "serving" /\ UNCHANGED <<hungup, signalled, destroyed>>
  BY <1>0, TakenFacts
<1>2. /\ oneway_errors' \subseteq oneway_errors \cup {id}
      /\ carried' \in [Ids -> SUBSET Ids]
      /\ \A j \in Ids : carried[j] \subseteq carried'[j]
  BY <1>0, <1>1, MovesFacts
<1>3. TypeOK'
  <2>1. Pool!TypeOK'
    BY <1>0 DEF PoolInv, Pool!TypeOK, P!TypeOK, Pool!Job, P!Job, Pool!NoJob, P!NoJob,
       Pool!WorkerState, P!WorkerState
  <2>2. replies' \in Seq(Reply)
    BY <1>0, SentFacts
  <2>3. oneway_errors' \subseteq Ids
    BY <1>1, <1>2 DEF SessionInv, TypeOK
  <2>4. handshake_complete' \in BOOLEAN
    BY DEF Handled, SessionInv, TypeOK
  <2>5. closing' \in BOOLEAN /\ control' \in {"serving", "closing", "unwinding"}
    BY DEF Handled
  <2>6. QED
    BY <1>1, <1>2, <2>1, <2>2, <2>3, <2>4, <2>5 DEF SessionInv, TypeOK
<1>4. ControlInv'
  BY <1>1 DEF Handled, SessionInv, ControlInv
<1>5. AdmitInv'
  BY AdmitTaken DEF Handled
<1>6. AnswerInv'
  BY AnswerTaken DEF Handled
<1>7. ErrorInv'
  BY ErrorTaken DEF Handled
<1>8. ReportInv'
  BY ReportTaken DEF Handled
<1>9. KeptInv'
  BY <1>2, KeptTaken DEF Handled
<1>10. QED
  BY <1>0, <1>3, <1>4, <1>5, <1>6, <1>7, <1>8, <1>9 DEF SessionInv

\* A reply that reports nothing is truthful, whatever it answers.
LEMMA PlainReply ==
  ASSUME SessionInv, NEW kind, Receive(kind), NEW id, id = NewId, UNCHANGED carried,
         NEW r \in Reply, r.id = id, r.errors = {}
  PROVE  Truthful(r)'
<1>1. carried[id] = {}
  BY TakenFacts
<1>2. QED
  BY <1>1 DEF Truthful

LEMMA LeaveStep ==
  ASSUME SessionInv, NEW kind, Refused(kind) \/ HandlerThrows(kind)
  PROVE  SessionInv'
<1>1. /\ Receive(kind) /\ control' \in {"closing", "unwinding"} /\ closing' \in BOOLEAN
      /\ UNCHANGED <<handshake_complete, oneway_errors, carried, replies, pool>>
  BY DEF Refused, HandlerThrows, LeaveLoop, Accepted, SessionInv, TypeOK
<1>2. /\ PoolInv' /\ UNCHANGED <<stopping, active_ids, joined>>
      /\ \A i : P!Awaited(i)' <=> P!Awaited(i)
  BY <1>1, PoolRests DEF SessionInv
<1>3. PICK id : id = NewId
  OBVIOUS
<1>4. Sent(id, {}) /\ Moves(kind, id)
  BY <1>1 DEF Sent, Moves
<1>5. QED
  <2>1. Handled(kind, id, {}, FALSE)
    BY <1>1, <1>2, <1>4 DEF Handled
  <2>2. QED
    BY <1>3, <2>1, TakenStep

LEMMA HandshakeStep ==
  ASSUME SessionInv, NEW kind, HandleHandshake(kind)
  PROVE  SessionInv'
<1>1. /\ Receive(kind) /\ ~Gated(kind) /\ kind \in HandshakeKinds
      /\ UNCHANGED <<oneway_errors, carried, pool>>
  BY DEF HandleHandshake, Accepted
<1>2. PICK id : id = NewId
  OBVIOUS
<1>3. id \in Ids
  BY <1>1, <1>2, TakenFacts
<1>4. PICK r \in Reply : r.id = id /\ r.errors = {} /\ replies' = Append(replies, r)
  <2>1. \A st \in {"ok", "error"} : [id |-> id, status |-> st, errors |-> {}] \in Reply
    BY <1>3 DEF Reply
  <2>2. QED
    BY <1>2, <2>1 DEF HandleHandshake, Send
<1>5. Sent(id, {r}) /\ Moves(kind, id)
  BY <1>1, <1>4 DEF Sent, Moves
<1>6. /\ PoolInv' /\ UNCHANGED <<stopping, active_ids, joined>>
      /\ \A i : P!Awaited(i)' <=> P!Awaited(i)
  BY <1>1, PoolRests DEF SessionInv
<1>7. Truthful(r)'
  BY <1>1, <1>2, <1>4, PlainReply
<1>8. /\ \/ handshake_complete' = handshake_complete
         \/ handshake_complete' = TRUE /\ kind = "Handshake" /\ ~handshake_complete
      /\ control' = "serving" => handshake_complete' /\ closing' = closing
      /\ control' \in {"serving", "closing"} /\ closing' \in BOOLEAN
  <2>1. control = "serving" /\ ~handshake_complete /\ closing \in BOOLEAN
    BY <1>1 DEF Receive, Gated, SessionInv, TypeOK
  <2>2. QED
    BY <2>1 DEF HandleHandshake
<1>9. kind # "BadCommand"
  BY <1>1 DEF HandshakeKinds
<1>10. QED
  <2>1. Handled(kind, id, {r}, FALSE)
    BY <1>1, <1>4, <1>5, <1>6, <1>7, <1>8, <1>9 DEF Handled
  <2>2. QED
    BY <1>2, <2>1, TakenStep

\* What is taken and not refused, once the handshake is over.
LEMMA ServedFacts ==
  ASSUME SessionInv, NEW kind, Accepted(kind), kind \notin HandshakeKinds
  PROVE  Receive(kind) /\ ~Gated(kind) /\ handshake_complete /\ control = "serving"
  BY DEF Accepted, Receive, Gated

LEMMA CallStep ==
  ASSUME SessionInv, NEW kind, HandleCall(kind)
  PROVE  SessionInv'
<1>1. /\ Receive(kind) /\ ~Gated(kind) /\ handshake_complete /\ control = "serving"
      /\ UNCHANGED <<control, handshake_complete, closing, oneway_errors, carried, pool>>
      /\ kind # "BadCommand"
  BY ServedFacts DEF HandleCall, CallKinds, HandshakeKinds
<1>2. PICK id : id = NewId
  OBVIOUS
<1>3. id \in Ids
  BY <1>1, <1>2, TakenFacts
<1>4. Moves(kind, id) /\ closing \in BOOLEAN
  BY <1>1 DEF Moves, SessionInv, TypeOK
<1>5. /\ PoolInv' /\ UNCHANGED <<stopping, active_ids, joined>>
      /\ \A i : P!Awaited(i)' <=> P!Awaited(i)
  BY <1>1, PoolRests DEF SessionInv
<1>6. CASE kind = "Mute"
  <2>1. Sent(id, {}) /\ kind \in OnewayKinds
    BY <1>6 DEF Sent, HandleCall, OnewayKinds
  <2>2. QED
    <3>1. Handled(kind, id, {}, FALSE)
      BY <1>1, <1>4, <1>5, <2>1 DEF Handled
    <3>2. QED
      BY <1>2, <3>1, TakenStep
<1>7. CASE kind # "Mute"
  <2>1. PICK r \in Reply : r.id = id /\ r.errors = {} /\ replies' = Append(replies, r)
    <3>1. \A st \in {"ok", "error"} : [id |-> id, status |-> st, errors |-> {}] \in Reply
      BY <1>3 DEF Reply
    <3>2. QED
      BY <1>2, <1>7, <3>1 DEF HandleCall, Send
  <2>2. Sent(id, {r}) /\ Truthful(r)'
    BY <1>1, <1>2, <2>1, PlainReply DEF Sent
  <2>3. QED
    <3>1. Handled(kind, id, {r}, FALSE)
      BY <1>1, <1>4, <1>5, <2>1, <2>2 DEF Handled
    <3>2. QED
      BY <1>2, <3>1, TakenStep
<1>8. QED
  BY <1>6, <1>7

LEMMA CommandStep ==
  ASSUME SessionInv, NEW kind, HandleCommand(kind)
  PROVE  SessionInv'
<1>1. /\ Receive(kind) /\ ~Gated(kind) /\ handshake_complete /\ control = "serving"
      /\ UNCHANGED <<control, handshake_complete, closing, carried, replies, pool>>
      /\ kind \in OnewayKinds
  BY ServedFacts DEF HandleCommand, CommandKinds, HandshakeKinds, OnewayKinds
<1>2. PICK id : id = NewId
  OBVIOUS
<1>3. /\ Moves(kind, id) /\ Sent(id, {}) /\ closing \in BOOLEAN
      /\ oneway_errors \subseteq oneway_errors'
      /\ kind = "BadCommand" => id \in oneway_errors'
  BY <1>1, <1>2 DEF Moves, Sent, HandleCommand, SessionInv, TypeOK
<1>4. /\ PoolInv' /\ UNCHANGED <<stopping, active_ids, joined>>
      /\ \A i : P!Awaited(i)' <=> P!Awaited(i)
  BY <1>1, PoolRests DEF SessionInv
<1>5. QED
  <2>1. Handled(kind, id, {}, FALSE)
    BY <1>1, <1>3, <1>4 DEF Handled
  <2>2. QED
    BY <1>2, <2>1, TakenStep

LEMMA SubmitStep ==
  ASSUME SessionInv, NEW kind, HandleSubmit(kind)
  PROVE  SessionInv'
<1>1. /\ Receive(kind) /\ ~Gated(kind) /\ handshake_complete /\ control = "serving"
      /\ UNCHANGED <<control, handshake_complete, closing, carried, pool>>
      /\ kind \in SubmitKinds /\ oneway_errors' = {}
  BY ServedFacts DEF HandleSubmit, SubmitKinds, HandshakeKinds
<1>2. PICK id : id = NewId
  OBVIOUS
<1>3. /\ id \in Ids /\ received'[id] = kind /\ DOMAIN received' = DOMAIN received \cup {id}
  BY <1>1, <1>2, TakenFacts
<1>4. Moves(kind, id) /\ closing \in BOOLEAN /\ oneway_errors \subseteq Ids
  BY <1>1 DEF Moves, SessionInv, TypeOK
<1>5. /\ PoolInv' /\ UNCHANGED <<stopping, active_ids, joined>>
      /\ \A i : P!Awaited(i)' <=> P!Awaited(i)
  BY <1>1, PoolRests DEF SessionInv
<1>6. CASE kind = "MuteSubmit"
  <2>1. Sent(id, {}) /\ kind \in OnewayKinds /\ kind # "BadCommand"
    BY <1>6 DEF Sent, HandleSubmit, OnewayKinds
  <2>2. Handled(kind, id, {}, FALSE)
    BY <1>1, <1>4, <1>5, <1>6, <2>1 DEF Handled
  <2>3. QED
    BY <1>2, <2>2, TakenStep
<1>7. CASE kind = "Submit"
  <2>1. PICK r \in Reply : r.id = id /\ r.errors = oneway_errors /\ replies' = Append(replies, r)
    <3>1. [id |-> id, status |-> "ok", errors |-> oneway_errors] \in Reply
      BY <1>3, <1>4 DEF Reply
    <3>2. QED
      BY <1>2, <1>7, <3>1 DEF HandleSubmit, Send
  <2>2. Sent(id, {r})
    BY <2>1 DEF Sent
  <2>3. Truthful(r)'
    <3>1. ErrorInv
      BY DEF SessionInv
    <3>2. QED
      BY <1>1, <1>3, <1>7, <2>1, <3>1 DEF ErrorInv, Truthful
  <2>4. Handled(kind, id, {r}, FALSE)
    BY <1>1, <1>4, <1>5, <1>7, <2>1, <2>2, <2>3 DEF Handled
  <2>5. QED
    BY <1>2, <2>4, TakenStep
<1>8. QED
  BY <1>1, <1>6, <1>7 DEF SubmitKinds
\* A wait is given to the pool or refused; a vkDeviceWaitIdle takes the errors
\* along in both cases.
LEMMA WaitStep ==
  ASSUME SessionInv, NEW kind, HandleWait(kind)
  PROVE  SessionInv'
<1>1. /\ Receive(kind) /\ ~Gated(kind) /\ handshake_complete /\ control = "serving"
      /\ UNCHANGED <<control, handshake_complete, closing>>
      /\ kind \in WaitKinds /\ kind # "BadCommand" /\ kind # "Submit"
  BY ServedFacts DEF HandleWait, WaitKinds, HandshakeKinds
<1>2. PICK id : id = NewId
  OBVIOUS
<1>3. /\ id \in Ids /\ received'[id] = kind /\ DOMAIN received' = DOMAIN received \cup {id}
      /\ carried[id] = {}
  BY <1>1, <1>2, TakenFacts
<1>4. /\ Moves(kind, id) /\ closing \in BOOLEAN
      /\ \A i \in oneway_errors : i \in oneway_errors' \/ i \in carried'[id]
      /\ kind # "DeviceIdle" => UNCHANGED carried
  <2>1. carried \in [Ids -> SUBSET Ids] /\ closing \in BOOLEAN
    BY DEF SessionInv, TypeOK
  <2>2. CASE kind = "DeviceIdle"
    <3>1. carried' = [carried EXCEPT ![id] = oneway_errors] /\ oneway_errors' = {}
      BY <1>2, <2>2 DEF HandleWait
    <3>2. carried'[id] = oneway_errors
      BY <1>3, <2>1, <3>1
    <3>3. QED
      BY <2>1, <2>2, <3>1, <3>2 DEF Moves
  <2>3. CASE kind # "DeviceIdle"
    <3>1. UNCHANGED <<carried, oneway_errors>>
      BY <2>3 DEF HandleWait
    <3>2. QED
      BY <2>1, <3>1 DEF Moves
  <2>4. QED
    BY <2>2, <2>3
<1>5. CASE Pool!Accepts(NewId)
  <2>1. PICK l \in LaneOf(kind) : Pool!Submit(NewId, l)
    BY <1>5 DEF HandleWait
  <2>2. P!Submit(id, l) /\ l \in Queues \cup {NoLane}
    BY <1>2, <2>1, PoolSame DEF LaneOf
  <2>3. PoolInv' /\ \A i : P!Awaited(i)' <=> P!Awaited(i) \/ i = id
    BY <1>3, <2>2, PoolSubmits DEF SessionInv
  <2>4. UNCHANGED <<stopping, joined>> /\ active_ids' \subseteq active_ids \cup {id}
    BY <2>2 DEF P!Submit
  <2>5. Sent(id, {})
    BY <1>5 DEF HandleWait, Sent
  <2>6. Handled(kind, id, {}, TRUE)
    BY <1>1, <1>4, <2>3, <2>4, <2>5 DEF Handled
  <2>7. QED
    BY <1>2, <2>6, TakenStep
<1>6. CASE ~Pool!Accepts(NewId)
  <2>1. UNCHANGED pool
    BY <1>6 DEF HandleWait, Refuse
  <2>2. PICK r : r = [id |-> id, status |-> "error", errors |-> {}]
    OBVIOUS
  <2>3. r \in Reply /\ r.id = id /\ r.errors = {} /\ replies' = Append(replies, r)
    <3>1. replies' = Append(replies, r)
      BY <1>2, <1>6, <2>2 DEF HandleWait, Refuse, Send
    <3>2. QED
      BY <1>3, <2>2, <3>1 DEF Reply
  <2>4. Sent(id, {r})
    BY <2>3 DEF Sent
  <2>5. /\ PoolInv' /\ UNCHANGED <<stopping, active_ids, joined>>
        /\ \A i : P!Awaited(i)' <=> P!Awaited(i)
    BY <2>1, PoolRests DEF SessionInv
  <2>6. Truthful(r)'
    <3>1. CASE kind = "DeviceIdle"
      BY <1>3, <2>2, <2>3, <3>1 DEF Truthful
    <3>2. CASE kind # "DeviceIdle"
      BY <1>1, <1>2, <1>4, <2>3, <3>2, PlainReply
    <3>3. QED
      BY <3>1, <3>2
  <2>7. Handled(kind, id, {r}, FALSE)
    BY <1>1, <1>4, <2>3, <2>4, <2>5, <2>6 DEF Handled
  <2>8. QED
    BY <1>2, <2>7, TakenStep
<1>7. QED
  BY <1>5, <1>6
-----------------------------------------------------------------------------
LEMMA SessionInit == Init => SessionInv
<1> SUFFICES ASSUME Init  PROVE SessionInv
  OBVIOUS
<1>1. /\ received = <<>> /\ hungup = FALSE /\ signalled = {} /\ control = "serving"
      /\ handshake_complete = FALSE /\ closing = FALSE /\ destroyed = FALSE
      /\ oneway_errors = {} /\ carried = [i \in Ids |-> {}] /\ replies = <<>> /\ P!Init
  BY PoolSame DEF Init
<1>2. PoolInv
  BY <1>1, PoolInitInv
<1>3. active_ids = {} /\ ~stopping /\ \A i : ~P!Awaited(i)
  <2>1. active_ids = {} /\ ~stopping
    BY <1>1 DEF P!Init
  <2>2. QED
    BY <1>2, <2>1, PoolFacts
<1>4. /\ DOMAIN received = {} /\ DOMAIN replies = {} /\ Len(received) = 0
      /\ received \in Seq(AllKinds) /\ replies \in Seq(Reply)
  BY <1>1
<1>5. TypeOK
  <2>1. Pool!TypeOK
    BY <1>2, PoolFacts
  <2>2. Len(received) <= MaxMessages
    BY <1>4, MaxMessagesAssumption
  <2>3. oneway_errors \subseteq Ids /\ carried \in [Ids -> SUBSET Ids] /\ signalled \subseteq Ids
    BY <1>1
  <2>4. QED
    BY <1>1, <1>4, <2>1, <2>2, <2>3 DEF TypeOK
<1>6. ControlInv
  BY <1>1, <1>3 DEF ControlInv
<1>7. AdmitInv /\ AnswerInv
  BY <1>1, <1>3, <1>4 DEF AdmitInv, AnswerInv, HandshakeFirst, Replied
<1>8. ErrorInv /\ ReportInv /\ KeptInv
  BY <1>1, <1>4 DEF ErrorInv, ReportInv, KeptInv
<1>9. QED
  BY <1>2, <1>5, <1>6, <1>7, <1>8 DEF SessionInv

LEMMA SessionStep == SessionInv /\ [Next]_vars => SessionInv'
<1> SUFFICES ASSUME SessionInv, [Next]_vars  PROVE SessionInv'
  OBVIOUS
<1>1. CASE HangUp \/ (\E i \in Ids : Signal(i)) \/ Ended
  BY <1>1, WorldStep
<1>2. CASE \E kind \in Kinds : Handle(kind)
  <2>1. PICK kind \in Kinds : Handle(kind)
    BY <1>2
  <2>2. QED
    BY <2>1, LeaveStep, HandshakeStep, CallStep, CommandStep, SubmitStep, WaitStep DEF Handle
<1>3. CASE Teardown
  BY <1>3, TeardownStep
<1>4. CASE \E w \in Workers : CompleteJob(w) \/ JobThrows(w) \/ WorkerStep(w) \/ SpuriousWake(w)
  BY <1>4, CompleteStep, ThrowStep, WorkStep
<1>5. CASE UNCHANGED vars
  <2>1. /\ UNCHANGED <<lane, replies, control, closing, destroyed, pool>>
        /\ UNCHANGED <<hungup, signalled>>
    BY <1>5 DEF vars
  <2>2. /\ PoolInv' /\ UNCHANGED <<stopping, active_ids, joined>>
        /\ \A i : P!Awaited(i)' <=> P!Awaited(i)
    BY <2>1, PoolRests DEF SessionInv
  <2>3. TypeOK'
    BY <2>1, <2>2, TypeKept DEF SessionInv, TypeOK
  <2>4. ControlInv'
    BY <2>1, <2>2 DEF SessionInv, ControlInv
  <2>5. QED
    BY <2>1, <2>2, <2>3, <2>4, QuietStep
<1>6. QED
  BY <1>1, <1>2, <1>3, <1>4, <1>5 DEF Next

\* What holds of every session, in the form the induction needs.
THEOREM SessionInvariant == Spec => []SessionInv
  BY SessionInit, SessionStep, PTL DEF Spec
-----------------------------------------------------------------------------
\* Every request is answered at most once, by the control lane or by a worker;
\* one that is not yet answered is in the pool; and nothing is done for a client
\* that has not shaken hands (serve and the workers' jobs, session.cpp).
THEOREM RequestsAreAccounted == Spec => []RequestsAccounted
<1>1. SessionInv => RequestsAccounted
  <2> SUFFICES ASSUME SessionInv  PROVE RequestsAccounted
    OBVIOUS
  <2>1. TypeOK /\ HandshakeFirst
    BY DEF SessionInv, AdmitInv
  <2>2. \A i : P!Awaited(i) => InPool(i)
    BY PoolFacts DEF SessionInv
  <2>3. AnsweredOnce
    BY <2>2 DEF SessionInv, AnswerInv, AnsweredOnce
  <2>4. QED
    BY <2>1, <2>3 DEF RequestsAccounted
<1>2. QED
  BY <1>1, SessionInvariant, PTL

\* The session's Vulkan objects are destroyed only when no job that uses them is
\* running or queued (stop() before destroy_session_objects, session.cpp).
THEOREM ObjectsOutliveTheirJobs == Spec => []ObjectsOutliveJobs
<1>1. SessionInv => ObjectsOutliveJobs
  <2> SUFFICES ASSUME SessionInv, destroyed
               PROVE  Pool!Busy = {} /\ jobs = <<>> /\ \A l \in Queues : lane_jobs[l] = <<>>
    BY DEF ObjectsOutliveJobs
  <2>1. joined
    BY DEF SessionInv, ControlInv
  <2>2. QED
    BY <2>1, PoolFacts DEF SessionInv
<1>2. QED
  BY <1>1, SessionInvariant, PTL

\* A reply that reports error i answers a submission, or the vkDeviceWaitIdle that
\* carried it.
LEMMA Reporter ==
  ASSUME SessionInv, NEW i, NEW n \in Reports(i)
  PROVE  /\ n \in DOMAIN replies /\ i \in replies[n].errors
         /\ replies[n].id \in Ids /\ Replied(replies[n].id)
         /\ \/ /\ received[replies[n].id] = "Submit"
               /\ i \notin oneway_errors /\ \A j \in Ids : i \notin carried[j]
            \/ /\ received[replies[n].id] = "DeviceIdle"
               /\ i \in carried[replies[n].id]
<1>1. n \in DOMAIN replies /\ i \in replies[n].errors
  BY DEF Reports
<1>2. replies[n].id \in Ids /\ Replied(replies[n].id)
  BY <1>1, Positions DEF SessionInv, AdmitInv, Replied
<1>3. PICK r : r = replies[n]
  OBVIOUS
<1>4. Truthful(r)
  BY <1>1, <1>3 DEF SessionInv, ReportInv
<1>5. /\ received[r.id] \in {"Submit", "DeviceIdle"}
      /\ received[r.id] = "Submit" => i \notin oneway_errors /\ \A j \in Ids : i \notin carried[j]
  BY <1>1, <1>3, <1>4 DEF Truthful
<1>6. received[r.id] = "DeviceIdle" => i \in carried[r.id]
  <2>1. r = [id |-> r.id, status |-> "error", errors |-> {}] => r.errors = {}
    OBVIOUS
  <2>2. QED
    BY <1>1, <1>3, <1>4, <2>1 DEF Truthful
<1>7. QED
  BY <1>1, <1>2, <1>3, <1>5, <1>6

\* No error of a one-way command is reported twice, and while the session serves
\* none is lost: it is counted, on its way with a vkDeviceWaitIdle, reported, or
\* went with a vkDeviceWaitIdle that the pool refused or with a submission that
\* asks for no answer (mark_oneway_error,
\* take_oneway_errors and the idle handler, session.cpp).
THEOREM ErrorsAreConserved == Spec => []ErrorsConserved
<1>1. SessionInv => ErrorsConserved
  <2> SUFFICES ASSUME SessionInv, NEW i \in DOMAIN received,
                      received[i] = "BadCommand", handshake_complete
               PROVE  /\ Cardinality(Reports(i)) <= 1
                      /\ Reports(i) # {} => ~Counted(i) /\ ~Carried(i)
                      /\ Counted(i) => ~Carried(i)
                      /\ ~closing /\ control = "serving" =>
                           \/ Counted(i) \/ Carried(i) \/ Reports(i) # {} \/ Dropped(i)
                           \/ Silenced(i)
    BY DEF ErrorsConserved
  <2>1. \A j : InPool(j) <=> P!Awaited(j)
    BY PoolFacts DEF SessionInv
  <2>2. ErrorInv /\ ReportInv /\ AnswerInv /\ KeptInv
    BY DEF SessionInv
  <2>3. \A m, n \in Reports(i) : m = n
    <3> SUFFICES ASSUME NEW m \in Reports(i), NEW n \in Reports(i), m # n  PROVE FALSE
      OBVIOUS
    <3>1. /\ m \in DOMAIN replies /\ i \in replies[m].errors /\ replies[m].id \in Ids
          /\ n \in DOMAIN replies /\ i \in replies[n].errors /\ replies[n].id \in Ids
      BY Reporter
    <3>2. replies[m].id # replies[n].id
      BY <2>2, <3>1 DEF AnswerInv
    <3>3. \/ received[replies[m].id] = "Submit" /\ \A j \in Ids : i \notin carried[j]
          \/ i \in carried[replies[m].id]
      BY Reporter
    <3>4. \/ received[replies[n].id] = "Submit" /\ \A j \in Ids : i \notin carried[j]
          \/ i \in carried[replies[n].id]
      BY Reporter
    <3>5. QED
      BY <2>2, <3>1, <3>2, <3>3, <3>4 DEF ErrorInv, ReportInv
  <2>4. Cardinality(Reports(i)) <= 1
    <3>1. CASE Reports(i) = {}
      BY <3>1, FS_EmptySet
    <3>2. CASE Reports(i) # {}
      <4>1. PICK n : Reports(i) = {n}
        BY <2>3, <3>2
      <4>2. QED
        <5>1. Cardinality({n}) = 1
          BY FS_Singleton
        <5>2. QED
          BY <4>1, <5>1
    <3>3. QED
      BY <3>1, <3>2
  <2>5. Counted(i) => ~Carried(i)
    BY <2>2 DEF Counted, Carried, ErrorInv
  <2>6. ASSUME NEW n \in Reports(i)  PROVE ~Counted(i) /\ ~Carried(i)
    <3>1. /\ replies[n].id \in Ids /\ ~P!Awaited(replies[n].id)
          /\ \/ i \notin oneway_errors /\ \A j \in Ids : i \notin carried[j]
             \/ i \in carried[replies[n].id]
      BY <2>2, Reporter DEF AnswerInv
    <3>2. QED
      BY <2>1, <2>2, <3>1 DEF Counted, Carried, ErrorInv
  <2>7. ASSUME ~closing, control = "serving", ~Counted(i), Reports(i) = {}, ~Silenced(i)
        PROVE  Carried(i) \/ Dropped(i)
    <3>1. PICK j \in Ids : i \in carried[j]
      BY <2>2, <2>7 DEF KeptInv, Counted, Reports
    <3>2. j \in DOMAIN received /\ received[j] = "DeviceIdle"
      BY <2>2, <3>1 DEF ErrorInv
    <3>3. Replied(j) \/ P!Awaited(j)
      BY <2>2, <2>7, <3>2 DEF AnswerInv, OnewayKinds, CommandKinds
    <3>4. CASE P!Awaited(j)
      BY <2>1, <3>1, <3>4 DEF Carried
    <3>5. CASE Replied(j)
      <4>1. PICK n \in DOMAIN replies : replies[n].id = j
        BY <3>5 DEF Replied
      <4>2. PICK r : r = replies[n]
        OBVIOUS
      <4>3. r.errors = carried[j] \/ r = [id |-> j, status |-> "error", errors |-> {}]
        BY <2>2, <3>2, <4>1, <4>2 DEF ReportInv, Truthful
      <4>4. r.errors # carried[j]
        BY <2>7, <3>1, <4>1, <4>2 DEF Reports
      <4>5. QED
        BY <3>1, <4>1, <4>2, <4>3, <4>4 DEF Dropped
    <3>6. QED
      BY <3>3, <3>4, <3>5
  <2>8. QED
    BY <2>4, <2>5, <2>6, <2>7
<1>2. QED
  BY <1>1, SessionInvariant, PTL
-----------------------------------------------------------------------------
\* Every step of a session is a step of its worker pool or leaves the pool alone.
LEMMA PoolStep ==
  ASSUME SessionInv, [Next]_vars
  PROVE  [P!Next]_(P!vars)
<1>1. ASSUME UNCHANGED pool  PROVE UNCHANGED P!vars
  BY <1>1, PoolSame DEF pool, P!vars
<1>2. CASE HangUp \/ (\E i \in Ids : Signal(i)) \/ Ended \/ UNCHANGED vars
  <2>1. UNCHANGED pool
    BY <1>2 DEF HangUp, Signal, Ended, vars
  <2>2. QED
    BY <1>1, <2>1
<1>3. ASSUME NEW kind \in Kinds, Handle(kind)  PROVE [P!Next]_(P!vars)
  <2>1. CASE HandleWait(kind) /\ Pool!Accepts(NewId)
    <3>1. PICK l \in LaneOf(kind) : Pool!Submit(NewId, l)
      BY <2>1 DEF HandleWait
    <3>2. NewId \in Ids
      BY <2>1, TakenFacts DEF HandleWait, Accepted
    <3>3. P!Submit(NewId, l) /\ l \in Queues \cup {NoLane}
      BY <3>1, PoolSame DEF LaneOf
    <3>4. QED
      BY <3>2, <3>3 DEF P!Next
  <2>2. CASE ~(HandleWait(kind) /\ Pool!Accepts(NewId))
    <3>1. UNCHANGED pool
      BY <1>3, <2>2 DEF Handle, Refused, LeaveLoop, HandleHandshake, HandleCall, HandleCommand,
         HandleSubmit, HandleWait, Refuse, HandlerThrows
    <3>2. QED
      BY <1>1, <3>1
  <2>3. QED
    BY <2>1, <2>2
<1>4. CASE Teardown
  <2>1. UNCHANGED pool \/ P!Stop \/ P!Join
    BY <1>4, PoolSame DEF Teardown, EndOfStream, LeaveLoop, StopWorkers, JoinWorkers, WorkersJoined,
       DestroySessionObjects
  <2>2. QED
    BY <1>1, <2>1 DEF P!Next
<1>5. ASSUME NEW w \in Workers,
             CompleteJob(w) \/ JobThrows(w) \/ WorkerStep(w) \/ SpuriousWake(w)
      PROVE  [P!Next]_(P!vars)
  <2>1. P!JobReturns(w) \/ P!Work(w) \/ P!SpuriousWake(w)
    BY <1>5, PoolSame DEF CompleteJob, JobThrows, WorkerStep, SpuriousWake
  <2>2. QED
    BY <2>1 DEF P!Next
<1>6. QED
  BY <1>2, <1>3, <1>4, <1>5 DEF Next

\* A session uses its pool only as the pool may be used, so all that is proved of
\* the pool (no lane overtaken or run twice at once, no job forgotten, no wake-up
\* lost) holds of the pool of every session.
THEOREM SessionRunsItsPool == Spec => P!Spec
<1>1. Init => P!Init
  BY PoolSame DEF Init
<1>2. SessionInv /\ [Next]_vars => [P!Next]_(P!vars)
  BY PoolStep
<1>3. QED
  BY <1>1, <1>2, SessionInvariant, PTL DEF Spec, P!Spec
=============================================================================
