------------------------------- MODULE Session -------------------------------
(***************************************************************************)
(* One session of the server (Server::serve, src/server/session.cpp).  The *)
(* control lane takes the client's messages in order and answers most of   *)
(* them itself; waits go to the worker pool, of which this module runs an  *)
(* instance; when the client is gone the pool is stopped and the session's *)
(* Vulkan objects are destroyed.                                           *)
(*                                                                         *)
(* A message is modelled by its kind, and the id of a request by the       *)
(* position of the message in the stream, as the client numbers them.  A   *)
(* handler on the control lane is one action: no other thread reads what   *)
(* it writes.  The counter of failed one-way commands is modelled by the   *)
(* set of the messages it counts, so that it can be told which of them a   *)
(* reply reports.                                                          *)
(***************************************************************************)
EXTENDS Naturals, Sequences, FiniteSets

CONSTANTS Kinds,        \* the kinds of message the client sends
          MaxMessages,  \* bound of the model: length of the client's stream
          MayThrow,     \* whether a handler or a job may run out of memory
          Queues, NoLane, Workers, kMaxJobs

HandshakeKinds == {"Handshake",        \* the versions match
                   "BadHandshake",     \* they do not
                   "OnewayHandshake"}  \* a Handshake with request id 0
CallKinds == {"Ping", "Unknown",       \* Unknown: no handler is registered
              "Call",                  \* a call that is neither of the others
              "BadWait",               \* a wait that does not decode
              "Mute"}                  \* a call or a wait with request id 0, but see MuteSubmit
CommandKinds == {"Command", "BadCommand"}  \* sent one-way; a BadCommand fails
WaitKinds == {"DeviceIdle", "QueueIdle",   \* vkDeviceWaitIdle, vkQueueWaitIdle
              "Wait", "TimedWait"}     \* vkWaitForFences, vkWaitSemaphores: endless or not
SubmitKinds == {"Submit",              \* vkQueueSubmit, vkQueueSubmit2, vkQueueBindSparse
                "MuteSubmit"}          \* one of them with request id 0
AllKinds == HandshakeKinds \cup CallKinds \cup CommandKinds \cup WaitKinds \cup SubmitKinds

\* Messages with request id 0, which are never answered.
OnewayKinds == CommandKinds \cup {"OnewayHandshake", "Mute", "MuteSubmit"}

ASSUME KindsAssumption == Kinds \subseteq AllKinds
ASSUME MaxMessagesAssumption == MaxMessages \in Nat \ {0}
ASSUME MayThrowAssumption == MayThrow \in BOOLEAN
ASSUME LanesAssumption == NoLane \notin Queues
ASSUME WorkersAssumption == IsFiniteSet(Workers)
ASSUME MaxJobsAssumption == kMaxJobs \in Nat \ {0}

Ids == 1 .. MaxMessages

VARIABLES received,            \* the messages the control lane has taken
          hungup,              \* the client is gone, or the socket was interrupted
          signalled,           \* endless waits whose condition has come true
          control,             \* where serve() is
          handshake_complete,
          closing,
          oneway_errors,       \* the failed commands not yet reported
          carried,             \* the ones a vkDeviceWaitIdle took along to report
          replies,             \* what was written to the socket
          destroyed            \* destroy_session_objects has run

\* The pool.
VARIABLES stopping, jobs, lane_jobs, active_lanes, active_ids, worker, job, joined

Pool == INSTANCE RequestWorkers WITH Lanes <- Queues

pool == <<stopping, jobs, lane_jobs, active_lanes, active_ids, worker, job, joined>>
lane == <<received, handshake_complete, oneway_errors, carried>>
vars == <<lane, hungup, signalled, control, closing, replies, destroyed, pool>>

Reply == [id : Ids, status : {"ok", "error"}, errors : SUBSET Ids]

TypeOK ==
  /\ received \in Seq(AllKinds) /\ Len(received) <= MaxMessages
  /\ hungup \in BOOLEAN /\ signalled \subseteq Ids
  /\ control \in {"serving", "closing", "unwinding", "destroying", "ended"}
  /\ handshake_complete \in BOOLEAN /\ closing \in BOOLEAN /\ destroyed \in BOOLEAN
  /\ oneway_errors \subseteq Ids /\ carried \in [Ids -> SUBSET Ids]
  /\ replies \in Seq(Reply)
  /\ Pool!TypeOK

Init ==
  /\ received = <<>> /\ hungup = FALSE /\ signalled = {}
  /\ control = "serving"
  /\ handshake_complete = FALSE /\ closing = FALSE /\ destroyed = FALSE
  /\ oneway_errors = {} /\ carried = [i \in Ids |-> {}]
  /\ replies = <<>>
  /\ Pool!Init

-----------------------------------------------------------------------------
\* The client goes away, and the device makes the condition of a wait true.
HangUp ==
  /\ ~hungup
  /\ hungup' = TRUE
  /\ UNCHANGED <<lane, signalled, control, closing, replies, destroyed, pool>>

Signal(i) ==
  /\ i \in DOMAIN received /\ received[i] = "Wait" /\ i \notin signalled
  /\ signalled' = signalled \cup {i}
  /\ UNCHANGED <<lane, hungup, control, closing, replies, destroyed, pool>>

-----------------------------------------------------------------------------
\* The control lane.

\* The checks at the head of the loop.
Gated(kind) ==
  \/ ~handshake_complete /\ kind \notin HandshakeKinds
  \/ handshake_complete /\ kind \in HandshakeKinds
  \/ kind = "OnewayHandshake"

\* recv_message() yields a message.  What the client sent before it went away
\* may still arrive.
Receive(kind) ==
  /\ control = "serving" /\ Len(received) < MaxMessages
  /\ kind \in Kinds
  /\ received' = Append(received, kind)
  /\ UNCHANGED <<hungup, signalled, destroyed>>

Accepted(kind) == Receive(kind) /\ ~Gated(kind)

\* The id of the message being received.
NewId == Len(received) + 1

\* Session::reply and send_message under reply_mutex.
Send(id, status, errs) ==
  replies' = Append(replies, [id |-> id, status |-> status, errors |-> errs])

\* Mutant: the loop is left without setting closing.
LeaveQuietly ==
  /\ control' = "closing"
  /\ UNCHANGED <<closing, handshake_complete, oneway_errors, carried, replies, pool>>

LeaveLoop ==
  /\ control' = "closing"
  /\ closing' = TRUE
  /\ UNCHANGED <<handshake_complete, oneway_errors, carried, replies, pool>>

\* recv_message() fails.
EndOfStream ==
  /\ control = "serving" /\ hungup
  /\ LeaveLoop
  /\ UNCHANGED <<received, hungup, signalled, destroyed>>

\* A message the checks refuse.
Refused(kind) == Receive(kind) /\ Gated(kind) /\ LeaveLoop

HandleHandshake(kind) ==
  /\ kind \in HandshakeKinds /\ Accepted(kind)
  /\ IF kind = "Handshake"
       THEN /\ Send(NewId, "ok", {})
            /\ handshake_complete' = TRUE
            /\ UNCHANGED <<control, closing>>
       ELSE /\ Send(NewId, "error", {})
            /\ control' = "closing" /\ closing' = TRUE
            /\ UNCHANGED handshake_complete
  /\ UNCHANGED <<oneway_errors, carried, pool>>

HandleCall(kind) ==
  /\ kind \in CallKinds /\ Accepted(kind)
  /\ IF kind = "Mute" THEN UNCHANGED replies
     ELSE Send(NewId, IF kind \in {"Ping", "Call"} THEN "ok" ELSE "error", {})
  /\ UNCHANGED <<control, handshake_complete, closing, oneway_errors, carried, pool>>

\* mark_oneway_error, or the validation layer's callback on this thread.
HandleCommand(kind) ==
  /\ kind \in CommandKinds /\ Accepted(kind)
  /\ oneway_errors' = IF kind = "BadCommand" THEN oneway_errors \cup {NewId} ELSE oneway_errors
  /\ UNCHANGED <<control, handshake_complete, closing, carried, replies, pool>>

\* Mutant: the counter is not reset by the report.
HandleSubmitKeepingErrors(kind) ==
  /\ kind \in SubmitKinds /\ Accepted(kind)
  /\ IF kind = "MuteSubmit" THEN UNCHANGED replies ELSE Send(NewId, "ok", oneway_errors)
  /\ UNCHANGED <<control, handshake_complete, closing, oneway_errors, carried, pool>>

\* A submission reports the errors counted since the last report.  One with
\* request id 0 resets the counter although reply() sends nothing.
HandleSubmit(kind) ==
  /\ kind \in SubmitKinds /\ Accepted(kind)
  /\ IF kind = "MuteSubmit" THEN UNCHANGED replies ELSE Send(NewId, "ok", oneway_errors)
  /\ oneway_errors' = {}
  /\ UNCHANGED <<control, handshake_complete, closing, carried, pool>>

\* Mutant: all waits share the lanes of the queues.
LaneShared(kind) == Queues

\* The lane of a wait: the native queue of a vkQueueWaitIdle, or none.
LaneOf(kind) == IF kind = "QueueIdle" THEN Queues ELSE {NoLane}

\* Mutant: a wait the pool refuses is not answered.
RefuseSilently(id) == UNCHANGED <<replies, pool>>

\* submit() returned false.
Refuse(id) == Send(id, "error", {}) /\ UNCHANGED pool

\* A wait is given to the pool.  vkDeviceWaitIdle takes the errors along and
\* resets the counter, before it knows whether the pool accepts the job.
HandleWait(kind) ==
  /\ kind \in WaitKinds /\ Accepted(kind)
  /\ IF kind = "DeviceIdle"
       THEN /\ carried' = [carried EXCEPT ![NewId] = oneway_errors]
            /\ oneway_errors' = {}
       ELSE UNCHANGED <<carried, oneway_errors>>
  /\ IF Pool!Accepts(NewId)
       THEN /\ \E l \in LaneOf(kind) : Pool!Submit(NewId, l)
            /\ UNCHANGED replies
       ELSE Refuse(NewId)
  /\ UNCHANGED <<control, handshake_complete, closing>>

\* The control lane runs out of memory.  The exception leaves serve() by way of the
\* destructors: the pool's stops it, but closing is not set and no Vulkan
\* object is destroyed.
HandlerThrows(kind) ==
  /\ MayThrow /\ Accepted(kind)
  /\ control' = "unwinding"
  /\ UNCHANGED <<handshake_complete, closing, oneway_errors, carried, replies, pool>>

-----------------------------------------------------------------------------
\* The workers.

\* The native wait returns.  The device is assumed to become idle; a wait with
\* a timeout ends; an endless one ends when its condition is true or, being
\* made of slices, when it sees closing.
WaitReturns(id) == received[id] # "Wait" \/ id \in signalled \/ closing

CompleteJob(w) ==
  /\ Pool!JobReturns(w)
  /\ WaitReturns(job[w].id)
  /\ Send(job[w].id, "ok", carried[job[w].id])
  /\ UNCHANGED <<lane, hungup, signalled, control, closing, destroyed>>

\* A job catches an exception: closing is set and nothing is answered.  The
\* socket is interrupted too, but not by the catch (...) of vkWaitForFences and
\* vkWaitSemaphores, after which serve() goes on receiving.
AlwaysInterrupts(w) == received[job[w].id] \in {"DeviceIdle", "QueueIdle"}

JobThrows(w) ==
  /\ MayThrow
  /\ Pool!JobReturns(w)
  /\ closing' = TRUE
  /\ hungup' \in {TRUE, hungup \/ AlwaysInterrupts(w)}
  /\ UNCHANGED <<lane, signalled, control, replies, destroyed>>

WorkerStep(w) ==
  /\ Pool!Work(w)
  /\ UNCHANGED <<lane, hungup, signalled, control, closing, replies, destroyed>>

SpuriousWake(w) ==
  /\ Pool!SpuriousWake(w)
  /\ UNCHANGED <<lane, hungup, signalled, control, closing, replies, destroyed>>

-----------------------------------------------------------------------------
\* The end of serve(), or the unwinding of its stack.
StopWorkers ==
  /\ control \in {"closing", "unwinding"}
  /\ Pool!Stop
  /\ UNCHANGED <<lane, hungup, signalled, control, closing, replies, destroyed>>

\* Mutant: the objects are destroyed while stop() is still waiting.
WorkersLeft == stopping /\ ~joined /\ joined' = TRUE
               /\ UNCHANGED <<stopping, jobs, lane_jobs, active_lanes, active_ids, worker, job>>

WorkersJoined == Pool!Join

JoinWorkers ==
  /\ WorkersJoined
  /\ control' = IF control = "unwinding" THEN "ended" ELSE "destroying"
  /\ UNCHANGED <<lane, hungup, signalled, closing, replies, destroyed>>

DestroySessionObjects ==
  /\ control = "destroying"
  /\ control' = "ended"
  /\ destroyed' = TRUE
  /\ UNCHANGED <<lane, hungup, signalled, closing, replies, pool>>

Ended == control = "ended" /\ UNCHANGED vars

Teardown == EndOfStream \/ StopWorkers \/ JoinWorkers \/ DestroySessionObjects

Handle(kind) ==
  \/ Refused(kind) \/ HandleHandshake(kind) \/ HandleCall(kind) \/ HandleCommand(kind)
  \/ HandleSubmit(kind) \/ HandleWait(kind) \/ HandlerThrows(kind)

Next ==
  \/ HangUp
  \/ \E i \in Ids : Signal(i)
  \/ \E kind \in Kinds : Handle(kind)
  \/ Teardown
  \/ \E w \in Workers : CompleteJob(w) \/ JobThrows(w) \/ WorkerStep(w) \/ SpuriousWake(w)
  \/ Ended

Spec == Init /\ [][Next]_vars

\* The threads run, and what can return returns; nothing obliges the client to
\* send or to leave, nor the device to signal, nor memory to run out.
Fairness ==
  /\ WF_vars(Teardown)
  /\ \A w \in Workers : WF_vars(WorkerStep(w)) /\ WF_vars(CompleteJob(w))
FairSpec == Spec /\ Fairness

-----------------------------------------------------------------------------
Replied(i) == \E n \in DOMAIN replies : replies[n].id = i

\* A worker is in the native wait of request i, or the request is queued for one.
InPool(i) ==
  \/ i \in Pool!QueuedIds \cup UNION {Pool!ParkedIds(l) : l \in Queues}
  \/ \E w \in Workers : worker[w] = "running" /\ job[w].id = i

\* Every request is answered exactly once: none twice, by whichever of the
\* control lane and the workers, and none is forgotten; one that is not yet
\* answered is in the pool, as long as the session is not closing.
AnsweredOnce ==
  /\ \A m, n \in DOMAIN replies : replies[m].id = replies[n].id => m = n
  /\ ~closing /\ control = "serving" =>
       \A i \in DOMAIN received : Replied(i) \/ InPool(i) \/ received[i] \in OnewayKinds

\* Nothing is done for a client before its handshake succeeded: no call is
\* answered and no job reaches the pool unless the first message was a matching
\* handshake, and a second handshake is never answered.
HandshakeFirst ==
  \A i \in Ids : Replied(i) \/ i \in active_ids =>
    /\ (received[i] \in HandshakeKinds) <=> (i = 1)
    /\ i # 1 => received[1] = "Handshake"

\* Where the error of command i is.
Counted(i) == i \in oneway_errors
Carried(i) == \E j \in Ids : i \in carried[j] /\ InPool(j)
Reports(i) == {n \in DOMAIN replies : i \in replies[n].errors}
\* It went with a vkDeviceWaitIdle that the pool refused.
Dropped(i) == \E j \in Ids : /\ i \in carried[j]
                             /\ \E n \in DOMAIN replies : replies[n] = [id |-> j, status |-> "error", errors |-> {}]

\* Its count was reset by a submission that carries request id 0.
Silenced(i) == \E j \in DOMAIN received : i < j /\ received[j] = "MuteSubmit"

\* A failed command is reported at most once, and until then it is counted or
\* on its way with one vkDeviceWaitIdle: no report duplicates or loses it,
\* unless the pool refused the vkDeviceWaitIdle that carried it or a submission
\* asked for no answer.
ErrorsConserved ==
  \A i \in DOMAIN received : received[i] = "BadCommand" /\ handshake_complete =>
    /\ Cardinality(Reports(i)) <= 1
    /\ Reports(i) # {} => ~Counted(i) /\ ~Carried(i)
    /\ Counted(i) => ~Carried(i)
    /\ ~closing /\ control = "serving" =>
         Counted(i) \/ Carried(i) \/ Reports(i) # {} \/ Dropped(i) \/ Silenced(i)

\* What README.md and client/commands.cpp say of failed commands: the next call
\* that waits, vkQueueSubmit or vkDeviceWaitIdle, reports them when it is answered.
ReportedAtNextWait ==
  \A i, j \in DOMAIN received :
    /\ received[i] = "BadCommand" /\ i < j /\ Replied(j)
    /\ received[j] \in {"Submit", "DeviceIdle"}
    /\ \A k \in i + 1 .. j - 1 : received[k] \notin {"Submit", "DeviceIdle"}
    => \E n \in Reports(i) : replies[n].id = j

\* The session's Vulkan objects are destroyed only when no worker is in a wait
\* on one of them and none will start one.
ObjectsOutliveJobs ==
  destroyed => Pool!Busy = {} /\ jobs = <<>> /\ \A l \in Queues : lane_jobs[l] = <<>>

\* A session whose client is gone ends, whatever waits were outstanding, unless
\* the control lane threw.
TeardownCompletes ==
  (hungup \/ control # "serving") ~> control \in {"ended", "unwinding"}

\* What tests/test_sessions.py asks of the server, that it stop when it is
\* terminated: main() shuts the socket down and joins the thread in serve(), so
\* serve() has to return.
ServeReturns == hungup ~> control = "ended"

\* A request that can be answered is answered, unless the session ends or as
\* many endless waits are outstanding as the pool has workers.
EndlessWaits == {i \in active_ids : received[i] = "Wait" /\ i \notin signalled}
AnswerableIsAnswered ==
  \A i \in Ids :
    (InPool(i) /\ (received[i] = "Wait" => i \in signalled)) ~>
      (Replied(i) \/ closing \/ control = "unwinding"
       \/ Cardinality(EndlessWaits) >= Cardinality(Workers))

\* Control lane and workers between them answer each request of an admitted client
\* once, and nothing is done for one that has not shaken hands.
RequestsAccounted == TypeOK /\ HandshakeFirst /\ AnsweredOnce
=============================================================================
