-------------------------- MODULE CoherentTracking --------------------------
(***************************************************************************)
(* Emulated coherent memory needs to know what the device has written.     *)
(* The client (src/client/device.cpp) keeps, for every queue, fence and    *)
(* semaphore, the allocations that the work before it may have written,    *)
(* and downloads them when the application learns that the work is done.   *)
(*                                                                         *)
(* A submission has one batch.  Its planning and its commit are critical   *)
(* sections of metadata_mutex with the round trip to the server between    *)
(* them; the queue's mutex is held throughout.  What the device does is    *)
(* modelled from the Vulkan specification: batches of a queue complete in  *)
(* order, a batch completes after the signals it waits for.                *)
(***************************************************************************)
EXTENDS Naturals, Sequences, FiniteSets

CONSTANTS Threads,    \* application threads
          Queues, Fences, Timelines, Binaries, Memories,
          Batches,    \* the batches the application submits
          EarlyBatches,  \* those it submits before the signals they wait for
          MaxSubmits  \* bound of the model: how many batches are submitted

Semaphores == Timelines \cup Binaries

\* A batch writes the allocations .writes (its host-visible writes) after the
\* waits .waits, pairs of a semaphore and a value, and then signals .signals.
ASSUME BatchesAssumption ==
  \A b \in Batches :
    /\ b.writes \subseteq Memories
    /\ b.waits \subseteq Semaphores \X Nat /\ b.signals \subseteq Semaphores \X Nat
    /\ Cardinality(b.signals) <= 1
ASSUME EarlyBatchesAssumption == EarlyBatches \subseteq Batches
ASSUME MaxSubmitsAssumption == MaxSubmits \in Nat \ {0}

\* The client's metadata.
VARIABLES next_submission_serial,
          queue_writes,  \* per queue: allocations written since it was last idle
          fence_writes,  \* per fence: {} or one record of the work before it
          binary,        \* per binary semaphore: {} or one record
          timeline,      \* per timeline semaphore: the records of its signals
          acquired,      \* per timeline semaphore: the value and writes seen by the host
          pending_waits, \* per semaphore: waits submitted before their signal
          pc             \* what each thread is doing

\* The server and the device.
VARIABLES log,           \* the batches submitted, in order
          done,          \* which of them have completed
          covers,        \* what the completion of each includes
          host_value,    \* per timeline semaphore: value signalled by the host
          fenced         \* per fence: the batch that signals it, or 0

\* What the host may rely on.
VARIABLES seen,          \* pairs of a completed batch and an allocation downloaded since
          known          \* batches that the application knows to be complete

metadata == <<next_submission_serial, queue_writes, fence_writes, binary, timeline,
              acquired, pending_waits>>
device == <<log, done, covers, host_value, fenced>>
vars == <<metadata, device, pc, seen, known>>

Idle == [op |-> "idle"]
Provenance == [value : Nat, queue : Queues, serial : Nat, writes : SUBSET Memories]

TypeOK ==
  /\ next_submission_serial \in Nat
  /\ queue_writes \in [Queues -> SUBSET Memories]
  /\ \A f \in Fences : fence_writes[f] \subseteq Provenance /\ Cardinality(fence_writes[f]) <= 1
  /\ \A s \in Binaries : binary[s] \subseteq Provenance /\ Cardinality(binary[s]) <= 1
  /\ \A s \in Timelines : /\ timeline[s] \in Seq(Provenance)
                          /\ acquired[s].value \in Nat /\ acquired[s].writes \subseteq Memories
  /\ \A s \in Semaphores : pending_waits[s] \subseteq [value : Nat, queue : Queues, serial : Nat]
  /\ done \subseteq DOMAIN log /\ known \subseteq done
  /\ seen \subseteq done \X Memories
  /\ \A f \in Fences : fenced[f] \in 0 .. Len(log)

Init ==
  /\ next_submission_serial = 1
  /\ queue_writes = [q \in Queues |-> {}]
  /\ fence_writes = [f \in Fences |-> {}]
  /\ binary = [s \in Binaries |-> {}]
  /\ timeline = [s \in Timelines |-> <<>>]
  /\ acquired = [s \in Timelines |-> [value |-> 0, writes |-> {}]]
  /\ pending_waits = [s \in Semaphores |-> {}]
  /\ pc = [t \in Threads |-> Idle]
  /\ log = <<>> /\ done = {} /\ covers = <<>>
  /\ host_value = [s \in Timelines |-> 0]
  /\ fenced = [f \in Fences |-> 0]
  /\ seen = {} /\ known = {}

-----------------------------------------------------------------------------
\* The device.  The batch whose signal a wait of batch i on s is for: for a
\* timeline semaphore the completed one with the least sufficient value, for a
\* binary one the last before i.
SignalledBy(s) == {j \in DOMAIN log : \E p \in log[j].signals : p[1] = s}
SignalValue(j) == (CHOOSE p \in log[j].signals : TRUE)[2]
Reached(s, v) == {j \in SignalledBy(s) \cap done : SignalValue(j) >= v}

Sources(i, s, v) ==
  IF s \in Timelines
    THEN {j \in Reached(s, v) : \A k \in Reached(s, v) : SignalValue(j) <= SignalValue(k)}
    ELSE {j \in SignalledBy(s) : j < i /\ \A k \in SignalledBy(s) : k < i => k <= j}

WaitHolds(i, s, v) ==
  IF s \in Timelines THEN host_value[s] >= v \/ Reached(s, v) # {}
  ELSE Sources(i, s, v) # {} /\ Sources(i, s, v) \subseteq done

Earlier(i) == {j \in DOMAIN log : j < i /\ log[j].queue = log[i].queue}

Complete(i) ==
  /\ i \in DOMAIN log \ done
  /\ Earlier(i) \subseteq done
  /\ \A p \in log[i].waits : WaitHolds(i, p[1], p[2])
  /\ done' = done \cup {i}
  /\ covers' = [covers EXCEPT ![i] =
       {i} \cup UNION {covers[j] : j \in Earlier(i) \cup
                                        UNION {Sources(i, p[1], p[2]) : p \in log[i].waits}}]
  /\ UNCHANGED <<metadata, log, host_value, fenced, pc, seen, known>>

-----------------------------------------------------------------------------
\* The application.  Batches already given to the server or on their way.
Underway == {pc[t] : t \in {t \in Threads : pc[t].op \in {"planned", "sent"}}}
Given == {log[i] : i \in DOMAIN log} \cup {u.batch : u \in {u \in Underway : u.op = "planned"}}
Holds(t, q) == pc[t].op # "idle" /\ q \in pc[t].locks

\* Vulkan's rules for using semaphores: a timeline's values increase and each is
\* signalled once; a binary semaphore is waited for once per signal, after the
\* signal was submitted.  A wait for a timeline may be submitted before the signal.
Waiters(s) == {j \in DOMAIN log : \E p \in log[j].waits : p[1] = s}
Signalled(s) == Cardinality(SignalledBy(s)) > Cardinality(Waiters(s))
MaySubmit(q, b) ==
  /\ \A p \in b.waits :
       IF p[1] \in Binaries THEN Signalled(p[1])
       ELSE \/ b \in EarlyBatches \/ host_value[p[1]] >= p[2]
            \/ \E j \in SignalledBy(p[1]) : SignalValue(j) >= p[2]
  /\ \A p \in b.signals :
       IF p[1] \in Binaries THEN ~Signalled(p[1])
       ELSE /\ \A g \in Given : p \notin g.signals
            /\ \/ p[2] = 1 \/ <<p[1], p[2] - 1>> \in b.waits
               \/ \E i \in DOMAIN log : log[i].queue = q /\ <<p[1], p[2] - 1>> \in log[i].signals
  \* a binary semaphore is used by one thread at a time
  /\ \A u \in Underway : \A s \in Binaries :
       ~\E p \in b.waits \cup b.signals, r \in u.batch.waits \cup u.batch.signals :
          p[1] = s /\ r[1] = s

-----------------------------------------------------------------------------
\* vkQueueSubmit and vkQueueSubmit2.

\* The first record of a timeline's signals that reaches v.
FirstReaching(s, v) ==
  {i \in DOMAIN timeline[s] : /\ timeline[s][i].value >= v
                              /\ \A j \in 1 .. i - 1 : timeline[s][j].value < v}

\* Mutant: a wait for a binary semaphore brings nothing along.
BinaryWritesForgotten(s, v) ==
  IF s \in Binaries THEN {}
  ELSE acquired[s].writes \cup UNION {timeline[s][i].writes : i \in FirstReaching(s, v)}

\* The writes a wait brings along, and whether its signal is already known.
WaitWrites(s, v) ==
  IF s \in Binaries THEN UNION {r.writes : r \in binary[s]}
  ELSE acquired[s].writes \cup
         IF acquired[s].value >= v THEN {}
         ELSE UNION {timeline[s][i].writes : i \in FirstReaching(s, v)}

Resolved(s, v) ==
  IF s \in Binaries THEN binary[s] # {}
  ELSE acquired[s].value >= v \/ FirstReaching(s, v) # {}

NextWrites(q, b) ==
  queue_writes[q] \cup b.writes \cup UNION {WaitWrites(p[1], p[2]) : p \in b.waits}

Plan(t, q, b, fs) ==
  /\ pc[t] = Idle /\ ~\E u \in Threads : Holds(u, q)
  /\ next_submission_serial <= MaxSubmits
  /\ MaySubmit(q, b)
  /\ \A f \in fs : fenced[f] = 0 /\ \A u \in Underway : f \notin u.fences
  /\ pc' = [pc EXCEPT ![t] =
       [op |-> "planned", locks |-> {q}, queue |-> q, batch |-> b, fences |-> fs,
        serial |-> next_submission_serial, next |-> NextWrites(q, b),
        waits |-> {p \in b.waits : ~Resolved(p[1], p[2])}]]
  /\ next_submission_serial' = next_submission_serial + 1
  /\ UNCHANGED <<queue_writes, fence_writes, binary, timeline, acquired, pending_waits,
                 device, seen, known>>

\* The server submits the batch and answers; or the submission fails.
Submitted(t) ==
  /\ pc[t].op = "planned"
  /\ log' = Append(log, [queue |-> pc[t].queue, writes |-> pc[t].batch.writes,
                         waits |-> pc[t].batch.waits, signals |-> pc[t].batch.signals])
  /\ covers' = Append(covers, {})
  /\ fenced' = [f \in Fences |-> IF f \in pc[t].fences THEN Len(log) + 1 ELSE fenced[f]]
  /\ pc' = [pc EXCEPT ![t].op = "sent"]
  /\ UNCHANGED <<metadata, done, host_value, seen, known>>

SubmitFails(t) ==
  /\ pc[t].op = "planned"
  /\ pc' = [pc EXCEPT ![t] = Idle]
  /\ UNCHANGED <<metadata, device, seen, known>>

\* Mutant: a signal does not reach the waits submitted before it.
NoneReleased(waits, p) == {}

\* The waits of a semaphore that a signal ends.
Released(waits, p) == {w \in waits : p[1] \in Timelines => w.value <= p[2]}

\* The metadata after the successful submission x.  propagate_queue_writes_locked
\* gives the writes before the signal to what follows the waits it ends: to their
\* queues and to the fences and signals of later batches on them.  (The loop
\* over downstream_semaphores that follows it in the code adds nothing to that.)
Commit(t) ==
  LET x == pc[t]
      waits == [s \in Semaphores |->
                  pending_waits[s] \cup {[value |-> p[2], queue |-> x.queue, serial |-> x.serial]
                                           : p \in {p \in x.waits : p[1] = s}}]
      ended == UNION {Released(waits[p[1]], p) : p \in x.batch.signals}
      Add(r) == IF \E w \in ended : w.queue = r.queue /\ w.serial <= r.serial
                  THEN [r EXCEPT !.writes = @ \cup x.next] ELSE r
      record(v) == [value |-> v, queue |-> x.queue, serial |-> x.serial, writes |-> x.next]
      consumed == {s \in Binaries : \E p \in x.batch.waits : p[1] = s}
      signals(s) == {p \in x.batch.signals : p[1] = s}
  IN
  /\ x.op = "sent"
  /\ queue_writes' = [q \in Queues |->
       (IF q = x.queue THEN x.next ELSE queue_writes[q])
         \cup (IF \E w \in ended : w.queue = q THEN x.next ELSE {})]
  /\ pending_waits' = [s \in Semaphores |->
       waits[s] \ UNION {Released(waits[s], p) : p \in signals(s)}]
  /\ binary' = [s \in Binaries |->
       {Add(r) : r \in IF signals(s) # {} THEN {record(0)}
                       ELSE IF s \in consumed THEN {} ELSE binary[s]}]
  /\ timeline' = [s \in Timelines |->
       LET old == [i \in DOMAIN timeline[s] |-> Add(timeline[s][i])]
       IN  IF signals(s) = {} THEN old
           ELSE Append(old, Add(record((CHOOSE p \in signals(s) : TRUE)[2])))]
  /\ fence_writes' = [f \in Fences |->
       IF f \in x.fences THEN {record(0)} ELSE {Add(r) : r \in fence_writes[f]}]
  /\ pc' = [pc EXCEPT ![t] = Idle]
  /\ UNCHANGED <<next_submission_serial, acquired, device, seen, known>>

-----------------------------------------------------------------------------
\* The application learns that work is done.  First the server says so, then
\* the writes that the metadata names are collected under the mutex, and then
\* they are downloaded and what was recorded of them is dropped.

\* What the answer tells: the batches whose completion is implied.
Observe(t, of, locks, batches) ==
  /\ pc[t] = Idle
  /\ pc' = [pc EXCEPT ![t] = [op |-> "observed", locks |-> locks, of |-> of,
                              batches |-> UNION {covers[i] : i \in batches}]]
  /\ UNCHANGED <<metadata, device, seen, known>>

\* vkWaitForFences and vkGetFenceStatus, once vkQueueSubmit has returned.
ObserveFence(t, f) ==
  /\ fenced[f] \in done /\ \A u \in Underway : f \notin u.fences
  /\ Observe(t, <<"fence", f>>, {}, {fenced[f]})

\* vkWaitSemaphores and vkGetSemaphoreCounterValue, at the value that was waited
\* for or read.
ObserveTimeline(t, s, v) ==
  /\ v >= 1 /\ Reached(s, v) # {}
  /\ Observe(t, <<"timeline", s, v>>, {},
             {j \in Reached(s, v) : \A k \in Reached(s, v) : SignalValue(j) <= SignalValue(k)})

\* vkQueueWaitIdle and vkDeviceWaitIdle; the latter is not called while another
\* thread uses a queue.
ObserveQueue(t, q) ==
  /\ ~\E u \in Threads : Holds(u, q)
  /\ {i \in DOMAIN log : log[i].queue = q} \subseteq done
  /\ Observe(t, <<"queue", q>>, {q}, {i \in DOMAIN log : log[i].queue = q})

ObserveDevice(t) ==
  /\ ~\E u \in Threads, q \in Queues : Holds(u, q)
  /\ DOMAIN log \subseteq done
  /\ Observe(t, <<"device">>, Queues, DOMAIN log)

\* The records of signals up to v.
RecordsUpTo(s, v) == {i \in DOMAIN timeline[s] : timeline[s][i].value <= v}

Collected(of) ==
  CASE of[1] = "fence"    -> UNION {r.writes : r \in fence_writes[of[2]]}
    [] of[1] = "timeline" -> acquired[of[2]].writes \cup
                               UNION {timeline[of[2]][i].writes : i \in RecordsUpTo(of[2], of[3])}
    [] of[1] = "queue"    -> queue_writes[of[2]]
    [] of[1] = "device"   -> Memories

Collect(t) ==
  /\ pc[t].op = "observed"
  /\ pc' = [pc EXCEPT ![t] = [op |-> "collected", locks |-> pc[t].locks, of |-> pc[t].of,
                              batches |-> pc[t].batches, writes |-> Collected(pc[t].of)]]
  /\ UNCHANGED <<metadata, device, seen, known>>

\* acquire_coherent_mapped downloads the allocations as they are now.
Download(writes) == seen' = seen \cup (done \X writes)

LargerOf(a, b) == IF a >= b THEN a ELSE b

\* acquire_timeline_writes, the second critical section.
Acquire(s, v, writes) ==
  /\ acquired' = [acquired EXCEPT ![s] = [value |-> LargerOf(@.value, v),
                                          writes |-> @.writes \cup writes]]
  /\ timeline' = [timeline EXCEPT ![s] = SelectSeq(@, LAMBDA r : r.value > v)]

Return(t) ==
  LET of == pc[t].of IN
  /\ pc[t].op = "collected"
  /\ Download(pc[t].writes)
  /\ known' = known \cup pc[t].batches
  /\ IF of[1] = "timeline" THEN Acquire(of[2], of[3], pc[t].writes)
     ELSE UNCHANGED <<acquired, timeline>>
  /\ queue_writes' = [q \in Queues |-> IF q \in pc[t].locks THEN {} ELSE queue_writes[q]]
  /\ fence_writes' = [f \in Fences |->
       IF of[1] = "device" \/ of = <<"fence", f>> THEN {} ELSE fence_writes[f]]
  /\ pc' = [pc EXCEPT ![t] = Idle]
  /\ UNCHANGED <<next_submission_serial, binary, pending_waits, device>>

\* vkResetFences on a fence whose batch is done.
ResetFence(t, f) ==
  /\ pc[t] = Idle /\ fenced[f] \in done /\ \A u \in Underway : f \notin u.fences
  /\ ~\E u \in Threads : pc[u].op \in {"observed", "collected"} /\ pc[u].of = <<"fence", f>>
  /\ fenced' = [fenced EXCEPT ![f] = 0]
  /\ fence_writes' = [fence_writes EXCEPT ![f] = {}]
  /\ UNCHANGED <<next_submission_serial, queue_writes, binary, timeline, acquired,
                 pending_waits, log, done, covers, host_value, pc, seen, known>>

\* vkSignalSemaphore, on a timeline that no batch signals.
SignalSemaphore(t, s, v) ==
  /\ pc[t] = Idle /\ \A b \in Batches : \A p \in b.signals : p[1] # s
  /\ v > host_value[s]
  /\ host_value' = [host_value EXCEPT ![s] = v]
  /\ pending_waits' = [pending_waits EXCEPT ![s] = {w \in @ : w.value > v}]
  /\ UNCHANGED <<next_submission_serial, queue_writes, fence_writes, binary, timeline, acquired,
                 log, done, covers, fenced, pc, seen, known>>

Values == {p[2] : p \in UNION {b.waits \cup b.signals : b \in Batches}}

Thread(t) ==
  \/ \E q \in Queues, b \in Batches, fs \in {{}} \cup {{f} : f \in Fences} : Plan(t, q, b, fs)
  \/ Submitted(t) \/ SubmitFails(t) \/ Commit(t)
  \/ \E f \in Fences : ObserveFence(t, f) \/ ResetFence(t, f)
  \/ \E s \in Timelines, v \in Values : ObserveTimeline(t, s, v) \/ SignalSemaphore(t, s, v)
  \/ \E q \in Queues : ObserveQueue(t, q)
  \/ ObserveDevice(t) \/ Collect(t) \/ Return(t)

Next ==
  \/ \E i \in 1 .. MaxSubmits : Complete(i)
  \/ \E t \in Threads : Thread(t)

Spec == Init /\ [][Next]_vars

-----------------------------------------------------------------------------
\* Coherence as the application sees it: when a fence, a semaphore or an idle
\* wait has told it that work is done, everything that work and the work before
\* it wrote has been downloaded since it was written.
ObservedIsVisible ==
  \A i \in known : \A m \in log[i].writes : <<i, m>> \in seen

\* No wait is left pending whose signal is already in the metadata: it would
\* never learn of the writes before that signal.
NoMissedSignal ==
  \A s \in Timelines : \A w \in pending_waits[s] :
    /\ acquired[s].value < w.value
    /\ \A i \in DOMAIN timeline[s] : timeline[s][i].value < w.value

\* The records of pending waits are sound at every step of every submission.
WaitsRecorded == TypeOK /\ NoMissedSignal
=============================================================================
