# Verification of vulkan_remote

vulkan_remote lets an application use a Vulkan device of another machine. The
client is a Vulkan driver (ICD) that sends calls over a TCP or Unix socket; the
server executes them. This directory holds TLA+ models of its concurrent and
stateful parts, TLC configurations that check them on small instances, and
proofs checked by TLAPS. File and line references are to the repository.

Contents: 1 inventory, 2 modules and code, 3 runs, 4 fairness, 5 proofs,
6 what the checks found, 7 what is not modelled, 8 plan.

To repeat a check: `tlc -config MCSession.cfg MCSession` for a run (the list is
in `PROJECT.json`), `tlapm <Module>_proofs.tla` for the proofs.

## 1. Inventory

| component | source | state | operations | what is hard | what makes it correct |
|---|---|---|---|---|---|
| connection | `client/remote_objects.*`, `client/icd.cpp` | socket, table of waiting requests, heartbeat | `round_trip`, `try_round_trip`, `send_oneway`, receiver, watchdog, `shutdown` | four kinds of threads, two mutexes, late or missing answers, descriptor reuse | no waiter forgotten, a dead server noticed, nothing done on a closed descriptor |
| session | `server/session.cpp`, handlers | handshake flag, count of failed one-way commands, `closing`, objects | dispatch of a message, waits to the pool, teardown | answers from workers and control lane, client vanishing, exceptions | one answer per request, errors reported, objects outlive the jobs using them |
| worker pool | `server/session.cpp` | run queue, parked jobs per lane, unfinished ids | `submit`, `stop`, worker loop | hand-over of a lane, condition variable, limit of 64 | order within a queue, no job stranded, quiet after `stop` |
| coherent-write tracking | `client/device.cpp` | per queue, fence and semaphore: allocations that may have been written | submissions, waits, fence and semaphore queries, host signals | waits before signals, planning and commit around a round trip | what the application knows to be complete has been downloaded |
| mapped memory | `client/memory.cpp`, `client/remote_objects.cpp`, `server/handlers_memory.cpp` | shadow and baseline of each mapping | allocate, map, flush, invalidate, unmap, publish, refresh | three copies of a byte, device writing meanwhile, failing transfers | shadow and server behave as one memory |
| accept loop | `server/main.cpp` | list of session threads, stop flag | accept, refuse, reap, shut down | signals, thread failures, descriptor reuse | no descriptor lost or confused, the server stops |
| object tables | `server/objects.hpp`, `server/session.*`, handlers | a table per kind of object (id to native handle and owner), maps keyed by handle or id | add, find, take, retire what a pool or a swapchain owned, destroy a device, end a session | ids live for ever, native handles are reused; order of destruction | an id names its own object or none, nothing leaks, nothing is destroyed before what refers to it |
| resource calls | `client/device.cpp`, `client/memory.cpp`, `server/handlers_device.cpp`, `server/handlers_memory.cpp` | none of their own | create, destroy, bind, query | what is decoded, in which order it is checked | arguments arrive as they were given |
| command recording | `client/commands.cpp`, `client/device.cpp`, `server/handlers_command.cpp` | descriptor contents by slot; per command buffer the allocations it may write and those handed to the host | descriptor writes and copies, transfers, draws, render passes, barriers, secondary buffers, begin, reset | descriptors looked up long after they were recorded | what a submission hands to the host is downloaded, nothing else is |
| presentation | `client/wsi.cpp`, `server/handlers_wsi.cpp`, `server/session.cpp` | surfaces of each session, the server's map of windows | create, destroy, acquire, present | lifetimes shared with a window system, one map for all sessions | a surface never outlives its window, no window stays behind |
| server-owned windows | `server/own_window*.cpp`, `client/wsi.cpp` | focus, keys and buttons down, bounded event queue, key repeat | compositor events, polling, replay in the client | three threads around the queue, overflow | keys come up again, a click lands where it happened |
| Wayland proxy | `wayland/proxy_client.cpp`, `wayland/proxy_server.*`, `wayland/wire.*` | a table of objects at each end, the real proxies | forwarding with translation of ids | requests and events crossing, pump thread next to the sessions, loss of the link | the tables agree, a surface in use is not destroyed |
| wire, marshalling | `common/wire.*`, `common/marshal.*`, `common/extension_contract.hpp` | none | encode, decode, pNext chains | two hand-written functions per struct, five tables per extension, cut messages | what is written is read back, what is cut is refused |
| queries | `client/physical_device.cpp`, `client/icd.cpp`, `server/handlers_instance.cpp` | cached list of devices | handshake, properties, features, formats | output chains travel both ways | every node of the caller's chain is filled in, hidden features stay hidden |

How they interact. An application thread calls the driver; the driver's
`Connection` gives the call an id and sends it. The session's control lane
takes messages in order and answers them, except for the four waits
(`vkWaitForFences`, `vkWaitSemaphores`, `vkQueueWaitIdle`,
`vkDeviceWaitIdle`), which go to the pool so that `vkSignalSemaphore`, `Ping`
and the like are not held up; the answer comes from a worker. Recording
commands are sent one-way and their failures are counted. Before a submission
the client publishes its coherent mappings; after learning that work is done it
downloads the allocations the tracking names; which those are was noted while
the commands were recorded. Handles never cross the wire: the client sends ids,
and the session's tables translate them. One accept loop starts a session
thread per client and owns its descriptor. An application that has a Wayland
window reaches the compositor of the server's machine through the proxy, which
is a second connection with no order relative to the first; others are given a
window by the server and poll its input with their presentation calls.

## 2. Modules and code

| module | models | state | actions |
|---|---|---|---|
| `RequestWorkers` | class `RequestWorkers` in `session.cpp` | its members under their names, plus per worker where it is in `run()` and which job it holds | `Submit`, `Stop`, `Join`, `Exit`, `Sleep`, `Take`, `JobReturns`, `Finish`, `SpuriousWake` |
| `SerialLanes` | the promise of the pool, without threads | a queue per lane, unordered jobs, running jobs | `Accept`, `StartLoose`, `StartInLane`, `Finish`, `Close` |
| `Connection` | `Connection` of the client | the members, each thread's place in the code, who holds `send_mutex`, the socket and the peer | see below |
| `Session` | `Server::serve` with the handlers as they affect the session; contains an instance of `RequestWorkers` | messages taken, error count, answers, pool | `HandleCall`, `HandleWait`, `HandleSubmit`, ..., `CompleteJob`, `StopWorkers`, `JoinWorkers`, `DestroySessionObjects` |
| `CoherentTracking` | write provenance in `device.cpp`, with the device as the Vulkan specification describes it | the metadata, the log of batches, what is complete, what was downloaded since | `Plan`, `Submitted`, `SubmitFails`, `Commit`, `Observe*`, `Collect`, `Return`, `ResetFence`, `SignalSemaphore`, `Complete` |
| `MappedMemory` | transfers of one allocation | the bytes in shadow, baseline and server; who may use each byte | `MapMemory`, `Fill`, `MapReady`, `FindRun`, `PublishChunk`, `KeepChunk`, `AcquireChunk`, `FlushChunk`, ... |
| `Acceptor` | `main()` once it listens | the vector of threads, main's place in the code, open descriptor numbers | `TestStop`, `ReapCompleted`, `Poll`, `Accept`, `Admit`, `Refuse`, `CloseListener`, `ShutdownClients`, `JoinClients`, `StopWayland` |
| `ObjectTables` | the tables of one session and every handler that changes them | `tables`, the maps beside them, the objects alive in the driver | `CreateSome`, `DestroySome`, `UseSome`, `TeardownSome`, each a disjunction of handlers |
| `RecordedWrites` | what the client notes of recorded commands, and what the driver is told | descriptor slots on both sides, the note of each command buffer | `UpdateDescriptorSets`, `BindDescriptorSets`, `Draw`, `Transfer`, `BeginRenderPass`, `PipelineBarrier`, `ExecuteCommands`, ... |
| `WindowInput` | input of a server-owned window, from the compositor's event to the application | focus, keys, buttons, queue, what a poll has fetched | `Pump`, `Repeat`, `Poll`, `Deliver`, `DestroySurface` |
| `WaylandProxy` | both programs of the relay | the two object tables, the link, the real proxies | requests, events, accepting and dropping the link |
| `Presentation` | surfaces in several sessions, on top of `WaylandProxy` (which it extends) | `surfaces` of each session, `surface_windows`, `own_windows`, where each handler is | `CreateWaylandSurfaceKHR`, `create_own_window`, `associate_surface`, `handle_DestroySurfaceKHR`, `handle_AcquireNextImageKHR`, ... |
| `Wire` | nothing by itself: the language of the next five | | |
| `PNextChains`, `MarshalStructs` | `marshal.cpp`: allowed chains, and `write_X` and `read_X` for every struct | | |
| `CommandRequests`, `DeviceRequests`, `QueryRequests` | what each call sends and its handler takes apart, with the replies that carry more than a status | | |
| `Codec` | the `Writer` and the `Reader`, which run those programs; output chains | the value, the message, the result | `WriteStruct`, `DeliverWhole`, `DeliverCut`, `ReadStruct`, `write_pnext_output_topology`, `AnswerQuery`, `apply_pnext_output_values` |

`RequestWorkers_proofs`, `Session_proofs`, `Connection_proofs`, `Acceptor_proofs`,
`MappedMemory_proofs`, `RecordedWrites_proofs`, `ObjectTables_proofs` and
`Presentation_proofs` (which also covers `WaylandProxy`) hold the theorems of section 5; no other module has any.

`PROJECT.json` gives the source lines of each definition. Definitions that only
serve as wrong variants of an action (a dropped guard, a missing reset) stand
in front of the action they vary; they are used by no specification and
document what each property is able to detect.

**RequestWorkers.** One action per critical section of `mutex_`. A worker is
`ready` (about to look at the queue with the lock), `sleeping`, `running` a job
without the lock, `finishing`, or `exited`. `NotifyOne` wakes one arbitrary
sleeper, and spurious wake-ups are allowed. `Submit` parks a job whose lane is
active; the epilogue of `run()` passes the lane on or releases it (`Finish`).
`SerialLanes` says what a user of the pool relies on: jobs of one lane start in
the order accepted, one at a time, and none starts after `Close`.
`RunsLanesInOrder` is the refinement.

**Connection.** `round_trip` and `send_oneway` register under `state_mutex`
(`RoundTrip`, `Register`), take `send_mutex` (`Lock`, `TryLock`), send
(`SendOk`, `SendError`) and wait (`Return`). `fail_all` takes two kinds of steps:
it empties the table under the lock (`FailAll`) and then wakes the waiters one
by one (`WakeOne`). The receiver finds a waiter under the lock and wakes it
afterwards (`Receive`, `Deliver`). The watchdog reads conditions, sends a Ping
and waits in separate steps (`WatchdogArms` to `WatchdogShuts`): its timeout
may expire at any moment, so no deadline is relied on for safety. The peer
answers outstanding requests in any order and, as `PeerMoves` permits, babbles
(sends replies nobody asked for), falls silent, stops reading ("clogged", sends
block) or closes. Request ids are reused once no thread, table or message
mentions them; they stand for the 64-bit counter, which does not wrap in
practice.

**Session.** A message is its kind. `Gated` is the handshake gate. The error
counter is a set of the commands it counts, so that lost and repeated reports
can be told apart. Handlers on the control lane are one action each because no
other thread reads what they write before the answer. With `MayThrow` a handler
may run out of memory (`HandlerThrows`), or a job may (`JobThrows`); a job's `catch`
sets `closing` and as a rule interrupts the socket too, but `catch (...)` of the fence and
semaphore waits does not. `MuteSubmit` is a submission with request id 0: it is not
answered, yet resets the counter. This client never sends one.

**CoherentTracking.** The application's calls have three parts: planning under
`metadata_mutex`, the round trip without it, commit under it; `Plan`,
`Submitted` and `Commit` are those steps. An observation takes a ticket
(`Observe*`), collects what has to be downloaded (`Collect`) and downloads
(`Return`). `covers` is the model's own account of what the completion of a
batch implies (through queue order and semaphores); it is computed from the log
and never from the client's records. A batch is a record of writes, waits and
at most one signal. `EarlyBatches` are those the application may submit before
the signal they wait for.

**MappedMemory.** A byte belongs to the host or to the batch it was given to.
The application stores only in bytes it owns, the device writes only bytes it
was given that are `Outputs`: both follow the Vulkan rules. Transfers go chunk
by chunk, and each may fail (`Fails`). `Usage` lists calls that are legal or
nearly so but that this client does not cope with (section 6); the empty set is
the application for which the client is correct.

**Acceptor.** Every loop of `main()` advances one element per step, and signals,
session threads and other users of descriptor numbers (`OtherFile`) move in
between. A number is reused as soon as it is closed. `ServeReturns` is the end
of a session and `PublishDone` the store to its `done` flag after it.

**ObjectTables.** An id is an index into the table of its kind and is never used
again; native handles come from a small set and are given out again as soon as
their object is gone. `live` is the driver's side: which native objects exist,
of which device, pool or swapchain, and which id the client was told for each.
The application respects ownership, but may use an id after destroying the
object. Teardown is one step per table, in the order of
`destroy_device_objects`; a step that destroys something absent, foreign or
still referred to is recorded in `faults`. Kinds that behave alike are exercised
through one of their number, chosen in the configuration; `Exercised` may
name any of them. A query for a swapchain's images may fail at the count
(`CountSwapchainImagesFails`), which leaves an empty entry to be filled later, and a
descriptor set is freed only through the pool it came from.

**RecordedWrites.** `resources` is the client's `descriptor_resources`, `contents`
what the driver holds. `Layout` has an empty binding, so that updates that run on
from one binding into the next must skip it. `device` is exact, per resource,
and is computed from the commands alone; `cb` is the client's note, per
allocation. `submit_writes` is what `vkQueueSubmit` reads from the notes, and
what `CoherentTracking` calls the writes of a batch.

**WindowInput.** `Record` is `record_input`: a motion replaces the motion before
it, a full queue is dropped and flagged. `Pump` handles one compositor event, in
several steps where the code releases the lock in between (stopping and
starting the repeat). `Repeat` looks under one lock and records under another.
`Deliver` is the client's replay. `Settled` is what the application will believe
when everything on its way has been delivered.

**WaylandProxy and Presentation.** Frames cross in both directions. An object of
an interface the tables lack becomes a stub. `Presentation` adds sessions: a
handler is interrupted wherever it releases a lock or calls the driver, so that
the pump thread and other sessions act in between. `own` says whether the server
opens windows itself.

**Wire and Codec.** Writers and readers are straight-line code, so each is written
down as a program: the sequence of its `u32`, `u64`, `bytes`, chain and check
calls. Writer and reader are translated separately, since nothing but the order
of their calls keeps them in step in the code either. `Codec` interprets the
writer's program on a value and the reader's on the tokens that result. Plain
fields carry their own name, so a field that ends in another's place is noticed;
counts, optional pointers, handles and chains have values, since they decide the
shape of a message. Tokens remember their width, and lengths count in
bytes where the readers compare them. Properties sent as one block are
a single value; the descriptor-indexing ones are zeroed by their writer
(`ZeroedBlob`, `marshal.cpp:510`), those of Vulkan 1.2 are sent as they are (`marshal.cpp:507`).

## 3. Runs

| run | instance | states | shows |
|---|---|---|---|
| `request_workers` | 4 requests, 2 lanes, 2 workers, limit 3 | all interleavings, with liveness | pool properties and refinement of `SerialLanes` |
| `connection` | 2 application threads, receiver, watchdog, closer; babbling or closing peer | safety | `TableAccounted`, `NoWaiterLost`, `DescriptorUnused` |
| `connection_live` | 1 application thread; silent, clogged or closing peer | liveness | `SilenceIsNoticed`, `CallersReturn` |
| `session` | 4 messages of 9 sorts, 2 workers, limit 2, exceptions | 327 000, with liveness | one answer each, object lifetime, errors conserved, teardown completes |
| `coherent` | 1 thread, 2 queues, a fence, 3 timelines (one signalled by the host), a binary semaphore, 3 submissions | 1.9 million | `ObservedIsVisible`, `WaitsRecorded` |
| `mapped_memory` | 4 bytes of 2 values, 2 batches, atom 2, chunk 3, gap 2 | 1.1 million | `OneMemory`, `TransfersPublish` |
| `acceptor` | 3 clients, 3 descriptor numbers, limit 2 | 328 000, with liveness | descriptors, reaping, stopping |
| `objects` | 9 kinds of table and what they imply, 5 names, 2 native handles | 260 000 | `OneToOne`, `RecordsAgree`, `TeardownIsClean` |
| `recording` | a primary, a secondary, 2 descriptor sets, a buffer, an image, 2 views, 2 framebuffers, 5 commands | 874 000 | `DescriptorsKnown`, `HandedOverIsNoted`, `NotedIsRecorded` |
| `codec` | every struct, request and reply, arrays and chains of up to 2 | 170 000 | `Understood`, `ShortRefused`, `NoClientHandle`, `HiddenStaysHidden` |
| `input` | a key, a button, 2 places, queue of 2, polls of 1 | 312 000, with liveness | `NothingStuck`, `PointerAgrees`, `KeysComeUp` |
| `presentation` | 2 sessions, 2 surfaces each, 2 windows, 2 handles, 5 Wayland ids, 3 events | 774 000 | `RelayAgrees`, `NativeAlive`, `NoWindowLeftBehind`, `CloseIsOwn` |

Why these bounds suffice for the cases of interest.

* Pool: two workers and three unfinished jobs make a lane with one running and
  two parked jobs next to a busy worker; the fourth request meets the limit
  (64 in the code). The properties proved in section 5 do not depend on bounds.
* Connection: two applications contend for both mutexes and for the last place
  in the table (`kMaxPending = 2`); a third adds no new kind of neighbour. One
  message in flight (`MaxInFlight`) is enough since the receiver handles one at
  a time and the peer chooses the order.
* Session: two endless waits fill the workers and the pool, a third is refused.
  Four messages allow handshake, failing command, wait, idle. The sorts of
  messages left out of `MainKinds` are treated like one that is in it.
* Tracking: the known failures need two or three batches, so does every wrong
  variant of the rules. Three queues are the subject of section 6.
* Memory: four bytes, a gap of two (4096 in the code) and chunks of three (64 MiB)
  with atoms of two give runs that merge, runs that do not, a transfer in two
  chunks with a rounded border and a last chunk that ends with the allocation.
* Acceptor: three clients at a limit of two fill it, are refused and enter after
  a reap; three numbers force reuse.
* Objects: five names are a device, a pool, a child of it, the destruction of
  the pool and a new object that gets the native handle of the old; or two devices with
  children. Two handles make reuse certain.
* Recording: five commands are write, barrier, execution of a secondary, another
  write and another barrier; two updates show a copy of what the same call wrote.
* Codec: counts 0, 1 and 2 (the limit) for every array, each optional pointer absent
  and present, handles live, null and unknown, chains empty, single, double,
  repeated, foreign and too long. All values that differ from the emptiest or the
  fullest in at most two fields are sent; those that differ in one are also cut at every place.
* Input: a queue of two overflows at once, and polls of one leave events behind
  for the next.
* Presentation: two surfaces per session allow destruction and re-creation, two
  handles their reuse by the other session, five ids a surface, its callback
  and their destruction while an event is on its way.

Symmetry is declared over interchangeable threads, workers, batches, queues,
descriptor sets, windows or handles in runs of invariants and action properties
only, never in runs with liveness properties. Action properties
compare states and are unaffected by such renaming.

`CHECK_DEADLOCK FALSE` is set where the system may stop: in `coherent`,
`recording`, `objects` and `presentation` the bounded number of batches,
commands, names or surfaces is used up and everything was destroyed or completed;
in `acceptor` the process has exited.

What the less obvious properties say. Where a name stands for several parts, the
parts are definitions of their own in the module.

* `NothingForgotten`: the set of unfinished ids is exactly what is queued,
  parked or running; and if a job is queued while a worker sleeps, enough
  workers are awake to take what is queued.
* `TableAccounted`: `application_pending` is exactly the number of table
  entries that are not a Ping, in every state outside a critical section, so
  the unsigned counter never wraps and the watchdog never measures the wrong
  thing; and nothing is registered after a failure.
* `NoWaiterLost`: a thread waiting for an answer is in the table, or was marked
  done, or somebody (receiver or a failing thread) has undertaken to wake it.
* `SilenceIsNoticed`: when the peer hangs with a request pending, the call
  returns or the connection fails; a peer that stops reading is excluded since
  the code has no bound there.
* `RequestsAccounted`: each request is answered at most once, and exactly once if the
  session lives long enough; before the handshake nothing else is served.
* `ErrorsConserved`: a failed one-way command is counted, or carried by a
  pending idle wait, or in exactly one report, or was dropped with a refused
  wait, a submission that asks for no answer (`Silenced`) or the end of the session.
* `AnswerableIsAnswered`: a wait whose condition holds is answered, unless
  endless waits occupy every worker or the session ends.
* `ObservedIsVisible`: if the application knows that a batch is complete, every
  allocation the batch wrote has been downloaded after the batch completed.
* `WaitsRecorded`: a wait recorded as pending has no signal submitted that it
  could have been resolved by.
* `OneMemory`: for each byte one copy is authoritative (the shadow while the
  host may read it, else the server's); its value changes only by a store of the host or
  a write of the device. Every transfer is invisible.
* `TransfersPublish`: when a batch runs, the bytes given to it hold on the server what
  the host stored last.
* `SocketsAccounted`: every open socket belongs to a listed session or to the
  connection being admitted, every listed session has its own socket, and the
  number main keeps for it is never somebody else's file.
* `OneToOne`: an id resolves to the object it was given for or to nothing, and no
  object has two ids, whatever was destroyed and whatever handle was reused.
* `RecordsAgree`: the maps beside the tables have an entry for each live object
  of their kind and for no other, with the right owner.
* `TeardownIsClean`: the end of a device or session destroys what exists, each
  thing once, children before parents, the images of a swapchain never, and leaves nothing.
* `DescriptorsKnown`: slot by slot the client's record of a set equals the
  driver's storage descriptors.
* `HandedOverIsNoted` and `NotedIsRecorded` bound the note of a submission from both
  sides: what a barrier of the same buffer (or of the primary, for a secondary)
  hands to the host is in it, and nothing is in it that the buffers as now
  recorded neither write nor name. The second matters as much as
  the first, since a needless download overwrites the application's stores.
* `Understood`: the reader accepts what the writer sent, to the last byte, every
  field in its place and every live id translated; it refuses only what it is meant to;
  and every node of an output chain comes back.
* `ShortRefused`: a message cut anywhere is refused. Seven readers are exceptions
  (`Unguarded`), which section 6 explains.
* `NoClientHandle`: in a whole request that is accepted each handle is a native one or null.
* `HiddenStaysHidden`: features the contract hides are false on the other side, in whichever
  struct they cross, and the limits of update-after-bind zero. That the client refuses
  a device asked for with one of them (`client/device.cpp:176-181`) is not modelled.
* `NothingStuck`: once everything under way is delivered, the application holds no key
  and no button down that the user has released, except a key repeated late (section 6).
* `PointerAgrees`: each press and release is delivered with the pointer where it was,
  and in the end both sides have the pointer in one place, overflow excepted.
* `KeysComeUp`: a released key comes up in an application that goes on presenting.
* `RelayAgrees`: no message on the link names an object or event the other end
  does not know, and after the round trip the server finds the surface.
* `NativeAlive`: a `VkSurfaceKHR`, or a handler about to make one, never refers
  to a window or `wl_surface` that is gone.
* `CloseIsOwn`: a session hears `VK_ERROR_SURFACE_LOST_KHR` only for a window of its own.

## 4. Fairness

* Pool: weak fairness of each worker's steps, of each job returning and of
  `Join`. A thread with the lock available is scheduled; jobs end because
  waits are made of slices that look at `closing` (`session.cpp`), or
  because the device finishes (assumed, section 7).
* Connection: strong fairness of `Progress(t)` for each thread: a thread that
  is again and again able to go on, in spite of competition for
  `send_mutex`, does so in the end. Strong fairness stands for mutexes that do
  not starve a thread for ever. Nothing is assumed of the peer or of the
  application, and the timeout is part of the watchdog's progress.
* Session: weak fairness of the teardown, of each worker's step and of job completion
  when its wait may return. The client and the signalling of a wait's
  condition have none.
* Acceptor: weak fairness of main and of a session ending once its peer is gone or
  its socket was shut down, which is `TeardownCompletes` of `Session` (it
  fails after an exception: section 6). Peers need not leave.
* Input: weak fairness of the second half of a pump step (the thread goes on), and of
  polling and delivery: the client polls whenever it acquires or presents, and
  `KeysComeUp` is about an application that goes on presenting. The user
  and the repeat thread have none.
* The other modules have invariants and action properties only.

## 5. Proofs

Eight modules named `<Module>_proofs` prove what the runs check on small instances for
every value of the constants: any number of threads, workers, lanes, clients, sessions,
ids, handles, bytes, sets and buffers. No bound of a configuration is used. The assumptions are the
named `ASSUME`s of the modules; four theorems also name an assumption on the environment,
given below, without which TLC shows that they fail (section 6).

| module | theorem | property | inductive invariant |
|---|---|---|---|
| `RequestWorkers_proofs` | `TypeCorrect` | `TypeOK` | itself |
| | `LanesAreExclusive`, `LanesAreNotStranded`, `StopQuiesces` | `LaneExclusive`, `LaneNotStranded`, `QuietAfterStop` | `LaneInv` |
| | `NothingIsForgotten` | `NothingForgotten` | `IdInv`, `NoLostWakeup` |
| | `PoolRunsLanesInOrder` | `RunsLanesInOrder` (the refinement of `SerialLanes`) | all of the above |
| `Session_proofs` | `SessionRunsItsPool` | (every step of a session is one of its pool, or none) | |
| | `RequestsAreAccounted`, `ObjectsOutliveTheirJobs`, `ErrorsAreConserved` | `RequestsAccounted`, `ObjectsOutliveJobs`, `ErrorsConserved` | `SessionInv`, with the pool's |
| `Connection_proofs` | `TableIsAccounted`, `NoWaiterIsLost`, `DescriptorIsUnused` | `TableAccounted`, `NoWaiterLost`, `DescriptorUnused` | `ConnInv` |
| `Acceptor_proofs` | `SocketsAreAccounted` | `SocketsAccounted` | `SocketInv` |
| `MappedMemory_proofs` | `TransfersDoPublish` | `TransfersPublish` | `MappedInv` |
| | `ThereIsOneMemory` | `OneMemory` (an action property) | `MappedInv`, `MemInv` |
| `RecordedWrites_proofs` | `DescriptorsAreKnown`, `HandedOverIsAlwaysNoted`, `NotedIsAlwaysRecorded` | `DescriptorsKnown`, `HandedOverIsNoted`, `NotedIsRecorded` | `RecordInv` |
| `ObjectTables_proofs` | `NamesAndObjects`, `TablesAndMaps`, `CleanTeardown` | `OneToOne`, `RecordsAgree`, `TeardownIsClean` | `ObjectsInv` |
| `Presentation_proofs` | `RelayDoesAgree` | `RelayAgrees` | `RelayInv`, `PresentInv` |
| | `NoWindowIsLeftBehind`, `CloseIsItsOwn` | `NoWindowLeftBehind`, `CloseIsOwn` (an action property) | `WindowInv` |
| | `NativeIsAlive` | `NativeAlive` | `AliveInv` |

Each proof has the same shape: `Init` gives the invariant, each action keeps it (one
lemma or step per action, and under it one per conjunct the action can disturb), and the
invariant gives the property. Why the strengthenings are needed:

* **Pool.** Neither lane property is inductive. Exclusiveness can break if a
  lane is passed on by a job that does not hold it; stranding if a lane is
  released while another job of it is active. `LaneInv` adds what the code keeps implicitly:
  the lane of every job in the run queue or in a worker is in `active_lanes`, jobs parked
  under a lane are of that lane, stopping leaves nothing queued or parked, and after the
  join every worker has left. For `NothingForgotten` an id must be in one place
  only and the count within the limit (`IdInv`); that no queued job waits beside a sleeping
  worker (`NoLostWakeup`) is kept by each action on its own, given `LaneInv`. The refinement maps each critical section to one step of
  `SerialLanes` or to none; that the job a worker takes is the first of its lane follows
  from `LaneExclusive` and the order in which parked jobs are passed on.
* **Session.** The pool is an instance. `SessionRunsItsPool` shows that the session drives it
  only through its actions, so the pool's invariants hold of every session and
  are used as lemmas: objects outlive jobs because the join, by `StopQuiesces`, leaves
  nobody behind. `SessionInv` adds where each message taken is: answered, in the pool, or refused.
* **Connection.** `ConnInv` relates each thread's place to the request it is concerned with, the
  table, and the hands through which a waiter passes (`Receive` to `Deliver`, `FailAll` to
  `WakeOne`). `NoWaiterLost` alone is not inductive: a failure between the registration
  and the wait could escape it, so `ServedInv` says the same from the registration on.
* **Acceptor.** `SocketInv` adds that the vector holds every thread that was started, none
  twice, and that a number is open in a peer's name exactly while main keeps it for that
  peer, also between `accept` and admission.
* **Mapped memory.** `MappedInv` says who holds `mapped_mutex`, and of each byte what the three copies
  have in common: the baseline is what the server has, except for bytes just sent and not
  yet kept, and behind a publication's scan the shadow equals the baseline. `TransfersDoPublish` has the hypotheses that the application does not store
  while a thread publishes (`~May("store while publishing")`, which the README of the
  repository excludes) and does not flush coherent memory (finding 4). `MappedInv` says nothing of
  the bytes the device writes. `MemInv` adds them: a byte is *away* from the
  submission of its batch until it is given back (`Away`); every other byte obeys what `MappedInv` says
  of the rest, a byte that is away has no store of the host in its shadow, and of an explicit
  mapping the clean bytes are equal on both sides. `ThereIsOneMemory` follows step by step: each
  either keeps what the host sees of every byte (`MemKept`) or is a store or a write of
  the device. It holds for any number of threads with two hypotheses, the two ways in
  which this client breaks it (the rows of `mapped_memory` in section 6):
  no run being sent takes along another batch's output (`RunsApart`), and no thread
  waits for a batch between the download of a new mapping and `transfer_ready`
  (`MapsUndisturbed`). Both hold throughout the run `mapped_memory`, whose one thread does
  not overtake itself and whose output is the first byte; without either TLC finds a
  counterexample. `Usage = {}` leaves out the calls that the table in section 6 lists.
* **Recorded writes.** The client walks over the layout with a cursor, the driver by
  Vulkan's rule for consecutive bindings; `KeysAreRun` shows that they visit the same slots for
  any layout with increasing binding numbers, empty bindings included. `RecordInv` then says
  that both sides hold the same storage descriptors, and `Agree` relates note and
  record of every buffer, secondary ones too: both directions at once, because a barrier turns
  "noted as written" into "noted as visible". Sets may change only while
  nothing is recorded, which is what keeps a note by set valid.
* **Object tables.** The properties speak of the time between two requests, and of what a
  teardown did wrong; to carry them through a teardown `ObjectsInv` says what holds after each of
  its lines. Handles and told ids are unique within a kind (`UniqueInv`). Every object has its
  device, its parent and references only to its own device's objects (`ShapeInv`): without this the device's own
  tables would not cover what refers to its objects. A name that resolves has its object and an
  object has its name (`NameInv`, `NamedInv`), with two allowances: names of sets and command buffers that went with their
  pool stay until the end of the teardown (`Loose`), and a swapchain's images lose their names before
  they go (`Excused`). Each map has its own clause (`RegInv`, `SetInv`, `BufferInv`,
  `ChainInv`, `ImageInv`). That each teardown line is in order then rests on `TeardownOrder`
  alone: `OrderRefs` shows that every kind stands before all kinds it refers to, and
  `NothingWrong` that a line with nothing left to do before it destroys nothing absent, foreign,
  borrowed or in use; when no line has work left, only queues remain
  (`OnlyQueues`). The assumptions are those of the module: `Handles` is a finite set of non-zero
  numbers, the application keeps to Vulkan's rules of ownership. A device has one queue, a swapchain one
  image, as in the model.
* **Presentation.** `RelayInv` relates the two object tables of the Wayland relay and what is under
  way on the link, in order; `PresentInv` relates each handler's place in the code to what it
  has looked up; `WindowInv` says who answers for each window, and `AliveInv` for each native
  object. `RelayDoesAgree` has no hypothesis. The other three assume that the driver does
  not return a surface handle that is still being released (`~EarlyReuse`, finding 7), and
  `NativeIsAlive` in addition that the application waits for a reply before it
  destroys its `wl_surface` (`Waits`, the last row of the table in section 6).

Only model-checked:

* Liveness (`TeardownCompletes`, `SilenceIsNoticed`, `KeysComeUp` and the others of section 4): the prover has no
  rules for fairness and ENABLED.
* `Codec`: it interprets nested programs with RECURSIVE operators, out of the prover's reach.
* `WindowInput`: what a poll delivers is a fold over the events, whose
  meaning for every queue needs induction over data.
* `CoherentTracking`: it holds for one application thread, as the table in section 6
  shows, and rests on the order of a log of batches.

## 6. What the checks found

Four disagreements between the code and what it or its documentation says. Each is
reproduced by `tlc -config <cfg> <module>`, which ends with the counterexample described.

1. **A refused idle wait loses errors** (`MCSessionLostErrors.cfg`, `ReportedAtNextWait`,
   `session.cpp:680`). The error count is copied and zeroed before
   `submit()` can refuse; the refused `vkDeviceWaitIdle` is answered with an
   error and no later call reports the failed commands, though `README.md:342-345` says
   that the total is reported at the next call that waits.
2. **An exception leaves endless waits behind** (`MCSessionThrow.cfg`, `ServeReturns`,
   `session.cpp:895`). Unwinding destroys the pool before anybody sets `closing`; the
   destructor joins workers in an endless wait. The server cannot stop, and the
   objects of the session are never destroyed.
3. **A batch ends its own early wait** (`MCCoherentStep.cfg`, `ObservedIsVisible`,
   `device.cpp:490`). A batch that waits for value 1 of a timeline and signals value 2,
   submitted before the batch that signals 1, removes its own pending wait at commit.
4. **A flush of coherent memory leaves the baseline behind** (`MCMappedFlush.cfg`,
   `InputsPublished`, `remote_objects.cpp:312`). Store, flush, store the old value back,
   submit: the byte equals the baseline and is not published.

Further ones, met while modelling the other parts. Those without a configuration of
their own appear when the named property is added to the one of the module's run:

5. **A destroyed pool leaves names behind** (`MCObjectNames.cfg`, `CleanRefusal`). The ids of
   the command buffers of a destroyed pool stay in their table. Used afterwards they
   reach the driver with a handle that is gone or by now somebody else's,
   where `objects.hpp:13-15` promises "a clean refusal rather than somebody else's
   object". `OneToOne` leaves these names out.
6. **A barrier speaks for other buffers too** (`MCRecordedAcross.cfg`,
   `EveryHandedOverIsNoted`). A host barrier recorded in a secondary, or in a later buffer
   of the queue, makes earlier writes visible; the client notes barriers buffer by buffer.
7. **A surface handle reused too early** (`MCPresentationReuse.cfg`, `NoWindowLeftBehind`,
   `handlers_wsi.cpp:256`). If the driver gives a destroyed `VkSurfaceKHR` to another session
   before `release_surface_window` has run, that releases the new owner's window.
8. **Cut messages that are accepted** (`EveryShortRefused` in `Codec`).
   `vkCmdPipelineBarrier` (`handlers_command.cpp:463`) and `vkQueueBindSparse`
   (`handlers_device.cpp:193`) take a missing last count for zero, and so do the readers of five replies
   (device list, memory properties, the two sparse-format lists, window events).
9. **A repeat after the release** (`NothingStuckAtAll` in `WindowInput`, `own_window.cpp:443`).
   The repeat thread decides under one lock and records under another; a key released in
   between is pressed again and nothing releases it.
10. **A consumed resize** (`ResizeIsReported` in `Presentation`, `handlers_wsi.cpp:537`).
    Acquisition clears the flag and drops the answer, while `own_window.hpp:201-203`
    says that it answers `VK_SUBOPTIMAL_KHR`.
11. **Probing costs the link** (`ProbingIsHarmless` in `WaylandProxy`). The server keeps stubs so
    that an optional interface may be bound; the client program ends at the first
    request on one (`proxy_client.cpp:217`).

Not a matter of a model: a `vkAllocateCommandBuffers` that cannot be decoded is
never answered (`handlers_command.cpp:69`), and `WaylandProxy::poll` returns true after
the link is gone although `proxy_server.hpp:44-45` says false; the pump loop
(`session.cpp:316`) depends on the true.

The following are shown by the same modules with other constants.

| constants changed | what TLC reports |
|---|---|
| `coherent` with 3 queues, batches `ChainBatches`, all of them early | a signal ends an early wait of one queue but does not reach a third queue that had already waited for that one (`ObservedIsVisible`) |
| `coherent` with two threads | one thread learns of completion between the round trip and the commit of another; or a commit overwrites what was propagated meanwhile |
| `mapped_memory` with `Size = 3`, `Outputs = {1}` | clean bytes between two dirty ones are sent along and overwrite the device's output |
| `mapped_memory` with two threads | a wait between the download and `transfer_ready` of a new mapping skips it; the README of the repository excludes concurrent stores (usage "store while publishing") |
| `Usage` "unmap in flight" | unmapping sends bytes the device has written meanwhile |
| `Usage` "lose stores in unmap" | the failure of the flush in `vkUnmapMemory` is not reported |
| `Usage` "flush stale bytes" | an explicit mapping starts with uninitialized bytes, which a flush of a range not filled sends |
| `Usage` "invalidate coherent memory" | replaces stores not yet published |
| `input` with two pollers | two threads apply their answers in either order, a press after its release (`NothingStuck`) |
| `presentation` with `Waits = FALSE` | an application that destroys its `wl_surface` right after the one-way `vkDestroySurfaceKHR` overtakes it (`NativeAlive`) |

## 7. What is not modelled

* Time. Timeouts may fire at any moment; the length of the heartbeat interval relative
  to a slow handler is a hazard without a property.
* A bound on the handshake. The heartbeat is enabled after it (`icd.cpp:255`), and
  `SilenceIsNoticed` speaks of calls made from then on: a server that accepts and
  stays quiet during the handshake is waited for without end.
* The driver. The device completes what can complete; `vkQueueWaitIdle` and
  `vkDeviceWaitIdle` return. Nothing in the code bounds them. A swapchain has as many
  images as the driver announced, and retirement of an old one is not kept.
* The bytes themselves. The codec has tokens with a width; endianness and the loops of
  `send_message` and `receive_message` around system calls are left out, and
  elsewhere the wire is taken as whole messages. Pointers inside a
  structure sent as raw bytes are not told apart from data.
* Several batches per submission and several allocations per transfer.
* Sparse binding beyond the form of its request: the features are hidden from
  applications, and memory bound that way is unknown to the client's records.
* A second link of the Wayland proxy after the first was lost: it inherits the
  table of the first (`proxy_server.cpp:139`). Descriptors sent along with
  messages, a compositor that refuses a request, failing marshalling.
* The sizes of windows, drawing of frames and cursors, and the Win32 back end, which
  implements the same interface.
* The list of physical devices, filled without a lock by whoever is first
  (`physical_device.cpp:42`).
* Sample programs, launchers, test drivers: read as statements of intent.

## 8. Plan

Done, in this order: the pool with its abstract specification and first
proofs; the connection; the session that composes the pool; coherent
tracking; mapped memory; the accept loop; object tables; recorded writes; window input;
the codec with structs, chains, requests and replies; the Wayland proxy and, on top of it, presentation.

Models that would add most: `Connection` with `Session`, for the heartbeat against a slow
control lane; `RecordedWrites` with `Session`, for one-way requests that are
refused after the client has changed its records; a second link of the proxy.

Proofs that remain: what of `CoherentTracking` holds for one thread and every number of
batches. The rest of what section 5 lists as only model-checked is out of the
prover's reach.
