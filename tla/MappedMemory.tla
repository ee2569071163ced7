---------------------------- MODULE MappedMemory ----------------------------
(***************************************************************************)
(* Mapped memory (src/client/memory.cpp, src/client/remote_objects.cpp,    *)
(* src/server/handlers_memory.cpp).  vkMapMemory returns a shadow of the   *)
(* allocation, which lives on the server.  The application moves bytes by  *)
(* explicit flush and invalidate calls, or, when the allocation emulates   *)
(* HOST_COHERENT, the client does: it keeps the baseline (the bytes both   *)
(* sides last agreed on), publishes what differs from it before a          *)
(* submission and refreshes the shadow when work is seen to be complete.   *)
(*                                                                         *)
(* One allocation with at most one mapping.  A batch of work is given some *)
(* bytes when it is submitted; until the application has waited for it the *)
(* device may read them and write those that are Outputs, and the          *)
(* application leaves them alone.  Transfers are made in chunks; a chunk   *)
(* is one request to the server.                                           *)
(***************************************************************************)
EXTENDS Naturals, FiniteSets, FiniteSetsExt

CONSTANTS Threads,          \* application threads
          Size,             \* bytes of the allocation
          Values,           \* what a byte can hold
          Outputs,          \* the bytes the device writes
          MapRanges,        \* the ranges it maps
          Batches,          \* submissions in flight at one time
          kMaxMappedChunk,  \* largest transfer
          Atom,             \* nonCoherentAtomSize
          Gap,              \* equal bytes that end a run of differing ones, 4096
          Usage             \* what the application does although this client does
                            \* not cope with it: the calls that ask May

Bytes == 0 .. Size - 1
Host == "host"

ASSUME SizeAssumption == Size \in Nat \ {0} /\ Gap \in Nat \ {0}
ASSUME ChunkAssumption == /\ Atom \in Nat \ {0} /\ kMaxMappedChunk \in Nat
                          /\ kMaxMappedChunk >= Atom
ASSUME ValuesAssumption == 0 \in Values
ASSUME MapRangesAssumption ==
  \A r \in MapRanges : \E lo, hi \in Bytes : lo <= hi /\ r = lo .. hi
ASSUME OutputsAssumption == Outputs \subseteq Bytes /\ Host \notin Batches

May(call) == call \in Usage

VARIABLES allocation, \* "none", or how it is synchronized: "coherent", "explicit"
          server,     \* the allocation's contents
          mapping,    \* the bytes that are mapped
          ready,      \* transfer_ready
          shadow, baseline,
          pc          \* per thread: the call it is in, and the bytes it has left

\* The application and the device.
VARIABLES status,     \* per batch: "none", "handing", "running", "done", "returning"
          owner,      \* per byte: Host, or the batch it was given to
          explicit    \* per byte of an explicit mapping: "clean", or "stored" and not
                      \* flushed since, or "stale": not read from the server since

memory == <<allocation, server>>
client == <<mapping, ready, shadow, baseline>>
use == <<status, owner, explicit>>
vars == <<memory, client, pc, use>>

Idle == [op |-> "idle", todo |-> {}, run |-> {}, batch |-> Host]
Call(op, todo, batch) == [op |-> op, todo |-> todo, run |-> {}, batch |-> batch]

\* The calls that hold mapped_mutex.
Locking == {"publish", "keep", "acquire", "flush", "download", "fill", "unmap"}
Unlocked(t) == ~\E u \in Threads \ {t} : pc[u].op \in Locking
\* vkMapMemory, vkUnmapMemory and vkFreeMemory are not called at the same time.
Alone(t) == ~\E u \in Threads \ {t} : pc[u].op \in {"pushed", "fill", "filled", "unmap"}

TypeOK ==
  /\ allocation \in {"none", "coherent", "explicit"}
  /\ server \in [Bytes -> Values] /\ shadow \in [Bytes -> Values]
  /\ baseline \in [Bytes -> Values]
  /\ mapping \subseteq Bytes /\ ready \in BOOLEAN /\ (ready => mapping # {})
  /\ \A t \in Threads :
       /\ pc[t].op \in {"idle", "pushed", "filled"} \cup Locking
       /\ pc[t].todo \cup pc[t].run \subseteq mapping
  /\ status \in [Batches -> {"none", "handing", "running", "done", "returning"}]
  /\ \A b \in Bytes : owner[b] # Host => owner[b] \in Batches /\ status[owner[b]] # "none"
  /\ explicit \in [Bytes -> {"clean", "stored", "stale"}]

Init ==
  /\ allocation = "none"
  /\ server = [b \in Bytes |-> 0]
  /\ mapping = {} /\ ready = FALSE
  /\ shadow = [b \in Bytes |-> 0] /\ baseline = [b \in Bytes |-> 0]
  /\ pc = [t \in Threads |-> Idle]
  /\ status = [c \in Batches |-> "none"]
  /\ owner = [b \in Bytes |-> Host]
  /\ explicit = [b \in Bytes |-> "clean"]

\* f with the bytes of s taken from g.
Copy(f, g, s) == [b \in Bytes |-> IF b \in s THEN g[b] ELSE f[b]]

\* The server's side of a request: it writes the bytes that came with it, or
\* returns its own, here into f.
Upload(chunk) == server' = Copy(server, shadow, chunk)
Downloaded(f, chunk) == Copy(f, server, chunk)

Step(t, op, todo, run) == pc' = [pc EXCEPT ![t] = [@ EXCEPT !.op = op, !.todo = todo, !.run = run]]
Done(t) == pc' = [pc EXCEPT ![t] = Idle]

\* The next request of a transfer: explicit transfers end at an atom unless they
\* are the last one.
Chunk(todo) == {b \in todo : b < Min(todo) + kMaxMappedChunk}
AtomChunk(todo) ==
  IF Chunk(todo) = todo THEN todo
  ELSE {b \in todo : b < Min(todo) + (kMaxMappedChunk - (kMaxMappedChunk % Atom))}

-----------------------------------------------------------------------------
\* The application's memory accesses, and the device.
HostStore(b, v) ==
  /\ ready /\ b \in mapping /\ owner[b] = Host
  /\ \E t \in Threads : pc[t].op = "idle" /\ (Unlocked(t) \/ May("store while publishing"))
  /\ shadow' = [shadow EXCEPT ![b] = v]
  /\ explicit' = [explicit EXCEPT ![b] = IF allocation = "explicit" THEN "stored" ELSE @]
  /\ UNCHANGED <<memory, mapping, ready, baseline, pc, status, owner>>

DeviceWrite(b, v) ==
  /\ b \in Outputs /\ owner[b] # Host /\ status[owner[b]] = "running"
  /\ server' = [server EXCEPT ![b] = v]
  /\ UNCHANGED <<allocation, client, pc, use>>

DeviceDone(c) ==
  /\ status[c] = "running"
  /\ status' = [status EXCEPT ![c] = "done"]
  /\ UNCHANGED <<memory, client, pc, owner, explicit>>

-----------------------------------------------------------------------------
\* vkAllocateMemory and vkFreeMemory.  The server chooses the memory type's flags.
AllocateMemory(t) ==
  /\ pc[t] = Idle /\ allocation = "none"
  /\ allocation' \in {"coherent", "explicit"}
  /\ server' \in [Bytes -> Values]
  /\ UNCHANGED <<client, pc, use>>

\* The mapping, as the application's calls leave it behind.
Erase ==
  /\ mapping' = {} /\ ready' = FALSE
  /\ shadow' = [b \in Bytes |-> 0] /\ baseline' = [b \in Bytes |-> 0]
  /\ explicit' = [b \in Bytes |-> "clean"]

FreeMemory(t) ==
  /\ pc[t] = Idle /\ Unlocked(t) /\ Alone(t) /\ allocation # "none"
  /\ \A b \in Bytes : owner[b] = Host
  /\ allocation' = "none"
  /\ Erase
  /\ UNCHANGED <<server, pc, status, owner>>

\* vkMapMemory.  malloc leaves anything in the shadow.
MapMemory(t, range) ==
  /\ pc[t] = Idle /\ Unlocked(t) /\ Alone(t)
  /\ allocation # "none" /\ mapping = {}
  /\ mapping' = range
  /\ ready' = (allocation = "explicit")
  /\ \E garbage \in [Bytes -> Values] : shadow' = Copy(shadow, garbage, range)
  /\ explicit' = [b \in Bytes |-> IF allocation = "explicit" /\ b \in range THEN "stale" ELSE "clean"]
  /\ pc' = [pc EXCEPT ![t] = IF allocation = "coherent" THEN Call("pushed", range, Host) ELSE Idle]
  /\ UNCHANGED <<memory, baseline, status, owner>>

Fill(t) ==
  /\ pc[t].op = "pushed" /\ Unlocked(t)
  /\ Step(t, "fill", pc[t].todo, {})
  /\ UNCHANGED <<memory, client, use>>

MapReady(t) ==
  /\ pc[t].op = "filled" /\ Unlocked(t)
  /\ baseline' = Copy(baseline, shadow, mapping)
  /\ ready' = TRUE
  /\ Done(t)
  /\ UNCHANGED <<memory, mapping, shadow, use>>

\* vkUnmapMemory: a coherent mapping is flushed first, whole.
UnmapMemory(t) ==
  /\ pc[t] = Idle /\ Unlocked(t) /\ Alone(t) /\ ready
  /\ \A b \in mapping : explicit[b] # "stored"
  /\ allocation = "coherent" /\ ~May("unmap in flight") => \A b \in mapping : owner[b] = Host
  /\ IF allocation = "coherent"
       THEN pc' = [pc EXCEPT ![t] = Call("unmap", mapping, Host)] /\ UNCHANGED <<client, explicit>>
       ELSE Erase /\ UNCHANGED pc
  /\ UNCHANGED <<memory, status, owner>>

Unmapped(t) ==
  /\ pc[t].op = "unmap" /\ pc[t].todo = {}
  /\ Erase /\ Done(t)
  /\ UNCHANGED <<memory, status, owner>>

-----------------------------------------------------------------------------
\* vkFlushMappedMemoryRanges and vkInvalidateMappedMemoryRanges.  Ranges of
\* explicit memory consist of whole atoms.
Ranges == {lo .. hi : lo \in Bytes, hi \in Bytes} \ {{}}
AtomAligned(range) ==
  /\ Min(range) % Atom = 0
  /\ Max(range) = Size - 1 \/ (Max(range) + 1) % Atom = 0
ValidRange(range) == range \subseteq mapping /\ (allocation = "explicit" => AtomAligned(range))

Agreed(range) == allocation = "coherent" => \A b \in range : shadow[b] = baseline[b]

FlushMappedMemoryRanges(t, range) ==
  /\ pc[t] = Idle /\ Unlocked(t) /\ ready /\ ValidRange(range)
  /\ \A b \in range : owner[b] = Host
  /\ May("flush stale bytes") \/ \A b \in range : explicit[b] # "stale"
  /\ May("flush coherent memory") \/ Agreed(range)
  /\ pc' = [pc EXCEPT ![t] = Call("flush", range, Host)]
  /\ UNCHANGED <<memory, client, use>>

InvalidateMappedMemoryRanges(t, range) ==
  /\ pc[t] = Idle /\ Unlocked(t) /\ ready /\ ValidRange(range)
  /\ \A b \in range : owner[b] = Host /\ explicit[b] # "stored"
  /\ May("invalidate coherent memory") \/ Agreed(range)
  /\ pc' = [pc EXCEPT ![t] = Call("download", range, Host)]
  /\ UNCHANGED <<memory, client, use>>

\* flush_mapped: one request.  The baseline stays as it is.
FlushChunk(t) ==
  LET chunk == AtomChunk(pc[t].todo) IN
  /\ pc[t].op \in {"flush", "unmap"} /\ pc[t].todo # {}
  /\ Upload(chunk)
  /\ explicit' = [b \in Bytes |-> IF b \in chunk THEN "clean" ELSE explicit[b]]
  /\ Step(t, pc[t].op, pc[t].todo \ chunk, {})
  /\ UNCHANGED <<allocation, client, status, owner>>

\* download_mapped: one request.
DownloadChunk(t) ==
  LET chunk == AtomChunk(pc[t].todo) IN
  /\ pc[t].op \in {"download", "fill"} /\ pc[t].todo # {}
  /\ shadow' = Downloaded(shadow, chunk)
  /\ baseline' = IF allocation = "coherent" THEN Downloaded(baseline, chunk) ELSE baseline
  /\ explicit' = [b \in Bytes |-> IF b \in chunk THEN "clean" ELSE explicit[b]]
  /\ Step(t, pc[t].op, pc[t].todo \ chunk, {})
  /\ UNCHANGED <<memory, mapping, ready, status, owner>>

Transferred(t) ==
  /\ pc[t].op \in {"flush", "download", "fill"} /\ pc[t].todo = {}
  /\ IF pc[t].op = "fill" THEN Step(t, "filled", {}, {}) ELSE Done(t)
  /\ UNCHANGED <<memory, client, use>>

-----------------------------------------------------------------------------
\* vkQueueSubmit, vkQueueSubmit2: publish_coherent_mapped, then the submission.

\* The bytes of s the host has stored to since both sides agreed.
Dirty(s) == {b \in s : shadow[b] # baseline[b]}

\* A run of bytes to send starts at a dirty byte and ends before Gap clean ones.
RunEnd(begin) ==
  Min({e \in begin + 1 .. Max(mapping) + 1 : Dirty(mapping) \cap (e .. e + Gap - 1) = {}})

Submit(t, c, given) ==
  /\ pc[t] = Idle /\ Unlocked(t) /\ allocation # "none"
  /\ status[c] = "none" /\ given # {}
  /\ \A b \in given : owner[b] = Host /\ explicit[b] # "stored"
  /\ status' = [status EXCEPT ![c] = "handing"]
  /\ owner' = [b \in Bytes |-> IF b \in given THEN c ELSE owner[b]]
  /\ pc' = [pc EXCEPT ![t] =
       Call("publish", IF allocation = "coherent" /\ ready THEN mapping ELSE {}, c)]
  /\ UNCHANGED <<memory, client, explicit>>

\* Look for the next run, unless one is half sent.
FindRun(t) ==
  LET todo == pc[t].todo
      begin == Min(Dirty(todo))
      end == RunEnd(begin)
  IN
  /\ pc[t].op = "publish" /\ pc[t].run = {} /\ Dirty(todo) # {}
  /\ Step(t, "publish", {b \in todo : b >= end}, {b \in todo : begin <= b /\ b < end})
  /\ UNCHANGED <<memory, client, use>>

\* The request carries the shadow's bytes; the reply makes them the baseline.
PublishChunk(t) ==
  /\ pc[t].op = "publish" /\ pc[t].run # {}
  /\ Upload(Chunk(pc[t].run))
  /\ Step(t, "keep", pc[t].todo, pc[t].run)
  /\ UNCHANGED <<allocation, client, use>>

\* Mutant: the first reply makes the whole shadow the baseline.
KeepAll(chunk) == baseline' = Copy(baseline, shadow, mapping)

Keep(chunk) == baseline' = Copy(baseline, shadow, chunk)

KeepChunk(t) ==
  LET chunk == Chunk(pc[t].run) IN
  /\ pc[t].op = "keep"
  /\ Keep(chunk)
  /\ Step(t, "publish", pc[t].todo, pc[t].run \ chunk)
  /\ UNCHANGED <<memory, mapping, ready, shadow, use>>

Submitted(t) ==
  /\ pc[t].op = "publish" /\ pc[t].run = {} /\ Dirty(pc[t].todo) = {}
  /\ status' = [status EXCEPT ![pc[t].batch] = "running"]
  /\ Done(t)
  /\ UNCHANGED <<memory, client, owner, explicit>>

-----------------------------------------------------------------------------
\* The waits that observe completion: acquire_coherent_mapped.
Wait(t, c) ==
  /\ pc[t] = Idle /\ Unlocked(t) /\ status[c] = "done"
  /\ status' = [status EXCEPT ![c] = "returning"]
  /\ pc' = [pc EXCEPT ![t] =
       Call("acquire", IF allocation = "coherent" /\ ready THEN mapping ELSE {}, c)]
  /\ UNCHANGED <<memory, client, owner, explicit>>

\* Mutant: host stores are replaced as well.
ReplaceAll(chunk) == shadow' = Downloaded(shadow, chunk)

\* Bytes the host has not touched are replaced.
Refresh(chunk) == shadow' = Downloaded(shadow, chunk \ Dirty(chunk))

AcquireChunk(t) ==
  LET chunk == Chunk(pc[t].todo) IN
  /\ pc[t].op = "acquire" /\ pc[t].todo # {}
  /\ Refresh(chunk)
  /\ baseline' = Downloaded(baseline, chunk)
  /\ Step(t, "acquire", pc[t].todo \ chunk, {})
  /\ UNCHANGED <<memory, mapping, ready, use>>

\* The bytes of a batch go back to the host.
Returned(c) == [b \in Bytes |-> IF owner[b] = c THEN Host ELSE owner[b]]

Return(t) ==
  LET c == pc[t].batch IN
  /\ pc[t].op = "acquire" /\ pc[t].todo = {}
  /\ status' = [status EXCEPT ![c] = "none"]
  /\ owner' = Returned(c)
  /\ explicit' = [b \in Bytes |->
       IF allocation = "explicit" /\ owner[b] = c /\ b \in Outputs \cap mapping
         THEN "stale" ELSE explicit[b]]
  /\ Done(t)
  /\ UNCHANGED <<memory, client>>

-----------------------------------------------------------------------------
\* A request fails: the call gives up and says so, except vkUnmapMemory, which
\* has no result and goes on.
Fails(t) ==
  LET x == pc[t] IN
  /\ UNCHANGED memory
  /\ \/ /\ x.op = "publish" /\ x.run # {}
        /\ status' = [status EXCEPT ![x.batch] = "none"] /\ owner' = Returned(x.batch)
        /\ Done(t) /\ UNCHANGED <<client, explicit>>
     \/ /\ x.op = "acquire" /\ x.todo # {}
        /\ status' = [status EXCEPT ![x.batch] = "done"]
        /\ Done(t) /\ UNCHANGED <<client, owner, explicit>>
     \/ /\ x.op \in {"flush", "download"} /\ x.todo # {}
        /\ Done(t) /\ UNCHANGED <<client, use>>
     \/ /\ x.op = "fill" /\ x.todo # {}
        /\ Erase /\ Done(t) /\ UNCHANGED <<status, owner>>
     \/ /\ x.op = "unmap" /\ x.todo # {}
        /\ May("lose stores in unmap") \/ Agreed(x.todo)
        /\ Step(t, "unmap", {}, {}) /\ UNCHANGED <<client, use>>

Thread(t) ==
  \/ AllocateMemory(t) \/ FreeMemory(t)
  \/ \E range \in MapRanges : MapMemory(t, range)
  \/ \E range \in Ranges : \/ FlushMappedMemoryRanges(t, range)
                           \/ InvalidateMappedMemoryRanges(t, range)
  \/ Fill(t) \/ MapReady(t) \/ UnmapMemory(t) \/ Unmapped(t)
  \/ FlushChunk(t) \/ DownloadChunk(t) \/ Transferred(t)
  \/ \E c \in Batches : \/ \E given \in SUBSET Bytes : Submit(t, c, given)
                        \/ Wait(t, c)
  \/ FindRun(t) \/ PublishChunk(t) \/ KeepChunk(t) \/ Submitted(t)
  \/ AcquireChunk(t) \/ Return(t) \/ Fails(t)

Next ==
  \/ \E t \in Threads : Thread(t)
  \/ \E b \in Bytes, v \in Values : HostStore(b, v) \/ DeviceWrite(b, v)
  \/ \E c \in Batches : DeviceDone(c)

Spec == Init /\ [][Next]_vars

-----------------------------------------------------------------------------
\* The memory the application sees: its shadow of the bytes that are its own
\* and up to date, the server's of all others.
HostReads(b) ==
  /\ ready /\ b \in mapping /\ explicit[b] # "stale"
  /\ owner[b] # Host => status[owner[b]] = "handing"
Mem == [b \in Bytes |-> IF HostReads(b) THEN shadow[b] ELSE server[b]]

\* There is one memory: its contents change only by the stores of the host and
\* the writes of the device, and as they say.  No publication, refresh, flush,
\* invalidation, mapping or unmapping, no submission and no completion loses a
\* store, brings an old value back or overwrites the other side's output.
OneMemory ==
  [][\/ Mem' = Mem
     \/ allocation' # allocation
     \/ \E b \in Bytes, v \in Values :
          (HostStore(b, v) \/ DeviceWrite(b, v)) /\ Mem' = [Mem EXCEPT ![b] = v]]_vars

\* What README.md says of coherent mappings: they are complete on the server when
\* work is submitted.  A byte that was given to a batch and that the device does
\* not write is the same on both sides while the batch runs.
InputsPublished ==
  \A b \in mapping \ Outputs :
    ready /\ allocation = "coherent" /\ owner[b] # Host /\ status[owner[b]] = "running"
      => server[b] = shadow[b]

\* The transfer in progress stays within its mapping, and what it is for is reached:
\* the batch that runs finds the host's stores.
TransfersPublish == TypeOK /\ InputsPublished
=============================================================================
