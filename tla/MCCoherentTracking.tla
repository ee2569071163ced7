------------------------- MODULE MCCoherentTracking -------------------------
(* Instances of CoherentTracking for TLC.  Batch(writes, waits, signals). *)
EXTENDS CoherentTracking, TLC

CONSTANTS m1, T, U, H, B

Batch(w, ws, ss) == [writes |-> w, waits |-> ws, signals |-> ss]

\* A write, a signal, and batches that pass it on over a second timeline.
ChainBatches ==
  { Batch({m1}, {}, {<<T, 1>>}),
    Batch({}, {<<T, 1>>}, {<<U, 1>>}),
    Batch({}, {<<U, 1>>}, {}) }

\* A batch that waits for a value of a timeline and signals the next one.
StepBatches ==
  { Batch({m1}, {}, {<<T, 1>>}),
    Batch({}, {<<T, 1>>}, {<<T, 2>>}),
    Batch({}, {<<T, 2>>}, {}) }

\* The chain, a binary semaphore, and a timeline that the host signals.
PassingBatches ==
  ChainBatches \cup
  { Batch({m1}, {}, {<<B, 0>>}),
    Batch({m1}, {<<H, 1>>}, {}),
    Batch({}, {<<B, 0>>}, {<<U, 1>>}) }

\* All of them.
AllBatches == PassingBatches \cup StepBatches

Symmetry == Permutations(Queues) \cup Permutations(Threads)
=============================================================================
