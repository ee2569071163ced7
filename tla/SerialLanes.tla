----------------------------- MODULE SerialLanes -----------------------------
(***************************************************************************)
(* What the server's worker pool promises: accepted requests run at most   *)
(* once each; the requests of one lane run one after the other in the      *)
(* order in which they were accepted; requests without a lane are free of  *)
(* any order.  Closing drops every request that has not begun to run.      *)
(***************************************************************************)
EXTENDS Sequences

CONSTANTS Ids, Lanes, NoLane

VARIABLES closed,   \* no request is accepted or started any more
          queue,    \* per lane, the unfinished requests, oldest first
          loose,    \* the requests without a lane that have not begun
          running   \* the requests that run

vars == <<closed, queue, loose, running>>

Init ==
  /\ closed = FALSE
  /\ queue = [l \in Lanes |-> <<>>]
  /\ loose = {}
  /\ running = {}

Unfinished == loose \cup running \cup UNION {{queue[l][i] : i \in DOMAIN queue[l]} : l \in Lanes}

Accept(id, lane) ==
  /\ ~closed /\ id \notin Unfinished
  /\ IF lane = NoLane
       THEN loose' = loose \cup {id} /\ UNCHANGED queue
       ELSE queue' = [queue EXCEPT ![lane] = Append(@, id)] /\ UNCHANGED loose
  /\ UNCHANGED <<closed, running>>

StartLoose(id) ==
  /\ ~closed /\ id \in loose
  /\ loose' = loose \ {id}
  /\ running' = running \cup {id}
  /\ UNCHANGED <<closed, queue>>

StartInLane(l) ==
  /\ ~closed /\ queue[l] # <<>>
  /\ Head(queue[l]) \notin running
  /\ running' = running \cup {Head(queue[l])}
  /\ UNCHANGED <<closed, queue, loose>>

Finish(id) ==
  /\ id \in running
  /\ running' = running \ {id}
  /\ queue' = [l \in Lanes |-> IF queue[l] # <<>> /\ Head(queue[l]) = id
                                 THEN Tail(queue[l]) ELSE queue[l]]
  /\ UNCHANGED <<closed, loose>>

Close ==
  /\ ~closed
  /\ closed' = TRUE
  /\ loose' = {}
  /\ queue' = [l \in Lanes |-> IF queue[l] # <<>> /\ Head(queue[l]) \in running
                                 THEN <<Head(queue[l])>> ELSE <<>>]
  /\ UNCHANGED running

Next ==
  \/ \E id \in Ids, lane \in Lanes \cup {NoLane} : Accept(id, lane)
  \/ \E id \in Ids : StartLoose(id) \/ Finish(id)
  \/ \E l \in Lanes : StartInLane(l)
  \/ Close

Spec == Init /\ [][Next]_vars
=============================================================================
