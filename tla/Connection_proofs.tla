-------------------------- MODULE Connection_proofs --------------------------
(***************************************************************************)
(* Proofs about the client's connection, for any number of application     *)
(* threads, any limits and any behaviour of the peer: the table and its    *)
(* counters agree, no waiter is lost between the receiver and fail_all,    *)
(* and nobody uses the descriptor once it is closed.                       *)
(***************************************************************************)
EXTENDS Connection, SequenceTheorems, FiniteSetTheorems, TLAPS

\* The ids that thread t may give its requests; no two threads share one.
IdsOf(t) == {id \in Ids : id[1] = t}

\* Where each kind of thread can be.
AppPc == {"idle", "lock", "send", "trylock", "trysend", "wait", "cancel", "owlock", "owsend",
          "owfail", "fail", "marking"}
ReceiverPc == {"recv", "deliver", "fail", "marking", "exited"}
WatchdogPc == {"idle", "interval", "lock", "send", "await", "late", "linger", "timedout",
               "readfd", "fail", "marking", "shut", "exited"}
CloserPc == {"idle", "fail", "marking", "shut", "join", "close", "closed"}

\* The threads' places: until the handshake has succeeded at most one call is
\* in progress; shutdown() begins when none is, and none begins after it; the
\* descriptor is given up when both of the connection's threads have ended.
PcInv ==
  /\ \A a \in App : pc[a] \in AppPc
  /\ pc[Receiver] \in ReceiverPc /\ pc[Watchdog] \in WatchdogPc /\ pc[Closer] \in CloserPc
  /\ ~heartbeat_enabled => \A a, b \in App : pc[a] # "idle" /\ pc[b] # "idle" => a = b
  /\ pc[Closer] # "idle" => \A a \in App : pc[a] = "idle"
  /\ pc[Closer] \in {"close", "closed"} => pc[Receiver] = "exited" /\ pc[Watchdog] = "exited"
  /\ sock = "closed" => pc[Closer] = "closed"

\* A thread that has registered a request and has not sent it.
Unsent == {"lock", "send", "trylock", "trysend", "cancel"}

\* Which request a thread is concerned with.
ReqInv ==
  /\ \A t \in App \cup {Watchdog} : req[t] \in IdsOf(t) \cup {NoId}
  /\ \A t \in App \cup {Watchdog} : pc[t] \in Unsent \cup {"wait", "await"} => req[t] # NoId
  /\ req[Closer] = NoId
  /\ pc[Receiver] # "deliver" => req[Receiver] = NoId
  /\ pc[Receiver] = "deliver" => req[Receiver] # NoId

\* The table: a finite set of requests, with at most one Ping among them.
TableInv ==
  /\ IsFiniteSet(pending)
  /\ heartbeat_id \in Pings \cup {NoId}
  /\ PendingAccounted
  /\ FailureIsFinal

\* A request that has not been sent is in the table until the connection
\* fails, and no reply that would match it is under way: try_round_trip()
\* withdraws exactly what it registered.
UnsentInv ==
  \A a \in App : pc[a] \in Unsent =>
    /\ ~failed => req[a] \in pending
    /\ req[a] \notin outstanding
    /\ \A k \in DOMAIN incoming : incoming[k].id = req[a] => incoming[k].ping

\* The waiters in the hands of a thread that is in fail_all.
MarkInv ==
  \A t \in Threads : marking[t] # {} => failed /\ pc[t] \in {"marking", "readfd"}

\* Somebody will wake the thread that waits for this request, or has.
Served(id) ==
  \/ id \in done
  \/ id \in pending
  \/ \E u \in Threads : id \in marking[u]
  \/ pc[Receiver] = "deliver" /\ req[Receiver] = id

\* What NoWaiterLost says of waiting threads holds from the registration on,
\* or a failure between the registration and the wait could escape it.
ServedInv ==
  \A t \in App \cup {Watchdog} :
    pc[t] \in {"lock", "send", "trylock", "trysend", "wait", "await"} => Served(req[t])

ConnInv == TypeOK /\ PcInv /\ ReqInv /\ TableInv /\ UnsentInv /\ MarkInv /\ ServedInv
-----------------------------------------------------------------------------
LEMMA ThreadFacts ==
  /\ App \subseteq Threads /\ Receiver \in Threads /\ Watchdog \in Threads /\ Closer \in Threads
  /\ Receiver # Watchdog /\ Receiver # Closer /\ Watchdog # Closer
  /\ Receiver # NoThread /\ Watchdog # NoThread /\ Closer # NoThread /\ NoThread \notin App
  /\ \A a \in App : a # Receiver /\ a # Watchdog /\ a # Closer
  /\ \A t \in Threads : t \in App \/ t = Receiver \/ t = Watchdog \/ t = Closer
  BY AppAssumption DEF Threads, Receiver, Watchdog, Closer, NoThread

LEMMA IdFacts ==
  /\ NoId \notin Ids
  /\ Pings = IdsOf(Watchdog)
  /\ \A t : IdsOf(t) \subseteq Ids
  /\ \A t, u : \A id : id \in IdsOf(t) /\ id \in IdsOf(u) => t = u
  /\ \A a \in App : \A id \in IdsOf(a) : id \notin Pings
  /\ \A id \in Ids : id \notin Pings => \E a \in App : id \in IdsOf(a)
<1>1. NoId \notin Ids
  BY DEF NoId, Ids
<1>2. Pings = IdsOf(Watchdog)
  <2>1. \A id \in Ids : id[1] = Watchdog => id \in Pings
    BY ThreadFacts DEF Ids, Pings
  <2>2. \A id \in Pings : id \in Ids /\ id[1] = Watchdog
    BY DEF Ids, Pings
  <2>3. QED
    BY <2>1, <2>2 DEF IdsOf
<1>3. \A a \in App : \A id \in IdsOf(a) : id \notin Pings
  BY <1>2, ThreadFacts DEF IdsOf
<1>4. \A id \in Ids : id \notin Pings => \E a \in App : id \in IdsOf(a)
  BY DEF Ids, Pings, IdsOf
<1>5. QED
  BY <1>1, <1>2, <1>3, <1>4 DEF IdsOf

\* The id Register takes is the thread's own, and nothing refers to it.
LEMMA NewIdFacts ==
  ASSUME NEW t \in App \cup {Watchdog}, \E id \in Ids \ InUse : id[1] = t
  PROVE  NewId(t) \in IdsOf(t) /\ NewId(t) \notin InUse
<1> DEFINE Least(id) == id[1] = t /\ \A other \in Ids \ InUse : other[1] = t => id[2] <= other[2]
<1>1. \A id \in Ids : id[2] = 1 \/ id = <<Watchdog, 2>>
  BY DEF Ids
<1>2. \A id \in Ids : id[2] \in {1, 2}
  BY DEF Ids
<1>3. \E id \in Ids \ InUse : Least(id)
  <2>1. CASE \E id \in Ids \ InUse : id[1] = t /\ id[2] = 1
    <3>1. PICK id \in Ids \ InUse : id[1] = t /\ id[2] = 1
      BY <2>1
    <3>2. Least(id)
      BY <1>2, <3>1
    <3>3. QED
      BY <3>1, <3>2
  <2>2. CASE ~ \E id \in Ids \ InUse : id[1] = t /\ id[2] = 1
    <3>1. PICK id \in Ids \ InUse : id[1] = t
      OBVIOUS
    <3>2. \A other \in Ids \ InUse : other[1] = t => other = <<Watchdog, 2>>
      BY <1>1, <2>2
    <3>3. Least(id)
      BY <1>2, <3>1, <3>2
    <3>4. QED
      BY <3>1, <3>3
  <2>3. QED
    BY <2>1, <2>2
<1>4. NewId(t) = CHOOSE id \in Ids \ InUse : Least(id)
  BY DEF NewId
<1> HIDE DEF Least
<1>5. NewId(t) \in Ids \ InUse /\ Least(NewId(t))
  BY <1>3, <1>4
<1>6. QED
  BY <1>5 DEF IdsOf, Least

\* What InUse covers, in the form the steps use it.
LEMMA FreshFacts ==
  ASSUME NEW id, id \notin InUse
  PROVE  /\ id \notin pending /\ id \notin outstanding
         /\ \A t \in Threads : req[t] # id /\ id \notin marking[t]
         /\ \A k \in DOMAIN incoming : incoming[k].id # id
  BY DEF InUse

\* Registering: the request of thread t is new and in the table.
LEMMA RegisterFacts ==
  ASSUME TypeOK, NEW t \in App \cup {Watchdog}, Register(t)
  PROVE  \E id \in IdsOf(t) :
           /\ id \notin InUse /\ id = NewId(t)
           /\ req' = [req EXCEPT ![t] = id] /\ pending' = pending \cup {id}
           /\ done' = done \ {id} /\ ok' = ok \ {id}
  BY NewIdFacts DEF Register
\* The places at which a thread's request must be served.
InNeed == {"lock", "send", "trylock", "trysend", "wait", "await"}

\* Where a thread may go without disturbing PcInv: within its own places, a call
\* neither beginning nor shutdown() reaching the descriptor.
LEMMA PlaceStep ==
  ASSUME TypeOK, PcInv, NEW t \in Threads, NEW where,
         pc' = [pc EXCEPT ![t] = where], heartbeat_enabled' = heartbeat_enabled,
         sock' = "closed" => sock = "closed",
         t \in App => where \in AppPc /\ (pc[t] = "idle" => where = "idle"),
         t = Receiver => where \in ReceiverPc /\ pc[t] # "exited",
         t = Watchdog => where \in WatchdogPc /\ pc[t] # "exited",
         t = Closer => where \in CloserPc \ {"close", "closed"} /\ pc[t] \notin {"idle", "closed"}
  PROVE  PcInv' /\ pc' \in [Threads -> AppPc \cup ReceiverPc \cup WatchdogPc \cup CloserPc]
<1>1. pc \in [Threads -> AppPc \cup ReceiverPc \cup WatchdogPc \cup CloserPc]
  BY ThreadFacts DEF TypeOK, PcInv
<1>2. \A u \in Threads : pc'[u] = IF u = t THEN where ELSE pc[u]
  BY DEF TypeOK
<1>3. where \in AppPc \cup ReceiverPc \cup WatchdogPc \cup CloserPc
  BY ThreadFacts
<1>4. PcInv'
  BY <1>2, ThreadFacts DEF PcInv
<1>5. QED
  BY <1>1, <1>3, <1>4

\* A step that only moves a thread keeps what is said of the requests, as long
\* as the thread enters neither fail_all's marking nor a delivery and needs no
\* request it did not already have.
LEMMA MoveStep ==
  ASSUME ConnInv, NEW t \in Threads, NEW where, pc' = [pc EXCEPT ![t] = where],
         UNCHANGED <<req, marking, table, outstanding>>, incoming' = incoming, TypeOK', PcInv',
         pc[t] \notin {"marking", "readfd"} \/ marking[t] = {},
         t = Receiver => pc[t] # "deliver" /\ where # "deliver",
         t \in App \cup {Watchdog} =>
            /\ where \in Unsent => pc[t] \in Unsent
            /\ where \in InNeed => pc[t] \in InNeed
  PROVE  ConnInv'
<1>1. \A u \in Threads : pc'[u] = IF u = t THEN where ELSE pc[u]
  BY DEF ConnInv, TypeOK
<1>2. ReqInv'
  BY <1>1, ThreadFacts DEF ConnInv, ReqInv, Unsent, InNeed
<1>3. TableInv'
  BY DEF ConnInv, TableInv, PendingAccounted, FailureIsFinal, table
<1>4. UnsentInv'
  BY <1>1, ThreadFacts DEF ConnInv, UnsentInv, table
<1>5. MarkInv'
  BY <1>1, ThreadFacts DEF ConnInv, MarkInv, table
<1>6. ServedInv'
  <2>1. \A id : Served(id) => Served(id)'
    BY <1>1, ThreadFacts DEF Served, table
  <2>2. QED
    BY <1>1, <2>1, ThreadFacts DEF ConnInv, ServedInv, InNeed
<1>7. QED
  BY <1>2, <1>3, <1>4, <1>5, <1>6 DEF ConnInv
\* Where a call may begin.
LEMMA CallPlace ==
  ASSUME TypeOK, PcInv, NEW a \in App, NEW where \in AppPc, MayCall(a),
         pc' = [pc EXCEPT ![a] = where], UNCHANGED <<heartbeat_enabled, sock>>
  PROVE  PcInv' /\ pc' \in [Threads -> AppPc \cup ReceiverPc \cup WatchdogPc \cup CloserPc]
<1>1. pc \in [Threads -> AppPc \cup ReceiverPc \cup WatchdogPc \cup CloserPc]
  BY ThreadFacts DEF TypeOK, PcInv
<1>2. \A u \in Threads : pc'[u] = IF u = a THEN where ELSE pc[u]
  BY DEF TypeOK
<1>3. PcInv'
  BY <1>2, ThreadFacts DEF PcInv, MayCall
<1>4. QED
  BY <1>1, <1>3

\* Every place is one that TypeOK allows.
LEMMA PlacesTyped ==
  ASSUME TypeOK, pc' \in [Threads -> AppPc \cup ReceiverPc \cup WatchdogPc \cup CloserPc],
         UNCHANGED <<marking, table>>, req' \in [Threads -> Ids \cup {NoId}],
         send_owner' \in Threads \cup {NoThread},
         fd' \in {"valid", "invalid"}, sock' \in {"open", "shut", "closed"}, 
         outstanding' \subseteq Ids, incoming' \in Seq(Reply),
         peer' \in {"alive", "silent", "clogged", "closed"}
  PROVE  TypeOK'
  BY DEF TypeOK, table, AppPc, ReceiverPc, WatchdogPc, CloserPc

LEMMA SendOnewayStep ==
  ASSUME ConnInv, NEW a \in App, SendOneway(a)  PROVE ConnInv'
<1>1. PcInv' /\ pc' \in [Threads -> AppPc \cup ReceiverPc \cup WatchdogPc \cup CloserPc]
  BY CallPlace DEF ConnInv, SendOneway, Goto, AppPc, table
<1>2. TypeOK'
  BY <1>1, PlacesTyped DEF ConnInv, SendOneway, net, TypeOK
<1>3. QED
  BY <1>1, <1>2, MoveStep, ThreadFacts, "owlock" \notin Unsent, "owlock" \notin InNeed
     DEF SendOneway, Goto, MayCall, net, Unsent, InNeed


\* The three lemmas together, for the steps that move one thread and change
\* nothing that concerns requests.
LEMMA Moved ==
  ASSUME ConnInv, NEW t \in Threads, NEW where, pc' = [pc EXCEPT ![t] = where],
         UNCHANGED <<req, marking, table, fd, net>>,
         send_owner' \in Threads \cup {NoThread}, sock' \in {sock, "shut"},
         t \in App => where \in AppPc /\ (pc[t] = "idle" => where = "idle"),
         t = Receiver => where \in ReceiverPc \ {"deliver"} /\ pc[t] \notin {"exited", "deliver"},
         t = Watchdog => where \in WatchdogPc /\ pc[t] # "exited",
         t = Closer => where \in CloserPc \ {"close", "closed"} /\ pc[t] \notin {"idle", "closed"},
         pc[t] \notin {"marking", "readfd"} \/ marking[t] = {},
         where \in Unsent => pc[t] \in Unsent,
         where \in InNeed => pc[t] \in InNeed
  PROVE  ConnInv'
<1>1. PcInv' /\ pc' \in [Threads -> AppPc \cup ReceiverPc \cup WatchdogPc \cup CloserPc]
  BY PlaceStep DEF ConnInv, table
<1>2. TypeOK'
  BY <1>1, PlacesTyped DEF ConnInv, net, TypeOK
<1>3. QED
  BY <1>1, <1>2, MoveStep DEF net

LEMMA LockStep ==
  ASSUME ConnInv, NEW t \in Threads, Lock(t)  PROVE ConnInv'
<1> DEFINE where == IF pc[t] = "lock" THEN "send" ELSE "owsend"
<1>1. pc[t] \in {"lock", "owlock"} /\ t \notin {Receiver, Closer} /\ (t = Watchdog => pc[t] = "lock")
  BY DEF ConnInv, PcInv, Lock, ReceiverPc, WatchdogPc, CloserPc
<1>2. /\ t \in App => where \in AppPc /\ (pc[t] = "idle" => where = "idle")
      /\ t = Watchdog => where \in WatchdogPc /\ pc[t] # "exited"
      /\ where \in Unsent => pc[t] \in Unsent
      /\ where \in InNeed => pc[t] \in InNeed
  BY <1>1 DEF AppPc, WatchdogPc, Unsent, InNeed
<1>3. pc' = [pc EXCEPT ![t] = where]
  BY DEF Lock, Goto
<1> HIDE DEF where
<1>4. QED
  BY <1>1, <1>2, <1>3, Moved DEF Lock

LEMMA TryLockStep ==
  ASSUME ConnInv, NEW a \in App, TryLock(a)  PROVE ConnInv'
<1>1. PICK where \in {"trysend", "cancel"} : pc' = [pc EXCEPT ![a] = where]
  BY DEF TryLock, Goto
<1>2. send_owner' \in Threads \cup {NoThread}
  BY ThreadFacts DEF TryLock, ConnInv, TypeOK
<1>3. /\ where \in AppPc
      /\ where \in Unsent => pc[a] \in Unsent
      /\ where \in InNeed => pc[a] \in InNeed
  BY DEF AppPc, Unsent, InNeed, TryLock
<1>4. QED
  BY <1>1, <1>2, <1>3, ThreadFacts, Moved DEF TryLock

LEMMA SendErrorStep ==
  ASSUME ConnInv, NEW t \in Threads, SendError(t)  PROVE ConnInv'
<1>1. /\ pc[t] \in {"send", "owsend", "trysend"} /\ t \notin {Receiver, Closer}
      /\ t = Watchdog => pc[t] = "send"
  BY DEF ConnInv, PcInv, SendError, ReceiverPc, WatchdogPc, CloserPc
<1>2. PICK where \in {"idle", "owfail", "fail"} :
         pc' = [pc EXCEPT ![t] = where] /\ (pc[t] # "owsend" => where = "fail")
  BY DEF SendError, Goto
<1>3. send_owner' \in Threads \cup {NoThread}
  BY DEF SendError
<1>4. /\ t \in App => where \in AppPc
      /\ t = Watchdog => where \in WatchdogPc
      /\ where \notin Unsent /\ where \notin InNeed
  BY <1>1, <1>2 DEF AppPc, WatchdogPc, Unsent, InNeed
<1>5. QED
  BY <1>1, <1>2, <1>3, <1>4, Moved DEF SendError

LEMMA ReceiveFailsStep ==
  ASSUME ConnInv, ReceiveFails  PROVE ConnInv'
<1>1. "fail" \notin Unsent /\ "fail" \notin InNeed /\ "fail" \in ReceiverPc
  BY DEF Unsent, InNeed, ReceiverPc
<1>2. send_owner' \in Threads \cup {NoThread}
  BY DEF ReceiveFails, ConnInv, TypeOK
<1>3. QED
  BY <1>1, <1>2, Moved, ThreadFacts DEF ReceiveFails, Goto

LEMMA WatchdogMoves ==
  ASSUME ConnInv,
         WatchdogExits \/ WatchdogArms \/ WatchdogDisarms \/ WatchdogTimesOut
           \/ WatchdogReadsFd \/ WatchdogShuts
  PROVE  ConnInv'
<1>1. PICK where \in {"idle", "interval", "late", "shut", "exited"} :
        pc' = [pc EXCEPT ![Watchdog] = where]
  BY DEF WatchdogExits, WatchdogArms, WatchdogDisarms, WatchdogTimesOut, WatchdogReadsFd,
         WatchdogShuts, Goto
<1>2. /\ UNCHANGED <<req, marking, table, send_owner, fd, net>>
      /\ sock' \in {sock, "shut"} /\ pc[Watchdog] # "exited"
      /\ pc[Watchdog] \notin {"marking", "readfd"} \/ marking[Watchdog] = {}
  BY DEF WatchdogExits, WatchdogArms, WatchdogDisarms, WatchdogTimesOut, WatchdogReadsFd,
         WatchdogShuts
<1>3. where \in WatchdogPc /\ where \notin Unsent /\ where \notin InNeed
  BY DEF WatchdogPc, Unsent, InNeed
<1>4. send_owner' \in Threads \cup {NoThread}
  BY <1>2 DEF ConnInv, TypeOK
<1>5. QED
  BY <1>1, <1>2, <1>3, <1>4, Moved, ThreadFacts

\* shutdown() moves only when no call is in progress.
LEMMA CloserMoves ==
  ASSUME ConnInv, CloserStep  PROVE ConnInv'
<1>1. PICK where \in {"fail", "join", "close", "closed"} : pc' = [pc EXCEPT ![Closer] = where]
  BY DEF CloserStep, Shutdown, ShutSocket, JoinThreads, CloseSocket, Goto
<1>2. \A u \in Threads : pc'[u] = IF u = Closer THEN where ELSE pc[u]
  BY <1>1 DEF ConnInv, TypeOK
<1>3. /\ UNCHANGED <<req, marking, table, send_owner, net>>
      /\ fd' \in {fd, "invalid"}
      /\ pc[Closer] \in {"idle", "shut", "join", "close"}
      /\ \A a \in App : pc[a] = "idle"
      /\ where \in {"close", "closed"} => pc[Receiver] = "exited" /\ pc[Watchdog] = "exited"
      /\ sock' \in {sock, "shut", "closed"}
      /\ sock' = "closed" /\ sock # "closed" => where = "closed"
      /\ pc[Closer] # "closed"
  <2>1. CASE Shutdown
    BY <1>2, <2>1, ThreadFacts DEF Shutdown, Goto, ConnInv, PcInv, TypeOK
  <2>2. CASE ShutSocket
    BY <1>2, <2>2, ThreadFacts DEF ShutSocket, Goto, ConnInv, PcInv, TypeOK
  <2>3. CASE JoinThreads
    BY <1>2, <2>3, ThreadFacts DEF JoinThreads, Goto, ConnInv, PcInv, TypeOK
  <2>4. CASE CloseSocket
    BY <1>2, <2>4, ThreadFacts DEF CloseSocket, Goto, ConnInv, PcInv, TypeOK
  <2>5. QED
    BY <2>1, <2>2, <2>3, <2>4 DEF CloserStep
<1>4. PcInv'
  BY <1>1, <1>2, <1>3, ThreadFacts DEF ConnInv, PcInv, CloserPc, table
<1>5. pc' \in [Threads -> AppPc \cup ReceiverPc \cup WatchdogPc \cup CloserPc]
  <2>1. pc \in [Threads -> AppPc \cup ReceiverPc \cup WatchdogPc \cup CloserPc]
    BY ThreadFacts DEF ConnInv, TypeOK, PcInv
  <2>2. QED
    BY <1>1, <2>1 DEF CloserPc
<1>6. TypeOK'
  BY <1>3, <1>5, PlacesTyped DEF ConnInv, TypeOK, net
<1>7. QED
  BY <1>1, <1>3, <1>4, <1>6, MoveStep, ThreadFacts DEF net
-----------------------------------------------------------------------------
\* A request that is registered is in the table, and no one else's is touched.
LEMMA RegisteredStep ==
  ASSUME ConnInv, NEW t \in App \cup {Watchdog}, NEW id \in IdsOf(t), id \notin InUse,
         NEW where \in {"lock", "trylock"}, pc' = [pc EXCEPT ![t] = where],
         req' = [req EXCEPT ![t] = id], pending' = pending \cup {id}, done' = done \ {id},
         ~failed, UNCHANGED <<marking, failed, outstanding, incoming>>
  PROVE  ReqInv' /\ UnsentInv' /\ MarkInv' /\ ServedInv'
<1>1. /\ id \notin pending /\ id \notin outstanding
      /\ \A u \in Threads : req[u] # id /\ id \notin marking[u]
      /\ \A k \in DOMAIN incoming : incoming[k].id # id
  BY FreshFacts
<1>2. /\ t \in Threads /\ t # Receiver /\ t # Closer
      /\ \A u \in Threads : pc'[u] = IF u = t THEN where ELSE pc[u]
      /\ \A u \in Threads : req'[u] = IF u = t THEN id ELSE req[u]
  BY ThreadFacts DEF ConnInv, TypeOK
<1>3. id # NoId /\ id \in Ids
  BY IdFacts DEF IdsOf
<1>4. ReqInv'
  BY <1>2, <1>3, ThreadFacts DEF ConnInv, ReqInv, Unsent
<1>5. UnsentInv'
  BY <1>1, <1>2, ThreadFacts DEF ConnInv, UnsentInv
<1>6. MarkInv'
  BY <1>2 DEF ConnInv, MarkInv
<1>7. ServedInv'
  <2>1. \A u \in App \cup {Watchdog} : u # t /\ Served(req[u]) => Served(req[u])'
    BY <1>1, <1>2, ThreadFacts DEF Served
  <2>2. Served(id)'
    BY DEF Served
  <2>3. QED
    BY <1>2, <2>1, <2>2, ThreadFacts DEF ConnInv, ServedInv
<1>8. QED
  BY <1>4, <1>5, <1>6, <1>7

LEMMA RoundTripStep ==
  ASSUME ConnInv, NEW a \in App, NEW where \in {"lock", "trylock"}, RoundTrip(a, where)
  PROVE  ConnInv'
<1>1. Register(a) /\ MayCall(a) /\ ~failed /\ pc' = [pc EXCEPT ![a] = where]
        /\ application_pending' = application_pending + 1
        /\ UNCHANGED <<marking, failed, heartbeat_enabled, heartbeat_id, send_owner, fd, sock, net>>
  BY DEF RoundTrip, Admits, Goto
<1>2. PICK id \in IdsOf(a) :
           /\ id \notin InUse
           /\ req' = [req EXCEPT ![a] = id] /\ pending' = pending \cup {id}
           /\ done' = done \ {id} /\ ok' = ok \ {id}
  BY <1>1, RegisterFacts DEF ConnInv
<1>3. PcInv' /\ pc' \in [Threads -> AppPc \cup ReceiverPc \cup WatchdogPc \cup CloserPc]
  BY <1>1, CallPlace DEF ConnInv, AppPc
<1>4. id \in Ids /\ id \notin Pings /\ id # NoId /\ id \notin pending
  BY <1>2, IdFacts, FreshFacts
<1>5. TypeOK'
  BY <1>1, <1>2, <1>3, <1>4 DEF ConnInv, TypeOK, net, AppPc, ReceiverPc, WatchdogPc, CloserPc
<1>6. TableInv'
  <2>1. id # heartbeat_id
    BY <1>4 DEF ConnInv, TableInv
  <2>2. pending' \ {heartbeat_id'} = (pending \ {heartbeat_id}) \cup {id}
    BY <1>1, <1>2, <2>1
  <2>3. IsFiniteSet(pending) /\ IsFiniteSet(pending \ {heartbeat_id}) /\ IsFiniteSet(pending')
    BY <1>2, FS_AddElement, FS_RemoveElement DEF ConnInv, TableInv
  <2>4. Cardinality(pending' \ {heartbeat_id'}) = Cardinality(pending \ {heartbeat_id}) + 1
    BY <1>4, <2>2, <2>3, FS_AddElement
  <2>5. PendingAccounted'
    BY <1>1, <1>2, <1>4, <2>4 DEF ConnInv, TableInv, PendingAccounted
  <2>6. QED
    BY <1>1, <2>3, <2>5 DEF ConnInv, TableInv, FailureIsFinal
<1>7. QED
  BY <1>1, <1>2, <1>3, <1>5, <1>6, RegisteredStep DEF ConnInv, net

LEMMA WatchdogPingsStep ==
  ASSUME ConnInv, WatchdogPings  PROVE ConnInv'
<1>1. /\ Register(Watchdog) /\ ~failed /\ heartbeat_id = NoId /\ pc' = [pc EXCEPT ![Watchdog] = "lock"]
      /\ heartbeat_id' = NewId(Watchdog) /\ pc[Watchdog] = "interval"
      /\ UNCHANGED <<marking, failed, heartbeat_enabled, application_pending, send_owner, fd, sock, net>>
  BY DEF WatchdogPings, Goto
<1>2. PICK id \in IdsOf(Watchdog) :
           /\ id \notin InUse /\ id = NewId(Watchdog)
           /\ req' = [req EXCEPT ![Watchdog] = id] /\ pending' = pending \cup {id}
           /\ done' = done \ {id} /\ ok' = ok \ {id}
  BY <1>1, RegisterFacts DEF ConnInv
<1>3. PcInv' /\ pc' \in [Threads -> AppPc \cup ReceiverPc \cup WatchdogPc \cup CloserPc]
  BY <1>1, PlaceStep, ThreadFacts DEF ConnInv, WatchdogPc
<1>4. id \in Ids /\ id \in Pings /\ id # NoId /\ id \notin pending
  BY <1>2, IdFacts, FreshFacts
<1>5. TypeOK'
  BY <1>1, <1>2, <1>3, <1>4 DEF ConnInv, TypeOK, net, AppPc, ReceiverPc, WatchdogPc, CloserPc
<1>6. TableInv'
  <2>1. NoId \notin pending /\ pending \cap Pings = {}
    BY <1>1, IdFacts DEF ConnInv, TypeOK, TableInv, PendingAccounted
  <2>2. pending' \ {heartbeat_id'} = pending \ {heartbeat_id}
    BY <1>1, <1>2, <1>4, <2>1
  <2>3. IsFiniteSet(pending')
    BY <1>2, FS_AddElement DEF ConnInv, TableInv
  <2>4. pending' \cap Pings = {heartbeat_id'} \ {NoId}
    BY <1>1, <1>2, <1>4, <2>1
  <2>5. QED
    BY <1>1, <1>2, <1>4, <2>2, <2>3, <2>4
       DEF ConnInv, TableInv, PendingAccounted, FailureIsFinal
<1>7. QED
  BY <1>1, <1>2, <1>3, <1>5, <1>6, RegisteredStep DEF ConnInv, net
-----------------------------------------------------------------------------
\* A thread that has done with its request gives it up; nobody else's is lost.
LEMMA DroppedStep ==
  ASSUME ConnInv, NEW t \in App \cup {Watchdog}, marking[t] = {},
         pc' \in [Threads -> AppPc \cup ReceiverPc \cup WatchdogPc \cup CloserPc], pc'[t] = "idle",
         \A u \in Threads \ {t} :
           pc'[u] = pc[u] \/ (u = Closer /\ pc[u] = "idle" /\ pc'[u] = "fail"),
         req' = [req EXCEPT ![t] = NoId],
         pending' \subseteq pending, pending \ {req[t]} \subseteq pending',
         done \ {req[t]} \subseteq done',
         UNCHANGED <<marking, failed, outstanding, incoming>>
  PROVE  ReqInv' /\ UnsentInv' /\ MarkInv' /\ ServedInv'
<1>1. /\ t \in Threads /\ t # Receiver /\ t # Closer
      /\ \A u \in Threads : req'[u] = IF u = t THEN NoId ELSE req[u]
      /\ pc'[Receiver] = pc[Receiver]
      /\ \A u \in App \cup {Watchdog} : u = t \/ pc'[u] = pc[u]
  BY ThreadFacts DEF ConnInv, TypeOK
<1>2. \A u \in App \cup {Watchdog} : u = t \/ req[u] = NoId \/ req[u] # req[t]
  BY IdFacts DEF ConnInv, ReqInv
<1>3. "idle" \notin Unsent \cup {"wait", "await"} /\ "idle" \notin InNeed
  BY DEF Unsent, InNeed
<1>4. ReqInv'
  BY <1>1, <1>3, ThreadFacts DEF ConnInv, ReqInv
<1>5. UnsentInv'
  <2> SUFFICES ASSUME NEW a \in App, pc'[a] \in Unsent
               PROVE  /\ ~failed => req'[a] \in pending'
                      /\ req'[a] \notin outstanding
                      /\ \A k \in DOMAIN incoming : incoming[k].id = req'[a] => incoming[k].ping
    BY DEF UnsentInv
  <2>1. a # t /\ pc[a] \in Unsent /\ req'[a] = req[a] /\ req[a] # NoId
    BY <1>1, <1>3, ThreadFacts DEF ConnInv, ReqInv
  <2>2. QED
    BY <1>2, <2>1 DEF ConnInv, UnsentInv
<1>6. MarkInv'
  BY <1>1 DEF ConnInv, MarkInv
<1>7. ServedInv'
  <2> SUFFICES ASSUME NEW u \in App \cup {Watchdog}, pc'[u] \in InNeed
               PROVE  Served(req[u])' /\ req'[u] = req[u]
    BY DEF ServedInv, InNeed, Served
  <2>1. u # t /\ pc[u] \in InNeed /\ req'[u] = req[u] /\ req[u] # NoId
    BY <1>1, <1>3, ThreadFacts DEF ConnInv, ReqInv, InNeed, Unsent
  <2>2. Served(req[u])
    BY <2>1 DEF ConnInv, ServedInv, InNeed
  <2>3. Served(req[u])'
    BY <1>1, <1>2, <2>1, <2>2, ThreadFacts DEF Served
  <2>4. QED
    BY <2>1, <2>3
<1>8. QED
  BY <1>4, <1>5, <1>6, <1>7

\* The table loses one request of the application, or none when it has failed.
LEMMA UncountedStep ==
  ASSUME TypeOK, TableInv, NEW id \in Ids \ Pings, failed \/ id \in pending,
         Uncount, pending' = pending \ {id}, UNCHANGED <<failed, heartbeat_id>>
  PROVE  TableInv' /\ application_pending' \in Nat
<1>1. CASE failed
  <2>1. pending = {} /\ application_pending = 0 /\ heartbeat_id = NoId
    BY <1>1 DEF TableInv, FailureIsFinal
  <2>2. pending' = pending /\ application_pending' = application_pending
    BY <2>1 DEF Uncount
  <2>3. QED
    BY <2>2 DEF TableInv, PendingAccounted, FailureIsFinal, TypeOK
<1>2. CASE ~failed
  <2>1. id \in pending \ {heartbeat_id} /\ id # heartbeat_id
    BY <1>2, IdFacts DEF TableInv
  <2>2. IsFiniteSet(pending \ {heartbeat_id})
    BY FS_RemoveElement DEF TableInv
  <2>3. pending' \ {heartbeat_id'} = (pending \ {heartbeat_id}) \ {id}
    OBVIOUS
  <2>4. Cardinality(pending' \ {heartbeat_id'}) = application_pending - 1
    <3> DEFINE Asked == pending \ {heartbeat_id}
    <3>1. id \in Asked /\ IsFiniteSet(Asked) /\ pending' \ {heartbeat_id'} = Asked \ {id}
            /\ application_pending = Cardinality(Asked)
      BY <2>1, <2>2, <2>3 DEF TableInv, PendingAccounted
    <3> HIDE DEF Asked
    <3>2. Cardinality(Asked \ {id}) = Cardinality(Asked) - 1
      BY <3>1, FS_RemoveElement
    <3>3. QED
      BY <3>1, <3>2
  <2>5. application_pending # 0
    BY <2>1, <2>2, FS_EmptySet DEF TableInv, PendingAccounted
  <2>6. application_pending' = application_pending - 1 /\ application_pending' \in Nat
    BY <2>5 DEF Uncount, TypeOK
  <2>7. IsFiniteSet(pending')
    BY FS_RemoveElement DEF TableInv
  <2>8. pending' \cap Pings = {heartbeat_id'} \ {NoId}
    BY DEF TableInv, PendingAccounted
  <2>9. QED
    BY <1>2, <2>4, <2>6, <2>7, <2>8 DEF TableInv, PendingAccounted, FailureIsFinal
<1>3. QED
  BY <1>1, <1>2
LEMMA CancelStep ==
  ASSUME ConnInv, NEW a \in App, Cancel(a)  PROVE ConnInv'
<1>1. /\ pc[a] = "cancel" /\ pc' = [pc EXCEPT ![a] = "idle"] /\ req' = [req EXCEPT ![a] = NoId]
      /\ pending' = pending \ {req[a]} /\ Uncount
      /\ UNCHANGED <<marking, done, ok, failed, heartbeat_enabled, heartbeat_id,
                     send_owner, fd, sock, net>>
  BY DEF Cancel, Goto
<1>2. PcInv' /\ pc' \in [Threads -> AppPc \cup ReceiverPc \cup WatchdogPc \cup CloserPc]
  BY <1>1, PlaceStep, ThreadFacts DEF ConnInv, AppPc
<1>3. req[a] \in Ids \ Pings /\ (failed \/ req[a] \in pending)
  BY <1>1, IdFacts DEF ConnInv, ReqInv, UnsentInv, Unsent
<1>4. TableInv' /\ application_pending' \in Nat
  BY <1>1, <1>3, UncountedStep DEF ConnInv
<1>5. TypeOK'
  BY <1>1, <1>2, <1>4 DEF ConnInv, TypeOK, net, AppPc, ReceiverPc, WatchdogPc, CloserPc
<1>6. marking[a] = {} /\ \A u \in Threads \ {a} : pc'[u] = pc[u]
  BY <1>1, ThreadFacts DEF ConnInv, TypeOK, MarkInv
<1>7. pc'[a] = "idle"
  BY <1>1, ThreadFacts DEF ConnInv, TypeOK
<1>8. QED
  BY <1>1, <1>2, <1>4, <1>5, <1>6, <1>7, DroppedStep DEF ConnInv, net

LEMMA ReturnStep ==
  ASSUME ConnInv, NEW a \in App, Return(a)  PROVE ConnInv'
<1>1. /\ pc[a] = "wait" /\ req[a] \in done
      /\ heartbeat_enabled' = (heartbeat_enabled \/ req[a] \in ok)
      /\ done' = done \ {req[a]} /\ ok' = ok \ {req[a]} /\ req' = [req EXCEPT ![a] = NoId]
      /\ UNCHANGED <<marking, pending, failed, application_pending, heartbeat_id,
                     send_owner, fd, sock, net>>
  BY DEF Return
<1>2. /\ a \in Threads /\ a # Closer /\ pc[Closer] = "idle"
      /\ pc' = [pc EXCEPT ![a] = "idle",
                          ![Closer] = IF heartbeat_enabled' THEN "idle" ELSE "fail"]
  BY <1>1, ThreadFacts DEF Return, ConnInv, PcInv
<1>3. /\ pc'[a] = "idle" /\ pc'[Closer] \in {"idle", "fail"}
      /\ heartbeat_enabled' => pc'[Closer] = "idle"
      /\ \A u \in Threads \ {a, Closer} : pc'[u] = pc[u]
  BY <1>2, ThreadFacts DEF ConnInv, TypeOK
<1>4. PcInv'
  <2>1. heartbeat_enabled => heartbeat_enabled'
    BY <1>1
  <2>2. ~heartbeat_enabled => \A b \in App : b = a \/ pc[b] = "idle"
    BY <1>1 DEF ConnInv, PcInv
  <2>3. ~heartbeat_enabled' => \A b \in App : pc'[b] = "idle"
    BY <1>3, <2>1, <2>2, ThreadFacts
  <2>4. \A b \in App : pc'[b] = "idle" \/ pc'[b] = pc[b]
    BY <1>3, ThreadFacts
  <2>5. \A b \in App : pc'[b] \in AppPc
    BY <2>4 DEF ConnInv, PcInv, AppPc
  <2>6. sock # "closed" /\ pc'[Receiver] = pc[Receiver] /\ pc'[Watchdog] = pc[Watchdog]
    BY <1>2, <1>3, ThreadFacts DEF ConnInv, PcInv
  <2>7. pc'[Closer] # "idle" => \A b \in App : pc'[b] = "idle"
    BY <1>3, <2>3
  <2>8. QED
    BY <1>1, <1>3, <2>3, <2>5, <2>6, <2>7 DEF ConnInv, PcInv, CloserPc
<1>5. pc' \in [Threads -> AppPc \cup ReceiverPc \cup WatchdogPc \cup CloserPc]
  <2>1. pc \in [Threads -> AppPc \cup ReceiverPc \cup WatchdogPc \cup CloserPc]
    BY ThreadFacts DEF ConnInv, TypeOK, PcInv
  <2>2. QED
    BY <1>2, <2>1 DEF CloserPc
<1>6. TypeOK'
  <2>1. heartbeat_enabled' \in BOOLEAN
    BY <1>1
  <2>2. QED
    BY <1>1, <1>5, <2>1 DEF ConnInv, TypeOK, net, AppPc, ReceiverPc, WatchdogPc, CloserPc
<1>7. TableInv'
  BY <1>1 DEF ConnInv, TableInv, PendingAccounted, FailureIsFinal
<1>8. marking[a] = {}
  BY <1>1, <1>2 DEF ConnInv, MarkInv
<1>9. \A u \in Threads \ {a} : pc'[u] = pc[u] \/ (u = Closer /\ pc[u] = "idle" /\ pc'[u] = "fail")
  BY <1>2, <1>3
<1>10. QED
  BY <1>1, <1>3, <1>4, <1>5, <1>6, <1>7, <1>8, <1>9, DroppedStep DEF ConnInv, net

LEMMA HearsPongStep ==
  ASSUME ConnInv, WatchdogHearsPong  PROVE ConnInv'
<1>1. /\ pc[Watchdog] = "await" /\ pc' = [pc EXCEPT ![Watchdog] = "idle"]
      /\ done' = done \ {req[Watchdog]} /\ ok' = ok \ {req[Watchdog]}
      /\ req' = [req EXCEPT ![Watchdog] = NoId]
      /\ UNCHANGED <<marking, pending, failed, heartbeat_enabled, application_pending,
                     heartbeat_id, send_owner, fd, sock, net>>
  BY DEF WatchdogHearsPong, Goto
<1>2. PcInv' /\ pc' \in [Threads -> AppPc \cup ReceiverPc \cup WatchdogPc \cup CloserPc]
  BY <1>1, PlaceStep, ThreadFacts DEF ConnInv, WatchdogPc
<1>3. TypeOK'
  BY <1>1, <1>2 DEF ConnInv, TypeOK, net, AppPc, ReceiverPc, WatchdogPc, CloserPc
<1>4. TableInv'
  BY <1>1 DEF ConnInv, TableInv, PendingAccounted, FailureIsFinal
<1>5. pc'[Watchdog] = "idle" /\ marking[Watchdog] = {} /\ \A u \in Threads \ {Watchdog} : pc'[u] = pc[u]
  BY <1>1, ThreadFacts DEF ConnInv, TypeOK, MarkInv
<1>6. QED
  BY <1>1, <1>2, <1>3, <1>4, <1>5, DroppedStep DEF ConnInv, net

\* The watchdog looks at a Ping that is late, and keeps or drops it.
LEMMA WatchdogJudges ==
  ASSUME ConnInv, WatchdogDecides \/ WatchdogLingers  PROVE ConnInv'
<1>1. /\ UNCHANGED <<marking, table, send_owner, fd, sock, net>>
      /\ pc[Watchdog] \in {"late", "linger"}
  BY DEF WatchdogDecides, WatchdogLingers
<1>2. PICK where \in {"timedout", "linger", "idle", "fail"} :
        /\ pc' = [pc EXCEPT ![Watchdog] = where]
        /\ \/ req' = req
           \/ where = "idle" /\ req' = [req EXCEPT ![Watchdog] = NoId]
  BY Zenon DEF WatchdogDecides, WatchdogLingers, Goto
<1>3. where \in WatchdogPc /\ where \notin Unsent /\ where \notin InNeed
  BY DEF WatchdogPc, Unsent, InNeed
<1>4. CASE req' = req
  BY <1>1, <1>2, <1>3, <1>4, Moved, ThreadFacts DEF ConnInv, TypeOK
<1>5. CASE where = "idle" /\ req' = [req EXCEPT ![Watchdog] = NoId]
  <2>1. PcInv' /\ pc' \in [Threads -> AppPc \cup ReceiverPc \cup WatchdogPc \cup CloserPc]
    BY <1>1, <1>2, <1>3, PlaceStep, ThreadFacts DEF ConnInv, table
  <2>2. TypeOK'
    BY <1>1, <1>5, <2>1, PlacesTyped DEF ConnInv, TypeOK, net
  <2>3. TableInv'
    BY <1>1 DEF ConnInv, TableInv, PendingAccounted, FailureIsFinal, table
  <2>4. pc'[Watchdog] = "idle" /\ marking[Watchdog] = {}
          /\ \A u \in Threads \ {Watchdog} : pc'[u] = pc[u]
    BY <1>1, <1>2, <1>5, ThreadFacts DEF ConnInv, TypeOK, MarkInv
  <2>5. QED
    BY <1>1, <1>5, <2>1, <2>2, <2>3, <2>4, DroppedStep DEF ConnInv, net, table
<1>6. QED
  BY <1>2, <1>4, <1>5
-----------------------------------------------------------------------------
LEMMA SendOkStep ==
  ASSUME ConnInv, NEW t \in Threads, SendOk(t)  PROVE ConnInv'
<1>1. /\ pc[t] \in {"send", "owsend", "trysend"} /\ t \notin {Receiver, Closer} /\ t \in App \cup {Watchdog}
      /\ t = Watchdog => pc[t] = "send"
      /\ UNCHANGED <<req, marking, table, fd, sock, incoming, peer>>
      /\ send_owner' = NoThread
  BY ThreadFacts DEF ConnInv, PcInv, SendOk, ReceiverPc, WatchdogPc, CloserPc
<1>2. PICK where \in {"idle", "wait", "await"} :
        /\ pc' = [pc EXCEPT ![t] = where]
        /\ pc[t] = "owsend" => where = "idle"
        /\ t = Watchdog => where = "await"
        /\ t # Watchdog => where # "await"
  <2>1. PICK where : pc' = [pc EXCEPT ![t] = where]
              /\ where = CASE pc[t] = "owsend" -> "idle" [] t = Watchdog -> "await" [] OTHER -> "wait"
    BY DEF SendOk, Goto
  <2>2. where = IF pc[t] = "owsend" THEN "idle" ELSE IF t = Watchdog THEN "await" ELSE "wait"
    BY <1>1, <2>1
  <2>3. QED
    BY <1>1, <2>1, <2>2
<1>3. where \notin Unsent
  BY DEF Unsent
<1>4. PcInv' /\ pc' \in [Threads -> AppPc \cup ReceiverPc \cup WatchdogPc \cup CloserPc]
  BY <1>1, <1>2, PlaceStep, ThreadFacts DEF ConnInv, AppPc, WatchdogPc, table
<1>5. req[t] \in IdsOf(t) \cup {NoId} /\ (pc[t] # "owsend" => req[t] # NoId)
  BY <1>1 DEF ConnInv, ReqInv, Unsent
<1>6. outstanding' \subseteq outstanding \cup ({req[t]} \ {NoId})
  BY DEF SendOk
<1>7. TypeOK'
  <2>1. outstanding' \subseteq Ids
    BY <1>5, <1>6, IdFacts DEF ConnInv, TypeOK
  <2>2. QED
    BY <1>1, <1>4, <2>1, PlacesTyped DEF ConnInv, TypeOK
<1>8. \A u \in Threads : pc'[u] = IF u = t THEN where ELSE pc[u]
  BY <1>2 DEF ConnInv, TypeOK
<1>9. ReqInv'
  BY <1>1, <1>2, <1>5, <1>8, ThreadFacts DEF ConnInv, ReqInv, Unsent
<1>10. TableInv'
  BY <1>1 DEF ConnInv, TableInv, PendingAccounted, FailureIsFinal, table
<1>11. UnsentInv'
  <2> SUFFICES ASSUME NEW a \in App, pc'[a] \in Unsent
               PROVE  /\ ~failed => req[a] \in pending
                      /\ req[a] \notin outstanding'
                      /\ \A k \in DOMAIN incoming : incoming[k].id = req[a] => incoming[k].ping
    BY <1>1 DEF UnsentInv, table
  <2>1. a # t /\ pc[a] \in Unsent
    BY <1>3, <1>8, ThreadFacts
  <2>2. req[a] # req[t] \/ req[t] = NoId
    BY <1>5, <2>1, IdFacts DEF ConnInv, ReqInv
  <2>3. QED
    BY <1>6, <2>1, <2>2 DEF ConnInv, UnsentInv
<1>12. MarkInv'
  BY <1>1, <1>8 DEF ConnInv, MarkInv, table
<1>13. ServedInv'
  <2>1. \A id : Served(id) => Served(id)'
    BY <1>1, <1>8, ThreadFacts DEF Served, table
  <2>2. where \in InNeed => pc[t] \in InNeed
    BY <1>1, <1>2 DEF InNeed
  <2>3. QED
    BY <1>1, <1>8, <2>1, <2>2, ThreadFacts DEF ConnInv, ServedInv, InNeed
<1>14. QED
  BY <1>4, <1>7, <1>9, <1>10, <1>11, <1>12, <1>13 DEF ConnInv

\* fail_all takes everything out of the table at once, into its own hands.
LEMMA FailStepInv ==
  ASSUME ConnInv, NEW t \in Threads, Fail(t)  PROVE ConnInv'
<1>1. /\ pc[t] \in {"fail", "timedout", "owfail"} /\ FailAll(t) /\ outstanding' = {}
      /\ UNCHANGED <<req, send_owner, fd, sock, incoming, peer>>
  BY DEF Fail
<1>2. PICK where \in {"readfd", "marking"} :
         pc' = [pc EXCEPT ![t] = where] /\ (pc[t] # "timedout" => where = "marking")
  BY DEF Fail, Goto
<1>3. PcInv' /\ pc' \in [Threads -> AppPc \cup ReceiverPc \cup WatchdogPc \cup CloserPc]
  <2>1. (t \in App \/ t = Receiver \/ t = Closer) => pc[t] # "timedout"
    BY DEF ConnInv, PcInv, AppPc, ReceiverPc, CloserPc
  <2>2. heartbeat_enabled' = heartbeat_enabled /\ sock' = sock
    BY <1>1 DEF FailAll
  <2>3. QED
    BY <1>1, <1>2, <2>1, <2>2, PlaceStep, ThreadFacts DEF ConnInv, AppPc, ReceiverPc, WatchdogPc, CloserPc
<1>4. \A u \in Threads : pc'[u] = IF u = t THEN where ELSE pc[u]
  BY <1>2 DEF ConnInv, TypeOK
<1>5. marking[t] = {}
  BY <1>1 DEF ConnInv, MarkInv
<1>6. /\ failed' = TRUE /\ pending' = {} /\ application_pending' = 0 /\ heartbeat_id' = NoId
      /\ marking' = [marking EXCEPT ![t] = pending]
      /\ UNCHANGED <<done, ok, heartbeat_enabled>>
  <2>1. CASE failed
    BY <1>1, <1>5, <2>1 DEF FailAll, ConnInv, TypeOK, TableInv, FailureIsFinal
  <2>2. CASE ~failed
    BY <1>1, <2>2 DEF FailAll
  <2>3. QED
    BY <2>1, <2>2
<1>7. TypeOK'
  BY <1>1, <1>3, <1>6 DEF ConnInv, TypeOK, AppPc, ReceiverPc, WatchdogPc, CloserPc
<1>8. ReqInv'
  BY <1>1, <1>2, <1>4, ThreadFacts DEF ConnInv, ReqInv, Unsent
<1>9. TableInv'
  BY <1>6, FS_EmptySet DEF TableInv, PendingAccounted, FailureIsFinal
<1>10. UnsentInv'
  BY <1>1, <1>2, <1>4, <1>6, ThreadFacts DEF ConnInv, UnsentInv, Unsent
<1>11. \A u \in Threads : marking'[u] = IF u = t THEN pending ELSE marking[u]
  BY <1>6 DEF ConnInv, TypeOK
<1>12. MarkInv'
  BY <1>4, <1>6, <1>11 DEF ConnInv, MarkInv
<1>13. ServedInv'
  <2>1. \A id : Served(id) => Served(id)'
    BY <1>1, <1>4, <1>5, <1>6, <1>11, ThreadFacts DEF Served
  <2>2. where \notin InNeed
    BY DEF InNeed
  <2>3. QED
    BY <1>1, <1>4, <2>1, <2>2, ThreadFacts DEF ConnInv, ServedInv, InNeed
<1>14. QED
  BY <1>3, <1>7, <1>8, <1>9, <1>10, <1>12, <1>13 DEF ConnInv

LEMMA WakeOneStep ==
  ASSUME ConnInv, NEW t \in Threads, WakeOne(t)  PROVE ConnInv'
<1>1. UNCHANGED <<pc, req, pending, failed, heartbeat_enabled, application_pending,
                  heartbeat_id, send_owner, fd, sock, net>>
  BY DEF WakeOne
<1>2. PICK id \in marking[t] : /\ marking' = [marking EXCEPT ![t] = @ \ {id}]
                               /\ done' = done \cup Owned({id})
                               /\ ok' = ok \ {id}
  BY DEF WakeOne
<1>3. \A u \in Threads : marking'[u] = IF u = t THEN marking[t] \ {id} ELSE marking[u]
  BY <1>2 DEF ConnInv, TypeOK
<1>4. id \in Ids /\ Owned({id}) \subseteq {id}
  BY DEF ConnInv, TypeOK, Owned
<1>5. TypeOK'
  BY <1>1, <1>2, <1>4 DEF ConnInv, TypeOK, net
<1>6. PcInv' /\ ReqInv' /\ TableInv' /\ UnsentInv'
  BY <1>1 DEF ConnInv, PcInv, ReqInv, TableInv, UnsentInv, PendingAccounted, FailureIsFinal, net
<1>7. MarkInv'
  BY <1>1, <1>3 DEF ConnInv, MarkInv
<1>8. ServedInv'
  <2>1. \A u \in App \cup {Watchdog} : Served(req[u]) => Served(req[u])'
    <3> SUFFICES ASSUME NEW u \in App \cup {Watchdog}, Served(req[u])  PROVE Served(req[u])'
      OBVIOUS
    <3>1. CASE req[u] = id
      <4>1. req[u] \in Owned({id})
        BY <3>1 DEF Owned
      <4>2. req'[u] \in done'
        BY <1>1, <1>2, <4>1
      <4>3. QED
        BY <4>2 DEF Served
    <3>2. CASE req[u] # id
      BY <1>1, <1>2, <1>3, <3>2 DEF Served
    <3>3. QED
      BY <3>1, <3>2
  <2>2. QED
    BY <1>1, <2>1 DEF ConnInv, ServedInv
<1>9. QED
  BY <1>5, <1>6, <1>7, <1>8 DEF ConnInv
LEMMA FailReturnsStep ==
  ASSUME ConnInv, NEW t \in Threads, FailReturns(t)  PROVE ConnInv'
<1>1. /\ pc[t] = "marking" /\ marking[t] = {} /\ pc' = [pc EXCEPT ![t] = AfterFail(t)]
      /\ done' = done \ {req[t]} /\ ok' = ok \ {req[t]} /\ req' = [req EXCEPT ![t] = NoId]
      /\ UNCHANGED <<marking, pending, failed, heartbeat_enabled, application_pending,
                     heartbeat_id, fd, sock, net>>
  BY DEF FailReturns, Goto
<1>2. send_owner' \in Threads \cup {NoThread}
  BY DEF FailReturns, ConnInv, TypeOK
<1>3. AfterFail(t) = IF t = Receiver THEN "exited" ELSE IF t = Closer THEN "shut" ELSE "idle"
  BY ThreadFacts DEF AfterFail
<1>4. CASE t \in {Receiver, Closer}
  <2>1. req[t] = NoId
    BY <1>1, <1>4 DEF ConnInv, ReqInv
  <2>2. UNCHANGED <<req, done, ok>>
    BY <1>1, <2>1, IdFacts DEF ConnInv, TypeOK
  <2>3. "exited" \in ReceiverPc \ {"deliver"} /\ "shut" \in CloserPc
          /\ AfterFail(t) \notin Unsent /\ AfterFail(t) \notin InNeed
    BY <1>3 DEF ReceiverPc, CloserPc, Unsent, InNeed
  <2>4. UNCHANGED table
    BY <1>1, <2>2 DEF table
  <2>5. CASE t = Receiver
    <3>1. t \notin App /\ t # Watchdog /\ t # Closer
      BY <2>5, ThreadFacts
    <3>2. AfterFail(t) = "exited"
      BY <1>3, <2>5
    <3>3. QED
      BY <1>1, <1>2, <2>2, <2>3, <2>4, <3>1, <3>2, Moved
  <2>6. CASE t = Closer
    <3>1. t \notin App /\ t # Watchdog /\ t # Receiver
      BY <2>6, ThreadFacts
    <3>2. AfterFail(t) = "shut"
      BY <1>3, <2>6, <3>1
    <3>3. QED
      BY <1>1, <1>2, <2>2, <2>3, <2>4, <3>1, <3>2, Moved
  <2>7. QED
    BY <1>4, <2>5, <2>6
<1>5. CASE t \in App \cup {Watchdog}
  <2>1. AfterFail(t) = "idle" /\ t # Receiver /\ t # Closer
    BY <1>3, <1>5, ThreadFacts
  <2>2. PcInv' /\ pc' \in [Threads -> AppPc \cup ReceiverPc \cup WatchdogPc \cup CloserPc]
    BY <1>1, <2>1, PlaceStep DEF ConnInv, AppPc, WatchdogPc
  <2>3. TypeOK'
    BY <1>1, <1>2, <2>2 DEF ConnInv, TypeOK, net, AppPc, ReceiverPc, WatchdogPc, CloserPc
  <2>4. TableInv'
    BY <1>1 DEF ConnInv, TableInv, PendingAccounted, FailureIsFinal
  <2>5. pc'[t] = "idle" /\ \A u \in Threads \ {t} : pc'[u] = pc[u]
    BY <1>1, <2>1 DEF ConnInv, TypeOK
  <2>6. QED
    BY <1>1, <1>5, <2>2, <2>3, <2>4, <2>5, DroppedStep DEF ConnInv, net
<1>6. QED
  BY <1>4, <1>5, ThreadFacts

-----------------------------------------------------------------------------
\* A reply that matches an entry of the table takes it out: a Ping is the one
\* heartbeat_id names, any other is one application request less.
LEMMA MatchedStep ==
  ASSUME TypeOK, TableInv, NEW id \in pending, pending' = pending \ {id}, failed' = failed,
         IF id = heartbeat_id
           THEN heartbeat_id' = NoId /\ application_pending' = application_pending
           ELSE Uncount /\ heartbeat_id' = heartbeat_id
  PROVE  TableInv' /\ application_pending' \in Nat /\ heartbeat_id' \in Pings \cup {NoId}
<1>1. id \in Ids /\ id # NoId
  BY IdFacts DEF TypeOK
<1>2. CASE id = heartbeat_id
  <2>1. heartbeat_id' = NoId /\ application_pending' = application_pending
    BY <1>2
  <2>2. pending' \ {heartbeat_id'} = pending \ {heartbeat_id}
    BY <1>2, <2>1, IdFacts DEF TypeOK
  <2>3. pending' \cap Pings = {heartbeat_id'} \ {NoId}
    BY <1>2, <2>1 DEF TableInv, PendingAccounted
  <2>4. IsFiniteSet(pending')
    BY FS_RemoveElement DEF TableInv
  <2>5. ~failed
    BY <1>1, <1>2 DEF TableInv, FailureIsFinal
  <2>6. QED
    BY <2>1, <2>2, <2>3, <2>4, <2>5 DEF TableInv, PendingAccounted, FailureIsFinal, TypeOK
<1>3. CASE id # heartbeat_id
  <2>1. id \notin Pings
    BY <1>1, <1>3 DEF TableInv, PendingAccounted
  <2>2. TableInv' /\ application_pending' \in Nat
    BY <1>1, <1>3, <2>1, UncountedStep
  <2>3. QED
    BY <2>2 DEF TableInv
<1>4. QED
  BY <1>2, <1>3

\* What is left of the replies under way once the oldest has been read.
LEMMA ReadFacts ==
  ASSUME TypeOK, incoming # <<>>, incoming' = Tail(incoming)
  PROVE  /\ Head(incoming) \in Reply /\ 1 \in DOMAIN incoming /\ Head(incoming) = incoming[1]
         /\ incoming' \in Seq(Reply)
         /\ \A k \in DOMAIN incoming' : k + 1 \in DOMAIN incoming /\ incoming'[k] = incoming[k + 1]
  BY DEF TypeOK

LEMMA ReceiveStep ==
  ASSUME ConnInv, Receive  PROVE ConnInv'
<1> DEFINE r == Head(incoming)
<1>1. /\ pc[Receiver] = "recv" /\ incoming # <<>> /\ incoming' = Tail(incoming)
      /\ UNCHANGED <<marking, done, failed, heartbeat_enabled, send_owner, fd, sock,
                     outstanding, peer>>
  BY DEF Receive
<1>2. /\ r \in Reply /\ 1 \in DOMAIN incoming /\ r = incoming[1] /\ incoming' \in Seq(Reply)
      /\ \A k \in DOMAIN incoming' : k + 1 \in DOMAIN incoming /\ incoming'[k] = incoming[k + 1]
  BY <1>1, ReadFacts DEF ConnInv
<1>3. CASE Matches(r)
  <2>1. /\ IF r.id = heartbeat_id
             THEN heartbeat_id' = NoId /\ application_pending' = application_pending
             ELSE Uncount /\ heartbeat_id' = heartbeat_id
        /\ pending' = pending \ {r.id}
        /\ req' = [req EXCEPT ![Receiver] = r.id]
        /\ ok' = IF r.ok THEN ok \cup Owned({r.id}) ELSE ok \ {r.id}
        /\ pc' = [pc EXCEPT ![Receiver] = "deliver"]
    BY <1>3 DEF Receive, Goto
  <2>2. PICK id \in pending : id = r.id /\ r.ping = (id \in Pings)
    BY <1>3 DEF Matches
  <2> HIDE DEF r
  <2>3. TableInv' /\ application_pending' \in Nat /\ heartbeat_id' \in Pings \cup {NoId}
    BY <1>1, <2>1, <2>2, MatchedStep DEF ConnInv
  <2>4. PcInv' /\ pc' \in [Threads -> AppPc \cup ReceiverPc \cup WatchdogPc \cup CloserPc]
    BY <1>1, <2>1, PlaceStep, ThreadFacts DEF ConnInv, ReceiverPc
  <2>5. id \in Ids /\ id # NoId /\ Owned({r.id}) \subseteq {id} /\ Pings \subseteq Ids
    BY <2>2, IdFacts DEF ConnInv, TypeOK, Owned
  <2>6. /\ \A u \in Threads : pc'[u] = IF u = Receiver THEN "deliver" ELSE pc[u]
        /\ \A u \in Threads : req'[u] = IF u = Receiver THEN id ELSE req[u]
    BY <2>1, <2>2 DEF ConnInv, TypeOK
  <2>7. TypeOK'
    <3>1. ok' \subseteq Ids
      BY <2>1, <2>5 DEF ConnInv, TypeOK
    <3>2. QED
      BY <1>1, <1>2, <2>1, <2>2, <2>3, <2>4, <2>5, <3>1
         DEF ConnInv, TypeOK, AppPc, ReceiverPc, WatchdogPc, CloserPc
  <2>8. ReqInv'
    BY <2>5, <2>6, ThreadFacts DEF ConnInv, ReqInv
  <2>9. UnsentInv'
    <3> SUFFICES ASSUME NEW a \in App, pc'[a] \in Unsent
                 PROVE  /\ ~failed => req'[a] \in pending'
                        /\ req'[a] \notin outstanding
                        /\ \A k \in DOMAIN incoming' : incoming'[k].id = req'[a] => incoming'[k].ping
      BY <1>1 DEF UnsentInv
    <3>1. pc[a] \in Unsent /\ req'[a] = req[a] /\ req[a] \notin Pings
      BY <2>6, ThreadFacts, IdFacts DEF ConnInv, ReqInv
    <3>2. req[a] # id
      BY <1>2, <2>2, <3>1 DEF ConnInv, UnsentInv
    <3>3. QED
      BY <1>2, <2>1, <2>2, <3>1, <3>2 DEF ConnInv, UnsentInv
  <2>10. MarkInv'
    BY <1>1, <2>6 DEF ConnInv, MarkInv
  <2>11. ServedInv'
    <3>1. \A x : Served(x) => Served(x)'
      BY <1>1, <2>1, <2>2, <2>6, ThreadFacts DEF Served
    <3>2. QED
      BY <2>6, <3>1, ThreadFacts DEF ConnInv, ServedInv
  <2>12. QED
    BY <2>3, <2>4, <2>7, <2>8, <2>9, <2>10, <2>11 DEF ConnInv
<1>4. CASE ~Matches(r)
  <2>1. /\ pc' = [pc EXCEPT ![Receiver] = "fail"]
        /\ UNCHANGED <<req, pending, ok, heartbeat_id, application_pending>>
    BY <1>4 DEF Receive, Goto
  <2> HIDE DEF r
  <2>2. PcInv' /\ pc' \in [Threads -> AppPc \cup ReceiverPc \cup WatchdogPc \cup CloserPc]
    BY <1>1, <2>1, PlaceStep, ThreadFacts DEF ConnInv, ReceiverPc
  <2>3. TypeOK'
    BY <1>1, <1>2, <2>1, <2>2, PlacesTyped DEF ConnInv, TypeOK, table
  <2>4. \A u \in Threads : pc'[u] = IF u = Receiver THEN "fail" ELSE pc[u]
    BY <2>1 DEF ConnInv, TypeOK
  <2>5. ReqInv' /\ MarkInv'
    BY <1>1, <2>1, <2>4, ThreadFacts DEF ConnInv, ReqInv, MarkInv
  <2>6. TableInv'
    BY <1>1, <2>1 DEF ConnInv, TableInv, PendingAccounted, FailureIsFinal
  <2>7. UnsentInv'
    <3> SUFFICES ASSUME NEW a \in App, pc'[a] \in Unsent
                 PROVE  /\ ~failed => req[a] \in pending
                        /\ req[a] \notin outstanding
                        /\ \A k \in DOMAIN incoming' : incoming'[k].id = req[a] => incoming'[k].ping
      BY <1>1, <2>1 DEF UnsentInv
    <3>1. QED
      BY <1>2, <2>4, ThreadFacts DEF ConnInv, UnsentInv
  <2>8. ServedInv'
    <3>1. \A x : Served(x) => Served(x)'
      BY <1>1, <2>1, <2>4, ThreadFacts DEF Served
    <3>2. QED
      BY <2>1, <2>4, <3>1, ThreadFacts DEF ConnInv, ServedInv
  <2>9. QED
    BY <2>2, <2>3, <2>5, <2>6, <2>7, <2>8 DEF ConnInv
<1>5. QED
  BY <1>3, <1>4
LEMMA DeliverStep ==
  ASSUME ConnInv, Deliver  PROVE ConnInv'
<1>1. /\ pc[Receiver] = "deliver" /\ pc' = [pc EXCEPT ![Receiver] = "recv"]
      /\ done' = done \cup Owned({req[Receiver]})
      /\ req' = [req EXCEPT ![Receiver] = NoId]
      /\ UNCHANGED <<marking, pending, ok, failed, heartbeat_enabled, application_pending,
                     heartbeat_id, send_owner, fd, sock, net>>
  BY DEF Deliver, Goto
<1>2. PcInv' /\ pc' \in [Threads -> AppPc \cup ReceiverPc \cup WatchdogPc \cup CloserPc]
  BY <1>1, PlaceStep, ThreadFacts DEF ConnInv, ReceiverPc
<1>3. /\ \A u \in Threads : pc'[u] = IF u = Receiver THEN "recv" ELSE pc[u]
      /\ \A u \in Threads : req'[u] = IF u = Receiver THEN NoId ELSE req[u]
  BY <1>1 DEF ConnInv, TypeOK
<1>4. req[Receiver] \in Ids /\ Owned({req[Receiver]}) \subseteq {req[Receiver]}
  BY <1>1, ThreadFacts DEF ConnInv, TypeOK, ReqInv, Owned
<1>5. TypeOK'
  BY <1>1, <1>2, <1>4 DEF ConnInv, TypeOK, net, AppPc, ReceiverPc, WatchdogPc, CloserPc
<1>6. ReqInv' /\ MarkInv' /\ TableInv'
  BY <1>1, <1>3, ThreadFacts
     DEF ConnInv, ReqInv, MarkInv, TableInv, PendingAccounted, FailureIsFinal
<1>7. UnsentInv'
  BY <1>1, <1>3, ThreadFacts DEF ConnInv, UnsentInv, net
<1>8. ServedInv'
  <2> SUFFICES ASSUME NEW u \in App \cup {Watchdog}, pc'[u] \in InNeed
               PROVE  Served(req[u])' /\ req'[u] = req[u]
    BY DEF ServedInv, InNeed, Served
  <2>1. pc'[u] = pc[u] /\ req'[u] = req[u] /\ Served(req[u])
    BY <1>3, ThreadFacts DEF ConnInv, ServedInv, InNeed
  <2>2. CASE req[u] = req[Receiver]
    <3>1. req[u] \in Owned({req[Receiver]})
      BY <2>2 DEF Owned
    <3>2. req'[u] \in done'
      BY <1>1, <2>1, <3>1
    <3>3. QED
      BY <2>1, <3>2 DEF Served
  <2>3. CASE req[u] # req[Receiver]
    BY <1>1, <2>1, <2>3 DEF Served
  <2>4. QED
    BY <2>2, <2>3
<1>9. QED
  BY <1>2, <1>5, <1>6, <1>7, <1>8 DEF ConnInv

\* The peer and the network add no reply that would match a request that has
\* not been sent.
LEMMA NetStep ==
  ASSUME ConnInv, (\E id \in Ids : Answer(id)) \/ Babble \/ PeerChanges  PROVE ConnInv'
<1>1. UNCHANGED <<local, table, send_owner, fd, sock>>
  BY DEF Answer, Babble, PeerChanges
<1>2. outstanding' \subseteq outstanding
  BY DEF Answer, Babble, PeerChanges
<1>3. peer' \in {"alive", "silent", "clogged", "closed"}
  BY PeerAssumption DEF Answer, Babble, PeerChanges, ConnInv, TypeOK
<1>4. /\ incoming' \in Seq(Reply)
      /\ \A a \in App : pc[a] \in Unsent =>
           \A k \in DOMAIN incoming' : incoming'[k].id = req[a] => incoming'[k].ping
  <2>1. CASE \E id \in Ids : Answer(id)
    <3>1. PICK id \in Ids : Answer(id)
      BY <2>1
    <3>2. PICK good \in BOOLEAN :
            incoming' = Append(incoming, [id |-> id, ping |-> id \in Pings, ok |-> good])
      BY <3>1 DEF Answer
    <3> DEFINE r == [id |-> id, ping |-> id \in Pings, ok |-> good]
    <3>3. r \in Reply /\ r.id = id
      BY DEF Reply
    <3>4. incoming \in Seq(Reply) /\ incoming' = Append(incoming, r) /\ id \in outstanding
      BY <3>1, <3>2 DEF ConnInv, TypeOK, Answer
    <3> HIDE DEF r
    <3>5. /\ incoming' \in Seq(Reply)
          /\ \A k \in DOMAIN incoming' :
               (k \in DOMAIN incoming /\ incoming'[k] = incoming[k]) \/ incoming'[k] = r
      BY <3>3, <3>4
    <3>6. QED
      BY <3>3, <3>4, <3>5 DEF ConnInv, UnsentInv
  <2>2. CASE Babble
    <3>1. PICK id \in pending \cup {NoId} :
            incoming' = <<[id |-> id, ping |-> id \notin Pings, ok |-> TRUE]>>
      BY <2>2 DEF Babble
    <3> DEFINE r == [id |-> id, ping |-> id \notin Pings, ok |-> TRUE]
    <3>2. r \in Reply /\ r.id = id /\ r.ping = (id \notin Pings)
      BY DEF Reply, ConnInv, TypeOK
    <3>3. incoming' = <<r>>
      BY <3>1
    <3> HIDE DEF r
    <3>4. incoming' \in Seq(Reply) /\ \A k \in DOMAIN incoming' : incoming'[k] = r
      BY <3>2, <3>3
    <3>5. \A a \in App : pc[a] \in Unsent => req[a] \notin Pings
      BY IdFacts DEF ConnInv, ReqInv
    <3>6. QED
      BY <3>2, <3>4, <3>5
  <2>3. CASE PeerChanges
    BY <2>3 DEF PeerChanges, ConnInv, TypeOK, UnsentInv
  <2>4. QED
    BY <2>1, <2>2, <2>3
<1>5. TypeOK'
  BY <1>1, <1>2, <1>3, <1>4 DEF ConnInv, TypeOK, local, table
<1>6. UnsentInv'
  BY <1>1, <1>2, <1>4 DEF ConnInv, UnsentInv, local, table
<1>7. QED
  BY <1>1, <1>5, <1>6 DEF ConnInv, PcInv, ReqInv, TableInv, MarkInv, ServedInv, Served,
     PendingAccounted, FailureIsFinal, local, table

LEMMA ConnInit == Init => ConnInv
<1> SUFFICES ASSUME Init  PROVE ConnInv
  OBVIOUS
<1>1. /\ pc \in [Threads -> {"recv", "exited", "idle"}]
      /\ pc[Receiver] = "recv" /\ pc[Closer] = "idle" /\ pc[Watchdog] \in {"exited", "idle"}
      /\ \A a \in App : pc[a] = "idle"
  <2> DEFINE At(t) == CASE t = Receiver -> "recv"
                        [] t = Watchdog /\ ~Heartbeat -> "exited"
                        [] OTHER -> "idle"
  <2>1. \A t \in Threads : At(t) = IF t = Receiver THEN "recv"
                                   ELSE IF t = Watchdog /\ ~Heartbeat THEN "exited" ELSE "idle"
    BY ThreadFacts
  <2>2. pc = [t \in Threads |-> At(t)]
    BY Zenon DEF Init
  <2> HIDE DEF At
  <2>3. \A t \in Threads : At(t) \in {"recv", "exited", "idle"}
    BY <2>1
  <2>4. pc \in [Threads -> {"recv", "exited", "idle"}]
    BY <2>2, <2>3
  <2>5. QED
    BY <2>1, <2>2, <2>4, ThreadFacts
<1>2. TypeOK
  <2>1. /\ req = [t \in Threads |-> NoId] /\ marking = [t \in Threads |-> {}]
        /\ pending = {} /\ done = {} /\ ok = {} /\ failed = FALSE /\ heartbeat_enabled = FALSE
        /\ application_pending = 0 /\ heartbeat_id = NoId /\ send_owner = NoThread
        /\ fd = "valid" /\ sock = "open" /\ outstanding = {} /\ incoming = <<>> /\ peer = "alive"
    BY Zenon DEF Init
  <2>2. incoming \in Seq(Reply)
    BY <2>1
  <2>3. QED
    BY <1>1, <2>1, <2>2 DEF TypeOK
<1>3. PcInv
  BY <1>1 DEF Init, PcInv, AppPc, ReceiverPc, WatchdogPc, CloserPc
<1>4. ReqInv
  BY <1>1, ThreadFacts DEF Init, ReqInv, Unsent
<1>5. TableInv
  BY FS_EmptySet DEF Init, TableInv, PendingAccounted, FailureIsFinal
<1>6. UnsentInv /\ MarkInv /\ ServedInv
  BY <1>1 DEF Init, UnsentInv, MarkInv, ServedInv, Unsent
<1>7. QED
  BY <1>2, <1>3, <1>4, <1>5, <1>6 DEF ConnInv

LEMMA ConnStep == ConnInv /\ [Next]_vars => ConnInv'
<1> SUFFICES ASSUME ConnInv, [Next]_vars  PROVE ConnInv'
  OBVIOUS
<1>1. CASE \E a \in App : AppStep(a)
  <2>1. PICK a \in App : AppStep(a)
    BY <1>1
  <2>2. QED
    BY <2>1, RoundTripStep, SendOnewayStep, TryLockStep, CancelStep, ReturnStep DEF AppStep
<1>2. CASE \E t \in Threads : SendStep(t) \/ FailStep(t)
  <2>1. PICK t \in Threads : SendStep(t) \/ FailStep(t)
    BY <1>2
  <2>2. QED
    BY <2>1, LockStep, SendOkStep, SendErrorStep, FailStepInv, WakeOneStep, FailReturnsStep
       DEF SendStep, FailStep
<1>3. CASE ReceiverStep
  BY <1>3, ReceiveStep, DeliverStep, ReceiveFailsStep DEF ReceiverStep
<1>4. CASE WatchdogStep
  BY <1>4, WatchdogMoves, WatchdogPingsStep, HearsPongStep, WatchdogJudges DEF WatchdogStep
<1>5. CASE CloserStep
  BY <1>5, CloserMoves
<1>6. CASE (\E id \in Ids : Answer(id)) \/ Babble \/ PeerChanges
  BY <1>6, NetStep
<1>7. CASE UNCHANGED vars
  BY <1>7 DEF vars, local, table, net, ConnInv, TypeOK, PcInv, ReqInv, TableInv, UnsentInv, MarkInv,
     ServedInv, Served, PendingAccounted, FailureIsFinal
<1>8. QED
  BY <1>1, <1>2, <1>3, <1>4, <1>5, <1>6, <1>7 DEF Next, Destroyed

LEMMA ConnInvariant == Spec => []ConnInv
  BY ConnInit, ConnStep, PTL DEF Spec

\* The table of pending requests, application_pending, heartbeat_id and failed
\* (round_trip, try_round_trip, the receiver's match, the watchdog, fail_all)
\* agree at every moment, for any number of threads and any peer:
\* application_pending counts exactly the application's requests in the table,
\* the one Ping in it is the one heartbeat_id names, and a failed connection
\* holds none.
THEOREM TableIsAccounted == Spec => []TableAccounted
<1>1. ConnInv => TableAccounted
  BY DEF ConnInv, TableInv, TableAccounted
<1>2. QED
  BY <1>1, ConnInvariant, PTL

\* A thread waiting in round_trip, or for a Pong, is in the table, or the
\* receiver or fail_all has its waiter and is about to wake it, or it has been
\* woken: between them they lose nobody, however many threads there are.
THEOREM NoWaiterIsLost == Spec => []NoWaiterLost
<1>1. ConnInv => NoWaiterLost
  <2> SUFFICES ASSUME ConnInv, NEW t \in Threads, Waiting(t)  PROVE Served(req[t])
    BY DEF NoWaiterLost, Served
  <2>1. t \in App \cup {Watchdog}
    BY ThreadFacts DEF ConnInv, PcInv, Waiting, ReceiverPc, CloserPc
  <2>2. QED
    BY <2>1 DEF ConnInv, ServedInv, Waiting
<1>2. QED
  BY <1>1, ConnInvariant, PTL

\* shutdown() closes the socket last: when the descriptor is released, the
\* receiver and the watchdog have ended and no call is in progress, so that
\* nobody can use a number the system may have given to another file.
THEOREM DescriptorIsUnused == Spec => []DescriptorUnused
<1>1. ConnInv => DescriptorUnused
  BY DEF ConnInv, PcInv, DescriptorUnused
<1>2. QED
  BY <1>1, ConnInvariant, PTL
=============================================================================
