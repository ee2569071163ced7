----------------------------- MODULE Connection -----------------------------
(***************************************************************************)
(* The client's end of one connection (struct Connection,                  *)
(* src/client/remote_objects.cpp): application threads multiplex requests  *)
(* over one socket, a receiver thread matches replies to waiting threads,  *)
(* a watchdog thread sends a Ping while requests are outstanding and fails *)
(* the connection when it is not answered, and shutdown() ends it all when *)
(* the instance is destroyed.                                              *)
(*                                                                         *)
(* A critical section of pending_mutex is one action.  send_mutex is held  *)
(* across a send that may block, so it is modelled (send_owner).  Timeouts *)
(* may expire at any moment.  stopping is written only together with       *)
(* failed, in fail_all, and is not kept apart from it.                     *)
(*                                                                         *)
(* next_request_id counts through 2^64 values and skips those pending, so  *)
(* that a new id is one that nothing refers to any more.  Only that        *)
(* matters here: an id is named by the thread that asks and by a number    *)
(* out of a small set, the least that is not in use, and the number of     *)
(* requests is not bounded.                                                *)
(***************************************************************************)
EXTENDS Naturals, Sequences, FiniteSets

CONSTANTS App,          \* the application's threads
          kMaxPending,  \* 1024: requests that may be pending
          Heartbeat,    \* the interval and the timeout are not configured to 0
          PeerMoves,    \* the ways in which the peer may misbehave
          MaxInFlight   \* bound of the model: replies that are under way at once

ASSUME PendingAssumption == kMaxPending \in Nat \ {0}
ASSUME HeartbeatAssumption == Heartbeat \in BOOLEAN
ASSUME InFlightAssumption == MaxInFlight \in Nat \ {0}
ASSUME PeerAssumption == PeerMoves \subseteq {"babble", "silent", "clogged", "closed"}

Receiver == "receiver"
Watchdog == "watchdog"
Closer   == "closer"    \* the thread in shutdown()
Threads  == App \cup {Receiver, Watchdog, Closer}
NoThread == "nobody"

\* The application's threads are none of the connection's own.
ASSUME AppAssumption == App \cap {Receiver, Watchdog, Closer, NoThread} = {}

\* A thread has one request at a time.  The watchdog may begin its next Ping
\* while the receiver still delivers the previous one, hence two.
Ids == (App \X {1}) \cup ({Watchdog} \X {1, 2})
Pings == {Watchdog} \X {1, 2}   \* the requests whose opcode is Ping
NoId == <<NoThread, 0>>         \* request id 0

VARIABLES pc,                   \* where each thread is
          req,                  \* the request each thread is concerned with, or NoId
          marking,              \* per thread in fail_all: waiters it has yet to wake
          pending,              \* pending: the ids awaiting a reply
          done, ok,             \* the waiters marked done; ok means something once done
          failed,
          heartbeat_enabled,
          application_pending,
          heartbeat_id,
          send_owner,           \* holder of send_mutex
          fd,                   \* "valid" | "invalid"
          sock,                 \* "open" | "shut" | "closed"
          outstanding,          \* requests sent and pending that the server has not answered
          incoming,             \* replies on their way, oldest first
          peer                  \* "alive" | "silent" | "clogged" | "closed"

local == <<pc, req, marking>>
table == <<pending, done, ok, failed, heartbeat_enabled, application_pending, heartbeat_id>>
net   == <<outstanding, incoming, peer>>
vars  == <<local, table, send_owner, fd, sock, net>>

Reply == [id : Ids \cup {NoId}, ping : BOOLEAN, ok : BOOLEAN]

TypeOK ==
  /\ pc \in [Threads -> {"idle", "lock", "send", "trylock", "trysend", "wait", "cancel",
                         "owlock", "owsend", "owfail", "fail", "marking", "shut", "join",
                         "close", "closed", "recv", "deliver", "interval", "await", "late",
                         "linger", "timedout", "readfd", "exited"}]
  /\ req \in [Threads -> Ids \cup {NoId}]
  /\ marking \in [Threads -> SUBSET Ids]
  /\ pending \subseteq Ids
  /\ done \subseteq Ids /\ ok \subseteq Ids
  /\ failed \in BOOLEAN /\ heartbeat_enabled \in BOOLEAN
  /\ application_pending \in Nat
  /\ heartbeat_id \in Ids \cup {NoId}
  /\ send_owner \in Threads \cup {NoThread}
  /\ fd \in {"valid", "invalid"} /\ sock \in {"open", "shut", "closed"}
  /\ outstanding \subseteq Ids
  /\ incoming \in Seq(Reply)
  /\ peer \in {"alive", "silent", "clogged", "closed"}

\* start_receiver() has run: both threads exist, the handshake has not begun.
Init ==
  /\ pc = [t \in Threads |-> CASE t = Receiver -> "recv"
                               [] t = Watchdog /\ ~Heartbeat -> "exited"
                               [] OTHER -> "idle"]
  /\ req = [t \in Threads |-> NoId]
  /\ marking = [t \in Threads |-> {}]
  /\ pending = {} /\ done = {} /\ ok = {}
  /\ failed = FALSE /\ heartbeat_enabled = FALSE
  /\ application_pending = 0 /\ heartbeat_id = NoId
  /\ send_owner = NoThread
  /\ fd = "valid" /\ sock = "open"
  /\ outstanding = {} /\ incoming = <<>> /\ peer = "alive"

-----------------------------------------------------------------------------
Goto(t, where) == pc' = [pc EXCEPT ![t] = where]

\* The ids something still refers to: table entries, waiters in a thread's
\* hands, messages in flight.
InUse == pending \cup outstanding \cup {req[t] : t \in Threads}
           \cup (UNION {marking[t] : t \in Threads})
           \cup {incoming[i].id : i \in DOMAIN incoming}

\* A waiter that its thread has dropped is never read again.
Owned(ids) == ids \cap {req[t] : t \in App \cup {Watchdog}}

NewId(t) == CHOOSE id \in Ids \ InUse :
              id[1] = t /\ \A other \in Ids \ InUse : other[1] = t => id[2] <= other[2]

\* Allocate an id for thread t and register its waiter, not done yet.
Register(t) ==
  /\ \E id \in Ids \ InUse : id[1] = t
  /\ req' = [req EXCEPT ![t] = NewId(t)]
  /\ pending' = pending \cup {NewId(t)}
  /\ done' = done \ {NewId(t)}
  /\ ok' = ok \ {NewId(t)}

\* A send on the socket succeeds or reports an error; with a peer that has
\* stopped reading it does neither.
SendSucceeds == sock = "open" /\ peer # "clogged"
SendFails    == sock # "open" \/ peer = "closed"

-----------------------------------------------------------------------------
\* Mutant: the table is emptied but nobody is woken.
FailAllSilently(t) ==
  /\ failed' = TRUE /\ application_pending' = 0 /\ heartbeat_id' = NoId /\ pending' = {}
  /\ UNCHANGED <<marking, done, ok, heartbeat_enabled>>

\* fail_all(): the caller that sets failed takes every waiter out of the table
\* under pending_mutex, and wakes them afterwards one by one.
FailAll(t) ==
  /\ IF failed
       THEN /\ marking' = [marking EXCEPT ![t] = {}]
            /\ UNCHANGED <<failed, application_pending, heartbeat_id, pending>>
       ELSE /\ failed' = TRUE
            /\ application_pending' = 0
            /\ heartbeat_id' = NoId
            /\ marking' = [marking EXCEPT ![t] = pending]
            /\ pending' = {}
  /\ UNCHANGED <<done, ok, heartbeat_enabled>>

\* From here on any answer is one that nobody asked for, see Babble.
Fail(t) ==
  /\ pc[t] \in {"fail", "timedout", "owfail"}
  /\ FailAll(t)
  /\ Goto(t, IF pc[t] = "timedout" THEN "readfd" ELSE "marking")
  /\ outstanding' = {}
  /\ UNCHANGED <<req, send_owner, fd, sock, incoming, peer>>

WakeOne(t) ==
  /\ \E id \in marking[t] : /\ marking' = [marking EXCEPT ![t] = @ \ {id}]
                            /\ done' = done \cup Owned({id})
                            /\ ok' = ok \ {id}
  /\ UNCHANGED <<pc, req, pending, failed, heartbeat_enabled, application_pending,
                 heartbeat_id, send_owner, fd, sock, net>>

\* fail_all() returns to its caller.
AfterFail(t) ==
  CASE t \in App -> "idle"
    [] t = Receiver -> "exited"
    [] t = Closer -> "shut"
    [] OTHER -> "idle"   \* the watchdog loops, finds failed and exits

FailReturns(t) ==
  /\ pc[t] = "marking" /\ marking[t] = {}
  /\ Goto(t, AfterFail(t))
  /\ done' = done \ {req[t]} /\ ok' = ok \ {req[t]}
  /\ req' = [req EXCEPT ![t] = NoId]
  /\ send_owner' = IF send_owner = t THEN NoThread ELSE send_owner
  /\ UNCHANGED <<marking, pending, failed, heartbeat_enabled, application_pending,
                 heartbeat_id, fd, sock, net>>

-----------------------------------------------------------------------------
\* Application threads.  Until the handshake has succeeded the application has
\* no instance, so that only the creating thread, whichever it is, makes a call;
\* and once it destroys the instance it may not call any more.
MayCall(a) ==
  /\ pc[a] = "idle" /\ pc[Closer] = "idle"
  /\ heartbeat_enabled \/ \A b \in App : pc[b] = "idle"

\* The pending table takes a request.
Admits == ~failed /\ Cardinality(pending) < kMaxPending

\* round_trip() and try_round_trip(), the registration.  When the table does
\* not take the request they return false at once.
RoundTrip(a, where) ==
  /\ MayCall(a) /\ Admits
  /\ Register(a)
  /\ application_pending' = application_pending + 1
  /\ Goto(a, where)
  /\ UNCHANGED <<marking, failed, heartbeat_enabled, heartbeat_id, send_owner, fd, sock, net>>

SendOneway(a) ==
  /\ MayCall(a) /\ heartbeat_enabled
  /\ Goto(a, "owlock")
  /\ UNCHANGED <<req, marking, table, send_owner, fd, sock, net>>

\* send_mutex, for round_trip, send_oneway and the watchdog's Ping.
Lock(t) ==
  /\ pc[t] \in {"lock", "owlock"} /\ send_owner = NoThread
  /\ send_owner' = t
  /\ Goto(t, IF pc[t] = "lock" THEN "send" ELSE "owsend")
  /\ UNCHANGED <<req, marking, table, fd, sock, net>>

\* try_round_trip(): the send is attempted only if the mutex is free and the
\* connection stands.
TryLock(a) ==
  /\ pc[a] = "trylock"
  /\ IF send_owner = NoThread /\ ~failed /\ fd = "valid"
       THEN send_owner' = a /\ Goto(a, "trysend")
       ELSE UNCHANGED send_owner /\ Goto(a, "cancel")
  /\ UNCHANGED <<req, marking, table, fd, sock, net>>

\* Under send_mutex: the request is sent and its thread waits ...
SendOk(t) ==
  /\ send_owner = t /\ SendSucceeds
  /\ \/ pc[t] \in {"send", "owsend"} /\ ~failed /\ fd = "valid"
     \/ pc[t] = "trysend"
  /\ outstanding' = IF failed THEN {} ELSE outstanding \cup ({req[t]} \ {NoId})
  /\ Goto(t, CASE pc[t] = "owsend" -> "idle" [] t = Watchdog -> "await" [] OTHER -> "wait")
  /\ send_owner' = NoThread
  /\ UNCHANGED <<req, marking, table, fd, sock, incoming, peer>>

\* ... or it is not, and the connection fails.  send_oneway() returns without
\* failing it when it had already failed, and otherwise fails it while it
\* still holds send_mutex.
SendError(t) ==
  /\ send_owner = t
  /\ pc[t] \in {"send", "owsend", "trysend"}
  /\ IF pc[t] # "trysend" /\ (failed \/ fd = "invalid")
       THEN /\ Goto(t, IF pc[t] = "owsend" THEN "idle" ELSE "fail")
            /\ send_owner' = NoThread
       ELSE /\ SendFails
            /\ Goto(t, IF pc[t] = "owsend" THEN "owfail" ELSE "fail")
            /\ send_owner' = IF pc[t] = "owsend" THEN t ELSE NoThread
  /\ UNCHANGED <<req, marking, table, fd, sock, net>>

\* Mutant: the request withdrawn stays counted.
UncountNever == application_pending' = application_pending
\* if (application_pending != 0) --application_pending
Uncount ==
  application_pending' = IF application_pending # 0 THEN application_pending - 1 ELSE 0

\* try_round_trip() did not get to send: the registration is withdrawn.
Cancel(a) ==
  /\ pc[a] = "cancel"
  /\ pending' = pending \ {req[a]}
  /\ Uncount
  /\ req' = [req EXCEPT ![a] = NoId]
  /\ Goto(a, "idle")
  /\ UNCHANGED <<marking, done, ok, failed, heartbeat_enabled, heartbeat_id,
                 send_owner, fd, sock, net>>

\* The waiter is done and the call returns.  The first call is the handshake,
\* after which vkCreateInstance enables the heartbeat or gives up.
Return(a) ==
  /\ a \in App /\ pc[a] = "wait" /\ req[a] \in done
  /\ heartbeat_enabled' = (heartbeat_enabled \/ req[a] \in ok)
  /\ done' = done \ {req[a]} /\ ok' = ok \ {req[a]}
  /\ req' = [req EXCEPT ![a] = NoId]
  /\ pc' = [pc EXCEPT ![a] = "idle",
                      ![Closer] = IF heartbeat_enabled' THEN @ ELSE "fail"]
  /\ UNCHANGED <<marking, pending, failed, application_pending, heartbeat_id,
                 send_owner, fd, sock, net>>

-----------------------------------------------------------------------------
\* The receiver thread.  A reply must carry the id and the opcode of a request
\* that is pending.
Matches(r) == r.id \in pending /\ r.ping = (r.id \in Pings)

Receive ==
  LET r == Head(incoming) IN
  /\ pc[Receiver] = "recv" /\ incoming # <<>>
  /\ incoming' = Tail(incoming)
  /\ IF Matches(r)
       THEN /\ IF r.id = heartbeat_id
                 THEN heartbeat_id' = NoId /\ UNCHANGED application_pending
                 ELSE Uncount /\ UNCHANGED heartbeat_id
            /\ pending' = pending \ {r.id}
            /\ req' = [req EXCEPT ![Receiver] = r.id]
            /\ ok' = IF r.ok THEN ok \cup Owned({r.id}) ELSE ok \ {r.id}
            /\ Goto(Receiver, "deliver")
       ELSE /\ Goto(Receiver, "fail")
            /\ UNCHANGED <<req, pending, ok, heartbeat_id, application_pending>>
  /\ UNCHANGED <<marking, done, failed, heartbeat_enabled, send_owner, fd, sock,
                 outstanding, peer>>

\* The waiter is woken outside pending_mutex.
Deliver ==
  /\ pc[Receiver] = "deliver"
  /\ done' = done \cup Owned({req[Receiver]})
  /\ req' = [req EXCEPT ![Receiver] = NoId]
  /\ Goto(Receiver, "recv")
  /\ UNCHANGED <<marking, pending, ok, failed, heartbeat_enabled, application_pending,
                 heartbeat_id, send_owner, fd, sock, net>>

\* recv() reports the end of the stream or an error.
ReceiveFails ==
  /\ pc[Receiver] = "recv"
  /\ sock = "shut" \/ (peer = "closed" /\ incoming = <<>>)
  /\ Goto(Receiver, "fail")
  /\ UNCHANGED <<req, marking, table, send_owner, fd, sock, net>>

-----------------------------------------------------------------------------
\* The watchdog thread, from one wait to the next.
WatchdogExits ==
  /\ pc[Watchdog] = "idle" /\ failed
  /\ Goto(Watchdog, "exited")
  /\ UNCHANGED <<req, marking, table, send_owner, fd, sock, net>>

WatchdogArms ==
  /\ pc[Watchdog] = "idle" /\ ~failed /\ heartbeat_enabled /\ application_pending # 0
  /\ Goto(Watchdog, "interval")
  /\ UNCHANGED <<req, marking, table, send_owner, fd, sock, net>>

WatchdogDisarms ==
  /\ pc[Watchdog] = "interval"
  /\ failed \/ application_pending = 0 \/ heartbeat_id # NoId
  /\ Goto(Watchdog, "idle")
  /\ UNCHANGED <<req, marking, table, send_owner, fd, sock, net>>

\* The interval passes while requests are outstanding.
WatchdogPings ==
  /\ pc[Watchdog] = "interval" /\ ~failed /\ application_pending # 0 /\ heartbeat_id = NoId
  /\ Register(Watchdog)
  /\ heartbeat_id' = NewId(Watchdog)
  /\ Goto(Watchdog, "lock")
  /\ UNCHANGED <<marking, failed, heartbeat_enabled, application_pending, send_owner, fd, sock, net>>

WatchdogHearsPong ==
  /\ pc[Watchdog] = "await" /\ req[Watchdog] \in done
  /\ done' = done \ {req[Watchdog]} /\ ok' = ok \ {req[Watchdog]}
  /\ req' = [req EXCEPT ![Watchdog] = NoId]
  /\ Goto(Watchdog, "idle")
  /\ UNCHANGED <<marking, pending, failed, heartbeat_enabled, application_pending,
                 heartbeat_id, send_owner, fd, sock, net>>

\* The timeout expires; pending_mutex is not held yet, so that the Pong may
\* still overtake what the watchdog does next.
WatchdogTimesOut ==
  /\ pc[Watchdog] = "await" /\ req[Watchdog] \notin done
  /\ Goto(Watchdog, "late")
  /\ UNCHANGED <<req, marking, table, send_owner, fd, sock, net>>

\* What the watchdog checks again under pending_mutex.
StillUnanswered == heartbeat_id = req[Watchdog]

WatchdogDecides ==
  /\ pc[Watchdog] = "late"
  /\ Goto(Watchdog, CASE StillUnanswered /\ application_pending # 0 /\ ~failed -> "timedout"
                      [] StillUnanswered /\ ~(application_pending # 0 /\ ~failed) -> "linger"
                      [] OTHER -> "idle")
  /\ req' = IF StillUnanswered THEN req ELSE [req EXCEPT ![Watchdog] = NoId]
  /\ UNCHANGED <<marking, table, send_owner, fd, sock, net>>

\* Mutant: new requests do not end the wait for a late Pong.
LingerEndsWithPong == failed \/ heartbeat_id = NoId

\* The watchdog has something to do about an unanswered Ping.
LingerEnds == failed \/ heartbeat_id = NoId \/ application_pending # 0

\* No request was outstanding: the unanswered Ping stays pending.  It is held
\* against the server as soon as a new request needs it.
WatchdogLingers ==
  /\ pc[Watchdog] = "linger"
  /\ LingerEnds
  /\ IF application_pending # 0 /\ heartbeat_id # NoId /\ ~failed
       THEN Goto(Watchdog, "fail") /\ UNCHANGED req
       ELSE Goto(Watchdog, "idle") /\ req' = [req EXCEPT ![Watchdog] = NoId]
  /\ UNCHANGED <<marking, table, send_owner, fd, sock, net>>

\* After fail_all: read fd under send_mutex, then shut the socket down.
WatchdogReadsFd ==
  /\ pc[Watchdog] = "readfd" /\ marking[Watchdog] = {} /\ send_owner = NoThread
  /\ Goto(Watchdog, IF fd = "valid" THEN "shut" ELSE "exited")
  /\ UNCHANGED <<req, marking, table, send_owner, fd, sock, net>>

WatchdogShuts ==
  /\ pc[Watchdog] = "shut"
  /\ sock' = IF sock = "open" THEN "shut" ELSE sock
  /\ Goto(Watchdog, "exited")
  /\ UNCHANGED <<req, marking, table, send_owner, fd, net>>

-----------------------------------------------------------------------------
\* shutdown(), called by vkDestroyInstance, or by vkCreateInstance when the
\* handshake failed: the application has no call in progress.
Shutdown ==
  /\ pc[Closer] = "idle" /\ \A a \in App : pc[a] = "idle"
  /\ Goto(Closer, "fail")
  /\ UNCHANGED <<req, marking, table, send_owner, fd, sock, net>>

\* Mutant: the receiver is not woken.
ShutSocketNot ==
  /\ pc[Closer] = "shut" /\ send_owner = NoThread
  /\ Goto(Closer, "join")
  /\ UNCHANGED <<req, marking, table, send_owner, fd, sock, net>>

ShutSocket ==
  /\ pc[Closer] = "shut" /\ send_owner = NoThread
  /\ sock' = "shut"
  /\ Goto(Closer, "join")
  /\ UNCHANGED <<req, marking, table, send_owner, fd, net>>

\* Mutant: only the receiver is joined.
JoinReceiverOnly ==
  /\ pc[Closer] = "join" /\ pc[Receiver] = "exited" /\ send_owner = NoThread
  /\ fd' = "invalid"
  /\ Goto(Closer, "close")
  /\ UNCHANGED <<req, marking, table, send_owner, sock, net>>

\* Both threads are joined before fd is invalidated ...
JoinThreads ==
  /\ pc[Closer] = "join"
  /\ pc[Watchdog] = "exited" /\ pc[Receiver] = "exited" /\ send_owner = NoThread
  /\ fd' = "invalid"
  /\ Goto(Closer, "close")
  /\ UNCHANGED <<req, marking, table, send_owner, sock, net>>

\* ... and the descriptor is released last.
CloseSocket ==
  /\ pc[Closer] = "close"
  /\ sock' = "closed"
  /\ Goto(Closer, "closed")
  /\ UNCHANGED <<req, marking, table, send_owner, fd, net>>

Destroyed == pc[Closer] = "closed" /\ UNCHANGED vars

-----------------------------------------------------------------------------
\* The server and the network, as far as the client can tell.  Requests are
\* answered once each in any order, the waits among them after any delay.  The
\* status of a reply makes a difference here only to the handshake.
Answer(id) ==
  /\ peer = "alive" /\ id \in outstanding /\ Len(incoming) < MaxInFlight
  /\ outstanding' = outstanding \ {id}
  /\ \E good \in IF heartbeat_enabled THEN {TRUE} ELSE BOOLEAN :
       incoming' = Append(incoming, [id |-> id, ping |-> id \in Pings, ok |-> good])
  /\ UNCHANGED <<local, table, send_owner, fd, sock, peer>>

\* A reply the client did not ask for, or to a request that has since failed.
Babble ==
  /\ "babble" \in PeerMoves /\ peer = "alive" /\ incoming = <<>>
  /\ \E id \in pending \cup {NoId} :
       incoming' = <<[id |-> id, ping |-> id \notin Pings, ok |-> TRUE]>>
  /\ UNCHANGED <<local, table, send_owner, fd, sock, outstanding, peer>>

\* The peer hangs; hangs and lets the socket's buffers fill; goes away.
PeerChanges ==
  /\ peer' \in PeerMoves \ {"babble"}
  /\ \/ peer = "alive"
     \/ peer = "silent" /\ peer' # "silent"
     \/ peer = "clogged" /\ peer' = "closed"
  /\ outstanding' = IF peer' = "closed" THEN {} ELSE outstanding
  /\ UNCHANGED <<local, table, send_owner, fd, sock, incoming>>

-----------------------------------------------------------------------------
AppStep(a) ==
  \/ RoundTrip(a, "lock") \/ RoundTrip(a, "trylock") \/ SendOneway(a)
  \/ TryLock(a) \/ Cancel(a) \/ Return(a)

SendStep(t) == Lock(t) \/ SendOk(t) \/ SendError(t)
FailStep(t) == Fail(t) \/ WakeOne(t) \/ FailReturns(t)

ReceiverStep == Receive \/ Deliver \/ ReceiveFails

WatchdogStep ==
  \/ WatchdogExits \/ WatchdogArms \/ WatchdogDisarms \/ WatchdogPings
  \/ WatchdogHearsPong \/ WatchdogTimesOut \/ WatchdogDecides \/ WatchdogLingers
  \/ WatchdogReadsFd \/ WatchdogShuts

CloserStep == Shutdown \/ ShutSocket \/ JoinThreads \/ CloseSocket

Next ==
  \/ \E a \in App : AppStep(a)
  \/ \E t \in Threads : SendStep(t) \/ FailStep(t)
  \/ ReceiverStep \/ WatchdogStep \/ CloserStep
  \/ \E id \in Ids : Answer(id)
  \/ Babble \/ PeerChanges
  \/ Destroyed

Spec == Init /\ [][Next]_vars

\* What each thread does once it has begun; a call itself is nobody's duty.
Progress(t) ==
  \/ SendStep(t) \/ FailStep(t)
  \/ t \in App /\ (TryLock(t) \/ Cancel(t) \/ Return(t))
  \/ t = Receiver /\ ReceiverStep
  \/ t = Watchdog /\ WatchdogStep
  \/ t = Closer /\ (ShutSocket \/ JoinThreads \/ CloseSocket)

\* A thread that can go on goes on; strong fairness, because a thread queueing
\* for send_mutex is granted it if it is free again and again.  Nothing is
\* asked of the application and nothing of the peer.
Fairness == \A t \in Threads : SF_vars(Progress(t))

FairSpec == Spec /\ Fairness

-----------------------------------------------------------------------------
Waiting(t) == pc[t] \in {"wait", "await"}

\* application_pending, which decides whether the watchdog watches and whether
\* a missing Pong is fatal, counts exactly the application's requests in the
\* table, through withdrawn, answered and failed requests; and the table
\* holds at most one Ping, the one heartbeat_id names.
PendingAccounted ==
  /\ application_pending = Cardinality(pending \ {heartbeat_id})
  /\ pending \cap Pings = {heartbeat_id} \ {NoId}

\* A thread that waits for its reply is still in the table, or somebody has
\* taken its waiter out and is about to wake it, or it has been woken: fail_all
\* and the receiver never lose a waiter between them.
NoWaiterLost ==
  \A t \in Threads : Waiting(t) =>
     \/ req[t] \in done
     \/ req[t] \in pending
     \/ \E u \in Threads : req[t] \in marking[u]
     \/ pc[Receiver] = "deliver" /\ req[Receiver] = req[t]

\* After fail_all nothing is registered any more, so nobody can begin to wait
\* for a reply that no one would deliver.
FailureIsFinal == failed => pending = {} /\ application_pending = 0 /\ heartbeat_id = NoId

\* No thread can touch the descriptor once it is released to the system, which
\* may give its number to another file at once.
DescriptorUnused ==
  sock = "closed" =>
    /\ pc[Receiver] \notin {"recv"}
    /\ pc[Watchdog] \notin {"shut", "send"}
    /\ \A a \in App : pc[a] \notin {"send", "trysend", "owsend"}

\* Once the connection has failed every waiting call returns.
FailureReleasesCallers ==
  \A a \in App : (failed /\ pc[a] = "wait") ~> (pc[a] # "wait")

\* A server that hangs without closing the connection is noticed: a call that
\* waits returns, unless the peer lets the socket's buffers fill up, in which
\* case the Ping cannot be sent either.
SilenceIsNoticed ==
  \A a \in App : (heartbeat_enabled /\ peer = "silent" /\ pc[a] = "wait")
                    ~> (pc[a] # "wait" \/ peer = "clogged")

\* shutdown() returns, whatever the other threads were doing, unless a Ping is
\* stuck in a full socket buffer with send_mutex held.
ShutdownReturns ==
  pc[Closer] = "fail" ~> (pc[Closer] = "closed" \/ peer = "clogged")

\* The table of waiting requests, its two counters and the failure flag say the same
\* in every interleaving of round_trip, cancellation, the receiver, the watchdog and
\* fail_all.
TableAccounted == TypeOK /\ PendingAccounted /\ FailureIsFinal

\* Nobody is left in a call: the waiting ones return after a failure, and so does
\* shutdown().
CallersReturn == FailureReleasesCallers /\ ShutdownReturns
=============================================================================
