------------------------------ MODULE Acceptor ------------------------------
(***************************************************************************)
(* The server's main() (src/server/main.cpp): it accepts connections,      *)
(* starts a thread for each, joins the threads that have finished, and     *)
(* closes everything down on a signal or when the listener fails.          *)
(*                                                                         *)
(* main owns the descriptors.  Their numbers are the operating system's:   *)
(* a closed number is given to the next file that anybody in the process   *)
(* opens (the Vulkan driver, the Wayland proxy).  What a session does      *)
(* between its start and its end is the subject of module Session.         *)
(***************************************************************************)
EXTENDS Naturals, Sequences, SequencesExt

CONSTANTS Peers,                 \* the clients that connect, once each
          Fds,                   \* descriptor numbers
          kMaxConcurrentClients,
          Other                  \* stands for a file of somebody else

ASSUME LimitAssumption == kMaxConcurrentClients \in Nat \ {0}
ASSUME OtherAssumption == Other \notin Peers

VARIABLES pc,       \* main's place in the code
          i,        \* the client it is looking at
          clients,  \* the vector of ClientThread, as the peers they serve
          current,  \* {} or the peer whose connection was just accepted
          g_stop, listener_failed,
          worker    \* per peer, its thread: "none", "serving", "ended", "done", "joined"

\* The operating system and the peers.
VARIABLES peer,     \* "away", "waiting" in the backlog, "connected", "gone"
          fd,       \* per peer: {} or the number its connection was given
          file,     \* per open number: what it refers to
          shut      \* the peers whose connection was shut down

main == <<pc, i, clients, current, listener_failed>>
system == <<peer, fd, file, shut>>
vars == <<main, g_stop, worker, system>>

TypeOK ==
  /\ pc \in {"loop", "reap", "poll", "accept", "admit", "close", "shutdown", "join",
             "wayland", "stopped"}
  /\ i \in 1 .. Len(clients) + 1
  /\ clients \in Seq(Peers) /\ IsInjective(clients)
  /\ current \subseteq Peers
  /\ g_stop \in BOOLEAN /\ listener_failed \in BOOLEAN
  /\ worker \in [Peers -> {"none", "serving", "ended", "done", "joined"}]
  /\ peer \in [Peers -> {"away", "waiting", "connected", "gone"}]
  /\ DOMAIN file \subseteq Fds /\ \A f \in DOMAIN file : file[f] \in Peers \cup {Other}
  /\ \A p \in Peers : fd[p] \subseteq Fds
  /\ shut \subseteq Peers

Init ==
  /\ pc = "loop" /\ i = 1 /\ clients = <<>> /\ current = {}
  /\ g_stop = FALSE /\ listener_failed = FALSE
  /\ worker = [p \in Peers |-> "none"]
  /\ peer = [p \in Peers |-> "away"]
  /\ fd = [p \in Peers |-> {}]
  /\ file = [f \in {} |-> Other]
  /\ shut = {}

-----------------------------------------------------------------------------
\* The peers, and others who open and close files.
Listening == pc \notin {"shutdown", "join", "wayland", "stopped"}

Connect(p) ==
  /\ peer[p] = "away" /\ Listening
  /\ peer' = [peer EXCEPT ![p] = "waiting"]
  /\ UNCHANGED <<main, g_stop, worker, fd, file, shut>>

Disconnect(p) ==
  /\ peer[p] \in {"waiting", "connected"}
  /\ peer' = [peer EXCEPT ![p] = "gone"]
  /\ UNCHANGED <<main, g_stop, worker, fd, file, shut>>

\* Number f given to x, and numbers given back.
Opened(f, x) == file' = [g \in DOMAIN file \cup {f} |-> IF g = f THEN x ELSE file[g]]
Closed(fs) == file' = [g \in DOMAIN file \ fs |-> file[g]]
Waiting == {p \in Peers : peer[p] = "waiting"}

OtherFile(f) ==
  /\ \/ f \notin DOMAIN file /\ Opened(f, Other)
     \/ f \in DOMAIN file /\ file[f] = Other /\ Closed({f})
  /\ UNCHANGED <<main, g_stop, worker, peer, fd, shut>>

Signal ==
  /\ ~g_stop /\ g_stop' = TRUE
  /\ UNCHANGED <<main, worker, system>>

-----------------------------------------------------------------------------
\* Mutant: the thread closes the descriptor itself.
ServeReturnsClosing(p) ==
  /\ worker[p] = "serving"
  /\ worker' = [worker EXCEPT ![p] = "ended"]
  /\ Closed(fd[p])
  /\ UNCHANGED <<main, g_stop, peer, fd, shut>>

\* The thread of a session.  serve() returns when the peer has gone, when its
\* connection is shut down, or when it has had enough of what the peer sends.
ServeReturns(p) ==
  /\ worker[p] = "serving"
  /\ worker' = [worker EXCEPT ![p] = "ended"]
  /\ UNCHANGED <<main, g_stop, system>>

\* done->store(true), after the thread's last use of the descriptor.
PublishDone(p) ==
  /\ worker[p] = "ended"
  /\ worker' = [worker EXCEPT ![p] = "done"]
  /\ UNCHANGED <<main, g_stop, system>>

-----------------------------------------------------------------------------
\* main: the loop.
Goto(where) == pc' = where /\ i' = 1

TestStop ==
  /\ pc = "loop"
  /\ Goto(IF g_stop THEN "close" ELSE "reap")
  /\ UNCHANGED <<clients, current, listener_failed, g_stop, worker, system>>

Finished(p) == worker[p] = "done"

\* close_socket(): main forgets the number, the peer sees the connection end.
CloseSocket(p) ==
  /\ Closed(fd[p])
  /\ fd' = [fd EXCEPT ![p] = {}]
  /\ peer' = [peer EXCEPT ![p] = "gone"]
  /\ shut' = shut \ {p}

\* thread.join() returns when the thread has run to its end.
JoinAndClose(p) ==
  /\ worker[p] = "done"
  /\ worker' = [worker EXCEPT ![p] = "joined"]
  /\ CloseSocket(p)

ReapCompleted ==
  /\ pc = "reap" /\ i <= Len(clients)
  /\ IF Finished(clients[i])
       THEN JoinAndClose(clients[i]) /\ clients' = RemoveAt(clients, i) /\ UNCHANGED i
       ELSE i' = i + 1 /\ UNCHANGED <<clients, worker, system>>
  /\ UNCHANGED <<pc, current, listener_failed, g_stop>>

Reaped ==
  /\ pc = "reap" /\ i > Len(clients)
  /\ Goto("poll")
  /\ UNCHANGED <<clients, current, listener_failed, g_stop, worker, system>>

\* wait_for_connection: ready, timeout or interrupted, or an error.
Poll ==
  /\ pc = "poll"
  /\ \/ Waiting # {} /\ Goto("accept") /\ UNCHANGED listener_failed
     \/ (Waiting = {} \/ g_stop) /\ Goto("loop") /\ UNCHANGED listener_failed
     \/ Goto("close") /\ listener_failed' = TRUE
  /\ UNCHANGED <<clients, current, g_stop, worker, system>>

\* accept: a connection, nothing there any more, or an error.
Accept ==
  /\ pc = "accept"
  /\ \/ \E p \in Waiting, f \in Fds \ DOMAIN file :
          /\ peer' = [peer EXCEPT ![p] = "connected"]
          /\ fd' = [fd EXCEPT ![p] = {f}] /\ Opened(f, p)
          /\ current' = {p} /\ Goto("admit")
          /\ UNCHANGED <<listener_failed, shut>>
     \/ /\ Waiting = {} \/ g_stop
        /\ Goto("loop") /\ UNCHANGED <<current, listener_failed, system>>
     \/ Goto("close") /\ listener_failed' = TRUE /\ UNCHANGED <<current, system>>
  /\ UNCHANGED <<clients, g_stop, worker>>

\* A connection over the limit is closed, and so is one whose thread does not start.
Refuse(p) ==
  /\ CloseSocket(p)
  /\ \/ Len(clients) >= kMaxConcurrentClients /\ Goto("loop") /\ UNCHANGED listener_failed
     \/ Len(clients) < kMaxConcurrentClients /\ Goto("close") /\ listener_failed' = TRUE
  /\ UNCHANGED <<clients, worker>>

StartWorker(p) ==
  /\ Len(clients) < kMaxConcurrentClients
  /\ clients' = Append(clients, p)
  /\ worker' = [worker EXCEPT ![p] = "serving"]
  /\ Goto("loop")
  /\ UNCHANGED <<listener_failed, system>>

Admit ==
  /\ pc = "admit"
  /\ \E p \in current : Refuse(p) \/ StartWorker(p)
  /\ current' = {}
  /\ UNCHANGED g_stop

\* main: the end.
CloseListener ==
  /\ pc = "close"
  /\ Goto("shutdown")
  /\ peer' = [p \in Peers |-> IF peer[p] = "waiting" THEN "gone" ELSE peer[p]]
  /\ UNCHANGED <<clients, current, listener_failed, g_stop, worker, fd, file, shut>>

\* Mutant: the connections are not shut down.
ShutNobody(p) == UNCHANGED shut

\* shutdown() on the number kept for p; it reaches whatever the number refers to.
ShutDown(p) == shut' = shut \cup ({file[f] : f \in fd[p] \cap DOMAIN file} \ {Other})

ShutdownClients ==
  /\ pc = "shutdown"
  /\ IF i <= Len(clients) THEN ShutDown(clients[i]) /\ i' = i + 1 /\ UNCHANGED pc
     ELSE Goto("join") /\ UNCHANGED shut
  /\ UNCHANGED <<clients, current, listener_failed, g_stop, worker, peer, fd, file>>

JoinClients ==
  /\ pc = "join"
  /\ IF i <= Len(clients)
       THEN JoinAndClose(clients[i]) /\ i' = i + 1 /\ UNCHANGED pc
       ELSE Goto("wayland") /\ UNCHANGED <<worker, system>>
  /\ UNCHANGED <<clients, current, listener_failed, g_stop>>

\* stop_wayland: the pump thread looks at g_stop every millisecond.
StopWayland ==
  /\ pc = "wayland"
  /\ g_stop' = TRUE
  /\ Goto("stopped")
  /\ UNCHANGED <<clients, current, listener_failed, worker, system>>

Main ==
  \/ TestStop \/ ReapCompleted \/ Reaped \/ Poll \/ Accept \/ Admit
  \/ CloseListener \/ ShutdownClients \/ JoinClients \/ StopWayland

Next ==
  \/ Main \/ Signal
  \/ \E p \in Peers : Connect(p) \/ Disconnect(p) \/ ServeReturns(p) \/ PublishDone(p)
  \/ \E f \in Fds : OtherFile(f)

Spec == Init /\ [][Next]_vars

\* main runs, poll returns within 100 ms; a session whose peer has gone or whose
\* connection is shut down ends (module Session) and its thread with it.
Over(p) == peer[p] = "gone" \/ p \in shut

Fairness ==
  /\ WF_vars(Main)
  /\ \A p \in Peers : WF_vars(Over(p) /\ ServeReturns(p)) /\ WF_vars(PublishDone(p))

FairSpec == Spec /\ Fairness

-----------------------------------------------------------------------------
\* The comment in main(): the number kept for a client is its own connection's for
\* as long as its thread may use it and main may shut it down, whoever opens and
\* closes files meanwhile.
Own(p) == \E f \in fd[p] \cap DOMAIN file : file[f] = p
DescriptorIsOwn ==
  /\ \A p \in Peers : worker[p] \in {"serving", "ended"} => Own(p)
  /\ pc = "shutdown" => \A n \in 1 .. Len(clients) : Own(clients[n])

\* Every accepted connection that is still open belongs to a client in the list or
\* is the one being admitted: no path leaks one, and when main returns, and
\* destroys the Server, none is left and no thread runs.
AllAccountedFor ==
  /\ \A f \in DOMAIN file : file[f] # Other =>
       file[f] \in current \/ \E n \in 1 .. Len(clients) : clients[n] = file[f]
  /\ pc = "stopped" => /\ \A p \in Peers : worker[p] \in {"none", "joined"}
                       /\ \A f \in DOMAIN file : file[f] = Other

\* A finished session is joined and its descriptor closed although nobody connects.
FinishedIsReaped == \A p \in Peers : worker[p] = "ended" ~> worker[p] = "joined"

\* After a signal, or when the listener has failed, the server stops: no client
\* can keep it, connected or not.
ServerStops == (g_stop \/ listener_failed) ~> pc = "stopped"

\* The descriptors of accepted connections: each is its client's own for as long as
\* anybody may use it, and none is lost.
SocketsAccounted == TypeOK /\ DescriptorIsOwn /\ AllAccountedFor

\* Sessions that are over are reaped, and a server told to stop does.
ServerWindsDown == FinishedIsReaped /\ ServerStops
=============================================================================
