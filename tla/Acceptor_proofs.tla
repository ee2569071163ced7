--------------------------- MODULE Acceptor_proofs ---------------------------
(***************************************************************************)
(* Proofs about the accept loop, for any number of peers, descriptor       *)
(* numbers and clients.  The invariant says who owns each open number at   *)
(* every place of main(): the connection being admitted, or a client in    *)
(* the list whose thread has not been joined.                              *)
(***************************************************************************)
EXTENDS Acceptor, SequenceTheorems, TLAPS

\* The states of a thread that has been started and not yet joined.
Active == {"serving", "ended", "done"}

\* main() has joined the thread of client n and closed its number; the client
\* itself stays in the vector.
Joined(n) == pc \in {"wayland", "stopped"} \/ (pc = "join" /\ n < i)

\* The vector holds every thread that was started, and none twice.
ListInv ==
  /\ \A n \in DOMAIN clients :
       IF Joined(n) THEN worker[clients[n]] = "joined" ELSE worker[clients[n]] \in Active
  /\ \A p \in Peers : worker[p] \in Active => \E n \in DOMAIN clients : clients[n] = p

\* A number is open in a peer's name exactly while main keeps it for that
\* peer, and main keeps one exactly for the peers it still has to close.
FdInv ==
  /\ fd \in [Peers -> SUBSET Fds]
  /\ \A p \in Peers : \A f \in fd[p] : f \in DOMAIN file /\ file[f] = p
  /\ \A f \in DOMAIN file : file[f] # Other => f \in fd[file[f]]
  /\ \A p \in Peers : fd[p] # {} <=> p \in current \/ worker[p] \in Active

\* A connection is being admitted only between accept and the next turn of
\* the loop, and a peer is accepted once.
AdmitInv ==
  /\ current # {} => pc = "admit"
  /\ \A p \in current : worker[p] = "none" /\ \A q \in current : q = p
  /\ \A p \in Peers : peer[p] \in {"away", "waiting"} => worker[p] = "none" /\ p \notin current

SocketInv == TypeOK /\ ListInv /\ FdInv /\ AdmitInv
-----------------------------------------------------------------------------
\* What RemoveAt leaves, with the place each element came from.
LEMMA RemoveFacts ==
  ASSUME NEW S, NEW s \in Seq(S), NEW k \in 1 .. Len(s)
  PROVE  /\ RemoveAt(s, k) \in Seq(S) /\ Len(RemoveAt(s, k)) = Len(s) - 1
         /\ \A n \in 1 .. Len(s) - 1 : RemoveAt(s, k)[n] = IF n < k THEN s[n] ELSE s[n + 1]
<1> DEFINE a == SubSeq(s, 1, k - 1)
           b == SubSeq(s, k + 1, Len(s))
<1>1. Len(s) \in Nat /\ k \in Nat /\ 1 <= k /\ k <= Len(s)
  BY LenProperties
<1>2. a \in Seq(S) /\ Len(a) = k - 1 /\ \A n \in 1 .. k - 1 : a[n] = s[n]
  <2>1. /\ a \in Seq(S)
        /\ Len(a) = IF 1 <= k - 1 THEN k - 1 - 1 + 1 ELSE 0
        /\ \A n \in 1 .. k - 1 - 1 + 1 : a[n] = s[1 + n - 1]
    BY <1>1, SubSeqProperties
  <2>2. QED
    BY <1>1, <2>1
<1>3. b \in Seq(S) /\ Len(b) = Len(s) - k /\ \A n \in 1 .. Len(s) - k : b[n] = s[k + n]
  <2>1. /\ b \in Seq(S)
        /\ Len(b) = IF k + 1 <= Len(s) THEN Len(s) - (k + 1) + 1 ELSE 0
        /\ \A n \in 1 .. Len(s) - (k + 1) + 1 : b[n] = s[k + 1 + n - 1]
    BY <1>1, SubSeqProperties
  <2>2. QED
    BY <1>1, <2>1
<1> HIDE DEF a, b
<1>4. /\ a \o b \in Seq(S) /\ Len(a \o b) = Len(a) + Len(b)
      /\ \A n \in 1 .. Len(a) + Len(b) : (a \o b)[n] = IF n <= Len(a) THEN a[n] ELSE b[n - Len(a)]
  BY <1>2, <1>3, ConcatProperties
<1>5. Len(a) + Len(b) = Len(s) - 1
  BY <1>1, <1>2, <1>3
<1>6. ASSUME NEW n \in 1 .. Len(s) - 1
      PROVE  (a \o b)[n] = IF n < k THEN s[n] ELSE s[n + 1]
  <2>1. CASE n < k
    BY <1>1, <1>2, <1>4, <1>5, <2>1
  <2>2. CASE n >= k
    <3>1. (a \o b)[n] = b[n - (k - 1)] /\ n - (k - 1) \in 1 .. Len(s) - k
      BY <1>1, <1>2, <1>4, <1>5, <2>2
    <3>2. b[n - (k - 1)] = s[k + (n - (k - 1))]
      BY <1>3, <3>1
    <3>3. k + (n - (k - 1)) = n + 1
      BY <1>1
    <3>4. QED
      BY <1>1, <2>2, <3>1, <3>2, <3>3
  <2>3. n < k \/ n >= k
    BY <1>1
  <2>4. QED
    BY <2>1, <2>2, <2>3
<1>7. RemoveAt(s, k) = a \o b
  BY DEF RemoveAt, a, b
<1>8. QED
  BY <1>4, <1>5, <1>6, <1>7

\* The domain of the vector, as an interval.
LEMMA ClientFacts ==
  ASSUME TypeOK
  PROVE  /\ Len(clients) \in Nat /\ DOMAIN clients = 1 .. Len(clients)
         /\ \A n \in DOMAIN clients : clients[n] \in Peers
  BY LenProperties, ElementOfSeq DEF TypeOK

LEMMA SocketInit == Init => SocketInv
<1> SUFFICES ASSUME Init PROVE SocketInv
  OBVIOUS
<1>1. Len(clients) = 0 /\ DOMAIN clients = {} /\ clients \in Seq(Peers) /\ DOMAIN file = {}
  BY DEF Init
<1>2. TypeOK
  <2>1. i \in 1 .. Len(clients) + 1 /\ IsInjective(clients)
    BY <1>1 DEF Init, IsInjective
  <2>2. \A p \in Peers : fd[p] \subseteq Fds
    BY DEF Init
  <2>3. QED
    BY <1>1, <2>1, <2>2 DEF Init, TypeOK
<1>3. QED
  BY <1>1, <1>2 DEF Init, SocketInv, ListInv, FdInv, AdmitInv, Active

\* A step of the peers, of somebody else's files or of main that leaves the
\* vector, the threads and the descriptors alone keeps the invariant.
LEMMA QuietStep ==
  ASSUME SocketInv, UNCHANGED <<clients, current, worker, fd, file>>,
         pc' \in {"loop", "reap", "poll", "accept", "admit", "close", "shutdown", "join",
                  "wayland", "stopped"},
         i' \in 1 .. Len(clients) + 1, g_stop' \in BOOLEAN, listener_failed' \in BOOLEAN,
         peer' \in [Peers -> {"away", "waiting", "connected", "gone"}], shut' \subseteq Peers,
         \A p \in Peers : peer'[p] \in {"away", "waiting"} => peer[p] \in {"away", "waiting"},
         current # {} => pc' = "admit",
         \A n \in DOMAIN clients : Joined(n)' <=> Joined(n)
  PROVE  SocketInv'
<1>1. TypeOK'
  BY DEF SocketInv, TypeOK
<1>2. ListInv'
  BY DEF SocketInv, ListInv
<1>3. FdInv' /\ AdmitInv'
  BY DEF SocketInv, FdInv, AdmitInv
<1>4. QED
  BY <1>1, <1>2, <1>3 DEF SocketInv
\* serve() returns, or the thread publishes that it is done.
LEMMA ThreadStep ==
  ASSUME SocketInv, NEW p \in Peers, ServeReturns(p) \/ PublishDone(p)
  PROVE  SocketInv'
<1>1. /\ worker \in [Peers -> {"none", "serving", "ended", "done", "joined"}]
      /\ worker[p] \in Active /\ worker'[p] \in Active
      /\ \A q \in Peers \ {p} : worker'[q] = worker[q]
      /\ worker' \in [Peers -> {"none", "serving", "ended", "done", "joined"}]
  BY DEF ServeReturns, PublishDone, Active, SocketInv, TypeOK
<1>2. UNCHANGED <<pc, i, clients, current, listener_failed, g_stop, peer, fd, file, shut>>
  BY DEF ServeReturns, PublishDone, main, system
<1>3. TypeOK'
  BY <1>1, <1>2 DEF SocketInv, TypeOK
<1>4. ListInv'
  <2>1. \A n \in DOMAIN clients : clients[n] \in Peers /\ (Joined(n)' <=> Joined(n))
    BY <1>2, ClientFacts DEF SocketInv, Joined
  <2>2. worker[p] # "joined"
    BY <1>1 DEF Active
  <2>3. QED
    BY <1>1, <1>2, <2>1, <2>2 DEF SocketInv, ListInv
<1>5. FdInv'
  BY <1>1, <1>2 DEF SocketInv, FdInv
<1>6. AdmitInv'
  <2>1. worker[p] # "none"
    BY <1>1 DEF Active
  <2>2. QED
    BY <1>1, <1>2, <2>1 DEF SocketInv, AdmitInv, TypeOK
<1>7. QED
  BY <1>3, <1>4, <1>5, <1>6 DEF SocketInv

\* Closing the number of one peer takes nothing from another.
LEMMA CloseFacts ==
  ASSUME TypeOK, FdInv, NEW p \in Peers, CloseSocket(p)
  PROVE  /\ fd' \in [Peers -> SUBSET Fds] /\ fd'[p] = {}
         /\ \A q \in Peers \ {p} : fd'[q] = fd[q]
         /\ \A q \in Peers : \A f \in fd'[q] : f \in DOMAIN file' /\ file'[f] = q
         /\ \A f \in DOMAIN file' : file'[f] # Other => f \in fd'[file'[f]]
         /\ DOMAIN file' \subseteq Fds /\ \A f \in DOMAIN file' : file'[f] \in Peers \cup {Other}
         /\ peer' \in [Peers -> {"away", "waiting", "connected", "gone"}]
         /\ peer'[p] = "gone" /\ \A q \in Peers \ {p} : peer'[q] = peer[q]
         /\ shut' \subseteq Peers
<1>1. /\ DOMAIN file' = DOMAIN file \ fd[p]
      /\ \A f \in DOMAIN file \ fd[p] : file'[f] = file[f]
  BY DEF CloseSocket, Closed
<1>2. /\ fd' \in [Peers -> SUBSET Fds] /\ fd'[p] = {}
      /\ \A q \in Peers \ {p} : fd'[q] = fd[q]
  BY DEF CloseSocket, FdInv
<1>3. /\ peer' \in [Peers -> {"away", "waiting", "connected", "gone"}]
      /\ peer'[p] = "gone" /\ \A q \in Peers \ {p} : peer'[q] = peer[q]
      /\ shut' \subseteq Peers
  BY DEF CloseSocket, TypeOK
<1>4. \A q \in Peers : \A f \in fd'[q] : f \in DOMAIN file' /\ file'[f] = q
  BY <1>1, <1>2 DEF FdInv
<1>5. \A f \in DOMAIN file' : file'[f] # Other => f \in fd'[file'[f]]
  BY <1>1, <1>2 DEF FdInv, TypeOK
<1>6. QED
  BY <1>1, <1>2, <1>3, <1>4, <1>5 DEF TypeOK

\* A finished thread is joined, its number closed and the client erased.
LEMMA ReapStep ==
  ASSUME SocketInv, ReapCompleted, Finished(clients[i])
  PROVE  SocketInv'
<1>1. /\ pc = "reap" /\ i \in 1 .. Len(clients) /\ i \in DOMAIN clients /\ Len(clients) \in Nat
      /\ DOMAIN clients = 1 .. Len(clients)
      /\ UNCHANGED <<pc, i, current, listener_failed, g_stop>>
  BY ClientFacts DEF ReapCompleted, SocketInv, TypeOK
<1>2. PICK p \in Peers : p = clients[i]
  BY <1>1, ClientFacts DEF SocketInv
<1>3. /\ worker[p] = "done" /\ worker' = [worker EXCEPT ![p] = "joined"] /\ CloseSocket(p)
      /\ clients' = RemoveAt(clients, i)
  BY <1>2 DEF ReapCompleted, JoinAndClose, Finished
<1>4. /\ clients' \in Seq(Peers) /\ Len(clients') = Len(clients) - 1
      /\ DOMAIN clients' = 1 .. Len(clients) - 1
      /\ \A n \in DOMAIN clients' : clients'[n] = IF n < i THEN clients[n] ELSE clients[n + 1]
  <2>1. clients \in Seq(Peers)
    BY DEF SocketInv, TypeOK
  <2> DEFINE r == RemoveAt(clients, i)
  <2>2. /\ r \in Seq(Peers) /\ Len(r) = Len(clients) - 1
        /\ \A n \in 1 .. Len(clients) - 1 : r[n] = IF n < i THEN clients[n] ELSE clients[n + 1]
    <3>1. i \in 1 .. Len(clients)
      BY <1>1
    <3>2. QED
      BY <2>1, <3>1, RemoveFacts, Zenon
  <2>3. clients' = r
    BY <1>3
  <2> HIDE DEF r
  <2>4. QED
    BY <2>2, <2>3, LenProperties
<1> DEFINE was(n) == IF n < i THEN n ELSE n + 1
<1>5. \A n \in DOMAIN clients' :
        /\ was(n) \in DOMAIN clients /\ was(n) # i /\ clients'[n] = clients[was(n)]
        /\ \A m \in DOMAIN clients' : was(m) = was(n) => m = n
  BY <1>1, <1>4
<1>6. \A n \in DOMAIN clients : n # i => \E m \in DOMAIN clients' : clients'[m] = clients[n]
  <2> SUFFICES ASSUME NEW n \in DOMAIN clients, n # i
               PROVE  \E m \in DOMAIN clients' : clients'[m] = clients[n]
    OBVIOUS
  <2>1. CASE n < i
    <3>1. n \in DOMAIN clients' /\ clients'[n] = clients[n]
      BY <1>1, <1>4, <2>1
    <3>2. QED
      BY <3>1
  <2>2. CASE n > i
    <3>1. n - 1 \in DOMAIN clients' /\ clients'[n - 1] = clients[n]
      BY <1>1, <1>4, <2>2
    <3>2. QED
      BY <3>1
  <2>3. n < i \/ n > i
    BY <1>1
  <2>4. QED
    BY <2>1, <2>2, <2>3
<1>7. /\ \A n \in DOMAIN clients' : clients'[n] # p /\ clients'[n] \in Peers
      /\ IsInjective(clients')
  <2> HIDE DEF was
  <2>1. IsInjective(clients) /\ \A n \in DOMAIN clients : clients[n] \in Peers
    BY ClientFacts DEF SocketInv, TypeOK
  <2>2. QED
    BY <1>1, <1>2, <1>5, <2>1 DEF IsInjective
<1>8. /\ worker' \in [Peers -> {"none", "serving", "ended", "done", "joined"}]
      /\ worker'[p] = "joined" /\ \A q \in Peers \ {p} : worker'[q] = worker[q]
  BY <1>3 DEF SocketInv, TypeOK
<1>9. TypeOK'
  <2>1. i' \in 1 .. Len(clients') + 1
    BY <1>1, <1>4
  <2>2. QED
    BY <1>1, <1>3, <1>4, <1>7, <1>8, <2>1, CloseFacts DEF SocketInv, TypeOK, FdInv
<1>10. ListInv'
  <2>1. \A n \in DOMAIN clients : worker[clients[n]] \in Active
    BY <1>1 DEF SocketInv, ListInv, Joined
  <2>2. \A n \in DOMAIN clients' : worker'[clients'[n]] \in Active /\ ~Joined(n)'
    BY <1>1, <1>5, <1>7, <1>8, <2>1 DEF Joined
  <2>3. ASSUME NEW q \in Peers, worker'[q] \in Active
        PROVE  \E m \in DOMAIN clients' : clients'[m] = q
    <3>1. q # p /\ worker[q] \in Active
      BY <1>8, <2>3 DEF Active
    <3>2. PICK n \in DOMAIN clients : clients[n] = q
      BY <3>1 DEF SocketInv, ListInv
    <3>3. QED
      BY <1>2, <1>6, <3>1, <3>2
  <2>4. QED
    BY <2>2, <2>3 DEF ListInv
<1>11. FdInv'
  <2>1. \A q \in Peers : fd'[q] # {} <=> q \in current' \/ worker'[q] \in Active
    <3>1. p \notin current /\ current = {}
      BY <1>1 DEF SocketInv, AdmitInv
    <3>2. QED
      BY <1>1, <1>3, <1>8, <3>1, CloseFacts DEF SocketInv, FdInv, Active
  <2>2. QED
    BY <1>3, <2>1, CloseFacts DEF SocketInv, FdInv
<1>12. AdmitInv'
  BY <1>1, <1>3, <1>8, CloseFacts DEF SocketInv, AdmitInv
<1>13. QED
  BY <1>9, <1>10, <1>11, <1>12 DEF SocketInv
\* The connection of p was accepted under the free number f.
LEMMA AcceptStep ==
  ASSUME SocketInv, pc = "accept", NEW p \in Waiting, NEW f \in Fds \ DOMAIN file,
         peer' = [peer EXCEPT ![p] = "connected"], fd' = [fd EXCEPT ![p] = {f}], Opened(f, p),
         current' = {p}, Goto("admit"),
         UNCHANGED <<clients, g_stop, worker, listener_failed, shut>>
  PROVE  SocketInv'
<1>1. /\ p \in Peers /\ p # Other /\ peer[p] = "waiting" /\ worker[p] = "none" /\ current = {}
      /\ pc' = "admit" /\ i' = 1
  BY OtherAssumption DEF Waiting, Goto, SocketInv, AdmitInv
<1>2. /\ DOMAIN file' = DOMAIN file \cup {f} /\ file'[f] = p
      /\ \A g \in DOMAIN file : g # f /\ file'[g] = file[g]
  BY DEF Opened
<1>3. /\ fd' \in [Peers -> SUBSET Fds] /\ fd'[p] = {f}
      /\ \A q \in Peers \ {p} : fd'[q] = fd[q]
  BY <1>1 DEF SocketInv, FdInv
<1>4. fd[p] = {}
  BY <1>1 DEF SocketInv, FdInv, Active
<1>5. TypeOK'
  <2>1. i' \in 1 .. Len(clients') + 1
    BY <1>1, ClientFacts DEF SocketInv
  <2>2. QED
    BY <1>1, <1>2, <1>3, <2>1 DEF SocketInv, TypeOK
<1>6. ListInv'
  BY <1>1 DEF SocketInv, ListInv, Joined
<1>7. FdInv'
  <2>1. \A q \in Peers : \A g \in fd'[q] : g \in DOMAIN file' /\ file'[g] = q
    BY <1>1, <1>2, <1>3 DEF SocketInv, FdInv
  <2>2. ASSUME NEW g \in DOMAIN file', file'[g] # Other PROVE g \in fd'[file'[g]]
    <3>1. CASE g = f
      BY <1>2, <1>3, <3>1
    <3>2. CASE g # f
      <4>1. g \in DOMAIN file /\ file'[g] = file[g] /\ file[g] \in Peers /\ g \in fd[file[g]]
        BY <1>2, <2>2, <3>2 DEF SocketInv, FdInv, TypeOK
      <4>2. file[g] # p
        BY <1>4, <4>1
      <4>3. QED
        BY <1>3, <4>1, <4>2
    <3>3. QED
      BY <3>1, <3>2
  <2>3. \A q \in Peers : fd'[q] # {} <=> q \in current' \/ worker'[q] \in Active
    BY <1>1, <1>3 DEF SocketInv, FdInv
  <2>4. QED
    BY <1>3, <2>1, <2>2, <2>3 DEF FdInv
<1>8. AdmitInv'
  BY <1>1 DEF SocketInv, AdmitInv, TypeOK
<1>9. QED
  BY <1>5, <1>6, <1>7, <1>8 DEF SocketInv

\* The accepted connection is refused and closed.
LEMMA RefuseStep ==
  ASSUME SocketInv, pc = "admit", NEW p \in current, Refuse(p), current' = {}, UNCHANGED g_stop
  PROVE  SocketInv'
<1>1. /\ p \in Peers /\ worker[p] = "none" /\ \A q \in current : q = p
      /\ CloseSocket(p) /\ UNCHANGED <<clients, worker>> /\ i' = 1 /\ pc' \in {"loop", "close"}
      /\ listener_failed' \in BOOLEAN
  BY DEF Refuse, Goto, SocketInv, AdmitInv, TypeOK
<1>2. TypeOK'
  <2>1. i' \in 1 .. Len(clients') + 1
    BY <1>1, ClientFacts DEF SocketInv
  <2>2. QED
    BY <1>1, <2>1, CloseFacts DEF SocketInv, TypeOK, FdInv
<1>3. ListInv'
  BY <1>1 DEF SocketInv, ListInv, Joined
<1>4. FdInv'
  <2>1. \A q \in Peers : fd'[q] # {} <=> q \in current' \/ worker'[q] \in Active
    BY <1>1, CloseFacts DEF SocketInv, FdInv, Active
  <2>2. QED
    BY <1>1, <2>1, CloseFacts DEF SocketInv, FdInv
<1>5. AdmitInv'
  BY <1>1, CloseFacts DEF SocketInv, AdmitInv
<1>6. QED
  BY <1>2, <1>3, <1>4, <1>5 DEF SocketInv

\* A thread is started for the accepted connection.
LEMMA StartStep ==
  ASSUME SocketInv, pc = "admit", NEW p \in current, StartWorker(p), current' = {}, UNCHANGED g_stop
  PROVE  SocketInv'
<1>1. /\ p \in Peers /\ worker[p] = "none" /\ \A q \in current : q = p
      /\ clients' = Append(clients, p) /\ worker' = [worker EXCEPT ![p] = "serving"]
      /\ i' = 1 /\ pc' = "loop" /\ UNCHANGED <<listener_failed, peer, fd, file, shut>>
  BY DEF StartWorker, Goto, SocketInv, AdmitInv, TypeOK, system
<1>2. /\ Len(clients) \in Nat /\ DOMAIN clients = 1 .. Len(clients)
      /\ \A n \in DOMAIN clients : clients[n] \in Peers
  BY ClientFacts DEF SocketInv
<1> DEFINE k == Len(clients) + 1
<1>3. /\ clients' \in Seq(Peers) /\ Len(clients') = k /\ DOMAIN clients' = DOMAIN clients \cup {k}
      /\ \A n \in DOMAIN clients : n # k /\ clients'[n] = clients[n]
      /\ clients'[k] = p
  <2>1. clients \in Seq(Peers)
    BY DEF SocketInv, TypeOK
  <2>2. QED
    BY <1>1, <1>2, <2>1, AppendProperties
<1>4. /\ worker' \in [Peers -> {"none", "serving", "ended", "done", "joined"}]
      /\ worker'[p] = "serving" /\ \A q \in Peers \ {p} : worker'[q] = worker[q]
  BY <1>1 DEF SocketInv, TypeOK
<1>5. \A n \in DOMAIN clients : ~Joined(n) /\ worker[clients[n]] \in Active /\ clients[n] # p
  BY <1>1 DEF SocketInv, ListInv, Joined, Active
<1>6. TypeOK'
  <2>1. i' \in 1 .. Len(clients') + 1
    BY <1>1, <1>2, <1>3
  <2> HIDE DEF k
  <2>2. IsInjective(clients')
    BY <1>3, <1>5 DEF SocketInv, TypeOK, IsInjective
  <2>3. QED
    BY <1>1, <1>3, <1>4, <2>1, <2>2 DEF SocketInv, TypeOK
<1> HIDE DEF k
<1>7. ListInv'
  <2>1. \A n \in DOMAIN clients' : ~Joined(n)' /\ worker'[clients'[n]] \in Active
    BY <1>1, <1>2, <1>3, <1>4, <1>5 DEF Joined, Active
  <2>2. \A q \in Peers : worker'[q] \in Active => \E n \in DOMAIN clients' : clients'[n] = q
    BY <1>3, <1>4 DEF SocketInv, ListInv
  <2>3. QED
    BY <2>1, <2>2 DEF ListInv
<1>8. FdInv'
  <2>1. \A q \in Peers : fd'[q] # {} <=> q \in current' \/ worker'[q] \in Active
    BY <1>1, <1>4 DEF SocketInv, FdInv, Active
  <2>2. QED
    BY <1>1, <2>1 DEF SocketInv, FdInv
<1>9. AdmitInv'
  BY <1>1, <1>4 DEF SocketInv, AdmitInv
<1>10. QED
  BY <1>6, <1>7, <1>8, <1>9 DEF SocketInv

\* At the end main() joins the clients one by one, in the order of the vector.
LEMMA JoinStep ==
  ASSUME SocketInv, JoinClients, i <= Len(clients)
  PROVE  SocketInv'
<1>1. /\ pc = "join" /\ i \in DOMAIN clients /\ Len(clients) \in Nat /\ i \in 1 .. Len(clients)
      /\ DOMAIN clients = 1 .. Len(clients)
      /\ i' = i + 1 /\ UNCHANGED <<pc, clients, current, listener_failed, g_stop>>
  BY ClientFacts DEF JoinClients, SocketInv, TypeOK
<1>2. PICK p \in Peers : p = clients[i]
  BY <1>1, ClientFacts DEF SocketInv
<1>3. worker[p] = "done" /\ worker' = [worker EXCEPT ![p] = "joined"] /\ CloseSocket(p)
  BY <1>2 DEF JoinClients, JoinAndClose
<1>4. /\ worker' \in [Peers -> {"none", "serving", "ended", "done", "joined"}]
      /\ worker'[p] = "joined" /\ \A q \in Peers \ {p} : worker'[q] = worker[q]
  BY <1>3 DEF SocketInv, TypeOK
<1>5. current = {}
  BY <1>1 DEF SocketInv, AdmitInv
<1>6. TypeOK'
  <2>1. i' \in 1 .. Len(clients') + 1
    BY <1>1
  <2>2. QED
    BY <1>1, <1>3, <1>4, <2>1, CloseFacts DEF SocketInv, TypeOK, FdInv
<1>7. ListInv'
  <2>1. \A n \in DOMAIN clients : clients[n] \in Peers /\ (clients[n] = p => n = i)
    BY <1>1, <1>2, ClientFacts DEF SocketInv, TypeOK, IsInjective
  <2>2. \A n \in DOMAIN clients : Joined(n)' <=> Joined(n) \/ n = i
    BY <1>1 DEF Joined
  <2>3. QED
    BY <1>1, <1>2, <1>4, <2>1, <2>2 DEF SocketInv, ListInv, Active
<1>8. FdInv'
  <2>1. \A q \in Peers : fd'[q] # {} <=> q \in current' \/ worker'[q] \in Active
    BY <1>1, <1>3, <1>4, <1>5, CloseFacts DEF SocketInv, FdInv, Active
  <2>2. QED
    BY <1>3, <2>1, CloseFacts DEF SocketInv, FdInv
<1>9. AdmitInv'
  BY <1>1, <1>3, <1>4, CloseFacts DEF SocketInv, AdmitInv
<1>10. QED
  BY <1>6, <1>7, <1>8, <1>9 DEF SocketInv

\* Somebody else opens or closes a file: no number of a client is touched.
LEMMA OtherFileStep ==
  ASSUME SocketInv, NEW f \in Fds, OtherFile(f)
  PROVE  SocketInv'
<1>1. UNCHANGED <<pc, i, clients, current, listener_failed, g_stop, worker, peer, fd, shut>>
  BY DEF OtherFile, main
<1>2. \/ /\ f \notin DOMAIN file /\ DOMAIN file' = DOMAIN file \cup {f} /\ file'[f] = Other
         /\ \A g \in DOMAIN file : file'[g] = file[g]
      \/ /\ f \in DOMAIN file /\ file[f] = Other /\ DOMAIN file' = DOMAIN file \ {f}
         /\ \A g \in DOMAIN file' : file'[g] = file[g]
  BY DEF OtherFile, Opened, Closed
<1>3. TypeOK'
  BY <1>1, <1>2 DEF SocketInv, TypeOK
<1>4. ListInv' /\ AdmitInv'
  BY <1>1 DEF SocketInv, ListInv, AdmitInv, Joined
<1>5. FdInv'
  <2>1. \A p \in Peers : p # Other
    BY OtherAssumption
  <2>2. \A p \in Peers : \A g \in fd[p] : g \in DOMAIN file' /\ file'[g] = p
    BY <1>2, <2>1 DEF SocketInv, FdInv
  <2>3. \A g \in DOMAIN file' : file'[g] # Other => g \in fd[file'[g]]
    BY <1>2 DEF SocketInv, FdInv
  <2>4. QED
    BY <1>1, <2>2, <2>3 DEF SocketInv, FdInv
<1>6. QED
  BY <1>3, <1>4, <1>5 DEF SocketInv
LEMMA SocketStep == SocketInv /\ [Next]_vars => SocketInv'
<1> SUFFICES ASSUME SocketInv, [Next]_vars PROVE SocketInv'
  OBVIOUS
<1>1. /\ Len(clients) \in Nat /\ DOMAIN clients = 1 .. Len(clients)
      /\ 1 \in 1 .. Len(clients) + 1 /\ i \in 1 .. Len(clients) + 1
      /\ peer \in [Peers -> {"away", "waiting", "connected", "gone"}] /\ shut \subseteq Peers
      /\ g_stop \in BOOLEAN /\ listener_failed \in BOOLEAN
      /\ current # {} => pc = "admit"
  BY ClientFacts DEF SocketInv, TypeOK, AdmitInv
<1>2. CASE TestStop
  <2>1. /\ pc = "loop" /\ i' = 1 /\ pc' \in {"close", "reap"}
        /\ UNCHANGED <<clients, current, listener_failed, g_stop, worker, peer, fd, file, shut>>
    BY <1>2 DEF TestStop, Goto, system
  <2>2. QED
    BY <1>1, <2>1, QuietStep DEF Joined
<1>3. CASE ReapCompleted
  <2>1. CASE Finished(clients[i])
    BY <1>3, <2>1, ReapStep
  <2>2. CASE ~Finished(clients[i])
    <3>1. /\ pc = "reap" /\ i <= Len(clients) /\ i' = i + 1 /\ UNCHANGED pc
          /\ UNCHANGED <<clients, current, listener_failed, g_stop, worker, peer, fd, file, shut>>
      BY <1>3, <2>2 DEF ReapCompleted, system
    <3>2. i' \in 1 .. Len(clients) + 1
      BY <1>1, <3>1
    <3>3. QED
      BY <1>1, <3>1, <3>2, QuietStep DEF Joined, SocketInv, TypeOK
  <2>3. QED
    BY <2>1, <2>2
<1>4. CASE Reaped
  <2>1. /\ pc = "reap" /\ i' = 1 /\ pc' = "poll"
        /\ UNCHANGED <<clients, current, listener_failed, g_stop, worker, peer, fd, file, shut>>
    BY <1>4 DEF Reaped, Goto, system
  <2>2. QED
    BY <1>1, <2>1, QuietStep DEF Joined
<1>5. CASE Poll
  <2>1. /\ pc = "poll" /\ i' = 1 /\ pc' \in {"accept", "loop", "close"}
        /\ listener_failed' \in BOOLEAN
        /\ UNCHANGED <<clients, current, g_stop, worker, peer, fd, file, shut>>
    BY <1>1, <1>5 DEF Poll, Goto, system
  <2>2. QED
    BY <1>1, <2>1, QuietStep DEF Joined
<1>6. CASE Accept
  <2>1. pc = "accept" /\ UNCHANGED <<clients, g_stop, worker>>
    BY <1>6 DEF Accept
  <2>2. ASSUME NEW p \in Waiting, NEW f \in Fds \ DOMAIN file,
               peer' = [peer EXCEPT ![p] = "connected"], fd' = [fd EXCEPT ![p] = {f}],
               Opened(f, p), current' = {p}, Goto("admit"), UNCHANGED <<listener_failed, shut>>
        PROVE  SocketInv'
    BY <2>1, <2>2, AcceptStep
  <2>3. ASSUME i' = 1, pc' \in {"loop", "close"}, listener_failed' \in BOOLEAN,
               UNCHANGED <<current, peer, fd, file, shut>>
        PROVE  SocketInv'
    BY <1>1, <2>1, <2>3, QuietStep DEF Joined
  <2>4. QED
    BY <1>1, <1>6, <2>2, <2>3 DEF Accept, Goto, system
<1>7. CASE Admit
  <2>1. pc = "admit" /\ current' = {} /\ UNCHANGED g_stop
    BY <1>7 DEF Admit
  <2>2. ASSUME NEW p \in current, Refuse(p) PROVE SocketInv'
    BY <2>1, <2>2, RefuseStep
  <2>3. ASSUME NEW p \in current, StartWorker(p) PROVE SocketInv'
    BY <2>1, <2>3, StartStep
  <2>4. QED
    BY <1>7, <2>2, <2>3 DEF Admit
<1>8. CASE CloseListener
  <2>1. /\ pc = "close" /\ i' = 1 /\ pc' = "shutdown"
        /\ peer' = [p \in Peers |-> IF peer[p] = "waiting" THEN "gone" ELSE peer[p]]
        /\ UNCHANGED <<clients, current, listener_failed, g_stop, worker, fd, file, shut>>
    BY <1>8 DEF CloseListener, Goto
  <2>2. QED
    BY <1>1, <2>1, QuietStep DEF Joined
<1>9. CASE ShutdownClients
  <2>1. /\ pc = "shutdown" /\ shut' \subseteq Peers
        /\ UNCHANGED <<clients, current, listener_failed, g_stop, worker, peer, fd, file>>
    BY <1>1, <1>9 DEF ShutdownClients, ShutDown, SocketInv, TypeOK
  <2>2. i' \in 1 .. Len(clients) + 1 /\ pc' \in {"shutdown", "join"} /\ (pc' = "join" => i' = 1)
    BY <1>1, <1>9 DEF ShutdownClients, Goto
  <2>3. \A n \in DOMAIN clients : Joined(n)' <=> Joined(n)
    BY <1>1, <2>1, <2>2 DEF Joined
  <2>4. QED
    BY <1>1, <2>1, <2>2, <2>3, QuietStep
<1>10. CASE JoinClients
  <2>1. CASE i <= Len(clients)
    BY <1>10, <2>1, JoinStep
  <2>2. CASE ~(i <= Len(clients))
    <3>1. /\ pc = "join" /\ i' = 1 /\ pc' = "wayland"
          /\ UNCHANGED <<clients, current, listener_failed, g_stop, worker, peer, fd, file, shut>>
      BY <1>10, <2>2 DEF JoinClients, Goto, system
    <3>2. \A n \in DOMAIN clients : Joined(n)' <=> Joined(n)
      BY <1>1, <2>2, <3>1 DEF Joined
    <3>3. QED
      BY <1>1, <3>1, <3>2, QuietStep
  <2>3. QED
    BY <2>1, <2>2
<1>11. CASE StopWayland
  <2>1. /\ pc = "wayland" /\ i' = 1 /\ pc' = "stopped" /\ g_stop' = TRUE
        /\ UNCHANGED <<clients, current, listener_failed, worker, peer, fd, file, shut>>
    BY <1>11 DEF StopWayland, Goto, system
  <2>2. QED
    BY <1>1, <2>1, QuietStep DEF Joined
<1>12. CASE Signal
  <2>1. /\ g_stop' = TRUE
        /\ UNCHANGED <<pc, i, clients, current, listener_failed, worker, peer, fd, file, shut>>
    BY <1>12 DEF Signal, main, system
  <2>2. QED
    BY <1>1, <2>1, QuietStep DEF Joined, SocketInv, TypeOK
<1>13. ASSUME NEW p \in Peers, Connect(p) \/ Disconnect(p) PROVE SocketInv'
  <2>1. /\ peer' \in [Peers -> {"away", "waiting", "connected", "gone"}]
        /\ \A q \in Peers : peer'[q] \in {"away", "waiting"} => peer[q] \in {"away", "waiting"}
        /\ UNCHANGED <<pc, i, clients, current, listener_failed, g_stop, worker, fd, file, shut>>
    BY <1>1, <1>13 DEF Connect, Disconnect, main
  <2>2. QED
    BY <1>1, <2>1, QuietStep DEF Joined, SocketInv, TypeOK
<1>14. ASSUME NEW p \in Peers, ServeReturns(p) \/ PublishDone(p) PROVE SocketInv'
  BY <1>14, ThreadStep
<1>15. ASSUME NEW f \in Fds, OtherFile(f) PROVE SocketInv'
  BY <1>15, OtherFileStep
<1>16. CASE UNCHANGED vars
  <2>1. UNCHANGED <<pc, i, clients, current, listener_failed, g_stop, worker, peer, fd, file, shut>>
    BY <1>16 DEF vars, main, system
  <2>2. QED
    BY <1>1, <2>1, QuietStep DEF Joined, SocketInv, TypeOK
<1>17. QED
  BY <1>2, <1>3, <1>4, <1>5, <1>6, <1>7, <1>8, <1>9, <1>10, <1>11, <1>12, <1>13, <1>14, <1>15, <1>16
  DEF Next, Main

\* The number main() keeps for a client is that client's own connection for as
\* long as its thread or main() may use it, no accepted connection is leaked on
\* any path, and when main() returns every thread is joined and every
\* connection closed.
THEOREM SocketsAreAccounted == Spec => []SocketsAccounted
<1>1. Init => SocketInv
  BY SocketInit
<1>2. SocketInv /\ [Next]_vars => SocketInv'
  BY SocketStep
<1>3. SocketInv => SocketsAccounted
  <2> SUFFICES ASSUME SocketInv PROVE SocketsAccounted
    OBVIOUS
  <2>1. /\ Len(clients) \in Nat /\ DOMAIN clients = 1 .. Len(clients)
        /\ \A n \in DOMAIN clients : clients[n] \in Peers
    BY ClientFacts DEF SocketInv
  <2>2. \A p \in Peers : worker[p] \in Active => Own(p)
    BY DEF SocketInv, FdInv, Own
  <2>3. DescriptorIsOwn
    <3>1. \A p \in Peers : worker[p] \in {"serving", "ended"} => Own(p)
      BY <2>2 DEF Active
    <3>2. pc = "shutdown" => \A n \in 1 .. Len(clients) : Own(clients[n])
      BY <2>1, <2>2 DEF SocketInv, ListInv, Joined
    <3>3. QED
      BY <3>1, <3>2 DEF DescriptorIsOwn
  <2>4. \A f \in DOMAIN file : file[f] # Other =>
          file[f] \in current \/ \E n \in 1 .. Len(clients) : clients[n] = file[f]
    BY <2>1 DEF SocketInv, FdInv, ListInv, TypeOK
  <2>5. ASSUME pc = "stopped"
        PROVE  /\ \A p \in Peers : worker[p] \in {"none", "joined"}
               /\ \A f \in DOMAIN file : file[f] = Other
    <3>1. \A p \in Peers : worker[p] \notin Active
      BY <2>5 DEF SocketInv, ListInv, Joined, Active
    <3>2. current = {}
      BY <2>5 DEF SocketInv, AdmitInv
    <3>3. QED
      BY <3>1, <3>2 DEF SocketInv, FdInv, TypeOK, Active
  <2>6. QED
    BY <2>3, <2>4, <2>5 DEF SocketInv, SocketsAccounted, AllAccountedFor
<1>4. QED
  BY <1>1, <1>2, <1>3, PTL DEF Spec
=============================================================================
