-------------------------- MODULE LoadManagerProofs --------------------------
(***************************************************************************)
(* What the load manager keeps right for any number of clients,            *)
(* executables and process servers, and whatever the network and the       *)
(* processes do: the servers it gives to workers, the count that decides   *)
(* when a client is deleted, the deletion itself, and the mutex.  With     *)
(* them, every variable of the system has its type.                        *)
(***************************************************************************)
EXTENDS ParallelNetworkProofs, FiniteSetTheorems

\* A client object is deleted once, by the one worker that took its count to 0.
DeletedOnce ==
  /\ \A k \in ClientIds : clientObj[k].deleted => clientObj[k].processCount = 0
  /\ \A t \in WorkerIds : workers[t].pc = "delete" =>
       /\ clientObj[workers[t].client].processCount = 0
       /\ ~clientObj[workers[t].client].deleted
  /\ \A t, u \in WorkerIds :
       (/\ workers[t].pc = "delete"
        /\ workers[u].pc = "delete"
        /\ workers[t].client = workers[u].client) => t = u

WorkInv == OneSender /\ ServerExclusive /\ CountMatchesWork /\ DeletedOnce

-----------------------------------------------------------------------------
(* The steps, as the workers see them.                                     *)

\* Worker t is at pc; its server and its client, and all other workers, are
\* what they were.
Moved(t, pc) ==
  /\ WorkerIds' = WorkerIds
  /\ \A u \in WorkerIds : u # t => workers'[u] = workers[u]
  /\ workers'[t].pc = pc
  /\ workers'[t].server = workers[t].server
  /\ workers'[t].client = workers[t].client

LEMMA WorkersAre ==
  ASSUME PlaceInv
  PROVE  /\ workers \in Seq(WorkerRecords) /\ Len(workers) \in Nat
         /\ WorkerIds = 1..Len(workers)
         /\ ClientsocketMtx \in WorkerIds \cup {0}
         /\ \A t \in WorkerIds : /\ workers[t] \in WorkerRecords
                                 /\ workers[t].client \in ClientIds
                                 /\ workers[t].server \in ServerIds
<1>1. ManagerInv
  BY DEF PlaceInv
<1>2. workers \in Seq(WorkerRecords) /\ ClientsocketMtx \in WorkerIds \cup {0}
  BY <1>1 DEF ManagerInv, WorkersOK
<1>3. \A t \in WorkerIds : workers[t] \in WorkerRecords
  BY <1>1, ObjectTyped
<1> QED BY <1>2, <1>3, LenProperties DEF WorkerIds, WorkerRecords

LEMMA OneChanged ==
  ASSUME PlaceInv, NEW t \in WorkerIds, NEW w, workers' = [workers EXCEPT ![t] = w]
  PROVE  /\ WorkerIds' = WorkerIds
         /\ \A u \in WorkerIds : u # t => workers'[u] = workers[u]
         /\ workers'[t] = w
<1>1. workers \in Seq(WorkerRecords) /\ t \in 1..Len(workers) /\ WorkerIds = 1..Len(workers)
  BY WorkersAre
<1> DEFINE S == WorkerRecords \cup {w}
<1>2. workers \in Seq(S) /\ w \in S
  BY <1>1, SeqWithin
<1> HIDE DEF S
<1>3. /\ Len(workers') = Len(workers)
      /\ \A u \in 1..Len(workers) : workers'[u] = IF u = t THEN w ELSE workers[u]
  BY <1>1, <1>2, ExceptSeq
<1> QED BY <1>1, <1>3 DEF WorkerIds

LEMMA Goes ==
  ASSUME PlaceInv, NEW t \in WorkerIds, NEW from, NEW to, WorkerGoto(t, from, to)
  PROVE  workers[t].pc = from /\ Moved(t, to)
<1> DEFINE w == [workers[t] EXCEPT !.pc = to]
<1>1. workers[t].pc = from /\ workers' = [workers EXCEPT ![t] = w]
  BY DEF WorkerGoto
<1>2. workers[t] \in WorkerRecords
  BY WorkersAre
<1>3. w.pc = to /\ w.server = workers[t].server /\ w.client = workers[t].client
  BY <1>2 DEF WorkerRecords
<1> HIDE DEF w
<1> QED BY <1>1, <1>3, OneChanged DEF Moved

LEMMA RepliedMoves ==
  ASSUME PlaceInv, NEW t \in WorkerIds, ReceiveReply(t)
  PROVE  workers[t].pc = "reply" /\ Moved(t, "lock")
<1>1. PICK b : workers' = [workers EXCEPT ![t].pc = "lock", ![t].exeResult = b]
  BY DEF ReceiveReply
<1> DEFINE w == [workers[t] EXCEPT !.pc = "lock", !.exeResult = b]
<1>2. workers \in Seq(WorkerRecords) /\ t \in DOMAIN workers /\ workers[t] \in WorkerRecords
  BY WorkersAre
<1>3. workers' = [workers EXCEPT ![t] = w]
  BY <1>1, <1>2
<1>4. w.pc = "lock" /\ w.server = workers[t].server /\ w.client = workers[t].client
  BY <1>2 DEF WorkerRecords
<1> HIDE DEF w
<1> QED BY <1>3, <1>4, OneChanged DEF Moved, ReceiveReply

LEMMA AcknowledgedMoves ==
  ASSUME PlaceInv, NEW t \in WorkerIds, ReceiveAck(t)
  PROVE  /\ workers[t].pc = "ack"
         /\ Moved(t, IF clientObj[workers[t].client].processCount = 1 THEN "delete" ELSE "return")
<1> DEFINE to == IF clientObj[workers[t].client].processCount = 1 THEN "delete" ELSE "return"
<1>1. workers[t].pc = "ack" /\ WorkerGoto(t, "ack", to)
  BY DEF ReceiveAck, WorkerGoto
<1> HIDE DEF to
<1> QED BY <1>1, Goes DEF to

LEMMA WorkerAdded ==
  ASSUME PlaceInv, Dispatch
  PROVE  \E n : /\ n \notin WorkerIds /\ n # 0
                /\ WorkerIds' = WorkerIds \cup {n}
                /\ \A u \in WorkerIds : workers'[u] = workers[u]
                /\ workers'[n].pc = "send"
                /\ workers'[n].server = Head(serverQueue)
                /\ workers'[n].client = currentClient
<1> DEFINE n == Len(workers) + 1
           w == Worker(Head(serverQueue))
           S == WorkerRecords \cup {w}
<1>1. workers \in Seq(WorkerRecords) /\ Len(workers) \in Nat /\ WorkerIds = 1..Len(workers)
  BY WorkersAre
<1>2. workers \in Seq(S) /\ w \in S
  BY <1>1, SeqWithin
<1>3. w.pc = "send" /\ w.server = Head(serverQueue) /\ w.client = currentClient
  BY DEF Worker
<1>4. workers' = Append(workers, w)
  BY DEF Dispatch
<1> HIDE DEF w, S
<1>5. /\ Len(workers') = n
      /\ \A u \in 1..Len(workers) : workers'[u] = workers[u]
      /\ workers'[n] = w
  BY <1>2, <1>4, AppendProperties
<1>6. n \notin WorkerIds /\ n # 0 /\ WorkerIds' = WorkerIds \cup {n}
  BY <1>1, <1>5 DEF WorkerIds
<1> QED BY <1>1, <1>3, <1>5, <1>6

-----------------------------------------------------------------------------
(* The mutex and the servers.                                              *)

LEMMA SenderSame ==
  ASSUME OneSender, UNCHANGED <<workers, ClientsocketMtx>>
  PROVE  OneSender'
BY DEF OneSender, WorkerIds

\* A worker that moves outside of sendMessage leaves the mutex alone.
LEMMA SenderElsewhere ==
  ASSUME OneSender, NEW t \in WorkerIds, NEW pc, Moved(t, pc),
         workers[t].pc # "ack", pc # "ack", UNCHANGED ClientsocketMtx
  PROVE  OneSender'
BY DEF OneSender, Moved

LEMMA SenderEnters ==
  ASSUME OneSender, NEW t \in WorkerIds, Moved(t, "ack"), 0 \notin WorkerIds,
         ClientsocketMtx = 0, ClientsocketMtx' = t
  PROVE  OneSender'
BY DEF OneSender, Moved

LEMMA SenderLeaves ==
  ASSUME OneSender, NEW t \in WorkerIds, NEW pc, Moved(t, pc), 0 \notin WorkerIds,
         workers[t].pc = "ack", pc # "ack", ClientsocketMtx' = 0
  PROVE  OneSender'
BY DEF OneSender, Moved

\* A worker has a server that is there, and not in the queue.
LEMMA HeldNotQueued ==
  ASSUME PlaceInv, ServerExclusive, NEW t \in WorkerIds, HasServer(t)
  PROVE  workers[t].server \in ServerIds \ Elements(serverQueue)
<1>1. workers[t].server \in ServerIds
  BY WorkersAre
<1> QED BY <1>1 DEF ServerExclusive

LEMMA ExclusiveSame ==
  ASSUME ServerExclusive, UNCHANGED <<workers, serverQueue>>, ServerIds' = ServerIds
  PROVE  ServerExclusive'
BY DEF ServerExclusive, WorkerIds, HasServer, Elements

\* A worker that keeps its server.
LEMMA ExclusiveKept ==
  ASSUME ServerExclusive, NEW t \in WorkerIds, NEW pc, Moved(t, pc),
         workers[t].pc # "done", pc # "done", UNCHANGED serverQueue, ServerIds' = ServerIds
  PROVE  ServerExclusive'
<1>1. /\ WorkerIds' = WorkerIds
      /\ \A u \in WorkerIds : /\ HasServer(u)' <=> HasServer(u)
                              /\ workers'[u].server = workers[u].server
  BY DEF Moved, HasServer
<1>2. Elements(serverQueue)' = Elements(serverQueue)
  BY DEF Elements
<1>3. \A k \in ServerIds :
        (\A u \in WorkerIds : HasServer(u) => workers[u].server # k)
          <=> (\A u \in WorkerIds : HasServer(u)' => workers'[u].server # k)
  BY <1>1
<1> QED BY <1>1, <1>2, <1>3 DEF ServerExclusive

\* Adding to the queue a server that was not there.
LEMMA QueuedOnce ==
  ASSUME NEW S, NEW q \in Seq(S), NEW e \in S, e \notin Elements(q),
         \A i, j \in 1..Len(q) : q[i] = q[j] => i = j
  PROVE  /\ Elements(Append(q, e)) = Elements(q) \cup {e}
         /\ \A i, j \in 1..Len(Append(q, e)) : Append(q, e)[i] = Append(q, e)[j] => i = j
<1> DEFINE r == Append(q, e)
<1>1. /\ Len(q) \in Nat /\ Len(r) = Len(q) + 1
      /\ \A i \in 1..Len(q) : r[i] = q[i]
      /\ r[Len(q) + 1] = e
  BY AppendProperties, LenProperties
<1> HIDE DEF r
<1>2. Elements(r) = Elements(q) \cup {e}
  BY <1>1 DEF Elements
<1>3. \A i \in 1..Len(r) : i \in 1..Len(q) \/ i = Len(q) + 1
  BY <1>1
<1>4. \A i \in 1..Len(q) : r[i] \in Elements(q) /\ r[i] # e
  BY <1>1 DEF Elements
<1>5. \A i, j \in 1..Len(r) : r[i] = r[j] => i = j
  BY <1>1, <1>3, <1>4
<1> QED BY <1>2, <1>5 DEF r

\* Taking the first of a queue.
LEMMA TakenFromQueue ==
  ASSUME NEW S, NEW q \in Seq(S), q # << >>,
         \A i, j \in 1..Len(q) : q[i] = q[j] => i = j
  PROVE  /\ Elements(Tail(q)) = Elements(q) \ {Head(q)}
         /\ Head(q) \in Elements(q)
         /\ \A i, j \in 1..Len(Tail(q)) : Tail(q)[i] = Tail(q)[j] => i = j
<1> DEFINE r == Tail(q)
<1>1. /\ Len(q) \in Nat \ {0} /\ Len(r) = Len(q) - 1
      /\ \A i \in 1..Len(r) : r[i] = q[i + 1]
      /\ Head(q) = q[1]
  BY HeadTailProperties, LenProperties, EmptySeq
<1> HIDE DEF r
<1>2. \A i \in 1..Len(r) : i + 1 \in 1..Len(q) /\ i + 1 # 1
  BY <1>1
<1>3. Elements(r) = Elements(q) \ {q[1]}
  <2>1. Elements(r) \subseteq Elements(q) \ {q[1]}
    BY <1>1, <1>2 DEF Elements
  <2>2. ASSUME NEW i \in 1..Len(q), q[i] # q[1] PROVE \E j \in 1..Len(r) : r[j] = q[i]
    <3>1. PICK j : j = i - 1
      OBVIOUS
    <3>2. j \in 1..Len(r) /\ j + 1 = i
      <4>1. i # 1
        BY <2>2
      <4>2. Len(q) \in Nat \ {0} /\ Len(r) = Len(q) - 1
        BY <1>1
      <4> QED BY <3>1, <4>1, <4>2
    <3> QED BY <1>1, <3>2
  <2>3. Elements(q) \ {q[1]} \subseteq Elements(r)
    BY <2>2 DEF Elements
  <2> QED BY <2>1, <2>3
<1>4. q[1] \in Elements(q)
  BY <1>1 DEF Elements
<1>5. \A i, j \in 1..Len(r) : r[i] = r[j] => i = j
  BY <1>1, <1>2
<1> QED BY <1>1, <1>3, <1>4, <1>5 DEF r

\* A server object that no worker and no queue can know yet.
LEMMA ExclusiveMade ==
  ASSUME PlaceInv, ServerExclusive, NEW k, k \notin ServerIds, ServerIds' = ServerIds \cup {k},
         serverQueue' = Append(serverQueue, k), UNCHANGED workers
  PROVE  ServerExclusive'
<1>1. serverQueue \in Seq(ServerIds) /\ \A t \in WorkerIds : workers[t].server \in ServerIds
  BY WorkersAre DEF PlaceInv, ManagerInv, QueuesOK
<1>2. k \notin Elements(serverQueue)
  BY <1>1, ElementOfSeq DEF Elements
<1>3. /\ Elements(serverQueue') = Elements(serverQueue) \cup {k}
      /\ \A i, j \in 1..Len(serverQueue') : serverQueue'[i] = serverQueue'[j] => i = j
  <2>1. serverQueue \in Seq(ServerIds \cup {k})
    BY <1>1, SeqWithin
  <2>2. \A i, j \in 1..Len(serverQueue) : serverQueue[i] = serverQueue[j] => i = j
    BY DEF ServerExclusive
  <2> QED BY <1>2, <2>1, <2>2, QueuedOnce
<1>4. WorkerIds' = WorkerIds /\ \A t \in WorkerIds : HasServer(t)' = HasServer(t)
  BY DEF WorkerIds, HasServer
<1>5. ASSUME NEW l \in ServerIds'
      PROVE  l \in Elements(serverQueue')
               <=> \A t \in WorkerIds' : HasServer(t)' => workers'[t].server # l
  <2>1. CASE l = k
    BY <1>1, <1>3, <1>4, <2>1
  <2>2. CASE l \in ServerIds
    BY <1>3, <1>4, <2>2 DEF ServerExclusive
  <2> QED BY <2>1, <2>2
<1> QED BY <1>1, <1>3, <1>4, <1>5 DEF ServerExclusive

LEMMA ExclusiveDispatched ==
  ASSUME PlaceInv, ServerExclusive, Dispatch
  PROVE  ServerExclusive'
<1>1. PICK n : /\ n \notin WorkerIds
               /\ WorkerIds' = WorkerIds \cup {n}
               /\ \A u \in WorkerIds : workers'[u] = workers[u]
               /\ workers'[n].server = Head(serverQueue)
               /\ workers'[n].pc = "send"
  BY WorkerAdded
<1>2. serverQueue # << >> /\ serverQueue' = Tail(serverQueue) /\ serverQueue \in Seq(ServerIds)
  BY DEF Dispatch, PlaceInv, ManagerInv, QueuesOK
<1>3. /\ Elements(serverQueue') = Elements(serverQueue) \ {Head(serverQueue)}
      /\ Head(serverQueue) \in Elements(serverQueue)
      /\ \A i, j \in 1..Len(serverQueue') : serverQueue'[i] = serverQueue'[j] => i = j
  <2>1. \A i, j \in 1..Len(serverQueue) : serverQueue[i] = serverQueue[j] => i = j
    BY DEF ServerExclusive
  <2> QED BY <1>2, <2>1, TakenFromQueue
<1>4. /\ \A u \in WorkerIds : HasServer(u)' = HasServer(u) /\ workers'[u].server = workers[u].server
      /\ HasServer(n)'
  BY <1>1 DEF HasServer
<1>5. \A u \in WorkerIds : HasServer(u) => workers[u].server \notin Elements(serverQueue)
  BY HeldNotQueued
<1>6. ServerIds' = ServerIds
  BY DEF Dispatch, ServerIds
<1>7. \A t, u \in WorkerIds' :
        (HasServer(t)' /\ HasServer(u)' /\ workers'[t].server = workers'[u].server) => t = u
  BY <1>1, <1>3, <1>4, <1>5 DEF ServerExclusive
<1>8. ASSUME NEW k \in ServerIds
      PROVE  k \in Elements(serverQueue')
               <=> \A t \in WorkerIds' : HasServer(t)' => workers'[t].server # k
  <2>1. CASE k = Head(serverQueue)
    BY <1>1, <1>3, <1>4, <2>1
  <2>2. CASE k # Head(serverQueue)
    BY <1>1, <1>3, <1>4, <2>2 DEF ServerExclusive
  <2> QED BY <2>1, <2>2
<1> QED BY <1>3, <1>6, <1>7, <1>8 DEF ServerExclusive

LEMMA ExclusiveReturned ==
  ASSUME PlaceInv, ServerExclusive, NEW t \in WorkerIds, ReturnServer(t)
  PROVE  ServerExclusive'
<1> DEFINE s == workers[t].server
<1>1. workers[t].pc = "return" /\ Moved(t, "done") /\ serverQueue' = Append(serverQueue, s)
  BY Goes DEF ReturnServer
<1>2. serverQueue \in Seq(ServerIds) /\ s \in ServerIds /\ ServerIds' = ServerIds
  BY WorkersAre DEF PlaceInv, ManagerInv, QueuesOK, ReturnServer, ServerIds
<1>3. HasServer(t) /\ s \notin Elements(serverQueue)
  BY <1>1, HeldNotQueued DEF HasServer
<1>4. /\ Elements(serverQueue') = Elements(serverQueue) \cup {s}
      /\ \A i, j \in 1..Len(serverQueue') : serverQueue'[i] = serverQueue'[j] => i = j
  <2>1. \A i, j \in 1..Len(serverQueue) : serverQueue[i] = serverQueue[j] => i = j
    BY DEF ServerExclusive
  <2> HIDE DEF s
  <2> QED BY <1>1, <1>2, <1>3, <2>1, QueuedOnce
<1>5. /\ WorkerIds' = WorkerIds /\ ~HasServer(t)'
      /\ \A u \in WorkerIds : u # t => (HasServer(u)' = HasServer(u) /\ workers'[u] = workers[u])
  BY <1>1 DEF Moved, HasServer
<1>6. ASSUME NEW k \in ServerIds
      PROVE  k \in Elements(serverQueue')
               <=> \A u \in WorkerIds : HasServer(u)' => workers'[u].server # k
  <2>1. CASE k = s
    <3>1. \A u \in WorkerIds : HasServer(u)' => workers'[u].server # s
      BY <1>3, <1>5 DEF ServerExclusive
    <3> QED BY <1>4, <2>1, <3>1
  <2>2. CASE k # s
    BY <1>3, <1>4, <1>5, <2>2 DEF ServerExclusive
  <2> QED BY <2>1, <2>2
<1>7. \A u, v \in WorkerIds :
        (HasServer(u)' /\ HasServer(v)' /\ workers'[u].server = workers'[v].server) => u = v
  BY <1>5 DEF ServerExclusive
<1> QED BY <1>2, <1>4, <1>5, <1>6, <1>7 DEF ServerExclusive

-----------------------------------------------------------------------------
(* What processCount counts.                                               *)

Awaiting == {"send", "reply", "lock", "ack"}

LEMMA UnacknowledgedFinite ==
  ASSUME PlaceInv, NEW k
  PROVE  IsFiniteSet(Unacknowledged(k)) /\ Cardinality(Unacknowledged(k)) \in Nat
<1>1. IsFiniteSet(WorkerIds)
  BY WorkersAre, FS_Interval
<1>2. Unacknowledged(k) \in SUBSET WorkerIds
  BY DEF Unacknowledged
<1> QED BY <1>1, <1>2, FS_Subset, FS_CardinalityType

LEMMA CountKept ==
  ASSUME CountMatchesWork, UNCHANGED ClientIds,
         \A k \in ClientIds : /\ clientObj'[k].processCount = clientObj[k].processCount
                              /\ clientObj'[k].ProcessQueue = clientObj[k].ProcessQueue
                              /\ Popped(k)' = Popped(k)
                              /\ Unacknowledged(k)' = Unacknowledged(k)
  PROVE  CountMatchesWork'
BY DEF CountMatchesWork

LEMMA UnacknowledgedSame ==
  ASSUME UNCHANGED workers, NEW k
  PROVE  Unacknowledged(k)' = Unacknowledged(k)
BY DEF Unacknowledged, WorkerIds

LEMMA UnacknowledgedMoved ==
  ASSUME NEW t \in WorkerIds, NEW pc, Moved(t, pc), workers[t].pc \in Awaiting <=> pc \in Awaiting,
         NEW k
  PROVE  Unacknowledged(k)' = Unacknowledged(k)
BY DEF Unacknowledged, Awaiting, Moved

LEMMA PoppedSame ==
  ASSUME UNCHANGED <<mainPc, currentClient>>, NEW k
  PROVE  Popped(k)' = Popped(k)
BY DEF Popped

LEMMA CountSame ==
  ASSUME CountMatchesWork, UNCHANGED <<clientObj, workers, mainPc, currentClient>>
  PROVE  CountMatchesWork'
BY CountKept, UnacknowledgedSame, PoppedSame, IdsSame

\* main between two commands: nothing is popped before or after.
LEMMA CountQuiet ==
  ASSUME CountMatchesWork, UNCHANGED <<clientObj, workers>>,
         mainPc # "dispatch", mainPc' # "dispatch"
  PROVE  CountMatchesWork'
<1>1. \A k \in ClientIds : Popped(k)' = Popped(k)
  BY DEF Popped
<1> QED BY <1>1, CountKept, UnacknowledgedSame, IdsSame

\* A worker that is as far from its acknowledgement as before.
LEMMA CountMoved ==
  ASSUME CountMatchesWork, NEW t \in WorkerIds, NEW pc, Moved(t, pc),
         workers[t].pc \in Awaiting <=> pc \in Awaiting,
         UNCHANGED <<ClientIds, mainPc, currentClient>>,
         \A k \in ClientIds : /\ clientObj'[k].processCount = clientObj[k].processCount
                              /\ clientObj'[k].ProcessQueue = clientObj[k].ProcessQueue
  PROVE  CountMatchesWork'
BY CountKept, UnacknowledgedMoved, PoppedSame

\* An object of clientObj that changes.
LEMMA OneObjectChanged ==
  ASSUME PlaceInv, NEW k \in ClientIds, NEW o, clientObj' = [clientObj EXCEPT ![k] = o]
  PROVE  /\ ClientIds' = ClientIds
         /\ \A j \in ClientIds : j # k => clientObj'[j] = clientObj[j]
         /\ clientObj'[k] = o
<1>1. clientObj \in Seq(ClientObjectsZ) /\ k \in 1..Len(clientObj)
  BY DEF PlaceInv, ManagerInv, ObjectsOK, ClientIds
<1> DEFINE S == ClientObjectsZ \cup {o}
<1>2. clientObj \in Seq(S) /\ o \in S
  BY <1>1, SeqWithin
<1> HIDE DEF S
<1>3. /\ Len(clientObj') = Len(clientObj)
      /\ \A j \in 1..Len(clientObj) : clientObj'[j] = IF j = k THEN o ELSE clientObj[j]
  BY <1>1, <1>2, ExceptSeq
<1> QED BY <1>1, <1>3 DEF ClientIds

LEMMA PoppedFrom ==
  ASSUME PlaceInv, PopProcess
  PROVE  /\ currentClient \in ClientIds /\ ClientIds' = ClientIds
         /\ \A j \in ClientIds : j # currentClient => clientObj'[j] = clientObj[j]
         /\ clientObj'[currentClient].processCount = clientObj[currentClient].processCount
         /\ clientObj'[currentClient].deleted = clientObj[currentClient].deleted
         /\ Len(clientObj[currentClient].ProcessQueue) \in Nat
         /\ Len(clientObj'[currentClient].ProcessQueue)
              = Len(clientObj[currentClient].ProcessQueue) - 1
<1> DEFINE c == currentClient
           o == [clientObj[c] EXCEPT !.ProcessQueue = Tail(@)]
<1>1. c \in ClientIds /\ clientObj[c] \in ClientObjectsZ
  BY ObjectTyped DEF PopProcess, PlaceInv, ManagerInv, MainOK
<1>2. clientObj' = [clientObj EXCEPT ![c] = o] /\ clientObj[c].ProcessQueue # << >>
  BY DEF PopProcess
<1>3. clientObj[c].ProcessQueue \in Seq(Commands)
  BY <1>1 DEF ClientObjectsZ
<1>4. /\ o.processCount = clientObj[c].processCount
      /\ o.deleted = clientObj[c].deleted
      /\ o.ProcessQueue = Tail(clientObj[c].ProcessQueue)
  BY <1>1 DEF ClientObjectsZ
<1>5. /\ Len(Tail(clientObj[c].ProcessQueue)) = Len(clientObj[c].ProcessQueue) - 1
      /\ Len(clientObj[c].ProcessQueue) \in Nat
  BY <1>2, <1>3, HeadTailProperties, LenProperties
<1> HIDE DEF o
<1> QED BY <1>1, <1>2, <1>4, <1>5, OneObjectChanged

LEMMA CountPopped ==
  ASSUME PlaceInv, CountMatchesWork, PopProcess
  PROVE  CountMatchesWork'
<1> DEFINE c == currentClient
<1>1. ClientIds' = ClientIds /\ c \in ClientIds
  BY PoppedFrom
<1>2. \A k \in ClientIds : Unacknowledged(k)' = Unacknowledged(k)
  BY UnacknowledgedSame DEF PopProcess
<1>3. /\ \A k : Popped(k) = 0
      /\ \A k : k # c => Popped(k)' = 0
      /\ Popped(c)' = 1
  BY DEF Popped, PopProcess
<1>4. ASSUME NEW k \in ClientIds
      PROVE  clientObj'[k].processCount
               = Len(clientObj'[k].ProcessQueue) + Popped(k)' + Cardinality(Unacknowledged(k)')
  <2>1. clientObj[k].processCount
          = Len(clientObj[k].ProcessQueue) + Popped(k) + Cardinality(Unacknowledged(k))
    BY DEF CountMatchesWork
  <2>2. Cardinality(Unacknowledged(k)) \in Nat
    BY UnacknowledgedFinite
  <2>3. CASE k = c
    BY <1>2, <1>3, <2>1, <2>2, <2>3, PoppedFrom
  <2>4. CASE k # c
    BY <1>2, <1>3, <2>1, <2>4, PoppedFrom
  <2> QED BY <2>3, <2>4
<1> QED BY <1>1, <1>4 DEF CountMatchesWork

LEMMA CountDispatched ==
  ASSUME PlaceInv, CountMatchesWork, Dispatch
  PROVE  CountMatchesWork'
<1> DEFINE c == currentClient
<1>1. PICK n : /\ n \notin WorkerIds
               /\ WorkerIds' = WorkerIds \cup {n}
               /\ \A u \in WorkerIds : workers'[u] = workers[u]
               /\ workers'[n].pc = "send"
               /\ workers'[n].client = c
  BY WorkerAdded
<1>2. mainPc = "dispatch" /\ mainPc' = "test" /\ UNCHANGED <<clientObj, currentClient>>
  BY DEF Dispatch
<1>3. ClientIds' = ClientIds
  BY <1>2, IdsSame
<1>4. /\ \A k : k # c => Popped(k) = 0
      /\ Popped(c) = 1
      /\ \A k : Popped(k)' = 0
  BY <1>2 DEF Popped
<1>5. ASSUME NEW k
      PROVE  /\ n \notin Unacknowledged(k)
             /\ k # c => Unacknowledged(k)' = Unacknowledged(k)
             /\ k = c => Unacknowledged(k)' = Unacknowledged(k) \cup {n}
  <2> HIDE DEF c
  <2>1. n \notin Unacknowledged(k)
    BY <1>1 DEF Unacknowledged
  <2>2. CASE k # c
    BY <1>1, <2>1, <2>2 DEF Unacknowledged
  <2>3. CASE k = c
    BY <1>1, <2>1, <2>3 DEF Unacknowledged
  <2> QED BY <2>1, <2>2, <2>3
<1>6. ASSUME NEW k \in ClientIds
      PROVE  clientObj'[k].processCount
               = Len(clientObj'[k].ProcessQueue) + Popped(k)' + Cardinality(Unacknowledged(k)')
  <2>1. clientObj[k].processCount
          = Len(clientObj[k].ProcessQueue) + Popped(k) + Cardinality(Unacknowledged(k))
    BY DEF CountMatchesWork
  <2>2. IsFiniteSet(Unacknowledged(k)) /\ Cardinality(Unacknowledged(k)) \in Nat
    BY UnacknowledgedFinite
  <2>3. Len(clientObj[k].ProcessQueue) \in Nat
    BY ObjectTyped, LenProperties DEF PlaceInv, ManagerInv, ClientObjectsZ
  <2>4. CASE k = c
    <3>1. Cardinality(Unacknowledged(k)') = Cardinality(Unacknowledged(k)) + 1
      <4>1. Unacknowledged(k)' = Unacknowledged(k) \cup {n} /\ n \notin Unacknowledged(k)
        BY <1>5, <2>4
      <4> QED BY <2>2, <4>1, FS_AddElement
    <3> QED BY <1>2, <1>4, <2>1, <2>2, <2>3, <2>4, <3>1
  <2>5. CASE k # c
    BY <1>2, <1>4, <1>5, <2>1, <2>5
  <2> QED BY <2>4, <2>5
<1> QED BY <1>3, <1>6 DEF CountMatchesWork

LEMMA AcknowledgedObject ==
  ASSUME PlaceInv, NEW t \in WorkerIds, ReceiveAck(t), NEW k, k = workers[t].client
  PROVE  /\ k \in ClientIds /\ ClientIds' = ClientIds
         /\ \A j \in ClientIds : j # k => clientObj'[j] = clientObj[j]
         /\ clientObj'[k].processCount = clientObj[k].processCount - 1
         /\ clientObj'[k].deleted = clientObj[k].deleted
         /\ clientObj'[k].ProcessQueue = clientObj[k].ProcessQueue
<1>1. k \in ClientIds /\ clientObj[k] \in ClientObjectsZ
  BY WorkersAre, ObjectTyped DEF PlaceInv
<1>2. PICK a : clientObj' = [clientObj EXCEPT ![k].endPoint = a, ![k].processCount = @ - 1]
  BY DEF ReceiveAck
<1> DEFINE o == [clientObj[k] EXCEPT !.endPoint = a, !.processCount = @ - 1]
<1>3. clientObj' = [clientObj EXCEPT ![k] = o]
  <2>1. clientObj \in Seq(ClientObjectsZ) /\ k \in 1..Len(clientObj)
    BY <1>1, Zenon DEF PlaceInv, ManagerInv, ObjectsOK, ClientIds
  <2>2. k \in DOMAIN clientObj
    BY <2>1, InDomain, Zenon
  <2> QED BY <1>2, <2>2, TwoFields, Zenon
<1>4. /\ o.processCount = clientObj[k].processCount - 1
      /\ o.deleted = clientObj[k].deleted
      /\ o.ProcessQueue = clientObj[k].ProcessQueue
  BY <1>1 DEF ClientObjectsZ
<1> HIDE DEF o
<1> QED BY <1>1, <1>3, <1>4, OneObjectChanged

LEMMA OneLess ==
  \A a, b, d \in Nat : (a + b + d) - 1 = a + b + (d - 1)
OBVIOUS

LEMMA CountAcknowledged ==
  ASSUME PlaceInv, CountMatchesWork, NEW t \in WorkerIds, ReceiveAck(t)
  PROVE  CountMatchesWork'
<1>1. PICK c : c = workers[t].client
  OBVIOUS
<1>2. workers[t].pc = "ack" /\ \E pc \in {"delete", "return"} : Moved(t, pc)
  BY AcknowledgedMoves
<1>3. /\ c \in ClientIds /\ ClientIds' = ClientIds
      /\ \A j \in ClientIds : j # c => clientObj'[j] = clientObj[j]
      /\ clientObj'[c].processCount = clientObj[c].processCount - 1
      /\ clientObj'[c].ProcessQueue = clientObj[c].ProcessQueue
  BY <1>1, AcknowledgedObject
<1>4. \A k : Popped(k)' = Popped(k)
  BY PoppedSame DEF ReceiveAck
<1>5. ASSUME NEW k
      PROVE  /\ k # c => Unacknowledged(k)' = Unacknowledged(k)
             /\ k = c => /\ t \in Unacknowledged(k)
                         /\ Unacknowledged(k)' = Unacknowledged(k) \ {t}
  <2>1. CASE k # c
    BY <1>1, <1>2, <2>1 DEF Unacknowledged, Moved
  <2>2. CASE k = c
    BY <1>1, <1>2, <2>2 DEF Unacknowledged, Moved
  <2> QED BY <2>1, <2>2
<1>6. ASSUME NEW k \in ClientIds
      PROVE  clientObj'[k].processCount
               = Len(clientObj'[k].ProcessQueue) + Popped(k)' + Cardinality(Unacknowledged(k)')
  <2>1. clientObj[k].processCount
          = Len(clientObj[k].ProcessQueue) + Popped(k) + Cardinality(Unacknowledged(k))
    BY DEF CountMatchesWork
  <2>2. IsFiniteSet(Unacknowledged(k)) /\ Cardinality(Unacknowledged(k)) \in Nat
    BY UnacknowledgedFinite
  <2>3. Len(clientObj[k].ProcessQueue) \in Nat /\ Popped(k) \in Nat
    BY ObjectTyped, LenProperties DEF PlaceInv, ManagerInv, ClientObjectsZ, Popped
  <2>4. CASE k = c
    <3>1. Cardinality(Unacknowledged(k)') = Cardinality(Unacknowledged(k)) - 1
      <4>1. Unacknowledged(k)' = Unacknowledged(k) \ {t} /\ t \in Unacknowledged(k)
        BY <1>5, <2>4
      <4> QED BY <2>2, <4>1, FS_RemoveElement
    <3>2. /\ clientObj'[k].processCount = clientObj[k].processCount - 1
          /\ clientObj'[k].ProcessQueue = clientObj[k].ProcessQueue
          /\ Popped(k)' = Popped(k)
      BY <1>3, <1>4, <2>4
    <3> QED BY <2>1, <2>2, <2>3, <3>1, <3>2, OneLess, Zenon
  <2>5. CASE k # c
    BY <1>3, <1>4, <1>5, <2>1, <2>5
  <2> QED BY <2>4, <2>5
<1> QED BY <1>3, <1>6 DEF CountMatchesWork

\* A new object, of as many commands as it counts.
LEMMA ObjectMade ==
  ASSUME PlaceInv, PlaceInv', AcceptClient
  PROVE  \E k : /\ k \notin ClientIds /\ ClientIds' = ClientIds \cup {k}
                /\ \A j \in ClientIds : clientObj'[j] = clientObj[j]
                /\ clientObj'[k].processCount = Len(clientObj'[k].ProcessQueue)
                /\ Len(clientObj'[k].ProcessQueue) \in Nat
                /\ ~clientObj'[k].deleted
<1>1. PICK i : clientObj' = Append(clientObj,
        [endPoint |-> net[ClientReceivePort][i].src,
         ProcessQueue |-> Parsed(net[ClientReceivePort][i].body.client),
         processCount |-> Len(Parsed(net[ClientReceivePort][i].body.client)),
         deleted |-> FALSE])
  BY DEF AcceptClient
<1> DEFINE a    == net[ClientReceivePort][i].src
           todo == Parsed(net[ClientReceivePort][i].body.client)
<1> DEFINE o == [endPoint |-> a, ProcessQueue |-> todo,
                 processCount |-> Len(todo), deleted |-> FALSE]
           S == ClientObjectsZ \cup {o}
           k == Len(clientObj) + 1
<1>2. clientObj \in Seq(ClientObjectsZ)
  BY DEF PlaceInv, ManagerInv, ObjectsOK
<1>3. clientObj \in Seq(S) /\ o \in S
  BY <1>2, SeqWithin
<1>4. o.processCount = Len(o.ProcessQueue) /\ ~o.deleted
  OBVIOUS
<1> HIDE DEF o, S
<1>5. /\ Len(clientObj) \in Nat /\ Len(clientObj') = k
      /\ \A j \in 1..Len(clientObj) : clientObj'[j] = clientObj[j]
      /\ clientObj'[k] = o
  BY <1>1, <1>3, AppendProperties, LenProperties DEF o
<1>6. k \notin ClientIds /\ ClientIds' = ClientIds \cup {k}
  BY <1>5 DEF ClientIds
<1>7. Len(clientObj'[k].ProcessQueue) \in Nat
  <2>1. clientObj' \in Seq(ClientObjectsZ)
    BY DEF PlaceInv, ManagerInv, ObjectsOK
  <2>2. clientObj'[k] \in ClientObjectsZ
    BY <1>5, <2>1, ElementOfSeq
  <2> QED BY <2>2, LenProperties DEF ClientObjectsZ
<1> QED BY <1>4, <1>5, <1>6, <1>7 DEF ClientIds

\* What the manager knew before it made object k was not about k.
LEMMA NotYetKnown ==
  ASSUME PlaceInv, NEW k, k \notin ClientIds
  PROVE  Unacknowledged(k) = {} /\ Popped(k) = 0
<1>1. Unacknowledged(k) = {}
  BY WorkersAre DEF Unacknowledged
<1>2. Popped(k) = 0
  BY DEF Popped, PlaceInv, ManagerInv, MainOK
<1> QED BY <1>1, <1>2

LEMMA CountAccepted ==
  ASSUME PlaceInv, PlaceInv', CountMatchesWork, AcceptClient
  PROVE  CountMatchesWork'
<1>1. PICK n : /\ n \notin ClientIds /\ ClientIds' = ClientIds \cup {n}
               /\ \A j \in ClientIds : clientObj'[j] = clientObj[j]
               /\ clientObj'[n].processCount = Len(clientObj'[n].ProcessQueue)
               /\ Len(clientObj'[n].ProcessQueue) \in Nat
  BY ObjectMade
<1>2. \A k : Unacknowledged(k)' = Unacknowledged(k) /\ Popped(k)' = Popped(k)
  BY UnacknowledgedSame, PoppedSame DEF AcceptClient
<1>3. ASSUME NEW k \in ClientIds'
      PROVE  clientObj'[k].processCount
               = Len(clientObj'[k].ProcessQueue) + Popped(k)' + Cardinality(Unacknowledged(k)')
  <2>1. CASE k \in ClientIds
    BY <1>1, <1>2, <2>1 DEF CountMatchesWork
  <2>2. CASE k = n
    <3>1. Unacknowledged(k)' = {} /\ Popped(k)' = 0
      BY <1>1, <1>2, <2>2, NotYetKnown
    <3>2. Cardinality({}) = 0
      BY FS_EmptySet
    <3> QED BY <1>1, <2>2, <3>1, <3>2
  <2> QED BY <1>1, <2>1, <2>2
<1> QED BY <1>3 DEF CountMatchesWork

\* A client some worker still owes a result, or main a command, counts it.
LEMMA CountedAtLeastOnce ==
  ASSUME PlaceInv, CountMatchesWork, NEW k \in ClientIds,
         Unacknowledged(k) # {} \/ Popped(k) = 1
  PROVE  clientObj[k].processCount # 0
<1>1. clientObj[k].processCount
        = Len(clientObj[k].ProcessQueue) + Popped(k) + Cardinality(Unacknowledged(k))
  BY DEF CountMatchesWork
<1>2. Len(clientObj[k].ProcessQueue) \in Nat /\ Popped(k) \in Nat
  BY ObjectTyped, LenProperties DEF PlaceInv, ManagerInv, ClientObjectsZ, Popped
<1>3. /\ Cardinality(Unacknowledged(k)) \in Nat
      /\ Unacknowledged(k) # {} => Cardinality(Unacknowledged(k)) # 0
  BY UnacknowledgedFinite, FS_EmptySet
<1> QED BY <1>1, <1>2, <1>3

-----------------------------------------------------------------------------
(* The deletion of a client.                                               *)

LEMMA DeletionSame ==
  ASSUME DeletedOnce, UNCHANGED <<clientObj, workers>>
  PROVE  DeletedOnce'
BY DEF DeletedOnce, ClientIds, WorkerIds

\* A worker that neither comes to the deletion nor leaves it.
LEMMA DeletionMoved ==
  ASSUME PlaceInv, DeletedOnce, NEW t \in WorkerIds, NEW pc, Moved(t, pc),
         pc # "delete", UNCHANGED clientObj
  PROVE  DeletedOnce'
<1>1. \A u \in WorkerIds : /\ workers'[u].pc = "delete" => workers[u].pc = "delete"
                           /\ workers'[u].client = workers[u].client
  BY DEF Moved
<1> QED BY <1>1, IdsSame DEF DeletedOnce, Moved

LEMMA DeletionPopped ==
  ASSUME PlaceInv, DeletedOnce, PopProcess
  PROVE  DeletedOnce'
<1>1. \A k \in ClientIds : /\ clientObj'[k].processCount = clientObj[k].processCount
                           /\ clientObj'[k].deleted = clientObj[k].deleted
  BY PoppedFrom
<1>2. ClientIds' = ClientIds /\ WorkerIds' = WorkerIds /\ workers' = workers
  BY PoppedFrom, IdsSame DEF PopProcess
<1>3. \A t \in WorkerIds : workers[t].client \in ClientIds
  BY WorkersAre
<1> QED BY <1>1, <1>2, <1>3 DEF DeletedOnce

LEMMA DeletionDispatched ==
  ASSUME PlaceInv, DeletedOnce, Dispatch
  PROVE  DeletedOnce'
<1>1. PICK n : /\ n \notin WorkerIds
               /\ WorkerIds' = WorkerIds \cup {n}
               /\ \A u \in WorkerIds : workers'[u] = workers[u]
               /\ workers'[n].pc = "send"
  BY WorkerAdded
<1>2. UNCHANGED <<clientObj, ClientIds>>
  BY IdsSame DEF Dispatch
<1>3. \A t \in WorkerIds' : workers'[t].pc = "delete" => t \in WorkerIds
  BY <1>1
<1> QED BY <1>1, <1>2, <1>3 DEF DeletedOnce

LEMMA DeletionAccepted ==
  ASSUME PlaceInv, PlaceInv', DeletedOnce, AcceptClient
  PROVE  DeletedOnce'
<1>1. PICK n : /\ ClientIds' = ClientIds \cup {n}
               /\ \A j \in ClientIds : clientObj'[j] = clientObj[j]
               /\ ~clientObj'[n].deleted
  BY ObjectMade
<1>2. WorkerIds' = WorkerIds /\ workers' = workers
  BY IdsSame DEF AcceptClient
<1>3. \A t \in WorkerIds : workers[t].client \in ClientIds
  BY WorkersAre
<1> QED BY <1>1, <1>2, <1>3 DEF DeletedOnce

\* The acknowledgement of a client that still counts it: the client was not
\* deleted, and nobody was about to delete it.
LEMMA DeletionDecided ==
  ASSUME PlaceInv, CountMatchesWork, DeletedOnce, NEW t \in WorkerIds, ReceiveAck(t)
  PROVE  DeletedOnce'
<1>1. PICK c : c = workers[t].client
  OBVIOUS
<1> DEFINE last == clientObj[c].processCount = 1
           to   == IF last THEN "delete" ELSE "return"
<1>2. workers[t].pc = "ack" /\ Moved(t, to)
  BY <1>1, AcknowledgedMoves
<1>3. /\ c \in ClientIds /\ ClientIds' = ClientIds
      /\ \A j \in ClientIds : j # c => clientObj'[j] = clientObj[j]
      /\ clientObj'[c].processCount = clientObj[c].processCount - 1
      /\ clientObj'[c].deleted = clientObj[c].deleted
  BY <1>1, AcknowledgedObject
<1>4. clientObj[c].processCount # 0
  <2>1. t \in Unacknowledged(c)
    BY <1>1, <1>2 DEF Unacknowledged
  <2> QED BY <1>3, <2>1, CountedAtLeastOnce
<1>5. ~clientObj[c].deleted
  BY <1>3, <1>4 DEF DeletedOnce
<1>6. \A u \in WorkerIds : workers[u].pc = "delete" => workers[u].client # c
  BY <1>4 DEF DeletedOnce
<1>7. \A u \in WorkerIds : workers[u].client \in ClientIds
  BY WorkersAre
<1>8. \A k \in ClientIds : clientObj'[k].deleted => clientObj'[k].processCount = 0
  BY <1>3, <1>5 DEF DeletedOnce
<1>9. /\ WorkerIds' = WorkerIds
      /\ \A u \in WorkerIds : workers'[u].client = workers[u].client
      /\ \A u \in WorkerIds : u # t => workers'[u].pc = workers[u].pc
      /\ workers'[t].pc = "delete" => clientObj[c].processCount = 1
  BY <1>2 DEF Moved
<1>10. ASSUME NEW u \in WorkerIds, workers'[u].pc = "delete"
       PROVE  /\ clientObj'[workers'[u].client].processCount = 0
              /\ ~clientObj'[workers'[u].client].deleted
  <2>1. CASE u = t
    <3>1. clientObj[c].processCount = 1 /\ workers'[u].client = c
      BY <1>1, <1>9, <1>10, <2>1
    <3> QED BY <1>3, <1>5, <3>1
  <2>2. CASE u # t
    <3>1. workers[u].pc = "delete" /\ workers'[u].client = workers[u].client
      BY <1>9, <1>10, <2>2
    <3> QED BY <1>3, <1>6, <1>7, <3>1 DEF DeletedOnce
  <2> QED BY <2>1, <2>2
<1>11. \A u, v \in WorkerIds :
         (/\ workers'[u].pc = "delete"
          /\ workers'[v].pc = "delete"
          /\ workers'[u].client = workers'[v].client) => u = v
  BY <1>1, <1>6, <1>9 DEF DeletedOnce
<1> QED BY <1>3, <1>8, <1>9, <1>10, <1>11 DEF DeletedOnce

LEMMA DeletedObject ==
  ASSUME PlaceInv, NEW t \in WorkerIds, DeleteClient(t), NEW k, k = workers[t].client
  PROVE  /\ k \in ClientIds /\ ClientIds' = ClientIds
         /\ \A j \in ClientIds : j # k => clientObj'[j] = clientObj[j]
         /\ clientObj'[k].processCount = clientObj[k].processCount
         /\ clientObj'[k].ProcessQueue = clientObj[k].ProcessQueue
<1>1. k \in ClientIds /\ clientObj[k] \in ClientObjectsZ
  BY WorkersAre, ObjectTyped DEF PlaceInv
<1> DEFINE o == [clientObj[k] EXCEPT !.deleted = TRUE]
<1>2. clientObj' = [clientObj EXCEPT ![k] = o]
  BY DEF DeleteClient
<1>3. /\ o.processCount = clientObj[k].processCount
      /\ o.ProcessQueue = clientObj[k].ProcessQueue
  BY <1>1 DEF ClientObjectsZ
<1> HIDE DEF o
<1> QED BY <1>1, <1>2, <1>3, OneObjectChanged

LEMMA DeletionDone ==
  ASSUME PlaceInv, DeletedOnce, NEW t \in WorkerIds, DeleteClient(t)
  PROVE  DeletedOnce'
<1>1. PICK c : c = workers[t].client
  OBVIOUS
<1>2. workers[t].pc = "delete" /\ Moved(t, "return")
  BY Goes DEF DeleteClient
<1>3. /\ c \in ClientIds /\ ClientIds' = ClientIds
      /\ \A j \in ClientIds : j # c => clientObj'[j] = clientObj[j]
      /\ clientObj'[c].processCount = clientObj[c].processCount
  BY <1>1, DeletedObject
<1>4. clientObj[c].processCount = 0
  BY <1>1, <1>2 DEF DeletedOnce
<1>5. \A k \in ClientIds : clientObj'[k].deleted => clientObj'[k].processCount = 0
  BY <1>3, <1>4 DEF DeletedOnce
<1>6. /\ WorkerIds' = WorkerIds
      /\ \A u \in WorkerIds : workers'[u].client = workers[u].client
      /\ \A u \in WorkerIds : workers'[u].pc = "delete" => u # t /\ workers[u].pc = "delete"
  BY <1>2 DEF Moved
<1>7. \A u \in WorkerIds : workers'[u].pc = "delete" =>
        workers[u].client # c /\ workers[u].client \in ClientIds
  BY <1>1, <1>2, <1>6, WorkersAre DEF DeletedOnce
<1>8. \A u \in WorkerIds : workers'[u].pc = "delete" =>
        /\ clientObj'[workers'[u].client].processCount = 0
        /\ ~clientObj'[workers'[u].client].deleted
  BY <1>3, <1>6, <1>7 DEF DeletedOnce
<1>9. \A u, v \in WorkerIds :
        (/\ workers'[u].pc = "delete"
         /\ workers'[v].pc = "delete"
         /\ workers'[u].client = workers'[v].client) => u = v
  BY <1>6 DEF DeletedOnce
<1> QED BY <1>3, <1>5, <1>6, <1>8, <1>9 DEF DeletedOnce

-----------------------------------------------------------------------------
(* The steps of the system.                                                *)

LEMMA NotZero ==
  ASSUME PlaceInv
  PROVE  0 \notin WorkerIds
BY DEF WorkerIds

\* The steps of the other programs and of the network.
LEMMA WorkSame ==
  ASSUME WorkInv, UNCHANGED managerVars
  PROVE  WorkInv'
<1>1. OneSender' /\ ServerExclusive' /\ CountMatchesWork' /\ DeletedOnce'
  BY SenderSame, ExclusiveSame, CountSame, DeletionSame DEF WorkInv, managerVars, ServerIds
<1> QED BY <1>1 DEF WorkInv

LEMMA NextIsNew == \A n \in 0..997 : n + 1 \notin 1..n
OBVIOUS

\* processServerInitializer makes one object more, or none.
LEMMA ObjectsMade ==
  ASSUME PlaceInv, InitializeServer
  PROVE  \/ /\ serverQueue' = Append(serverQueue, Len(serverEndPoint) + 1)
            /\ ServerIds' = ServerIds \cup {Len(serverEndPoint) + 1}
         \/ UNCHANGED serverQueue /\ ServerIds' = ServerIds
<1>1. PICK e : \/ /\ serverEndPoint' = Append(serverEndPoint, e)
                  /\ serverQueue' = Append(serverQueue, Len(serverEndPoint) + 1)
               \/ UNCHANGED <<serverQueue, serverEndPoint>>
  BY DEF InitializeServer
<1>2. CASE UNCHANGED <<serverQueue, serverEndPoint>>
  BY <1>2, IdsSame
<1>3. CASE /\ serverEndPoint' = Append(serverEndPoint, e)
           /\ serverQueue' = Append(serverQueue, Len(serverEndPoint) + 1)
  <2>1. serverEndPoint \in Seq(ServerZone) /\ Len(serverEndPoint) \in Nat
    BY LenProperties DEF PlaceInv, ManagerInv, ObjectsOK
  <2>2. serverEndPoint \in Seq(ServerZone \cup {e})
    BY <2>1, SeqWithin
  <2>3. Len(serverEndPoint') = Len(serverEndPoint) + 1
    BY <1>3, <2>2, AppendProperties
  <2>4. 1..(Len(serverEndPoint) + 1) = 1..Len(serverEndPoint) \cup {Len(serverEndPoint) + 1}
    BY <2>1
  <2> QED BY <1>3, <2>3, <2>4 DEF ServerIds
<1> QED BY <1>1, <1>2, <1>3

LEMMA InitializeWorks ==
  ASSUME PlaceInv, PlaceInv', WorkInv, InitializeServer
  PROVE  WorkInv'
<1>1. UNCHANGED <<clientObj, mainPc, currentClient, workers, ClientsocketMtx>>
  BY DEF InitializeServer
<1>2. OneSender' /\ CountMatchesWork' /\ DeletedOnce'
  BY <1>1, SenderSame, CountSame, DeletionSame DEF WorkInv
<1>3. PICK k : k = Len(serverEndPoint) + 1
  OBVIOUS
<1>4. k \notin ServerIds
  <2>1. Len(serverEndPoint) \in 0..997
    BY DEF PlaceInv, ManagerInv, ObjectsOK
  <2> QED BY <1>3, <2>1, NextIsNew, Zenon DEF ServerIds
<1>5. ServerExclusive'
  <2>1. CASE serverQueue' = Append(serverQueue, k) /\ ServerIds' = ServerIds \cup {k}
    BY <1>1, <1>4, <2>1, ExclusiveMade DEF WorkInv
  <2>2. CASE UNCHANGED serverQueue /\ ServerIds' = ServerIds
    BY <1>1, <2>2, ExclusiveSame DEF WorkInv
  <2> QED BY <1>3, <2>1, <2>2, ObjectsMade
<1> QED BY <1>2, <1>5 DEF WorkInv

LEMMA AcceptWorks ==
  ASSUME PlaceInv, PlaceInv', WorkInv, AcceptClient
  PROVE  WorkInv'
<1>1. UNCHANGED <<serverQueue, workers, ClientsocketMtx>> /\ ServerIds' = ServerIds
  BY DEF AcceptClient, ServerIds
<1>2. OneSender' /\ ServerExclusive'
  BY <1>1, SenderSame, ExclusiveSame DEF WorkInv
<1> QED BY <1>2, CountAccepted, DeletionAccepted DEF WorkInv

LEMMA MainWorks ==
  ASSUME PlaceInv, WorkInv, MainNext
  PROVE  WorkInv'
<1>1. CASE GetClient \/ LeaveClient \/ ReadDeletedClient
  <2>1. /\ UNCHANGED <<clientObj, serverQueue, workers, ClientsocketMtx>>
        /\ mainPc # "dispatch" /\ mainPc' # "dispatch"
        /\ ServerIds' = ServerIds
    BY <1>1 DEF GetClient, LeaveClient, ReadDeletedClient, ServerIds
  <2> QED BY <2>1, SenderSame, ExclusiveSame, CountQuiet, DeletionSame DEF WorkInv
<1>2. CASE PopProcess
  <2>1. UNCHANGED <<serverQueue, workers, ClientsocketMtx>> /\ ServerIds' = ServerIds
    BY <1>2 DEF PopProcess, ServerIds
  <2> QED BY <1>2, <2>1, SenderSame, ExclusiveSame, CountPopped, DeletionPopped DEF WorkInv
<1>3. CASE Dispatch
  <2>1. OneSender'
    <3>1. PICK n : /\ n \notin WorkerIds /\ n # 0
                   /\ WorkerIds' = WorkerIds \cup {n}
                   /\ \A u \in WorkerIds : workers'[u] = workers[u]
                   /\ workers'[n].pc = "send"
      BY <1>3, WorkerAdded
    <3>2. ClientsocketMtx' = ClientsocketMtx /\ ClientsocketMtx # n
      BY <1>3, <3>1, WorkersAre DEF Dispatch
    <3> QED BY <3>1, <3>2 DEF WorkInv, OneSender
  <2> QED BY <1>3, <2>1, ExclusiveDispatched, CountDispatched, DeletionDispatched DEF WorkInv
<1> QED BY <1>1, <1>2, <1>3 DEF MainNext

\* receiveMessage overwrites the endpoint of an object, and makes no other.
LEMMA ReplyKeepsObjects ==
  ASSUME PlaceInv, NEW t \in WorkerIds, ReceiveReply(t)
  PROVE  ServerIds' = ServerIds
<1>1. PICK e : serverEndPoint' = [serverEndPoint EXCEPT ![workers[t].server] = e]
  BY DEF ReceiveReply
<1>2. serverEndPoint \in Seq(ServerZone \cup {e})
  <2>1. serverEndPoint \in Seq(ServerZone)
    BY DEF PlaceInv, ManagerInv, ObjectsOK
  <2> QED BY <2>1, SeqWithin
<1>3. Len(serverEndPoint') = Len(serverEndPoint)
  <2>1. workers[t].server \in 1..Len(serverEndPoint)
    BY WorkersAre DEF ServerIds
  <2> QED BY <1>1, <1>2, <2>1, ExceptSeq
<1> QED BY <1>3, ExpectedSame

LEMMA WorkerWorks ==
  ASSUME PlaceInv, WorkInv, NEW t \in WorkerIds, WorkerNext(t)
  PROVE  WorkInv'
<1>0. ServerIds' = ServerIds
  BY ReplyKeepsObjects, IdsSame
     DEF WorkerNext, SendCommand, SendResult, ReceiveAck, DeleteClient, ReturnServer
<1>1. CASE SendCommand(t) \/ ReceiveReply(t)
  <2>1. UNCHANGED <<clientObj, serverQueue, mainPc, currentClient, ClientsocketMtx>>
    BY <1>1 DEF SendCommand, ReceiveReply
  <2>2. PICK pc \in {"reply", "lock"} : workers[t].pc \in {"send", "reply"} /\ Moved(t, pc)
    BY <1>1, Goes, RepliedMoves DEF SendCommand
  <2>3. CountMatchesWork'
    BY <2>1, <2>2, CountMoved, IdsSame DEF Awaiting, WorkInv
  <2> QED BY <1>0, <2>1, <2>2, <2>3, SenderElsewhere, ExclusiveKept, DeletionMoved DEF WorkInv
<1>2. CASE SendResult(t)
  <2>1. /\ UNCHANGED <<clientObj, serverQueue, mainPc, currentClient>>
        /\ ClientsocketMtx = 0 /\ ClientsocketMtx' = t
    BY <1>2 DEF SendResult
  <2>2. workers[t].pc = "lock" /\ Moved(t, "ack")
    BY <1>2, Goes DEF SendResult
  <2>3. CountMatchesWork'
    BY <2>1, <2>2, CountMoved, IdsSame DEF Awaiting, WorkInv
  <2>4. OneSender'
    BY <2>1, <2>2, SenderEnters, NotZero DEF WorkInv
  <2> QED BY <1>0, <2>1, <2>2, <2>3, <2>4, ExclusiveKept, DeletionMoved DEF WorkInv
<1>3. CASE ReceiveAck(t)
  <2>1. UNCHANGED serverQueue /\ ClientsocketMtx' = 0
    BY <1>3 DEF ReceiveAck
  <2>2. PICK pc \in {"delete", "return"} : workers[t].pc = "ack" /\ Moved(t, pc)
    BY <1>3, AcknowledgedMoves
  <2>3. OneSender'
    BY <2>1, <2>2, SenderLeaves, NotZero DEF WorkInv
  <2>4. ServerExclusive'
    BY <1>0, <2>1, <2>2, ExclusiveKept DEF WorkInv
  <2> QED BY <1>3, <2>3, <2>4, CountAcknowledged, DeletionDecided DEF WorkInv
<1>4. CASE DeleteClient(t)
  <2>1. UNCHANGED <<serverQueue, mainPc, currentClient, ClientsocketMtx>>
    BY <1>4 DEF DeleteClient
  <2>2. workers[t].pc = "delete" /\ Moved(t, "return")
    BY <1>4, Goes DEF DeleteClient
  <2>3. CountMatchesWork'
    <3>1. PICK c : c = workers[t].client
      OBVIOUS
    <3>2. /\ ClientIds' = ClientIds
          /\ \A k \in ClientIds : /\ clientObj'[k].processCount = clientObj[k].processCount
                                  /\ clientObj'[k].ProcessQueue = clientObj[k].ProcessQueue
      BY <1>4, <3>1, DeletedObject
    <3> QED BY <2>1, <2>2, <3>2, CountMoved DEF Awaiting, WorkInv
  <2>4. OneSender' /\ ServerExclusive'
    BY <1>0, <2>1, <2>2, SenderElsewhere, ExclusiveKept DEF WorkInv
  <2> QED BY <1>4, <2>3, <2>4, DeletionDone DEF WorkInv
<1>5. CASE ReturnServer(t)
  <2>1. UNCHANGED <<clientObj, mainPc, currentClient, ClientsocketMtx>>
    BY <1>5 DEF ReturnServer
  <2>2. workers[t].pc = "return" /\ Moved(t, "done")
    BY <1>5, Goes DEF ReturnServer
  <2>3. CountMatchesWork'
    BY <2>1, <2>2, CountMoved, IdsSame DEF Awaiting, WorkInv
  <2> QED BY <1>5, <2>1, <2>2, <2>3, SenderElsewhere, ExclusiveReturned, DeletionMoved DEF WorkInv
<1> QED BY <1>1, <1>2, <1>3, <1>4, <1>5 DEF WorkerNext

LEMMA WorkNext == PlaceInv /\ WorkInv /\ [Next]_vars => WorkInv'
<1> SUFFICES ASSUME PlaceInv, WorkInv, [Next]_vars PROVE WorkInv'
  OBVIOUS
<1>1. PlaceInv'
  BY PlaceNext
<1>2. CASE ManagerStep(ManagerNext)
  BY <1>1, <1>2, InitializeWorks, AcceptWorks, MainWorks, WorkerWorks DEF ManagerStep, ManagerNext
<1>3. CASE UNCHANGED managerVars
  BY <1>3, WorkSame
<1> QED BY <1>2, <1>3 DEF Next, ClientStep, ServerStep, NetworkStep, vars

LEMMA WorkInit == Init => WorkInv
<1> SUFFICES ASSUME Init PROVE WorkInv
  OBVIOUS
<1>1. ClientIds = {} /\ ServerIds = {} /\ WorkerIds = {} /\ serverQueue = << >>
  BY DEF Init, ManagerInit, ClientIds, ServerIds, WorkerIds
<1>2. \A i \in 1..Len(serverQueue) : FALSE
  BY <1>1
<1> QED BY <1>1, <1>2 DEF WorkInv, OneSender, ServerExclusive, CountMatchesWork, DeletedOnce

-----------------------------------------------------------------------------
(* What it says of every reachable state.                                  *)

\* The inductive invariant: the mutex, the servers, the counts and the
\* deletions are consistent with each other, whatever goes wrong around them.
THEOREM WorkInvariant == SafetySpec => []WorkInv
BY PlaceInvariant, WorkInit, WorkNext, PTL DEF SafetySpec

\* sendMessage is a critical section: the worker between its result and the
\* acknowledgement of it is the one that holds Clientsocket_mtx.
THEOREM AlwaysOneSender == SafetySpec => []OneSender
<1>1. WorkInv => OneSender
  BY DEF WorkInv
<1> QED BY <1>1, WorkInvariant, PTL

\* Every ProcessServer object is in the queue of free servers, once, or with
\* one worker, and never lost between the two, for any number of servers and
\* workers and with every fault.
THEOREM AlwaysExclusiveServers == SafetySpec => []ServerExclusive
<1>1. WorkInv => ServerExclusive
  BY DEF WorkInv
<1> QED BY <1>1, WorkInvariant, PTL

\* processCount is what the client has still to acknowledge.
THEOREM AlwaysCounted == SafetySpec => []CountMatchesWork
<1>1. WorkInv => CountMatchesWork
  BY DEF WorkInv
<1> QED BY <1>1, WorkInvariant, PTL

LEMMA WorkImpliesLive == PlaceInv /\ WorkInv => WorkersUseLiveClients
<1> SUFFICES ASSUME PlaceInv, WorkInv PROVE WorkersUseLiveClients
  OBVIOUS
<1>1. \A t \in WorkerIds : workers[t].client \in ClientIds
  BY WorkersAre
<1>2. ASSUME NEW t \in WorkerIds, workers[t].pc \in Awaiting
      PROVE  clientObj[workers[t].client].processCount # 0
  <2>1. t \in Unacknowledged(workers[t].client)
    BY <1>2 DEF Unacknowledged, Awaiting
  <2> QED BY <1>1, <2>1, CountedAtLeastOnce DEF WorkInv
<1>3. \A t \in WorkerIds : HasClient(t) => ~clientObj[workers[t].client].deleted
  BY <1>1, <1>2 DEF HasClient, Awaiting, WorkInv, DeletedOnce
<1>4. mainPc = "dispatch" => ~clientObj[currentClient].deleted
  <2>1. SUFFICES ASSUME mainPc = "dispatch" PROVE ~clientObj[currentClient].deleted
    OBVIOUS
  <2>2. currentClient \in ClientIds /\ Popped(currentClient) = 1
    BY <2>1 DEF Popped, PlaceInv, ManagerInv, MainOK
  <2>3. clientObj[currentClient].processCount # 0
    BY <2>2, CountedAtLeastOnce DEF WorkInv
  <2> QED BY <2>2, <2>3 DEF WorkInv, DeletedOnce
<1>5. \A t, u \in WorkerIds :
        (workers[t].pc = "delete" /\ HasClient(u) /\ workers[u].client = workers[t].client)
          => t = u
  BY <1>2 DEF HasClient, Awaiting, WorkInv, DeletedOnce
<1> QED BY <1>3, <1>4, <1>5 DEF WorkersUseLiveClients

\* "deletes client after all results have been sent": whatever the clients,
\* the network and the servers do, no worker uses a client object after its
\* deletion, and it is deleted once.  (main does use it: MainUsesLiveClient.)
THEOREM AlwaysLiveClients == SafetySpec => []WorkersUseLiveClients
BY PlaceInvariant, WorkInvariant, WorkImpliesLive, PTL

LEMMA CountsAreNatural ==
  ASSUME PlaceInv, CountMatchesWork
  PROVE  clientObj \in Seq(ClientObjects)
<1>1. clientObj \in Seq(ClientObjectsZ) /\ ClientIds = 1..Len(clientObj)
  BY DEF PlaceInv, ManagerInv, ObjectsOK, ClientIds
<1>2. ASSUME NEW k \in ClientIds PROVE clientObj[k] \in ClientObjects
  <2>1. clientObj[k] \in ClientObjectsZ
    BY ObjectTyped DEF PlaceInv
  <2>2. clientObj[k].processCount
          = Len(clientObj[k].ProcessQueue) + Popped(k) + Cardinality(Unacknowledged(k))
    BY DEF CountMatchesWork
  <2>3. Len(clientObj[k].ProcessQueue) \in Nat /\ Popped(k) \in Nat
    BY <2>1, LenProperties DEF ClientObjectsZ, Popped
  <2>4. Cardinality(Unacknowledged(k)) \in Nat
    BY UnacknowledgedFinite
  <2>5. clientObj[k].processCount \in Nat
    BY <2>2, <2>3, <2>4
  <2>6. ClientZone \subseteq Nat
    BY Zones
  <2> QED BY <2>1, <2>5, <2>6 DEF ClientObjectsZ, ClientObjects
<1> QED BY <1>1, <1>2

LEMMA InvariantImpliesTypes == PlaceInv /\ WorkInv => TypeOK
<1> SUFFICES ASSUME PlaceInv, WorkInv PROVE TypeOK
  OBVIOUS
<1>1. ClientTypeOK /\ ServerTypeOK
  BY DEF PlaceInv, ClientInv, ServerInv
<1>2. ClientZone \subseteq Nat /\ ServerZone \subseteq Nat /\ WellKnown \subseteq Nat
  BY Zones
<1>3. ManagerPorts \subseteq ServerZone
  BY ManagerPortsInZone DEF PlaceInv, ManagerInv, ObjectsOK
<1>4. ASSUME NEW p \in DOMAIN net PROVE p \in Nat /\ net[p] \in Seq(Datagrams)
  <2>1. p \in ClientZone \cup ServerZone \cup WellKnown /\ net[p] \in Seq(Expected(p))
    BY DEF PlaceInv, NetworkInv, NetworkOK
  <2>2. /\ Requests \subseteq Bodies /\ Replies \subseteq Bodies /\ Runnable \subseteq Bodies
        /\ {NextResult} \subseteq Bodies /\ {InitMessage} \subseteq Bodies
        /\ {ClientInitialized} \cup Replies \subseteq Bodies
    BY RunnableReplies DEF Bodies
  <2>3. ManagerPorts \subseteq Nat /\ {ClientReceivePort} \subseteq Nat
    BY <1>2, <1>3 DEF ClientReceivePort
  <2>4. \E S \in SUBSET Nat : \E B \in SUBSET Bodies : Expected(p) = [src : S, body : B]
    <3>1. CASE p = ClientReceivePort
      BY <1>2, <1>3, <2>2, <3>1, ExpectedAt
    <3>2. CASE p = WaitPort
      BY <1>2, <1>3, <2>2, <3>2, ExpectedAt
    <3>3. CASE p = InitializationPort
      BY <1>2, <1>3, <2>2, <3>3, ExpectedAt
    <3>4. CASE p \in ClientZone
      BY <1>3, <2>2, <2>3, <3>4, ExpectedAt
    <3>5. CASE p \in ManagerPorts
      BY <1>2, <1>3, <2>2, <3>5, ExpectedAt
    <3>6. CASE p \in ServerZone \ ManagerPorts
      BY <1>3, <2>2, <2>3, <3>6, ExpectedAt
    <3> QED BY <2>1, <3>1, <3>2, <3>3, <3>4, <3>5, <3>6 DEF WellKnown
  <2>5. Expected(p) \subseteq Datagrams
    <3>1. PICK S \in SUBSET Nat, B \in SUBSET Bodies : Expected(p) = [src : S, body : B]
      BY <2>4
    <3>2. [src : S, body : B] \subseteq [src : Nat, body : Bodies]
      OBVIOUS
    <3> QED BY <3>1, <3>2 DEF Datagrams
  <2>6. net[p] \in Seq(Datagrams)
    BY <2>1, <2>5, SeqWithin, Zenon
  <2> QED BY <1>2, <2>1, <2>6
<1>5. NetworkTypeOK
  BY <1>4 DEF NetworkTypeOK, PlaceInv, NetworkInv
<1>6. ManagerTypeOK
  <2>1. serverEndPoint \in Seq(Nat)
    BY <1>2, SeqWithin DEF PlaceInv, ManagerInv, ObjectsOK
  <2>2. clientObj \in Seq(ClientObjects)
    BY CountsAreNatural DEF WorkInv
  <2> QED BY <2>1, <2>2 DEF ManagerTypeOK, PlaceInv, ManagerInv, QueuesOK, MainOK, WorkersOK
<1> QED BY <1>1, <1>5, <1>6 DEF TypeOK

\* Every variable of the system has its type in every reachable state; in
\* particular processCount, a size_t, never wraps below 0.
THEOREM AlwaysTyped == SafetySpec => []TypeOK
BY PlaceInvariant, WorkInvariant, InvariantImpliesTypes, PTL
==============================================================================
