----------------------------- MODULE ResultProofs -----------------------------
(***************************************************************************)
(* From the request of a client to the results it prints, when datagrams   *)
(* are lost and nothing else goes wrong: a client asks once, the object    *)
(* that is made of its request is its own, and each of its commands is in  *)
(* one place in the load manager, its queue, the hands of main, or a       *)
(* worker. The output of a command is printed once at most, by the client  *)
(* that asked for it, and what the manager takes for the acknowledgement   *)
(* of a result is one.                                                     *)
(*                                                                         *)
(* While a worker holds Clientsocket_mtx, its result, or then the          *)
(* acknowledgement of it, is all that is under way between the manager and *)
(* the clients that were greeted. On a network without faults one of the   *)
(* two is always under way: stop and wait.                                 *)
(***************************************************************************)
EXTENDS ConversationProofs

OnlyLoss == Faults \subseteq {"loss"}

-----------------------------------------------------------------------------
(* Who asked for what.                                                     *)

Requested(c) ==
  \E i \in Inbox(ClientReceivePort) : net[ClientReceivePort][i].body = Request(c)

\* A client asks once, and has no answer before the manager reads the request.
Requesting ==
  /\ \A i \in Inbox(ClientReceivePort) : \E c \in ClientProcs :
       /\ net[ClientReceivePort][i] = [src |-> clientPort[c], body |-> Request(c)]
       /\ clientPc[c] = "handshake"
       /\ Inbox(clientPort[c]) = {}
  /\ \A i, j \in Inbox(ClientReceivePort) :
       net[ClientReceivePort][i].body = net[ClientReceivePort][j].body => i = j

Todo(k)   == clientObj[k].ProcessQueue
Places(k) == 1..Len(Todo(k))

\* Object k is that of client c: its endpoint and all its commands are.
Owner(k, c) ==
  /\ clientObj[k].endPoint = clientPort[c]
  /\ clientPc[c] \notin {"off", "noPort"} /\ ~Requested(c)
  /\ \A i \in Places(k) : Todo(k)[i] \in CommandsOf(c)
  /\ mainPc = "dispatch" /\ currentClient = k => process \in CommandsOf(c)
  /\ \A t \in WorkerIds : workers[t].client = k => workers[t].process \in CommandsOf(c)

Owned == \A k \in ClientIds : \E c \in ClientProcs : Owner(k, c)

\* A command is in one place: in one queue, in main's hands, or with a worker.
CommandsOnce ==
  /\ \A k, l \in ClientIds : \A i \in Places(k), j \in Places(l) :
       Todo(k)[i] = Todo(l)[j] => k = l /\ i = j
  /\ \A t, u \in WorkerIds : workers[t].process = workers[u].process => t = u
  /\ \A t \in WorkerIds, k \in ClientIds : \A i \in Places(k) : Todo(k)[i] # workers[t].process
  /\ mainPc = "dispatch" =>
       /\ \A k \in ClientIds : \A i \in Places(k) : Todo(k)[i] # process
       /\ \A t \in WorkerIds : workers[t].process # process

-----------------------------------------------------------------------------
(* Ports and commands of clients.                                          *)

LEMMA LossAndNoKills == OnlyLoss => LossAndKills
BY DEF OnlyLoss, LossAndKills

LEMMA ClientSockets ==
  ASSUME PlaceInv
  PROVE  /\ ClientReceivePort \in DOMAIN net /\ WaitPort \in DOMAIN net
         /\ ClientReceivePort # WaitPort
         /\ \A p \in ClientZone : p # ClientReceivePort /\ p # WaitPort
         /\ \A c \in ClientProcs : ClientRunning(c) => clientPort[c] \in ClientZone \cap DOMAIN net
         /\ \A c, d \in ClientProcs :
              (ClientRunning(c) /\ ClientRunning(d) /\ clientPort[c] = clientPort[d]) => c = d
<1>1. /\ ClientReceivePort \in WellKnown /\ WaitPort \in WellKnown /\ WellKnown \subseteq DOMAIN net
  BY DEF PlaceInv, NetworkInv, WellKnown
<1>2. /\ ClientReceivePort # WaitPort
      /\ \A p \in ClientZone : p # ClientReceivePort /\ p # WaitPort
  BY <1>1, ZonesApart
<1>3. /\ \A c \in ClientProcs : ClientRunning(c) => clientPort[c] \in ClientZone \cap DOMAIN net
      /\ \A c, d \in ClientProcs :
           (ClientRunning(c) /\ ClientRunning(d) /\ clientPort[c] = clientPort[d]) => c = d
  BY DEF PlaceInv, ClientInv
<1> QED BY <1>1, <1>2, <1>3

\* The ports of the clients and of the manager's sockets for them are not
\* those that process servers talk through.
LEMMA ClientPortsApart ==
  \A p \in ClientZone \cup {ClientReceivePort, WaitPort} :
    p # InitializationPort /\ p \notin ServerZone
BY ZonesApart DEF WellKnown

LEMMA CommandClient ==
  ASSUME NEW c \in ClientProcs, NEW e \in CommandsOf(c)
  PROVE  e \in Commands /\ e.client = c
BY DEF Commands, CommandsOf, Command

LEMMA RequestsDiffer ==
  \A c, d : Request(c) = Request(d) => c = d
<1>1. \A c : Request(c).client = c
  BY DEF Request
<1> QED BY <1>1

LEMMA OutputsDiffer ==
  \A a, b : Output(a) = Output(b) => a = b
<1>1. \A a : Output(a).of = a
  BY DEF Output
<1> QED BY <1>1

LEMMA OutputIsNoAnswer ==
  \A a : Output(a) # ClientInitialized
<1>1. \A a : Output(a).type = "output"
  BY DEF Output
<1>2. ClientInitialized.type = "Client Initialized"
  BY DEF ClientInitialized
<1> QED BY <1>1, <1>2

\* The request of c has one place for each of its commands.
LEMMA ParsedOnce ==
  ASSUME NEW c \in ClientProcs
  PROVE  /\ Parsed(c) \in Seq(Commands)
         /\ \A i \in 1..Len(Parsed(c)) : Parsed(c)[i] \in CommandsOf(c)
         /\ \A i, j \in 1..Len(Parsed(c)) : Parsed(c)[i] = Parsed(c)[j] => i = j
<1> DEFINE k == IF NumCommands[c] < BufCommands THEN NumCommands[c] ELSE BufCommands
<1>1. k \in Nat /\ 1..k \subseteq 1..NumCommands[c]
  BY NetworkAssumption, BufferAssumption
<1>2. Parsed(c) = [n \in 1..k |-> Command(c, n)]
  BY DEF Parsed
<1>3. Parsed(c) \in Seq(Commands)
  BY ParsedTyped
<1> HIDE DEF k
<1>4. Len(Parsed(c)) = k /\ \A i \in 1..k : Parsed(c)[i] = Command(c, i)
  BY <1>1, <1>2
<1>5. \A i \in 1..k : Command(c, i) \in CommandsOf(c)
  BY <1>1 DEF CommandsOf
<1>6. \A i, j : Command(c, i) = Command(c, j) => i = j
  <2>1. \A i : Command(c, i).n = i
    BY DEF Command
  <2> QED BY <2>1
<1> QED BY <1>3, <1>4, <1>5, <1>6

-----------------------------------------------------------------------------
(* Who asked for what.                                                     *)

\* The workers have the commands and the clients that they had.
TasksKept == /\ WorkerIds' = WorkerIds
             /\ \A t \in WorkerIds : /\ workers'[t].process = workers[t].process
                                     /\ workers'[t].client = workers[t].client

\* So have the client objects.
ObjectsKept == /\ ClientIds' = ClientIds
               /\ \A k \in ClientIds : /\ clientObj'[k].endPoint = clientObj[k].endPoint
                                       /\ clientObj'[k].ProcessQueue = clientObj[k].ProcessQueue

\* main has popped nothing.
MainKept == mainPc' = "dispatch" =>
              mainPc = "dispatch" /\ currentClient' = currentClient /\ process' = process

LEMMA RequestedBefore ==
  ASSUME Fewer(net'[ClientReceivePort], net[ClientReceivePort])
  PROVE  \A c : Requested(c)' => Requested(c)
<1>1. PICK N, M : N = net[ClientReceivePort] /\ M = net'[ClientReceivePort]
  OBVIOUS
<1>2. PICK f \in [1..Len(M) -> 1..Len(N)] : \A i \in 1..Len(M) : M[i] = N[f[i]]
  BY <1>1 DEF Fewer
<1>3. \A i \in 1..Len(M) : \E j \in 1..Len(N) : M[i] = N[j]
  BY <1>2
<1> QED BY <1>1, <1>3 DEF Requested, Inbox

LEMMA RequestingKept ==
  ASSUME Requesting, UNCHANGED clientPort,
         Fewer(net'[ClientReceivePort], net[ClientReceivePort]),
         \A c \in ClientProcs : Requested(c) =>
           /\ clientPc'[c] = clientPc[c]
           /\ Inbox(clientPort[c]) = {} => Inbox(clientPort[c])' = {}
  PROVE  Requesting'
<1>1. PICK N, M : N = net[ClientReceivePort] /\ M = net'[ClientReceivePort]
  OBVIOUS
<1>2. PICK f \in [1..Len(M) -> 1..Len(N)] :
        /\ \A i \in 1..Len(M) : M[i] = N[f[i]]
        /\ \A i, j \in 1..Len(M) : f[i] = f[j] => i = j
  BY <1>1 DEF Fewer
<1>3. \A i \in 1..Len(M) : M[i] = N[f[i]] /\ f[i] \in 1..Len(N)
  BY <1>2
<1>4. /\ \A i \in 1..Len(N) : \E c \in ClientProcs :
           /\ N[i] = [src |-> clientPort[c], body |-> Request(c)]
           /\ clientPc[c] = "handshake" /\ Inbox(clientPort[c]) = {}
      /\ \A i, j \in 1..Len(N) : N[i].body = N[j].body => i = j
  BY <1>1 DEF Requesting, Inbox
<1>5. \A i, j \in 1..Len(M) : M[i].body = M[j].body => i = j
  BY <1>2, <1>3, <1>4
<1>6. ASSUME NEW i \in 1..Len(M)
      PROVE  \E c \in ClientProcs :
               /\ M[i] = [src |-> clientPort'[c], body |-> Request(c)]
               /\ clientPc'[c] = "handshake" /\ Inbox(clientPort[c])' = {}
  <2>1. PICK c \in ClientProcs :
          /\ N[f[i]] = [src |-> clientPort[c], body |-> Request(c)]
          /\ clientPc[c] = "handshake" /\ Inbox(clientPort[c]) = {}
    BY <1>3, <1>4
  <2>2. Requested(c)
    BY <1>1, <1>3, <2>1 DEF Requested, Inbox
  <2> QED BY <1>3, <2>1, <2>2
<1> QED BY <1>1, <1>5, <1>6 DEF Requesting, Inbox

LEMMA OwnedKept ==
  ASSUME Owned, UNCHANGED clientPort, TasksKept, ObjectsKept, MainKept,
         \A c : Requested(c)' => Requested(c),
         \A c \in ClientProcs :
           clientPc'[c] \in {"off", "noPort"} => clientPc[c] \in {"off", "noPort"}
  PROVE  Owned'
<1>1. ASSUME NEW k \in ClientIds, NEW c \in ClientProcs, Owner(k, c)
      PROVE  Owner(k, c)'
  <2>1. /\ clientObj'[k].endPoint = clientPort'[c]
        /\ clientPc'[c] \notin {"off", "noPort"} /\ ~Requested(c)'
    BY <1>1 DEF Owner, ObjectsKept
  <2>2. \A i \in Places(k)' : Todo(k)'[i] \in CommandsOf(c)
    BY <1>1 DEF Owner, ObjectsKept, Places, Todo
  <2>3. mainPc' = "dispatch" /\ currentClient' = k => process' \in CommandsOf(c)
    BY <1>1 DEF Owner, MainKept
  <2>4. \A t \in WorkerIds' : workers'[t].client = k => workers'[t].process \in CommandsOf(c)
    BY <1>1 DEF Owner, TasksKept
  <2> QED BY <2>1, <2>2, <2>3, <2>4 DEF Owner, Todo
<1> QED BY <1>1 DEF Owned, ObjectsKept

LEMMA CommandsKept ==
  ASSUME CommandsOnce, TasksKept, ObjectsKept, MainKept
  PROVE  CommandsOnce'
<1>1. \A k \in ClientIds : Todo(k)' = Todo(k) /\ Places(k)' = Places(k)
  BY DEF ObjectsKept, Todo, Places
<1>2. /\ \A k, l \in ClientIds' : \A i \in Places(k)', j \in Places(l)' :
           Todo(k)'[i] = Todo(l)'[j] => k = l /\ i = j
      /\ \A t, u \in WorkerIds' : workers'[t].process = workers'[u].process => t = u
      /\ \A t \in WorkerIds', k \in ClientIds' : \A i \in Places(k)' :
           Todo(k)'[i] # workers'[t].process
  BY <1>1 DEF CommandsOnce, TasksKept, ObjectsKept
<1>3. mainPc' = "dispatch" =>
       /\ \A k \in ClientIds' : \A i \in Places(k)' : Todo(k)'[i] # process'
       /\ \A t \in WorkerIds' : workers'[t].process # process'
  BY <1>1 DEF CommandsOnce, TasksKept, ObjectsKept, MainKept
<1> QED BY <1>2, <1>3 DEF CommandsOnce, Todo


\* Client c, which was never started, asks.
LEMMA StartedAsks ==
  ASSUME PlaceInv, NEW c \in ClientProcs, StartClient(c)
  PROVE  \E p : /\ p \notin DOMAIN net /\ p # ClientReceivePort /\ p # WaitPort
                /\ clientPc[c] = "off"
                /\ clientPc' = [clientPc EXCEPT ![c] = "handshake"] /\ clientPc'[c] = "handshake"
                /\ \A d \in ClientProcs : d # c => clientPc'[d] = clientPc[d]
                /\ \A d \in ClientProcs : d # c => clientPort'[d] = clientPort[d]
                /\ clientPort'[c] = p
                /\ net'[p] = << >>
                /\ \A q \in DOMAIN net : q # ClientReceivePort => net'[q] = net[q]
                /\ Grown(net'[ClientReceivePort], net[ClientReceivePort],
                         [src |-> p, body |-> Request(c)])
<1>1. PICK p : /\ p \notin DOMAIN net
               /\ clientPort' = [clientPort EXCEPT ![c] = p]
               /\ net' = Sent(Bind(net, p), p, ClientReceivePort, Request(c))
  BY LowestFreePortFound DEF StartClient, Free, Bound
<1>2. clientPc[c] = "off" /\ clientPc' = [clientPc EXCEPT ![c] = "handshake"]
  BY DEF StartClient, ClientGoto
<1>3. clientPc \in [ClientProcs -> ClientPcs] /\ clientPort \in [ClientProcs -> Nat]
  BY DEF PlaceInv, ClientInv, ClientTypeOK
<1>4. p # ClientReceivePort /\ p # WaitPort /\ ClientReceivePort \in DOMAIN net
  BY <1>1, ClientSockets
<1>5. /\ Bind(net, p)[ClientReceivePort] = net[ClientReceivePort]
      /\ ClientReceivePort \in DOMAIN Bind(net, p)
      /\ net[ClientReceivePort] \in Seq(Expected(ClientReceivePort))
  BY <1>4, InboxTyped DEF Bind
<1>6. net'[p] = << >> /\ \A q \in DOMAIN net : q # ClientReceivePort => net'[q] = net[q]
  BY <1>1, <1>4 DEF Bind, Sent
<1>7. Grown(net'[ClientReceivePort], net[ClientReceivePort], [src |-> p, body |-> Request(c)])
  BY <1>1, <1>5, SentThere
<1> QED BY <1>1, <1>2, <1>3, <1>4, <1>6, <1>7

LEMMA StartAsks ==
  ASSUME PlaceInv, Requesting, Owned, CommandsOnce, UNCHANGED managerVars,
         NEW c \in ClientProcs, StartClient(c)
  PROVE  Requesting' /\ Owned' /\ CommandsOnce'
<1>1. PICK p : /\ p \notin DOMAIN net /\ p # ClientReceivePort
               /\ clientPc[c] = "off" /\ clientPc'[c] = "handshake"
               /\ \A d \in ClientProcs : d # c => clientPc'[d] = clientPc[d]
               /\ \A d \in ClientProcs : d # c => clientPort'[d] = clientPort[d]
               /\ clientPort'[c] = p
               /\ net'[p] = << >>
               /\ \A q \in DOMAIN net : q # ClientReceivePort => net'[q] = net[q]
               /\ Grown(net'[ClientReceivePort], net[ClientReceivePort],
                        [src |-> p, body |-> Request(c)])
  BY StartedAsks
<1>2. PICK N, M : N = net[ClientReceivePort] /\ M = net'[ClientReceivePort]
  OBVIOUS
<1>3. PICK last : /\ 1..Len(M) = 1..Len(N) \cup {last}
                  /\ M[last] = [src |-> p, body |-> Request(c)]
                  /\ \A i \in 1..Len(N) : M[i] = N[i]
  BY <1>1, <1>2 DEF Grown
<1>4. /\ \A i \in 1..Len(N) : \E d \in ClientProcs :
           /\ N[i] = [src |-> clientPort[d], body |-> Request(d)]
           /\ clientPc[d] = "handshake" /\ Inbox(clientPort[d]) = {}
      /\ \A i, j \in 1..Len(N) : N[i].body = N[j].body => i = j
  BY <1>2 DEF Requesting, Inbox
<1>5. ASSUME NEW i \in 1..Len(N)
      PROVE  /\ M[i].body # Request(c)
             /\ \E d \in ClientProcs :
                  /\ M[i] = [src |-> clientPort'[d], body |-> Request(d)]
                  /\ clientPc'[d] = "handshake" /\ Inbox(clientPort[d])' = {}
  <2>1. PICK d \in ClientProcs :
          /\ M[i] = [src |-> clientPort[d], body |-> Request(d)]
          /\ clientPc[d] = "handshake" /\ Inbox(clientPort[d]) = {}
    BY <1>3, <1>4
  <2>2. d # c
    BY <1>1, <2>1
  <2>3. clientPort[d] \in DOMAIN net /\ clientPort[d] # ClientReceivePort
    BY <2>1, ClientSockets DEF ClientRunning
  <2>4. Inbox(clientPort[d])' = {}
    BY <1>1, <2>1, <2>2, <2>3 DEF Inbox
  <2>5. M[i].body = Request(d) /\ Request(d) # Request(c)
    BY <2>1, <2>2, RequestsDiffer
  <2> QED BY <1>1, <2>1, <2>2, <2>4, <2>5
<1>6. Requesting'
  <2>1. \E d \in ClientProcs :
          /\ M[last] = [src |-> clientPort'[d], body |-> Request(d)]
          /\ clientPc'[d] = "handshake" /\ Inbox(clientPort[d])' = {}
    BY <1>1, <1>3 DEF Inbox
  <2>2. \A i \in 1..Len(M) : \E d \in ClientProcs :
          /\ M[i] = [src |-> clientPort'[d], body |-> Request(d)]
          /\ clientPc'[d] = "handshake" /\ Inbox(clientPort[d])' = {}
    BY <1>3, <1>5, <2>1
  <2>3. \A i, j \in 1..Len(M) : M[i].body = M[j].body => i = j
    BY <1>3, <1>4, <1>5
  <2> QED BY <1>2, <2>2, <2>3 DEF Requesting, Inbox
<1>7. \A d \in ClientProcs : d # c /\ Requested(d)' => Requested(d)
  <2>1. \A d \in ClientProcs : d # c => M[last].body # Request(d)
    BY <1>3, RequestsDiffer
  <2> QED BY <1>2, <1>3, <2>1 DEF Requested, Inbox
<1>8. UNCHANGED <<clientObj, workers, mainPc, currentClient, process>>
  BY DEF managerVars
<1>9. Owned'
  <2>1. ASSUME NEW k \in ClientIds, NEW d \in ClientProcs, Owner(k, d)
        PROVE  Owner(k, d)'
    <3>1. d # c
      BY <1>1, <2>1 DEF Owner
    <3>2. /\ clientObj'[k].endPoint = clientPort'[d]
          /\ clientPc'[d] \notin {"off", "noPort"} /\ ~Requested(d)'
      BY <1>1, <1>7, <1>8, <2>1, <3>1 DEF Owner
    <3> QED BY <1>8, <2>1, <3>2 DEF Owner, Places, Todo, WorkerIds
  <2> QED BY <1>8, <2>1, IdsSame DEF Owned
<1>10. CommandsOnce'
  <2>1. TasksKept /\ ObjectsKept /\ MainKept
    BY <1>8, IdsSame DEF TasksKept, ObjectsKept, MainKept
  <2> QED BY <2>1, CommandsKept
<1> QED BY <1>6, <1>9, <1>10

\* The request of client c becomes the object k.
LEMMA RequestAccepted ==
  ASSUME PlaceInv, OnlyLoss, Requesting, AcceptClient
  PROVE  \E c \in ClientProcs : \E k :
           /\ clientPc[c] = "handshake" /\ Requested(c)
           /\ clientPort[c] \in ClientZone \cap DOMAIN net /\ Inbox(clientPort[c]) = {}
           /\ 1 \in Inbox(ClientReceivePort)
           /\ net[ClientReceivePort][1].body = Request(c)
           /\ k \notin ClientIds /\ ClientIds' = ClientIds \cup {k}
           /\ \A j \in ClientIds : clientObj'[j] = clientObj[j]
           /\ clientObj'[k].endPoint = clientPort[c]
           /\ clientObj'[k].ProcessQueue = Parsed(c)
           /\ net' = Sent(Taken(ClientReceivePort, 1), ClientReceivePort,
                          clientPort[c], ClientInitialized)
<1>1. PICK i \in Arrivals(ClientReceivePort) :
        /\ clientObj' = Append(clientObj,
             [endPoint |-> net[ClientReceivePort][i].src,
              ProcessQueue |-> Parsed(net[ClientReceivePort][i].body.client),
              processCount |-> Len(Parsed(net[ClientReceivePort][i].body.client)),
              deleted |-> FALSE])
        /\ net' = Sent(Taken(ClientReceivePort, i), ClientReceivePort,
                       net[ClientReceivePort][i].src, ClientInitialized)
  BY DEF AcceptClient
<1>2. i = 1 /\ 1 \in Inbox(ClientReceivePort)
  BY FirstArrives, LossAndNoKills
<1>3. PICK c \in ClientProcs :
        /\ net[ClientReceivePort][1] = [src |-> clientPort[c], body |-> Request(c)]
        /\ clientPc[c] = "handshake" /\ Inbox(clientPort[c]) = {}
  BY <1>2 DEF Requesting
<1>4. net[ClientReceivePort][1].src = clientPort[c] /\ net[ClientReceivePort][1].body = Request(c)
      /\ Request(c).client = c
  BY <1>3 DEF Request
<1> DEFINE o == [endPoint |-> clientPort[c], ProcessQueue |-> Parsed(c),
                 processCount |-> Len(Parsed(c)), deleted |-> FALSE]
           k == Len(clientObj) + 1
           S == ClientObjectsZ \cup {o}
<1>5. clientObj' = Append(clientObj, o)
  BY <1>1, <1>2, <1>4
<1>6. o.endPoint = clientPort[c] /\ o.ProcessQueue = Parsed(c)
  OBVIOUS
<1>7. clientObj \in Seq(ClientObjectsZ)
  BY DEF PlaceInv, ManagerInv, ObjectsOK
<1>8. clientObj \in Seq(S) /\ o \in S
  BY <1>7, SeqWithin
<1> HIDE DEF o, S
<1>9. /\ Len(clientObj') = k /\ Len(clientObj) \in Nat
      /\ \A j \in 1..Len(clientObj) : clientObj'[j] = clientObj[j]
      /\ clientObj'[k] = o
  BY <1>5, <1>8, AppendProperties, LenProperties
<1>10. k \notin ClientIds /\ ClientIds' = ClientIds \cup {k}
  BY <1>9 DEF ClientIds
<1>11. clientPort[c] \in ClientZone \cap DOMAIN net
  BY <1>3, ClientSockets DEF ClientRunning
<1>12. Requested(c)
  BY <1>2, <1>4 DEF Requested
<1>13. clientObj'[k].endPoint = clientPort[c] /\ clientObj'[k].ProcessQueue = Parsed(c)
  BY <1>6, <1>9
<1>14. \A j \in ClientIds : clientObj'[j] = clientObj[j]
  BY <1>9 DEF ClientIds
<1>15. net' = Sent(Taken(ClientReceivePort, 1), ClientReceivePort, clientPort[c], ClientInitialized)
  BY <1>1, <1>2, <1>4
<1> HIDE DEF k
<1> QED BY <1>2, <1>3, <1>4, <1>10, <1>11, <1>12, <1>13, <1>14, <1>15

\* The answer to client c is all there is in its inbox.
LEMMA Answered ==
  ASSUME PlaceInv, NEW p, p \in ClientZone \cap DOMAIN net, Inbox(p) = {},
         1 \in Inbox(ClientReceivePort),
         net' = Sent(Taken(ClientReceivePort, 1), ClientReceivePort, p, ClientInitialized)
  PROVE  /\ \A q \in DOMAIN net : q # ClientReceivePort /\ q # p => net'[q] = net[q]
         /\ Inbox(p)' = {1} /\ net'[p][1].body = ClientInitialized
         /\ Fewer(net'[ClientReceivePort], net[ClientReceivePort])
         /\ \A j \in 1..Len(net'[ClientReceivePort]) :
              /\ net'[ClientReceivePort][j] = net[ClientReceivePort][j + 1]
              /\ j + 1 \in Inbox(ClientReceivePort) /\ j + 1 # 1
<1> DEFINE rest == Taken(ClientReceivePort, 1)
<1>1. ClientReceivePort \in DOMAIN net /\ p # ClientReceivePort
  BY ClientSockets
<1>2. /\ DOMAIN rest = DOMAIN net /\ rest[p] = net[p]
      /\ \A q \in DOMAIN net : q # ClientReceivePort => rest[q] = net[q]
      /\ rest[ClientReceivePort] = RemoveAt(net[ClientReceivePort], 1)
  BY <1>1, TakenElsewhere, TakenThere DEF Taken
<1> HIDE DEF rest
<1>3. net' = Sent(rest, ClientReceivePort, p, ClientInitialized)
  BY DEF rest
<1>4. \A q \in DOMAIN net : q # p => net'[q] = rest[q]
  BY <1>2, <1>3, SentElsewhere
<1>5. net[p] \in Seq(Expected(p)) /\ net[ClientReceivePort] \in Seq(Expected(ClientReceivePort))
  BY <1>1, InboxTyped
<1>6. Grown(net'[p], net[p], [src |-> ClientReceivePort, body |-> ClientInitialized])
  BY <1>2, <1>3, <1>5, SentThere
<1>7. PICK M : M = net'[p]
  OBVIOUS
<1>8. 1..Len(M) = {1} /\ M[1].body = ClientInitialized
  BY <1>6, <1>7 DEF Grown, Inbox
<1>9. PICK N, R : N = net[ClientReceivePort] /\ R = net'[ClientReceivePort]
  OBVIOUS
<1>10. R = RemoveAt(N, 1) /\ 1 \in 1..Len(N) /\ N \in Seq(Expected(ClientReceivePort))
  BY <1>1, <1>2, <1>4, <1>5, <1>9 DEF Inbox
<1>11. Fewer(R, N)
  BY <1>10, RemovedFewer
<1>12. \A j \in 1..Len(R) : R[j] = N[j + 1] /\ j + 1 \in 1..Len(N) /\ j + 1 # 1
  <2>1. /\ Len(R) = Len(N) - 1 /\ Len(N) \in Nat
        /\ \A j \in 1..(Len(N) - 1) : R[j] = N[j + 1] /\ j + 1 \in 1..Len(N)
    BY <1>10, FirstRemoved, LenProperties
  <2> QED BY <2>1
<1> QED BY <1>1, <1>2, <1>4, <1>7, <1>8, <1>9, <1>11, <1>12 DEF Inbox

-----------------------------------------------------------------------------
(* The steps that pass commands on.                                        *)

\* Nobody has commands of a client whose request was not read.
LEMMA NobodyServes ==
  ASSUME PlaceInv, Owned, NEW c \in ClientProcs, Requested(c)
  PROVE  /\ \A k \in ClientIds : \A i \in Places(k) : Todo(k)[i].client # c
         /\ \A t \in WorkerIds : workers[t].process.client # c
         /\ mainPc = "dispatch" => process.client # c
<1>1. \A k \in ClientIds : \E d \in ClientProcs : d # c /\ Owner(k, d)
  BY DEF Owned, Owner
<1>2. \A d \in ClientProcs : \A e \in CommandsOf(d) : e.client = d
  BY CommandClient
<1>3. \A k \in ClientIds : \A i \in Places(k) : Todo(k)[i].client # c
  BY <1>1, <1>2 DEF Owner
<1>4. \A t \in WorkerIds : workers[t].process.client # c
  <2> SUFFICES ASSUME NEW t \in WorkerIds PROVE workers[t].process.client # c
    OBVIOUS
  <2>1. workers[t].client \in ClientIds
    BY WorkersAre
  <2>2. PICK d \in ClientProcs : d # c /\ Owner(workers[t].client, d)
    BY <1>1, <2>1
  <2> QED BY <1>2, <2>2 DEF Owner
<1>5. mainPc = "dispatch" => process.client # c
  <2> SUFFICES ASSUME mainPc = "dispatch" PROVE process.client # c
    OBVIOUS
  <2>1. currentClient \in ClientIds
    BY DEF PlaceInv, ManagerInv, MainOK
  <2>2. PICK d \in ClientProcs : d # c /\ Owner(currentClient, d)
    BY <1>1, <2>1
  <2> QED BY <1>2, <2>2 DEF Owner
<1> QED BY <1>3, <1>4, <1>5

LEMMA AcceptOwns ==
  ASSUME PlaceInv, OnlyLoss, Requesting, Owned, CommandsOnce,
         UNCHANGED clientVars, AcceptClient
  PROVE  Requesting' /\ Owned' /\ CommandsOnce'
<1>1. PICK c \in ClientProcs : \E k :
        /\ clientPc[c] = "handshake" /\ Requested(c)
        /\ clientPort[c] \in ClientZone \cap DOMAIN net /\ Inbox(clientPort[c]) = {}
        /\ 1 \in Inbox(ClientReceivePort)
        /\ net[ClientReceivePort][1].body = Request(c)
        /\ k \notin ClientIds /\ ClientIds' = ClientIds \cup {k}
        /\ \A j \in ClientIds : clientObj'[j] = clientObj[j]
        /\ clientObj'[k].endPoint = clientPort[c]
        /\ clientObj'[k].ProcessQueue = Parsed(c)
        /\ net' = Sent(Taken(ClientReceivePort, 1), ClientReceivePort,
                       clientPort[c], ClientInitialized)
  BY RequestAccepted
<1>2. PICK k :
        /\ k \notin ClientIds /\ ClientIds' = ClientIds \cup {k}
        /\ \A j \in ClientIds : clientObj'[j] = clientObj[j]
        /\ clientObj'[k].endPoint = clientPort[c]
        /\ clientObj'[k].ProcessQueue = Parsed(c)
  BY <1>1
<1>3. PICK p : p = clientPort[c]
  OBVIOUS
<1>4. /\ \A q \in DOMAIN net : q # ClientReceivePort /\ q # p => net'[q] = net[q]
      /\ Fewer(net'[ClientReceivePort], net[ClientReceivePort])
      /\ \A j \in 1..Len(net'[ClientReceivePort]) :
           /\ net'[ClientReceivePort][j] = net[ClientReceivePort][j + 1]
           /\ j + 1 \in Inbox(ClientReceivePort) /\ j + 1 # 1
  BY <1>1, <1>3, Answered
<1>5. UNCHANGED <<clientPc, clientPort, workers, mainPc, currentClient, process>>
  BY DEF AcceptClient, clientVars
<1>6. PICK N, M : N = net[ClientReceivePort] /\ M = net'[ClientReceivePort]
  OBVIOUS
<1>7. /\ \A j \in 1..Len(M) : M[j] = N[j + 1] /\ j + 1 \in 1..Len(N) /\ j + 1 # 1
      /\ 1 \in 1..Len(N) /\ N[1].body = Request(c)
  BY <1>1, <1>4, <1>6 DEF Inbox
<1>8. /\ \A i \in 1..Len(N) : \E d \in ClientProcs :
           /\ N[i] = [src |-> clientPort[d], body |-> Request(d)]
           /\ clientPc[d] = "handshake" /\ Inbox(clientPort[d]) = {}
      /\ \A i, j \in 1..Len(N) : N[i].body = N[j].body => i = j
  BY <1>6 DEF Requesting, Inbox
<1>9. \A j \in 1..Len(M) : M[j].body # Request(c)
  BY <1>7, <1>8
<1>10. ~Requested(c)'
  BY <1>6, <1>9 DEF Requested, Inbox
<1>11. Requesting'
  <2>1. ASSUME NEW j \in 1..Len(M)
        PROVE  \E d \in ClientProcs :
                 /\ M[j] = [src |-> clientPort'[d], body |-> Request(d)]
                 /\ clientPc'[d] = "handshake" /\ Inbox(clientPort[d])' = {}
    <3>1. PICK d \in ClientProcs :
            /\ M[j] = [src |-> clientPort[d], body |-> Request(d)]
            /\ clientPc[d] = "handshake" /\ Inbox(clientPort[d]) = {}
      <4>1. PICK n \in 1..Len(N) : M[j] = N[n]
        BY <1>7
      <4> QED BY <1>8, <4>1
    <3>2. d # c
      BY <1>9, <3>1
    <3>3. clientPort[d] \in DOMAIN net /\ clientPort[d] # ClientReceivePort /\ clientPort[d] # p
      BY <1>1, <1>3, <3>1, <3>2, ClientSockets DEF ClientRunning
    <3>4. Inbox(clientPort[d])' = {}
      BY <1>4, <1>5, <3>1, <3>3 DEF Inbox
    <3> QED BY <1>5, <3>1, <3>4
  <2>2. \A i, j \in 1..Len(M) : M[i].body = M[j].body => i = j
    <3>1. \A i, j \in 1..Len(M) : M[i].body = M[j].body => i + 1 = j + 1
      BY <1>7, <1>8
    <3>2. \A i, j \in 1..Len(M) : i + 1 = j + 1 => i = j
      OBVIOUS
    <3> QED BY <3>1, <3>2
  <2> QED BY <1>6, <2>1, <2>2 DEF Requesting, Inbox
<1>12. /\ Todo(k)' = Parsed(c)
       /\ \A l \in ClientIds : Todo(l)' = Todo(l) /\ Places(l)' = Places(l)
       /\ WorkerIds' = WorkerIds
  BY <1>2, <1>5 DEF Todo, Places, WorkerIds
<1>13. Owned'
  <2>1. ASSUME NEW l \in ClientIds, NEW d \in ClientProcs, Owner(l, d)
        PROVE  Owner(l, d)'
    <3>1. clientObj'[l].endPoint = clientPort'[d] /\ clientPc'[d] \notin {"off", "noPort"}
      BY <1>2, <1>5, <2>1 DEF Owner
    <3>2. ~Requested(d)'
      BY <1>4, <2>1, RequestedBefore DEF Owner
    <3>3. \A i \in Places(l)' : Todo(l)'[i] \in CommandsOf(d)
      BY <1>12, <2>1 DEF Owner
    <3> QED BY <1>5, <1>12, <2>1, <3>1, <3>2, <3>3 DEF Owner, Todo
  <2>2. Owner(k, c)'
    <3>1. clientObj'[k].endPoint = clientPort'[c] /\ clientPc'[c] \notin {"off", "noPort"}
      BY <1>1, <1>2, <1>5
    <3>2. \A i \in Places(k)' : Todo(k)'[i] \in CommandsOf(c)
      BY <1>12, ParsedOnce DEF Places
    <3>3. mainPc' = "dispatch" => currentClient' # k
      BY <1>2, <1>5 DEF PlaceInv, ManagerInv, MainOK
    <3>4. \A t \in WorkerIds' : workers'[t].client # k
      BY <1>2, <1>5, <1>12, WorkersAre
    <3> QED BY <1>10, <3>1, <3>2, <3>3, <3>4 DEF Owner, Todo
  <2> QED BY <1>1, <1>2, <2>1, <2>2 DEF Owned
<1>14. CommandsOnce'
  <2>1. /\ \A l \in ClientIds : \A i \in Places(l) : Todo(l)[i].client # c
        /\ \A t \in WorkerIds : workers[t].process.client # c
        /\ mainPc = "dispatch" => process.client # c
    BY <1>1, NobodyServes
  <2>2. /\ \A i \in Places(k)' : Todo(k)'[i].client = c
        /\ \A i, j \in Places(k)' : Todo(k)'[i] = Todo(k)'[j] => i = j
    BY <1>12, ParsedOnce, CommandClient DEF Places
  <2>3. \A l, m \in ClientIds' : \A i \in Places(l)', j \in Places(m)' :
          Todo(l)'[i] = Todo(m)'[j] => l = m /\ i = j
    <3> SUFFICES ASSUME NEW l \in ClientIds', NEW m \in ClientIds',
                        NEW i \in Places(l)', NEW j \in Places(m)', Todo(l)'[i] = Todo(m)'[j]
                 PROVE  l = m /\ i = j
      OBVIOUS
    <3>1. CASE l \in ClientIds /\ m \in ClientIds
      BY <1>12, <3>1 DEF CommandsOnce
    <3>2. CASE l = k /\ m = k
      BY <2>2, <3>2
    <3>3. CASE l \in ClientIds /\ m = k
      BY <1>12, <2>1, <2>2, <3>3
    <3>4. CASE l = k /\ m \in ClientIds
      BY <1>12, <2>1, <2>2, <3>4
    <3> QED BY <1>2, <3>1, <3>2, <3>3, <3>4
  <2>4. \A t, u \in WorkerIds' : workers'[t].process = workers'[u].process => t = u
    BY <1>5, <1>12 DEF CommandsOnce
  <2>5. ASSUME NEW l \in ClientIds', NEW i \in Places(l)'
        PROVE  /\ \A t \in WorkerIds' : Todo(l)'[i] # workers'[t].process
               /\ mainPc' = "dispatch" => Todo(l)'[i] # process'
    <3>1. CASE l \in ClientIds
      BY <1>5, <1>12, <2>5, <3>1 DEF CommandsOnce
    <3>2. CASE l = k
      BY <1>5, <1>12, <2>1, <2>2, <2>5, <3>2
    <3> QED BY <1>2, <3>1, <3>2
  <2>6. mainPc' = "dispatch" => \A t \in WorkerIds' : workers'[t].process # process'
    BY <1>5, <1>12 DEF CommandsOnce
  <2> QED BY <2>3, <2>4, <2>5, <2>6 DEF CommandsOnce, Todo
<1> QED BY <1>11, <1>13, <1>14

\* main takes the first command of the queue of the current client.
LEMMA CommandPopped ==
  ASSUME PlaceInv, PopProcess
  PROVE  /\ currentClient \in ClientIds /\ ClientIds' = ClientIds
         /\ \A j \in ClientIds : j # currentClient => clientObj'[j] = clientObj[j]
         /\ clientObj'[currentClient].endPoint = clientObj[currentClient].endPoint
         /\ 1 \in Places(currentClient) /\ process' = Todo(currentClient)[1]
         /\ \A i \in Places(currentClient)' :
              /\ i + 1 \in Places(currentClient) /\ i + 1 # 1
              /\ clientObj'[currentClient].ProcessQueue[i] = Todo(currentClient)[i + 1]
<1> DEFINE c == currentClient
           o == [clientObj[c] EXCEPT !.ProcessQueue = Tail(@)]
           q == clientObj[c].ProcessQueue
<1>1. c \in ClientIds /\ clientObj[c] \in ClientObjectsZ /\ UNCHANGED currentClient
  BY ObjectTyped DEF PopProcess, PlaceInv, ManagerInv, MainOK
<1>2. clientObj' = [clientObj EXCEPT ![c] = o] /\ q # << >> /\ process' = Head(q)
  BY DEF PopProcess
<1>3. q \in Seq(Commands)
  BY <1>1 DEF ClientObjectsZ
<1>4. o.endPoint = clientObj[c].endPoint /\ o.ProcessQueue = Tail(q)
  BY <1>1 DEF ClientObjectsZ
<1>5. /\ Len(q) \in Nat \ {0} /\ Len(Tail(q)) = Len(q) - 1
      /\ \A i \in 1..Len(Tail(q)) : Tail(q)[i] = q[i + 1]
      /\ Head(q) = q[1]
  BY <1>2, <1>3, HeadTailProperties, LenProperties, EmptySeq
<1> HIDE DEF o
<1>6. /\ ClientIds' = ClientIds /\ \A j \in ClientIds : j # c => clientObj'[j] = clientObj[j]
      /\ clientObj'[c] = o
  BY <1>1, <1>2, OneObjectChanged
<1>7. 1 \in Places(c) /\ process' = Todo(c)[1]
  BY <1>2, <1>5 DEF Places, Todo
<1>8. PICK r : r = Tail(q)
  OBVIOUS
<1>9. \A i \in 1..Len(r) : i + 1 \in 1..Len(q) /\ i + 1 # 1 /\ r[i] = q[i + 1]
  BY <1>5, <1>8
<1>10. Places(currentClient)' = 1..Len(r) /\ clientObj'[c].ProcessQueue = r
  BY <1>1, <1>4, <1>6, <1>8 DEF Places, Todo
<1>11. \A i \in Places(currentClient)' :
         /\ i + 1 \in Places(c) /\ i + 1 # 1
         /\ clientObj'[c].ProcessQueue[i] = Todo(c)[i + 1]
  BY <1>9, <1>10 DEF Places, Todo
<1> QED BY <1>1, <1>4, <1>6, <1>7, <1>11

LEMMA PopOwns ==
  ASSUME PlaceInv, Owned, CommandsOnce, UNCHANGED clientVars, PopProcess
  PROVE  Owned' /\ CommandsOnce'
<1>1. PICK k : k = currentClient
  OBVIOUS
<1>2. /\ UNCHANGED <<net, clientPc, clientPort, workers, currentClient>>
      /\ WorkerIds' = WorkerIds /\ mainPc' = "dispatch"
  BY IdsSame DEF PopProcess, clientVars, netVars
<1>3. /\ k \in ClientIds /\ ClientIds' = ClientIds
      /\ \A j \in ClientIds : j # k => clientObj'[j] = clientObj[j]
      /\ clientObj'[k].endPoint = clientObj[k].endPoint
      /\ 1 \in Places(k) /\ process' = Todo(k)[1]
      /\ \A i \in Places(currentClient)' :
           /\ i + 1 \in Places(k) /\ i + 1 # 1
           /\ clientObj'[k].ProcessQueue[i] = Todo(k)[i + 1]
  BY <1>1, CommandPopped
<1>4. \A i \in Places(k)' : /\ i + 1 \in Places(k) /\ i + 1 # 1
                            /\ Todo(k)'[i] = Todo(k)[i + 1]
  BY <1>1, <1>2, <1>3 DEF Places, Todo
<1>5. \A j \in ClientIds : j # k => Todo(j)' = Todo(j) /\ Places(j)' = Places(j)
  BY <1>3 DEF Places, Todo
<1>6. ASSUME NEW j \in ClientIds, NEW i \in Places(j)'
      PROVE  \E n \in Places(j) : /\ Todo(j)'[i] = Todo(j)[n]
                                  /\ j = k => n = i + 1 /\ n # 1
                                  /\ j # k => n = i
  <2>1. CASE j = k
    BY <1>4, <1>6, <2>1
  <2>2. CASE j # k
    BY <1>5, <1>6, <2>2
  <2> QED BY <2>1, <2>2
<1>7. Owned'
  <2>1. ASSUME NEW l \in ClientIds, NEW d \in ClientProcs, Owner(l, d)
        PROVE  Owner(l, d)'
    <3>1. clientObj'[l].endPoint = clientPort'[d] /\ clientPc'[d] \notin {"off", "noPort"}
      BY <1>2, <1>3, <2>1 DEF Owner
    <3>2. ~Requested(d)'
      BY <1>2, <2>1 DEF Owner, Requested, Inbox
    <3>3. \A i \in Places(l)' : Todo(l)'[i] \in CommandsOf(d)
      BY <1>6, <2>1 DEF Owner
    <3>4. currentClient' = l => process' \in CommandsOf(d)
      BY <1>1, <1>2, <1>3, <2>1 DEF Owner
    <3>5. \A t \in WorkerIds' : workers'[t].client = l => workers'[t].process \in CommandsOf(d)
      BY <1>2, <2>1 DEF Owner
    <3> QED BY <3>1, <3>2, <3>3, <3>4, <3>5 DEF Owner, Todo
  <2> QED BY <1>3, <2>1 DEF Owned
<1>8. CommandsOnce'
  <2>1. ASSUME NEW l \in ClientIds, NEW m \in ClientIds,
               NEW i \in Places(l)', NEW j \in Places(m)', Todo(l)'[i] = Todo(m)'[j]
        PROVE  l = m /\ i = j
    <3>1. PICK a \in Places(l) : /\ Todo(l)'[i] = Todo(l)[a]
                                 /\ l = k => a = i + 1
                                 /\ l # k => a = i
      BY <1>6
    <3>2. PICK b \in Places(m) : /\ Todo(m)'[j] = Todo(m)[b]
                                 /\ m = k => b = j + 1
                                 /\ m # k => b = j
      BY <1>6
    <3>3. l = m /\ a = b
      <4>1. Todo(l)[a] = Todo(m)[b]
        BY <2>1, <3>1, <3>2
      <4> QED BY <4>1 DEF CommandsOnce
    <3>4. i \in Int /\ j \in Int
      BY DEF Places
    <3> QED BY <3>1, <3>2, <3>3, <3>4
  <2>2. \A t, u \in WorkerIds' : workers'[t].process = workers'[u].process => t = u
    BY <1>2 DEF CommandsOnce
  <2>3. \A t \in WorkerIds', l \in ClientIds' : \A i \in Places(l)' :
          Todo(l)'[i] # workers'[t].process
    BY <1>2, <1>3, <1>6 DEF CommandsOnce
  <2>4. \A l \in ClientIds' : \A i \in Places(l)' : Todo(l)'[i] # process'
    <3> SUFFICES ASSUME NEW l \in ClientIds, NEW i \in Places(l)' PROVE Todo(l)'[i] # process'
      BY <1>3
    <3>1. PICK n \in Places(l) : Todo(l)'[i] = Todo(l)[n] /\ (l = k => n # 1)
      BY <1>6
    <3> QED BY <1>3, <3>1 DEF CommandsOnce
  <2>5. \A t \in WorkerIds' : workers'[t].process # process'
    BY <1>2, <1>3 DEF CommandsOnce
  <2>6. \A l, m \in ClientIds' : \A i \in Places(l)', j \in Places(m)' :
          Todo(l)'[i] = Todo(m)'[j] => l = m /\ i = j
    BY <1>3, <2>1
  <2> QED BY <2>2, <2>3, <2>4, <2>5, <2>6 DEF CommandsOnce, Todo
<1> QED BY <1>7, <1>8

\* The new worker has the command that main has popped.
LEMMA TaskAdded ==
  ASSUME PlaceInv, Dispatch
  PROVE  \E n : /\ n \notin WorkerIds /\ n # 0
                /\ WorkerIds' = WorkerIds \cup {n}
                /\ \A u \in WorkerIds : workers'[u] = workers[u]
                /\ workers'[n].pc = "send"
                /\ workers'[n].process = process
                /\ workers'[n].client = currentClient
<1>1. PICK n : /\ n \notin WorkerIds /\ n # 0
               /\ WorkerIds' = WorkerIds \cup {n}
               /\ \A u \in WorkerIds : workers'[u] = workers[u]
               /\ workers'[n].pc = "send"
               /\ workers'[n].client = currentClient
  BY WorkerAdded
<1> DEFINE m == Len(workers) + 1
           w == Worker(Head(serverQueue))
           S == WorkerRecords \cup {w}
<1>2. workers \in Seq(WorkerRecords) /\ Len(workers) \in Nat /\ WorkerIds = 1..Len(workers)
  BY WorkersAre
<1>3. workers \in Seq(S) /\ w \in S
  BY <1>2, SeqWithin
<1>4. w.process = process
  BY DEF Worker
<1>5. workers' = Append(workers, w)
  BY DEF Dispatch
<1> HIDE DEF w, S
<1>6. Len(workers') = m /\ workers'[m] = w
  BY <1>3, <1>5, AppendProperties
<1>7. n = m
  <2>1. n \in WorkerIds' /\ WorkerIds' = 1..m
    BY <1>1, <1>6 DEF WorkerIds
  <2> HIDE DEF m
  <2>2. n \in 1..m /\ n \notin 1..Len(workers)
    BY <1>1, <1>2, <2>1
  <2> QED BY <1>2, <2>2 DEF m
<1> QED BY <1>1, <1>4, <1>6, <1>7

LEMMA DispatchOwns ==
  ASSUME PlaceInv, Owned, CommandsOnce, UNCHANGED clientVars, Dispatch
  PROVE  Owned' /\ CommandsOnce'
<1>1. PICK n : /\ n \notin WorkerIds
               /\ WorkerIds' = WorkerIds \cup {n}
               /\ \A u \in WorkerIds : workers'[u] = workers[u]
               /\ workers'[n].process = process
               /\ workers'[n].client = currentClient
  BY TaskAdded
<1>2. /\ UNCHANGED <<net, clientPc, clientPort, clientObj, currentClient, process>>
      /\ ClientIds' = ClientIds /\ mainPc = "dispatch" /\ mainPc' = "test"
  BY IdsSame DEF Dispatch, clientVars, netVars
<1>3. \A k \in ClientIds : Todo(k)' = Todo(k) /\ Places(k)' = Places(k)
  BY <1>2 DEF Todo, Places
<1>4. Owned'
  <2>1. ASSUME NEW l \in ClientIds, NEW d \in ClientProcs, Owner(l, d)
        PROVE  Owner(l, d)'
    <3>1. clientObj'[l].endPoint = clientPort'[d] /\ clientPc'[d] \notin {"off", "noPort"}
      BY <1>2, <2>1 DEF Owner
    <3>2. ~Requested(d)'
      BY <1>2, <2>1 DEF Owner, Requested, Inbox
    <3>3. \A i \in Places(l)' : Todo(l)'[i] \in CommandsOf(d)
      BY <1>3, <2>1 DEF Owner
    <3>4. \A t \in WorkerIds' : workers'[t].client = l => workers'[t].process \in CommandsOf(d)
      BY <1>1, <1>2, <2>1 DEF Owner
    <3> QED BY <1>2, <3>1, <3>2, <3>3, <3>4 DEF Owner, Todo
  <2> QED BY <1>2, <2>1 DEF Owned
<1>5. CommandsOnce'
  <2>1. \A k, l \in ClientIds' : \A i \in Places(k)', j \in Places(l)' :
          Todo(k)'[i] = Todo(l)'[j] => k = l /\ i = j
    BY <1>2, <1>3 DEF CommandsOnce
  <2>2. \A t, u \in WorkerIds' : workers'[t].process = workers'[u].process => t = u
    BY <1>1, <1>2 DEF CommandsOnce
  <2>3. \A t \in WorkerIds', k \in ClientIds' : \A i \in Places(k)' :
          Todo(k)'[i] # workers'[t].process
    BY <1>1, <1>2, <1>3 DEF CommandsOnce
  <2> QED BY <1>2, <2>1, <2>2, <2>3 DEF CommandsOnce, Todo
<1> QED BY <1>4, <1>5

-----------------------------------------------------------------------------
(* Results and acknowledgements.                                           *)

\* No client dies.
ClientsUp == \A c \in ClientProcs : /\ clientTimer[c] # "expired"
                                    /\ clientPc[c] \notin {"timedOut", "killed"}

Printed(e) == Output(e) \in Elements(results[e.client])

\* The command whose result is being sent.
Holder == workers[ClientsocketMtx].process

\* No acknowledgement is under way.
Silent == Inbox(WaitPort) = {} /\ \A c \in ClientProcs : clientPc[c] # "ack"

\* What client c can receive: the greeting, which the handshake takes, and the
\* holder's result.
Greeting(c, i) == /\ net[clientPort[c]][i].body = ClientInitialized
                  /\ i = 1 /\ clientPc[c] = "handshake"

Result(c, i) == /\ ClientsocketMtx # 0 /\ Holder.client = c
                /\ net[clientPort[c]][i].body = Output(Holder)
                /\ ~Printed(Holder) /\ Silent

Receiving(c) ==
  /\ \A i \in Inbox(clientPort[c]) : Greeting(c, i) \/ Result(c, i)
  /\ \A i, j \in Inbox(clientPort[c]) :
       net[clientPort[c]][i].body = net[clientPort[c]][j].body => i = j

\* The acknowledgement in the hands of client c, and that at port 9001.
Acknowledging(c) == clientPc[c] = "ack" =>
                      /\ ClientsocketMtx # 0 /\ Holder.client = c
                      /\ Printed(Holder) /\ Inbox(WaitPort) = {}

Acknowledged == \A i \in Inbox(WaitPort) :
                  /\ i = 1 /\ ClientsocketMtx # 0 /\ Printed(Holder)
                  /\ net[WaitPort][i].src = clientPort[Holder.client]

Deliveries == /\ \A c \in ClientProcs : ClientRunning(c) => Receiving(c)
              /\ \A c \in ClientProcs : Acknowledging(c)
              /\ Acknowledged

Early == {"send", "reply", "lock"}
Late  == {"delete", "return", "done"}

\* Clients print results of their commands, each once, and end with all.
PrintOnce ==
  /\ \A t \in WorkerIds : /\ workers[t].pc \in Early => ~Printed(workers[t].process)
                          /\ workers[t].pc \in Late => Printed(workers[t].process)
  /\ \A c \in ClientProcs : \A i \in 1..Len(results[c]) : \E t \in WorkerIds :
       workers[t].process.client = c /\ results[c][i] = Output(workers[t].process)
  /\ \A c \in ClientProcs : \A i, j \in 1..Len(results[c]) : results[c][i] = results[c][j] => i = j
  /\ \A c \in ClientProcs : clientPc[c] = "done" => \A e \in CommandsOf(c) : Printed(e)

ResultInv == /\ ClientsUp /\ Requesting /\ Owned /\ CommandsOnce
             /\ Deliveries /\ PrintOnce

-----------------------------------------------------------------------------
(* Steps that leave the clients and what they receive alone.               *)

\* The worker's client object is that of the client that asked.
LEMMA TaskOwner ==
  ASSUME PlaceInv, Owned, NEW t \in WorkerIds
  PROVE  /\ workers[t].client \in ClientIds
         /\ workers[t].process.client \in ClientProcs
         /\ workers[t].process \in CommandsOf(workers[t].process.client)
         /\ Owner(workers[t].client, workers[t].process.client)
<1>1. workers[t].client \in ClientIds
  BY WorkersAre
<1>2. PICK d \in ClientProcs : Owner(workers[t].client, d)
  BY <1>1 DEF Owned
<1>3. workers[t].process \in CommandsOf(d)
  BY <1>2 DEF Owner
<1>4. workers[t].process.client = d
  BY <1>3, CommandClient
<1> QED BY <1>1, <1>2, <1>3, <1>4

\* The inboxes that clients have a part in lose at most.
QuietLost == \A p \in ClientZone \cup {ClientReceivePort, WaitPort} :
               p \in DOMAIN net => Fewer(net'[p], net[p])

QuietSame == \A p \in ClientZone \cup {ClientReceivePort, WaitPort} :
               p \in DOMAIN net => net'[p] = net[p]

LEMMA QuietSameIsLost == QuietSame => QuietLost
BY FewerSame DEF QuietSame, QuietLost

\* What the clients receive, when all else about them stays.
LEMMA ReceivingKept ==
  ASSUME NEW c, Receiving(c), UNCHANGED <<ClientsocketMtx, results>>,
         clientPort'[c] = clientPort[c],
         clientPc[c] = "handshake" => clientPc'[c] = "handshake",
         ClientsocketMtx # 0 => Holder' = Holder,
         Silent => Silent',
         Fewer(net'[clientPort[c]], net[clientPort[c]])
  PROVE  Receiving(c)'
<1>1. PICK p, N, M : p = clientPort[c] /\ N = net[p] /\ M = net'[p]
  OBVIOUS
<1>2. PICK f \in [1..Len(M) -> 1..Len(N)] :
        /\ \A i \in 1..Len(M) : M[i] = N[f[i]] /\ (f[i] = 1 => i = 1)
        /\ \A i, j \in 1..Len(M) : f[i] = f[j] => i = j
  BY <1>1 DEF Fewer
<1>3. /\ \A i \in 1..Len(N) : \/ N[i].body = ClientInitialized /\ i = 1 /\ clientPc[c] = "handshake"
                              \/ /\ ClientsocketMtx # 0 /\ Holder.client = c
                                 /\ N[i].body = Output(Holder) /\ ~Printed(Holder) /\ Silent
      /\ \A i, j \in 1..Len(N) : N[i].body = N[j].body => i = j
  BY <1>1 DEF Receiving, Greeting, Result, Inbox
<1>4. ClientsocketMtx # 0 => Printed(Holder)' = Printed(Holder)
  BY DEF Printed
<1>5. ASSUME NEW i \in 1..Len(M)
      PROVE  \/ M[i].body = ClientInitialized /\ i = 1 /\ clientPc'[c] = "handshake"
             \/ /\ ClientsocketMtx # 0 /\ Holder'.client = c
                /\ M[i].body = Output(Holder)' /\ ~Printed(Holder)' /\ Silent'
  <2>1. PICK n \in 1..Len(N) : M[i] = N[n] /\ (n = 1 => i = 1)
    BY <1>2
  <2>2. CASE N[n].body = ClientInitialized /\ n = 1 /\ clientPc[c] = "handshake"
    BY <2>1, <2>2
  <2>3. CASE /\ ClientsocketMtx # 0 /\ Holder.client = c
             /\ N[n].body = Output(Holder) /\ ~Printed(Holder) /\ Silent
    <3>1. Output(Holder)' = Output(Holder)
      BY <2>3 DEF Output
    <3> QED BY <1>4, <2>1, <2>3, <3>1
  <2> QED BY <1>3, <2>2, <2>3
<1>6. \A i, j \in 1..Len(M) : M[i].body = M[j].body => i = j
  <2> SUFFICES ASSUME NEW i \in 1..Len(M), NEW j \in 1..Len(M), M[i].body = M[j].body
               PROVE  i = j
    OBVIOUS
  <2>1. f[i] \in 1..Len(N) /\ f[j] \in 1..Len(N) /\ N[f[i]].body = N[f[j]].body
    BY <1>2
  <2> QED BY <1>2, <1>3, <2>1
<1>7. clientPort'[c] = p /\ Inbox(clientPort[c])' = 1..Len(M)
  BY <1>1 DEF Inbox
<1> QED BY <1>1, <1>5, <1>6, <1>7 DEF Receiving, Greeting, Result

LEMMA SilentKept ==
  ASSUME UNCHANGED clientPc, Fewer(net'[WaitPort], net[WaitPort]), Silent
  PROVE  Silent'
<1>1. Inbox(WaitPort)' = {}
  BY FewerNone DEF Silent, Inbox
<1> QED BY <1>1 DEF Silent

LEMMA DeliveriesKept ==
  ASSUME PlaceInv, Deliveries, UNCHANGED <<clientVars, ClientsocketMtx>>, QuietLost,
         ClientsocketMtx # 0 => Holder' = Holder
  PROVE  Deliveries'
<1>1. UNCHANGED <<clientPc, clientPort, results>>
  BY DEF clientVars
<1>2. Fewer(net'[WaitPort], net[WaitPort])
  BY ClientSockets DEF QuietLost
<1>3. Silent => Silent'
  BY <1>1, <1>2, SilentKept
<1>4. ASSUME NEW c \in ClientProcs, ClientRunning(c)' PROVE Receiving(c)'
  <2>1. ClientRunning(c) /\ Receiving(c)
    BY <1>1, <1>4 DEF ClientRunning, Deliveries
  <2>2. Fewer(net'[clientPort[c]], net[clientPort[c]])
    BY <2>1, ClientSockets DEF QuietLost
  <2> QED BY <1>1, <1>3, <2>1, <2>2, ReceivingKept
<1>5. ClientsocketMtx # 0 => Printed(Holder)' = Printed(Holder)
  BY <1>1 DEF Printed
<1>6. \A c \in ClientProcs : Acknowledging(c)'
  <2> SUFFICES ASSUME NEW c \in ClientProcs, clientPc'[c] = "ack"
               PROVE  /\ ClientsocketMtx' # 0 /\ Holder'.client = c
                      /\ Printed(Holder)' /\ Inbox(WaitPort)' = {}
    BY DEF Acknowledging
  <2>1. /\ ClientsocketMtx # 0 /\ Holder.client = c
        /\ Printed(Holder) /\ Inbox(WaitPort) = {}
    BY <1>1 DEF Deliveries, Acknowledging
  <2>2. Inbox(WaitPort)' = {}
    BY <1>2, <2>1, FewerNone DEF Inbox
  <2> QED BY <1>5, <2>1, <2>2
<1>7. Acknowledged'
  <2>1. PICK N, M : N = net[WaitPort] /\ M = net'[WaitPort]
    OBVIOUS
  <2>2. PICK f \in [1..Len(M) -> 1..Len(N)] : \A i \in 1..Len(M) : M[i] = N[f[i]] /\ (f[i] = 1 => i = 1)
    BY <1>2, <2>1 DEF Fewer
  <2>3. \A i \in 1..Len(N) : /\ i = 1 /\ ClientsocketMtx # 0 /\ Printed(Holder)
                             /\ N[i].src = clientPort[Holder.client]
    BY <2>1 DEF Deliveries, Acknowledged, Inbox
  <2>4. ASSUME NEW i \in 1..Len(M)
        PROVE  /\ i = 1 /\ ClientsocketMtx' # 0 /\ Printed(Holder)'
               /\ M[i].src = clientPort'[Holder'.client]
    <3>1. f[i] \in 1..Len(N)
      BY <2>2
    <3>2. f[i] = 1 /\ ClientsocketMtx # 0 /\ Printed(Holder)
          /\ N[f[i]].src = clientPort[Holder.client]
      BY <2>3, <3>1
    <3> QED BY <1>1, <1>5, <2>2, <3>2
  <2> QED BY <2>1, <2>4 DEF Acknowledged, Inbox
<1> QED BY <1>4, <1>6, <1>7 DEF Deliveries

\* The workers have their commands, and none is early again or late already.
StagesKept == /\ WorkerIds' = WorkerIds
              /\ \A t \in WorkerIds : /\ workers'[t].process = workers[t].process
                                      /\ workers'[t].pc \in Early => workers[t].pc \in Early
                                      /\ workers'[t].pc \in Late => workers[t].pc \in Late

LEMMA PrintKept ==
  ASSUME PrintOnce, UNCHANGED clientVars, StagesKept
  PROVE  PrintOnce'
<1>1. UNCHANGED <<clientPc, results>>
  BY DEF clientVars
<1>2. \A t \in WorkerIds : Printed(workers[t].process)' = Printed(workers[t].process)
  BY <1>1 DEF Printed, StagesKept
<1>3. \A t \in WorkerIds' : /\ workers'[t].pc \in Early => ~Printed(workers[t].process)'
                            /\ workers'[t].pc \in Late => Printed(workers[t].process)'
  BY <1>2 DEF PrintOnce, StagesKept
<1>4. \A c \in ClientProcs : \A i \in 1..Len(results'[c]) : \E t \in WorkerIds' :
        workers'[t].process.client = c /\ results'[c][i] = Output(workers'[t].process)
  <2> SUFFICES ASSUME NEW c \in ClientProcs, NEW i \in 1..Len(results[c])
               PROVE  \E t \in WorkerIds' :
                        workers'[t].process.client = c /\ results[c][i] = Output(workers'[t].process)
    BY <1>1
  <2>1. PICK t \in WorkerIds :
          workers[t].process.client = c /\ results[c][i] = Output(workers[t].process)
    BY DEF PrintOnce
  <2>2. t \in WorkerIds' /\ workers'[t].process = workers[t].process
    BY DEF StagesKept
  <2> QED BY <2>1, <2>2
<1>5. /\ \A c \in ClientProcs : \A i, j \in 1..Len(results'[c]) : results'[c][i] = results'[c][j] => i = j
      /\ \A c \in ClientProcs : clientPc'[c] = "done" => \A e \in CommandsOf(c) : Printed(e)'
  BY <1>1 DEF PrintOnce, Printed
<1> QED BY <1>3, <1>4, <1>5 DEF PrintOnce

LEMMA RequestedWaits ==
  ASSUME Requesting, NEW c \in ClientProcs, Requested(c)
  PROVE  clientPc[c] = "handshake" /\ Inbox(clientPort[c]) = {}
<1>1. PICK i \in Inbox(ClientReceivePort) : net[ClientReceivePort][i].body = Request(c)
  BY DEF Requested
<1>2. PICK d \in ClientProcs :
        /\ net[ClientReceivePort][i] = [src |-> clientPort[d], body |-> Request(d)]
        /\ clientPc[d] = "handshake" /\ Inbox(clientPort[d]) = {}
  BY DEF Requesting
<1>3. c = d
  BY <1>1, <1>2, RequestsDiffer
<1> QED BY <1>2, <1>3

LEMMA RequestingQuietly ==
  ASSUME PlaceInv, Requesting, UNCHANGED clientVars, QuietLost
  PROVE  Requesting'
<1>1. UNCHANGED <<clientPc, clientPort>>
  BY DEF clientVars
<1>2. Fewer(net'[ClientReceivePort], net[ClientReceivePort])
  BY ClientSockets DEF QuietLost
<1>3. ASSUME NEW c \in ClientProcs, Requested(c), Inbox(clientPort[c]) = {}
      PROVE  Inbox(clientPort[c])' = {}
  <2>1. clientPc[c] = "handshake"
    BY <1>3, RequestedWaits
  <2>2. Fewer(net'[clientPort[c]], net[clientPort[c]])
    BY <2>1, ClientSockets DEF QuietLost, ClientRunning
  <2> QED BY <1>1, <1>3, <2>2, FewerNone DEF Inbox
<1> QED BY <1>1, <1>2, <1>3, RequestingKept

\* Whatever else a step does.
LEMMA ResultKept ==
  ASSUME PlaceInv, ResultInv, UNCHANGED <<clientVars, ClientsocketMtx>>, QuietLost,
         TasksKept, ObjectsKept, MainKept, StagesKept
  PROVE  ResultInv'
<1>1. UNCHANGED <<clientPc, clientTimer, clientPort, results>>
  BY DEF clientVars
<1>2. Fewer(net'[ClientReceivePort], net[ClientReceivePort])
  BY ClientSockets DEF QuietLost
<1>3. ClientsUp'
  BY <1>1 DEF ResultInv, ClientsUp
<1>4. Requesting'
  BY RequestingQuietly DEF ResultInv
<1>5. Owned'
  BY <1>1, <1>2, RequestedBefore, OwnedKept DEF ResultInv
<1>6. CommandsOnce'
  BY CommandsKept DEF ResultInv
<1>7. ClientsocketMtx # 0 => Holder' = Holder
  BY DEF Holder, PlaceInv, ManagerInv, WorkersOK, TasksKept
<1>8. Deliveries' /\ PrintOnce'
  BY <1>7, DeliveriesKept, PrintKept DEF ResultInv
<1> QED BY <1>3, <1>4, <1>5, <1>6, <1>8 DEF ResultInv

LEMMA QuietPorts ==
  \A p \in ClientZone \cup {ClientReceivePort, WaitPort} :
    p \notin ServerZone /\ p # InitializationPort
BY ClientPortsApart

LEMMA ServerQuietly ==
  ASSUME PlaceInv, NEW s \in ServerProcs, ServerNext(s)
  PROVE  QuietSame
<1>1. ServerRunning(s) => serverPort[s] \in ServerZone
  BY DEF PlaceInv, ServerInv
<1>2. CASE StartServer(s)
  <2>1. PICK q : q \notin DOMAIN net /\ net' = Sent(Bind(net, q), q, InitializationPort, InitMessage)
    BY <1>2, HighestFreePortFound DEF StartServer, Free, Bound
  <2> QED BY <2>1, QuietPorts DEF QuietSame, Sent, Bind
<1>3. CASE ServerHandshake(s) \/ ReceiveCommand(s)
  <2>1. PICK i : net' = Taken(serverPort[s], i)
    BY <1>3 DEF ServerHandshake, ReceiveCommand
  <2>2. serverPort[s] \in ServerZone
    BY <1>1, <1>3 DEF ServerHandshake, ReceiveCommand, ServerGoto, ServerRunning
  <2> QED BY <2>1, <2>2, QuietPorts, TakenElsewhere DEF QuietSame
<1>4. CASE Reply(s)
  <2>1. job[s] \in [src : ManagerPorts, body : Runnable] /\ ManagerPorts \subseteq ServerZone
    BY <1>4, ManagerPortsInZone DEF Reply, ServerGoto, PlaceInv, ServerInv, ManagerInv, ObjectsOK
  <2>2. job[s].src \in ServerZone
    BY <2>1
  <2>3. net' = Sent(net, serverPort[s], job[s].src, Output(job[s].body))
    BY <1>4 DEF Reply
  <2> QED BY <2>2, <2>3, QuietPorts, SentElsewhere DEF QuietSame
<1>5. CASE ServerTimerExits(s) \/ KillServer(s)
  <2>1. serverPort[s] \in ServerZone /\ net' = Unbind(net, {serverPort[s]})
    BY <1>1, <1>5 DEF ServerTimerExits, KillServer
  <2> QED BY <2>1, QuietPorts DEF QuietSame, Unbind
<1>6. CASE StopServerTimer(s) \/ ServerTimerReads(s) \/ ServerFindsNoPort(s)
  <2>1. net' = net
    BY <1>6 DEF StopServerTimer, ServerTimerReads, ServerFindsNoPort, netVars
  <2> QED BY <2>1 DEF QuietSame
<1> QED BY <1>2, <1>3, <1>4, <1>5, <1>6 DEF ServerNext, ServerMain

LEMMA InitializeQuietly ==
  ASSUME PlaceInv, InitializeServer
  PROVE  QuietSame
<1>1. PICK i \in Arrivals(InitializationPort) :
        LET k      == Len(serverEndPoint) + 1
            sender == net[InitializationPort][i].src
            rest   == Taken(InitializationPort, i)
        IN  IF Free(ManagerPort(k))
              THEN net' = Sent(Bind(rest, ManagerPort(k)), ManagerPort(k),
                               sender, ProcessServerInitialized)
              ELSE net' = rest
  BY DEF InitializeServer
<1>2. NetworkOK(net) /\ ManagerPorts \subseteq ServerZone /\ InitializationPort \in DOMAIN net
  BY ManagerPortsInZone DEF PlaceInv, NetworkInv, ManagerInv, ObjectsOK, WellKnown
<1>3. net[InitializationPort][i] \in [src : ServerZone, body : {InitMessage}]
  BY <1>2, TakenOK, ExpectedAt
<1>4. PICK a \in ServerZone : a = net[InitializationPort][i].src
  BY <1>3
<1>5. PICK q, rest : q = ManagerPort(Len(serverEndPoint) + 1) /\ rest = Taken(InitializationPort, i)
  OBVIOUS
<1>6. DOMAIN rest = DOMAIN net /\ \A p \in DOMAIN net : p # InitializationPort => rest[p] = net[p]
  BY <1>5, TakenElsewhere DEF Taken
<1>7. CASE Free(q)
  <2>1. net' = Sent(Bind(rest, q), q, a, ProcessServerInitialized) /\ q \notin DOMAIN net
    BY <1>1, <1>4, <1>5, <1>7 DEF Free, Bound
  <2> QED BY <1>4, <1>6, <2>1, QuietPorts DEF QuietSame, Sent, Bind
<1>8. CASE ~Free(q)
  <2>1. net' = rest
    BY <1>1, <1>5, <1>8
  <2> QED BY <1>6, <2>1, QuietPorts DEF QuietSame
<1> QED BY <1>7, <1>8

LEMMA LostQuietly ==
  ASSUME PlaceInv, Lose
  PROVE  QuietLost
<1>1. PICK p \in DOMAIN net : \E i \in 1..Len(net[p]) : net' = Taken(p, i)
  BY DEF Lose, Bound
<1>2. PICK i \in 1..Len(net[p]) : net' = Taken(p, i)
  BY <1>1
<1>3. net[p] \in Seq(Expected(p))
  BY InboxTyped
<1>4. net'[p] = RemoveAt(net[p], i) /\ \A q \in DOMAIN net : q # p => net'[q] = net[q]
  BY <1>2, TakenThere, TakenElsewhere
<1>5. Fewer(net'[p], net[p])
  BY <1>3, <1>4, RemovedFewer
<1> QED BY <1>4, <1>5, FewerSame DEF QuietLost

\* The steps of other programs, and main's that pass no command on.
LEMMA ManagerRests ==
  ASSUME UNCHANGED <<clientObj, workers>>, mainPc' # "dispatch" \/ UNCHANGED <<mainPc, currentClient, process>>
  PROVE  TasksKept /\ ObjectsKept /\ MainKept /\ StagesKept
BY IdsSame DEF TasksKept, ObjectsKept, MainKept, StagesKept

LEMMA OthersResult ==
  ASSUME PlaceInv, ResultInv, UNCHANGED <<clientVars, managerVars>>, QuietLost
  PROVE  ResultInv'
<1>1. UNCHANGED <<clientObj, workers, mainPc, currentClient, process, ClientsocketMtx>>
  BY DEF managerVars
<1> QED BY <1>1, ManagerRests, ResultKept

LEMMA QuietManagerResult ==
  ASSUME PlaceInv, ResultInv, UNCHANGED clientVars,
         InitializeServer \/ GetClient \/ LeaveClient \/ ReadDeletedClient
  PROVE  ResultInv'
<1>1. UNCHANGED <<clientObj, workers, ClientsocketMtx>>
      /\ (mainPc' # "dispatch" \/ UNCHANGED <<mainPc, currentClient, process>>)
  BY DEF InitializeServer, GetClient, LeaveClient, ReadDeletedClient
<1>2. QuietSame
  <2>1. CASE InitializeServer
    BY <2>1, InitializeQuietly
  <2>2. CASE ~InitializeServer
    <3>1. UNCHANGED net
      BY <2>2 DEF GetClient, LeaveClient, ReadDeletedClient, netVars
    <3> QED BY <3>1 DEF QuietSame
  <2> QED BY <2>1, <2>2
<1> QED BY <1>1, <1>2, ManagerRests, QuietSameIsLost, ResultKept

\* The steps of a worker outside of sendMessage.
LEMMA WorkerQuietly ==
  ASSUME PlaceInv, NEW t \in WorkerIds,
         SendCommand(t) \/ ReceiveReply(t) \/ DeleteClient(t) \/ ReturnServer(t)
  PROVE  QuietSame
<1>1. /\ serverEndPoint[workers[t].server] \in ServerZone
      /\ ManagerPort(workers[t].server) \in ServerZone
  BY WorkerFinds
<1>2. CASE SendCommand(t)
  <2>1. net' = Sent(net, ManagerPort(workers[t].server), serverEndPoint[workers[t].server],
                    workers[t].process)
    BY <1>2 DEF SendCommand
  <2> QED BY <1>1, <2>1, QuietPorts, SentElsewhere DEF QuietSame
<1>3. CASE ReceiveReply(t)
  <2>1. PICK i : net' = Taken(ManagerPort(workers[t].server), i)
    BY <1>3 DEF ReceiveReply
  <2> QED BY <1>1, <2>1, QuietPorts, TakenElsewhere DEF QuietSame
<1>4. CASE DeleteClient(t) \/ ReturnServer(t)
  <2>1. UNCHANGED net
    BY <1>4 DEF DeleteClient, ReturnServer, netVars
  <2> QED BY <2>1 DEF QuietSame
<1> QED BY <1>2, <1>3, <1>4

LEMMA DeletedKept ==
  ASSUME PlaceInv, NEW t \in WorkerIds, DeleteClient(t)
  PROVE  ObjectsKept
<1> DEFINE k == workers[t].client
           o == [clientObj[k] EXCEPT !.deleted = TRUE]
<1>1. k \in ClientIds /\ clientObj[k] \in ClientObjectsZ
  BY WorkerFinds
<1>2. clientObj' = [clientObj EXCEPT ![k] = o]
  BY DEF DeleteClient
<1>3. o.endPoint = clientObj[k].endPoint /\ o.ProcessQueue = clientObj[k].ProcessQueue
  BY <1>1 DEF ClientObjectsZ
<1> HIDE DEF k, o
<1>4. /\ ClientIds' = ClientIds /\ \A j \in ClientIds : j # k => clientObj'[j] = clientObj[j]
      /\ clientObj'[k] = o
  BY <1>1, <1>2, OneObjectChanged
<1> QED BY <1>3, <1>4 DEF ObjectsKept

LEMMA QuietWorkerResult ==
  ASSUME PlaceInv, ResultInv, UNCHANGED clientVars, NEW t \in WorkerIds,
         SendCommand(t) \/ ReceiveReply(t) \/ DeleteClient(t) \/ ReturnServer(t)
  PROVE  ResultInv'
<1>1. UNCHANGED <<mainPc, currentClient, process, ClientsocketMtx>>
  BY DEF SendCommand, ReceiveReply, DeleteClient, ReturnServer
<1>2. ObjectsKept
  <2>1. CASE DeleteClient(t)
    BY <2>1, DeletedKept
  <2>2. CASE ~DeleteClient(t)
    <3>1. UNCHANGED clientObj
      BY <2>2 DEF SendCommand, ReceiveReply, ReturnServer
    <3> QED BY <3>1, IdsSame DEF ObjectsKept
  <2> QED BY <2>1, <2>2
<1>3. PICK pc : /\ Moved(t, pc) /\ workers'[t].process = workers[t].process
                /\ pc \in Early => workers[t].pc \in Early
                /\ pc \in Late => workers[t].pc \in Late
  <2>1. CASE ReceiveReply(t)
    <3>1. PICK b : workers' = [workers EXCEPT ![t].pc = "lock", ![t].exeResult = b]
      BY <2>1 DEF ReceiveReply
    <3>2. workers[t].pc = "reply" /\ Moved(t, "lock") /\ workers'[t].process = workers[t].process
      BY <2>1, <3>1, RepliedMoves, RepliedTask
    <3> QED BY <3>2 DEF Early, Late
  <2>2. CASE ~ReceiveReply(t)
    <3>1. PICK from, to : /\ WorkerGoto(t, from, to)
                          /\ to \in Early => from \in Early
                          /\ to \in Late => from \in Late
      BY <2>2 DEF SendCommand, DeleteClient, ReturnServer, Early, Late
    <3>2. workers[t].pc = from /\ Moved(t, to) /\ workers'[t].process = workers[t].process
      BY <3>1, Goes, KeepsTask
    <3> QED BY <3>1, <3>2
  <2> QED BY <2>1, <2>2
<1>4. TasksKept /\ StagesKept
  BY <1>3 DEF Moved, TasksKept, StagesKept
<1>5. MainKept
  BY <1>1 DEF MainKept
<1> QED BY <1>1, <1>2, <1>4, <1>5, WorkerQuietly, QuietSameIsLost, ResultKept

-----------------------------------------------------------------------------
(* The steps of a client.                                                  *)

LEMMA HolderOwner ==
  ASSUME PlaceInv, Owned, ClientsocketMtx # 0
  PROVE  /\ ClientsocketMtx \in WorkerIds /\ Holder.client \in ClientProcs
         /\ Holder \in CommandsOf(Holder.client)
         /\ Owner(workers[ClientsocketMtx].client, Holder.client)
<1>1. ClientsocketMtx \in WorkerIds
  BY WorkersAre
<1> QED BY <1>1, TaskOwner DEF Holder

\* A step of client c passes no command on, unless it asks.
LEMMA ClientOwns ==
  ASSUME PlaceInv, Requesting, Owned, CommandsOnce, UNCHANGED <<managerVars, clientPort>>,
         NEW c \in ClientProcs, ~Requested(c),
         \A d \in ClientProcs : d # c => clientPc'[d] = clientPc[d],
         clientPc'[c] \in {"off", "noPort"} => clientPc[c] \in {"off", "noPort"},
         net'[ClientReceivePort] = net[ClientReceivePort],
         \A d \in ClientProcs : d # c /\ ClientRunning(d) => net'[clientPort[d]] = net[clientPort[d]]
  PROVE  Requesting' /\ Owned' /\ CommandsOnce'
<1>1. TasksKept /\ ObjectsKept /\ MainKept
  BY ManagerRests DEF managerVars
<1>2. Fewer(net'[ClientReceivePort], net[ClientReceivePort])
  BY FewerSame
<1>3. Requesting'
  <2>1. ASSUME NEW d \in ClientProcs, Requested(d)
        PROVE  clientPc'[d] = clientPc[d] /\ (Inbox(clientPort[d]) = {} => Inbox(clientPort[d])' = {})
    <3>1. d # c /\ ClientRunning(d)
      BY <2>1, RequestedWaits DEF ClientRunning
    <3> QED BY <3>1 DEF Inbox
  <2> QED BY <1>2, <2>1, RequestingKept
<1>4. Owned'
  BY <1>1, <1>2, RequestedBefore, OwnedKept
<1>5. CommandsOnce'
  BY <1>1, CommandsKept
<1> QED BY <1>3, <1>4, <1>5

\* Client c, or the manager for it, goes on, and no result is taken or
\* acknowledged.
LEMMA ClientGoesOn ==
  ASSUME PlaceInv, Owned, Deliveries, PrintOnce,
         UNCHANGED <<workers, ClientsocketMtx, results>>,
         NEW c \in ClientProcs, clientPc[c] # "ack", clientPc'[c] \notin {"ack", "done"},
         \A d \in ClientProcs : d # c => clientPc'[d] = clientPc[d] /\ clientPort'[d] = clientPort[d],
         clientPort'[c] = clientPort[c] \/ clientPc[c] = "off",
         \A d \in ClientProcs : d # c /\ ClientRunning(d) => net'[clientPort[d]] = net[clientPort[d]],
         net'[WaitPort] = net[WaitPort],
         ClientRunning(c)' => Receiving(c)'
  PROVE  Deliveries' /\ PrintOnce'
<1>1. UNCHANGED <<workers, ClientsocketMtx>> /\ Holder' = Holder /\ WorkerIds' = WorkerIds
  BY IdsSame DEF Holder
<1>2. Printed(Holder)' = Printed(Holder) /\ Inbox(WaitPort)' = Inbox(WaitPort)
  BY <1>1 DEF Printed, Inbox
<1>3. Silent => Silent'
  BY <1>2 DEF Silent
<1>4. ASSUME NEW d \in ClientProcs, ClientRunning(d)' PROVE Receiving(d)'
  <2>1. CASE d = c
    BY <1>4, <2>1
  <2>2. CASE d # c
    <3>1. ClientRunning(d) /\ Receiving(d)
      BY <1>4, <2>2 DEF ClientRunning, Deliveries
    <3> QED BY <1>1, <1>3, <2>2, <3>1, FewerSame, ReceivingKept
  <2> QED BY <2>1, <2>2
<1>5. \A d \in ClientProcs : Acknowledging(d)'
  <2> SUFFICES ASSUME NEW d \in ClientProcs, clientPc'[d] = "ack"
               PROVE  /\ ClientsocketMtx' # 0 /\ Holder'.client = d
                      /\ Printed(Holder)' /\ Inbox(WaitPort)' = {}
    BY DEF Acknowledging
  <2>1. clientPc[d] = "ack"
    OBVIOUS
  <2> QED BY <1>1, <1>2, <2>1 DEF Deliveries, Acknowledging
<1>6. Acknowledged'
  <2>1. ClientsocketMtx # 0 => clientPort'[Holder.client] = clientPort[Holder.client]
    BY HolderOwner DEF Owner
  <2> QED BY <1>1, <1>2, <2>1 DEF Deliveries, Acknowledged
<1>7. PrintOnce'
  <2>1. /\ \A e : Printed(e)' = Printed(e)
        /\ \A d \in ClientProcs : clientPc'[d] = "done" => clientPc[d] = "done"
    BY DEF Printed
  <2>2. \A t \in WorkerIds' : /\ workers'[t].pc \in Early => ~Printed(workers[t].process)'
                              /\ workers'[t].pc \in Late => Printed(workers[t].process)'
    BY <1>1 DEF PrintOnce, Printed
  <2>3. \A d \in ClientProcs : \A i \in 1..Len(results'[d]) : \E t \in WorkerIds' :
          workers'[t].process.client = d /\ results'[d][i] = Output(workers'[t].process)
    BY <1>1 DEF PrintOnce
  <2>4. \A d \in ClientProcs : clientPc'[d] = "done" => \A e \in CommandsOf(d) : Printed(e)'
    BY <2>1 DEF PrintOnce
  <2>5. \A d \in ClientProcs : \A i, j \in 1..Len(results'[d]) :
          results'[d][i] = results'[d][j] => i = j
    BY DEF PrintOnce
  <2> QED BY <2>2, <2>3, <2>4, <2>5 DEF PrintOnce
<1> QED BY <1>4, <1>5, <1>6, <1>7 DEF Deliveries

LEMMA StartResult ==
  ASSUME PlaceInv, ResultInv, UNCHANGED managerVars, NEW c \in ClientProcs, StartClient(c)
  PROVE  ResultInv'
<1>1. Requesting' /\ Owned' /\ CommandsOnce'
  BY StartAsks DEF ResultInv
<1>2. PICK p : /\ p \notin DOMAIN net /\ p # ClientReceivePort /\ p # WaitPort
               /\ clientPc[c] = "off" /\ clientPc'[c] = "handshake"
               /\ \A d \in ClientProcs : d # c => clientPc'[d] = clientPc[d]
               /\ \A d \in ClientProcs : d # c => clientPort'[d] = clientPort[d]
               /\ clientPort'[c] = p
               /\ net'[p] = << >>
               /\ \A q \in DOMAIN net : q # ClientReceivePort => net'[q] = net[q]
  BY StartedAsks
<1>3. UNCHANGED results /\ clientTimer' = [clientTimer EXCEPT ![c] = "asleep"]
  BY DEF StartClient
<1>4. clientTimer \in [ClientProcs -> {"off", "asleep", "expired"}]
  BY DEF PlaceInv, ClientInv, ClientTypeOK
<1>5. ClientsUp'
  BY <1>2, <1>3, <1>4 DEF ResultInv, ClientsUp
<1>6. Receiving(c)'
  BY <1>2 DEF Receiving, Inbox
<1>7. \A d \in ClientProcs : ClientRunning(d) => net'[clientPort[d]] = net[clientPort[d]]
  BY <1>2, ClientSockets
<1>8. net'[WaitPort] = net[WaitPort]
  BY <1>2, ClientSockets
<1>9. Deliveries' /\ PrintOnce'
  BY <1>2, <1>3, <1>6, <1>7, <1>8, ClientGoesOn DEF ResultInv, managerVars
<1> QED BY <1>1, <1>5, <1>9 DEF ResultInv

\* Client c goes from one place to another.
LEMMA ClientGoes ==
  ASSUME PlaceInv, NEW c \in ClientProcs, NEW from, NEW to, ClientGoto(c, from, to)
  PROVE  /\ clientPc[c] = from /\ clientPc'[c] = to
         /\ \A d \in ClientProcs : d # c => clientPc'[d] = clientPc[d]
BY DEF ClientGoto, PlaceInv, ClientInv, ClientTypeOK

LEMMA QuietClientResult ==
  ASSUME PlaceInv, ResultInv, UNCHANGED managerVars, NEW c \in ClientProcs,
         ClientFindsNoPort(c) \/ StopClientTimer(c)
  PROVE  ResultInv'
<1>1. UNCHANGED <<net, results, clientPort, clientTimer>>
  BY DEF ClientFindsNoPort, StopClientTimer, netVars
<1>2. PICK from, to : /\ ClientGoto(c, from, to)
                      /\ \/ from = "off" /\ to = "noPort"
                         \/ from = "answered" /\ to = "receive"
  BY DEF ClientFindsNoPort, StopClientTimer
<1>3. /\ clientPc[c] = from /\ clientPc'[c] = to
      /\ \A d \in ClientProcs : d # c => clientPc'[d] = clientPc[d]
  BY <1>2, ClientGoes
<1>4. ClientsUp'
  BY <1>1, <1>2, <1>3 DEF ResultInv, ClientsUp
<1>5. ~Requested(c)
  BY <1>2, <1>3, RequestedWaits DEF ResultInv
<1>6. Requesting' /\ Owned' /\ CommandsOnce'
  BY <1>1, <1>2, <1>3, <1>5, ClientOwns DEF ResultInv
<1>7. ClientRunning(c)' => Receiving(c)'
  <2> SUFFICES ASSUME ClientRunning(c)' PROVE Receiving(c)'
    OBVIOUS
  <2>1. ClientRunning(c) /\ clientPc[c] # "handshake" /\ clientPc'[c] # "ack"
    BY <1>2, <1>3 DEF ClientRunning
  <2>2. Receiving(c)
    BY <2>1 DEF ResultInv, Deliveries
  <2>3. UNCHANGED ClientsocketMtx /\ Holder' = Holder
    BY DEF managerVars, Holder
  <2>4. Silent => Silent'
    BY <1>1, <1>3, <2>1 DEF Silent, Inbox
  <2> QED BY <1>1, <2>1, <2>2, <2>3, <2>4, FewerSame, ReceivingKept
<1>8. Deliveries' /\ PrintOnce'
  BY <1>1, <1>2, <1>3, <1>7, ClientGoesOn DEF ResultInv, managerVars
<1> QED BY <1>4, <1>6, <1>8 DEF ResultInv

\* The handshake takes the greeting, or the result when the greeting was lost.
LEMMA HandshakeResult ==
  ASSUME PlaceInv, ResultInv, OnlyLoss, UNCHANGED managerVars,
         NEW c \in ClientProcs, ClientHandshake(c)
  PROVE  ResultInv'
<1>1. PICK p, N : p = clientPort[c] /\ N = net[p]
  OBVIOUS
<1>2. /\ clientPc[c] = "handshake" /\ clientPc'[c] = "answered"
      /\ \A d \in ClientProcs : d # c => clientPc'[d] = clientPc[d]
      /\ UNCHANGED <<results, clientPort, clientTimer>>
  BY ClientGoes DEF ClientHandshake
<1>3. ClientRunning(c) /\ p \in DOMAIN net /\ p # ClientReceivePort /\ p # WaitPort
  BY <1>1, <1>2, ClientSockets DEF ClientRunning
<1>4. 1 \in Inbox(p) /\ net' = Taken(p, 1)
  BY <1>1, LossAndNoKills, FirstArrives DEF ClientHandshake
<1>5. \A q \in DOMAIN net : q # p => net'[q] = net[q]
  BY <1>4, TakenElsewhere
<1>6. PICK M : M = net'[p]
  OBVIOUS
<1>7. \A j \in 1..Len(M) : M[j] = N[j + 1] /\ j + 1 \in 1..Len(N) /\ j + 1 # 1
  BY <1>1, <1>3, <1>4, <1>6, FirstTaken DEF Inbox
<1>8. /\ net'[ClientReceivePort] = net[ClientReceivePort] /\ net'[WaitPort] = net[WaitPort]
      /\ \A d \in ClientProcs : d # c /\ ClientRunning(d) => net'[clientPort[d]] = net[clientPort[d]]
  BY <1>1, <1>3, <1>5, ClientSockets
<1>9. ClientsUp'
  BY <1>2 DEF ResultInv, ClientsUp
<1>10. ~Requested(c)
  BY <1>1, <1>4, RequestedWaits DEF ResultInv
<1>11. Requesting' /\ Owned' /\ CommandsOnce'
  BY <1>2, <1>8, <1>10, ClientOwns DEF ResultInv
<1>12. Receiving(c)'
  <2>1. /\ \A i \in 1..Len(N) : \/ i = 1
                                \/ /\ ClientsocketMtx # 0 /\ Holder.client = c
                                   /\ N[i].body = Output(Holder) /\ ~Printed(Holder) /\ Silent
        /\ \A i, j \in 1..Len(N) : N[i].body = N[j].body => i = j
    BY <1>1, <1>3 DEF ResultInv, Deliveries, Receiving, Greeting, Result, Inbox
  <2>2. UNCHANGED ClientsocketMtx /\ Holder' = Holder
    BY DEF managerVars, Holder
  <2>3. Silent => Silent'
    BY <1>2, <1>8 DEF Silent, Inbox
  <2>4. Printed(Holder)' = Printed(Holder) /\ Output(Holder)' = Output(Holder)
    BY <1>2, <2>2 DEF Printed, Output
  <2>5. \A i \in 1..Len(M) : /\ ClientsocketMtx' # 0 /\ Holder'.client = c
                             /\ M[i].body = Output(Holder)' /\ ~Printed(Holder)' /\ Silent'
    <3> SUFFICES ASSUME NEW i \in 1..Len(M)
                 PROVE  /\ ClientsocketMtx' # 0 /\ Holder'.client = c
                        /\ M[i].body = Output(Holder)' /\ ~Printed(Holder)' /\ Silent'
      OBVIOUS
    <3>1. PICK n \in 1..Len(N) : M[i] = N[n] /\ n # 1
      BY <1>7
    <3> QED BY <2>1, <2>2, <2>3, <2>4, <3>1
  <2>6. \A i, j \in 1..Len(M) : M[i].body = M[j].body => i = j
    <3>1. \A i, j \in 1..Len(M) : M[i].body = M[j].body => i + 1 = j + 1
      BY <1>7, <2>1
    <3>2. \A i, j \in 1..Len(M) : i + 1 = j + 1 => i = j
      OBVIOUS
    <3> QED BY <3>1, <3>2
  <2>7. clientPort'[c] = p /\ Inbox(clientPort[c])' = 1..Len(M)
    BY <1>1, <1>2, <1>6 DEF Inbox
  <2> QED BY <1>6, <2>5, <2>6, <2>7 DEF Receiving, Result
<1>13. Deliveries' /\ PrintOnce'
  BY <1>2, <1>8, <1>12, ClientGoesOn DEF ResultInv, managerVars
<1> QED BY <1>9, <1>11, <1>13 DEF ResultInv

\* What was received before a step that is not about client d.
LEMMA GreetingKept ==
  ASSUME NEW d, Receiving(d), ClientsocketMtx = 0 \/ Holder.client # d \/ ~Silent,
         clientPort'[d] = clientPort[d], clientPc'[d] = clientPc[d],
         net'[clientPort[d]] = net[clientPort[d]]
  PROVE  Receiving(d)'
<1>1. PICK p, N : p = clientPort[d] /\ N = net[p]
  OBVIOUS
<1>2. /\ \A i \in 1..Len(N) : N[i].body = ClientInitialized /\ i = 1 /\ clientPc[d] = "handshake"
      /\ \A i, j \in 1..Len(N) : N[i].body = N[j].body => i = j
  BY <1>1 DEF Receiving, Greeting, Result, Inbox
<1>3. clientPort'[d] = p /\ net'[p] = N /\ Inbox(clientPort[d])' = 1..Len(N)
  BY <1>1 DEF Inbox
<1> QED BY <1>2, <1>3 DEF Receiving, Greeting

LEMMA OneMorePrinted ==
  ASSUME PlaceInv, Owned, NEW c \in ClientProcs, NEW e, e.client = c,
         results' = [results EXCEPT ![c] = Append(@, Output(e))]
  PROVE  /\ Grown(results'[c], results[c], Output(e))
         /\ \A d \in ClientProcs : d # c => results'[d] = results[d]
         /\ \A b : b.client \in ClientProcs => (Printed(b)' <=> Printed(b) \/ b = e)
<1>1. results \in [ClientProcs -> Seq(Bodies)]
  BY DEF PlaceInv, ClientInv, ClientTypeOK
<1>2. results'[c] = Append(results[c], Output(e)) /\ \A d \in ClientProcs : d # c => results'[d] = results[d]
  BY <1>1
<1>3. results[c] \in Seq(Bodies)
  BY <1>1
<1>4. Grown(results'[c], results[c], Output(e))
  BY <1>2, <1>3, AppendGrows
<1>5. PICK Q, R : Q = results'[c] /\ R = results[c]
  OBVIOUS
<1>6. Elements(Q) = Elements(R) \cup {Output(e)}
  BY <1>4, <1>5 DEF Grown, Elements
<1>7. ASSUME NEW b, b.client \in ClientProcs
      PROVE  Printed(b)' <=> Printed(b) \/ b = e
  <2>1. CASE b.client = c
    <3>1. Printed(b)' <=> Output(b) \in Elements(Q)
      BY <1>5, <2>1 DEF Printed, Elements
    <3>2. Printed(b) <=> Output(b) \in Elements(R)
      BY <1>5, <2>1 DEF Printed
    <3> QED BY <1>6, <3>1, <3>2, OutputsDiffer
  <2>2. CASE b.client # c
    <3>1. results'[b.client] = results[b.client] /\ b # e
      BY <1>2, <1>7, <2>2
    <3>2. Printed(b)' <=> Printed(b)
      BY <3>1 DEF Printed, Elements
    <3> QED BY <3>1, <3>2
  <2> QED BY <2>1, <2>2
<1> QED BY <1>2, <1>4, <1>7

\* The client takes the holder's result and prints it.
LEMMA ReceiveResultOnce ==
  ASSUME PlaceInv, ResultInv, OneSender, OnlyLoss, UNCHANGED managerVars,
         NEW c \in ClientProcs, ReceiveResult(c)
  PROVE  ResultInv'
<1>1. PICK p, N : p = clientPort[c] /\ N = net[p]
  OBVIOUS
<1>2. /\ clientPc[c] = "receive" /\ clientPc'[c] = "ack"
      /\ \A d \in ClientProcs : d # c => clientPc'[d] = clientPc[d]
      /\ UNCHANGED <<clientPort, clientTimer>>
  BY ClientGoes DEF ReceiveResult
<1>3. ClientRunning(c) /\ p \in DOMAIN net /\ p # ClientReceivePort /\ p # WaitPort
  BY <1>1, <1>2, ClientSockets DEF ClientRunning
<1>4. /\ 1 \in Inbox(p) /\ net' = Taken(p, 1)
      /\ results' = [results EXCEPT ![c] = Append(@, N[1].body)]
  BY <1>1, LossAndNoKills, FirstArrives DEF ReceiveResult
<1>5. \A q \in DOMAIN net : q # p => net'[q] = net[q]
  BY <1>4, TakenElsewhere
<1>6. Receiving(c)
  BY <1>3 DEF ResultInv, Deliveries
<1>7. \A i \in 1..Len(N) : /\ ClientsocketMtx # 0 /\ Holder.client = c
                           /\ N[i].body = Output(Holder) /\ ~Printed(Holder) /\ Silent
  BY <1>1, <1>2, <1>6 DEF Receiving, Greeting, Result, Inbox
<1>8. 1 \in 1..Len(N)
  BY <1>1, <1>4 DEF Inbox
<1>9. /\ ClientsocketMtx # 0 /\ Holder.client = c /\ N[1].body = Output(Holder)
      /\ ~Printed(Holder) /\ Silent
  BY <1>7, <1>8
<1>10. Inbox(p) = {1} /\ 1..Len(net'[p]) = {}
  <2>1. \A i, j \in 1..Len(N) : N[i].body = N[j].body => i = j
    BY <1>1, <1>6 DEF Receiving, Inbox
  <2>2. Inbox(p) = {1}
    BY <1>1, <1>7, <1>8, <2>1 DEF Inbox
  <2> QED BY <1>3, <1>4, <2>2, FirstTaken
<1>11. /\ net'[ClientReceivePort] = net[ClientReceivePort] /\ net'[WaitPort] = net[WaitPort]
       /\ \A d \in ClientProcs : d # c /\ ClientRunning(d) => net'[clientPort[d]] = net[clientPort[d]]
  BY <1>1, <1>3, <1>5, ClientSockets
<1>12. ClientsUp'
  BY <1>2 DEF ResultInv, ClientsUp
<1>13. ~Requested(c)
  BY <1>2, RequestedWaits DEF ResultInv
<1>14. Requesting' /\ Owned' /\ CommandsOnce'
  BY <1>2, <1>11, <1>13, ClientOwns DEF ResultInv
<1>15. UNCHANGED <<workers, ClientsocketMtx>> /\ Holder' = Holder /\ WorkerIds' = WorkerIds
  BY IdsSame DEF managerVars, Holder
<1>16. /\ Grown(results'[c], results[c], Output(Holder))
       /\ \A d \in ClientProcs : d # c => results'[d] = results[d]
       /\ \A b : b.client \in ClientProcs => (Printed(b)' <=> Printed(b) \/ b = Holder)
  BY <1>4, <1>9, OneMorePrinted DEF ResultInv
<1>17. Printed(Holder)'
  <2>1. PICK e : e = Holder /\ e.client \in ClientProcs
    BY <1>9
  <2>2. Output(e) \in Elements(results'[c])
    <3>1. PICK Q, R : Q = results'[c] /\ R = results[c]
      OBVIOUS
    <3>2. Grown(Q, R, Output(e))
      BY <1>16, <2>1, <3>1
    <3>3. Output(e) \in Elements(Q)
      BY <3>2 DEF Grown, Elements
    <3> QED BY <3>1, <3>3
  <2> QED BY <1>9, <1>15, <2>1, <2>2 DEF Printed, Elements, Output
<1>18. Inbox(WaitPort)' = {}
  BY <1>9, <1>11 DEF Silent, Inbox
<1>19. ASSUME NEW d \in ClientProcs, ClientRunning(d)' PROVE Receiving(d)'
  <2>1. CASE d = c
    <3>1. Inbox(clientPort[d])' = {}
      BY <1>1, <1>2, <1>10, <2>1 DEF Inbox
    <3> QED BY <3>1 DEF Receiving
  <2>2. CASE d # c
    <3>1. ClientRunning(d) /\ Receiving(d)
      BY <1>2, <1>19, <2>2 DEF ClientRunning, ResultInv, Deliveries
    <3> QED BY <1>2, <1>9, <1>11, <2>2, <3>1, GreetingKept
  <2> QED BY <2>1, <2>2
<1>20. \A d \in ClientProcs : Acknowledging(d)'
  <2>1. \A d \in ClientProcs : clientPc'[d] = "ack" => d = c
    BY <1>2, <1>9 DEF Silent
  <2> QED BY <1>9, <1>15, <1>17, <1>18, <2>1 DEF Acknowledging
<1>21. Acknowledged'
  BY <1>18 DEF Acknowledged
<1>22. PrintOnce'
  <2>1. \A t \in WorkerIds : workers[t].process.client \in ClientProcs
    BY TaskOwner DEF ResultInv
  <2>2. ClientsocketMtx \in WorkerIds /\ workers[ClientsocketMtx].pc = "ack"
    BY <1>9, HolderOwner DEF ResultInv, OneSender
  <2>3. ASSUME NEW t \in WorkerIds
        PROVE  /\ workers[t].pc \in Early => ~Printed(workers[t].process)'
               /\ workers[t].pc \in Late => Printed(workers[t].process)'
    <3>1. PICK e : e = workers[t].process
      OBVIOUS
    <3>2. workers[t].pc \in Early => e # Holder
      BY <2>2, <3>1 DEF ResultInv, CommandsOnce, Holder, Early
    <3>3. Printed(e)' <=> Printed(e) \/ e = Holder
      BY <1>16, <2>1, <3>1
    <3>4. Printed(workers[t].process)' <=> Printed(e)'
      BY <1>15, <3>1 DEF Printed
    <3> QED BY <3>1, <3>2, <3>3, <3>4 DEF ResultInv, PrintOnce
  <2>4. \A t \in WorkerIds' : /\ workers'[t].pc \in Early => ~Printed(workers[t].process)'
                              /\ workers'[t].pc \in Late => Printed(workers[t].process)'
    BY <1>15, <2>3
  <2>5. PICK last : /\ 1..Len(results'[c]) = 1..Len(results[c]) \cup {last}
                    /\ results'[c][last] = Output(Holder)
                    /\ \A i \in 1..Len(results[c]) : results'[c][i] = results[c][i]
    BY <1>16 DEF Grown
  <2>6. ASSUME NEW d \in ClientProcs, NEW i \in 1..Len(results'[d])
        PROVE  \E t \in WorkerIds' :
                 workers'[t].process.client = d /\ results'[d][i] = Output(workers'[t].process)
    <3>1. CASE i \in 1..Len(results[d]) /\ results'[d][i] = results[d][i]
      <4>1. PICK t \in WorkerIds :
              workers[t].process.client = d /\ results[d][i] = Output(workers[t].process)
        BY <3>1 DEF ResultInv, PrintOnce
      <4> QED BY <1>15, <3>1, <4>1
    <3>2. CASE d = c /\ i = last
      BY <1>9, <1>15, <2>2, <2>5, <3>2 DEF Holder
    <3> QED BY <1>16, <2>5, <2>6, <3>1, <3>2
  <2>7. ASSUME NEW d \in ClientProcs, NEW i \in 1..Len(results'[d]), NEW j \in 1..Len(results'[d]),
               results'[d][i] = results'[d][j]
        PROVE  i = j
    <3>1. CASE d # c
      <4>1. results'[d] = results[d]
        BY <1>16, <3>1
      <4> QED BY <2>7, <4>1 DEF ResultInv, PrintOnce
    <3>2. CASE d = c
      <4>1. \A n \in 1..Len(results[c]) : results[c][n] # Output(Holder)
        BY <1>9 DEF Printed, Elements
      <4>2. \A m, n \in 1..Len(results[c]) : results[c][m] = results[c][n] => m = n
        BY DEF ResultInv, PrintOnce
      <4> QED BY <2>5, <2>7, <3>2, <4>1, <4>2
    <3> QED BY <3>1, <3>2
  <2>8. \A d \in ClientProcs : clientPc'[d] = "done" => \A e \in CommandsOf(d) : Printed(e)'
    <3> SUFFICES ASSUME NEW d \in ClientProcs, clientPc'[d] = "done", NEW e \in CommandsOf(d)
                 PROVE  Printed(e)'
      OBVIOUS
    <3>1. clientPc[d] = "done" /\ e.client \in ClientProcs
      BY <1>2, CommandClient
    <3>2. Printed(e)
      BY <3>1 DEF ResultInv, PrintOnce
    <3> QED BY <1>16, <3>1, <3>2
  <2> QED BY <2>4, <2>6, <2>7, <2>8 DEF PrintOnce
<1> QED BY <1>12, <1>14, <1>19, <1>20, <1>21, <1>22 DEF ResultInv, Deliveries

LEMMA Onto ==
  ASSUME NEW n \in Nat, NEW m \in Nat, ~(n < m), NEW f \in [1..n -> 1..m],
         \A i, j \in 1..n : f[i] = f[j] => i = j
  PROVE  \A k \in 1..m : \E i \in 1..n : f[i] = k
<1>1. f \in Injection(1..n, 1..m)
  BY DEF Injection, IsInjective
<1>2. /\ IsFiniteSet(1..n) /\ Cardinality(1..n) = n
      /\ IsFiniteSet(1..m) /\ Cardinality(1..m) = m
  BY FS_Interval
<1>3. n <= m /\ (n = m => f \in Surjection(1..n, 1..m))
  BY <1>1, <1>2, FS_Injection
<1> QED BY <1>3 DEF Surjection

\* As many different results as commands are the results of all of them.
LEMMA AllPrinted ==
  ASSUME PlaceInv, Owned, PrintOnce, NEW c \in ClientProcs, ~(Len(results[c]) < NumCommands[c])
  PROVE  \A e \in CommandsOf(c) : Printed(e)
<1>1. PICK R, n, m : R = results[c] /\ n = Len(R) /\ m = NumCommands[c]
  OBVIOUS
<1>2. R \in Seq(Bodies) /\ n \in Nat /\ m \in Nat
  BY <1>1, NetworkAssumption, LenProperties DEF PlaceInv, ClientInv, ClientTypeOK
<1>3. \A i \in 1..n : \E k \in 1..m : R[i] = Output(Command(c, k))
  <2> SUFFICES ASSUME NEW i \in 1..n PROVE \E k \in 1..m : R[i] = Output(Command(c, k))
    OBVIOUS
  <2>1. PICK t \in WorkerIds : workers[t].process.client = c /\ R[i] = Output(workers[t].process)
    BY <1>1 DEF PrintOnce
  <2>2. workers[t].process \in CommandsOf(c)
    BY <2>1, TaskOwner
  <2> QED BY <1>1, <2>1, <2>2 DEF CommandsOf
<1> DEFINE f == [i \in 1..n |-> CHOOSE k \in 1..m : R[i] = Output(Command(c, k))]
<1>4. f \in [1..n -> 1..m] /\ \A i \in 1..n : R[i] = Output(Command(c, f[i]))
  BY <1>3
<1>5. \A i, j \in 1..n : R[i] = R[j] => i = j
  BY <1>1 DEF PrintOnce
<1> HIDE DEF f
<1>6. ASSUME NEW i \in 1..n, NEW j \in 1..n, f[i] = f[j] PROVE i = j
  <2>1. R[i] = Output(Command(c, f[i])) /\ R[j] = Output(Command(c, f[j]))
    BY <1>4
  <2>2. R[i] = R[j]
    BY <1>6, <2>1
  <2> QED BY <1>5, <2>2
<1>7. \A k \in 1..m : \E i \in 1..n : f[i] = k
  <2>1. ~(n < m) /\ f \in [1..n -> 1..m]
    BY <1>1, <1>4
  <2>2. \A i, j \in 1..n : f[i] = f[j] => i = j
    BY <1>6
  <2> HIDE DEF f
  <2> QED BY <1>2, <2>1, <2>2, Onto
<1>8. \A k \in 1..m : Output(Command(c, k)) \in Elements(R)
  BY <1>1, <1>4, <1>7 DEF Elements
<1> QED BY <1>1, <1>8, CommandClient DEF Printed, CommandsOf

\* The acknowledgement is on its way; the client goes on, or ends.
LEMMA AcknowledgeResult ==
  ASSUME PlaceInv, ResultInv, UNCHANGED managerVars, NEW c \in ClientProcs, Acknowledge(c)
  PROVE  ResultInv'
<1>1. PICK p, acked : p = clientPort[c] /\ acked = Sent(net, p, WaitPort, NextResult)
  OBVIOUS
<1>2. PICK to : /\ ClientGoto(c, "ack", to)
                /\ \/ to = "receive" /\ net' = acked
                   \/ /\ to = "done" /\ ~(Len(results[c]) < NumCommands[c])
                      /\ net' = Unbind(acked, {p})
  BY <1>1 DEF Acknowledge
<1>3. /\ clientPc[c] = "ack" /\ clientPc'[c] = to
      /\ \A d \in ClientProcs : d # c => clientPc'[d] = clientPc[d]
      /\ UNCHANGED <<results, clientPort, clientTimer>>
  BY <1>2, ClientGoes DEF Acknowledge
<1>4. /\ ClientRunning(c) /\ p \in DOMAIN net /\ p # ClientReceivePort /\ p # WaitPort
      /\ WaitPort \in DOMAIN net /\ ClientReceivePort \in DOMAIN net
      /\ ClientReceivePort # WaitPort
  BY <1>1, <1>3, ClientSockets DEF ClientRunning
<1>5. /\ \A q \in DOMAIN net : q # WaitPort => acked[q] = net[q]
      /\ DOMAIN acked = DOMAIN net
  BY <1>1, SentElsewhere DEF Sent
<1>6. /\ \A q \in DOMAIN net : q # p => net'[q] = acked[q]
      /\ to = "receive" => net'[p] = net[p]
  BY <1>2, <1>4, <1>5 DEF Unbind
<1>7. Grown(net'[WaitPort], net[WaitPort], [src |-> p, body |-> NextResult])
  <2>1. net[WaitPort] \in Seq(Expected(WaitPort))
    BY <1>4, InboxTyped
  <2>2. Grown(acked[WaitPort], net[WaitPort], [src |-> p, body |-> NextResult])
    BY <1>1, <1>4, <2>1, SentThere
  <2> QED BY <1>4, <1>6, <2>2
<1>8. /\ ClientsocketMtx # 0 /\ Holder.client = c
      /\ Printed(Holder) /\ Inbox(WaitPort) = {} /\ ~Silent
  BY <1>3 DEF ResultInv, Deliveries, Acknowledging, Silent
<1>9. PICK M : M = net'[WaitPort]
  OBVIOUS
<1>10. 1..Len(M) = {1} /\ M[1].src = p
  BY <1>7, <1>8, <1>9 DEF Grown, Inbox
<1>11. /\ net'[ClientReceivePort] = net[ClientReceivePort]
       /\ \A d \in ClientProcs : d # c /\ ClientRunning(d) => net'[clientPort[d]] = net[clientPort[d]]
  BY <1>1, <1>4, <1>5, <1>6, ClientSockets
<1>12. ClientsUp'
  BY <1>2, <1>3 DEF ResultInv, ClientsUp
<1>13. ~Requested(c)
  BY <1>3, RequestedWaits DEF ResultInv
<1>14. Requesting' /\ Owned' /\ CommandsOnce'
  BY <1>2, <1>3, <1>11, <1>13, ClientOwns DEF ResultInv
<1>15. UNCHANGED <<workers, ClientsocketMtx>> /\ Holder' = Holder /\ WorkerIds' = WorkerIds
  BY IdsSame DEF managerVars, Holder
<1>16. Printed(Holder)'
  BY <1>3, <1>8, <1>15 DEF Printed
<1>17. ASSUME NEW d \in ClientProcs, ClientRunning(d)' PROVE Receiving(d)'
  <2>1. CASE d = c
    <3>1. to = "receive"
      BY <1>2, <1>3, <1>17, <2>1 DEF ClientRunning
    <3>2. Inbox(p) = {}
      BY <1>1, <1>3, <1>4, <1>8 DEF ResultInv, Deliveries, Receiving, Greeting, Result
    <3>3. Inbox(clientPort[d])' = {}
      BY <1>1, <1>3, <1>6, <2>1, <3>1, <3>2 DEF Inbox
    <3> QED BY <3>3 DEF Receiving
  <2>2. CASE d # c
    <3>1. ClientRunning(d) /\ Receiving(d)
      BY <1>3, <1>17, <2>2 DEF ClientRunning, ResultInv, Deliveries
    <3> QED BY <1>3, <1>8, <1>11, <2>2, <3>1, GreetingKept
  <2> QED BY <2>1, <2>2
<1>18. \A d \in ClientProcs : Acknowledging(d)'
  <2>1. \A d \in ClientProcs : clientPc'[d] # "ack"
    BY <1>2, <1>3, <1>8 DEF ResultInv, Deliveries, Acknowledging
  <2> QED BY <2>1 DEF Acknowledging
<1>19. Acknowledged'
  <2>1. \A i \in 1..Len(M) : i = 1 /\ M[i].src = p
    BY <1>10
  <2>2. clientPort'[Holder'.client] = p
    BY <1>1, <1>3, <1>8, <1>15
  <2> QED BY <1>8, <1>9, <1>15, <1>16, <2>1, <2>2 DEF Acknowledged, Inbox
<1>20. PrintOnce'
  <2>1. \A e : Printed(e)' = Printed(e)
    BY <1>3 DEF Printed
  <2>2. \A t \in WorkerIds' : /\ workers'[t].pc \in Early => ~Printed(workers[t].process)'
                              /\ workers'[t].pc \in Late => Printed(workers[t].process)'
    BY <1>3, <1>15 DEF ResultInv, PrintOnce, Printed
  <2>3. \A d \in ClientProcs : \A i \in 1..Len(results'[d]) : \E t \in WorkerIds' :
          workers'[t].process.client = d /\ results'[d][i] = Output(workers'[t].process)
    BY <1>3, <1>15 DEF ResultInv, PrintOnce
  <2>4. \A d \in ClientProcs : clientPc'[d] = "done" => \A e \in CommandsOf(d) : Printed(e)'
    <3> SUFFICES ASSUME NEW d \in ClientProcs, clientPc'[d] = "done"
                 PROVE  \A e \in CommandsOf(d) : Printed(e)
      BY <2>1
    <3>1. CASE d = c
      BY <1>2, <1>3, <3>1, AllPrinted DEF ResultInv
    <3>2. CASE d # c
      BY <1>3, <3>2 DEF ResultInv, PrintOnce
    <3> QED BY <3>1, <3>2
  <2>5. \A d \in ClientProcs : \A i, j \in 1..Len(results'[d]) :
          results'[d][i] = results'[d][j] => i = j
    BY <1>3 DEF ResultInv, PrintOnce
  <2> QED BY <1>15, <2>2, <2>3, <2>4, <2>5 DEF PrintOnce
<1> QED BY <1>12, <1>14, <1>17, <1>18, <1>19, <1>20 DEF ResultInv, Deliveries

\* A step of a client: none dies.
LEMMA ClientResult ==
  ASSUME PlaceInv, ResultInv, OneSender, OnlyLoss, UNCHANGED managerVars,
         NEW c \in ClientProcs, ClientNext(c)
  PROVE  ResultInv'
<1>1. ~ClientTimerReads(c) /\ ~ClientTimerExits(c) /\ ~KillClient(c)
  BY DEF OnlyLoss, ClientTimerReads, ClientTimerExits, KillClient, ResultInv, ClientsUp
<1> QED BY <1>1, StartResult, QuietClientResult, HandshakeResult, ReceiveResultOnce,
           AcknowledgeResult DEF ClientNext, ClientMain

-----------------------------------------------------------------------------
(* The steps of the load manager that the clients have a part in.          *)

LEMMA AcceptResult ==
  ASSUME PlaceInv, ResultInv, OnlyLoss, UNCHANGED clientVars, AcceptClient
  PROVE  ResultInv'
<1>1. Requesting' /\ Owned' /\ CommandsOnce'
  BY AcceptOwns DEF ResultInv
<1>2. PICK c \in ClientProcs :
        /\ clientPc[c] = "handshake"
        /\ clientPort[c] \in ClientZone \cap DOMAIN net /\ Inbox(clientPort[c]) = {}
        /\ 1 \in Inbox(ClientReceivePort)
        /\ net' = Sent(Taken(ClientReceivePort, 1), ClientReceivePort,
                       clientPort[c], ClientInitialized)
  BY RequestAccepted DEF ResultInv
<1>3. PICK p : p = clientPort[c]
  OBVIOUS
<1>4. /\ \A q \in DOMAIN net : q # ClientReceivePort /\ q # p => net'[q] = net[q]
      /\ Inbox(p)' = {1} /\ net'[p][1].body = ClientInitialized
  BY <1>2, <1>3, Answered
<1>5. UNCHANGED <<clientPc, clientTimer, clientPort, results, workers, ClientsocketMtx>>
  BY DEF AcceptClient, clientVars
<1>6. ClientsUp'
  BY <1>5 DEF ResultInv, ClientsUp
<1>7. Receiving(c)'
  <2>1. PICK M : M = net'[p]
    OBVIOUS
  <2>2. clientPort'[c] = p /\ clientPc'[c] = "handshake" /\ Inbox(clientPort[c])' = 1..Len(M)
    BY <1>2, <1>3, <1>5, <2>1 DEF Inbox
  <2>3. 1..Len(M) = {1} /\ M[1].body = ClientInitialized
    BY <1>4, <2>1 DEF Inbox
  <2> QED BY <2>1, <2>2, <2>3 DEF Receiving, Greeting
<1>8. /\ net'[WaitPort] = net[WaitPort]
      /\ \A d \in ClientProcs : d # c /\ ClientRunning(d) => net'[clientPort[d]] = net[clientPort[d]]
  <2>1. WaitPort \in DOMAIN net /\ WaitPort # ClientReceivePort /\ WaitPort # p
    BY <1>2, <1>3, ClientSockets
  <2>2. \A d \in ClientProcs : d # c /\ ClientRunning(d) =>
          clientPort[d] \in DOMAIN net /\ clientPort[d] # ClientReceivePort /\ clientPort[d] # p
    BY <1>2, <1>3, ClientSockets DEF ClientRunning
  <2> QED BY <1>4, <2>1, <2>2
<1>9. Deliveries' /\ PrintOnce'
  BY <1>2, <1>5, <1>7, <1>8, ClientGoesOn DEF ResultInv
<1> QED BY <1>1, <1>6, <1>9 DEF ResultInv

LEMMA PopResult ==
  ASSUME PlaceInv, ResultInv, UNCHANGED clientVars, PopProcess
  PROVE  ResultInv'
<1>1. UNCHANGED <<net, workers, ClientsocketMtx>>
  BY DEF PopProcess, netVars
<1>2. QuietLost
  BY <1>1, QuietSameIsLost DEF QuietSame
<1>3. StagesKept /\ Holder' = Holder
  BY <1>1, IdsSame DEF StagesKept, Holder
<1>4. ClientsUp'
  BY DEF ResultInv, ClientsUp, clientVars
<1> QED BY <1>1, <1>2, <1>3, <1>4, PopOwns, RequestingQuietly, DeliveriesKept, PrintKept
        DEF ResultInv

\* The command of a new worker has not been printed: the results are of the
\* commands of other workers.
LEMMA DispatchResult ==
  ASSUME PlaceInv, ResultInv, UNCHANGED clientVars, Dispatch
  PROVE  ResultInv'
<1>1. PICK n : /\ n \notin WorkerIds /\ n # 0
               /\ WorkerIds' = WorkerIds \cup {n}
               /\ \A u \in WorkerIds : workers'[u] = workers[u]
               /\ workers'[n].pc = "send"
               /\ workers'[n].process = process
  BY TaskAdded
<1>2. UNCHANGED <<net, ClientsocketMtx, clientPc, results>> /\ mainPc = "dispatch"
  BY DEF Dispatch, netVars, clientVars
<1>3. QuietLost
  BY <1>2, QuietSameIsLost DEF QuietSame
<1>4. ClientsocketMtx # 0 => Holder' = Holder
  BY <1>1, <1>2, WorkersAre DEF Holder
<1>5. ClientsUp'
  BY DEF ResultInv, ClientsUp, clientVars
<1>6. ~Printed(process)
  <2> SUFFICES ASSUME Printed(process) PROVE FALSE
    OBVIOUS
  <2>1. PICK c : c = process.client
    OBVIOUS
  <2>2. c \in ClientProcs
    <3>1. process \in Commands
      BY <1>2 DEF PlaceInv, ManagerInv, MainOK
    <3> QED BY <2>1, <3>1, CommandClient DEF Commands
  <2>3. PICK i \in 1..Len(results[c]) : results[c][i] = Output(process)
    BY <2>1 DEF Printed, Elements
  <2>4. PICK t \in WorkerIds : results[c][i] = Output(workers[t].process)
    BY <2>2 DEF ResultInv, PrintOnce
  <2>5. workers[t].process = process
    BY <2>3, <2>4, OutputsDiffer
  <2> QED BY <1>2, <2>5 DEF ResultInv, CommandsOnce
<1>7. PrintOnce'
  <2>1. \A e : Printed(e)' = Printed(e)
    BY <1>2 DEF Printed
  <2>2. ASSUME NEW t \in WorkerIds'
        PROVE  /\ workers'[t].pc \in Early => ~Printed(workers'[t].process)
               /\ workers'[t].pc \in Late => Printed(workers'[t].process)
    <3>1. CASE t \in WorkerIds
      BY <1>1, <3>1 DEF ResultInv, PrintOnce
    <3>2. CASE t = n
      BY <1>1, <1>6, <3>2 DEF Late
    <3> QED BY <1>1, <3>1, <3>2
  <2>3. \A t \in WorkerIds' : /\ workers'[t].pc \in Early => Output(workers'[t].process) \notin Elements(results'[workers'[t].process.client])
                              /\ workers'[t].pc \in Late => Output(workers'[t].process) \in Elements(results'[workers'[t].process.client])
    BY <1>2, <2>2 DEF Printed
  <2>4. \A d \in ClientProcs : \A i \in 1..Len(results'[d]) : \E t \in WorkerIds' :
          workers'[t].process.client = d /\ results'[d][i] = Output(workers'[t].process)
    <3> SUFFICES ASSUME NEW d \in ClientProcs, NEW i \in 1..Len(results[d])
                 PROVE  \E t \in WorkerIds' :
                          workers'[t].process.client = d /\ results[d][i] = Output(workers'[t].process)
      BY <1>2
    <3>1. PICK t \in WorkerIds :
            workers[t].process.client = d /\ results[d][i] = Output(workers[t].process)
      BY DEF ResultInv, PrintOnce
    <3> QED BY <1>1, <3>1
  <2>5. /\ \A d \in ClientProcs : \A i, j \in 1..Len(results'[d]) : results'[d][i] = results'[d][j] => i = j
        /\ \A d \in ClientProcs : clientPc'[d] = "done" => \A e \in CommandsOf(d) : Printed(e)'
    BY <1>2, <2>1 DEF ResultInv, PrintOnce
  <2> QED BY <2>3, <2>4, <2>5 DEF PrintOnce, Printed, Elements, Output
<1> QED BY <1>2, <1>3, <1>4, <1>5, <1>7, DispatchOwns, RequestingQuietly, DeliveriesKept
        DEF ResultInv

\* The endpoint of the object becomes the source of the acknowledgement.
LEMMA AcknowledgedEndpoint ==
  ASSUME PlaceInv, NEW k \in ClientIds, NEW a,
         clientObj' = [clientObj EXCEPT ![k].endPoint = a, ![k].processCount = @ - 1]
  PROVE  clientObj'[k].endPoint = a
<1> DEFINE o == [clientObj[k] EXCEPT !.endPoint = a, !.processCount = @ - 1]
<1>1. clientObj[k] \in ClientObjectsZ
  BY ObjectTyped DEF PlaceInv
<1>2. clientObj' = [clientObj EXCEPT ![k] = o]
  <2>1. clientObj \in Seq(ClientObjectsZ) /\ k \in 1..Len(clientObj)
    BY Zenon DEF PlaceInv, ManagerInv, ObjectsOK, ClientIds
  <2>2. k \in DOMAIN clientObj
    BY <2>1
  <2> QED BY <1>1, <2>2
<1>3. o.endPoint = a
  BY <1>1 DEF ClientObjectsZ
<1> HIDE DEF o
<1> QED BY <1>2, <1>3, OneObjectChanged

\* A worker whose result was printed goes on.
LEMMA LatePrinted ==
  ASSUME PrintOnce, UNCHANGED clientVars, NEW t \in WorkerIds, NEW to, Moved(t, to),
         to \in {"delete", "return"}, workers'[t].process = workers[t].process,
         Printed(workers[t].process)
  PROVE  PrintOnce'
<1>1. UNCHANGED <<clientPc, results>>
  BY DEF clientVars
<1>2. \A u \in WorkerIds : /\ workers'[u].process = workers[u].process
                           /\ Printed(workers[u].process)' = Printed(workers[u].process)
  BY <1>1 DEF Moved, Printed
<1>3. \A u \in WorkerIds' : /\ workers'[u].pc \in Early => ~Printed(workers[u].process)'
                            /\ workers'[u].pc \in Late => Printed(workers[u].process)'
  BY <1>2 DEF PrintOnce, Moved, Early
<1>4. \A c \in ClientProcs : \A i \in 1..Len(results'[c]) : \E u \in WorkerIds' :
        workers'[u].process.client = c /\ results'[c][i] = Output(workers'[u].process)
  <2> SUFFICES ASSUME NEW c \in ClientProcs, NEW i \in 1..Len(results[c])
               PROVE  \E u \in WorkerIds' :
                        workers'[u].process.client = c /\ results[c][i] = Output(workers'[u].process)
    BY <1>1
  <2>1. PICK u \in WorkerIds :
          workers[u].process.client = c /\ results[c][i] = Output(workers[u].process)
    BY DEF PrintOnce
  <2>2. u \in WorkerIds' /\ workers'[u].process = workers[u].process
    BY <1>2 DEF Moved
  <2> QED BY <2>1, <2>2
<1>5. /\ \A c \in ClientProcs : \A i, j \in 1..Len(results'[c]) : results'[c][i] = results'[c][j] => i = j
      /\ \A c \in ClientProcs : clientPc'[c] = "done" => \A e \in CommandsOf(c) : Printed(e)'
  BY <1>1 DEF PrintOnce, Printed
<1> QED BY <1>3, <1>4, <1>5 DEF PrintOnce

\* While Clientsocket_mtx is free, no acknowledgement is under way and clients
\* have nothing but greetings to receive.
LEMMA NobodySends ==
  ASSUME PlaceInv, ResultInv, ClientsocketMtx = 0
  PROVE  /\ Inbox(WaitPort) = {}
         /\ \A c \in ClientProcs : clientPc[c] # "ack"
         /\ \A c \in ClientProcs : ClientRunning(c) => \A i \in Inbox(clientPort[c]) : Greeting(c, i)
<1>1. Inbox(WaitPort) = {}
  BY DEF ResultInv, Deliveries, Acknowledged
<1>2. \A c \in ClientProcs : clientPc[c] # "ack"
  BY DEF ResultInv, Deliveries, Acknowledging
<1>3. \A c \in ClientProcs : ClientRunning(c) => \A i \in Inbox(clientPort[c]) : Greeting(c, i)
  BY DEF ResultInv, Deliveries, Receiving, Result
<1> QED BY <1>1, <1>2, <1>3

\* The mutex was free: the result is all that is sent, and is not printed yet.
LEMMA SendResultOnce ==
  ASSUME PlaceInv, ResultInv, RepliesMatch, UNCHANGED clientVars,
         NEW t \in WorkerIds, SendResult(t)
  PROVE  ResultInv'
<1>1. PICK c, e, p : c = workers[t].process.client /\ e = workers[t].process /\ p = clientPort[c]
  OBVIOUS
<1>2. /\ c \in ClientProcs /\ e \in CommandsOf(c)
      /\ clientObj[workers[t].client].endPoint = p
      /\ clientPc[c] \notin {"off", "noPort"}
  BY <1>1, TaskOwner DEF ResultInv, Owner
<1>3. /\ workers[t].pc = "lock" /\ Moved(t, "ack")
      /\ workers'[t].process = e
      /\ ClientsocketMtx = 0 /\ ClientsocketMtx' = t
      /\ UNCHANGED <<clientObj, mainPc, currentClient, process>>
  BY <1>1, Goes, KeepsTask DEF SendResult
<1>4. t # 0
  BY WorkersAre
<1>5. workers[t].exeResult = Output(e) /\ ~Printed(e)
  BY <1>1, <1>3 DEF RepliesMatch, ResultInv, PrintOnce, Early
<1>6. ClientRunning(c)
  <2>1. clientPc[c] \in ClientPcs
    BY <1>2 DEF PlaceInv, ClientInv, ClientTypeOK
  <2>2. clientPc[c] # "done"
    BY <1>2, <1>5 DEF ResultInv, PrintOnce
  <2>3. clientPc[c] \notin {"timedOut", "killed"}
    BY <1>2 DEF ResultInv, ClientsUp
  <2> QED BY <1>2, <2>1, <2>2, <2>3 DEF ClientPcs, ClientRunning
<1>7. net' = Sent(net, ClientReceivePort, p, Output(e))
  BY <1>2, <1>5 DEF SendResult
<1>8. /\ p \in DOMAIN net /\ p # ClientReceivePort /\ p # WaitPort
      /\ ClientReceivePort \in DOMAIN net /\ WaitPort \in DOMAIN net
  BY <1>1, <1>2, <1>6, ClientSockets
<1>9. /\ \A q \in DOMAIN net : q # p => net'[q] = net[q]
      /\ Grown(net'[p], net[p], [src |-> ClientReceivePort, body |-> Output(e)])
  <2>1. net[p] \in Seq(Expected(p))
    BY <1>8, InboxTyped
  <2> QED BY <1>7, <1>8, <2>1, SentElsewhere, SentThere
<1>10. /\ net'[ClientReceivePort] = net[ClientReceivePort] /\ net'[WaitPort] = net[WaitPort]
       /\ \A d \in ClientProcs : d # c /\ ClientRunning(d) => net'[clientPort[d]] = net[clientPort[d]]
  BY <1>1, <1>2, <1>6, <1>8, <1>9, ClientSockets
<1>11. UNCHANGED <<clientPc, clientTimer, clientPort, results>>
  BY DEF clientVars
<1>12. TasksKept /\ ObjectsKept /\ MainKept /\ StagesKept
  BY <1>1, <1>3, IdsSame DEF Moved, TasksKept, ObjectsKept, MainKept, StagesKept, Early, Late
<1>13. ClientsUp'
  BY <1>11 DEF ResultInv, ClientsUp
<1>14. Requesting'
  <2>1. ASSUME NEW d \in ClientProcs, Requested(d)
        PROVE  clientPc'[d] = clientPc[d] /\ (Inbox(clientPort[d]) = {} => Inbox(clientPort[d])' = {})
    <3>1. ~Requested(c)
      BY <1>1, TaskOwner DEF ResultInv, Owner
    <3>2. d # c /\ ClientRunning(d)
      BY <2>1, <3>1, RequestedWaits DEF ClientRunning, ResultInv
    <3> QED BY <1>10, <1>11, <3>2 DEF Inbox
  <2> QED BY <1>10, <1>11, <2>1, FewerSame, RequestingKept DEF ResultInv
<1>15. Owned' /\ CommandsOnce'
  BY <1>10, <1>11, <1>12, FewerSame, RequestedBefore, OwnedKept, CommandsKept DEF ResultInv
<1>16. Holder' = e
  BY <1>3 DEF Holder
<1>17. Silent' /\ Inbox(WaitPort)' = {} /\ \A d \in ClientProcs : clientPc'[d] # "ack"
  <2>1. Inbox(WaitPort) = {} /\ \A d \in ClientProcs : clientPc[d] # "ack"
    BY <1>3, NobodySends
  <2>2. Inbox(WaitPort)' = {}
    BY <1>10, <2>1 DEF Inbox
  <2> QED BY <1>11, <2>1, <2>2 DEF Silent
<1>18. Receiving(c)'
  <2>1. PICK N, M : N = net[p] /\ M = net'[p]
    OBVIOUS
  <2>2. PICK last : /\ 1..Len(M) = 1..Len(N) \cup {last}
                    /\ M[last].body = Output(e)
                    /\ \A i \in 1..Len(N) : M[i] = N[i]
    BY <1>9, <2>1 DEF Grown
  <2>3. \A i \in 1..Len(N) : N[i].body = ClientInitialized /\ i = 1 /\ clientPc[c] = "handshake"
    BY <1>1, <1>2, <1>3, <1>6, <2>1, NobodySends DEF Greeting, Inbox
  <2>4. Printed(e)' = Printed(e) /\ Output(e)' = Output(e)
    BY <1>11 DEF Printed
  <2>5. \A i \in 1..Len(M) :
          \/ M[i].body = ClientInitialized /\ i = 1 /\ clientPc'[c] = "handshake"
          \/ M[i].body = Output(e)
    BY <1>11, <2>2, <2>3
  <2>6. \A i, j \in 1..Len(M) : M[i].body = M[j].body => i = j
    BY <2>2, <2>3, OutputIsNoAnswer
  <2>7. Printed(Holder)' = Printed(e)' /\ Output(Holder)' = Output(e) /\ Holder'.client = c
    BY <1>1, <1>11, <1>16 DEF Printed, Output
  <2>8. \A i \in 1..Len(M) :
          \/ M[i].body = ClientInitialized /\ i = 1 /\ clientPc'[c] = "handshake"
          \/ /\ ClientsocketMtx' # 0 /\ Holder'.client = c
             /\ M[i].body = Output(Holder)' /\ ~Printed(Holder)' /\ Silent'
    BY <1>3, <1>4, <1>5, <1>17, <2>4, <2>5, <2>7
  <2>9. clientPort'[c] = p /\ Inbox(clientPort[c])' = 1..Len(M)
    BY <1>1, <1>11, <2>1 DEF Inbox
  <2> QED BY <2>1, <2>6, <2>8, <2>9 DEF Receiving, Greeting, Result
<1>19. ASSUME NEW d \in ClientProcs, ClientRunning(d)' PROVE Receiving(d)'
  <2>1. CASE d = c
    BY <1>18, <2>1
  <2>2. CASE d # c
    <3>1. ClientRunning(d) /\ Receiving(d)
      BY <1>11, <1>19 DEF ClientRunning, ResultInv, Deliveries
    <3> QED BY <1>3, <1>10, <1>11, <2>2, <3>1, GreetingKept
  <2> QED BY <2>1, <2>2
<1>20. Deliveries'
  BY <1>17, <1>19 DEF Deliveries, Acknowledging, Acknowledged
<1>21. PrintOnce'
  BY <1>12, PrintKept DEF ResultInv
<1> QED BY <1>13, <1>14, <1>15, <1>20, <1>21 DEF ResultInv

\* The acknowledgement is that of the result the worker sent: its client has
\* printed it, and is the source of the acknowledgement.
LEMMA ReceiveAckOnce ==
  ASSUME PlaceInv, ResultInv, OneSender, OnlyLoss, UNCHANGED clientVars,
         NEW t \in WorkerIds, ReceiveAck(t)
  PROVE  /\ ResultInv'
         /\ \A k \in ClientIds : clientObj'[k].endPoint = clientObj[k].endPoint
<1>1. PICK k, c : k = workers[t].client /\ c = workers[t].process.client
  OBVIOUS
<1>2. /\ k \in ClientIds /\ c \in ClientProcs
      /\ clientObj[k].endPoint = clientPort[c]
  BY <1>1, TaskOwner DEF ResultInv, Owner
<1>3. PICK to : /\ workers[t].pc = "ack" /\ to \in {"delete", "return"}
                /\ WorkerGoto(t, "ack", to)
  <2>1. WorkerGoto(t, "ack", IF clientObj[workers[t].client].processCount = 1
                               THEN "delete" ELSE "return")
    BY DEF ReceiveAck, WorkerGoto
  <2> QED BY <2>1 DEF WorkerGoto
<1>4. Moved(t, to) /\ workers'[t].process = workers[t].process
  BY <1>3, Goes, KeepsTask
<1>5. ClientsocketMtx = t /\ t # 0 /\ ClientsocketMtx' = 0 /\ Holder = workers[t].process
  BY <1>3, WorkersAre DEF OneSender, Holder, ReceiveAck
<1>6. PICK i \in Arrivals(WaitPort) :
        /\ clientObj' = [clientObj EXCEPT ![k].endPoint = net[WaitPort][i].src,
                                          ![k].processCount = @ - 1]
        /\ net' = Taken(WaitPort, i)
  BY <1>1 DEF ReceiveAck
<1>7. i = 1 /\ 1 \in Inbox(WaitPort)
  BY LossAndNoKills, FirstArrives
<1>8. Inbox(WaitPort) = {1} /\ Printed(Holder) /\ net[WaitPort][1].src = clientPort[c]
  BY <1>1, <1>5, <1>7 DEF ResultInv, Deliveries, Acknowledged
<1>9. WaitPort \in DOMAIN net /\ ClientReceivePort \in DOMAIN net /\ ClientReceivePort # WaitPort
  BY ClientSockets
<1>10. 1..Len(net'[WaitPort]) = {} /\ \A q \in DOMAIN net : q # WaitPort => net'[q] = net[q]
  BY <1>6, <1>7, <1>8, <1>9, FirstTaken, TakenElsewhere
<1>11. /\ net'[ClientReceivePort] = net[ClientReceivePort]
       /\ \A d \in ClientProcs : ClientRunning(d) => net'[clientPort[d]] = net[clientPort[d]]
  BY <1>9, <1>10, ClientSockets
<1>12. UNCHANGED <<clientPc, clientTimer, clientPort, results, mainPc, currentClient, process>>
  BY DEF clientVars, ReceiveAck
<1>13. ObjectsKept
  <2>1. /\ ClientIds' = ClientIds
        /\ \A j \in ClientIds : j # k => clientObj'[j] = clientObj[j]
        /\ clientObj'[k].ProcessQueue = clientObj[k].ProcessQueue
    BY <1>1, AcknowledgedObject
  <2>2. clientObj'[k].endPoint = clientObj[k].endPoint
    BY <1>1, <1>2, <1>6, <1>7, <1>8, AcknowledgedEndpoint
  <2> QED BY <1>2, <2>1, <2>2 DEF ObjectsKept
<1>14. TasksKept /\ MainKept
  BY <1>4, <1>12 DEF Moved, TasksKept, MainKept
<1>15. ClientsUp'
  BY <1>12 DEF ResultInv, ClientsUp
<1>16. Requesting'
  <2>1. ASSUME NEW d \in ClientProcs, Requested(d)
        PROVE  clientPc'[d] = clientPc[d] /\ (Inbox(clientPort[d]) = {} => Inbox(clientPort[d])' = {})
    <3>1. ClientRunning(d)
      BY <2>1, RequestedWaits DEF ClientRunning, ResultInv
    <3> QED BY <1>11, <1>12, <3>1 DEF Inbox
  <2> QED BY <1>11, <1>12, <2>1, FewerSame, RequestingKept DEF ResultInv
<1>17. Owned' /\ CommandsOnce'
  BY <1>11, <1>12, <1>13, <1>14, FewerSame, RequestedBefore, OwnedKept, CommandsKept DEF ResultInv
<1>18. Deliveries'
  <2>1. ~Silent
    BY <1>7 DEF Silent
  <2>2. ASSUME NEW d \in ClientProcs, ClientRunning(d)' PROVE Receiving(d)'
    <3>1. ClientRunning(d) /\ Receiving(d)
      BY <1>12, <2>2 DEF ClientRunning, ResultInv, Deliveries
    <3> QED BY <1>11, <1>12, <2>1, <3>1, GreetingKept
  <2>3. \A d \in ClientProcs : clientPc'[d] # "ack"
    BY <1>7, <1>12 DEF ResultInv, Deliveries, Acknowledging
  <2>4. Inbox(WaitPort)' = {}
    BY <1>10 DEF Inbox
  <2> QED BY <2>2, <2>3, <2>4 DEF Deliveries, Acknowledging, Acknowledged
<1>19. PrintOnce'
  BY <1>3, <1>4, <1>5, <1>8, LatePrinted DEF ResultInv
<1> QED BY <1>13, <1>15, <1>16, <1>17, <1>18, <1>19 DEF ResultInv, ObjectsKept

-----------------------------------------------------------------------------
(* The invariant and the theorems.                                         *)

LEMMA WorkerResult ==
  ASSUME PlaceInv, OneSender, RepliesMatch, ResultInv, OnlyLoss, UNCHANGED clientVars,
         NEW t \in WorkerIds, WorkerNext(t)
  PROVE  /\ ResultInv'
         /\ \A k \in ClientIds : clientObj'[k].endPoint = clientObj[k].endPoint
<1>1. CASE SendResult(t)
  <2>1. UNCHANGED clientObj
    BY <1>1 DEF SendResult
  <2> QED BY <1>1, <2>1, SendResultOnce
<1>2. CASE ReceiveAck(t)
  BY <1>2, ReceiveAckOnce
<1>3. CASE DeleteClient(t)
  BY <1>3, DeletedKept, QuietWorkerResult DEF ObjectsKept
<1>4. CASE SendCommand(t) \/ ReceiveReply(t) \/ ReturnServer(t)
  <2>1. UNCHANGED clientObj
    BY <1>4 DEF SendCommand, ReceiveReply, ReturnServer
  <2> QED BY <1>4, <2>1, QuietWorkerResult
<1> QED BY <1>1, <1>2, <1>3, <1>4 DEF WorkerNext

LEMMA ManagerResult ==
  ASSUME PlaceInv, OneSender, RepliesMatch, ResultInv, OnlyLoss, UNCHANGED clientVars,
         ManagerNext
  PROVE  /\ ResultInv'
         /\ \A k \in ClientIds : clientObj'[k].endPoint = clientObj[k].endPoint
<1>1. CASE InitializeServer \/ GetClient \/ LeaveClient \/ ReadDeletedClient
  <2>1. UNCHANGED clientObj
    BY <1>1 DEF InitializeServer, GetClient, LeaveClient, ReadDeletedClient
  <2> QED BY <1>1, <2>1, QuietManagerResult
<1>2. CASE AcceptClient
  <2>1. \A k \in ClientIds : clientObj'[k] = clientObj[k]
    BY <1>2, RequestAccepted DEF ResultInv
  <2> QED BY <1>2, <2>1, AcceptResult
<1>3. CASE PopProcess
  <2>1. \A k \in ClientIds : clientObj'[k].endPoint = clientObj[k].endPoint
    BY <1>3, CommandPopped
  <2> QED BY <1>3, <2>1, PopResult
<1>4. CASE Dispatch
  <2>1. UNCHANGED clientObj
    BY <1>4 DEF Dispatch
  <2> QED BY <1>4, <2>1, DispatchResult
<1>5. ASSUME NEW t \in WorkerIds, WorkerNext(t)
      PROVE  /\ ResultInv'
             /\ \A k \in ClientIds : clientObj'[k].endPoint = clientObj[k].endPoint
  BY <1>5, WorkerResult
<1> QED BY <1>1, <1>2, <1>3, <1>4, <1>5 DEF ManagerNext, MainNext

LEMMA ResultNext ==
  ASSUME PlaceInv, WorkInv, TalkInv, ResultInv, OnlyLoss, [Next]_vars
  PROVE  /\ ResultInv'
         /\ \A k \in ClientIds : clientObj'[k].endPoint = clientObj[k].endPoint
<1>1. OneSender /\ RepliesMatch
  BY DEF WorkInv, TalkInv
<1>2. CASE ManagerStep(ManagerNext)
  BY <1>1, <1>2, ManagerResult DEF ManagerStep
<1>3. CASE UNCHANGED managerVars
  <2>1. UNCHANGED clientObj
    BY <1>3 DEF managerVars
  <2>2. ASSUME NEW c \in ClientProcs, ClientStep(ClientNext(c)) PROVE ResultInv'
    BY <1>1, <1>3, <2>2, ClientResult DEF ClientStep
  <2>3. ASSUME NEW s \in ServerProcs, ServerStep(ServerNext(s)) PROVE ResultInv'
    <3>1. ServerNext(s) /\ UNCHANGED clientVars
      BY <2>3 DEF ServerStep
    <3> QED BY <1>3, <3>1, ServerQuietly, QuietSameIsLost, OthersResult
  <2>4. ASSUME NetworkStep(NetworkNext) PROVE ResultInv'
    <3>1. Lose /\ UNCHANGED clientVars
      BY <2>4 DEF NetworkStep, NetworkNext, Duplicate, OnlyLoss
    <3> QED BY <1>3, <3>1, LostQuietly, OthersResult
  <2>5. ASSUME UNCHANGED vars PROVE ResultInv'
    <3>1. UNCHANGED <<net, clientVars>>
      BY <2>5 DEF vars, netVars
    <3>2. QuietSame
      BY <3>1 DEF QuietSame
    <3> QED BY <1>3, <3>1, <3>2, QuietSameIsLost, OthersResult
  <2>6. ResultInv'
    BY <1>1, <2>2, <2>3, <2>4, <2>5, <1>2, ManagerResult DEF Next, ManagerStep
  <2> QED BY <2>1, <2>6
<1> QED BY <1>2, <1>3 DEF Next, ClientStep, ServerStep, NetworkStep, vars

LEMMA ResultInit == Init => ResultInv
<1> SUFFICES ASSUME Init PROVE ResultInv
  OBVIOUS
<1>1. ClientIds = {} /\ WorkerIds = {} /\ mainPc = "get" /\ ClientsocketMtx = 0
  BY DEF Init, ManagerInit, ClientIds, WorkerIds
<1>2. net[ClientReceivePort] = << >> /\ net[WaitPort] = << >>
  BY DEF Init, NetworkInit
<1>3. \A c \in ClientProcs : clientPc[c] = "off" /\ clientTimer[c] = "off" /\ results[c] = << >>
  BY DEF Init, ClientInit
<1>4. Inbox(ClientReceivePort) = {} /\ Inbox(WaitPort) = {}
  BY <1>2 DEF Inbox
<1>5. ClientsUp /\ Requesting
  BY <1>3, <1>4 DEF ClientsUp, Requesting
<1>6. Owned /\ CommandsOnce
  BY <1>1 DEF Owned, CommandsOnce
<1>7. Deliveries
  BY <1>3, <1>4 DEF Deliveries, ClientRunning, Acknowledging, Acknowledged
<1>8. PrintOnce
  <2>1. \A c \in ClientProcs : 1..Len(results[c]) = {}
    BY <1>3
  <2> QED BY <1>1, <1>3, <2>1 DEF PrintOnce
<1> QED BY <1>5, <1>6, <1>7, <1>8 DEF ResultInv

\* The inductive invariant of the results: whose they are, where they are, and
\* which were printed.
THEOREM ResultInvariant == ASSUME OnlyLoss PROVE SafetySpec => []ResultInv
<1>1. Init => ResultInv
  BY ResultInit
<1>2. PlaceInv /\ WorkInv /\ TalkInv /\ ResultInv /\ [Next]_vars => ResultInv'
  BY ResultNext
<1> QED BY <1>1, <1>2, LossAndNoKills, PlaceInvariant, WorkInvariant, TalkInvariant, PTL
        DEF SafetySpec

\* sendMessage takes the datagram at port 9001 for the acknowledgement of the
\* result it sent, and it is: the client that asked has printed that result.
THEOREM AlwaysAcknowledgedMeansPrinted ==
  ASSUME OnlyLoss PROVE SafetySpec => []AcknowledgedMeansPrinted
<1>1. TalkInv /\ ResultInv => AcknowledgedMeansPrinted
  BY DEF TalkInv, RepliesMatch, ResultInv, PrintOnce, Printed, Late, AcknowledgedMeansPrinted
<1> QED BY <1>1, LossAndNoKills, TalkInvariant, ResultInvariant, PTL

\* receive_from overwrites clientEndPoint and serverEndPoint with the source of
\* what it took, and that never redirects an object to somebody else.
THEOREM AlwaysEndpointsKept == ASSUME OnlyLoss PROVE SafetySpec => EndpointsKept
<1>1. PlaceInv /\ WorkInv /\ TalkInv /\ ResultInv /\ [Next]_vars =>
        [/\ \A k \in ClientIds : clientObj'[k].endPoint = clientObj[k].endPoint
         /\ \A k \in ServerIds : serverEndPoint'[k] = serverEndPoint[k]]_vars
  BY LossAndNoKills, ResultNext, TalkNext
<1> QED BY <1>1, LossAndNoKills, PlaceInvariant, WorkInvariant, TalkInvariant, ResultInvariant, PTL
        DEF SafetySpec, EndpointsKept

\* A client prints nothing but the output of its commands, and nothing twice;
\* when it ends it has printed all of them.
ResultsRight ==
  \A c \in ClientProcs :
    /\ \A i \in 1..Len(results[c]) : \E e \in CommandsOf(c) : results[c][i] = Output(e)
    /\ \A i, j \in 1..Len(results[c]) : results[c][i] = results[c][j] => i = j
    /\ clientPc[c] = "done" => \A e \in CommandsOf(c) : Output(e) \in Elements(results[c])

\* Whatever is lost, no client prints what is not its own, prints a result
\* twice, or ends before it has all.
THEOREM AlwaysResultsRight == ASSUME OnlyLoss PROVE SafetySpec => []ResultsRight
<1>1. ASSUME PlaceInv, ResultInv PROVE ResultsRight
  <2> SUFFICES ASSUME NEW c \in ClientProcs
               PROVE  /\ \A i \in 1..Len(results[c]) : \E e \in CommandsOf(c) : results[c][i] = Output(e)
                      /\ \A i, j \in 1..Len(results[c]) : results[c][i] = results[c][j] => i = j
                      /\ clientPc[c] = "done" =>
                           \A e \in CommandsOf(c) : Output(e) \in Elements(results[c])
    BY DEF ResultsRight
  <2>1. Owned /\ PrintOnce
    BY <1>1 DEF ResultInv
  <2>2. \A i \in 1..Len(results[c]) : \E e \in CommandsOf(c) : results[c][i] = Output(e)
    BY <1>1, <2>1, TaskOwner DEF PrintOnce
  <2>3. \A i, j \in 1..Len(results[c]) : results[c][i] = results[c][j] => i = j
    BY <2>1 DEF PrintOnce
  <2>4. clientPc[c] = "done" => \A e \in CommandsOf(c) : Output(e) \in Elements(results[c])
    BY <2>1, CommandClient DEF PrintOnce, Printed
  <2> QED BY <2>2, <2>3, <2>4
<1>2. PlaceInv /\ ResultInv => ResultsRight
  BY <1>1
<1> QED BY <1>2, PlaceInvariant, ResultInvariant, PTL

-----------------------------------------------------------------------------
(* On a faultless network: what is sent arrives, and something is always   *)
(* under way while Clientsocket_mtx is held.                               *)

NoFaults == Faults = {}

\* Client c has asked and has its answer before everything else, or will.
Waits(c) == \/ Requested(c)
            \/ 1 \in Inbox(clientPort[c]) /\ net[clientPort[c]][1].body = ClientInitialized

\* The holder's result lies in the inbox of client c.
Delivered(c) == \E i \in Inbox(clientPort[c]) : net[clientPort[c]][i].body = Output(Holder)

Greeted == \A c \in ClientProcs : clientPc[c] = "handshake" => Waits(c)

Moving == ClientsocketMtx # 0 =>
            \/ ClientRunning(Holder.client) /\ Delivered(Holder.client)
            \/ clientPc[Holder.client] = "ack"
            \/ 1 \in Inbox(WaitPort)

FlowInv == Greeted /\ Moving

LEMMA NoFaultsNoLoss == NoFaults => OnlyLoss
BY DEF NoFaults, OnlyLoss

\* All but the first datagram stay when that is taken.
LEMMA RestStays ==
  ASSUME NEW S, NEW q \in Seq(S), 1 \in 1..Len(q), NEW i \in 1..Len(q), i # 1
  PROVE  \E j \in 1..Len(RemoveAt(q, 1)) : RemoveAt(q, 1)[j] = q[i]
<1>1. Len(q) \in Nat
  BY LenProperties
<1>2. /\ Len(RemoveAt(q, 1)) = Len(q) - 1
      /\ \A j \in 1..(Len(q) - 1) : RemoveAt(q, 1)[j] = q[j + 1]
  BY FirstRemoved
<1>3. i - 1 \in 1..(Len(q) - 1) /\ (i - 1) + 1 = i
  BY <1>1
<1> QED BY <1>2, <1>3

\* Each client waits as before, but for those a step is about.
LEMMA GreetedKept ==
  ASSUME Greeted,
         \A d \in ClientProcs : clientPc'[d] = "handshake" =>
           \/ Waits(d)'
           \/ /\ clientPc[d] = "handshake" /\ clientPort'[d] = clientPort[d]
              /\ net'[clientPort[d]] = net[clientPort[d]]
              /\ Requested(d) => Requested(d)'
  PROVE  Greeted'
<1> SUFFICES ASSUME NEW d \in ClientProcs, clientPc'[d] = "handshake" PROVE Waits(d)'
  BY DEF Greeted
<1>1. CASE Waits(d)'
  BY <1>1
<1>2. CASE /\ clientPc[d] = "handshake" /\ clientPort'[d] = clientPort[d]
           /\ net'[clientPort[d]] = net[clientPort[d]]
           /\ Requested(d) => Requested(d)'
  <2>1. Waits(d)
    BY <1>2 DEF Greeted
  <2> QED BY <1>2, <2>1 DEF Waits, Inbox
<1> QED BY <1>1, <1>2

\* The holder's client does not lose its result.
LEMMA MovingKept ==
  ASSUME Moving, UNCHANGED ClientsocketMtx, ClientsocketMtx # 0 => Holder' = Holder,
         NEW h, h = Holder.client,
         ClientsocketMtx # 0 /\ ClientRunning(h) /\ Delivered(h) =>
           (ClientRunning(h)' /\ Delivered(h)') \/ clientPc'[h] = "ack",
         ClientsocketMtx # 0 /\ clientPc[h] = "ack" => clientPc'[h] = "ack" \/ 1 \in Inbox(WaitPort)',
         1 \in Inbox(WaitPort) => 1 \in Inbox(WaitPort)'
  PROVE  Moving'
<1> SUFFICES ASSUME ClientsocketMtx # 0
             PROVE  \/ ClientRunning(h)' /\ Delivered(h)'
                    \/ clientPc'[h] = "ack"
                    \/ 1 \in Inbox(WaitPort)'
  BY DEF Moving, ClientRunning, Delivered
<1> QED BY DEF Moving

LEMMA DeliveredSame ==
  ASSUME NEW h, Delivered(h), clientPort'[h] = clientPort[h], Holder' = Holder,
         net'[clientPort[h]] = net[clientPort[h]]
  PROVE  Delivered(h)'
BY DEF Delivered, Inbox, Output

\* A step that leaves the clients and what they receive alone.
LEMMA FlowKept ==
  ASSUME PlaceInv, Owned, FlowInv, UNCHANGED <<clientVars, ClientsocketMtx>>, QuietSame,
         ClientsocketMtx # 0 => Holder' = Holder
  PROVE  FlowInv'
<1>1. UNCHANGED <<clientPc, clientPort>>
  BY DEF clientVars
<1>2. /\ net'[ClientReceivePort] = net[ClientReceivePort] /\ net'[WaitPort] = net[WaitPort]
      /\ \A c \in ClientProcs : ClientRunning(c) => net'[clientPort[c]] = net[clientPort[c]]
  BY ClientSockets DEF QuietSame
<1>3. Greeted'
  BY <1>1, <1>2, GreetedKept DEF FlowInv, ClientRunning, Requested, Inbox
<1>4. Moving'
  <2>1. PICK h : h = Holder.client
    OBVIOUS
  <2>2. ASSUME ClientsocketMtx # 0, ClientRunning(h), Delivered(h)
        PROVE  ClientRunning(h)' /\ Delivered(h)'
    <3>1. net'[clientPort[h]] = net[clientPort[h]]
      BY <1>2, <2>1, <2>2, HolderOwner
    <3> QED BY <1>1, <2>2, <3>1, DeliveredSame DEF ClientRunning
  <2> QED BY <1>1, <1>2, <2>1, <2>2, MovingKept DEF FlowInv, Inbox
<1> QED BY <1>3, <1>4 DEF FlowInv

LEMMA StartFlows ==
  ASSUME PlaceInv, ResultInv, FlowInv, UNCHANGED managerVars, NEW c \in ClientProcs, StartClient(c)
  PROVE  FlowInv'
<1>1. PICK p : /\ p \notin DOMAIN net /\ p # ClientReceivePort /\ p # WaitPort
               /\ clientPc[c] = "off" /\ clientPc'[c] = "handshake"
               /\ \A d \in ClientProcs : d # c => clientPc'[d] = clientPc[d]
               /\ \A d \in ClientProcs : d # c => clientPort'[d] = clientPort[d]
               /\ \A q \in DOMAIN net : q # ClientReceivePort => net'[q] = net[q]
               /\ Grown(net'[ClientReceivePort], net[ClientReceivePort],
                        [src |-> p, body |-> Request(c)])
  BY StartedAsks
<1>2. PICK N, M : N = net[ClientReceivePort] /\ M = net'[ClientReceivePort]
  OBVIOUS
<1>3. PICK last : /\ 1..Len(M) = 1..Len(N) \cup {last}
                  /\ M[last].body = Request(c)
                  /\ \A i \in 1..Len(N) : M[i] = N[i]
  BY <1>1, <1>2 DEF Grown
<1>4. Requested(c)' /\ \A d \in ClientProcs : Requested(d) => Requested(d)'
  BY <1>2, <1>3 DEF Requested, Inbox
<1>5. /\ \A d \in ClientProcs : ClientRunning(d) => net'[clientPort[d]] = net[clientPort[d]] /\ d # c
      /\ net'[WaitPort] = net[WaitPort]
  BY <1>1, ClientSockets DEF ClientRunning
<1>6. Greeted'
  BY <1>1, <1>4, <1>5, GreetedKept DEF FlowInv, ClientRunning, Waits
<1>7. Moving'
  <2>1. PICK h : h = Holder.client
    OBVIOUS
  <2>2. UNCHANGED ClientsocketMtx /\ Holder' = Holder
    BY DEF managerVars, Holder
  <2>3. ClientsocketMtx # 0 => h \in ClientProcs
    BY <2>1, HolderOwner DEF ResultInv
  <2>4. ASSUME ClientsocketMtx # 0, ClientRunning(h), Delivered(h)
        PROVE  ClientRunning(h)' /\ Delivered(h)'
    <3>1. h # c /\ net'[clientPort[h]] = net[clientPort[h]]
      BY <1>5, <2>3, <2>4
    <3>2. clientPc'[h] = clientPc[h] /\ clientPort'[h] = clientPort[h]
      BY <1>1, <2>3, <2>4, <3>1
    <3> QED BY <2>2, <2>4, <3>1, <3>2, DeliveredSame DEF ClientRunning
  <2>5. ClientsocketMtx # 0 /\ clientPc[h] = "ack" => clientPc'[h] = "ack"
    BY <1>1, <2>3
  <2> QED BY <1>5, <2>1, <2>2, <2>4, <2>5, MovingKept DEF FlowInv, Inbox
<1> QED BY <1>6, <1>7 DEF FlowInv

LEMMA QuietClientFlows ==
  ASSUME PlaceInv, ResultInv, FlowInv, UNCHANGED managerVars, NEW c \in ClientProcs,
         ClientFindsNoPort(c) \/ StopClientTimer(c)
  PROVE  FlowInv'
<1>1. UNCHANGED <<net, clientPort>>
  BY DEF ClientFindsNoPort, StopClientTimer, netVars
<1>2. PICK from, to : /\ ClientGoto(c, from, to)
                      /\ \/ from = "off" /\ to = "noPort"
                         \/ from = "answered" /\ to = "receive"
  BY DEF ClientFindsNoPort, StopClientTimer
<1>3. /\ clientPc[c] = from /\ clientPc'[c] = to
      /\ \A d \in ClientProcs : d # c => clientPc'[d] = clientPc[d]
  BY <1>2, ClientGoes
<1>4. Greeted'
  BY <1>1, <1>2, <1>3, GreetedKept DEF FlowInv, Requested, Inbox
<1>5. Moving'
  <2>1. PICK h : h = Holder.client
    OBVIOUS
  <2>2. UNCHANGED ClientsocketMtx /\ Holder' = Holder
    BY DEF managerVars, Holder
  <2>3. ClientsocketMtx # 0 => h \in ClientProcs
    BY <2>1, HolderOwner DEF ResultInv
  <2>4. ASSUME ClientsocketMtx # 0, ClientRunning(h), Delivered(h)
        PROVE  ClientRunning(h)' /\ Delivered(h)'
    <3>1. ClientRunning(h)'
      BY <1>2, <1>3, <2>3, <2>4 DEF ClientRunning
    <3> QED BY <1>1, <2>2, <2>4, <3>1, DeliveredSame
  <2>5. ClientsocketMtx # 0 /\ clientPc[h] = "ack" => clientPc'[h] = "ack"
    BY <1>2, <1>3, <2>3
  <2> QED BY <1>1, <2>1, <2>2, <2>4, <2>5, MovingKept DEF FlowInv, Inbox
<1> QED BY <1>4, <1>5 DEF FlowInv

\* The handshake takes the greeting, so the result stays.
LEMMA HandshakeFlows ==
  ASSUME PlaceInv, ResultInv, FlowInv, OnlyLoss, UNCHANGED managerVars,
         NEW c \in ClientProcs, ClientHandshake(c)
  PROVE  FlowInv'
<1>1. PICK p, N : p = clientPort[c] /\ N = net[p]
  OBVIOUS
<1>2. /\ clientPc[c] = "handshake" /\ clientPc'[c] = "answered"
      /\ \A d \in ClientProcs : d # c => clientPc'[d] = clientPc[d]
      /\ UNCHANGED clientPort
  BY ClientGoes DEF ClientHandshake
<1>3. ClientRunning(c) /\ p \in DOMAIN net /\ p # ClientReceivePort /\ p # WaitPort
  BY <1>1, <1>2, ClientSockets DEF ClientRunning
<1>4. 1 \in Inbox(p) /\ net' = Taken(p, 1)
  BY <1>1, LossAndNoKills, FirstArrives DEF ClientHandshake
<1>5. net'[p] = RemoveAt(N, 1) /\ \A q \in DOMAIN net : q # p => net'[q] = net[q]
  BY <1>1, <1>3, <1>4, TakenElsewhere, TakenThere
<1>6. /\ net'[ClientReceivePort] = net[ClientReceivePort] /\ net'[WaitPort] = net[WaitPort]
      /\ \A d \in ClientProcs : d # c /\ ClientRunning(d) => net'[clientPort[d]] = net[clientPort[d]]
  BY <1>1, <1>3, <1>5, ClientSockets
<1>7. Greeted'
  BY <1>2, <1>6, GreetedKept DEF FlowInv, Requested, Inbox, ClientRunning
<1>8. N[1].body = ClientInitialized
  <2>1. ~Requested(c)
    BY <1>1, <1>4, RequestedWaits DEF ResultInv
  <2> QED BY <1>1, <1>2, <2>1 DEF FlowInv, Greeted, Waits
<1>9. Moving'
  <2>1. PICK h : h = Holder.client
    OBVIOUS
  <2>2. UNCHANGED ClientsocketMtx /\ Holder' = Holder
    BY DEF managerVars, Holder
  <2>3. ClientsocketMtx # 0 => h \in ClientProcs
    BY <2>1, HolderOwner DEF ResultInv
  <2>4. ASSUME ClientsocketMtx # 0, ClientRunning(h), Delivered(h)
        PROVE  ClientRunning(h)' /\ Delivered(h)'
    <3>1. ClientRunning(h)'
      BY <1>2, <2>3, <2>4 DEF ClientRunning
    <3>2. CASE h = c
      <4>1. PICK i \in 1..Len(N) : N[i].body = Output(Holder)
        BY <1>1, <2>4, <3>2 DEF Delivered, Inbox
      <4>2. i # 1
        BY <1>8, <4>1, OutputIsNoAnswer
      <4>3. N \in Seq(Expected(p)) /\ 1 \in 1..Len(N)
        BY <1>1, <1>3, <1>4, InboxTyped DEF Inbox
      <4>4. PICK j \in 1..Len(RemoveAt(N, 1)) : RemoveAt(N, 1)[j] = N[i]
        BY <4>2, <4>3, RestStays
      <4>5. /\ j \in 1..Len(net'[clientPort'[h]])
            /\ net'[clientPort'[h]][j].body = Output(Holder)
        BY <1>1, <1>2, <1>5, <3>2, <4>1, <4>4
      <4> QED BY <2>2, <3>1, <4>5 DEF Delivered, Inbox, Output
    <3>3. CASE h # c
      BY <1>2, <1>6, <2>2, <2>3, <2>4, <3>1, <3>3, DeliveredSame
    <3> QED BY <3>2, <3>3
  <2>5. ClientsocketMtx # 0 /\ clientPc[h] = "ack" => clientPc'[h] = "ack"
    BY <1>2, <2>3
  <2> QED BY <1>6, <2>1, <2>2, <2>4, <2>5, MovingKept DEF FlowInv, Inbox
<1> QED BY <1>7, <1>9 DEF FlowInv

\* The client prints the result and is to acknowledge it.
LEMMA ReceiveResultFlows ==
  ASSUME PlaceInv, ResultInv, FlowInv, OnlyLoss, UNCHANGED managerVars,
         NEW c \in ClientProcs, ReceiveResult(c)
  PROVE  FlowInv'
<1>1. PICK p, N : p = clientPort[c] /\ N = net[p]
  OBVIOUS
<1>2. /\ clientPc[c] = "receive" /\ clientPc'[c] = "ack"
      /\ \A d \in ClientProcs : d # c => clientPc'[d] = clientPc[d]
      /\ UNCHANGED clientPort
  BY ClientGoes DEF ReceiveResult
<1>3. ClientRunning(c) /\ p \in DOMAIN net /\ p # ClientReceivePort /\ p # WaitPort
  BY <1>1, <1>2, ClientSockets DEF ClientRunning
<1>4. 1 \in Inbox(p) /\ net' = Taken(p, 1)
  BY <1>1, LossAndNoKills, FirstArrives DEF ReceiveResult
<1>5. /\ net'[ClientReceivePort] = net[ClientReceivePort]
      /\ \A d \in ClientProcs : d # c /\ ClientRunning(d) => net'[clientPort[d]] = net[clientPort[d]]
  BY <1>1, <1>3, <1>4, TakenElsewhere, ClientSockets
<1>6. Greeted'
  BY <1>2, <1>5, GreetedKept DEF FlowInv, Requested, Inbox, ClientRunning
<1>7. Result(c, 1)
  BY <1>1, <1>2, <1>3, <1>4 DEF ResultInv, Deliveries, Receiving, Greeting
<1>8. Holder' = Holder /\ Holder.client = c
  BY <1>7 DEF managerVars, Holder, Result
<1>9. Moving'
  BY <1>2, <1>8 DEF Moving
<1> QED BY <1>6, <1>9 DEF FlowInv

\* The acknowledgement arrives.
LEMMA AcknowledgeFlows ==
  ASSUME PlaceInv, ResultInv, FlowInv, UNCHANGED managerVars, NEW c \in ClientProcs, Acknowledge(c)
  PROVE  FlowInv'
<1>1. PICK p, acked : p = clientPort[c] /\ acked = Sent(net, p, WaitPort, NextResult)
  OBVIOUS
<1>2. PICK to : /\ ClientGoto(c, "ack", to) /\ to \in {"receive", "done"}
                /\ net' = acked \/ net' = Unbind(acked, {p})
  BY <1>1 DEF Acknowledge
<1>3. /\ clientPc[c] = "ack" /\ clientPc'[c] = to
      /\ \A d \in ClientProcs : d # c => clientPc'[d] = clientPc[d]
      /\ UNCHANGED clientPort
  BY <1>2, ClientGoes DEF Acknowledge
<1>4. /\ ClientRunning(c) /\ p \in DOMAIN net /\ p # ClientReceivePort /\ p # WaitPort
      /\ WaitPort \in DOMAIN net /\ ClientReceivePort \in DOMAIN net
      /\ ClientReceivePort # WaitPort
  BY <1>1, <1>3, ClientSockets DEF ClientRunning
<1>5. /\ \A q \in DOMAIN net : q # WaitPort => acked[q] = net[q]
      /\ DOMAIN acked = DOMAIN net
  BY <1>1, SentElsewhere DEF Sent
<1>6. \A q \in DOMAIN net : q # p => net'[q] = acked[q]
  BY <1>2, <1>5 DEF Unbind
<1>7. 1 \in Inbox(WaitPort)'
  <2>1. net[WaitPort] \in Seq(Expected(WaitPort))
    BY <1>4, InboxTyped
  <2>2. Grown(acked[WaitPort], net[WaitPort], [src |-> p, body |-> NextResult])
    BY <1>1, <1>4, <2>1, SentThere
  <2>3. Inbox(WaitPort) = {}
    BY <1>3 DEF ResultInv, Deliveries, Acknowledging
  <2>4. net'[WaitPort] = acked[WaitPort]
    BY <1>4, <1>6
  <2> QED BY <2>2, <2>3, <2>4 DEF Grown, Inbox
<1>8. /\ net'[ClientReceivePort] = net[ClientReceivePort]
      /\ \A d \in ClientProcs : d # c /\ ClientRunning(d) => net'[clientPort[d]] = net[clientPort[d]]
  BY <1>1, <1>4, <1>5, <1>6, ClientSockets
<1>9. Greeted'
  BY <1>2, <1>3, <1>8, GreetedKept DEF FlowInv, Requested, Inbox, ClientRunning
<1>10. Moving'
  BY <1>7 DEF Moving
<1> QED BY <1>9, <1>10 DEF FlowInv

LEMMA ClientFlows ==
  ASSUME PlaceInv, ResultInv, FlowInv, OnlyLoss, UNCHANGED managerVars,
         NEW c \in ClientProcs, ClientNext(c)
  PROVE  FlowInv'
<1>1. ~ClientTimerReads(c) /\ ~ClientTimerExits(c) /\ ~KillClient(c)
  BY DEF OnlyLoss, ClientTimerReads, ClientTimerExits, KillClient, ResultInv, ClientsUp
<1> QED BY <1>1, StartFlows, QuietClientFlows, HandshakeFlows, ReceiveResultFlows,
           AcknowledgeFlows DEF ClientNext, ClientMain

\* The client that is answered waits for nothing else.
LEMMA AcceptFlows ==
  ASSUME PlaceInv, ResultInv, FlowInv, OnlyLoss, UNCHANGED clientVars, AcceptClient
  PROVE  FlowInv'
<1>1. PICK c \in ClientProcs :
        /\ clientPc[c] = "handshake"
        /\ clientPort[c] \in ClientZone \cap DOMAIN net /\ Inbox(clientPort[c]) = {}
        /\ 1 \in Inbox(ClientReceivePort)
        /\ net[ClientReceivePort][1].body = Request(c)
        /\ net' = Sent(Taken(ClientReceivePort, 1), ClientReceivePort,
                       clientPort[c], ClientInitialized)
  BY RequestAccepted DEF ResultInv
<1>2. PICK p : p = clientPort[c]
  OBVIOUS
<1>3. /\ \A q \in DOMAIN net : q # ClientReceivePort /\ q # p => net'[q] = net[q]
      /\ Inbox(p)' = {1} /\ net'[p][1].body = ClientInitialized
  BY <1>1, <1>2, Answered
<1>4. UNCHANGED <<clientPc, clientPort, workers, ClientsocketMtx>>
  BY DEF AcceptClient, clientVars
<1>5. Waits(c)'
  BY <1>2, <1>3, <1>4 DEF Waits, Inbox
<1>6. /\ ClientReceivePort \in DOMAIN net /\ ClientReceivePort # p
      /\ WaitPort \in DOMAIN net /\ WaitPort # ClientReceivePort /\ WaitPort # p
      /\ \A d \in ClientProcs : d # c /\ ClientRunning(d) =>
           clientPort[d] \in DOMAIN net /\ clientPort[d] # ClientReceivePort /\ clientPort[d] # p
  BY <1>1, <1>2, ClientSockets DEF ClientRunning
<1>7. /\ net'[WaitPort] = net[WaitPort]
      /\ \A d \in ClientProcs : d # c /\ ClientRunning(d) => net'[clientPort[d]] = net[clientPort[d]]
  BY <1>3, <1>6
<1>8. ASSUME NEW d \in ClientProcs, d # c, Requested(d) PROVE Requested(d)'
  <2>1. PICK N : N = net[ClientReceivePort]
    OBVIOUS
  <2>2. net'[ClientReceivePort] = RemoveAt(N, 1)
    <3>1. Taken(ClientReceivePort, 1)[ClientReceivePort] = RemoveAt(N, 1)
      BY <1>6, <2>1, TakenThere
    <3>2. ClientReceivePort \in DOMAIN Taken(ClientReceivePort, 1)
      BY <1>6 DEF Taken
    <3> QED BY <1>1, <1>2, <1>6, <3>1, <3>2, SentElsewhere
  <2>3. PICK i \in 1..Len(N) : N[i].body = Request(d)
    BY <1>8, <2>1 DEF Requested, Inbox
  <2>4. i # 1
    BY <1>1, <1>8, <2>1, <2>3, RequestsDiffer
  <2>5. N \in Seq(Expected(ClientReceivePort)) /\ 1 \in 1..Len(N)
    BY <1>1, <1>6, <2>1, InboxTyped DEF Inbox
  <2>6. PICK j \in 1..Len(RemoveAt(N, 1)) : RemoveAt(N, 1)[j] = N[i]
    BY <2>4, <2>5, RestStays
  <2> QED BY <2>2, <2>3, <2>6 DEF Requested, Inbox, Request
<1>9. Greeted'
  BY <1>4, <1>5, <1>7, <1>8, GreetedKept DEF FlowInv, ClientRunning
<1>10. Moving'
  <2>1. PICK h : h = Holder.client
    OBVIOUS
  <2>2. UNCHANGED ClientsocketMtx /\ Holder' = Holder
    BY <1>4 DEF Holder
  <2>3. ClientsocketMtx # 0 => h \in ClientProcs
    BY <2>1, HolderOwner DEF ResultInv
  <2>4. ASSUME ClientsocketMtx # 0, ClientRunning(h), Delivered(h)
        PROVE  ClientRunning(h)' /\ Delivered(h)'
    <3>1. h # c
      BY <1>1, <2>4 DEF Delivered
    <3> QED BY <1>4, <1>7, <2>2, <2>3, <2>4, <3>1, DeliveredSame DEF ClientRunning
  <2> QED BY <1>4, <1>7, <2>1, <2>2, <2>4, MovingKept DEF FlowInv, Inbox
<1> QED BY <1>9, <1>10 DEF FlowInv

\* The result arrives.
LEMMA SendResultFlows ==
  ASSUME PlaceInv, ResultInv, RepliesMatch, FlowInv, UNCHANGED clientVars,
         NEW t \in WorkerIds, SendResult(t)
  PROVE  FlowInv'
<1>1. PICK c, e, p : c = workers[t].process.client /\ e = workers[t].process /\ p = clientPort[c]
  OBVIOUS
<1>2. /\ c \in ClientProcs /\ e \in CommandsOf(c)
      /\ clientObj[workers[t].client].endPoint = p
      /\ clientPc[c] \notin {"off", "noPort"} /\ ~Requested(c)
  BY <1>1, TaskOwner DEF ResultInv, Owner
<1>3. /\ workers[t].pc = "lock" /\ workers'[t].process = e /\ ClientsocketMtx' = t
  BY <1>1, Goes, KeepsTask DEF SendResult
<1>4. workers[t].exeResult = Output(e) /\ ~Printed(e)
  BY <1>1, <1>3 DEF RepliesMatch, ResultInv, PrintOnce, Early
<1>5. ClientRunning(c)
  <2>1. clientPc[c] \in ClientPcs
    BY <1>2 DEF PlaceInv, ClientInv, ClientTypeOK
  <2>2. clientPc[c] # "done"
    BY <1>2, <1>4 DEF ResultInv, PrintOnce
  <2>3. clientPc[c] \notin {"timedOut", "killed"}
    BY <1>2 DEF ResultInv, ClientsUp
  <2> QED BY <1>2, <2>1, <2>2, <2>3 DEF ClientPcs, ClientRunning
<1>6. net' = Sent(net, ClientReceivePort, p, Output(e))
  BY <1>2, <1>4 DEF SendResult
<1>7. /\ p \in DOMAIN net /\ p # ClientReceivePort
      /\ \A q \in DOMAIN net : q # p => net'[q] = net[q]
  BY <1>1, <1>2, <1>5, <1>6, ClientSockets, SentElsewhere
<1>8. PICK N, M : N = net[p] /\ M = net'[p]
  OBVIOUS
<1>9. PICK last : /\ 1..Len(M) = 1..Len(N) \cup {last}
                  /\ M[last].body = Output(e)
                  /\ \A i \in 1..Len(N) : M[i] = N[i]
  <2>1. net[p] \in Seq(Expected(p))
    BY <1>7, InboxTyped
  <2>2. Grown(net'[p], net[p], [src |-> ClientReceivePort, body |-> Output(e)])
    BY <1>6, <1>7, <2>1, SentThere
  <2> QED BY <1>8, <2>2 DEF Grown
<1>10. UNCHANGED <<clientPc, clientPort>>
  BY DEF clientVars
<1>11. Greeted'
  <2>1. clientPc[c] = "handshake" => Waits(c)'
    <3>1. clientPc[c] = "handshake" => 1 \in 1..Len(N) /\ N[1].body = ClientInitialized
      BY <1>1, <1>2, <1>8 DEF FlowInv, Greeted, Waits, Inbox
    <3> QED BY <1>1, <1>8, <1>9, <1>10, <3>1 DEF Waits, Inbox
  <2>2. ClientReceivePort \in DOMAIN net /\ \A d \in ClientProcs : d # c /\ ClientRunning(d) =>
          clientPort[d] \in DOMAIN net /\ clientPort[d] # p
    BY <1>1, <1>2, <1>5, ClientSockets
  <2>3. /\ net'[ClientReceivePort] = net[ClientReceivePort]
        /\ \A d \in ClientProcs : d # c /\ ClientRunning(d) => net'[clientPort[d]] = net[clientPort[d]]
    BY <1>7, <2>2
  <2> QED BY <1>10, <2>1, <2>3, GreetedKept DEF FlowInv, Requested, Inbox, ClientRunning
<1>12. Moving'
  <2>1. Holder' = e /\ ClientRunning(c)'
    BY <1>3, <1>5, <1>10 DEF Holder, ClientRunning
  <2>2. \E i \in 1..Len(M) : M[i].body = Output(e)
    BY <1>9
  <2>3. clientPort'[c] = p
    BY <1>1, <1>10
  <2> QED BY <1>1, <1>8, <2>1, <2>2, <2>3 DEF Moving, Delivered, Inbox, Output
<1> QED BY <1>11, <1>12 DEF FlowInv

\* The mutex is free again.
LEMMA ReceiveAckFlows ==
  ASSUME PlaceInv, FlowInv, UNCHANGED clientVars, NEW t \in WorkerIds, ReceiveAck(t)
  PROVE  FlowInv'
<1>1. PICK i : net' = Taken(WaitPort, i)
  BY DEF ReceiveAck
<1>2. /\ net'[ClientReceivePort] = net[ClientReceivePort]
      /\ \A d \in ClientProcs : ClientRunning(d) => net'[clientPort[d]] = net[clientPort[d]]
  BY <1>1, TakenElsewhere, ClientSockets
<1>3. UNCHANGED <<clientPc, clientPort>> /\ ClientsocketMtx' = 0
  BY DEF clientVars, ReceiveAck
<1>4. Greeted'
  BY <1>2, <1>3, GreetedKept DEF FlowInv, Requested, Inbox, ClientRunning
<1>5. Moving'
  BY <1>3 DEF Moving
<1> QED BY <1>4, <1>5 DEF FlowInv

LEMMA WorkerFlows ==
  ASSUME PlaceInv, ResultInv, RepliesMatch, FlowInv, UNCHANGED clientVars,
         NEW t \in WorkerIds, WorkerNext(t)
  PROVE  FlowInv'
<1>1. CASE SendResult(t)
  BY <1>1, SendResultFlows
<1>2. CASE ReceiveAck(t)
  BY <1>2, ReceiveAckFlows
<1>3. CASE SendCommand(t) \/ ReceiveReply(t) \/ DeleteClient(t) \/ ReturnServer(t)
  <2>1. QuietSame
    BY <1>3, WorkerQuietly
  <2>2. UNCHANGED ClientsocketMtx
    BY <1>3 DEF SendCommand, ReceiveReply, DeleteClient, ReturnServer
  <2>3. PICK pc : Moved(t, pc) /\ workers'[t].process = workers[t].process
    <3>1. CASE ReceiveReply(t)
      <4>1. PICK b : workers' = [workers EXCEPT ![t].pc = "lock", ![t].exeResult = b]
        BY <3>1 DEF ReceiveReply
      <4> QED BY <3>1, <4>1, RepliedMoves, RepliedTask
    <3>2. CASE SendCommand(t) \/ DeleteClient(t) \/ ReturnServer(t)
      <4>1. PICK from, to : WorkerGoto(t, from, to)
        BY <3>2 DEF SendCommand, DeleteClient, ReturnServer
      <4> QED BY <4>1, Goes, KeepsTask
    <3> QED BY <1>3, <3>1, <3>2
  <2>4. ClientsocketMtx # 0 => Holder' = Holder
    BY <2>2, <2>3, WorkersAre DEF Moved, Holder
  <2> QED BY <2>1, <2>2, <2>4, FlowKept DEF ResultInv
<1> QED BY <1>1, <1>2, <1>3 DEF WorkerNext

LEMMA ManagerFlows ==
  ASSUME PlaceInv, ResultInv, RepliesMatch, FlowInv, OnlyLoss, UNCHANGED clientVars, ManagerNext
  PROVE  FlowInv'
<1>1. CASE AcceptClient
  BY <1>1, AcceptFlows
<1>2. CASE InitializeServer
  <2>1. UNCHANGED <<workers, ClientsocketMtx>>
    BY <1>2 DEF InitializeServer
  <2> QED BY <1>2, <2>1, InitializeQuietly, FlowKept DEF ResultInv, Holder
<1>3. CASE GetClient \/ PopProcess \/ LeaveClient \/ ReadDeletedClient
  <2>1. UNCHANGED <<net, workers, ClientsocketMtx>>
    BY <1>3 DEF GetClient, PopProcess, LeaveClient, ReadDeletedClient, netVars
  <2>2. QuietSame
    BY <2>1 DEF QuietSame
  <2> QED BY <2>1, <2>2, FlowKept DEF ResultInv, Holder
<1>4. CASE Dispatch
  <2>1. UNCHANGED <<net, ClientsocketMtx>>
    BY <1>4 DEF Dispatch, netVars
  <2>2. QuietSame
    BY <2>1 DEF QuietSame
  <2>3. \A u \in WorkerIds : workers'[u] = workers[u]
    BY <1>4, TaskAdded
  <2>4. ClientsocketMtx # 0 => Holder' = Holder
    BY <2>1, <2>3, WorkersAre DEF Holder
  <2> QED BY <2>1, <2>2, <2>4, FlowKept DEF ResultInv
<1>5. ASSUME NEW t \in WorkerIds, WorkerNext(t) PROVE FlowInv'
  BY <1>5, WorkerFlows
<1> QED BY <1>1, <1>2, <1>3, <1>4, <1>5 DEF ManagerNext, MainNext

LEMMA FlowNext ==
  ASSUME PlaceInv, TalkInv, ResultInv, FlowInv, NoFaults, [Next]_vars
  PROVE  FlowInv'
<1>1. OnlyLoss /\ RepliesMatch
  BY NoFaultsNoLoss DEF TalkInv
<1>2. CASE ManagerStep(ManagerNext)
  BY <1>1, <1>2, ManagerFlows DEF ManagerStep
<1>3. ASSUME NEW c \in ClientProcs, ClientStep(ClientNext(c)) PROVE FlowInv'
  BY <1>1, <1>3, ClientFlows DEF ClientStep
<1>4. ASSUME NEW s \in ServerProcs, ServerStep(ServerNext(s)) PROVE FlowInv'
  <2>1. ServerNext(s) /\ UNCHANGED <<clientVars, workers, ClientsocketMtx>>
    BY <1>4 DEF ServerStep, managerVars
  <2> QED BY <2>1, ServerQuietly, FlowKept DEF ResultInv, Holder
<1>5. ~NetworkStep(NetworkNext)
  BY DEF NetworkStep, NetworkNext, Lose, Duplicate, NoFaults
<1>6. CASE UNCHANGED vars
  <2>1. UNCHANGED <<net, clientVars, workers, ClientsocketMtx>>
    BY <1>6 DEF vars, netVars, managerVars
  <2>2. QuietSame
    BY <2>1 DEF QuietSame
  <2> QED BY <2>1, <2>2, FlowKept DEF ResultInv, Holder
<1> QED BY <1>2, <1>3, <1>4, <1>5, <1>6 DEF Next

\* The inductive invariant of a faultless network: who has asked is answered
\* first, and a result or its acknowledgement is under way.
THEOREM FlowInvariant == ASSUME NoFaults PROVE SafetySpec => []FlowInv
<1>1. Init => FlowInv
  <2> SUFFICES ASSUME Init PROVE FlowInv
    OBVIOUS
  <2>1. ClientsocketMtx = 0 /\ \A c \in ClientProcs : clientPc[c] = "off"
    BY DEF Init, ClientInit, ManagerInit
  <2> QED BY <2>1 DEF FlowInv, Greeted, Moving
<1>2. PlaceInv /\ TalkInv /\ ResultInv /\ FlowInv /\ [Next]_vars => FlowInv'
  BY FlowNext
<1> QED BY <1>1, <1>2, NoFaultsNoLoss, LossAndNoKills, PlaceInvariant, TalkInvariant,
           ResultInvariant, PTL DEF SafetySpec

\* What is under way is the result of the holder of Clientsocket_mtx or the
\* acknowledgement of it, one of them.
LEMMA OneUnderWay ==
  ASSUME PlaceInv, ResultInv
  PROVE  /\ ClientsocketMtx = 0 => UnderWay = {}
         /\ \A a, b \in UnderWay : a = b
         /\ ClientsocketMtx # 0 /\ Moving => UnderWay # {}
<1> DEFINE h == Holder.client
<1>1. ASSUME NEW u
      PROVE  u \in UnderWay <=>
               \/ \E c \in ClientProcs : ClientRunning(c) /\ \E i \in Inbox(clientPort[c]) :
                    u = <<c, i>> /\ net[clientPort[c]][i].body \in Outputs
               \/ \E c \in ClientProcs : clientPc[c] = "ack" /\ u = <<c, 0>>
               \/ \E i \in Inbox(WaitPort) : u = <<WaitPort, i>>
  BY DEF UnderWay, InFlight, Inbox
<1>2. ClientInitialized \notin Outputs
  BY OutputIsNoAnswer DEF Outputs
<1>3. ASSUME NEW c \in ClientProcs, ClientRunning(c), NEW i \in Inbox(clientPort[c]),
             net[clientPort[c]][i].body \in Outputs
      PROVE  /\ ClientsocketMtx # 0 /\ c = h /\ Silent
             /\ net[clientPort[c]][i].body = Output(Holder)
  BY <1>2, <1>3 DEF ResultInv, Deliveries, Receiving, Greeting, Result
<1>4. ASSUME NEW c \in ClientProcs, clientPc[c] = "ack"
      PROVE  ClientsocketMtx # 0 /\ c = h /\ Inbox(WaitPort) = {} /\ ~Silent
  BY <1>4 DEF ResultInv, Deliveries, Acknowledging, Silent
<1>5. ASSUME NEW i \in Inbox(WaitPort)
      PROVE  ClientsocketMtx # 0 /\ i = 1 /\ ~Silent
  BY DEF ResultInv, Deliveries, Acknowledged, Silent
<1>6. ClientsocketMtx = 0 => UnderWay = {}
  BY <1>1, <1>3, <1>4, <1>5
<1>7. ASSUME NEW a \in UnderWay, NEW b \in UnderWay PROVE a = b
  <2>1. CASE Silent
    <3>1. PICK i \in Inbox(clientPort[h]) :
            a = <<h, i>> /\ net[clientPort[h]][i].body = Output(Holder) /\ ClientRunning(h)
      BY <1>1, <1>3, <1>4, <1>5, <2>1
    <3>2. PICK j \in Inbox(clientPort[h]) :
            b = <<h, j>> /\ net[clientPort[h]][j].body = Output(Holder)
      BY <1>1, <1>3, <1>4, <1>5, <2>1
    <3>3. h \in ClientProcs
      BY <1>1, <1>3, <1>4, <1>5, <2>1
    <3>4. i = j
      BY <3>1, <3>2, <3>3 DEF ResultInv, Deliveries, Receiving
    <3> QED BY <3>1, <3>2, <3>4
  <2>2. CASE ~Silent /\ Inbox(WaitPort) = {}
    <3>1. a = <<h, 0>> /\ b = <<h, 0>>
      BY <1>1, <1>3, <1>4, <2>2
    <3> QED BY <3>1
  <2>3. CASE ~Silent /\ Inbox(WaitPort) # {}
    <3>1. a = <<WaitPort, 1>> /\ b = <<WaitPort, 1>>
      BY <1>1, <1>3, <1>4, <1>5, <2>3
    <3> QED BY <3>1
  <2> QED BY <2>1, <2>2, <2>3
<1>8. ASSUME ClientsocketMtx # 0, Moving PROVE UnderWay # {}
  <2>1. h \in ClientProcs /\ Output(Holder) \in Outputs
    BY <1>8, HolderOwner, CommandClient DEF ResultInv, Outputs, Runnable
  <2>2. CASE ClientRunning(h) /\ Delivered(h)
    <3>1. PICK i \in Inbox(clientPort[h]) : net[clientPort[h]][i].body = Output(Holder)
      BY <2>2 DEF Delivered
    <3>2. <<h, i>> \in UnderWay
      BY <1>1, <2>1, <2>2, <3>1
    <3> QED BY <3>2
  <2>3. CASE clientPc[h] = "ack"
    <3>1. <<h, 0>> \in UnderWay
      BY <1>1, <2>1, <2>3
    <3> QED BY <3>1
  <2>4. CASE 1 \in Inbox(WaitPort)
    <3>1. <<WaitPort, 1>> \in UnderWay
      BY <1>1, <2>4
    <3> QED BY <3>1
  <2> QED BY <1>8, <2>2, <2>3, <2>4 DEF Moving
<1> QED BY <1>6, <1>7, <1>8

\* Between a result and its acknowledgement one datagram is under way: the
\* result, until its client prints it, and then the acknowledgement.
THEOREM AlwaysStopAndWait == ASSUME NoFaults PROVE SafetySpec => []StopAndWait
<1>1. ASSUME PlaceInv, ResultInv, FlowInv PROVE StopAndWait
  <2>1. CASE ClientsocketMtx = 0
    BY <1>1, <2>1, OneUnderWay, FS_EmptySet DEF StopAndWait
  <2>2. CASE ClientsocketMtx # 0
    <3>1. UnderWay # {} /\ \A a, b \in UnderWay : a = b
      BY <1>1, <2>2, OneUnderWay DEF FlowInv
    <3>2. PICK u : UnderWay = {u}
      BY <3>1
    <3>3. Cardinality(UnderWay) = 1
      BY <3>2, FS_Singleton
    <3> QED BY <2>2, <3>3 DEF StopAndWait
  <2> QED BY <2>1, <2>2
<1>2. PlaceInv /\ ResultInv /\ FlowInv => StopAndWait
  BY <1>1
<1> QED BY <1>2, NoFaultsNoLoss, PlaceInvariant, ResultInvariant, FlowInvariant, PTL

==============================================================================
