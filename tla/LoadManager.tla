----------------------------- MODULE LoadManager -----------------------------
(***************************************************************************)
(* The program loadManager.cxx: the thread of ProcessServerInitialization, *)
(* the thread of clientAccept, the main thread, and one detached thread    *)
(* per command, the workers.  Clients and serverQueue are SafeQueues: one  *)
(* step per add and per get, which is what SafeQueue is shown to provide.  *)
(*                                                                         *)
(* The object with clientID k - 1 is clientObj[k]; the ProcessServer with  *)
(* processServerID k - 1 is serverEndPoint[k], the only field of it that   *)
(* is used.  A pointer is the index of the object it points to.            *)
(***************************************************************************)
EXTENDS Network

CONSTANT BufCommands  \* the commands of a request that fit in buf, 1024 bytes

ASSUME BufferAssumption == BufCommands \in Nat

VARIABLES
  manager,         \* "running"; "terminated" by std::terminate; "undefined"
                   \* once freed memory was read and told main anything
  serverEndPoint,  \* the ProcessServer objects; idCounter is their number
  clientObj,       \* the Client objects; clientID is their number
  Clients,         \* SafeQueue<Client*>
  serverQueue,     \* SafeQueue<ProcessServer*>
  mainPc,          \* "get": in Clients.get(); "test": at the while of
                   \* processClient; "dispatch": in serverQueue.get()
  currentClient,   \* the argument of processClient, 0 before the first
  process,         \* the command popped last
  workers,         \* the threads processExecutable, in the order of creation
  ClientsocketMtx  \* the worker that holds Clientsocket_mtx, 0 if none

managerVars == <<manager, serverEndPoint, clientObj, Clients, serverQueue,
                 mainPc, currentClient, process, workers, ClientsocketMtx>>

NoProcess == << >>
NoResult  == << >>

WorkerPcs == {"send", "reply", "lock", "ack", "delete", "return", "done"}

ClientIds == 1..Len(clientObj)
ServerIds == 1..Len(serverEndPoint)
WorkerIds == 1..Len(workers)

\* The port of the socket of ProcessServer k: 9002 + idCounter, a uint16_t.
ManagerPort(k) == (9002 + (k - 1)) % 65536

ManagerInit == /\ manager = "running"
               /\ serverEndPoint = << >>
               /\ clientObj = << >>
               /\ Clients = << >>
               /\ serverQueue = << >>
               /\ mainPc = "get"
               /\ currentClient = 0
               /\ process = NoProcess
               /\ workers = << >>
               /\ ClientsocketMtx = 0

-----------------------------------------------------------------------------
(* ProcessServerInitialization                                             *)

\* One turn of the loop.  Whatever is received, a ProcessServer is made for
\* its sender, with a socket of its own.  Binding that socket throws when the
\* port is taken, and nothing catches it.
InitializeServer ==
  /\ \E i \in Arrivals(InitializationPort) :
       LET k      == Len(serverEndPoint) + 1
           sender == net[InitializationPort][i].src
           rest   == Taken(InitializationPort, i)
       IN  IF Free(ManagerPort(k))
             THEN /\ serverEndPoint' = Append(serverEndPoint, sender)
                  /\ serverQueue' = Append(serverQueue, k)
                  /\ net' = Sent(Bind(rest, ManagerPort(k)), ManagerPort(k),
                                 sender, ProcessServerInitialized)
                  /\ UNCHANGED manager
             ELSE /\ manager' = "terminated"
                  /\ net' = rest
                  /\ UNCHANGED <<serverEndPoint, serverQueue>>
  /\ UNCHANGED <<clientObj, Clients, mainPc, currentClient, process, workers,
                 ClientsocketMtx, duplicates>>

-----------------------------------------------------------------------------
(* clientAccept                                                            *)

\* The commands in front of a '\n' in the first 1024 bytes of the request of c.
Parsed(c) ==
  [n \in 1..(IF NumCommands[c] < BufCommands THEN NumCommands[c] ELSE BufCommands)
     |-> Command(c, n)]

AcceptUncounted ==  \* mutant: pushProcess does not count the last command
  /\ \E i \in Arrivals(ClientReceivePort) :
       LET m    == net[ClientReceivePort][i]
           todo == Parsed(m.body.client)
       IN  /\ clientObj' = Append(clientObj,
                 [endPoint |-> m.src, ProcessQueue |-> todo,
                  processCount |-> Len(todo) - 1, deleted |-> FALSE])
           /\ net' = Sent(Taken(ClientReceivePort, i), ClientReceivePort, m.src,
                          ClientInitialized)
  /\ Clients' = Append(Clients, Len(clientObj) + 1)
  /\ UNCHANGED <<manager, serverEndPoint, serverQueue, mainPc, currentClient,
                 process, workers, ClientsocketMtx, duplicates>>

\* One turn of the loop: answer, make a Client with its commands, queue it.
AcceptClient ==
  /\ \E i \in Arrivals(ClientReceivePort) :
       LET m    == net[ClientReceivePort][i]
           todo == Parsed(m.body.client)
       IN  /\ clientObj' = Append(clientObj,
                 [endPoint |-> m.src, ProcessQueue |-> todo,
                  processCount |-> Len(todo), deleted |-> FALSE])
           /\ net' = Sent(Taken(ClientReceivePort, i), ClientReceivePort, m.src,
                          ClientInitialized)
  /\ Clients' = Append(Clients, Len(clientObj) + 1)
  /\ UNCHANGED <<manager, serverEndPoint, serverQueue, mainPc, currentClient,
                 process, workers, ClientsocketMtx, duplicates>>

-----------------------------------------------------------------------------
(* main and processClient                                                  *)

GetClient ==
  /\ mainPc = "get"
  /\ Clients # << >>
  /\ currentClient' = Head(Clients)
  /\ Clients' = Tail(Clients)
  /\ mainPc' = "test"
  /\ UNCHANGED <<manager, serverEndPoint, clientObj, serverQueue, process,
                 workers, ClientsocketMtx, netVars>>

\* ProcessQueue is not empty: its front is popped.
PopProcess ==
  /\ mainPc = "test"
  /\ ~clientObj[currentClient].deleted
  /\ clientObj[currentClient].ProcessQueue # << >>
  /\ process' = Head(clientObj[currentClient].ProcessQueue)
  /\ clientObj' = [clientObj EXCEPT ![currentClient].ProcessQueue = Tail(@)]
  /\ mainPc' = "dispatch"
  /\ UNCHANGED <<manager, serverEndPoint, Clients, serverQueue, currentClient,
                 workers, ClientsocketMtx, netVars>>

\* ProcessQueue is empty: processClient returns.
LeaveClient ==
  /\ mainPc = "test"
  /\ ~clientObj[currentClient].deleted
  /\ clientObj[currentClient].ProcessQueue = << >>
  /\ mainPc' = "get"
  /\ UNCHANGED <<manager, serverEndPoint, clientObj, Clients, serverQueue,
                 currentClient, process, workers, ClientsocketMtx, netVars>>

\* A worker has deleted the client: empty() reads freed memory, which says
\* either that the queue is empty or anything at all.
ReadDeletedClient ==
  /\ mainPc = "test"
  /\ clientObj[currentClient].deleted
  /\ \/ mainPc' = "get" /\ UNCHANGED manager
     \/ manager' = "undefined" /\ UNCHANGED mainPc
  /\ UNCHANGED <<serverEndPoint, clientObj, Clients, serverQueue,
                 currentClient, process, workers, ClientsocketMtx, netVars>>

Worker(s) == [pc |-> "send", process |-> process, server |-> s,
              client |-> currentClient, exeResult |-> NoResult]

DispatchWithoutTaking ==  \* mutant: the server stays in the queue
  /\ mainPc = "dispatch"
  /\ serverQueue # << >>
  /\ workers' = Append(workers, Worker(Head(serverQueue)))
  /\ mainPc' = "test"
  /\ UNCHANGED <<manager, serverEndPoint, clientObj, Clients, serverQueue,
                 currentClient, process, ClientsocketMtx, netVars>>

\* A server becomes available: a thread is created and detached.
Dispatch ==
  /\ mainPc = "dispatch"
  /\ serverQueue # << >>
  /\ workers' = Append(workers, Worker(Head(serverQueue)))
  /\ serverQueue' = Tail(serverQueue)
  /\ mainPc' = "test"
  /\ UNCHANGED <<manager, serverEndPoint, clientObj, Clients, currentClient,
                 process, ClientsocketMtx, netVars>>

-----------------------------------------------------------------------------
(* processExecutable, the thread t                                         *)

WorkerGoto(t, from, to) ==
  workers[t].pc = from /\ workers' = [workers EXCEPT ![t].pc = to]

\* receiveMessage: the command is sent from the socket of the server object.
SendCommand(t) ==
  /\ WorkerGoto(t, "send", "reply")
  /\ LET s == workers[t].server
     IN  net' = Sent(net, ManagerPort(s), serverEndPoint[s], workers[t].process)
  /\ UNCHANGED <<manager, serverEndPoint, clientObj, Clients, serverQueue,
                 mainPc, currentClient, process, ClientsocketMtx, duplicates>>

\* receiveMessage: the next datagram is the result; its source becomes the
\* endpoint of the server object.
ReceiveReply(t) ==
  /\ workers[t].pc = "reply"
  /\ LET s == workers[t].server
     IN  \E i \in Arrivals(ManagerPort(s)) :
           /\ workers' = [workers EXCEPT
                            ![t].pc = "lock",
                            ![t].exeResult = net[ManagerPort(s)][i].body]
           /\ serverEndPoint' = [serverEndPoint EXCEPT
                                   ![s] = net[ManagerPort(s)][i].src]
           /\ net' = Taken(ManagerPort(s), i)
  /\ UNCHANGED <<manager, clientObj, Clients, serverQueue, mainPc,
                 currentClient, process, ClientsocketMtx, duplicates>>

SendResultUnlocked(t) ==  \* mutant: sendMessage without its lock guard
  /\ WorkerGoto(t, "lock", "ack")
  /\ net' = Sent(net, ClientReceivePort, clientObj[workers[t].client].endPoint,
                 workers[t].exeResult)
  /\ UNCHANGED <<manager, serverEndPoint, clientObj, Clients, serverQueue,
                 mainPc, currentClient, process, ClientsocketMtx, duplicates>>

\* sendMessage: Clientsocket_mtx is acquired and the result is sent.
SendResult(t) ==
  /\ WorkerGoto(t, "lock", "ack")
  /\ ClientsocketMtx = 0
  /\ ClientsocketMtx' = t
  /\ net' = Sent(net, ClientReceivePort, clientObj[workers[t].client].endPoint,
                 workers[t].exeResult)
  /\ UNCHANGED <<manager, serverEndPoint, clientObj, Clients, serverQueue,
                 mainPc, currentClient, process, duplicates>>

DeleteAtOne(t) ==  \* mutant: the client is deleted one result early
  /\ workers[t].pc = "ack"
  /\ LET c == workers[t].client
     IN  /\ \E i \in Arrivals(WaitPort) :
              /\ clientObj' = [clientObj EXCEPT
                                 ![c].endPoint = net[WaitPort][i].src,
                                 ![c].processCount = @ - 1]
              /\ net' = Taken(WaitPort, i)
         /\ workers' = [workers EXCEPT
              ![t].pc = IF clientObj[c].processCount \in {1, 2} THEN "delete" ELSE "return"]
  /\ ClientsocketMtx' = 0
  /\ UNCHANGED <<manager, serverEndPoint, Clients, serverQueue, mainPc,
                 currentClient, process, duplicates>>

\* sendMessage: the next datagram at port 9001 is the acknowledgement; its
\* source becomes the endpoint of the client; processCount goes down and the
\* mutex is released.  The last result is followed by the delete.
ReceiveAck(t) ==
  /\ workers[t].pc = "ack"
  /\ LET c == workers[t].client
     IN  /\ \E i \in Arrivals(WaitPort) :
              /\ clientObj' = [clientObj EXCEPT
                                 ![c].endPoint = net[WaitPort][i].src,
                                 ![c].processCount = @ - 1]
              /\ net' = Taken(WaitPort, i)
         /\ workers' = [workers EXCEPT
              ![t].pc = IF clientObj[c].processCount = 1 THEN "delete" ELSE "return"]
  /\ ClientsocketMtx' = 0
  /\ UNCHANGED <<manager, serverEndPoint, Clients, serverQueue, mainPc,
                 currentClient, process, duplicates>>

DeleteAndLeave(t) ==  \* mutant: the thread ends with the delete
  /\ WorkerGoto(t, "delete", "done")
  /\ clientObj' = [clientObj EXCEPT ![workers[t].client].deleted = TRUE]
  /\ UNCHANGED <<manager, serverEndPoint, Clients, serverQueue, mainPc,
                 currentClient, process, ClientsocketMtx, netVars>>

DeleteClient(t) ==
  /\ WorkerGoto(t, "delete", "return")
  /\ clientObj' = [clientObj EXCEPT ![workers[t].client].deleted = TRUE]
  /\ UNCHANGED <<manager, serverEndPoint, Clients, serverQueue, mainPc,
                 currentClient, process, ClientsocketMtx, netVars>>

ReturnServer(t) ==
  /\ WorkerGoto(t, "return", "done")
  /\ serverQueue' = Append(serverQueue, workers[t].server)
  /\ UNCHANGED <<manager, serverEndPoint, clientObj, Clients, mainPc,
                 currentClient, process, ClientsocketMtx, netVars>>

-----------------------------------------------------------------------------
MainNext == \/ GetClient
            \/ PopProcess
            \/ LeaveClient
            \/ ReadDeletedClient
            \/ Dispatch

WorkerNext(t) == \/ SendCommand(t)
                 \/ ReceiveReply(t)
                 \/ SendResult(t)
                 \/ ReceiveAck(t)
                 \/ DeleteClient(t)
                 \/ ReturnServer(t)

ManagerNext == \/ InitializeServer
               \/ AcceptClient
               \/ MainNext
               \/ \E t \in WorkerIds : WorkerNext(t)
==============================================================================
