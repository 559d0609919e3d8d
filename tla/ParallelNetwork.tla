--------------------------- MODULE ParallelNetwork ---------------------------
(***************************************************************************)
(* The whole system: one load manager, the process servers and the clients *)
(* around the network.                                                     *)
(***************************************************************************)
EXTENDS Client, ProcessServer, LoadManager, FiniteSets

CONSTANT Threads  \* the workers fairness is stated for: at least all there are

vars == <<netVars, clientVars, serverVars, managerVars>>

Init == NetworkInit /\ ClientInit /\ ServerInit /\ ManagerInit

\* The steps of each program, the others keeping still.  The model ends with
\* the load manager: what is left could only wait, or time out.
ClientStep(A)  == manager = "running" /\ A /\ UNCHANGED <<serverVars, managerVars>>
ServerStep(A)  == manager = "running" /\ A /\ UNCHANGED <<clientVars, managerVars>>
ManagerStep(A) == manager = "running" /\ A /\ UNCHANGED <<clientVars, serverVars>>
NetworkStep(A) == manager = "running" /\ A /\ UNCHANGED <<clientVars, serverVars, managerVars>>

Next == \/ \E c \in ClientProcs : ClientStep(ClientNext(c))
        \/ \E s \in ServerProcs : ServerStep(ServerNext(s))
        \/ ManagerStep(ManagerNext)
        \/ NetworkStep(NetworkNext)

SafetySpec == Init /\ [][Next]_vars

(***************************************************************************)
(* Every thread that is not blocked gets to run, and the process servers   *)
(* are started, as usage.txt asks.  Starting a client is its user's        *)
(* choice; no fault ever has to happen.  A worker takes Clientsocket_mtx   *)
(* once, so weak fairness is enough for it to have its turn.               *)
(***************************************************************************)
Fairness ==
  /\ \A c \in ClientProcs : WF_vars(ClientStep(ClientMain(c)))
  /\ \A s \in ServerProcs : WF_vars(ServerStep(StartServer(s) \/ ServerMain(s)))
  /\ WF_vars(ManagerStep(InitializeServer))
  /\ WF_vars(ManagerStep(AcceptClient))
  /\ WF_vars(ManagerStep(MainNext))
  /\ \A t \in Threads : WF_vars(t \in WorkerIds /\ ManagerStep(WorkerNext(t)))

Spec == SafetySpec /\ Fairness

-----------------------------------------------------------------------------
(* Types                                                                   *)

\* What a worker can read from the socket of its server.
Replies == Runnable \cup Outputs

Requests == {Request(c) : c \in ClientProcs}

Bodies == Replies \cup Requests \cup {InitMessage, ClientInitialized, NextResult}

Datagrams == [src : Nat, body : Bodies]

NetworkTypeOK == /\ \A p \in DOMAIN net : p \in Nat /\ net[p] \in Seq(Datagrams)
                 /\ duplicates \in Nat

ClientTypeOK == /\ clientPc \in [ClientProcs -> ClientPcs]
                /\ clientTimer \in [ClientProcs -> {"off", "asleep", "expired"}]
                /\ clientPort \in [ClientProcs -> Nat]
                /\ results \in [ClientProcs -> Seq(Bodies)]

ServerTypeOK == /\ serverPc \in [ServerProcs -> ServerPcs]
                /\ serverTimer \in [ServerProcs -> {"off", "asleep", "expired"}]
                /\ serverPort \in [ServerProcs -> Nat]
                /\ job \in [ServerProcs -> Datagrams \cup {NoJob}]
                /\ ran \in [ServerProcs -> Seq(Bodies)]

ClientObjects == [endPoint : Nat, ProcessQueue : Seq(Commands),
                  processCount : Nat, deleted : BOOLEAN]

WorkerRecords == [pc : WorkerPcs, process : Commands, server : ServerIds,
                  client : ClientIds, exeResult : Replies \cup {NoResult}]

ManagerTypeOK == /\ manager \in {"running", "terminated", "undefined"}
                 /\ serverEndPoint \in Seq(Nat)
                 /\ clientObj \in Seq(ClientObjects)
                 /\ Clients \in Seq(ClientIds)
                 /\ serverQueue \in Seq(ServerIds)
                 /\ mainPc \in {"get", "test", "dispatch"}
                 /\ currentClient \in ClientIds \cup {0}
                 /\ process \in Commands \cup {NoProcess}
                 /\ workers \in Seq(WorkerRecords)
                 /\ ClientsocketMtx \in WorkerIds \cup {0}

\* Every variable has its type: in particular processCount, a size_t, is
\* never decremented below 0.
TypeOK == NetworkTypeOK /\ ClientTypeOK /\ ServerTypeOK /\ ManagerTypeOK

-----------------------------------------------------------------------------
(* What holds whatever the network loses, duplicates or reorders, and      *)
(* whoever is killed or times out.                                         *)

\* The ports that findOpenPort can give clients and process servers while the
\* load manager runs.  The manager's own sockets for the servers are among
\* the latter: it binds 9002, 9003, ... and ends before it gets to 9999.
ClientZone   == 1..(ClientReceivePort - 1)
ServerZone   == (WaitPort + 1)..(InitializationPort - 1)
ManagerPorts == {ManagerPort(k) : k \in ServerIds}

\* The datagrams that the reader of port p is prepared to receive.
Expected(p) ==
  CASE p = ClientReceivePort  -> [src : ClientZone, body : Requests]
    [] p = WaitPort           -> [src : ClientZone, body : {NextResult}]
    [] p = InitializationPort -> [src : ServerZone, body : {InitMessage}]
    [] p \in ClientZone       -> [src : {ClientReceivePort},
                                  body : {ClientInitialized} \cup Replies]
    [] p \in ManagerPorts     -> [src : ServerZone, body : Replies]
    [] OTHER                  -> [src : ManagerPorts, body : Runnable]

\* No program checks what it receives or from whom.  Still the load manager
\* parses nothing but requests, process servers run nothing but commands and
\* the manager's greeting, and every reply goes to a socket of the manager,
\* although ports are reused and endpoints are overwritten on every receipt.
DatagramsExpected == \A p \in Bound : \A i \in 1..Len(net[p]) : net[p][i] \in Expected(p)

\* Each socket belongs to one owner: processes find a port of their own, and
\* the sockets of the manager are never among those they find or release.
PortsExclusive ==
  /\ \A c \in ClientProcs : ClientRunning(c) => clientPort[c] \in ClientZone \cap Bound
  /\ \A s \in ServerProcs :
       ServerRunning(s) => serverPort[s] \in (ServerZone \cap Bound) \ ManagerPorts
  /\ \A c, d \in ClientProcs :
       (ClientRunning(c) /\ ClientRunning(d) /\ clientPort[c] = clientPort[d]) => c = d
  /\ \A r, s \in ServerProcs :
       (ServerRunning(r) /\ ServerRunning(s) /\ serverPort[r] = serverPort[s]) => r = s
  /\ {ClientReceivePort, WaitPort, InitializationPort} \cup ManagerPorts \subseteq Bound
  /\ ManagerPorts \subseteq ServerZone

Elements(s) == {s[i] : i \in 1..Len(s)}

\* The workers that use their server, and those that use their client.
HasServer(t) == workers[t].pc # "done"
HasClient(t) == workers[t].pc \in {"send", "reply", "lock", "ack", "delete"}

\* The workers whose result client k has not acknowledged.
Unacknowledged(k) == {t \in WorkerIds : /\ workers[t].client = k
                                        /\ workers[t].pc \in {"send", "reply", "lock", "ack"}}

\* The commands of client k that main has popped but not given to a worker.
Popped(k) == IF mainPc = "dispatch" /\ currentClient = k THEN 1 ELSE 0

\* A ProcessServer object is given to one worker at a time, and it is in the
\* queue of free servers, once, exactly when no worker has it: main takes it
\* out for the worker, and processExecutable puts it back when it is done with
\* it, on every path.  None is lost between the two, whatever becomes of the
\* process behind it.
ServerExclusive ==
  /\ \A i, j \in 1..Len(serverQueue) : serverQueue[i] = serverQueue[j] => i = j
  /\ \A t, u \in WorkerIds :
       (HasServer(t) /\ HasServer(u) /\ workers[t].server = workers[u].server) => t = u
  /\ \A k \in ServerIds :
       k \in Elements(serverQueue)
         <=> \A t \in WorkerIds : HasServer(t) => workers[t].server # k

\* processCount is the number of results the client has still to acknowledge,
\* although accept, main and the workers all change what it counts.
CountMatchesWork ==
  \A k \in ClientIds :
    clientObj[k].processCount =
      Len(clientObj[k].ProcessQueue) + Popped(k) + Cardinality(Unacknowledged(k))

\* "deletes client after all results have been sent": no worker holds a
\* client that was deleted, none is given one, and no client is deleted twice.
WorkersUseLiveClients ==
  /\ \A t \in WorkerIds : HasClient(t) => ~clientObj[workers[t].client].deleted
  /\ mainPc = "dispatch" => ~clientObj[currentClient].deleted
  /\ \A t, u \in WorkerIds :
       (workers[t].pc = "delete" /\ HasClient(u) /\ workers[u].client = workers[t].client)
         => t = u

\* Clientsocket_mtx is held by the worker between its result and the
\* acknowledgement of it, and by no other.
OneSender == \A t \in WorkerIds : workers[t].pc = "ack" <=> ClientsocketMtx = t

-----------------------------------------------------------------------------
(* What the programs guarantee together, when datagrams are lost at worst; *)
(* StopAndWait, ImplementsJobService and what happens eventually, when     *)
(* nothing goes wrong.                                                     *)

\* The reply a worker reads from the socket of its server is the reply to the
\* command it sent, not to an earlier one or to the greeting.
RepliesMatch ==
  \A t \in WorkerIds :
    workers[t].pc \notin {"send", "reply"} => workers[t].exeResult = Output(workers[t].process)

\* The acknowledgement a worker reads at port 9001 is for its own result: the
\* client that asked for the command has printed it by then.
AcknowledgedMeansPrinted ==
  \A t \in WorkerIds :
    workers[t].pc \in {"delete", "return", "done"}
      => workers[t].exeResult \in Elements(results[workers[t].process.client])

\* The results and acknowledgements under way: on their way to a client, in a
\* client's hands, or waiting at port 9001.
InFlight(c) == {<<c, i>> : i \in {j \in 1..Len(net[clientPort[c]]) :
                                      net[clientPort[c]][j].body \in Outputs}}

UnderWay == (UNION {InFlight(c) : c \in {d \in ClientProcs : ClientRunning(d)}})
              \cup {<<c, 0>> : c \in {d \in ClientProcs : clientPc[d] = "ack"}}
              \cup {<<WaitPort, i>> : i \in 1..Len(net[WaitPort])}

\* Stop and wait: there is one result or acknowledgement under way while
\* Clientsocket_mtx is held, and none while it is free.
StopAndWait ==
  manager = "running" =>
    Cardinality(UnderWay) = IF ClientsocketMtx = 0 THEN 0 ELSE 1

\* receive_from overwrites clientEndPoint and serverEndPoint with the source
\* of what arrived; that never redirects an object to somebody else.
EndpointsKept ==
  [][/\ \A k \in ClientIds : clientObj'[k].endPoint = clientObj[k].endPoint
     /\ \A k \in ServerIds : serverEndPoint'[k] = serverEndPoint[k]]_vars

\* The three programs implement the service: each executable is run once and
\* its output printed once by the client that asked, which then ends.
Service == INSTANCE JobService WITH
  asked   <- {c \in ClientProcs : clientPc[c] \notin {"off", "noPort"}},
  printed <- results,
  done    <- {c \in ClientProcs : clientPc[c] = "done"},
  down    <- manager # "running"

ImplementsJobService == Service!Spec

\* Lost datagrams stall the programs but make them do nothing wrong: nothing
\* is run or printed twice, or by the wrong client, and no client ends early.
LossOnlyStalls == Service!SafetySpec

\* A client that was started gets all its results, unless the manager is gone.
EveryClientFinishes ==
  \A c \in ClientProcs :
    clientPc[c] = "handshake" ~> (clientPc[c] = "done" \/ manager # "running")

\* A process server that runs a command is free again some day.
ServersComeBack ==
  \A s \in ServerProcs :
    serverPc[s] = "run" ~>
      \/ \E k \in Elements(serverQueue) : serverEndPoint[k] = serverPort[s]
      \/ manager # "running"
-----------------------------------------------------------------------------
(* What comments and documents of the repository say, and the code does    *)
(* not do.                                                                 *)

\* "deletes client after all results have been sent to client": nobody uses
\* the object any more.  main still asks it whether its queue is empty.
MainUsesLiveClient == mainPc = "test" => ~clientObj[currentClient].deleted

\* Starting a client is enough to get its results, whatever other clients do.
EveryLiveClientFinishes ==
  \A c \in ClientProcs :
    clientPc[c] = "handshake" ~> (clientPc[c] \in {"done", "killed"} \/ manager # "running")
==============================================================================
