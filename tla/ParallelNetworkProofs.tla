------------------------ MODULE ParallelNetworkProofs ------------------------
(***************************************************************************)
(* What holds of the whole system for any number of clients, executables   *)
(* and process servers, and whatever the network and the processes do:     *)
(* every datagram is of a kind its reader understands, every socket has    *)
(* one owner, and every variable has its type.                             *)
(*                                                                         *)
(* The invariant says of each port, by its number alone, who reads it and  *)
(* what can be there: clients below 9000, process servers and the sockets  *)
(* of the manager between 9002 and 9998.  It has one part per program, and *)
(* each step of a program is shown to keep the parts it can disturb.       *)
(***************************************************************************)
EXTENDS ParallelNetwork, TLAPS, SequenceTheorems, WellFoundedInduction

WellKnown == {ClientReceivePort, WaitPort, InitializationPort}

\* The network n: its ports are in the zones, and hold what is expected.
NetworkOK(n) == /\ DOMAIN n \subseteq ClientZone \cup ServerZone \cup WellKnown
                /\ \A p \in DOMAIN n : n[p] \in Seq(Expected(p))

NetworkInv == /\ NetworkOK(net)
              /\ WellKnown \cup ManagerPorts \subseteq DOMAIN net
              /\ duplicates \in Nat

ClientInv ==
  /\ ClientTypeOK
  /\ \A c \in ClientProcs : ClientRunning(c) => clientPort[c] \in ClientZone \cap DOMAIN net
  /\ \A c, d \in ClientProcs :
       (ClientRunning(c) /\ ClientRunning(d) /\ clientPort[c] = clientPort[d]) => c = d

ServerInv ==
  /\ ServerTypeOK
  /\ \A s \in ServerProcs :
       ServerRunning(s) => serverPort[s] \in (ServerZone \cap DOMAIN net) \ ManagerPorts
  /\ \A r, s \in ServerProcs :
       (ServerRunning(r) /\ ServerRunning(s) /\ serverPort[r] = serverPort[s]) => r = s
  /\ \A s \in ServerProcs :
       serverPc[s] = "run" => job[s] \in [src : ManagerPorts, body : Runnable]

\* processCount is only known to be an integer here: that it does not go below
\* 0 follows from what it counts, CountMatchesWork.
ClientObjectsZ == [endPoint : ClientZone, ProcessQueue : Seq(Commands),
                   processCount : Int, deleted : BOOLEAN]

ObjectsOK == /\ serverEndPoint \in Seq(ServerZone)
             /\ Len(serverEndPoint) \in 0..997
             /\ clientObj \in Seq(ClientObjectsZ)

QueuesOK == Clients \in Seq(ClientIds) /\ serverQueue \in Seq(ServerIds)

MainOK == /\ manager \in {"running", "terminated", "undefined"}
          /\ mainPc \in {"get", "test", "dispatch"}
          /\ currentClient \in ClientIds \cup {0}
          /\ mainPc # "get" => currentClient \in ClientIds
          /\ process \in Commands \cup {NoProcess}
          /\ mainPc = "dispatch" => process \in Commands

WorkersOK ==
  /\ workers \in Seq(WorkerRecords)
  /\ \A t \in WorkerIds :
       workers[t].pc \notin {"send", "reply"} => workers[t].exeResult \in Replies
  /\ ClientsocketMtx \in WorkerIds \cup {0}

ManagerInv == ObjectsOK /\ QueuesOK /\ MainOK /\ WorkersOK

PlaceInv == NetworkInv /\ ClientInv /\ ServerInv /\ ManagerInv

-----------------------------------------------------------------------------
(* The zones, and what is expected in them.                                *)

LEMMA Zones ==
  /\ ClientZone = 1..8999
  /\ ServerZone = 9002..9998
  /\ WellKnown = {9000, 9001, 9999}
BY DEF ClientZone, ServerZone, WellKnown, ClientReceivePort, WaitPort, InitializationPort

\* The sockets the manager makes for process servers, up to number 997, and
\* the one it cannot make.
LEMMA ManagerPortValue == \A k \in 1..998 : ManagerPort(k) = 9001 + k
BY DEF ManagerPort

LEMMA ManagerPortInZone == \A k \in 1..997 : ManagerPort(k) \in ServerZone
BY ManagerPortValue, Zones

LEMMA LastManagerPort == ManagerPort(998) = InitializationPort
BY ManagerPortValue DEF InitializationPort

LEMMA ZonesApart ==
  /\ ClientReceivePort # WaitPort
  /\ ClientReceivePort # InitializationPort
  /\ WaitPort # InitializationPort
  /\ \A p \in ClientZone : p \notin WellKnown /\ p \notin ServerZone
  /\ \A p \in ServerZone : p \notin WellKnown
BY Zones DEF ClientReceivePort, WaitPort, InitializationPort

LEMMA IntervalWithin == \A n \in 0..997 : \A k \in 1..n : k \in 1..997
OBVIOUS

LEMMA ManagerPortsInZone ==
  ASSUME Len(serverEndPoint) \in 0..997
  PROVE  ServerIds \subseteq 1..997 /\ ManagerPorts \subseteq ServerZone
<1>1. ServerIds \subseteq 1..997
  BY IntervalWithin, Zenon DEF ServerIds
<1> QED BY <1>1, ManagerPortInZone, Zenon DEF ManagerPorts

LEMMA ExpectedAt ==
  ASSUME ManagerPorts \subseteq ServerZone
  PROVE  /\ Expected(ClientReceivePort) = [src : ClientZone, body : Requests]
         /\ Expected(WaitPort) = [src : ClientZone, body : {NextResult}]
         /\ Expected(InitializationPort) = [src : ServerZone, body : {InitMessage}]
         /\ \A p \in ClientZone :
              Expected(p) = [src : {ClientReceivePort}, body : {ClientInitialized} \cup Replies]
         /\ \A p \in ManagerPorts : Expected(p) = [src : ServerZone, body : Replies]
         /\ \A p \in ServerZone \ ManagerPorts :
              Expected(p) = [src : ManagerPorts, body : Runnable]
<1>1. /\ \A p \in ClientZone \cup ServerZone :
           p # ClientReceivePort /\ p # WaitPort /\ p # InitializationPort
      /\ \A p \in ClientZone : p \notin ServerZone
      /\ ClientReceivePort # WaitPort
      /\ ClientReceivePort # InitializationPort
      /\ WaitPort # InitializationPort
  BY ZonesApart, Zenon DEF WellKnown
<1>2. Expected(ClientReceivePort) = [src : ClientZone, body : Requests]
  BY <1>1, Zenon DEF Expected
<1>3. Expected(WaitPort) = [src : ClientZone, body : {NextResult}]
  BY <1>1, Zenon DEF Expected
<1>4. Expected(InitializationPort) = [src : ServerZone, body : {InitMessage}]
  BY <1>1, Zenon DEF Expected
<1>5. ASSUME NEW p \in ClientZone
      PROVE  Expected(p) = [src : {ClientReceivePort}, body : {ClientInitialized} \cup Replies]
  BY <1>1, Zenon DEF Expected
<1>6. ASSUME NEW p \in ManagerPorts PROVE Expected(p) = [src : ServerZone, body : Replies]
  BY <1>1, Zenon DEF Expected
<1>7. ASSUME NEW p \in ServerZone \ ManagerPorts
      PROVE  Expected(p) = [src : ManagerPorts, body : Runnable]
  BY <1>1, Zenon DEF Expected
<1> QED BY <1>2, <1>3, <1>4, <1>5, <1>6, <1>7

LEMMA ExpectedSame ==
  ASSUME Len(serverEndPoint') = Len(serverEndPoint)
  PROVE  /\ ManagerPorts' = ManagerPorts
         /\ ServerIds' = ServerIds
         /\ \A p : Expected(p)' = Expected(p)
<1>1. ServerIds' = ServerIds
  BY DEF ServerIds
<1>2. ManagerPorts' = ManagerPorts
  BY <1>1 DEF ManagerPorts, ManagerPort
<1> QED BY <1>1, <1>2, Zenon DEF Expected

-----------------------------------------------------------------------------
(* The operations on sockets.                                              *)

LEMMA RemoveAtTyped ==
  ASSUME NEW S, NEW s \in Seq(S), NEW i \in 1..Len(s)
  PROVE  RemoveAt(s, i) \in Seq(S)
<1>1. Len(s) \in Nat
  BY LenProperties
<1>2. SubSeq(s, 1, i - 1) \in Seq(S)
  BY <1>1, SubSeqProperties
<1>3. SubSeq(s, i + 1, Len(s)) \in Seq(S)
  BY <1>1, SubSeqProperties
<1> QED BY <1>2, <1>3, ConcatProperties DEF RemoveAt

LEMMA SentOK ==
  ASSUME NEW n, NetworkOK(n), NEW src, NEW dst, NEW body,
         dst \in DOMAIN n => [src |-> src, body |-> body] \in Expected(dst)
  PROVE  /\ NetworkOK(Sent(n, src, dst, body))
         /\ DOMAIN Sent(n, src, dst, body) = DOMAIN n
<1>1. DOMAIN Sent(n, src, dst, body) = DOMAIN n
  BY DEF Sent
<1>2. ASSUME NEW p \in DOMAIN n PROVE Sent(n, src, dst, body)[p] \in Seq(Expected(p))
  <2>1. n[p] \in Seq(Expected(p))
    BY DEF NetworkOK
  <2>2. CASE p = dst
    <3>1. Append(n[p], [src |-> src, body |-> body]) \in Seq(Expected(p))
      BY <2>1, <2>2, AppendProperties
    <3> QED BY <2>2, <3>1 DEF Sent
  <2>3. CASE p # dst
    BY <2>1, <2>3 DEF Sent
  <2> QED BY <2>2, <2>3
<1> QED BY <1>1, <1>2 DEF NetworkOK

LEMMA BindOK ==
  ASSUME NEW n, NetworkOK(n), NEW p \in ClientZone \cup ServerZone
  PROVE  /\ NetworkOK(Bind(n, p))
         /\ DOMAIN Bind(n, p) = DOMAIN n \cup {p}
BY DEF NetworkOK, Bind

LEMMA UnbindOK ==
  ASSUME NEW n, NetworkOK(n), NEW ps
  PROVE  /\ NetworkOK(Unbind(n, ps))
         /\ DOMAIN Unbind(n, ps) = DOMAIN n \ ps
BY DEF NetworkOK, Unbind

LEMMA TakenOK ==
  ASSUME NetworkOK(net), NEW p \in DOMAIN net, NEW i \in Arrivals(p)
  PROVE  /\ NetworkOK(Taken(p, i))
         /\ DOMAIN Taken(p, i) = DOMAIN net
         /\ net[p][i] \in Expected(p)
<1>1. net[p] \in Seq(Expected(p)) /\ i \in 1..Len(net[p])
  BY DEF NetworkOK, Arrivals
<1>2. RemoveAt(net[p], i) \in Seq(Expected(p))
  BY <1>1, RemoveAtTyped
<1>3. net[p][i] \in Expected(p)
  BY <1>1, ElementOfSeq
<1> QED BY <1>2, <1>3 DEF NetworkOK, Taken

-----------------------------------------------------------------------------
(* What a step does not touch stays as it is.                              *)

LEMMA NetworkPrimed ==
  ASSUME NetworkOK(net'), Len(serverEndPoint') = Len(serverEndPoint)
  PROVE  NetworkOK(net)'
BY ExpectedSame DEF NetworkOK

\* The index sets only grow, and what is drawn from them stays drawn from them.
LEMMA QueuesSame ==
  ASSUME QueuesOK, UNCHANGED <<Clients, serverQueue>>,
         ClientIds \subseteq ClientIds', ServerIds \subseteq ServerIds'
  PROVE  QueuesOK'
<1>1. Clients \in Seq(ClientIds')
  BY DEF QueuesOK
<1>2. serverQueue \in Seq(ServerIds')
  BY DEF QueuesOK
<1> QED BY <1>1, <1>2 DEF QueuesOK

LEMMA MainSame ==
  ASSUME MainOK, UNCHANGED <<manager, mainPc, currentClient, process>>,
         ClientIds \subseteq ClientIds'
  PROVE  MainOK'
BY DEF MainOK

LEMMA WorkersSame ==
  ASSUME WorkersOK, UNCHANGED <<workers, ClientsocketMtx>>,
         ClientIds \subseteq ClientIds', ServerIds \subseteq ServerIds'
  PROVE  WorkersOK'
<1>1. WorkerRecords \subseteq WorkerRecords'
  BY DEF WorkerRecords
<1>2. WorkerIds' = WorkerIds
  BY DEF WorkerIds
<1>3. workers \in Seq(WorkerRecords')
  BY <1>1 DEF WorkersOK
<1> QED BY <1>2, <1>3 DEF WorkersOK

LEMMA ManagerSame ==
  ASSUME ManagerInv, UNCHANGED managerVars
  PROVE  ManagerInv'
<1>1. ClientIds' = ClientIds /\ ServerIds' = ServerIds
  BY DEF managerVars, ClientIds, ServerIds
<1>2. ObjectsOK'
  BY DEF ManagerInv, ObjectsOK, managerVars
<1>3. QueuesOK' /\ MainOK' /\ WorkersOK'
  BY <1>1, QueuesSame, MainSame, WorkersSame DEF ManagerInv, managerVars
<1> QED BY <1>2, <1>3 DEF ManagerInv

LEMMA ClientSame ==
  ASSUME ClientInv, UNCHANGED clientVars, ClientZone \cap DOMAIN net \subseteq DOMAIN net'
  PROVE  ClientInv'
BY DEF ClientInv, ClientTypeOK, ClientRunning, clientVars

LEMMA ServerSame ==
  ASSUME ServerInv, UNCHANGED serverVars, ManagerPorts' = ManagerPorts,
         ServerZone \cap DOMAIN net \subseteq DOMAIN net'
  PROVE  ServerInv'
BY DEF ServerInv, ServerTypeOK, ServerRunning, serverVars

LEMMA ManagerPortsSame ==
  ASSUME UNCHANGED managerVars
  PROVE  Len(serverEndPoint') = Len(serverEndPoint) /\ ManagerPorts' = ManagerPorts
BY ExpectedSame DEF managerVars

-----------------------------------------------------------------------------
(* The steps of a client.                                                  *)

LEMMA ClientKeeps ==
  ASSUME PlaceInv, UNCHANGED <<serverVars, managerVars, duplicates>>, NetworkOK(net'),
         DOMAIN net \ ClientZone \subseteq DOMAIN net', ClientInv'
  PROVE  PlaceInv'
<1>1. Len(serverEndPoint') = Len(serverEndPoint) /\ ManagerPorts' = ManagerPorts
  BY ManagerPortsSame
<1>2. ManagerPorts \subseteq ServerZone
  BY ManagerPortsInZone DEF PlaceInv, ManagerInv, ObjectsOK
<1>3. ServerZone \cap ClientZone = {} /\ WellKnown \cap ClientZone = {}
  BY ZonesApart, Zenon
<1>4. NetworkInv'
  <2>1. NetworkOK(net)'
    BY <1>1, NetworkPrimed
  <2>2. WellKnown \cup ManagerPorts \subseteq DOMAIN net'
    BY <1>2, <1>3 DEF PlaceInv, NetworkInv
  <2> QED BY <1>1, <2>1, <2>2 DEF NetworkInv, PlaceInv
<1>5. ServerInv'
  <2>1. ServerZone \cap DOMAIN net \subseteq DOMAIN net'
    BY <1>3
  <2> QED BY <1>1, <2>1, ServerSame DEF PlaceInv
<1>6. ManagerInv'
  BY ManagerSame DEF PlaceInv
<1> QED BY <1>4, <1>5, <1>6 DEF PlaceInv

\* A client that stays where it is, or ends and closes its socket.
LEMMA ClientMoves ==
  ASSUME ClientInv, NEW c \in ClientProcs, ClientRunning(c), NEW to \in ClientPcs,
         clientPc' = [clientPc EXCEPT ![c] = to], clientPort' = clientPort,
         clientTimer' \in [ClientProcs -> {"off", "asleep", "expired"}],
         results' \in [ClientProcs -> Seq(Bodies)],
         DOMAIN net \ {clientPort[c]} \subseteq DOMAIN net',
         to \in {"handshake", "answered", "receive", "ack"} => DOMAIN net \subseteq DOMAIN net'
  PROVE  ClientInv'
<1>1. ClientTypeOK'
  BY DEF ClientInv, ClientTypeOK
<1>2. ASSUME NEW d \in ClientProcs, ClientRunning(d)'
      PROVE  ClientRunning(d) /\ clientPort[d] \in DOMAIN net'
  BY <1>2 DEF ClientInv, ClientTypeOK, ClientRunning
<1> QED BY <1>1, <1>2 DEF ClientInv

\* Results are the bodies of datagrams that clients expect.
LEMMA ClientReads ==
  ASSUME PlaceInv, NEW c \in ClientProcs, ClientRunning(c), NEW i \in Arrivals(clientPort[c])
  PROVE  /\ NetworkOK(Taken(clientPort[c], i))
         /\ DOMAIN Taken(clientPort[c], i) = DOMAIN net
         /\ net[clientPort[c]][i].body \in Bodies
<1>1. NetworkOK(net) /\ clientPort[c] \in ClientZone \cap DOMAIN net
  BY DEF PlaceInv, NetworkInv, ClientInv
<1>2. Expected(clientPort[c]) = [src : {ClientReceivePort}, body : {ClientInitialized} \cup Replies]
  BY <1>1, ExpectedAt, ManagerPortsInZone DEF PlaceInv, ManagerInv, ObjectsOK
<1>3. /\ NetworkOK(Taken(clientPort[c], i))
      /\ DOMAIN Taken(clientPort[c], i) = DOMAIN net
      /\ net[clientPort[c]][i] \in Expected(clientPort[c])
  BY <1>1, TakenOK, Zenon
<1>4. net[clientPort[c]][i].body \in {ClientInitialized} \cup Replies
  BY <1>2, <1>3
<1> QED BY <1>3, <1>4 DEF Bodies

LEMMA ClientReceives ==
  ASSUME PlaceInv, NEW c \in ClientProcs, UNCHANGED <<serverVars, managerVars>>,
         ClientHandshake(c) \/ ReceiveResult(c)
  PROVE  PlaceInv'
<1>1. ClientRunning(c)
  BY DEF ClientHandshake, ReceiveResult, ClientRunning, ClientGoto
<1>2. PICK i \in Arrivals(clientPort[c]) :
        /\ net' = Taken(clientPort[c], i)
        /\ \/ results' = results
           \/ results' = [results EXCEPT ![c] = Append(@, net[clientPort[c]][i].body)]
  BY DEF ClientHandshake, ReceiveResult
<1>3. NetworkOK(net') /\ DOMAIN net' = DOMAIN net /\ net[clientPort[c]][i].body \in Bodies
  BY <1>1, <1>2, ClientReads
<1>4. results' \in [ClientProcs -> Seq(Bodies)]
  <2>1. results \in [ClientProcs -> Seq(Bodies)]
    BY DEF PlaceInv, ClientInv, ClientTypeOK
  <2>2. Append(results[c], net[clientPort[c]][i].body) \in Seq(Bodies)
    BY <1>3, <2>1, AppendProperties
  <2> QED BY <1>2, <2>1, <2>2
<1>5. ClientInv'
  <2>1. PICK to \in {"answered", "ack"} : clientPc' = [clientPc EXCEPT ![c] = to]
    BY DEF ClientHandshake, ReceiveResult, ClientGoto
  <2>2. /\ clientPort' = clientPort
        /\ clientTimer' \in [ClientProcs -> {"off", "asleep", "expired"}]
    BY DEF PlaceInv, ClientInv, ClientTypeOK, ClientHandshake, ReceiveResult
  <2>3. ClientInv /\ to \in ClientPcs
    BY DEF PlaceInv, ClientPcs
  <2> QED BY <1>1, <1>3, <1>4, <2>1, <2>2, <2>3, ClientMoves
<1> QED BY <1>3, <1>5, ClientKeeps DEF ClientHandshake, ReceiveResult

LEMMA ClientQuiet ==
  ASSUME PlaceInv, NEW c \in ClientProcs, UNCHANGED <<serverVars, managerVars>>,
         StopClientTimer(c) \/ ClientTimerReads(c) \/ ClientFindsNoPort(c)
  PROVE  PlaceInv'
<1> USE DEF StopClientTimer, ClientTimerReads, ClientFindsNoPort, ClientGoto, netVars
<1>1. UNCHANGED <<net, duplicates, clientPort, results>>
  OBVIOUS
<1>2. ClientInv
  BY DEF PlaceInv
<1>3. ClientTypeOK'
  BY <1>2 DEF ClientInv, ClientTypeOK, ClientPcs
<1>4. \A d \in ClientProcs : ClientRunning(d)' => ClientRunning(d)
  BY <1>2 DEF ClientInv, ClientTypeOK, ClientRunning
<1>5. ClientInv'
  BY <1>1, <1>2, <1>3, <1>4 DEF ClientInv
<1>6. NetworkOK(net')
  BY <1>1 DEF PlaceInv, NetworkInv
<1> QED BY <1>1, <1>5, <1>6, ClientKeeps

\* A client sends only acknowledgements, and ends with its socket closed.
LEMMA ClientAcknowledges ==
  ASSUME PlaceInv, NEW c \in ClientProcs, UNCHANGED <<serverVars, managerVars>>, Acknowledge(c)
  PROVE  PlaceInv'
<1> DEFINE acked == Sent(net, clientPort[c], WaitPort, NextResult)
<1>1. ClientRunning(c) /\ UNCHANGED <<clientTimer, clientPort, results, duplicates>>
  BY DEF Acknowledge, ClientRunning, ClientGoto
<1>2. NetworkOK(net) /\ ClientInv /\ ClientTypeOK /\ clientPort[c] \in ClientZone
  BY <1>1 DEF PlaceInv, NetworkInv, ClientInv
<1>3. [src |-> clientPort[c], body |-> NextResult] \in Expected(WaitPort)
  <2>1. Expected(WaitPort) = [src : ClientZone, body : {NextResult}]
    BY ExpectedAt, ManagerPortsInZone DEF PlaceInv, ManagerInv, ObjectsOK
  <2> QED BY <1>2, <2>1
<1>4. NetworkOK(acked) /\ DOMAIN acked = DOMAIN net
  BY <1>2, <1>3, SentOK
<1>5. \/ clientPc' = [clientPc EXCEPT ![c] = "receive"] /\ net' = acked
      \/ clientPc' = [clientPc EXCEPT ![c] = "done"] /\ net' = Unbind(acked, {clientPort[c]})
  BY DEF Acknowledge, ClientGoto
<1>6. NetworkOK(net') /\ DOMAIN net \ {clientPort[c]} \subseteq DOMAIN net'
  <2>1. NetworkOK(Unbind(acked, {clientPort[c]}))
    BY <1>4, UnbindOK
  <2>2. DOMAIN Unbind(acked, {clientPort[c]}) = DOMAIN net \ {clientPort[c]}
    BY <1>4, UnbindOK
  <2> HIDE DEF acked
  <2> QED BY <1>4, <1>5, <2>1, <2>2
<1>7. ClientInv'
  <2>1. clientTimer' \in [ClientProcs -> {"off", "asleep", "expired"}]
        /\ results' \in [ClientProcs -> Seq(Bodies)]
    BY <1>1, <1>2 DEF ClientTypeOK
  <2>2. CASE clientPc' = [clientPc EXCEPT ![c] = "receive"] /\ net' = acked
    <3>1. "receive" \in ClientPcs
      BY DEF ClientPcs
    <3> QED BY <1>1, <1>2, <1>4, <2>1, <2>2, <3>1, ClientMoves
  <2>3. CASE clientPc' = [clientPc EXCEPT ![c] = "done"]
    <3>1. "done" \in ClientPcs
      BY DEF ClientPcs
    <3> QED BY <1>1, <1>2, <1>6, <2>1, <2>3, <3>1, ClientMoves
  <2> QED BY <1>5, <2>2, <2>3
<1>8. DOMAIN net \ ClientZone \subseteq DOMAIN net'
  BY <1>2, <1>6
<1> QED BY <1>1, <1>6, <1>7, <1>8, ClientKeeps

LEMMA ClientEnds ==
  ASSUME PlaceInv, NEW c \in ClientProcs, UNCHANGED <<serverVars, managerVars>>,
         ClientTimerExits(c) \/ KillClient(c)
  PROVE  PlaceInv'
<1> USE DEF ClientTimerExits, KillClient
<1>1. ClientRunning(c) /\ UNCHANGED <<clientTimer, clientPort, results, duplicates>>
  OBVIOUS
<1>2. NetworkOK(net) /\ ClientInv /\ ClientTypeOK /\ clientPort[c] \in ClientZone
  BY <1>1 DEF PlaceInv, NetworkInv, ClientInv
<1>3. NetworkOK(net') /\ DOMAIN net' = DOMAIN net \ {clientPort[c]}
  BY <1>2, UnbindOK
<1>4. PICK to \in {"timedOut", "killed"} : clientPc' = [clientPc EXCEPT ![c] = to]
  OBVIOUS
<1>5. ClientInv'
  <2>1. clientTimer' \in [ClientProcs -> {"off", "asleep", "expired"}]
        /\ results' \in [ClientProcs -> Seq(Bodies)]
    BY <1>1, <1>2 DEF ClientTypeOK
  <2>2. to \in ClientPcs
    BY DEF ClientPcs
  <2> QED BY <1>1, <1>2, <1>3, <1>4, <2>1, <2>2, ClientMoves
<1>6. DOMAIN net \ ClientZone \subseteq DOMAIN net'
  BY <1>2, <1>3
<1> QED BY <1>1, <1>3, <1>5, <1>6, ClientKeeps

\* A set of natural numbers that is not empty has a least member.
LEMMA LeastMember ==
  ASSUME NEW S, S \subseteq Nat, S # {}
  PROVE  \E x \in S : \A y \in S : x <= y
<1> DEFINE R == {p \in Nat \X Nat : p[1] < p[2]}
<1>1. IsWellFoundedOn(R, Nat)
  BY NatLessThanWellFounded DEF OpToRel
<1>2. PICK x \in S : \A y \in S : ~ (<<y, x>> \in R)
  <2> HIDE DEF R
  <2> QED BY <1>1, WFMin
<1>3. ASSUME NEW y \in S PROVE x <= y
  <2>1. y < x => <<y, x>> \in R
    OBVIOUS
  <2>2. ~ (y < x)
    BY <1>2, <2>1, Zenon
  <2> QED BY <2>2
<1> QED BY <1>3

\* findOpenPort of the client ends with a free port, unless there is none.
LEMMA LowestFreePortFound ==
  ASSUME ~NoneFree(ClientPortRange)
  PROVE  LowestFreePort \in ClientPortRange /\ Free(LowestFreePort)
<1> DEFINE S == {p \in ClientPortRange : Free(p)}
<1>1. ClientPortRange \subseteq Nat /\ FirstPort \in Nat /\ ClientPortRange = FirstPort..9000
  BY NetworkAssumption DEF ClientPortRange, ClientReceivePort
<1>2. S \subseteq Nat /\ S # {}
  BY <1>1 DEF NoneFree
<1>3. PICK x \in S : \A y \in S : x <= y
  <2> HIDE DEF S
  <2> QED BY <1>2, LeastMember
<1>4. ASSUME NEW q \in FirstPort..(x - 1) PROVE ~Free(q)
  <2>1. q \in ClientPortRange /\ ~(x <= q)
    BY <1>1, <1>3
  <2> QED BY <1>3, <2>1
<1>5. \E p \in ClientPortRange : Free(p) /\ \A q \in FirstPort..(p - 1) : ~Free(q)
  BY <1>3, <1>4
<1> QED BY <1>5, Zenon DEF LowestFreePort

LEMMA ClientStarts ==
  ASSUME PlaceInv, NEW c \in ClientProcs, UNCHANGED <<serverVars, managerVars>>, StartClient(c)
  PROVE  PlaceInv'
<1> DEFINE p     == LowestFreePort
           bound == Bind(net, p)
<1>1. /\ NetworkOK(net) /\ ClientInv /\ ClientTypeOK
      /\ WellKnown \subseteq DOMAIN net
  BY DEF PlaceInv, NetworkInv, ClientInv
<1>2. p \in ClientZone /\ p \notin DOMAIN net
  <2>1. p \in ClientPortRange /\ p \notin DOMAIN net
    BY LowestFreePortFound DEF StartClient, Free, Bound
  <2>2. p # 9000
    BY <1>1, <2>1, Zones
  <2>3. ClientPortRange \subseteq 1..9000
    BY NetworkAssumption DEF ClientPortRange, ClientReceivePort
  <2> HIDE DEF p
  <2> QED BY <2>1, <2>2, <2>3, Zones
<1>3. /\ clientPort' = [clientPort EXCEPT ![c] = p]
      /\ net' = Sent(bound, p, ClientReceivePort, Request(c))
      /\ clientTimer' = [clientTimer EXCEPT ![c] = "asleep"]
      /\ clientPc' = [clientPc EXCEPT ![c] = "handshake"]
      /\ UNCHANGED <<results, duplicates>>
  BY DEF StartClient, ClientGoto
<1> HIDE DEF p
<1>4. NetworkOK(bound) /\ DOMAIN bound = DOMAIN net \cup {p}
  BY <1>1, <1>2, BindOK
<1>5. [src |-> p, body |-> Request(c)] \in Expected(ClientReceivePort)
  <2>1. Expected(ClientReceivePort) = [src : ClientZone, body : Requests]
    BY ExpectedAt, ManagerPortsInZone DEF PlaceInv, ManagerInv, ObjectsOK
  <2>2. Request(c) \in Requests
    BY DEF Requests
  <2> QED BY <1>2, <2>1, <2>2
<1>6. NetworkOK(net') /\ DOMAIN net' = DOMAIN net \cup {p}
  <2> HIDE DEF bound
  <2> QED BY <1>3, <1>4, <1>5, SentOK
<1>7. ClientInv'
  <2>1. ClientTypeOK'
    <3>1. p \in Nat
      BY <1>2, Zones
    <3> QED BY <1>1, <1>3, <3>1 DEF ClientTypeOK, ClientPcs
  <2>2. ASSUME NEW d \in ClientProcs, ClientRunning(d)'
        PROVE  IF d = c THEN clientPort'[d] = p
                        ELSE clientPort'[d] = clientPort[d] /\ ClientRunning(d)
    BY <1>1, <1>3, <2>2 DEF ClientTypeOK, ClientRunning
  <2>3. \A d \in ClientProcs : ClientRunning(d)' => clientPort'[d] \in ClientZone \cap DOMAIN net'
    BY <1>1, <1>2, <1>6, <2>2 DEF ClientInv
  <2>4. \A d, e \in ClientProcs :
          (ClientRunning(d)' /\ ClientRunning(e)' /\ clientPort'[d] = clientPort'[e]) => d = e
    BY <1>1, <1>2, <2>2 DEF ClientInv
  <2> QED BY <2>1, <2>3, <2>4 DEF ClientInv
<1>8. DOMAIN net \ ClientZone \subseteq DOMAIN net'
  BY <1>6
<1> QED BY <1>3, <1>6, <1>7, <1>8, ClientKeeps

LEMMA ClientPlaces ==
  ASSUME PlaceInv, NEW c \in ClientProcs, ClientStep(ClientNext(c))
  PROVE  PlaceInv'
BY ClientReceives, ClientQuiet, ClientAcknowledges, ClientEnds, ClientStarts
   DEF ClientStep, ClientNext, ClientMain

-----------------------------------------------------------------------------
(* The steps of a process server.                                          *)

\* Process servers bind and close sockets in their zone only, and none of the
\* manager's.
LEMMA ServerKeeps ==
  ASSUME PlaceInv, UNCHANGED <<clientVars, managerVars, duplicates>>, NetworkOK(net'),
         DOMAIN net \ (ServerZone \ ManagerPorts) \subseteq DOMAIN net', ServerInv'
  PROVE  PlaceInv'
<1>1. Len(serverEndPoint') = Len(serverEndPoint) /\ ManagerPorts' = ManagerPorts
  BY ManagerPortsSame
<1>2. ServerZone \cap ClientZone = {} /\ WellKnown \cap ServerZone = {}
  BY ZonesApart, Zenon
<1>3. NetworkInv'
  <2>1. NetworkOK(net)'
    BY <1>1, NetworkPrimed
  <2>2. WellKnown \cup ManagerPorts \subseteq DOMAIN net'
    BY <1>2 DEF PlaceInv, NetworkInv
  <2> QED BY <1>1, <2>1, <2>2 DEF NetworkInv, PlaceInv
<1>4. ClientInv'
  <2>1. ClientZone \cap DOMAIN net \subseteq DOMAIN net'
    BY <1>2
  <2> QED BY <2>1, ClientSame DEF PlaceInv
<1>5. ManagerInv'
  BY ManagerSame DEF PlaceInv
<1> QED BY <1>3, <1>4, <1>5 DEF PlaceInv

\* A process server that stays where it is, or ends and closes its socket.
LEMMA ServerMoves ==
  ASSUME ServerInv, NEW s \in ServerProcs, ServerRunning(s), NEW to \in ServerPcs,
         serverPc' = [serverPc EXCEPT ![s] = to],
         UNCHANGED <<serverTimer, serverPort>>, ManagerPorts' = ManagerPorts,
         NEW j \in Datagrams \cup {NoJob}, job' = [job EXCEPT ![s] = j],
         to = "run" => j \in [src : ManagerPorts, body : Runnable],
         ran' \in [ServerProcs -> Seq(Bodies)],
         DOMAIN net \ {serverPort[s]} \subseteq DOMAIN net',
         to \in {"handshake", "answered", "receive", "run"} => DOMAIN net \subseteq DOMAIN net'
  PROVE  ServerInv'
<1>1. ServerTypeOK'
  BY DEF ServerInv, ServerTypeOK
<1>2. ASSUME NEW r \in ServerProcs, ServerRunning(r)'
      PROVE  ServerRunning(r) /\ serverPort[r] \in DOMAIN net'
  BY <1>2 DEF ServerInv, ServerTypeOK, ServerRunning
<1>3. ASSUME NEW r \in ServerProcs, serverPc'[r] = "run"
      PROVE  job'[r] \in [src : ManagerPorts, body : Runnable]
  BY <1>3 DEF ServerInv, ServerTypeOK
<1> QED BY <1>1, <1>2, <1>3 DEF ServerInv

LEMMA RunnableReplies == Runnable \subseteq Replies /\ Replies \subseteq Bodies
BY DEF Replies, Bodies

LEMMA ServerReads ==
  ASSUME PlaceInv, NEW s \in ServerProcs, ServerRunning(s), NEW i \in Arrivals(serverPort[s])
  PROVE  /\ NetworkOK(Taken(serverPort[s], i))
         /\ DOMAIN Taken(serverPort[s], i) = DOMAIN net
         /\ net[serverPort[s]][i] \in [src : ManagerPorts, body : Runnable]
<1>1. NetworkOK(net) /\ serverPort[s] \in (ServerZone \cap DOMAIN net) \ ManagerPorts
  BY DEF PlaceInv, NetworkInv, ServerInv
<1>2. Expected(serverPort[s]) = [src : ManagerPorts, body : Runnable]
  BY <1>1, ExpectedAt, ManagerPortsInZone DEF PlaceInv, ManagerInv, ObjectsOK
<1>3. /\ NetworkOK(Taken(serverPort[s], i))
      /\ DOMAIN Taken(serverPort[s], i) = DOMAIN net
      /\ net[serverPort[s]][i] \in Expected(serverPort[s])
  BY <1>1, TakenOK, Zenon
<1> QED BY <1>2, <1>3

LEMMA ServerHandshakes ==
  ASSUME PlaceInv, NEW s \in ServerProcs, UNCHANGED <<clientVars, managerVars>>,
         ServerHandshake(s)
  PROVE  PlaceInv'
<1>1. /\ ServerRunning(s)
      /\ serverPc' = [serverPc EXCEPT ![s] = "answered"]
      /\ UNCHANGED <<serverTimer, serverPort, job, ran, duplicates>>
  BY DEF ServerHandshake, ServerRunning, ServerGoto
<1>2. PICK i \in Arrivals(serverPort[s]) : net' = Taken(serverPort[s], i)
  BY DEF ServerHandshake
<1>3. NetworkOK(net') /\ DOMAIN net' = DOMAIN net
  BY <1>1, <1>2, ServerReads
<1>4. ServerInv'
  <2>1. ServerInv /\ ManagerPorts' = ManagerPorts /\ "answered" \in ServerPcs
    BY ManagerPortsSame DEF PlaceInv, ServerPcs
  <2>2. /\ job[s] \in Datagrams \cup {NoJob} /\ job' = [job EXCEPT ![s] = job[s]]
        /\ ran \in [ServerProcs -> Seq(Bodies)]
    BY <1>1, <2>1 DEF ServerInv, ServerTypeOK
  <2> QED BY <1>1, <1>3, <2>1, <2>2, ServerMoves
<1> QED BY <1>1, <1>3, <1>4, ServerKeeps

LEMMA DatagramOfManager ==
  ASSUME ManagerPorts \subseteq ServerZone
  PROVE  [src : ManagerPorts, body : Runnable] \subseteq Datagrams
<1>1. ManagerPorts \subseteq Nat
  BY Zones
<1> QED BY <1>1, RunnableReplies DEF Datagrams

LEMMA ServerReceives ==
  ASSUME PlaceInv, NEW s \in ServerProcs, UNCHANGED <<clientVars, managerVars>>,
         ReceiveCommand(s)
  PROVE  PlaceInv'
<1>1. /\ ServerRunning(s)
      /\ serverPc' = [serverPc EXCEPT ![s] = "run"]
      /\ UNCHANGED <<serverTimer, serverPort, duplicates>>
  BY DEF ReceiveCommand, ServerRunning, ServerGoto
<1>2. PICK i \in Arrivals(serverPort[s]) :
        /\ job' = [job EXCEPT ![s] = net[serverPort[s]][i]]
        /\ ran' = [ran EXCEPT ![s] = Append(@, net[serverPort[s]][i].body)]
        /\ net' = Taken(serverPort[s], i)
  BY DEF ReceiveCommand
<1> DEFINE m == net[serverPort[s]][i]
<1>3. /\ NetworkOK(net') /\ DOMAIN net' = DOMAIN net
      /\ m \in [src : ManagerPorts, body : Runnable]
  BY <1>1, <1>2, ServerReads
<1>4. ServerInv'
  <2>1. ServerInv /\ ManagerPorts' = ManagerPorts /\ "run" \in ServerPcs
    BY ManagerPortsSame DEF PlaceInv, ServerPcs
  <2>2. m \in Datagrams /\ m.body \in Bodies
    <3>1. ManagerPorts \subseteq ServerZone
      BY ManagerPortsInZone DEF PlaceInv, ManagerInv, ObjectsOK
    <3> QED BY <1>3, <3>1, DatagramOfManager, RunnableReplies
  <2> HIDE DEF m
  <2>3. ran' \in [ServerProcs -> Seq(Bodies)]
    <3>1. ran \in [ServerProcs -> Seq(Bodies)]
      BY <2>1 DEF ServerInv, ServerTypeOK
    <3>2. Append(ran[s], m.body) \in Seq(Bodies)
      BY <2>2, <3>1, AppendProperties
    <3> QED BY <1>2, <3>1, <3>2 DEF m
  <2>4. job' = [job EXCEPT ![s] = m]
    BY <1>2 DEF m
  <2> QED BY <1>1, <1>3, <2>1, <2>2, <2>3, <2>4, ServerMoves
<1> QED BY <1>1, <1>3, <1>4, ServerKeeps

LEMMA ServerQuiet ==
  ASSUME PlaceInv, NEW s \in ServerProcs, UNCHANGED <<clientVars, managerVars>>,
         StopServerTimer(s) \/ ServerTimerReads(s) \/ ServerFindsNoPort(s)
  PROVE  PlaceInv'
<1> USE DEF StopServerTimer, ServerTimerReads, ServerFindsNoPort, ServerGoto, netVars
<1>1. UNCHANGED <<net, duplicates, serverPort, job, ran>>
  OBVIOUS
<1>2. ServerInv /\ ManagerPorts' = ManagerPorts
  BY ManagerPortsSame DEF PlaceInv
<1>3. ServerTypeOK'
  BY <1>1, <1>2 DEF ServerInv, ServerTypeOK, ServerPcs
<1>4. \A r \in ServerProcs : ServerRunning(r)' => ServerRunning(r)
  BY <1>2 DEF ServerInv, ServerTypeOK, ServerRunning
<1>5. \A r \in ServerProcs : serverPc'[r] = "run" => serverPc[r] = "run"
  BY <1>2 DEF ServerInv, ServerTypeOK
<1>6. ServerInv'
  BY <1>1, <1>2, <1>3, <1>4, <1>5 DEF ServerInv
<1>7. NetworkOK(net')
  BY <1>1 DEF PlaceInv, NetworkInv
<1> QED BY <1>1, <1>6, <1>7, ServerKeeps

LEMMA ServerReplies ==
  ASSUME PlaceInv, NEW s \in ServerProcs, UNCHANGED <<clientVars, managerVars>>, Reply(s)
  PROVE  PlaceInv'
<1>1. /\ serverPc[s] = "run" /\ ServerRunning(s)
      /\ serverPc' = [serverPc EXCEPT ![s] = "receive"]
      /\ net' = Sent(net, serverPort[s], job[s].src, Output(job[s].body))
      /\ job' = [job EXCEPT ![s] = NoJob]
      /\ UNCHANGED <<serverTimer, serverPort, ran, duplicates>>
  BY DEF Reply, ServerRunning, ServerGoto
<1>2. /\ ServerInv /\ NetworkOK(net)
      /\ job[s] \in [src : ManagerPorts, body : Runnable]
      /\ serverPort[s] \in ServerZone
      /\ ManagerPorts \subseteq ServerZone
  BY <1>1, ManagerPortsInZone DEF PlaceInv, NetworkInv, ServerInv, ManagerInv, ObjectsOK
<1>3. [src |-> serverPort[s], body |-> Output(job[s].body)] \in Expected(job[s].src)
  <2>1. job[s].src \in ManagerPorts /\ job[s].body \in Runnable
    BY <1>2
  <2>2. Expected(job[s].src) = [src : ServerZone, body : Replies]
    BY <1>2, <2>1, ExpectedAt
  <2>3. Output(job[s].body) \in Replies
    BY <2>1 DEF Replies, Outputs
  <2> QED BY <1>2, <2>2, <2>3
<1>4. NetworkOK(net') /\ DOMAIN net' = DOMAIN net
  BY <1>1, <1>2, <1>3, SentOK
<1>5. ServerInv'
  <2>1. ManagerPorts' = ManagerPorts /\ "receive" \in ServerPcs
    BY ManagerPortsSame DEF ServerPcs
  <2>2. ran' \in [ServerProcs -> Seq(Bodies)]
    BY <1>1, <1>2 DEF ServerInv, ServerTypeOK
  <2> QED BY <1>1, <1>2, <1>4, <2>1, <2>2, ServerMoves
<1> QED BY <1>1, <1>4, <1>5, ServerKeeps

LEMMA ServerEnds ==
  ASSUME PlaceInv, NEW s \in ServerProcs, UNCHANGED <<clientVars, managerVars>>,
         ServerTimerExits(s) \/ KillServer(s)
  PROVE  PlaceInv'
<1> USE DEF ServerTimerExits, KillServer
<1>1. ServerRunning(s) /\ UNCHANGED <<serverTimer, serverPort, job, ran, duplicates>>
  OBVIOUS
<1>2. /\ NetworkOK(net) /\ ServerInv
      /\ serverPort[s] \in ServerZone \ ManagerPorts
  BY <1>1 DEF PlaceInv, NetworkInv, ServerInv
<1>3. NetworkOK(net') /\ DOMAIN net' = DOMAIN net \ {serverPort[s]}
  BY <1>2, UnbindOK
<1>4. PICK to \in {"timedOut", "killed"} : serverPc' = [serverPc EXCEPT ![s] = to]
  OBVIOUS
<1>5. ServerInv'
  <2>1. ManagerPorts' = ManagerPorts /\ to \in ServerPcs
    BY ManagerPortsSame DEF ServerPcs
  <2>2. /\ job[s] \in Datagrams \cup {NoJob} /\ job' = [job EXCEPT ![s] = job[s]]
        /\ ran' \in [ServerProcs -> Seq(Bodies)]
    BY <1>1, <1>2 DEF ServerInv, ServerTypeOK
  <2> QED BY <1>1, <1>2, <1>3, <1>4, <2>1, <2>2, ServerMoves
<1>6. DOMAIN net \ (ServerZone \ ManagerPorts) \subseteq DOMAIN net'
  BY <1>2, <1>3
<1> QED BY <1>1, <1>3, <1>5, <1>6, ServerKeeps

\* findOpenPort of the process server ends with a free port, unless there is
\* none.
LEMMA HighestFreePortFound ==
  ASSUME ~NoneFree(ServerPortRange)
  PROVE  HighestFreePort \in ServerPortRange /\ Free(HighestFreePort)
<1> DEFINE port(n) == InitializationPort - 1 - n
           S == {n \in 0..998 : Free(port(n))}
<1>1. ServerPortRange = 9000..9998 /\ \A n : port(n) = 9998 - n
  BY DEF ServerPortRange, ClientReceivePort, InitializationPort
<1>2. S \subseteq Nat /\ S # {}
  <2>1. PICK p \in 9000..9998 : Free(p)
    BY <1>1 DEF NoneFree
  <2>2. 9998 - p \in 0..998 /\ port(9998 - p) = p
    BY <2>1 DEF InitializationPort
  <2>3. 9998 - p \in S
    <3> HIDE DEF port
    <3> QED BY <2>1, <2>2
  <2> QED BY <2>3
<1>3. PICK n \in S : \A m \in S : n <= m
  <2> HIDE DEF S
  <2> QED BY <1>2, LeastMember
<1>4. ASSUME NEW m \in 0..(n - 1) PROVE ~Free(port(m))
  <2>1. m \in 0..998 /\ ~(n <= m)
    BY <1>3
  <2> HIDE DEF port
  <2> QED BY <1>3, <2>1
<1>5. \E k \in 0..998 : Free(port(k)) /\ \A m \in 0..(k - 1) : ~Free(port(m))
  BY <1>3, <1>4
<1>6. \E k \in 0..998 : HighestFreePort = port(k) /\ Free(port(k))
  BY <1>5, Zenon DEF HighestFreePort
<1> QED BY <1>1, <1>6

LEMMA ServerStarts ==
  ASSUME PlaceInv, NEW s \in ServerProcs, UNCHANGED <<clientVars, managerVars>>,
         StartServer(s)
  PROVE  PlaceInv'
<1> DEFINE p     == HighestFreePort
           bound == Bind(net, p)
<1>1. /\ NetworkOK(net) /\ ServerInv /\ ServerTypeOK
      /\ WellKnown \cup ManagerPorts \subseteq DOMAIN net
  BY DEF PlaceInv, NetworkInv, ServerInv
<1>2. p \in ServerZone /\ p \notin DOMAIN net
  <2>1. p \in ServerPortRange /\ p \notin DOMAIN net
    BY HighestFreePortFound DEF StartServer, Free, Bound
  <2>2. p # 9000 /\ p # 9001
    BY <1>1, <2>1, Zones
  <2>3. ServerPortRange = 9000..9998
    BY DEF ServerPortRange, ClientReceivePort, InitializationPort
  <2> HIDE DEF p
  <2> QED BY <2>1, <2>2, <2>3, Zones
<1>3. /\ serverPort' = [serverPort EXCEPT ![s] = p]
      /\ net' = Sent(bound, p, InitializationPort, InitMessage)
      /\ serverTimer' = [serverTimer EXCEPT ![s] = "asleep"]
      /\ serverPc' = [serverPc EXCEPT ![s] = "handshake"]
      /\ UNCHANGED <<job, ran, duplicates>>
  BY DEF StartServer, ServerGoto
<1> HIDE DEF p
<1>4. NetworkOK(bound) /\ DOMAIN bound = DOMAIN net \cup {p}
  BY <1>1, <1>2, BindOK
<1>5. [src |-> p, body |-> InitMessage] \in Expected(InitializationPort)
  <2>1. Expected(InitializationPort) = [src : ServerZone, body : {InitMessage}]
    BY ExpectedAt, ManagerPortsInZone DEF PlaceInv, ManagerInv, ObjectsOK
  <2> QED BY <1>2, <2>1
<1>6. NetworkOK(net') /\ DOMAIN net' = DOMAIN net \cup {p}
  <2> HIDE DEF bound
  <2> QED BY <1>3, <1>4, <1>5, SentOK
<1>7. ServerInv'
  <2>1. ServerTypeOK'
    <3>1. p \in Nat
      BY <1>2, Zones
    <3> QED BY <1>1, <1>3, <3>1 DEF ServerTypeOK, ServerPcs
  <2>2. ASSUME NEW r \in ServerProcs, ServerRunning(r)'
        PROVE  IF r = s THEN serverPort'[r] = p
                        ELSE serverPort'[r] = serverPort[r] /\ ServerRunning(r)
    BY <1>1, <1>3, <2>2 DEF ServerTypeOK, ServerRunning
  <2>3. ManagerPorts' = ManagerPorts /\ p \notin ManagerPorts
    BY <1>1, <1>2, ManagerPortsSame
  <2>4. \A r \in ServerProcs :
          ServerRunning(r)' => serverPort'[r] \in (ServerZone \cap DOMAIN net') \ ManagerPorts'
    BY <1>1, <1>2, <1>6, <2>2, <2>3 DEF ServerInv
  <2>5. \A q, r \in ServerProcs :
          (ServerRunning(q)' /\ ServerRunning(r)' /\ serverPort'[q] = serverPort'[r]) => q = r
    BY <1>1, <1>2, <2>2 DEF ServerInv
  <2>6. \A r \in ServerProcs :
          serverPc'[r] = "run" => job'[r] \in [src : ManagerPorts', body : Runnable]
    BY <1>1, <1>3, <2>3 DEF ServerInv, ServerTypeOK
  <2> QED BY <2>1, <2>4, <2>5, <2>6 DEF ServerInv
<1>8. DOMAIN net \ (ServerZone \ ManagerPorts) \subseteq DOMAIN net'
  BY <1>6
<1> QED BY <1>3, <1>6, <1>7, <1>8, ServerKeeps

LEMMA ServerPlaces ==
  ASSUME PlaceInv, NEW s \in ServerProcs, ServerStep(ServerNext(s))
  PROVE  PlaceInv'
BY ServerHandshakes, ServerReceives, ServerQuiet, ServerReplies, ServerEnds, ServerStarts
   DEF ServerStep, ServerNext, ServerMain

-----------------------------------------------------------------------------
(* The steps of the load manager.                                          *)

\* A step of the manager that makes no socket and keeps those there are.
LEMMA ManagerKeeps ==
  ASSUME PlaceInv, UNCHANGED <<clientVars, serverVars, duplicates>>, NetworkOK(net'),
         DOMAIN net' = DOMAIN net, Len(serverEndPoint') = Len(serverEndPoint), ManagerInv'
  PROVE  PlaceInv'
<1>1. ManagerPorts' = ManagerPorts
  BY ExpectedSame
<1>2. NetworkInv'
  <2>1. NetworkOK(net)'
    BY NetworkPrimed
  <2>2. WellKnown \cup ManagerPorts \subseteq DOMAIN net'
    BY DEF PlaceInv, NetworkInv
  <2> QED BY <1>1, <2>1, <2>2 DEF NetworkInv, PlaceInv
<1>3. ClientInv'
  BY ClientSame DEF PlaceInv
<1>4. ServerInv'
  BY <1>1, ServerSame DEF PlaceInv
<1> QED BY <1>2, <1>3, <1>4 DEF PlaceInv

\* The parts of the objects the manager keeps, at an index of theirs.
LEMMA ObjectTyped ==
  ASSUME ManagerInv
  PROVE  /\ \A k \in ClientIds : clientObj[k] \in ClientObjectsZ
         /\ \A k \in ServerIds : serverEndPoint[k] \in ServerZone
         /\ \A t \in WorkerIds : workers[t] \in WorkerRecords
<1>1. \A k \in ClientIds : clientObj[k] \in ClientObjectsZ
  BY ElementOfSeq DEF ManagerInv, ObjectsOK, ClientIds
<1>2. \A k \in ServerIds : serverEndPoint[k] \in ServerZone
  BY ElementOfSeq DEF ManagerInv, ObjectsOK, ServerIds
<1>3. \A t \in WorkerIds : workers[t] \in WorkerRecords
  BY ElementOfSeq DEF ManagerInv, WorkersOK, WorkerIds
<1> QED BY <1>1, <1>2, <1>3

LEMMA IdsSame ==
  /\ UNCHANGED clientObj => UNCHANGED ClientIds
  /\ UNCHANGED serverEndPoint => UNCHANGED ServerIds
  /\ UNCHANGED workers => UNCHANGED WorkerIds
BY DEF ClientIds, ServerIds, WorkerIds

\* main: the steps that read the queues and the current client.
LEMMA MainQuiet ==
  ASSUME PlaceInv, UNCHANGED <<clientVars, serverVars>>,
         GetClient \/ LeaveClient \/ ReadDeletedClient
  PROVE  PlaceInv'
<1> USE DEF GetClient, LeaveClient, ReadDeletedClient, netVars
<1>1. UNCHANGED <<net, duplicates, serverEndPoint, clientObj, serverQueue, process, workers,
                  ClientsocketMtx>>
  OBVIOUS
<1>2. ManagerInv /\ NetworkOK(net)
  BY DEF PlaceInv, NetworkInv
<1>3. ClientIds' = ClientIds /\ ServerIds' = ServerIds
  BY <1>1, IdsSame
<1>4. ObjectsOK'
  BY <1>1, <1>2 DEF ManagerInv, ObjectsOK
<1>5. WorkersOK'
  BY <1>1, <1>2, <1>3, WorkersSame DEF ManagerInv
<1>6. MainOK' /\ QueuesOK'
  <2>1. CASE GetClient
    <3>1. Head(Clients) \in ClientIds /\ Tail(Clients) \in Seq(ClientIds)
      BY <1>2, <2>1, HeadTailProperties DEF ManagerInv, QueuesOK
    <3>2. MainOK'
      BY <1>1, <1>2, <1>3, <2>1, <3>1 DEF ManagerInv, MainOK
    <3>3. QueuesOK'
      BY <1>1, <1>2, <1>3, <2>1, <3>1 DEF ManagerInv, QueuesOK
    <3> QED BY <3>2, <3>3
  <2>2. CASE LeaveClient \/ ReadDeletedClient
    <3>1. MainOK'
      BY <1>1, <1>2, <1>3, <2>2 DEF ManagerInv, MainOK
    <3>2. QueuesOK'
      BY <1>1, <1>2, <1>3, <2>2, QueuesSame DEF ManagerInv
    <3> QED BY <3>1, <3>2
  <2> QED BY <2>1, <2>2
<1>7. ManagerInv'
  BY <1>4, <1>5, <1>6 DEF ManagerInv
<1>8. NetworkOK(net') /\ DOMAIN net' = DOMAIN net /\ Len(serverEndPoint') = Len(serverEndPoint)
  BY <1>1, <1>2
<1> QED BY <1>1, <1>7, <1>8, ManagerKeeps


\* An object changed in place stays an object, and there are as many.
LEMMA ObjectChanged ==
  ASSUME ManagerInv, NEW k \in ClientIds, NEW o \in ClientObjectsZ,
         clientObj' = [clientObj EXCEPT ![k] = o]
  PROVE  clientObj' \in Seq(ClientObjectsZ) /\ ClientIds' = ClientIds
<1>1. clientObj \in Seq(ClientObjectsZ)
  BY DEF ManagerInv, ObjectsOK
<1>2. clientObj' \in Seq(ClientObjectsZ) /\ Len(clientObj') = Len(clientObj)
  BY <1>1, ExceptSeq DEF ClientIds
<1> QED BY <1>2 DEF ClientIds

LEMMA PopKeeps ==
  ASSUME PlaceInv, UNCHANGED <<clientVars, serverVars>>, PopProcess
  PROVE  PlaceInv'
<1> DEFINE queue == clientObj[currentClient].ProcessQueue
           popped == [clientObj[currentClient] EXCEPT !.ProcessQueue = Tail(@)]
<1>1. /\ mainPc = "test" /\ mainPc' = "dispatch"
      /\ queue # << >>
      /\ process' = Head(queue)
      /\ clientObj' = [clientObj EXCEPT ![currentClient] = popped]
      /\ UNCHANGED <<net, duplicates, serverEndPoint, Clients, serverQueue, workers,
                     ClientsocketMtx, manager, currentClient>>
  BY DEF PopProcess, netVars
<1>2. ManagerInv /\ NetworkOK(net) /\ currentClient \in ClientIds
  BY <1>1 DEF PlaceInv, NetworkInv, ManagerInv, MainOK
<1>3. Head(queue) \in Commands /\ popped \in ClientObjectsZ
  <2>1. clientObj[currentClient] \in ClientObjectsZ
    BY <1>2, ObjectTyped
  <2>2. queue \in Seq(Commands)
    BY <2>1 DEF ClientObjectsZ
  <2>3. Head(queue) \in Commands /\ Tail(queue) \in Seq(Commands)
    BY <1>1, <2>2, HeadTailProperties
  <2> QED BY <2>1, <2>3 DEF ClientObjectsZ
<1> HIDE DEF queue, popped
<1>4. clientObj' \in Seq(ClientObjectsZ) /\ ClientIds' = ClientIds /\ ServerIds' = ServerIds
  BY <1>1, <1>2, <1>3, ObjectChanged, IdsSame
<1>5. ObjectsOK'
  BY <1>1, <1>2, <1>4 DEF ManagerInv, ObjectsOK
<1>6. QueuesOK' /\ WorkersOK'
  BY <1>1, <1>2, <1>4, QueuesSame, WorkersSame DEF ManagerInv
<1>7. MainOK'
  BY <1>1, <1>2, <1>3, <1>4 DEF ManagerInv, MainOK
<1>8. ManagerInv'
  BY <1>5, <1>6, <1>7 DEF ManagerInv
<1>9. NetworkOK(net') /\ DOMAIN net' = DOMAIN net /\ Len(serverEndPoint') = Len(serverEndPoint)
  BY <1>1, <1>2
<1> QED BY <1>1, <1>8, <1>9, ManagerKeeps

LEMMA DispatchKeeps ==
  ASSUME PlaceInv, UNCHANGED <<clientVars, serverVars>>, Dispatch
  PROVE  PlaceInv'
<1> DEFINE w == Worker(Head(serverQueue))
<1>1. /\ mainPc = "dispatch" /\ mainPc' = "test"
      /\ serverQueue # << >>
      /\ workers' = Append(workers, w)
      /\ serverQueue' = Tail(serverQueue)
      /\ UNCHANGED <<net, duplicates, serverEndPoint, clientObj, Clients, process,
                     ClientsocketMtx, manager, currentClient>>
  BY DEF Dispatch, netVars
<1>2. ManagerInv /\ NetworkOK(net) /\ currentClient \in ClientIds /\ process \in Commands
  BY <1>1 DEF PlaceInv, NetworkInv, ManagerInv, MainOK
<1>3. ClientIds' = ClientIds /\ ServerIds' = ServerIds
  BY <1>1, IdsSame
<1>4. Head(serverQueue) \in ServerIds /\ Tail(serverQueue) \in Seq(ServerIds)
  BY <1>1, <1>2, HeadTailProperties DEF ManagerInv, QueuesOK
<1>5. ObjectsOK'
  BY <1>1, <1>2 DEF ManagerInv, ObjectsOK
<1>6. QueuesOK'
  BY <1>1, <1>2, <1>3, <1>4 DEF ManagerInv, QueuesOK
<1>7. MainOK'
  BY <1>1, <1>2, <1>3 DEF ManagerInv, MainOK
<1>8. WorkersOK'
  <2>1. w \in WorkerRecords /\ w.pc = "send"
    BY <1>2, <1>4 DEF Worker, WorkerRecords, WorkerPcs
  <2> HIDE DEF w
  <2>2. workers \in Seq(WorkerRecords) /\ Len(workers) \in Nat
    BY <1>2, LenProperties DEF ManagerInv, WorkersOK
  <2>3. workers' \in Seq(WorkerRecords) /\ Len(workers') = Len(workers) + 1
    BY <1>1, <2>1, <2>2, AppendProperties
  <2>4. WorkerIds \subseteq WorkerIds'
    BY <2>2, <2>3 DEF WorkerIds
  <2>5. ASSUME NEW t \in WorkerIds'
        PROVE  (t \in WorkerIds /\ workers'[t] = workers[t]) \/ workers'[t] = w
    BY <1>1, <2>1, <2>2, <2>3, AppendProperties DEF WorkerIds
  <2>6. WorkerRecords' = WorkerRecords
    BY <1>3 DEF WorkerRecords
  <2>7. ClientsocketMtx' \in WorkerIds' \cup {0}
    BY <1>1, <1>2, <2>4 DEF ManagerInv, WorkersOK
  <2>8. \A t \in WorkerIds' :
          workers'[t].pc \notin {"send", "reply"} => workers'[t].exeResult \in Replies
    BY <1>2, <2>1, <2>5 DEF ManagerInv, WorkersOK
  <2> QED BY <2>3, <2>6, <2>7, <2>8 DEF WorkersOK
<1>9. ManagerInv'
  BY <1>5, <1>6, <1>7, <1>8 DEF ManagerInv
<1>10. NetworkOK(net') /\ DOMAIN net' = DOMAIN net /\ Len(serverEndPoint') = Len(serverEndPoint)
  BY <1>1, <1>2
<1> QED BY <1>1, <1>9, <1>10, ManagerKeeps

\* A worker that goes on, with a result once it has read one.
LEMMA WorkerMoves ==
  ASSUME ManagerInv, NEW t \in WorkerIds, NEW w \in WorkerRecords,
         workers' = [workers EXCEPT ![t] = w],
         w.pc \notin {"send", "reply"} => w.exeResult \in Replies,
         ClientsocketMtx' \in WorkerIds \cup {0},
         ClientIds' = ClientIds, ServerIds' = ServerIds
  PROVE  WorkersOK'
<1>1. workers \in Seq(WorkerRecords)
  BY DEF ManagerInv, WorkersOK
<1>2. workers' \in Seq(WorkerRecords) /\ Len(workers') = Len(workers)
  BY <1>1, ExceptSeq DEF WorkerIds
<1>3. WorkerIds' = WorkerIds
  BY <1>2 DEF WorkerIds
<1>4. WorkerRecords' = WorkerRecords
  BY DEF WorkerRecords
<1>5. ASSUME NEW u \in WorkerIds
      PROVE  workers'[u] = IF u = t THEN w ELSE workers[u]
  BY <1>1, ExceptSeq DEF WorkerIds
<1>6. \A u \in WorkerIds :
        workers'[u].pc \notin {"send", "reply"} => workers'[u].exeResult \in Replies
  BY <1>5 DEF ManagerInv, WorkersOK
<1> QED BY <1>2, <1>3, <1>4, <1>6 DEF WorkersOK

LEMMA ToServer ==
  ASSUME ManagerPorts \subseteq ServerZone, NEW p \in ServerZone, NEW q \in ManagerPorts,
         NEW m \in Runnable
  PROVE  [src |-> q, body |-> m] \in Expected(p)
<1>1. CASE p \in ManagerPorts
  BY <1>1, ExpectedAt, RunnableReplies
<1>2. CASE p \notin ManagerPorts
  BY <1>2, ExpectedAt
<1> QED BY <1>1, <1>2

LEMMA ToClient ==
  ASSUME ManagerPorts \subseteq ServerZone, NEW p \in ClientZone,
         NEW m \in {ClientInitialized} \cup Replies
  PROVE  [src |-> ClientReceivePort, body |-> m] \in Expected(p)
BY ExpectedAt

\* What a worker finds: its client, its server, and the socket of that server.
LEMMA WorkerFinds ==
  ASSUME PlaceInv, NEW t \in WorkerIds
  PROVE  /\ ManagerInv /\ NetworkOK(net) /\ ManagerPorts \subseteq ServerZone
         /\ workers[t] \in WorkerRecords
         /\ workers[t].client \in ClientIds /\ workers[t].server \in ServerIds
         /\ workers[t].process \in Commands
         /\ clientObj[workers[t].client] \in ClientObjectsZ
         /\ serverEndPoint[workers[t].server] \in ServerZone
         /\ ManagerPort(workers[t].server) \in ManagerPorts \cap DOMAIN net
         /\ WellKnown \subseteq DOMAIN net
<1>1. /\ ManagerInv /\ NetworkOK(net) /\ ManagerPorts \subseteq ServerZone
      /\ WellKnown \cup ManagerPorts \subseteq DOMAIN net
  BY ManagerPortsInZone DEF PlaceInv, NetworkInv, ManagerInv, ObjectsOK
<1>2. /\ workers[t] \in WorkerRecords
      /\ \A k \in ClientIds : clientObj[k] \in ClientObjectsZ
      /\ \A k \in ServerIds : serverEndPoint[k] \in ServerZone
  BY <1>1, ObjectTyped
<1>3. /\ workers[t].client \in ClientIds /\ workers[t].server \in ServerIds
      /\ workers[t].process \in Commands
  BY <1>2 DEF WorkerRecords
<1>4. ManagerPort(workers[t].server) \in ManagerPorts
  BY <1>3 DEF ManagerPorts
<1> QED BY <1>1, <1>2, <1>3, <1>4

LEMMA SendCommandKeeps ==
  ASSUME PlaceInv, UNCHANGED <<clientVars, serverVars>>, NEW t \in WorkerIds, SendCommand(t)
  PROVE  PlaceInv'
<1> DEFINE w == [workers[t] EXCEPT !.pc = "reply"]
           q == ManagerPort(workers[t].server)
           p == serverEndPoint[workers[t].server]
<1>1. /\ workers' = [workers EXCEPT ![t] = w]
      /\ net' = Sent(net, q, p, workers[t].process)
      /\ UNCHANGED <<duplicates, serverEndPoint, clientObj, Clients, serverQueue, mainPc,
                     currentClient, process, ClientsocketMtx, manager>>
  BY DEF SendCommand, WorkerGoto
<1>2. /\ ManagerInv /\ NetworkOK(net) /\ ManagerPorts \subseteq ServerZone
      /\ workers[t] \in WorkerRecords /\ workers[t].process \in Runnable
      /\ p \in ServerZone /\ q \in ManagerPorts
  BY WorkerFinds DEF Runnable
<1>3. NetworkOK(net') /\ DOMAIN net' = DOMAIN net
  <2> HIDE DEF p, q
  <2>1. [src |-> q, body |-> workers[t].process] \in Expected(p)
    BY <1>2, ToServer
  <2> QED BY <1>1, <1>2, <2>1, SentOK
<1>4. ClientIds' = ClientIds /\ ServerIds' = ServerIds
  BY <1>1, IdsSame
<1>5. WorkersOK'
  <2>1. w \in WorkerRecords /\ w.pc = "reply"
    BY <1>2 DEF WorkerRecords, WorkerPcs
  <2>2. ClientsocketMtx' \in WorkerIds \cup {0}
    BY <1>1, <1>2 DEF ManagerInv, WorkersOK
  <2> HIDE DEF w
  <2> QED BY <1>1, <1>2, <1>4, <2>1, <2>2, WorkerMoves
<1>6. ObjectsOK'
  BY <1>1, <1>2 DEF ManagerInv, ObjectsOK
<1>7. QueuesOK' /\ MainOK'
  BY <1>1, <1>2, <1>4, QueuesSame, MainSame DEF ManagerInv
<1>8. ManagerInv'
  BY <1>5, <1>6, <1>7 DEF ManagerInv
<1> QED BY <1>1, <1>3, <1>8, ManagerKeeps

LEMMA ReceiveReplyKeeps ==
  ASSUME PlaceInv, UNCHANGED <<clientVars, serverVars>>, NEW t \in WorkerIds, ReceiveReply(t)
  PROVE  PlaceInv'
<1> DEFINE k == workers[t].server
           q == ManagerPort(k)
<1>1. PICK i \in Arrivals(q) :
        /\ workers' = [workers EXCEPT ![t].pc = "lock", ![t].exeResult = net[q][i].body]
        /\ serverEndPoint' = [serverEndPoint EXCEPT ![k] = net[q][i].src]
        /\ net' = Taken(q, i)
        /\ UNCHANGED <<duplicates, clientObj, Clients, serverQueue, mainPc,
                       currentClient, process, ClientsocketMtx, manager>>
  BY DEF ReceiveReply
<1> DEFINE m == net[q][i]
           w == [workers[t] EXCEPT !.pc = "lock", !.exeResult = m.body]
<1>2. /\ ManagerInv /\ NetworkOK(net) /\ ManagerPorts \subseteq ServerZone
      /\ workers[t] \in WorkerRecords
      /\ k \in ServerIds /\ q \in ManagerPorts \cap DOMAIN net
  BY WorkerFinds
<1> HIDE DEF q, k
<1>3. NetworkOK(net') /\ DOMAIN net' = DOMAIN net /\ m \in Expected(q)
  BY <1>1, <1>2, TakenOK
<1>4. m.src \in ServerZone /\ m.body \in Replies
  <2>1. Expected(q) = [src : ServerZone, body : Replies]
    BY <1>2, ExpectedAt
  <2> HIDE DEF m
  <2> QED BY <1>3, <2>1
<1>5. ObjectsOK' /\ Len(serverEndPoint') = Len(serverEndPoint)
  <2>1. serverEndPoint \in Seq(ServerZone) /\ k \in 1..Len(serverEndPoint)
    BY <1>2 DEF ManagerInv, ObjectsOK, ServerIds
  <2>2. serverEndPoint' = [serverEndPoint EXCEPT ![k] = m.src]
    BY <1>1
  <2> HIDE DEF m
  <2>3. serverEndPoint' \in Seq(ServerZone) /\ Len(serverEndPoint') = Len(serverEndPoint)
    BY <1>4, <2>1, <2>2, ExceptSeq
  <2> QED BY <1>1, <1>2, <2>3 DEF ManagerInv, ObjectsOK
<1>6. ClientIds' = ClientIds /\ ServerIds' = ServerIds
  BY <1>1, <1>5, IdsSame, ExpectedSame
<1>7. WorkersOK'
  <2>1. workers' = [workers EXCEPT ![t] = w]
    BY <1>1, <1>2 DEF ManagerInv, WorkersOK
  <2> HIDE DEF m
  <2>2. w \in WorkerRecords /\ w.exeResult \in Replies
    BY <1>2, <1>4 DEF WorkerRecords, WorkerPcs
  <2>3. ClientsocketMtx' \in WorkerIds \cup {0}
    BY <1>1, <1>2 DEF ManagerInv, WorkersOK
  <2> HIDE DEF w
  <2> QED BY <1>2, <1>6, <2>1, <2>2, <2>3, WorkerMoves
<1>8. QueuesOK' /\ MainOK'
  BY <1>1, <1>2, <1>6, QueuesSame, MainSame DEF ManagerInv
<1>9. ManagerInv'
  BY <1>5, <1>7, <1>8 DEF ManagerInv
<1> QED BY <1>1, <1>3, <1>5, <1>9, ManagerKeeps

LEMMA SendResultKeeps ==
  ASSUME PlaceInv, UNCHANGED <<clientVars, serverVars>>, NEW t \in WorkerIds, SendResult(t)
  PROVE  PlaceInv'
<1> DEFINE w == [workers[t] EXCEPT !.pc = "ack"]
           p == clientObj[workers[t].client].endPoint
           r == workers[t].exeResult
<1>1. /\ workers[t].pc = "lock"
      /\ workers' = [workers EXCEPT ![t] = w]
      /\ ClientsocketMtx' = t
      /\ net' = Sent(net, ClientReceivePort, p, r)
      /\ UNCHANGED <<duplicates, serverEndPoint, clientObj, Clients, serverQueue, mainPc,
                     currentClient, process, manager>>
  BY DEF SendResult, WorkerGoto
<1>2. /\ ManagerInv /\ NetworkOK(net) /\ ManagerPorts \subseteq ServerZone
      /\ workers[t] \in WorkerRecords
      /\ clientObj[workers[t].client] \in ClientObjectsZ
  BY WorkerFinds
<1>3. r \in Replies /\ p \in ClientZone
  BY <1>1, <1>2 DEF ManagerInv, WorkersOK, ClientObjectsZ
<1>4. NetworkOK(net') /\ DOMAIN net' = DOMAIN net
  <2> HIDE DEF p, r
  <2>1. [src |-> ClientReceivePort, body |-> r] \in Expected(p)
    BY <1>2, <1>3, ToClient
  <2> QED BY <1>1, <1>2, <2>1, SentOK
<1>5. ClientIds' = ClientIds /\ ServerIds' = ServerIds
  BY <1>1, IdsSame
<1>6. WorkersOK'
  <2>1. w \in WorkerRecords /\ w.exeResult \in Replies
    BY <1>2, <1>3 DEF WorkerRecords, WorkerPcs
  <2> HIDE DEF w
  <2> QED BY <1>1, <1>2, <1>5, <2>1, WorkerMoves
<1>7. ObjectsOK'
  BY <1>1, <1>2 DEF ManagerInv, ObjectsOK
<1>8. QueuesOK' /\ MainOK'
  BY <1>1, <1>2, <1>5, QueuesSame, MainSame DEF ManagerInv
<1>9. ManagerInv'
  BY <1>6, <1>7, <1>8 DEF ManagerInv
<1> QED BY <1>1, <1>4, <1>9, ManagerKeeps

LEMMA InDomain ==
  ASSUME NEW S, NEW s \in Seq(S), NEW k \in 1..Len(s)
  PROVE  k \in DOMAIN s
OBVIOUS

LEMMA TwoFields ==
  ASSUME NEW f, NEW k \in DOMAIN f, NEW a
  PROVE  [f EXCEPT ![k].endPoint = a, ![k].processCount = @ - 1]
           = [f EXCEPT ![k] = [f[k] EXCEPT !.endPoint = a, !.processCount = @ - 1]]
OBVIOUS

LEMMA ObjectAcknowledged ==
  ASSUME NEW o \in ClientObjectsZ, NEW p \in ClientZone
  PROVE  [o EXCEPT !.endPoint = p, !.processCount = @ - 1] \in ClientObjectsZ
<1>1. o.processCount - 1 \in Int
  BY DEF ClientObjectsZ
<1> QED BY <1>1 DEF ClientObjectsZ

\* Of the acknowledgement only its source is kept, and that is a client's port.
LEMMA ReceiveAckKeeps ==
  ASSUME PlaceInv, UNCHANGED <<clientVars, serverVars>>, NEW t \in WorkerIds, ReceiveAck(t)
  PROVE  PlaceInv'
<1> DEFINE k == workers[t].client
<1>1. PICK i \in Arrivals(WaitPort) :
        /\ workers[t].pc = "ack"
        /\ clientObj' = [clientObj EXCEPT ![k].endPoint = net[WaitPort][i].src,
                                          ![k].processCount = @ - 1]
        /\ net' = Taken(WaitPort, i)
        /\ workers' = [workers EXCEPT
             ![t].pc = IF clientObj[k].processCount = 1 THEN "delete" ELSE "return"]
        /\ ClientsocketMtx' = 0
        /\ UNCHANGED <<duplicates, serverEndPoint, Clients, serverQueue, mainPc,
                       currentClient, process, manager>>
  BY DEF ReceiveAck
<1> DEFINE m  == net[WaitPort][i]
           o  == [clientObj[k] EXCEPT !.endPoint = m.src, !.processCount = @ - 1]
           to == IF clientObj[k].processCount = 1 THEN "delete" ELSE "return"
           w  == [workers[t] EXCEPT !.pc = to]
<1>2. /\ ManagerInv /\ NetworkOK(net) /\ ManagerPorts \subseteq ServerZone
      /\ workers[t] \in WorkerRecords
      /\ k \in ClientIds /\ clientObj[k] \in ClientObjectsZ
      /\ WaitPort \in DOMAIN net
  BY WorkerFinds DEF WellKnown
<1> HIDE DEF k
<1>3. NetworkOK(net') /\ DOMAIN net' = DOMAIN net /\ m \in Expected(WaitPort)
  BY <1>1, <1>2, TakenOK
<1>4. m.src \in ClientZone
  <2>1. Expected(WaitPort) = [src : ClientZone, body : {NextResult}]
    BY <1>2, ExpectedAt
  <2> HIDE DEF m
  <2> QED BY <1>3, <2>1
<1>5. clientObj' \in Seq(ClientObjectsZ) /\ ClientIds' = ClientIds /\ ServerIds' = ServerIds
  <2>1. clientObj' = [clientObj EXCEPT ![k] = o]
    <3>1. clientObj \in Seq(ClientObjectsZ) /\ k \in 1..Len(clientObj)
      BY <1>2, Zenon DEF ManagerInv, ObjectsOK, ClientIds
    <3>2. k \in DOMAIN clientObj
      BY <3>1, InDomain, Zenon
    <3>3. [clientObj EXCEPT ![k].endPoint = m.src, ![k].processCount = @ - 1]
            = [clientObj EXCEPT ![k] = o]
      BY <3>2, TwoFields, Zenon
    <3> QED BY <1>1, <3>3, Zenon
  <2>2. o \in ClientObjectsZ
    BY <1>2, <1>4, ObjectAcknowledged, Zenon
  <2> HIDE DEF o
  <2> QED BY <1>1, <1>2, <2>1, <2>2, ObjectChanged, IdsSame
<1>6. WorkersOK'
  <2>1. workers[t].exeResult \in Replies
    BY <1>1, <1>2 DEF ManagerInv, WorkersOK
  <2>2. w \in WorkerRecords /\ w.exeResult \in Replies
    BY <1>2, <2>1 DEF WorkerRecords, WorkerPcs
  <2>3. workers' = [workers EXCEPT ![t] = w]
    BY <1>1
  <2> HIDE DEF w
  <2> QED BY <1>1, <1>2, <1>5, <2>2, <2>3, WorkerMoves
<1>7. ObjectsOK'
  BY <1>1, <1>2, <1>5 DEF ManagerInv, ObjectsOK
<1>8. QueuesOK' /\ MainOK'
  BY <1>1, <1>2, <1>5, QueuesSame, MainSame DEF ManagerInv
<1>9. ManagerInv'
  BY <1>6, <1>7, <1>8 DEF ManagerInv
<1>10. Len(serverEndPoint') = Len(serverEndPoint)
  BY <1>1
<1> QED BY <1>1, <1>3, <1>9, <1>10, ManagerKeeps

LEMMA DeleteClientKeeps ==
  ASSUME PlaceInv, UNCHANGED <<clientVars, serverVars>>, NEW t \in WorkerIds, DeleteClient(t)
  PROVE  PlaceInv'
<1> DEFINE k == workers[t].client
           o == [clientObj[k] EXCEPT !.deleted = TRUE]
           w == [workers[t] EXCEPT !.pc = "return"]
<1>1. /\ workers[t].pc = "delete"
      /\ workers' = [workers EXCEPT ![t] = w]
      /\ clientObj' = [clientObj EXCEPT ![k] = o]
      /\ UNCHANGED <<net, duplicates, serverEndPoint, Clients, serverQueue, mainPc,
                     currentClient, process, ClientsocketMtx, manager>>
  BY DEF DeleteClient, WorkerGoto, netVars
<1>2. /\ ManagerInv /\ NetworkOK(net)
      /\ workers[t] \in WorkerRecords
      /\ k \in ClientIds /\ clientObj[k] \in ClientObjectsZ
  BY WorkerFinds
<1>3. clientObj' \in Seq(ClientObjectsZ) /\ ClientIds' = ClientIds /\ ServerIds' = ServerIds
  <2>1. o \in ClientObjectsZ
    BY <1>2 DEF ClientObjectsZ
  <2> HIDE DEF o, k
  <2> QED BY <1>1, <1>2, <2>1, ObjectChanged, IdsSame
<1>4. WorkersOK'
  <2>1. workers[t].exeResult \in Replies /\ ClientsocketMtx' \in WorkerIds \cup {0}
    BY <1>1, <1>2 DEF ManagerInv, WorkersOK
  <2>2. w \in WorkerRecords /\ w.exeResult \in Replies
    BY <1>2, <2>1 DEF WorkerRecords, WorkerPcs
  <2> HIDE DEF w
  <2> QED BY <1>1, <1>2, <1>3, <2>1, <2>2, WorkerMoves
<1>5. ObjectsOK'
  BY <1>1, <1>2, <1>3 DEF ManagerInv, ObjectsOK
<1>6. QueuesOK' /\ MainOK'
  BY <1>1, <1>2, <1>3, QueuesSame, MainSame DEF ManagerInv
<1>7. ManagerInv'
  BY <1>4, <1>5, <1>6 DEF ManagerInv
<1>8. NetworkOK(net') /\ DOMAIN net' = DOMAIN net /\ Len(serverEndPoint') = Len(serverEndPoint)
  BY <1>1, <1>2
<1> QED BY <1>1, <1>7, <1>8, ManagerKeeps

LEMMA ReturnServerKeeps ==
  ASSUME PlaceInv, UNCHANGED <<clientVars, serverVars>>, NEW t \in WorkerIds, ReturnServer(t)
  PROVE  PlaceInv'
<1> DEFINE w == [workers[t] EXCEPT !.pc = "done"]
<1>1. /\ workers[t].pc = "return"
      /\ workers' = [workers EXCEPT ![t] = w]
      /\ serverQueue' = Append(serverQueue, workers[t].server)
      /\ UNCHANGED <<net, duplicates, serverEndPoint, clientObj, Clients, mainPc,
                     currentClient, process, ClientsocketMtx, manager>>
  BY DEF ReturnServer, WorkerGoto, netVars
<1>2. /\ ManagerInv /\ NetworkOK(net)
      /\ workers[t] \in WorkerRecords /\ workers[t].server \in ServerIds
  BY WorkerFinds
<1>3. ClientIds' = ClientIds /\ ServerIds' = ServerIds
  BY <1>1, IdsSame
<1>4. WorkersOK'
  <2>1. workers[t].exeResult \in Replies /\ ClientsocketMtx' \in WorkerIds \cup {0}
    BY <1>1, <1>2 DEF ManagerInv, WorkersOK
  <2>2. w \in WorkerRecords /\ w.exeResult \in Replies
    BY <1>2, <2>1 DEF WorkerRecords, WorkerPcs
  <2> HIDE DEF w
  <2> QED BY <1>1, <1>2, <1>3, <2>1, <2>2, WorkerMoves
<1>5. ObjectsOK'
  BY <1>1, <1>2 DEF ManagerInv, ObjectsOK
<1>6. QueuesOK'
  <2>1. serverQueue' \in Seq(ServerIds)
    BY <1>1, <1>2, AppendProperties DEF ManagerInv, QueuesOK
  <2> QED BY <1>1, <1>2, <1>3, <2>1 DEF ManagerInv, QueuesOK
<1>7. MainOK'
  BY <1>1, <1>2, <1>3, MainSame DEF ManagerInv
<1>8. ManagerInv'
  BY <1>4, <1>5, <1>6, <1>7 DEF ManagerInv
<1>9. NetworkOK(net') /\ DOMAIN net' = DOMAIN net /\ Len(serverEndPoint') = Len(serverEndPoint)
  BY <1>1, <1>2
<1> QED BY <1>1, <1>8, <1>9, ManagerKeeps

LEMMA ParsedTyped ==
  ASSUME NEW c \in ClientProcs
  PROVE  Parsed(c) \in Seq(Commands)
<1> DEFINE k == IF NumCommands[c] < BufCommands THEN NumCommands[c] ELSE BufCommands
<1>1. k \in Nat /\ 1..k \subseteq 1..NumCommands[c]
  BY NetworkAssumption, BufferAssumption
<1>2. ASSUME NEW n \in 1..NumCommands[c] PROVE Command(c, n) \in Commands
  BY DEF Commands, CommandsOf
<1>3. Parsed(c) = [n \in 1..k |-> Command(c, n)]
  BY DEF Parsed
<1> HIDE DEF k
<1>4. \A n \in 1..k : Command(c, n) \in Commands
  BY <1>1, <1>2
<1>5. [n \in 1..k |-> Command(c, n)] \in Seq(Commands)
  BY <1>1, <1>4
<1> QED BY <1>3, <1>5

\* A request makes an object of its sender and its commands.
LEMMA AcceptKeeps ==
  ASSUME PlaceInv, UNCHANGED <<clientVars, serverVars>>, AcceptClient
  PROVE  PlaceInv'
<1> DEFINE m(i)    == net[ClientReceivePort][i]
           todo(i) == Parsed(m(i).body.client)
           o(i)    == [endPoint |-> m(i).src, ProcessQueue |-> todo(i),
                       processCount |-> Len(todo(i)), deleted |-> FALSE]
<1>1. PICK i \in Arrivals(ClientReceivePort) :
        /\ clientObj' = Append(clientObj, o(i))
        /\ net' = Sent(Taken(ClientReceivePort, i), ClientReceivePort, m(i).src,
                       ClientInitialized)
  BY DEF AcceptClient
<1>2. /\ Clients' = Append(Clients, Len(clientObj) + 1)
      /\ UNCHANGED <<duplicates, serverEndPoint, serverQueue, mainPc, currentClient, process,
                     workers, ClientsocketMtx, manager>>
  BY DEF AcceptClient
<1>3. /\ ManagerInv /\ NetworkOK(net) /\ ManagerPorts \subseteq ServerZone
      /\ ClientReceivePort \in DOMAIN net
  BY ManagerPortsInZone DEF PlaceInv, NetworkInv, ManagerInv, ObjectsOK, WellKnown
<1> DEFINE rest == Taken(ClientReceivePort, i)
<1>4. NetworkOK(rest) /\ DOMAIN rest = DOMAIN net /\ m(i) \in Expected(ClientReceivePort)
  BY <1>3, TakenOK
<1>5. m(i).src \in ClientZone /\ m(i).body.client \in ClientProcs
  <2>1. Expected(ClientReceivePort) = [src : ClientZone, body : Requests]
    BY <1>3, ExpectedAt
  <2>2. m(i).src \in ClientZone /\ m(i).body \in Requests
    <3> HIDE DEF m
    <3> QED BY <1>4, <2>1
  <2> HIDE DEF m
  <2> QED BY <2>2 DEF Requests, Request
<1>6. NetworkOK(net') /\ DOMAIN net' = DOMAIN net
  <2>1. [src |-> ClientReceivePort, body |-> ClientInitialized] \in Expected(m(i).src)
    BY <1>3, <1>5, ToClient
  <2> HIDE DEF rest, m
  <2> QED BY <1>1, <1>4, <2>1, SentOK DEF rest
<1>7. o(i) \in ClientObjectsZ
  <2> HIDE DEF m
  <2>1. todo(i) \in Seq(Commands)
    BY <1>5, ParsedTyped
  <2> HIDE DEF todo
  <2>2. Len(todo(i)) \in Int
    BY <2>1, LenProperties
  <2> QED BY <1>5, <2>1, <2>2 DEF ClientObjectsZ
<1> HIDE DEF o
<1>8. /\ clientObj' \in Seq(ClientObjectsZ)
      /\ Len(clientObj) \in Nat /\ Len(clientObj') = Len(clientObj) + 1
  <2>1. clientObj \in Seq(ClientObjectsZ)
    BY <1>3 DEF ManagerInv, ObjectsOK
  <2> QED BY <1>1, <1>7, <2>1, AppendProperties, LenProperties
<1>9. /\ ClientIds \subseteq ClientIds' /\ Len(clientObj) + 1 \in ClientIds'
      /\ ServerIds' = ServerIds
  BY <1>2, <1>8, IdsSame DEF ClientIds
<1>10. ObjectsOK'
  BY <1>2, <1>3, <1>8 DEF ManagerInv, ObjectsOK
<1>11. MainOK' /\ WorkersOK'
  BY <1>2, <1>3, <1>9, MainSame, WorkersSame DEF ManagerInv
<1>12. QueuesOK'
  <2>1. Clients \in Seq(ClientIds')
    BY <1>3, <1>9 DEF ManagerInv, QueuesOK
  <2>2. Clients' \in Seq(ClientIds')
    BY <1>2, <1>9, <2>1, AppendProperties
  <2> QED BY <1>2, <1>3, <1>9, <2>2 DEF ManagerInv, QueuesOK
<1>13. ManagerInv'
  BY <1>10, <1>11, <1>12 DEF ManagerInv
<1> QED BY <1>2, <1>6, <1>13, ManagerKeeps

\* A new socket of the manager changes what is expected there, nowhere else
\* for the worse.
LEMMA ExpectedGrows ==
  ASSUME ManagerPorts \subseteq ManagerPorts', ManagerPorts' \subseteq ServerZone
  PROVE  /\ \A p \in WellKnown \cup ClientZone \cup ManagerPorts : Expected(p)' = Expected(p)
         /\ \A p \in ManagerPorts' : Expected(p)' = [src : ServerZone, body : Replies]
         /\ \A p \in ServerZone \ ManagerPorts' :
              Expected(p)' = [src : ManagerPorts', body : Runnable]
<1>1. /\ \A p \in ClientZone \cup ServerZone :
           p # ClientReceivePort /\ p # WaitPort /\ p # InitializationPort
      /\ \A p \in ClientZone : p \notin ServerZone
      /\ ClientReceivePort # WaitPort
      /\ ClientReceivePort # InitializationPort
      /\ WaitPort # InitializationPort
  BY ZonesApart, Zenon DEF WellKnown
<1>2. ManagerPorts \subseteq ServerZone
  OBVIOUS
<1>3. ASSUME NEW p \in ManagerPorts' PROVE Expected(p)' = [src : ServerZone, body : Replies]
  BY <1>1, Zenon DEF Expected
<1>4. ASSUME NEW p \in ServerZone \ ManagerPorts'
      PROVE  Expected(p)' = [src : ManagerPorts', body : Runnable]
  BY <1>1, Zenon DEF Expected
<1>5. ASSUME NEW p \in ClientZone PROVE Expected(p)' = Expected(p)
  BY <1>1, Zenon DEF Expected
<1>6. ASSUME NEW p \in WellKnown PROVE Expected(p)' = Expected(p)
  <2>1. CASE p = ClientReceivePort
    BY <1>1, <2>1, Zenon DEF Expected
  <2>2. CASE p = WaitPort
    BY <1>1, <2>2, Zenon DEF Expected
  <2>3. CASE p = InitializationPort
    BY <1>1, <2>3, Zenon DEF Expected
  <2> QED BY <1>6, <2>1, <2>2, <2>3 DEF WellKnown
<1>7. ASSUME NEW p \in ManagerPorts PROVE Expected(p)' = Expected(p)
  BY <1>2, <1>3, ExpectedAt
<1> QED BY <1>3, <1>4, <1>5, <1>6, <1>7

LEMMA OneMore ==
  ASSUME NEW n \in 0..997, n + 1 # 998
  PROVE  n + 1 \in 1..997 /\ n + 1 \in 0..997
OBVIOUS

LEMMA IntervalGrows == \A n \in 0..997 : 1..(n + 1) = 1..n \cup {n + 1}
OBVIOUS

\* The object that is made, and the port of its socket.
LEMMA ServerMade ==
  ASSUME PlaceInv, NEW sender \in ServerZone, Free(ManagerPort(Len(serverEndPoint) + 1)),
         serverEndPoint' = Append(serverEndPoint, sender)
  PROVE  /\ serverEndPoint' \in Seq(ServerZone)
         /\ Len(serverEndPoint') \in 0..997
         /\ ServerIds' = ServerIds \cup {Len(serverEndPoint) + 1}
         /\ ManagerPorts' = ManagerPorts \cup {ManagerPort(Len(serverEndPoint) + 1)}
         /\ ManagerPorts' \subseteq ServerZone
<1>1. /\ serverEndPoint \in Seq(ServerZone) /\ Len(serverEndPoint) \in 0..997
      /\ WellKnown \subseteq DOMAIN net
  BY DEF PlaceInv, NetworkInv, ManagerInv, ObjectsOK
<1>2. Len(serverEndPoint) + 1 # 998
  BY <1>1, LastManagerPort, Zenon DEF Free, Bound, WellKnown
<1>3. serverEndPoint' \in Seq(ServerZone) /\ Len(serverEndPoint') = Len(serverEndPoint) + 1
  BY <1>1, AppendProperties
<1>4. Len(serverEndPoint) + 1 \in 1..997 /\ Len(serverEndPoint') \in 0..997
  <2> DEFINE n == Len(serverEndPoint)
  <2>1. n \in 0..997 /\ n + 1 # 998
    BY <1>1, <1>2
  <2> HIDE DEF n
  <2>2. n + 1 \in 1..997 /\ n + 1 \in 0..997
    BY <2>1, OneMore, Zenon
  <2> QED BY <1>3, <2>2, Zenon DEF n
<1>5. ServerIds' = ServerIds \cup {Len(serverEndPoint) + 1}
  <2>1. 1..(Len(serverEndPoint) + 1) = 1..Len(serverEndPoint) \cup {Len(serverEndPoint) + 1}
    BY <1>1, IntervalGrows, Zenon
  <2>2. 1..Len(serverEndPoint') = 1..(Len(serverEndPoint) + 1)
    BY <1>3
  <2> QED BY <2>1, <2>2, Zenon DEF ServerIds
<1>6. ManagerPorts' = ManagerPorts \cup {ManagerPort(Len(serverEndPoint) + 1)}
  <2> DEFINE k == Len(serverEndPoint) + 1
  <2>1. ServerIds' = ServerIds \cup {k}
    BY <1>5
  <2>2. ManagerPorts' = {ManagerPort(j) : j \in ServerIds'}
    BY DEF ManagerPorts, ManagerPort
  <2>3. ManagerPorts = {ManagerPort(j) : j \in ServerIds}
    BY DEF ManagerPorts
  <2> HIDE DEF k
  <2>4. {ManagerPort(j) : j \in ServerIds \cup {k}}
          = {ManagerPort(j) : j \in ServerIds} \cup {ManagerPort(k)}
    OBVIOUS
  <2> QED BY <2>1, <2>2, <2>3, <2>4 DEF k
<1>7. ManagerPorts' \subseteq ServerZone
  <2>1. ManagerPorts \subseteq ServerZone
    BY <1>1, ManagerPortsInZone, Zenon
  <2>2. ManagerPort(Len(serverEndPoint) + 1) \in ServerZone
    BY <1>4, ManagerPortInZone, Zenon
  <2> QED BY <1>6, <2>1, <2>2, Zenon
<1> QED BY <1>3, <1>4, <1>5, <1>6, <1>7

LEMMA SeqWithin ==
  ASSUME NEW S, NEW T, S \subseteq T, NEW s \in Seq(S)
  PROVE  s \in Seq(T)
OBVIOUS

LEMMA AppendTyped ==
  ASSUME NEW S, NEW s \in Seq(S), NEW e \in S
  PROVE  Append(s, e) \in Seq(S)
BY AppendProperties

\* A new object and its socket, for whoever announced itself; or none, and the
\* manager ends.
LEMMA InitializeKeeps ==
  ASSUME PlaceInv, UNCHANGED <<clientVars, serverVars>>, InitializeServer
  PROVE  PlaceInv'
<1> DEFINE k         == Len(serverEndPoint) + 1
           q         == ManagerPort(k)
           sender(i) == net[InitializationPort][i].src
           rest(i)   == Taken(InitializationPort, i)
           bound(i)  == Bind(rest(i), q)
<1>1. UNCHANGED <<clientObj, Clients, mainPc, currentClient, process, workers,
                  ClientsocketMtx, duplicates>>
  BY DEF InitializeServer
<1>2. PICK i \in Arrivals(InitializationPort) :
        \/ /\ Free(q)
           /\ serverEndPoint' = Append(serverEndPoint, sender(i))
           /\ serverQueue' = Append(serverQueue, k)
           /\ net' = Sent(bound(i), q, sender(i), ProcessServerInitialized)
           /\ UNCHANGED manager
        \/ /\ manager' = "terminated"
           /\ net' = rest(i)
           /\ UNCHANGED <<serverEndPoint, serverQueue>>
  BY DEF InitializeServer
<1>3. /\ ManagerInv /\ NetworkOK(net) /\ ServerInv
      /\ ManagerPorts \subseteq ServerZone
      /\ WellKnown \cup ManagerPorts \subseteq DOMAIN net
      /\ InitializationPort \in DOMAIN net
  BY ManagerPortsInZone DEF PlaceInv, NetworkInv, ManagerInv, ObjectsOK, WellKnown
<1>4. /\ NetworkOK(rest(i)) /\ DOMAIN rest(i) = DOMAIN net
      /\ net[InitializationPort][i] \in Expected(InitializationPort)
  BY <1>3, TakenOK
<1>5. PICK from \in ServerZone : from = sender(i)
  <2>1. Expected(InitializationPort) = [src : ServerZone, body : {InitMessage}]
    BY <1>3, ExpectedAt
  <2> QED BY <1>4, <2>1
<1>6. ClientIds' = ClientIds
  BY <1>1, IdsSame
<1> HIDE DEF rest
<1>7. CASE manager' = "terminated" /\ net' = rest(i) /\ UNCHANGED <<serverEndPoint, serverQueue>>
  <2>1. ServerIds' = ServerIds
    BY <1>7, IdsSame
  <2>2. ObjectsOK'
    BY <1>1, <1>3, <1>7 DEF ManagerInv, ObjectsOK
  <2>3. QueuesOK' /\ WorkersOK'
    BY <1>1, <1>3, <1>6, <1>7, <2>1, QueuesSame, WorkersSame DEF ManagerInv
  <2>4. MainOK'
    BY <1>1, <1>3, <1>6, <1>7 DEF ManagerInv, MainOK
  <2>5. ManagerInv'
    BY <2>2, <2>3, <2>4 DEF ManagerInv
  <2> QED BY <1>1, <1>4, <1>7, <2>5, ManagerKeeps
<1>8. CASE /\ Free(q)
           /\ serverEndPoint' = Append(serverEndPoint, sender(i))
           /\ serverQueue' = Append(serverQueue, k)
           /\ net' = Sent(bound(i), q, sender(i), ProcessServerInitialized)
           /\ UNCHANGED manager
  <2> HIDE DEF sender
  <2>1. /\ serverEndPoint' \in Seq(ServerZone) /\ Len(serverEndPoint') \in 0..997
        /\ ServerIds' = ServerIds \cup {k}
        /\ ManagerPorts' = ManagerPorts \cup {q}
        /\ ManagerPorts' \subseteq ServerZone
    BY <1>5, <1>8, ServerMade
  <2> HIDE DEF k, q
  <2>2. q \in ServerZone /\ q \in ManagerPorts' /\ q \notin DOMAIN net
    BY <1>8, <2>1 DEF Free, Bound
  <2>3. NetworkInv'
    <3>1. NetworkOK(bound(i)) /\ DOMAIN bound(i) = DOMAIN net \cup {q}
      BY <1>4, <2>2, BindOK
    <3>2. DOMAIN net' = DOMAIN net \cup {q}
      BY <1>8, <3>1 DEF Sent
    <3>3. ASSUME NEW p \in DOMAIN net \cup {q} PROVE bound(i)[p] \in Seq(Expected(p)')
      <4>1. CASE p = q
        BY <4>1 DEF Bind
      <4>2. CASE p # q /\ p \in WellKnown \cup ClientZone \cup ManagerPorts
        <5>1. Expected(p)' = Expected(p)
          BY <2>1, <4>2, ExpectedGrows
        <5> QED BY <3>1, <5>1 DEF NetworkOK
      <4>3. CASE p # q /\ p \notin WellKnown \cup ClientZone \cup ManagerPorts
        <5>1. p \in ServerZone \ ManagerPorts'
          BY <1>3, <2>1, <4>3 DEF NetworkOK
        <5>2. Expected(p) = [src : ManagerPorts, body : Runnable]
          BY <1>3, <4>3, <5>1, ExpectedAt
        <5>3. Expected(p)' = [src : ManagerPorts', body : Runnable]
          BY <2>1, <5>1, ExpectedGrows
        <5>4. [src : ManagerPorts, body : Runnable] \subseteq [src : ManagerPorts', body : Runnable]
          BY <2>1
        <5>5. bound(i)[p] \in Seq(Expected(p))
          BY <3>1 DEF NetworkOK
        <5>6. Expected(p) \subseteq Expected(p)'
          BY <5>2, <5>3, <5>4
        <5> QED BY <5>5, <5>6, SeqWithin, Zenon
      <4> QED BY <4>1, <4>2, <4>3
    <3>4. [src |-> q, body |-> ProcessServerInitialized] \in Expected(from)'
      <4>1. ProcessServerInitialized \in Runnable /\ ProcessServerInitialized \in Replies
        BY DEF Runnable, Replies
      <4>2. CASE from \in ManagerPorts'
        <5>1. Expected(from)' = [src : ServerZone, body : Replies]
          BY <2>1, <4>2, ExpectedGrows
        <5> QED BY <2>2, <4>1, <5>1
      <4>3. CASE from \notin ManagerPorts'
        <5>1. Expected(from)' = [src : ManagerPorts', body : Runnable]
          BY <1>5, <2>1, <4>3, ExpectedGrows
        <5> QED BY <2>2, <4>1, <5>1
      <4> QED BY <4>2, <4>3
    <3>5. ASSUME NEW p \in DOMAIN net' PROVE net'[p] \in Seq(Expected(p)')
      <4> HIDE DEF bound
      <4>1. bound(i)[p] \in Seq(Expected(p)')
        BY <3>2, <3>3
      <4>2. net'[p] = IF p = from
                        THEN Append(bound(i)[p], [src |-> q, body |-> ProcessServerInitialized])
                        ELSE bound(i)[p]
        BY <1>5, <1>8, <3>1, <3>2 DEF Sent, bound
      <4>3. CASE p = from
        BY <3>4, <4>1, <4>2, <4>3, AppendProperties
      <4>4. CASE p # from
        BY <4>1, <4>2, <4>4
      <4> QED BY <4>3, <4>4
    <3>6. NetworkOK(net)'
      BY <1>3, <2>2, <3>2, <3>5 DEF NetworkOK
    <3>7. WellKnown \cup ManagerPorts' \subseteq DOMAIN net'
      BY <1>3, <2>1, <3>2
    <3> QED BY <1>1, <3>6, <3>7 DEF NetworkInv, PlaceInv
  <2>4. DOMAIN net \subseteq DOMAIN net'
    <3>1. DOMAIN bound(i) = DOMAIN net \cup {q}
      BY <1>4, <2>2, BindOK
    <3> QED BY <1>8, <3>1 DEF Sent
  <2>5. ClientInv'
    BY <2>4, ClientSame DEF PlaceInv
  <2>6. ServerInv'
    <3>1. \A s \in ServerProcs :
            ServerRunning(s) => serverPort[s] \in (ServerZone \cap DOMAIN net') \ ManagerPorts'
      BY <1>3, <2>1, <2>2, <2>4 DEF ServerInv
    <3>2. \A s \in ServerProcs :
            serverPc[s] = "run" => job[s] \in [src : ManagerPorts', body : Runnable]
      BY <1>3, <2>1 DEF ServerInv
    <3> QED BY <1>3, <3>1, <3>2 DEF ServerInv, ServerTypeOK, ServerRunning, serverVars
  <2>7. ManagerInv'
    <3>1. ObjectsOK'
      BY <1>1, <1>3, <2>1 DEF ManagerInv, ObjectsOK
    <3>2. MainOK' /\ WorkersOK'
      BY <1>1, <1>3, <1>6, <1>8, <2>1, MainSame, WorkersSame DEF ManagerInv
    <3>3. QueuesOK'
      <4>1. serverQueue \in Seq(ServerIds') /\ k \in ServerIds'
        <5>1. ServerIds \subseteq ServerIds' /\ k \in ServerIds'
          BY <2>1
        <5>2. serverQueue \in Seq(ServerIds)
          BY <1>3, Zenon DEF ManagerInv, QueuesOK
        <5> QED BY <5>1, <5>2, SeqWithin, Zenon
      <4>2. serverQueue' \in Seq(ServerIds')
        BY <1>8, <4>1, AppendTyped, Zenon
      <4> QED BY <1>1, <1>3, <1>6, <4>2 DEF ManagerInv, QueuesOK
    <3> QED BY <3>1, <3>2, <3>3 DEF ManagerInv
  <2> QED BY <2>3, <2>5, <2>6, <2>7 DEF PlaceInv
<1> QED BY <1>2, <1>7, <1>8

LEMMA ManagerPlaces ==
  ASSUME PlaceInv, ManagerStep(ManagerNext)
  PROVE  PlaceInv'
BY InitializeKeeps, AcceptKeeps, MainQuiet, PopKeeps, DispatchKeeps, SendCommandKeeps,
   ReceiveReplyKeeps, SendResultKeeps, ReceiveAckKeeps, DeleteClientKeeps, ReturnServerKeeps
   DEF ManagerStep, ManagerNext, MainNext, WorkerNext

-----------------------------------------------------------------------------
(* The steps of the network.                                               *)

LEMMA NetworkKeeps ==
  ASSUME PlaceInv, UNCHANGED <<clientVars, serverVars, managerVars>>, NetworkOK(net'),
         DOMAIN net' = DOMAIN net, duplicates' \in Nat
  PROVE  PlaceInv'
<1>1. Len(serverEndPoint') = Len(serverEndPoint) /\ ManagerPorts' = ManagerPorts
  BY ManagerPortsSame
<1>2. NetworkInv'
  <2>1. NetworkOK(net)'
    BY <1>1, NetworkPrimed
  <2> QED BY <1>1, <2>1 DEF NetworkInv, PlaceInv
<1>3. ClientInv'
  BY ClientSame DEF PlaceInv
<1>4. ServerInv'
  BY <1>1, ServerSame DEF PlaceInv
<1>5. ManagerInv'
  BY ManagerSame DEF PlaceInv
<1> QED BY <1>2, <1>3, <1>4, <1>5 DEF PlaceInv

LEMMA LostOrRepeated ==
  ASSUME NetworkOK(net), NEW p \in DOMAIN net, NEW i \in 1..Len(net[p])
  PROVE  /\ NetworkOK(Taken(p, i)) /\ DOMAIN Taken(p, i) = DOMAIN net
         /\ NetworkOK([net EXCEPT ![p] = Append(@, @[i])])
<1>1. net[p] \in Seq(Expected(p))
  BY DEF NetworkOK
<1>2. RemoveAt(net[p], i) \in Seq(Expected(p))
  BY <1>1, RemoveAtTyped
<1>3. Append(net[p], net[p][i]) \in Seq(Expected(p))
  BY <1>1, ElementOfSeq, AppendProperties
<1>4. NetworkOK(Taken(p, i)) /\ DOMAIN Taken(p, i) = DOMAIN net
  BY <1>2 DEF NetworkOK, Taken
<1>5. NetworkOK([net EXCEPT ![p] = Append(@, @[i])])
  BY <1>3 DEF NetworkOK
<1> QED BY <1>4, <1>5

LEMMA NetworkPlaces ==
  ASSUME PlaceInv, NetworkStep(NetworkNext)
  PROVE  PlaceInv'
<1>1. NetworkOK(net) /\ duplicates \in Nat
  BY DEF PlaceInv, NetworkInv
<1>2. UNCHANGED <<clientVars, serverVars, managerVars>>
  BY DEF NetworkStep
<1>3. CASE Lose
  <2>1. PICK p \in DOMAIN net : \E i \in 1..Len(net[p]) : net' = Taken(p, i)
    BY <1>3 DEF Lose, Bound
  <2>2. PICK i \in 1..Len(net[p]) : net' = Taken(p, i)
    BY <2>1
  <2>3. NetworkOK(net') /\ DOMAIN net' = DOMAIN net
    BY <1>1, <2>2, LostOrRepeated
  <2> QED BY <1>1, <1>2, <1>3, <2>3, NetworkKeeps DEF Lose
<1>4. CASE Duplicate
  <2>1. PICK p \in DOMAIN net : \E i \in 1..Len(net[p]) : net' = [net EXCEPT ![p] = Append(@, @[i])]
    BY <1>4 DEF Duplicate, Bound
  <2>2. PICK i \in 1..Len(net[p]) : net' = [net EXCEPT ![p] = Append(@, @[i])]
    BY <2>1
  <2>3. NetworkOK(net') /\ DOMAIN net' = DOMAIN net
    BY <1>1, <2>2, LostOrRepeated
  <2>4. duplicates' \in Nat
    BY <1>1, <1>4 DEF Duplicate
  <2> QED BY <1>2, <2>3, <2>4, NetworkKeeps
<1> QED BY <1>3, <1>4 DEF NetworkStep, NetworkNext

-----------------------------------------------------------------------------
(* The invariant, and what it says of every reachable state.               *)

LEMMA PlaceInit == Init => PlaceInv
<1> SUFFICES ASSUME Init PROVE PlaceInv
  OBVIOUS
<1> USE DEF Init
<1>1. ClientIds = {} /\ ServerIds = {} /\ WorkerIds = {} /\ ManagerPorts = {}
  BY DEF ManagerInit, ClientIds, ServerIds, WorkerIds, ManagerPorts
<1>2. NetworkInv
  BY <1>1 DEF NetworkInit, NetworkInv, NetworkOK, WellKnown
<1>3. ClientInv
  BY DEF ClientInit, ClientInv, ClientTypeOK, ClientPcs, ClientRunning
<1>4. ServerInv
  BY DEF ServerInit, ServerInv, ServerTypeOK, ServerPcs, ServerRunning
<1>5. ManagerInv
  <2>1. ObjectsOK
    BY DEF ManagerInit, ObjectsOK
  <2>2. QueuesOK
    BY DEF ManagerInit, QueuesOK
  <2>3. MainOK
    BY DEF ManagerInit, MainOK
  <2>4. WorkersOK
    BY <1>1 DEF ManagerInit, WorkersOK
  <2> QED BY <2>1, <2>2, <2>3, <2>4 DEF ManagerInv
<1> QED BY <1>2, <1>3, <1>4, <1>5 DEF PlaceInv

LEMMA PlaceNext == PlaceInv /\ [Next]_vars => PlaceInv'
<1> SUFFICES ASSUME PlaceInv, [Next]_vars PROVE PlaceInv'
  OBVIOUS
<1>1. ASSUME NEW c \in ClientProcs, ClientStep(ClientNext(c)) PROVE PlaceInv'
  BY <1>1, ClientPlaces
<1>2. ASSUME NEW s \in ServerProcs, ServerStep(ServerNext(s)) PROVE PlaceInv'
  BY <1>2, ServerPlaces
<1>3. CASE ManagerStep(ManagerNext)
  BY <1>3, ManagerPlaces
<1>4. CASE NetworkStep(NetworkNext)
  BY <1>4, NetworkPlaces
<1>5. CASE UNCHANGED vars
  BY <1>5, NetworkKeeps DEF vars, netVars, PlaceInv, NetworkInv
<1> QED BY <1>1, <1>2, <1>3, <1>4, <1>5 DEF Next

\* Every datagram, object and process is where it belongs, in every state that
\* the programs can reach: the invariant that is inductive.
THEOREM PlaceInvariant == SafetySpec => []PlaceInv
BY PlaceInit, PlaceNext, PTL DEF SafetySpec

LEMMA PlaceImpliesExpected == PlaceInv => DatagramsExpected
<1> SUFFICES ASSUME PlaceInv, NEW p \in Bound, NEW i \in 1..Len(net[p])
             PROVE  net[p][i] \in Expected(p)
  BY DEF DatagramsExpected
<1>1. net[p] \in Seq(Expected(p))
  BY DEF PlaceInv, NetworkInv, NetworkOK, Bound
<1> QED BY <1>1, ElementOfSeq

LEMMA PlaceImpliesExclusive == PlaceInv => PortsExclusive
<1> SUFFICES ASSUME PlaceInv PROVE PortsExclusive
  OBVIOUS
<1>1. ManagerPorts \subseteq ServerZone
  BY ManagerPortsInZone DEF PlaceInv, ManagerInv, ObjectsOK
<1> QED BY <1>1 DEF PlaceInv, NetworkInv, ClientInv, ServerInv, PortsExclusive, Bound, WellKnown

\* However many programs take part and whatever is lost, doubled, reordered or
\* killed, the load manager parses nothing but requests, process servers run
\* nothing but commands and its greeting, and workers take nothing but outputs
\* and echoed commands for results.
THEOREM AlwaysExpected == SafetySpec => []DatagramsExpected
BY PlaceInvariant, PlaceImpliesExpected, PTL

\* Every socket has one owner, whatever ports the programs search, release and
\* reuse: findOpenPort never finds the port of another, and the manager ends
\* rather than bind one of its numbered sockets a second time.
THEOREM AlwaysExclusive == SafetySpec => []PortsExclusive
BY PlaceInvariant, PlaceImpliesExclusive, PTL
==============================================================================
