-------------------------------- MODULE Client -------------------------------
(***************************************************************************)
(* The program client.cxx, one process per member of ClientProcs.  It      *)
(* binds the lowest free port, sends its executables to the load manager   *)
(* in one datagram, waits for the manager's answer while a timer thread    *)
(* runs, then prints one datagram per executable, acknowledging each.      *)
(***************************************************************************)
EXTENDS Network

VARIABLES
  clientPc,     \* where the main thread of each client is
  clientTimer,  \* its timer thread: "off", "asleep", or "expired" once it has
                \* read timeOut and found it true, exit(1) being next
  clientPort,   \* the port of its socket, 0 when it has none
  results       \* what it has printed: the datagrams taken for results

clientVars == <<clientPc, clientTimer, clientPort, results>>

ClientPcs == {"off", "handshake", "answered", "receive", "ack",
              "done", "noPort", "timedOut", "killed"}

ClientRunning(c) == clientPc[c] \in {"handshake", "answered", "receive", "ack"}

\* The atomic flag timeOut: stored false by StopClientTimer.
ClientTimeOut(c) == clientPc[c] \in {"off", "handshake", "answered"}

ClientInit == /\ clientPc = [c \in ClientProcs |-> "off"]
              /\ clientTimer = [c \in ClientProcs |-> "off"]
              /\ clientPort = [c \in ClientProcs |-> 0]
              /\ results = [c \in ClientProcs |-> << >>]

ClientGoto(c, from, to) ==
  clientPc[c] = from /\ clientPc' = [clientPc EXCEPT ![c] = to]

\* findOpenPort(1): the ports up to 9000 are tried in this order; those below
\* FirstPort are refused.
ClientPortRange == FirstPort..ClientReceivePort

LowestFreePort ==
  CHOOSE p \in ClientPortRange : Free(p) /\ \A q \in FirstPort..(p - 1) : ~Free(q)

StartClient(c) ==
  /\ ClientGoto(c, "off", "handshake")
  /\ ~NoneFree(ClientPortRange)
  /\ LET p == LowestFreePort
     IN  /\ clientPort' = [clientPort EXCEPT ![c] = p]
         /\ net' = Sent(Bind(net, p), p, ClientReceivePort, Request(c))
  /\ clientTimer' = [clientTimer EXCEPT ![c] = "asleep"]
  /\ UNCHANGED <<results, duplicates>>

ClientFindsNoPort(c) ==
  /\ ClientGoto(c, "off", "noPort")
  /\ NoneFree(ClientPortRange)
  /\ UNCHANGED <<clientTimer, clientPort, results, netVars>>

\* The first receive_from: whatever arrives is taken for the answer.
ClientHandshake(c) ==
  /\ ClientGoto(c, "handshake", "answered")
  /\ \E i \in Arrivals(clientPort[c]) : net' = Taken(clientPort[c], i)
  /\ UNCHANGED <<clientTimer, clientPort, results, duplicates>>

\* timeOut.store(false)
StopClientTimer(c) ==
  /\ ClientGoto(c, "answered", "receive")
  /\ UNCHANGED <<clientTimer, clientPort, results, netVars>>

\* The receive_from of the loop; the datagram is printed.
ReceiveResult(c) ==
  /\ ClientGoto(c, "receive", "ack")
  /\ \E i \in Arrivals(clientPort[c]) :
       /\ results' = [results EXCEPT ![c] = Append(@, net[clientPort[c]][i].body)]
       /\ net' = Taken(clientPort[c], i)
  /\ UNCHANGED <<clientTimer, clientPort, duplicates>>

AcknowledgeAfterLast(c) ==  \* mutant: the last result is not acknowledged
  /\ clientPc[c] = "ack"
  /\ clientPc' = [clientPc EXCEPT
                    ![c] = IF Len(results[c]) < NumCommands[c] THEN "receive" ELSE "done"]
  /\ net' = IF Len(results[c]) < NumCommands[c]
              THEN Sent(net, clientPort[c], WaitPort, NextResult)
              ELSE Unbind(net, {clientPort[c]})
  /\ UNCHANGED <<clientTimer, clientPort, results, duplicates>>

AcknowledgeShort(c) ==  \* mutant: the loop ends one result early
  /\ clientPc[c] = "ack"
  /\ LET acked == Sent(net, clientPort[c], WaitPort, NextResult)
     IN  IF Len(results[c]) < NumCommands[c] - 1
           THEN ClientGoto(c, "ack", "receive") /\ net' = acked
           ELSE ClientGoto(c, "ack", "done") /\ net' = Unbind(acked, {clientPort[c]})
  /\ UNCHANGED <<clientTimer, clientPort, results, duplicates>>

\* "NEXT RESULT" to port 9001; main returns after one result per executable.
Acknowledge(c) ==
  /\ LET acked == Sent(net, clientPort[c], WaitPort, NextResult)
     IN  IF Len(results[c]) < NumCommands[c]
           THEN ClientGoto(c, "ack", "receive") /\ net' = acked
           ELSE ClientGoto(c, "ack", "done") /\ net' = Unbind(acked, {clientPort[c]})
  /\ UNCHANGED <<clientTimer, clientPort, results, duplicates>>

\* TimOutTimer: five seconds have passed and timeOut.load() is true.
ClientTimerReads(c) ==
  /\ "timeout" \in Faults
  /\ clientTimer[c] = "asleep"
  /\ ClientRunning(c)
  /\ ClientTimeOut(c)
  /\ clientTimer' = [clientTimer EXCEPT ![c] = "expired"]
  /\ UNCHANGED <<clientPc, clientPort, results, netVars>>

\* TimOutTimer: exit(1), whatever the main thread has done since the load.
ClientTimerExits(c) ==
  /\ clientTimer[c] = "expired"
  /\ ClientRunning(c)
  /\ clientPc' = [clientPc EXCEPT ![c] = "timedOut"]
  /\ net' = Unbind(net, {clientPort[c]})
  /\ UNCHANGED <<clientTimer, clientPort, results, duplicates>>

\* The user or the system kills the process; its socket is closed.
KillClient(c) ==
  /\ "clientCrash" \in Faults
  /\ ClientRunning(c)
  /\ clientPc' = [clientPc EXCEPT ![c] = "killed"]
  /\ net' = Unbind(net, {clientPort[c]})
  /\ UNCHANGED <<clientTimer, clientPort, results, duplicates>>

ClientMain(c) == \/ ClientHandshake(c)
                 \/ StopClientTimer(c)
                 \/ ReceiveResult(c)
                 \/ Acknowledge(c)

ClientNext(c) == \/ StartClient(c)
                 \/ ClientFindsNoPort(c)
                 \/ ClientMain(c)
                 \/ ClientTimerReads(c)
                 \/ ClientTimerExits(c)
                 \/ KillClient(c)
==============================================================================
