---------------------------- MODULE ProcessServer ----------------------------
(***************************************************************************)
(* The program processServer.cxx, one process per member of ServerProcs.   *)
(* It binds the highest free port below 9999, announces itself to port     *)
(* 9999, waits for an answer while a timer thread runs, then for ever runs *)
(* the command in each datagram and sends the output to its sender.        *)
(***************************************************************************)
EXTENDS Network

CONSTANT ServerProcs  \* the process server processes that are ever started

VARIABLES
  serverPc,     \* where the main thread of each process server is
  serverTimer,  \* its timer thread, as clientTimer
  serverPort,   \* the port of its socket, 0 when it has none
  job,          \* job[s]: the datagram being processed, an empty tuple if none
  ran           \* ran[s]: what it has printed, the commands it was sent

serverVars == <<serverPc, serverTimer, serverPort, job, ran>>

ServerPcs == {"off", "handshake", "answered", "receive", "run",
              "noPort", "timedOut", "killed"}

ServerRunning(s) == serverPc[s] \in {"handshake", "answered", "receive", "run"}

\* The atomic flag timeOut: stored false by StopServerTimer.
ServerTimeOut(s) == serverPc[s] \in {"off", "handshake", "answered"}

NoJob == << >>

ServerInit == /\ serverPc = [s \in ServerProcs |-> "off"]
              /\ serverTimer = [s \in ServerProcs |-> "off"]
              /\ serverPort = [s \in ServerProcs |-> 0]
              /\ job = [s \in ServerProcs |-> NoJob]
              /\ ran = [s \in ServerProcs |-> << >>]

ServerGoto(s, from, to) ==
  serverPc[s] = from /\ serverPc' = [serverPc EXCEPT ![s] = to]

\* findOpenPort(9998): the ports from 9998 down to 9000 are tried.
ServerPortRange == ClientReceivePort..(InitializationPort - 1)

FirstTry == InitializationPort - 1  \* mutant: no other port is tried

HighestFreePort ==
  LET port(n) == InitializationPort - 1 - n  \* after n failures
  IN  port(CHOOSE n \in 0..998 : Free(port(n)) /\ \A m \in 0..(n - 1) : ~Free(port(m)))

StartWithoutHandshake(s) ==  \* mutant: the greeting is not waited for
  /\ ServerGoto(s, "off", "receive")
  /\ ~NoneFree(ServerPortRange)
  /\ LET p == HighestFreePort
     IN  /\ serverPort' = [serverPort EXCEPT ![s] = p]
         /\ net' = Sent(Bind(net, p), p, InitializationPort, InitMessage)
  /\ serverTimer' = [serverTimer EXCEPT ![s] = "asleep"]
  /\ UNCHANGED <<job, ran, duplicates>>

StartServer(s) ==
  /\ ServerGoto(s, "off", "handshake")
  /\ ~NoneFree(ServerPortRange)
  /\ LET p == HighestFreePort
     IN  /\ serverPort' = [serverPort EXCEPT ![s] = p]
         /\ net' = Sent(Bind(net, p), p, InitializationPort, InitMessage)
  /\ serverTimer' = [serverTimer EXCEPT ![s] = "asleep"]
  /\ UNCHANGED <<job, ran, duplicates>>

ServerFindsNoPort(s) ==
  /\ ServerGoto(s, "off", "noPort")
  /\ NoneFree(ServerPortRange)
  /\ UNCHANGED <<serverTimer, serverPort, job, ran, netVars>>

\* The first receive_from: whatever arrives is taken for the answer.
ServerHandshake(s) ==
  /\ ServerGoto(s, "handshake", "answered")
  /\ \E i \in Arrivals(serverPort[s]) : net' = Taken(serverPort[s], i)
  /\ UNCHANGED <<serverTimer, serverPort, job, ran, duplicates>>

\* timeOut.store(false)
StopServerTimer(s) ==
  /\ ServerGoto(s, "answered", "receive")
  /\ UNCHANGED <<serverTimer, serverPort, job, ran, netVars>>

\* The receive_from of the loop: any datagram is printed and is a command.
ReceiveCommand(s) ==
  /\ ServerGoto(s, "receive", "run")
  /\ \E i \in Arrivals(serverPort[s]) :
       /\ job' = [job EXCEPT ![s] = net[serverPort[s]][i]]
       /\ ran' = [ran EXCEPT ![s] = Append(@, net[serverPort[s]][i].body)]
       /\ net' = Taken(serverPort[s], i)
  /\ UNCHANGED <<serverTimer, serverPort, duplicates>>

ReplyToGreeter(s) ==  \* mutant: the output goes to initServer, not to sender
  /\ ServerGoto(s, "run", "receive")
  /\ net' = Sent(net, serverPort[s], InitializationPort, Output(job[s].body))
  /\ job' = [job EXCEPT ![s] = NoJob]
  /\ UNCHANGED <<serverTimer, serverPort, ran, duplicates>>

\* exeCMD, and send_to(sender)
Reply(s) ==
  /\ ServerGoto(s, "run", "receive")
  /\ net' = Sent(net, serverPort[s], job[s].src, Output(job[s].body))
  /\ job' = [job EXCEPT ![s] = NoJob]
  /\ UNCHANGED <<serverTimer, serverPort, ran, duplicates>>

\* TimOutTimer: five seconds have passed and timeOut.load() is true.
ServerTimerReads(s) ==
  /\ "timeout" \in Faults
  /\ serverTimer[s] = "asleep"
  /\ ServerRunning(s)
  /\ ServerTimeOut(s)
  /\ serverTimer' = [serverTimer EXCEPT ![s] = "expired"]
  /\ UNCHANGED <<serverPc, serverPort, job, ran, netVars>>

\* TimOutTimer: exit(1), whatever the main thread has done since the load.
ServerTimerExits(s) ==
  /\ serverTimer[s] = "expired"
  /\ ServerRunning(s)
  /\ serverPc' = [serverPc EXCEPT ![s] = "timedOut"]
  /\ net' = Unbind(net, {serverPort[s]})
  /\ UNCHANGED <<serverTimer, serverPort, job, ran, duplicates>>

\* The user or the system kills the process; its socket is closed.
KillServer(s) ==
  /\ "serverCrash" \in Faults
  /\ ServerRunning(s)
  /\ serverPc' = [serverPc EXCEPT ![s] = "killed"]
  /\ net' = Unbind(net, {serverPort[s]})
  /\ UNCHANGED <<serverTimer, serverPort, job, ran, duplicates>>

ServerMain(s) == \/ ServerHandshake(s)
                 \/ StopServerTimer(s)
                 \/ ReceiveCommand(s)
                 \/ Reply(s)

ServerNext(s) == \/ StartServer(s)
                 \/ ServerFindsNoPort(s)
                 \/ ServerMain(s)
                 \/ ServerTimerReads(s)
                 \/ ServerTimerExits(s)
                 \/ KillServer(s)
==============================================================================
