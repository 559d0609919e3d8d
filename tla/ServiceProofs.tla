----------------------------- MODULE ServiceProofs -----------------------------
(***************************************************************************)
(* The three programs implement the safety part of JobService when         *)
(* datagrams are lost and nothing else goes wrong: every command is run    *)
(* once at most, after it was asked for, and its output is printed once at *)
(* most, after it was run, before its client ends.                         *)
(*                                                                         *)
(* A command is run on the way from the worker that sends it to the worker *)
(* that has its output.  It was not run before its datagram is received,   *)
(* and it was once there is a reply.                                       *)
(***************************************************************************)
EXTENDS ResultProofs

\* Some process server has run e.
Ran(e) == \E s \in ServerProcs : e \in Elements(ran[s])

\* What the datagrams at port p say.
Contents(p) == {net[p][i].body : i \in Inbox(p)}

\* What was run was sent by a worker, and what a worker has the reply to, or
\* is on its way to be one, was run.
RanForWorker == \A e : Ran(e) => \E t \in WorkerIds : /\ workers[t].process = e
                                                      /\ workers[t].pc # "send"

NotYetRun == \A s \in ServerProcs : ServerRunning(s) =>
               \A e \in Contents(serverPort[s]) : e # ProcessServerInitialized => ~Ran(e)

RanWhenRunning == \A s \in ServerProcs : serverPc[s] = "run" => Ran(job[s].body)

RanWhenReplied == \A k \in ServerIds : \A e \in Commands :
                    Output(e) \in Contents(ManagerPort(k)) => Ran(e)

RanWhenReceived == \A t \in WorkerIds :
                     workers[t].pc \notin {"send", "reply"} => Ran(workers[t].process)

RunInv == RanForWorker /\ NotYetRun /\ RanWhenRunning /\ RanWhenReplied /\ RanWhenReceived

-----------------------------------------------------------------------------
(* What datagrams say.                                                     *)

LEMMA FewerSay ==
  ASSUME NEW p, Fewer(net'[p], net[p])
  PROVE  Contents(p)' \subseteq Contents(p)
<1>1. PICK N, M : N = net[p] /\ M = net'[p]
  OBVIOUS
<1>2. PICK f \in [1..Len(M) -> 1..Len(N)] : \A i \in 1..Len(M) : M[i] = N[f[i]]
  BY <1>1 DEF Fewer
<1>3. \A i \in 1..Len(M) : \E j \in 1..Len(N) : M[i].body = N[j].body
  BY <1>2
<1> QED BY <1>1, <1>3 DEF Contents, Inbox

LEMMA GrownSays ==
  ASSUME NEW p, NEW d, Grown(net'[p], net[p], d)
  PROVE  Contents(p)' = Contents(p) \cup {d.body}
<1>1. PICK N, M : N = net[p] /\ M = net'[p]
  OBVIOUS
<1>2. PICK last : /\ 1..Len(M) = 1..Len(N) \cup {last}
                  /\ M[last] = d
                  /\ \A i \in 1..Len(N) : M[i] = N[i]
  BY <1>1 DEF Grown
<1>3. {M[i].body : i \in 1..Len(M)} = {N[i].body : i \in 1..Len(N)} \cup {d.body}
  BY <1>2
<1> QED BY <1>1, <1>3 DEF Contents, Inbox

LEMMA SameSays ==
  ASSUME NEW p, net'[p] = net[p]
  PROVE  Contents(p)' = Contents(p)
BY DEF Contents, Inbox

LEMMA NothingSaid ==
  ASSUME NEW p, 1..Len(net'[p]) = {}
  PROVE  Contents(p)' = {}
BY DEF Contents, Inbox

LEMMA GreetingIsNoOutput == \A e : Output(e) # ProcessServerInitialized
<1>1. \A e : Output(e).type = "output"
  BY DEF Output
<1>2. ProcessServerInitialized.type = "Process Server Initialized"
  BY DEF ProcessServerInitialized
<1> QED BY <1>1, <1>2

-----------------------------------------------------------------------------
(* Steps in which nothing is run and no command is sent.                   *)

LEMMA RanSame ==
  ASSUME UNCHANGED ran
  PROVE  \A e : Ran(e)' <=> Ran(e)
BY DEF Ran, Elements

\* Each worker keeps its command, and none gets back to sending it.
WorkersGoOn == \A t \in WorkerIds : /\ t \in WorkerIds'
                                    /\ workers'[t].process = workers[t].process
                                    /\ workers'[t].pc = "send" => workers[t].pc = "send"

LEMMA ForWorkerKept ==
  ASSUME RanForWorker, UNCHANGED ran, WorkersGoOn
  PROVE  RanForWorker'
<1> SUFFICES ASSUME NEW e, Ran(e)'
             PROVE  \E t \in WorkerIds' : workers'[t].process = e /\ workers'[t].pc # "send"
  BY DEF RanForWorker
<1>1. Ran(e)
  BY RanSame
<1>2. PICK t \in WorkerIds : workers[t].process = e /\ workers[t].pc # "send"
  BY <1>1 DEF RanForWorker
<1> QED BY <1>2 DEF WorkersGoOn

LEMMA NotYetKept ==
  ASSUME NotYetRun, UNCHANGED ran,
         \A s \in ServerProcs : ServerRunning(s)' =>
           \/ Contents(serverPort[s])' \subseteq {ProcessServerInitialized}
           \/ /\ ServerRunning(s)
              /\ Contents(serverPort[s])' \subseteq Contents(serverPort[s]) \cup {ProcessServerInitialized}
  PROVE  NotYetRun'
<1> SUFFICES ASSUME NEW s \in ServerProcs, ServerRunning(s)',
                    NEW e \in Contents(serverPort[s])', e # ProcessServerInitialized
             PROVE  ~Ran(e)'
  BY DEF NotYetRun
<1>1. ServerRunning(s) /\ e \in Contents(serverPort[s])
  OBVIOUS
<1> QED BY <1>1, RanSame DEF NotYetRun

LEMMA RepliedKept ==
  ASSUME RanWhenReplied, UNCHANGED ran,
         \A k \in ServerIds' : \A e \in Commands : Output(e) \in Contents(ManagerPort(k))' =>
           \/ Ran(e)
           \/ k \in ServerIds /\ Output(e) \in Contents(ManagerPort(k))
  PROVE  RanWhenReplied'
<1>1. ASSUME NEW k \in ServerIds', NEW e \in Commands, Output(e) \in Contents(ManagerPort(k))'
      PROVE  Ran(e)'
  <2>1. Ran(e)
    BY <1>1 DEF RanWhenReplied
  <2> QED BY <2>1, RanSame
<1> QED BY <1>1 DEF RanWhenReplied

LEMMA ReceivedKept ==
  ASSUME UNCHANGED ran,
         \A t \in WorkerIds' : workers'[t].pc \notin {"send", "reply"} => Ran(workers'[t].process)
  PROVE  RanWhenReceived'
<1>1. ASSUME NEW t \in WorkerIds', workers'[t].pc \notin {"send", "reply"}
      PROVE  Ran(workers[t].process)'
  <2>1. PICK e : e = workers'[t].process
    OBVIOUS
  <2>2. Ran(e)'
    BY <1>1, <2>1, RanSame
  <2> QED BY <2>1, <2>2 DEF Ran
<1> QED BY <1>1 DEF RanWhenReceived

LEMMA RunningKept ==
  ASSUME RanWhenRunning, UNCHANGED ran,
         \A s \in ServerProcs : serverPc'[s] = "run" => serverPc[s] = "run" /\ job'[s] = job[s]
  PROVE  RanWhenRunning'
<1>1. ASSUME NEW s \in ServerProcs, serverPc'[s] = "run"
      PROVE  Ran(job[s].body)'
  <2>1. PICK e : e = job[s].body /\ e = job'[s].body
    BY <1>1
  <2>2. Ran(e)'
    BY <1>1, <2>1, RanSame DEF RanWhenRunning
  <2> QED BY <2>1, <2>2 DEF Ran
<1> QED BY <1>1 DEF RanWhenRunning

\* The process servers rest, and no datagram comes to them or from them.
LEMMA RunKept ==
  ASSUME PlaceInv, RunInv, UNCHANGED serverVars, TalkLost, ServerIds' = ServerIds, WorkersGoOn,
         \A t \in WorkerIds' : workers'[t].pc \notin {"send", "reply"} => Ran(workers'[t].process)
  PROVE  RunInv'
<1>1. UNCHANGED <<serverPc, serverPort, job, ran>>
  BY DEF serverVars
<1>2. RanForWorker' /\ RanWhenReceived' /\ RanWhenRunning'
  BY <1>1, ForWorkerKept, ReceivedKept, RunningKept DEF RunInv
<1>3. NotYetRun'
  <2>1. ASSUME NEW s \in ServerProcs, ServerRunning(s)'
        PROVE  ServerRunning(s) /\ Contents(serverPort[s])' \subseteq Contents(serverPort[s])
    <3>1. PICK p : p = serverPort[s] /\ p = serverPort'[s]
      BY <1>1
    <3>2. ServerRunning(s)
      BY <1>1, <2>1 DEF ServerRunning
    <3>3. p \in ServerZone \cap DOMAIN net
      BY <3>1, <3>2, TalkSockets
    <3>4. Contents(p)' \subseteq Contents(p)
      BY <3>3, FewerSay DEF TalkLost
    <3> QED BY <3>1, <3>2, <3>4 DEF Contents, Inbox
  <2> QED BY <1>1, <2>1, NotYetKept DEF RunInv
<1>4. RanWhenReplied'
  <2>1. ASSUME NEW k \in ServerIds
        PROVE  Contents(ManagerPort(k))' \subseteq Contents(ManagerPort(k))
    <3>1. PICK q : q = ManagerPort(k)
      OBVIOUS
    <3>2. q \in ServerZone \cap DOMAIN net
      BY <3>1, TalkSockets
    <3>3. Contents(q)' \subseteq Contents(q)
      BY <3>2, FewerSay DEF TalkLost
    <3>4. ManagerPort(k)' = q
      BY <3>1 DEF ManagerPort
    <3> QED BY <3>1, <3>3, <3>4 DEF Contents, Inbox
  <2> QED BY <1>1, <2>1, RepliedKept DEF RunInv
<1> QED BY <1>2, <1>3, <1>4 DEF RunInv

-----------------------------------------------------------------------------
(* The steps of the load manager.                                          *)

\* Worker t moves on.
LEMMA WorkerGoesOn ==
  ASSUME RanWhenReceived, NEW t \in WorkerIds, NEW pc, Moved(t, pc), pc # "send",
         workers'[t].process = workers[t].process,
         \/ pc \in {"send", "reply"} \/ workers[t].pc \notin {"send", "reply"}
         \/ Ran(workers[t].process)
  PROVE  /\ WorkersGoOn
         /\ \A u \in WorkerIds' : workers'[u].pc \notin {"send", "reply"} => Ran(workers'[u].process)
<1>1. \A u \in WorkerIds : u # t => workers'[u] = workers[u]
  BY DEF Moved
<1>2. WorkersGoOn
  BY <1>1 DEF WorkersGoOn, Moved
<1>3. ASSUME NEW u \in WorkerIds', workers'[u].pc \notin {"send", "reply"}
      PROVE  Ran(workers'[u].process)
  <2>1. u \in WorkerIds
    BY DEF Moved
  <2>2. CASE u = t
    <3>1. Ran(workers[t].process)
      BY <1>3, <2>2 DEF Moved, RanWhenReceived
    <3>2. PICK e : e = workers[t].process /\ e = workers'[u].process
      BY <2>2
    <3> QED BY <3>1, <3>2
  <2>3. CASE u # t
    <3>1. workers'[u] = workers[u]
      BY <1>1, <2>1, <2>3
    <3>2. PICK e : e = workers[u].process /\ e = workers'[u].process
      BY <3>1
    <3>3. Ran(e)
      BY <1>3, <2>1, <3>1, <3>2 DEF RanWhenReceived
    <3> QED BY <3>2, <3>3
  <2> QED BY <2>2, <2>3
<1> QED BY <1>2, <1>3

LEMMA WorkersRest ==
  ASSUME RanWhenReceived, UNCHANGED workers
  PROVE  /\ WorkersGoOn
         /\ \A u \in WorkerIds' : workers'[u].pc \notin {"send", "reply"} => Ran(workers'[u].process)
BY DEF WorkersGoOn, WorkerIds, RanWhenReceived

\* Process servers and workers have no part in the step.
LEMMA OthersRun ==
  ASSUME PlaceInv, RunInv, UNCHANGED <<serverVars, serverEndPoint, workers>>, TalkLost
  PROVE  RunInv'
<1>1. ServerIds' = ServerIds
  BY IdsSame
<1> QED BY <1>1, WorkersRest, RunKept DEF RunInv

LEMMA DispatchRuns ==
  ASSUME PlaceInv, RunInv, UNCHANGED serverVars, Dispatch
  PROVE  RunInv'
<1>1. UNCHANGED <<net, serverEndPoint>>
  BY DEF Dispatch, netVars
<1>2. PICK n : /\ n \notin WorkerIds /\ WorkerIds' = WorkerIds \cup {n}
               /\ \A u \in WorkerIds : workers'[u] = workers[u]
               /\ workers'[n].pc = "send"
  BY WorkerAdded
<1>3. WorkersGoOn
  BY <1>2 DEF WorkersGoOn
<1>4. ASSUME NEW u \in WorkerIds', workers'[u].pc \notin {"send", "reply"}
      PROVE  Ran(workers'[u].process)
  <2>1. u \in WorkerIds /\ workers'[u] = workers[u]
    BY <1>2, <1>4
  <2>2. PICK e : e = workers[u].process /\ e = workers'[u].process
    BY <2>1
  <2>3. Ran(e)
    BY <1>4, <2>1, <2>2 DEF RunInv, RanWhenReceived
  <2> QED BY <2>2, <2>3
<1>5. TalkLost /\ ServerIds' = ServerIds
  BY <1>1, SameIsLost, IdsSame DEF TalkSame
<1> QED BY <1>3, <1>4, <1>5, RunKept

\* The command that a worker is about to send was not run.
LEMMA SentNotRun ==
  ASSUME RanForWorker, CommandsOnce, NEW t \in WorkerIds, workers[t].pc = "send"
  PROVE  ~Ran(workers[t].process)
BY DEF RanForWorker, CommandsOnce

LEMMA SendRuns ==
  ASSUME PlaceInv, TalkInv, RunInv, CommandsOnce, UNCHANGED serverVars,
         NEW t \in WorkerIds, SendCommand(t)
  PROVE  RunInv'
<1>1. PICK k, e : k = workers[t].server /\ e = workers[t].process
  OBVIOUS
<1>2. k \in ServerIds /\ e \in Commands
  BY <1>1, WorkerFinds
<1>3. PICK r \in ServerProcs : KnownAs(k, r)
  BY <1>2 DEF TalkInv, Announced
<1>4. PICK p, q : p = serverPort[r] /\ q = ManagerPort(k)
  OBVIOUS
<1>5. WorkerGoto(t, "send", "reply") /\ net' = Sent(net, q, p, e) /\ UNCHANGED serverEndPoint
  BY <1>1, <1>3, <1>4 DEF SendCommand, KnownAs
<1>6. workers[t].pc = "send" /\ Moved(t, "reply") /\ workers'[t].process = workers[t].process
  BY <1>5, Goes, KeepsTask
<1>7. UNCHANGED <<serverPc, serverPort, job, ran>>
  BY DEF serverVars
<1>8. p \in DOMAIN net
  BY <1>3, <1>4, TalkSockets DEF KnownAs
<1>9. /\ \A m \in DOMAIN net : m # p => Contents(m)' = Contents(m)
      /\ Contents(p)' = Contents(p) \cup {e}
  <2>1. /\ \A m \in DOMAIN net : m # p => net'[m] = net[m]
        /\ Grown(net'[p], net[p], [src |-> q, body |-> e])
    BY <1>5, <1>8, InboxTyped, SentElsewhere, SentThere
  <2>2. [src |-> q, body |-> e].body = e
    OBVIOUS
  <2> QED BY <2>1, <2>2, GrownSays, SameSays
<1>10. ~Ran(e)
  BY <1>1, <1>6, SentNotRun DEF RunInv
<1>11. RanForWorker' /\ RanWhenReceived' /\ RanWhenRunning'
  <2>1. WorkersGoOn /\ \A u \in WorkerIds' :
          workers'[u].pc \notin {"send", "reply"} => Ran(workers'[u].process)
    BY <1>6, WorkerGoesOn DEF RunInv
  <2> QED BY <1>7, <2>1, ForWorkerKept, ReceivedKept, RunningKept DEF RunInv
<1>12. NotYetRun'
  <2> SUFFICES ASSUME NEW s \in ServerProcs, ServerRunning(s)',
                      NEW b \in Contents(serverPort[s])', b # ProcessServerInitialized
               PROVE  ~Ran(b)
    BY <1>7, RanSame DEF NotYetRun
  <2>1. PICK m : m = serverPort[s] /\ m = serverPort'[s]
    BY <1>7
  <2>2. ServerRunning(s) /\ m \in DOMAIN net
    BY <1>7, <2>1, TalkSockets DEF ServerRunning
  <2>3. b \in Contents(m)'
    BY <2>1 DEF Contents, Inbox
  <2>4. b \in Contents(m) \/ b = e
    BY <1>9, <2>2, <2>3
  <2> QED BY <1>10, <2>1, <2>2, <2>4 DEF RunInv, NotYetRun
<1>13. RanWhenReplied'
  <2>1. ServerIds' = ServerIds
    BY <1>5, IdsSame
  <2>2. ASSUME NEW l \in ServerIds PROVE Contents(ManagerPort(l))' = Contents(ManagerPort(l))
    <3>1. PICK m : m = ManagerPort(l) /\ m = ManagerPort(l)'
      BY DEF ManagerPort
    <3>2. m \in DOMAIN net /\ m # p
      BY <1>3, <1>4, <3>1, TalkSockets DEF KnownAs
    <3>3. Contents(m)' = Contents(m)
      BY <1>9, <3>2
    <3> QED BY <3>1, <3>3 DEF Contents, Inbox
  <2> QED BY <1>7, <2>1, <2>2, RepliedKept DEF RunInv
<1> QED BY <1>11, <1>12, <1>13 DEF RunInv

\* The reply that a worker takes is to its command, which was run.
LEMMA ReceiveRuns ==
  ASSUME PlaceInv, ServerExclusive, TalkInv, RunInv, LossAndKills, UNCHANGED serverVars,
         NEW t \in WorkerIds, ReceiveReply(t)
  PROVE  RunInv'
<1>1. PICK k, q : k = workers[t].server /\ q = ManagerPort(k)
  OBVIOUS
<1>2. k \in ServerIds /\ q \in DOMAIN net /\ workers[t].process \in Commands
  BY <1>1, WorkerFinds
<1>3. PICK i \in Arrivals(q) :
        /\ workers' = [workers EXCEPT ![t].pc = "lock", ![t].exeResult = net[q][i].body]
        /\ net' = Taken(q, i)
  BY <1>1 DEF ReceiveReply
<1>4. i = 1 /\ 1 \in Inbox(q)
  BY FirstArrives
<1>5. PICK b : b = net[q][1].body
  OBVIOUS
<1>6. /\ workers[t].pc = "reply" /\ Moved(t, "lock")
      /\ workers'[t].process = workers[t].process /\ workers'[t].exeResult = b
  BY <1>3, <1>4, <1>5, RepliedMoves, RepliedTask
<1>7. TalkInv' /\ UNCHANGED serverEndPoint
  BY ReceiveTalks
<1>8. b = Output(workers[t].process)
  BY <1>6, <1>7 DEF TalkInv, RepliesMatch, Moved
<1>9. Ran(workers[t].process)
  <2>1. b \in Contents(ManagerPort(k))
    BY <1>1, <1>4, <1>5 DEF Contents
  <2> QED BY <1>2, <1>8, <2>1 DEF RunInv, RanWhenReplied
<1>10. TalkLost
  BY <1>2, <1>3, <1>4, FirstTaken, TakenElsewhere, FewerSame DEF TalkLost
<1>11. ServerIds' = ServerIds
  BY <1>7, IdsSame
<1>12. WorkersGoOn /\ \A u \in WorkerIds' :
         workers'[u].pc \notin {"send", "reply"} => Ran(workers'[u].process)
  BY <1>6, <1>9, WorkerGoesOn DEF RunInv
<1> QED BY <1>10, <1>11, <1>12, RunKept

LEMMA LaterRuns ==
  ASSUME PlaceInv, RunInv, UNCHANGED serverVars, NEW t \in WorkerIds,
         SendResult(t) \/ ReceiveAck(t) \/ DeleteClient(t) \/ ReturnServer(t)
  PROVE  RunInv'
<1>1. UNCHANGED serverEndPoint
  BY DEF SendResult, ReceiveAck, DeleteClient, ReturnServer
<1>2. TalkSame
  <2>1. CASE DeleteClient(t) \/ ReturnServer(t)
    <3>1. UNCHANGED net
      BY <2>1 DEF DeleteClient, ReturnServer, netVars
    <3> QED BY <3>1 DEF TalkSame
  <2> QED BY <2>1, SendResultElsewhere, ReceiveAckElsewhere
<1>3. PICK from, to : /\ WorkerGoto(t, from, to) /\ to # "send"
                      /\ from \in {"lock", "ack", "delete", "return"}
  BY DEF SendResult, ReceiveAck, DeleteClient, ReturnServer, WorkerGoto
<1>4. /\ workers[t].pc = from /\ Moved(t, to)
      /\ workers'[t].process = workers[t].process
  BY <1>3, Goes, KeepsTask
<1>5. WorkersGoOn /\ \A u \in WorkerIds' :
        workers'[u].pc \notin {"send", "reply"} => Ran(workers'[u].process)
  BY <1>3, <1>4, WorkerGoesOn DEF RunInv
<1>6. ServerIds' = ServerIds
  BY <1>1, IdsSame
<1> QED BY <1>2, <1>5, <1>6, SameIsLost, RunKept

\* A new server object: its socket is empty, and its process is greeted.
LEMMA ObjectRuns ==
  ASSUME PlaceInv, TalkInv, RunInv, UNCHANGED <<serverVars, workers>>,
         1 \in Inbox(InitializationPort),
         NEW k, k = Len(serverEndPoint) + 1, Free(ManagerPort(k)),
         NEW a, a = net[InitializationPort][1].src,
         serverEndPoint' = Append(serverEndPoint, a),
         net' = Sent(Bind(Taken(InitializationPort, 1), ManagerPort(k)), ManagerPort(k),
                     a, ProcessServerInitialized)
  PROVE  RunInv'
<1>1. PICK m : m = ManagerPort(k)
  OBVIOUS
<1>2. UNCHANGED <<serverPc, serverPort, job, ran>>
  BY DEF serverVars
<1>3. \E s \in ServerProcs : ServerRunning(s) /\ serverPort[s] = a
  BY DEF TalkInv, Announced
<1>4. /\ a \in ServerZone \cap DOMAIN net /\ a # InitializationPort
      /\ InitializationPort \in DOMAIN net /\ m \notin DOMAIN net
  BY <1>1, <1>3, TalkSockets DEF Free, Bound
<1>5. ServerIds' = ServerIds \cup {k}
  BY <1>4, ServerMade
<1>6. /\ net'[m] = << >>
      /\ \A q \in DOMAIN net : q # InitializationPort /\ q # a => net'[q] = net[q]
      /\ Grown(net'[a], net[a], [src |-> m, body |-> ProcessServerInitialized])
  <2> DEFINE rest == Taken(InitializationPort, 1)
  <2>1. /\ DOMAIN rest = DOMAIN net /\ rest[a] = net[a]
        /\ \A q \in DOMAIN net : q # InitializationPort => rest[q] = net[q]
    BY <1>4, TakenElsewhere DEF Taken
  <2> HIDE DEF rest
  <2>2. net' = Sent(Bind(rest, m), m, a, ProcessServerInitialized)
    BY <1>1 DEF rest
  <2>3. /\ \A q \in DOMAIN net : Bind(rest, m)[q] = rest[q]
        /\ Bind(rest, m)[m] = << >> /\ m \in DOMAIN Bind(rest, m)
        /\ \A q \in DOMAIN net : q \in DOMAIN Bind(rest, m)
    BY <1>4, <2>1 DEF Bind
  <2>4. \A q \in DOMAIN Bind(rest, m) : q # a => net'[q] = Bind(rest, m)[q]
    BY <2>2, SentElsewhere
  <2>5. net[a] \in Seq(Expected(a))
    BY <1>4, InboxTyped
  <2>6. Grown(net'[a], net[a], [src |-> m, body |-> ProcessServerInitialized])
    BY <1>4, <2>1, <2>2, <2>3, <2>5, SentThere
  <2>7. m # a
    BY <1>4
  <2> QED BY <1>4, <2>1, <2>3, <2>4, <2>6, <2>7
<1>7. /\ Contents(m)' = {}
      /\ \A q \in DOMAIN net : q # InitializationPort =>
           Contents(q)' \subseteq Contents(q) \cup {ProcessServerInitialized}
  <2>1. Contents(m)' = {}
    BY <1>6, NothingSaid
  <2>2. Contents(a)' = Contents(a) \cup {ProcessServerInitialized}
    <3>1. [src |-> m, body |-> ProcessServerInitialized].body = ProcessServerInitialized
      OBVIOUS
    <3> QED BY <1>6, <3>1, GrownSays
  <2>3. \A q \in DOMAIN net : q # InitializationPort /\ q # a => Contents(q)' = Contents(q)
    BY <1>6, SameSays
  <2> QED BY <2>1, <2>2, <2>3
<1>8. RanForWorker' /\ RanWhenReceived' /\ RanWhenRunning'
  BY <1>2, WorkersRest, ForWorkerKept, ReceivedKept, RunningKept DEF RunInv
<1>9. NotYetRun'
  <2>1. ASSUME NEW s \in ServerProcs, ServerRunning(s)'
        PROVE  /\ ServerRunning(s)
               /\ Contents(serverPort[s])' \subseteq Contents(serverPort[s]) \cup {ProcessServerInitialized}
    <3>1. PICK p : p = serverPort[s] /\ p = serverPort'[s]
      BY <1>2
    <3>2. ServerRunning(s)
      BY <1>2, <2>1 DEF ServerRunning
    <3>3. p \in DOMAIN net /\ p # InitializationPort
      BY <3>1, <3>2, TalkSockets
    <3>4. Contents(p)' \subseteq Contents(p) \cup {ProcessServerInitialized}
      BY <1>7, <3>3
    <3>5. Contents(serverPort[s])' = Contents(p)' /\ Contents(serverPort[s]) = Contents(p)
      BY <3>1 DEF Contents, Inbox
    <3> QED BY <3>2, <3>4, <3>5
  <2> QED BY <1>2, <2>1, NotYetKept DEF RunInv
<1>10. RanWhenReplied'
  <2>1. ASSUME NEW l \in ServerIds', NEW e \in Commands, Output(e) \in Contents(ManagerPort(l))'
        PROVE  l \in ServerIds /\ Output(e) \in Contents(ManagerPort(l))
    <3>1. PICK q : q = ManagerPort(l) /\ q = ManagerPort(l)'
      BY DEF ManagerPort
    <3>2. Output(e) \in Contents(q)'
      BY <2>1, <3>1 DEF Contents, Inbox
    <3>3. l \in ServerIds
      BY <1>1, <1>5, <1>7, <3>1, <3>2
    <3>4. q \in DOMAIN net /\ q # InitializationPort
      BY <3>1, <3>3, TalkSockets
    <3> QED BY <1>7, <3>1, <3>2, <3>3, <3>4, GreetingIsNoOutput
  <2> QED BY <1>2, <2>1, RepliedKept DEF RunInv
<1> QED BY <1>8, <1>9, <1>10 DEF RunInv

LEMMA InitializeRuns ==
  ASSUME PlaceInv, TalkInv, RunInv, LossAndKills, InitializeServer, UNCHANGED serverVars
  PROVE  RunInv'
<1>1. UNCHANGED workers
  BY DEF InitializeServer
<1>2. PICK i \in Arrivals(InitializationPort) :
        LET k      == Len(serverEndPoint) + 1
            sender == net[InitializationPort][i].src
            rest   == Taken(InitializationPort, i)
        IN  IF Free(ManagerPort(k))
              THEN /\ serverEndPoint' = Append(serverEndPoint, sender)
                   /\ net' = Sent(Bind(rest, ManagerPort(k)), ManagerPort(k),
                                  sender, ProcessServerInitialized)
              ELSE net' = rest /\ UNCHANGED serverEndPoint
  BY DEF InitializeServer
<1>3. i = 1 /\ 1 \in Inbox(InitializationPort)
  BY FirstArrives
<1>4. PICK k : k = Len(serverEndPoint) + 1
  OBVIOUS
<1>5. PICK a : a = net[InitializationPort][1].src
  OBVIOUS
<1>6. CASE Free(ManagerPort(k))
  <2>1. /\ serverEndPoint' = Append(serverEndPoint, a)
        /\ net' = Sent(Bind(Taken(InitializationPort, 1), ManagerPort(k)), ManagerPort(k),
                       a, ProcessServerInitialized)
    BY <1>2, <1>3, <1>4, <1>5, <1>6
  <2> QED BY <1>1, <1>3, <1>4, <1>5, <1>6, <2>1, ObjectRuns
<1>7. CASE ~Free(ManagerPort(k))
  <2>1. net' = Taken(InitializationPort, 1) /\ UNCHANGED serverEndPoint
    BY <1>2, <1>3, <1>4, <1>7
  <2>2. InitializationPort \in DOMAIN net
    BY TalkSockets
  <2>3. TalkLost
    BY <1>3, <2>1, <2>2, FirstTaken, TakenElsewhere, FewerSame DEF TalkLost
  <2> QED BY <1>1, <2>1, <2>3, OthersRun
<1> QED BY <1>6, <1>7

LEMMA ManagerRuns ==
  ASSUME PlaceInv, ServerExclusive, TalkInv, RunInv, CommandsOnce, LossAndKills,
         UNCHANGED serverVars, ManagerNext
  PROVE  RunInv'
<1>1. CASE InitializeServer
  BY <1>1, InitializeRuns
<1>2. CASE AcceptClient
  <2>1. UNCHANGED <<serverEndPoint, workers>>
    BY <1>2 DEF AcceptClient
  <2> QED BY <1>2, <2>1, AcceptElsewhere, SameIsLost, OthersRun
<1>3. CASE GetClient \/ PopProcess \/ LeaveClient \/ ReadDeletedClient
  <2>1. UNCHANGED <<net, serverEndPoint, workers>>
    BY <1>3 DEF GetClient, PopProcess, LeaveClient, ReadDeletedClient, netVars
  <2>2. TalkSame
    BY <2>1 DEF TalkSame
  <2> QED BY <2>1, <2>2, SameIsLost, OthersRun
<1>4. CASE Dispatch
  BY <1>4, DispatchRuns
<1>5. ASSUME NEW t \in WorkerIds, WorkerNext(t) PROVE RunInv'
  BY <1>5, SendRuns, ReceiveRuns, LaterRuns DEF WorkerNext
<1> QED BY <1>1, <1>2, <1>3, <1>4, <1>5 DEF ManagerNext, MainNext

-----------------------------------------------------------------------------
(* The steps of a process server.                                          *)

LEMMA ServerGoes ==
  ASSUME PlaceInv, NEW r \in ServerProcs, NEW from, NEW to, ServerGoto(r, from, to)
  PROVE  /\ serverPc[r] = from /\ serverPc'[r] = to
         /\ \A s \in ServerProcs : s # r => serverPc'[s] = serverPc[s]
BY DEF ServerGoto, PlaceInv, ServerInv, ServerTypeOK

\* Process server r runs nothing new and receives nothing but the greeting.
LEMMA ServerRests ==
  ASSUME PlaceInv, RunInv, UNCHANGED <<managerVars, ran>>, NEW r \in ServerProcs,
         serverPc'[r] # "run",
         \A s \in ServerProcs : s # r => serverPc'[s] = serverPc[s] /\ serverPort'[s] = serverPort[s]
                                         /\ job'[s] = job[s],
         \A s \in ServerProcs : s # r /\ ServerRunning(s) => net'[serverPort[s]] = net[serverPort[s]],
         ServerRunning(r)' => \/ Contents(serverPort[r])' = {}
                              \/ /\ ServerRunning(r)
                                 /\ Contents(serverPort[r])' \subseteq Contents(serverPort[r]),
         \A k \in ServerIds : \A e \in Commands : Output(e) \in Contents(ManagerPort(k))' =>
           Ran(e) \/ Output(e) \in Contents(ManagerPort(k))
  PROVE  RunInv'
<1>1. UNCHANGED <<workers, serverEndPoint>> /\ ServerIds' = ServerIds
  BY IdsSame DEF managerVars
<1>2. RanForWorker' /\ RanWhenReceived' /\ RanWhenRunning' /\ RanWhenReplied'
  BY <1>1, WorkersRest, ForWorkerKept, ReceivedKept, RunningKept, RepliedKept DEF RunInv
<1>3. NotYetRun'
  <2>1. ASSUME NEW s \in ServerProcs, ServerRunning(s)'
        PROVE  \/ Contents(serverPort[s])' = {}
               \/ ServerRunning(s) /\ Contents(serverPort[s])' \subseteq Contents(serverPort[s])
    <3>1. CASE s = r
      BY <2>1, <3>1
    <3>2. CASE s # r
      <4>1. ServerRunning(s) /\ serverPort'[s] = serverPort[s]
            /\ net'[serverPort[s]] = net[serverPort[s]]
        BY <2>1, <3>2 DEF ServerRunning
      <4> QED BY <4>1 DEF Contents, Inbox
    <3> QED BY <3>1, <3>2
  <2> QED BY <2>1, NotYetKept DEF RunInv
<1> QED BY <1>2, <1>3 DEF RunInv

LEMMA StartRuns ==
  ASSUME PlaceInv, RunInv, NEW r \in ServerProcs, StartServer(r), UNCHANGED managerVars
  PROVE  RunInv'
<1>1. PICK p : /\ p \notin DOMAIN net
               /\ serverPort' = [serverPort EXCEPT ![r] = p]
               /\ net' = Sent(Bind(net, p), p, InitializationPort, InitMessage)
  BY HighestFreePortFound DEF StartServer, Free, Bound
<1>2. /\ serverPc'[r] = "handshake" /\ UNCHANGED <<job, ran>>
      /\ \A s \in ServerProcs : s # r => serverPc'[s] = serverPc[s]
  BY ServerGoes DEF StartServer
<1>3. serverPort \in [ServerProcs -> Nat] /\ InitializationPort \in DOMAIN net
  BY TalkSockets DEF PlaceInv, ServerInv, ServerTypeOK
<1>4. net'[p] = << >> /\ \A q \in DOMAIN net : q # InitializationPort => net'[q] = net[q]
  BY <1>1, <1>3 DEF Bind, Sent
<1>5. serverPort'[r] = p /\ \A s \in ServerProcs : s # r => serverPort'[s] = serverPort[s]
  BY <1>1, <1>3
<1>6. Contents(serverPort[r])' = {}
  BY <1>4, <1>5 DEF Contents, Inbox
<1>7. \A s \in ServerProcs : ServerRunning(s) => net'[serverPort[s]] = net[serverPort[s]]
  BY <1>4, TalkSockets
<1>8. ASSUME NEW k \in ServerIds PROVE Contents(ManagerPort(k))' = Contents(ManagerPort(k))
  <2>1. PICK q : q = ManagerPort(k) /\ q = ManagerPort(k)'
    BY DEF ManagerPort
  <2>2. net'[q] = net[q]
    BY <1>4, <2>1, TalkSockets
  <2> QED BY <2>1, <2>2 DEF Contents, Inbox
<1> QED BY <1>2, <1>5, <1>6, <1>7, <1>8, ServerRests

LEMMA MoveRuns ==
  ASSUME PlaceInv, RunInv, LossAndKills, UNCHANGED managerVars, NEW r \in ServerProcs,
         ServerFindsNoPort(r) \/ ServerHandshake(r) \/ StopServerTimer(r)
  PROVE  RunInv'
<1>1. PICK from, to : /\ ServerGoto(r, from, to) /\ to # "run"
                      /\ to = "noPort" \/ from \in {"handshake", "answered"}
  BY DEF ServerFindsNoPort, ServerHandshake, StopServerTimer
<1>2. /\ serverPc[r] = from /\ serverPc'[r] = to
      /\ \A s \in ServerProcs : s # r => serverPc'[s] = serverPc[s]
      /\ UNCHANGED <<serverPort, job, ran>>
  BY <1>1, ServerGoes DEF ServerFindsNoPort, ServerHandshake, StopServerTimer
<1>3. ServerRunning(r)' => ServerRunning(r)
  BY <1>1, <1>2 DEF ServerRunning
<1>4. \/ net' = net
      \/ ServerRunning(r) /\ 1 \in Inbox(serverPort[r]) /\ net' = Taken(serverPort[r], 1)
  <2>1. CASE ServerHandshake(r)
    BY <2>1, FirstArrives DEF ServerHandshake, ServerGoto, ServerRunning
  <2>2. CASE ~ServerHandshake(r)
    BY <2>2 DEF ServerFindsNoPort, StopServerTimer, netVars
  <2> QED BY <2>1, <2>2
<1>5. /\ \A q \in DOMAIN net : q # serverPort[r] => net'[q] = net[q]
      /\ ServerRunning(r) => Fewer(net'[serverPort[r]], net[serverPort[r]])
      /\ ~ServerRunning(r) => net' = net
  <2>1. ServerRunning(r) => serverPort[r] \in DOMAIN net
    BY TalkSockets
  <2> QED BY <1>4, <2>1, FirstTaken, TakenElsewhere, FewerSame
<1>6. ServerRunning(r)' =>
        ServerRunning(r) /\ Contents(serverPort[r])' \subseteq Contents(serverPort[r])
  <2> SUFFICES ASSUME ServerRunning(r)'
               PROVE  ServerRunning(r) /\ Contents(serverPort[r])' \subseteq Contents(serverPort[r])
    OBVIOUS
  <2>1. PICK p : p = serverPort[r] /\ p = serverPort'[r]
    BY <1>2
  <2>2. Contents(p)' \subseteq Contents(p)
    BY <1>3, <1>5, <2>1, FewerSay
  <2> QED BY <1>3, <2>1, <2>2 DEF Contents, Inbox
<1>7. \A s \in ServerProcs : s # r /\ ServerRunning(s) => net'[serverPort[s]] = net[serverPort[s]]
  BY <1>5, TalkSockets
<1>8. ASSUME NEW k \in ServerIds PROVE Contents(ManagerPort(k))' = Contents(ManagerPort(k))
  <2>1. PICK q : q = ManagerPort(k) /\ q = ManagerPort(k)'
    BY DEF ManagerPort
  <2>2. net'[q] = net[q]
    BY <1>5, <2>1, TalkSockets
  <2> QED BY <2>1, <2>2 DEF Contents, Inbox
<1> QED BY <1>1, <1>2, <1>6, <1>7, <1>8, ServerRests

\* The output of what process server r has run.
LEMMA ReplyRuns ==
  ASSUME PlaceInv, TalkInv, RunInv, UNCHANGED managerVars, NEW r \in ServerProcs, Reply(r)
  PROVE  RunInv'
<1>1. PICK p, b : p = serverPort[r] /\ b = job[r].body
  OBVIOUS
<1>2. /\ serverPc[r] = "run" /\ ServerRunning(r) /\ serverPc'[r] = "receive"
      /\ \A s \in ServerProcs : s # r => serverPc'[s] = serverPc[s]
      /\ UNCHANGED <<serverPort, ran>>
      /\ job' = [job EXCEPT ![r] = NoJob]
      /\ net' = Sent(net, p, job[r].src, Output(b))
  BY <1>1, ServerGoes DEF Reply, ServerRunning
<1>3. PICK k \in ServerIds : KnownAs(k, r)
  BY <1>2, KnownByNow DEF TalkInv
<1>4. PICK q : q = ManagerPort(k)
  OBVIOUS
<1>5. job[r].src = q /\ q \in DOMAIN net
  <2>1. Answering(k, r)
    BY <1>3 DEF TalkInv, Conversations
  <2> QED BY <1>2, <1>4, <2>1, TalkSockets DEF Answering
<1>6. Ran(b)
  BY <1>1, <1>2 DEF RunInv, RanWhenRunning
<1>7. /\ \A m \in DOMAIN net : m # q => net'[m] = net[m]
      /\ Grown(net'[q], net[q], [src |-> p, body |-> Output(b)])
  BY <1>2, <1>5, InboxTyped, SentElsewhere, SentThere
<1>8. \A s \in ServerProcs : ServerRunning(s) => net'[serverPort[s]] = net[serverPort[s]]
  BY <1>4, <1>7, TalkSockets
<1>9. Contents(serverPort[r])' \subseteq Contents(serverPort[r])
  BY <1>2, <1>8 DEF Contents, Inbox
<1>10. ASSUME NEW l \in ServerIds, NEW e \in Commands, Output(e) \in Contents(ManagerPort(l))'
       PROVE  Ran(e) \/ Output(e) \in Contents(ManagerPort(l))
  <2>1. PICK m : m = ManagerPort(l) /\ m = ManagerPort(l)'
    BY DEF ManagerPort
  <2>2. Output(e) \in Contents(m)'
    BY <1>10, <2>1 DEF Contents, Inbox
  <2>3. CASE m = q
    <3>1. [src |-> p, body |-> Output(b)].body = Output(b)
      OBVIOUS
    <3>2. Contents(m)' = Contents(m) \cup {Output(b)}
      BY <1>7, <2>3, <3>1, GrownSays
    <3>3. Output(e) = Output(b) => e = b
      BY OutputsDiffer
    <3> QED BY <1>6, <2>1, <2>2, <3>2, <3>3
  <2>4. CASE m # q
    <3>1. net'[m] = net[m]
      BY <1>7, <2>1, <2>4, TalkSockets
    <3>2. Contents(m)' = Contents(m)
      BY <3>1, SameSays
    <3> QED BY <2>1, <2>2, <3>2
  <2> QED BY <2>3, <2>4
<1> QED BY <1>2, <1>8, <1>9, <1>10, ServerRests

\* The command that process server r receives was sent by a worker and was not
\* run before.
LEMMA CommandReceived ==
  ASSUME PlaceInv, TalkInv, RunInv, LossAndKills, NEW r \in ServerProcs, ReceiveCommand(r)
  PROVE  \E k, e :
           /\ k \in ServerIds /\ KnownAs(k, r) /\ Sender(k, e) /\ ~Ran(e)
           /\ ServerRunning(r) /\ serverPc'[r] = "run" /\ UNCHANGED serverPort
           /\ \A s \in ServerProcs : s # r => serverPc'[s] = serverPc[s] /\ job'[s] = job[s]
           /\ job'[r].body = e /\ ran' = [ran EXCEPT ![r] = Append(@, e)]
           /\ 1..Len(net'[serverPort[r]]) = {}
           /\ \A q \in DOMAIN net : q # serverPort[r] => net'[q] = net[q]
<1>1. PICK p, e : p = serverPort[r] /\ e = net[p][1].body
  OBVIOUS
<1>2. /\ serverPc[r] = "receive" /\ serverPc'[r] = "run" /\ ServerRunning(r)
      /\ \A s \in ServerProcs : s # r => serverPc'[s] = serverPc[s]
      /\ UNCHANGED serverPort
  BY ServerGoes DEF ReceiveCommand, ServerRunning
<1>3. /\ 1 \in Inbox(p) /\ net' = Taken(p, 1) /\ job' = [job EXCEPT ![r] = net[p][1]]
      /\ ran' = [ran EXCEPT ![r] = Append(@, e)]
  BY <1>1, FirstArrives DEF ReceiveCommand
<1>4. PICK k \in ServerIds : KnownAs(k, r)
  BY <1>1, <1>2, <1>3, KnownByNow DEF TalkInv
<1>5. Asking(k, r)
  BY <1>4 DEF TalkInv, Conversations
<1>6. /\ \A i \in Inbox(p) : Sender(k, net[p][i].body)
      /\ \A i, j \in Inbox(p) :
           (/\ net[p][i].body # ProcessServerInitialized
            /\ net[p][j].body # ProcessServerInitialized) => i = j
  BY <1>1, <1>2, <1>5 DEF Asking
<1>7. \A b : Sender(k, b) => b # ProcessServerInitialized
  <2>1. \A t \in WorkerIds : workers[t].process \in Commands
    BY WorkerFinds
  <2> QED BY <2>1, GreetingIsNoCommand DEF Sender
<1>8. Inbox(p) = {1}
  BY <1>3, <1>6, <1>7
<1>9. p \in DOMAIN net
  BY <1>1, <1>2, TalkSockets
<1>10. 1..Len(net'[p]) = {} /\ \A q \in DOMAIN net : q # p => net'[q] = net[q]
  BY <1>3, <1>8, <1>9, FirstTaken, TakenElsewhere
<1>11. job'[r].body = e /\ \A s \in ServerProcs : s # r => job'[s] = job[s]
  <2>1. job = [s \in ServerProcs |-> job[s]]
    BY DEF PlaceInv, ServerInv, ServerTypeOK
  <2> QED BY <1>1, <1>3, <2>1
<1>12. Sender(k, e) /\ ~Ran(e)
  <2>1. Sender(k, e) /\ e # ProcessServerInitialized
    BY <1>1, <1>3, <1>6, <1>7
  <2>2. e \in Contents(serverPort[r])
    BY <1>1, <1>3 DEF Contents
  <2> QED BY <1>2, <2>1, <2>2 DEF RunInv, NotYetRun
<1> QED BY <1>1, <1>2, <1>3, <1>4, <1>10, <1>11, <1>12

\* What process server r runs is added to what was run.
LEMMA OneMoreRan ==
  ASSUME PlaceInv, NEW r \in ServerProcs, NEW e, ran' = [ran EXCEPT ![r] = Append(@, e)]
  PROVE  \A b : Ran(b)' <=> Ran(b) \/ b = e
<1>1. ran \in [ServerProcs -> Seq(Bodies)]
  BY DEF PlaceInv, ServerInv, ServerTypeOK
<1>2. ran'[r] = Append(ran[r], e) /\ \A s \in ServerProcs : s # r => ran'[s] = ran[s]
  BY <1>1
<1>3. ran[r] \in Seq(Bodies)
  BY <1>1
<1>4. Elements(Append(ran[r], e)) = Elements(ran[r]) \cup {e}
  <2>1. PICK Q, R : Q = Append(ran[r], e) /\ R = ran[r]
    OBVIOUS
  <2>2. Grown(Q, R, e)
    BY <1>3, <2>1, AppendGrows
  <2>3. Elements(Q) = Elements(R) \cup {e}
    BY <2>2 DEF Grown, Elements
  <2> QED BY <2>1, <2>3
<1>5. Elements(ran[r])' = Elements(ran[r]) \cup {e}
  BY <1>2, <1>4 DEF Elements
<1>6. \A s \in ServerProcs : s # r => Elements(ran[s])' = Elements(ran[s])
  BY <1>2 DEF Elements
<1> QED BY <1>5, <1>6 DEF Ran

\* A command that one process server has in its inbox is with no other.
LEMMA AskedOnce ==
  ASSUME PlaceInv, TalkInv, CommandsOnce, NEW k \in ServerIds, NEW e, Sender(k, e),
         NEW r \in ServerProcs, KnownAs(k, r), e \in Commands,
         NEW s \in ServerProcs, ServerRunning(s), e \in Contents(serverPort[s])
  PROVE  s = r
<1>1. PICK i \in Inbox(serverPort[s]) : net[serverPort[s]][i].body = e
  BY DEF Contents
<1>2. ~Unknown(serverPort[s])
  BY <1>1 DEF TalkInv, Announced
<1>3. PICK l \in ServerIds : KnownAs(l, s)
  BY <1>2 DEF Unknown, KnownAs
<1>4. Sender(l, e)
  BY <1>1, <1>3, GreetingIsNoCommand DEF TalkInv, Conversations, Asking
<1>5. l = k
  BY <1>4 DEF CommandsOnce, Sender
<1> QED BY <1>3, <1>5, KnownOnce DEF TalkInv

LEMMA CommandRuns ==
  ASSUME PlaceInv, TalkInv, RunInv, CommandsOnce, LossAndKills, UNCHANGED managerVars,
         NEW r \in ServerProcs, ReceiveCommand(r)
  PROVE  RunInv'
<1>1. PICK k, e :
        /\ k \in ServerIds /\ KnownAs(k, r) /\ Sender(k, e) /\ ~Ran(e)
        /\ ServerRunning(r) /\ serverPc'[r] = "run" /\ UNCHANGED serverPort
        /\ \A s \in ServerProcs : s # r => serverPc'[s] = serverPc[s] /\ job'[s] = job[s]
        /\ job'[r].body = e /\ ran' = [ran EXCEPT ![r] = Append(@, e)]
        /\ 1..Len(net'[serverPort[r]]) = {}
        /\ \A q \in DOMAIN net : q # serverPort[r] => net'[q] = net[q]
  BY CommandReceived
<1>2. \A b : Ran(b)' <=> Ran(b) \/ b = e
  BY <1>1, OneMoreRan
<1>3. UNCHANGED <<workers, serverEndPoint>> /\ ServerIds' = ServerIds /\ WorkerIds' = WorkerIds
  BY IdsSame DEF managerVars
<1>4. RanForWorker'
  <2>1. ASSUME NEW b, Ran(b)'
        PROVE  \E t \in WorkerIds : workers[t].process = b /\ workers[t].pc # "send"
    <3>1. CASE Ran(b)
      BY <3>1 DEF RunInv, RanForWorker
    <3>2. CASE b = e
      BY <1>1, <3>2 DEF Sender
    <3> QED BY <1>2, <2>1, <3>1, <3>2
  <2> QED BY <1>3, <2>1 DEF RanForWorker
<1>5. NotYetRun'
  <2> SUFFICES ASSUME NEW s \in ServerProcs, ServerRunning(s)',
                      NEW b \in Contents(serverPort[s])', b # ProcessServerInitialized
               PROVE  ~Ran(b) /\ b # e
    BY <1>2 DEF NotYetRun
  <2>1. PICK p : p = serverPort[s] /\ p = serverPort'[s]
    BY <1>1
  <2>2. ServerRunning(s)
    BY <1>1 DEF ServerRunning
  <2>3. b \in Contents(p)'
    BY <2>1 DEF Contents, Inbox
  <2>4. s # r
    BY <1>1, <2>1, <2>3, NothingSaid
  <2>5. net'[p] = net[p]
    BY <1>1, <2>1, <2>2, <2>4, TalkSockets
  <2>6. b \in Contents(serverPort[s])
    BY <2>1, <2>3, <2>5, SameSays
  <2>7. ~Ran(b)
    BY <2>2, <2>6 DEF RunInv, NotYetRun
  <2>8. e \in Commands
    BY <1>1, WorkerFinds DEF Sender
  <2> QED BY <1>1, <2>2, <2>4, <2>6, <2>7, <2>8, AskedOnce
<1>6. RanWhenRunning'
  <2>1. ASSUME NEW s \in ServerProcs, serverPc'[s] = "run" PROVE Ran(job[s].body)'
    <3>1. PICK b : b = job'[s].body
      OBVIOUS
    <3>2. Ran(b)'
      BY <1>1, <1>2, <2>1, <3>1 DEF RunInv, RanWhenRunning
    <3> QED BY <3>1, <3>2 DEF Ran
  <2> QED BY <2>1 DEF RanWhenRunning
<1>7. RanWhenReplied'
  <2>1. ASSUME NEW l \in ServerIds, NEW b \in Commands, Output(b) \in Contents(ManagerPort(l))'
        PROVE  Ran(b)'
    <3>1. PICK q : q = ManagerPort(l) /\ q = ManagerPort(l)'
      BY DEF ManagerPort
    <3>2. net'[q] = net[q]
      BY <1>1, <3>1, TalkSockets
    <3>3. Output(b) \in Contents(ManagerPort(l))
      BY <2>1, <3>1, <3>2 DEF Contents, Inbox
    <3> QED BY <1>2, <3>3 DEF RunInv, RanWhenReplied
  <2> QED BY <1>3, <2>1 DEF RanWhenReplied
<1>8. RanWhenReceived'
  <2>1. ASSUME NEW t \in WorkerIds, workers[t].pc \notin {"send", "reply"}
        PROVE  Ran(workers[t].process)'
    <3>1. PICK b : b = workers[t].process /\ b = workers'[t].process
      BY <1>3
    <3>2. Ran(b)'
      BY <1>2, <2>1, <3>1 DEF RunInv, RanWhenReceived
    <3> QED BY <3>1, <3>2 DEF Ran
  <2> QED BY <1>3, <2>1 DEF RanWhenReceived
<1> QED BY <1>4, <1>5, <1>6, <1>7, <1>8 DEF RunInv

LEMMA ServerRuns ==
  ASSUME PlaceInv, TalkInv, RunInv, CommandsOnce, LossAndKills, UNCHANGED managerVars,
         NEW r \in ServerProcs, ServerNext(r)
  PROVE  RunInv'
<1>1. ~ServerTimerReads(r) /\ ~ServerTimerExits(r) /\ ~KillServer(r)
  BY DEF LossAndKills, TalkInv, ServersUp, ServerTimerReads, ServerTimerExits, KillServer
<1> QED BY <1>1, StartRuns, MoveRuns, ReplyRuns, CommandRuns DEF ServerNext, ServerMain

-----------------------------------------------------------------------------
(* The invariant.                                                          *)

LEMMA RunNext ==
  ASSUME PlaceInv, WorkInv, TalkInv, ResultInv, RunInv, LossAndKills, [Next]_vars
  PROVE  RunInv'
<1>1. ServerExclusive /\ CommandsOnce
  BY DEF WorkInv, ResultInv
<1>2. CASE ManagerStep(ManagerNext)
  BY <1>1, <1>2, ManagerRuns DEF ManagerStep
<1>3. CASE UNCHANGED managerVars
  <2>1. UNCHANGED <<serverEndPoint, workers>>
    BY <1>3 DEF managerVars
  <2>2. ASSUME NEW c \in ClientProcs, ClientStep(ClientNext(c)) PROVE RunInv'
    <3>1. ClientNext(c) /\ UNCHANGED serverVars
      BY <2>2 DEF ClientStep
    <3> QED BY <2>1, <3>1, ClientElsewhere, SameIsLost, OthersRun
  <2>3. ASSUME NEW s \in ServerProcs, ServerStep(ServerNext(s)) PROVE RunInv'
    BY <1>1, <1>3, <2>3, ServerRuns DEF ServerStep
  <2>4. ASSUME NetworkStep(NetworkNext) PROVE RunInv'
    <3>1. Lose /\ UNCHANGED serverVars
      BY <2>4 DEF NetworkStep, NetworkNext, Duplicate, LossAndKills
    <3> QED BY <2>1, <3>1, LostElsewhere, OthersRun
  <2>5. ASSUME UNCHANGED vars PROVE RunInv'
    <3>1. UNCHANGED <<net, serverVars>>
      BY <2>5 DEF vars, netVars
    <3>2. TalkSame
      BY <3>1 DEF TalkSame
    <3> QED BY <2>1, <3>1, <3>2, SameIsLost, OthersRun
  <2> QED BY <1>2, <2>2, <2>3, <2>4, <2>5, <1>1, ManagerRuns DEF Next, ManagerStep
<1> QED BY <1>2, <1>3 DEF Next, ClientStep, ServerStep, NetworkStep, vars

LEMMA RunInit == Init => RunInv
<1> SUFFICES ASSUME Init PROVE RunInv
  OBVIOUS
<1>1. ServerIds = {} /\ WorkerIds = {}
  BY DEF Init, ManagerInit, ServerIds, WorkerIds
<1>2. \A s \in ServerProcs : serverPc[s] = "off" /\ ran[s] = << >>
  BY DEF Init, ServerInit
<1>3. \A e : ~Ran(e)
  <2>1. \A s \in ServerProcs : Elements(ran[s]) = {}
    BY <1>2 DEF Elements
  <2> QED BY <2>1 DEF Ran
<1> QED BY <1>1, <1>2, <1>3 DEF RunInv, RanForWorker, NotYetRun, RanWhenRunning,
           RanWhenReplied, RanWhenReceived, ServerRunning

\* How a command gets from the worker that sends it to the worker that has the
\* output of it, when datagrams are lost: once it was run it is in no inbox,
\* and before it was run there is no reply to it.
THEOREM RunInvariant == ASSUME OnlyLoss PROVE SafetySpec => []RunInv
<1>1. PlaceInv /\ WorkInv /\ TalkInv /\ ResultInv /\ RunInv /\ [Next]_vars => RunInv'
  BY LossAndNoKills, RunNext
<1> QED BY <1>1, RunInit, LossAndNoKills, PlaceInvariant, WorkInvariant, TalkInvariant,
           ResultInvariant, PTL DEF SafetySpec

-----------------------------------------------------------------------------
(* The steps of JobService.                                                *)

\* The clients that JobService takes for started, and for ended.
Asked == {c \in ClientProcs : clientPc[c] \notin {"off", "noPort"}}
Ended == {c \in ClientProcs : clientPc[c] = "done"}

LEMMA ServiceInit == Init => Service!Init
BY DEF Init, ServerInit, ClientInit, ManagerInit, Service!Init

LEMMA Asks ==
  ASSUME NEW c \in ClientProcs, c \notin Asked, Asked' = Asked \cup {c}, Ended' = Ended,
         UNCHANGED <<ran, results, manager>>
  PROVE  Service!Next
<1>1. Service!Ask(c)
  BY DEF Service!Ask, Asked, Ended
<1> QED BY <1>1 DEF Service!Next

LEMMA Runs ==
  ASSUME NEW c \in Asked, NEW e \in CommandsOf(c), NEW s \in ServerProcs, ~Ran(e),
         ran' = [ran EXCEPT ![s] = Append(@, e)],
         Asked' = Asked, Ended' = Ended, UNCHANGED <<results, manager>>
  PROVE  Service!Next
<1>1. \A r \in ServerProcs : e \notin Elements(ran[r])
  BY DEF Ran
<1>2. Service!Run(c, e)
  BY <1>1 DEF Service!Run, Asked, Ended, Elements, Service!Elements
<1> QED BY <1>2 DEF Service!Next, Asked

LEMMA Prints ==
  ASSUME NEW c \in ClientProcs, NEW e \in CommandsOf(c), Ran(e),
         Output(e) \notin Elements(results[c]),
         results' = [results EXCEPT ![c] = Append(@, Output(e))],
         Asked' = Asked, Ended' = Ended, UNCHANGED <<ran, manager>>
  PROVE  Service!Next
<1>1. PICK s \in ServerProcs : e \in Elements(ran[s])
  BY DEF Ran
<1>2. Service!PrintOutput(c, e)
  BY <1>1 DEF Service!PrintOutput, Asked, Ended, Elements, Service!Elements
<1> QED BY <1>2 DEF Service!Next

LEMMA Finishes ==
  ASSUME NEW c \in Asked, c \notin Ended, \A e \in CommandsOf(c) : Output(e) \in Elements(results[c]),
         Asked' = Asked, Ended' = Ended \cup {c}, UNCHANGED <<ran, results, manager>>
  PROVE  Service!Next
<1>1. Service!Finish(c)
  BY DEF Service!Finish, Asked, Ended, Elements, Service!Elements
<1> QED BY <1>1 DEF Service!Next, Asked

LEMMA GoesDown ==
  ASSUME manager' # "running", Asked' = Asked, Ended' = Ended, UNCHANGED <<ran, results>>
  PROVE  Service!Next
<1>1. Service!GoDown
  BY DEF Service!GoDown, Asked, Ended
<1> QED BY <1>1 DEF Service!Next

LEMMA Stutters ==
  ASSUME Asked' = Asked, Ended' = Ended, UNCHANGED <<ran, results, manager>>
  PROVE  UNCHANGED Service!vars
BY DEF Service!vars, Asked, Ended

LEMMA StartedAndEndedSame ==
  ASSUME UNCHANGED clientPc
  PROVE  Asked' = Asked /\ Ended' = Ended
BY DEF Asked, Ended

-----------------------------------------------------------------------------
(* The steps of the programs are steps of JobService, or none of its.      *)

LEMMA StartServes ==
  ASSUME PlaceInv, UNCHANGED <<serverVars, managerVars>>, NEW c \in ClientProcs, StartClient(c)
  PROVE  Service!Next
<1>1. /\ clientPc[c] = "off" /\ clientPc'[c] = "handshake"
      /\ \A d \in ClientProcs : d # c => clientPc'[d] = clientPc[d]
  BY ClientGoes DEF StartClient
<1>2. UNCHANGED <<ran, results, manager>>
  BY DEF StartClient, serverVars, managerVars
<1>3. c \notin Asked /\ Asked' = Asked \cup {c} /\ Ended' = Ended
  BY <1>1 DEF Asked, Ended
<1> QED BY <1>2, <1>3, Asks

LEMMA MoveServes ==
  ASSUME PlaceInv, UNCHANGED <<serverVars, managerVars>>, NEW c \in ClientProcs,
         ClientFindsNoPort(c) \/ ClientHandshake(c) \/ StopClientTimer(c)
  PROVE  UNCHANGED Service!vars
<1>1. PICK from, to : /\ ClientGoto(c, from, to)
                      /\ \/ from = "off" /\ to = "noPort"
                         \/ from = "handshake" /\ to = "answered"
                         \/ from = "answered" /\ to = "receive"
  BY DEF ClientFindsNoPort, ClientHandshake, StopClientTimer
<1>2. /\ clientPc[c] = from /\ clientPc'[c] = to
      /\ \A d \in ClientProcs : d # c => clientPc'[d] = clientPc[d]
  BY <1>1, ClientGoes
<1>3. UNCHANGED <<ran, results, manager>>
  BY DEF ClientFindsNoPort, ClientHandshake, StopClientTimer, serverVars, managerVars
<1>4. Asked' = Asked /\ Ended' = Ended
  BY <1>1, <1>2 DEF Asked, Ended
<1> QED BY <1>3, <1>4, Stutters

\* What a client prints is the output of the command whose worker holds
\* Clientsocket_mtx: it was run, and not printed yet.
LEMMA PrintServes ==
  ASSUME PlaceInv, OneSender, ResultInv, RunInv, OnlyLoss, UNCHANGED <<serverVars, managerVars>>,
         NEW c \in ClientProcs, ReceiveResult(c)
  PROVE  Service!Next
<1>1. PICK N : N = net[clientPort[c]]
  OBVIOUS
<1>2. /\ clientPc[c] = "receive" /\ clientPc'[c] = "ack"
      /\ \A d \in ClientProcs : d # c => clientPc'[d] = clientPc[d]
  BY ClientGoes DEF ReceiveResult
<1>3. /\ 1 \in Inbox(clientPort[c])
      /\ results' = [results EXCEPT ![c] = Append(@, N[1].body)]
  BY <1>1, LossAndNoKills, FirstArrives DEF ReceiveResult
<1>4. Receiving(c)
  BY <1>2 DEF ClientRunning, ResultInv, Deliveries
<1>5. /\ ClientsocketMtx # 0 /\ Holder.client = c
      /\ N[1].body = Output(Holder) /\ ~Printed(Holder)
  BY <1>1, <1>2, <1>3, <1>4 DEF Receiving, Greeting, Result
<1>6. ClientsocketMtx \in WorkerIds /\ Holder \in CommandsOf(c)
  BY <1>5, HolderOwner DEF ResultInv
<1>7. Ran(Holder)
  <2>1. workers[ClientsocketMtx].pc = "ack"
    BY <1>6 DEF OneSender
  <2> QED BY <1>6, <2>1 DEF RunInv, RanWhenReceived, Holder
<1>8. Output(Holder) \notin Elements(results[c])
  BY <1>5 DEF Printed
<1>9. UNCHANGED <<ran, manager>>
  BY DEF serverVars, managerVars
<1>10. Asked' = Asked /\ Ended' = Ended
  BY <1>2 DEF Asked, Ended
<1>11. results' = [results EXCEPT ![c] = Append(@, Output(Holder))]
  BY <1>3, <1>5
<1> QED BY <1>6, <1>7, <1>8, <1>9, <1>10, <1>11, Prints

LEMMA AcknowledgeServes ==
  ASSUME PlaceInv, ResultInv, UNCHANGED <<serverVars, managerVars>>,
         NEW c \in ClientProcs, Acknowledge(c)
  PROVE  [Service!Next]_(Service!vars)
<1>1. PICK to : /\ ClientGoto(c, "ack", to)
                /\ \/ to = "receive"
                   \/ to = "done" /\ ~(Len(results[c]) < NumCommands[c])
  BY DEF Acknowledge
<1>2. /\ clientPc[c] = "ack" /\ clientPc'[c] = to
      /\ \A d \in ClientProcs : d # c => clientPc'[d] = clientPc[d]
  BY <1>1, ClientGoes
<1>3. UNCHANGED <<ran, results, manager>>
  BY DEF Acknowledge, serverVars, managerVars
<1>4. c \in Asked /\ c \notin Ended /\ Asked' = Asked
  BY <1>1, <1>2 DEF Asked, Ended
<1>5. CASE to = "receive"
  <2>1. Ended' = Ended
    BY <1>2, <1>5 DEF Ended
  <2> QED BY <1>3, <1>4, <2>1, Stutters
<1>6. CASE to = "done" /\ ~(Len(results[c]) < NumCommands[c])
  <2>1. Ended' = Ended \cup {c}
    BY <1>2, <1>6 DEF Ended
  <2>2. \A e \in CommandsOf(c) : Printed(e)
    BY <1>6, AllPrinted DEF ResultInv
  <2>3. \A e \in CommandsOf(c) : Output(e) \in Elements(results[c])
    BY <2>2, CommandClient DEF Printed
  <2> QED BY <1>3, <1>4, <2>1, <2>3, Finishes
<1> QED BY <1>1, <1>5, <1>6

LEMMA ClientServes ==
  ASSUME PlaceInv, OneSender, ResultInv, RunInv, OnlyLoss, NEW c \in ClientProcs,
         ClientStep(ClientNext(c))
  PROVE  [Service!Next]_(Service!vars)
<1>1. ClientNext(c) /\ UNCHANGED <<serverVars, managerVars>>
  BY DEF ClientStep
<1>2. ~ClientTimerReads(c) /\ ~ClientTimerExits(c) /\ ~KillClient(c)
  BY DEF OnlyLoss, ClientTimerReads, ClientTimerExits, KillClient, ResultInv, ClientsUp
<1> QED BY <1>1, <1>2, StartServes, MoveServes, PrintServes, AcknowledgeServes
        DEF ClientNext, ClientMain

\* The command that a process server runs was asked for and not run before.
LEMMA CommandServes ==
  ASSUME PlaceInv, TalkInv, ResultInv, RunInv, OnlyLoss, UNCHANGED <<clientVars, managerVars>>,
         NEW s \in ServerProcs, ReceiveCommand(s)
  PROVE  Service!Next
<1>1. PICK k, e : /\ k \in ServerIds /\ Sender(k, e) /\ ~Ran(e)
                  /\ ran' = [ran EXCEPT ![s] = Append(@, e)]
  BY LossAndNoKills, CommandReceived
<1>2. PICK t \in WorkerIds : workers[t].process = e
  BY <1>1 DEF Sender
<1>3. PICK c : c = workers[t].process.client
  OBVIOUS
<1>4. c \in ClientProcs /\ e \in CommandsOf(c) /\ Owner(workers[t].client, c)
  BY <1>2, <1>3, TaskOwner DEF ResultInv
<1>5. c \in Asked
  BY <1>4 DEF Owner, Asked
<1>6. UNCHANGED <<results, manager, clientPc>>
  BY DEF clientVars, managerVars
<1> QED BY <1>1, <1>4, <1>5, <1>6, StartedAndEndedSame, Runs

LEMMA ServerServes ==
  ASSUME PlaceInv, TalkInv, ResultInv, RunInv, OnlyLoss, NEW s \in ServerProcs,
         ServerStep(ServerNext(s))
  PROVE  [Service!Next]_(Service!vars)
<1>1. ServerNext(s) /\ UNCHANGED <<clientVars, managerVars>>
  BY DEF ServerStep
<1>2. CASE ReceiveCommand(s)
  BY <1>1, <1>2, CommandServes
<1>3. CASE ~ReceiveCommand(s)
  <2>1. UNCHANGED ran
    BY <1>1, <1>3 DEF ServerNext, ServerMain, StartServer, ServerFindsNoPort, ServerHandshake,
       StopServerTimer, Reply, ServerTimerReads, ServerTimerExits, KillServer
  <2>2. UNCHANGED <<results, manager, clientPc>>
    BY <1>1 DEF clientVars, managerVars
  <2> QED BY <2>1, <2>2, StartedAndEndedSame, Stutters
<1> QED BY <1>2, <1>3

\* The load manager does not show in JobService, until it ends.
LEMMA ManagerServes ==
  ASSUME manager = "running", UNCHANGED <<ran, results, clientPc>>
  PROVE  [Service!Next]_(Service!vars)
<1>1. Asked' = Asked /\ Ended' = Ended
  BY StartedAndEndedSame
<1>2. CASE manager' = manager
  BY <1>1, <1>2, Stutters
<1>3. CASE manager' # manager
  BY <1>1, <1>3, GoesDown
<1> QED BY <1>2, <1>3

LEMMA ServiceNext ==
  ASSUME PlaceInv, WorkInv, TalkInv, ResultInv, RunInv, OnlyLoss, [Next]_vars
  PROVE  [Service!Next]_(Service!vars)
<1>1. OneSender
  BY DEF WorkInv
<1>2. ASSUME NEW c \in ClientProcs, ClientStep(ClientNext(c))
      PROVE  [Service!Next]_(Service!vars)
  BY <1>1, <1>2, ClientServes
<1>3. ASSUME NEW s \in ServerProcs, ServerStep(ServerNext(s))
      PROVE  [Service!Next]_(Service!vars)
  BY <1>3, ServerServes
<1>4. CASE ManagerStep(ManagerNext) \/ NetworkStep(NetworkNext)
  <2>1. manager = "running" /\ UNCHANGED <<ran, results, clientPc>>
    BY <1>4 DEF ManagerStep, NetworkStep, clientVars, serverVars
  <2> QED BY <2>1, ManagerServes
<1>5. CASE UNCHANGED vars
  <2>1. UNCHANGED <<ran, results, manager, clientPc>>
    BY <1>5 DEF vars, clientVars, serverVars, managerVars
  <2> QED BY <2>1, StartedAndEndedSame, Stutters
<1> QED BY <1>2, <1>3, <1>4, <1>5 DEF Next

\* Whatever datagrams are lost, the three programs implement the safety part
\* of JobService: no process server runs a command that was not asked for or
\* that was run before, no client prints an output that is not there or that
\* it printed before, and none ends before it has printed all.
THEOREM ServiceRefined == ASSUME OnlyLoss PROVE SafetySpec => LossOnlyStalls
<1>1. Init => Service!Init
  BY ServiceInit
<1>2. PlaceInv /\ WorkInv /\ TalkInv /\ ResultInv /\ RunInv /\ [Next]_vars =>
        [Service!Next]_(Service!vars)
  BY ServiceNext
<1> QED BY <1>1, <1>2, LossAndNoKills, PlaceInvariant, WorkInvariant, TalkInvariant,
           ResultInvariant, RunInvariant, PTL DEF SafetySpec, LossOnlyStalls, Service!SafetySpec

==============================================================================
