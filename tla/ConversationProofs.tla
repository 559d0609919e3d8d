-------------------------- MODULE ConversationProofs --------------------------
(***************************************************************************)
(* What load manager and process servers say to each other when the        *)
(* network loses datagrams and clients are killed, and nothing else goes   *)
(* wrong: a worker gets the output of the command that it sent.            *)
(*                                                                         *)
(* Each server object belongs to one process, which it knows the endpoint  *)
(* of.  Of a command there is one trace at most: it is in the inbox of the *)
(* process, or in its hands, or its output is at the manager's socket.     *)
(***************************************************************************)
EXTENDS LoadManagerProofs

LossAndKills == Faults \subseteq {"loss", "clientCrash"}

\* No process server dies.
ServersUp == \A s \in ServerProcs : /\ serverTimer[s] # "expired"
                                    /\ serverPc[s] \notin {"timedOut", "killed"}

Inbox(p) == 1..Len(net[p])

KnownAs(k, s) == ServerRunning(s) /\ serverEndPoint[k] = serverPort[s]

Unknown(p) == \A k \in ServerIds : serverEndPoint[k] # p

\* A process server announces itself once, and waits until it is known; then
\* one server object is its own.
Announced ==
  /\ \A i \in Inbox(InitializationPort) :
       /\ Unknown(net[InitializationPort][i].src)
       /\ \E s \in ServerProcs :
            ServerRunning(s) /\ serverPort[s] = net[InitializationPort][i].src
  /\ \A i, j \in Inbox(InitializationPort) :
       net[InitializationPort][i].src = net[InitializationPort][j].src => i = j
  /\ \A k \in ServerIds : \E s \in ServerProcs : KnownAs(k, s)
  /\ \A k, l \in ServerIds : serverEndPoint[k] = serverEndPoint[l] => k = l
  /\ \A s \in ServerProcs : (ServerRunning(s) /\ Unknown(serverPort[s])) =>
       serverPc[s] = "handshake" /\ Inbox(serverPort[s]) = {}

\* Some worker has sent e to server k and waits for the output.
Sender(k, e) == \E t \in WorkerIds : /\ workers[t].pc = "reply"
                                     /\ workers[t].server = k
                                     /\ workers[t].process = e

\* The datagrams for process server s, which is server object k: the greeting,
\* which the handshake will take, and one command.
Asking(k, s) ==
  /\ \A i \in Inbox(serverPort[s]) :
       /\ net[serverPort[s]][i].src = ManagerPort(k)
       /\ \/ /\ net[serverPort[s]][i].body = ProcessServerInitialized
             /\ i = 1 /\ serverPc[s] = "handshake"
          \/ /\ Sender(k, net[serverPort[s]][i].body)
             /\ serverPc[s] # "run" /\ Inbox(ManagerPort(k)) = {}
  /\ \A i, j \in Inbox(serverPort[s]) :
       (/\ net[serverPort[s]][i].body # ProcessServerInitialized
        /\ net[serverPort[s]][j].body # ProcessServerInitialized) => i = j

\* The command it runs, and the output on its way back.
Answering(k, s) ==
  /\ serverPc[s] = "run" =>
       /\ job[s].src = ManagerPort(k) /\ Sender(k, job[s].body)
       /\ Inbox(ManagerPort(k)) = {}
  /\ \A i \in Inbox(ManagerPort(k)) :
       /\ i = 1
       /\ net[ManagerPort(k)][i].src = serverPort[s]
       /\ \E e \in Commands : Sender(k, e) /\ net[ManagerPort(k)][i].body = Output(e)

Conversations == \A k \in ServerIds, s \in ServerProcs :
                   KnownAs(k, s) => Asking(k, s) /\ Answering(k, s)

TalkInv == ServersUp /\ Announced /\ Conversations /\ RepliesMatch

-----------------------------------------------------------------------------
(* Inboxes that lose datagrams.                                            *)

\* q is r without some of its datagrams.
Fewer(q, r) ==
  \E f \in [1..Len(q) -> 1..Len(r)] :
    /\ \A i \in 1..Len(q) : q[i] = r[f[i]] /\ (f[i] = 1 => i = 1)
    /\ \A i, j \in 1..Len(q) : f[i] = f[j] => i = j

LEMMA FewerSame == \A q : Fewer(q, q)
<1> SUFFICES ASSUME NEW q PROVE Fewer(q, q)
  OBVIOUS
<1> DEFINE f == [i \in 1..Len(q) |-> i]
<1>1. f \in [1..Len(q) -> 1..Len(q)]
  OBVIOUS
<1> QED BY <1>1 DEF Fewer

LEMMA TwoParts ==
  ASSUME NEW n \in Nat, NEW i \in 1..n
  PROVE  (i - 1) + (n - i) = n - 1
OBVIOUS

LEMMA RemovedAt ==
  ASSUME NEW S, NEW q \in Seq(S), NEW i \in 1..Len(q)
  PROVE  /\ Len(RemoveAt(q, i)) = Len(q) - 1
         /\ \A j \in 1..(Len(q) - 1) : RemoveAt(q, i)[j] = q[IF j < i THEN j ELSE j + 1]
<1>1. Len(q) \in Nat
  BY LenProperties
<1>2. /\ SubSeq(q, 1, i - 1) \in Seq(S) /\ Len(SubSeq(q, 1, i - 1)) = i - 1
      /\ \A j \in 1..(i - 1) : SubSeq(q, 1, i - 1)[j] = q[j]
  BY <1>1, SubSeqProperties
<1>3. /\ SubSeq(q, i + 1, Len(q)) \in Seq(S) /\ Len(SubSeq(q, i + 1, Len(q))) = Len(q) - i
      /\ \A j \in 1..(Len(q) - i) : SubSeq(q, i + 1, Len(q))[j] = q[j + i]
  BY <1>1, SubSeqProperties
<1> DEFINE a == SubSeq(q, 1, i - 1)
           b == SubSeq(q, i + 1, Len(q))
<1>4. /\ Len(a \o b) = Len(a) + Len(b)
      /\ \A j \in 1..(Len(a) + Len(b)) : (a \o b)[j] = IF j <= Len(a) THEN a[j] ELSE b[j - Len(a)]
  BY <1>2, <1>3, ConcatProperties
<1> HIDE DEF a, b
<1>5. RemoveAt(q, i) = a \o b
  BY DEF RemoveAt, a, b
<1>6. Len(a) = i - 1 /\ Len(b) = Len(q) - i
  BY <1>2, <1>3 DEF a, b
<1>7. Len(RemoveAt(q, i)) = Len(q) - 1
  BY <1>1, <1>4, <1>5, <1>6, TwoParts, Zenon
<1>8. ASSUME NEW j \in 1..(Len(q) - 1)
      PROVE  RemoveAt(q, i)[j] = q[IF j < i THEN j ELSE j + 1]
  <2>1. CASE j < i
    <3>1. j \in 1..(i - 1) /\ j <= Len(a) /\ j \in 1..(Len(a) + Len(b))
      BY <1>1, <1>6, <2>1
    <3>2. RemoveAt(q, i)[j] = a[j]
      BY <1>4, <1>5, <3>1
    <3> QED BY <1>2, <2>1, <3>1, <3>2 DEF a
  <2>2. CASE ~(j < i)
    <3>1. /\ ~(j <= Len(a)) /\ j \in 1..(Len(a) + Len(b))
          /\ j - Len(a) \in 1..(Len(q) - i) /\ (j - Len(a)) + i = j + 1
      BY <1>1, <1>6, <2>2
    <3>2. RemoveAt(q, i)[j] = b[j - Len(a)]
      BY <1>4, <1>5, <3>1
    <3>3. b[j - Len(a)] = q[(j - Len(a)) + i]
      BY <1>3, <3>1 DEF b
    <3> QED BY <2>2, <3>1, <3>2, <3>3
  <2> QED BY <2>1, <2>2
<1> QED BY <1>7, <1>8

LEMMA RemovedFewer ==
  ASSUME NEW S, NEW q \in Seq(S), NEW i \in 1..Len(q)
  PROVE  Fewer(RemoveAt(q, i), q)
<1> DEFINE r == RemoveAt(q, i)
           f == [j \in 1..Len(r) |-> IF j < i THEN j ELSE j + 1]
<1>1. /\ Len(q) \in Nat /\ Len(r) = Len(q) - 1
      /\ \A j \in 1..Len(r) : r[j] = q[IF j < i THEN j ELSE j + 1]
  BY RemovedAt, LenProperties
<1> HIDE DEF r
<1>2. f \in [1..Len(r) -> 1..Len(q)]
  BY <1>1
<1>3. \A j \in 1..Len(r) : r[j] = q[f[j]] /\ (f[j] = 1 => j = 1)
  BY <1>1
<1>4. \A j, k \in 1..Len(r) : f[j] = f[k] => j = k
  BY <1>1
<1> HIDE DEF f
<1>5. Fewer(r, q)
  BY <1>2, <1>3, <1>4 DEF Fewer
<1> QED BY <1>5 DEF r

\* Taking the first datagram.
LEMMA FirstRemoved ==
  ASSUME NEW S, NEW q \in Seq(S), 1 \in 1..Len(q)
  PROVE  /\ Len(RemoveAt(q, 1)) = Len(q) - 1
         /\ \A j \in 1..(Len(q) - 1) : RemoveAt(q, 1)[j] = q[j + 1] /\ j + 1 \in 1..Len(q)
<1>1. Len(q) \in Nat
  BY LenProperties
<1>2. /\ Len(RemoveAt(q, 1)) = Len(q) - 1
      /\ \A j \in 1..(Len(q) - 1) : RemoveAt(q, 1)[j] = q[IF j < 1 THEN j ELSE j + 1]
  BY RemovedAt
<1>3. \A j \in 1..(Len(q) - 1) : ~(j < 1) /\ j + 1 \in 1..Len(q)
  BY <1>1
<1> QED BY <1>2, <1>3

LEMMA FewerNone ==
  ASSUME NEW q, NEW r, Fewer(q, r), 1..Len(r) = {}
  PROVE  1..Len(q) = {}
BY DEF Fewer

\* q is r with one more datagram, d, behind it.
Grown(q, r, d) ==
  \E last : /\ last \notin 1..Len(r)
            /\ 1..Len(q) = 1..Len(r) \cup {last}
            /\ q[last] = d
            /\ \A i \in 1..Len(r) : q[i] = r[i]
            /\ 1..Len(r) = {} => last = 1

LEMMA AppendGrows ==
  ASSUME NEW S, NEW q \in Seq(S), NEW d
  PROVE  Grown(Append(q, d), q, d)
<1> DEFINE T == S \cup {d}
           r == Append(q, d)
<1>1. q \in Seq(T) /\ d \in T
  BY SeqWithin
<1> HIDE DEF T
<1>2. /\ Len(q) \in Nat /\ Len(r) = Len(q) + 1
      /\ \A i \in 1..Len(q) : r[i] = q[i]
      /\ r[Len(q) + 1] = d
  BY <1>1, AppendProperties, LenProperties
<1> HIDE DEF r
<1>3. /\ Len(q) + 1 \notin 1..Len(q)
      /\ 1..Len(r) = 1..Len(q) \cup {Len(q) + 1}
      /\ 1..Len(q) = {} => Len(q) + 1 = 1
  BY <1>2
<1>4. Grown(r, q, d)
  BY <1>2, <1>3 DEF Grown
<1> QED BY <1>4 DEF r

-----------------------------------------------------------------------------
(* What the operations on sockets do to each inbox.                        *)

LEMMA SentElsewhere ==
  ASSUME NEW n, NEW src, NEW dst, NEW body
  PROVE  \A p \in DOMAIN n : p # dst => Sent(n, src, dst, body)[p] = n[p]
BY DEF Sent

LEMMA SentThere ==
  ASSUME NEW n, NEW src, NEW dst \in DOMAIN n, NEW body, NEW S, n[dst] \in Seq(S)
  PROVE  Grown(Sent(n, src, dst, body)[dst], n[dst], [src |-> src, body |-> body])
<1>1. Sent(n, src, dst, body)[dst] = Append(n[dst], [src |-> src, body |-> body])
  BY DEF Sent
<1> QED BY <1>1, AppendGrows

LEMMA TakenElsewhere ==
  ASSUME NEW p, NEW i
  PROVE  \A q \in DOMAIN net : q # p => Taken(p, i)[q] = net[q]
BY DEF Taken

LEMMA TakenThere ==
  ASSUME NEW p \in DOMAIN net, NEW i
  PROVE  Taken(p, i)[p] = RemoveAt(net[p], i)
BY DEF Taken

LEMMA InboxTyped ==
  ASSUME PlaceInv, NEW p \in DOMAIN net
  PROVE  net[p] \in Seq(Expected(p))
BY DEF PlaceInv, NetworkInv, NetworkOK

\* Nothing is reordered: the first datagram is received.
LEMMA FirstArrives ==
  ASSUME LossAndKills, NEW p, NEW i \in Arrivals(p)
  PROVE  i = 1 /\ 1 \in Inbox(p)
BY DEF LossAndKills, Arrivals, Inbox

\* The inbox of p once its first datagram was taken.
LEMMA FirstTaken ==
  ASSUME PlaceInv, NEW p \in DOMAIN net, 1 \in Inbox(p), net' = Taken(p, 1)
  PROVE  /\ Fewer(net'[p], net[p])
         /\ \A j \in 1..Len(net'[p]) : net'[p][j] = net[p][j + 1]
                                       /\ j + 1 \in Inbox(p) /\ j + 1 # 1
         /\ Inbox(p) = {1} => 1..Len(net'[p]) = {}
<1>1. net[p] \in Seq(Expected(p)) /\ net'[p] = RemoveAt(net[p], 1) /\ Len(net[p]) \in Nat
  BY InboxTyped, TakenThere, LenProperties
<1>2. Fewer(net'[p], net[p])
  BY <1>1, RemovedFewer DEF Inbox
<1>3. /\ Len(net'[p]) = Len(net[p]) - 1
      /\ \A j \in 1..(Len(net[p]) - 1) : net'[p][j] = net[p][j + 1] /\ j + 1 \in 1..Len(net[p])
  BY <1>1, FirstRemoved DEF Inbox
<1>4. Inbox(p) = {1} => 1..Len(net'[p]) = {}
  BY <1>1, <1>3 DEF Inbox
<1> QED BY <1>2, <1>3, <1>4 DEF Inbox

-----------------------------------------------------------------------------
(* What other steps do not disturb.                                        *)

\* The inboxes of the process servers and of the manager's sockets for them
\* are what they were, or less.
TalkLost == \A p \in ServerZone \cup {InitializationPort} :
              p \in DOMAIN net => Fewer(net'[p], net[p])

LEMMA AnnouncedKept ==
  ASSUME PlaceInv, Announced, UNCHANGED <<serverEndPoint, serverPc, serverPort>>,
         Fewer(net'[InitializationPort], net[InitializationPort]),
         \A s \in ServerProcs : (ServerRunning(s) /\ Unknown(serverPort[s])) =>
           Fewer(net'[serverPort[s]], net[serverPort[s]])
  PROVE  Announced'
<1>1. /\ ServerIds' = ServerIds /\ \A p : Unknown(p)' = Unknown(p)
      /\ \A s : ServerRunning(s)' = ServerRunning(s)
      /\ \A k, s : KnownAs(k, s)' = KnownAs(k, s)
  BY DEF ServerIds, Unknown, ServerRunning, KnownAs
<1>2. PICK N, M : N = net[InitializationPort] /\ M = net'[InitializationPort]
  OBVIOUS
<1>3. Fewer(M, N)
  BY <1>2
<1>4. PICK f \in [1..Len(M) -> 1..Len(N)] :
        /\ \A i \in 1..Len(M) : M[i] = N[f[i]]
        /\ \A i, j \in 1..Len(M) : f[i] = f[j] => i = j
  BY <1>3 DEF Fewer
<1>5. ASSUME NEW s \in ServerProcs, ServerRunning(s), Unknown(serverPort[s]),
             Inbox(serverPort[s]) = {}
      PROVE  Inbox(serverPort[s])' = {}
  <2>1. Fewer(net'[serverPort[s]], net[serverPort[s]])
    BY <1>5
  <2> QED BY <1>1, <1>5, <2>1, FewerNone DEF Inbox
<1>6. /\ \A i \in 1..Len(N) : /\ Unknown(N[i].src)
                              /\ \E s \in ServerProcs : ServerRunning(s) /\ serverPort[s] = N[i].src
      /\ \A i, j \in 1..Len(N) : N[i].src = N[j].src => i = j
  BY <1>2 DEF Announced, Inbox
<1>7. /\ \A i \in 1..Len(M) : /\ Unknown(M[i].src)'
                              /\ \E s \in ServerProcs : ServerRunning(s)' /\ serverPort'[s] = M[i].src
      /\ \A i, j \in 1..Len(M) : M[i].src = M[j].src => i = j
  <2>1. \A i \in 1..Len(M) : f[i] \in 1..Len(N) /\ M[i] = N[f[i]]
    BY <1>4
  <2>2. \A i, j \in 1..Len(M) : M[i].src = M[j].src => i = j
    BY <1>4, <1>6, <2>1
  <2>3. ASSUME NEW i \in 1..Len(M)
        PROVE  /\ Unknown(M[i].src)'
               /\ \E s \in ServerProcs : ServerRunning(s)' /\ serverPort'[s] = M[i].src
    <3>1. PICK m : m = M[i].src /\ m = N[f[i]].src
      BY <2>1
    <3>2. Unknown(m) /\ \E s \in ServerProcs : ServerRunning(s) /\ serverPort[s] = m
      BY <1>6, <2>1, <3>1
    <3> QED BY <1>1, <3>1, <3>2
  <2> QED BY <2>2, <2>3
<1>8. /\ \A k \in ServerIds : \E s \in ServerProcs : KnownAs(k, s)'
      /\ \A k, l \in ServerIds : serverEndPoint'[k] = serverEndPoint'[l] => k = l
  BY <1>1 DEF Announced
<1>9. ASSUME NEW s \in ServerProcs, ServerRunning(s)', Unknown(serverPort[s])'
       PROVE  serverPc'[s] = "handshake" /\ Inbox(serverPort[s])' = {}
  <2>1. ServerRunning(s) /\ Unknown(serverPort[s])
    BY <1>9 DEF ServerRunning, Unknown, ServerIds
  <2> QED BY <1>5, <2>1 DEF Announced
<1> QED BY <1>1, <1>2, <1>7, <1>8, <1>9 DEF Announced, Inbox

\* The conversation of one process server and its object.
LEMMA ConversationKept ==
  ASSUME NEW k, NEW s \in ServerProcs, Asking(k, s), Answering(k, s),
         serverPort'[s] = serverPort[s], serverPc'[s] = serverPc[s], job'[s] = job[s],
         Fewer(net'[serverPort[s]], net[serverPort[s]]),
         Fewer(net'[ManagerPort(k)], net[ManagerPort(k)]),
         \A e : Sender(k, e) => Sender(k, e)'
  PROVE  Asking(k, s)' /\ Answering(k, s)'
<1>1. PICK p, q : p = serverPort[s] /\ q = ManagerPort(k)
  OBVIOUS
<1>2. PICK f \in [1..Len(net'[p]) -> 1..Len(net[p])] :
        /\ \A i \in 1..Len(net'[p]) : net'[p][i] = net[p][f[i]] /\ (f[i] = 1 => i = 1)
        /\ \A i, j \in 1..Len(net'[p]) : f[i] = f[j] => i = j
  BY <1>1 DEF Fewer
<1>3. PICK g \in [1..Len(net'[q]) -> 1..Len(net[q])] :
        \A i \in 1..Len(net'[q]) : net'[q][i] = net[q][g[i]] /\ (g[i] = 1 => i = 1)
  BY <1>1 DEF Fewer
<1>4. PICK N, M, R, U : N = net[p] /\ M = net'[p] /\ R = net[q] /\ U = net'[q]
  OBVIOUS
<1>5. 1..Len(R) = {} => 1..Len(U) = {}
  BY <1>3, <1>4
<1>6. /\ \A i \in 1..Len(M) :
           /\ M[i].src = q
           /\ \/ M[i].body = ProcessServerInitialized /\ i = 1 /\ serverPc'[s] = "handshake"
              \/ Sender(k, M[i].body)' /\ serverPc'[s] # "run" /\ 1..Len(U) = {}
      /\ \A i, j \in 1..Len(M) :
           (M[i].body # ProcessServerInitialized /\ M[j].body # ProcessServerInitialized) => i = j
  <2>1. /\ \A i \in 1..Len(N) :
             /\ N[i].src = q
             /\ \/ N[i].body = ProcessServerInitialized /\ i = 1 /\ serverPc[s] = "handshake"
                \/ Sender(k, N[i].body) /\ serverPc[s] # "run" /\ 1..Len(R) = {}
        /\ \A i, j \in 1..Len(N) :
             (N[i].body # ProcessServerInitialized /\ N[j].body # ProcessServerInitialized) => i = j
    BY <1>1, <1>4 DEF Asking, Inbox
  <2>2. /\ \A i \in 1..Len(M) : M[i] = N[f[i]] /\ f[i] \in 1..Len(N) /\ (f[i] = 1 => i = 1)
        /\ \A i, j \in 1..Len(M) : f[i] = f[j] => i = j
    BY <1>2, <1>4
  <2>3. \A i, j \in 1..Len(M) :
           (M[i].body # ProcessServerInitialized /\ M[j].body # ProcessServerInitialized) => i = j
    BY <2>1, <2>2
  <2>4. \A i \in 1..Len(M) :
          /\ M[i].src = q
          /\ \/ M[i].body = ProcessServerInitialized /\ i = 1 /\ serverPc'[s] = "handshake"
             \/ Sender(k, M[i].body)' /\ serverPc'[s] # "run" /\ 1..Len(U) = {}
    <3>1. SUFFICES ASSUME NEW i \in 1..Len(M)
                   PROVE  /\ M[i].src = q
                          /\ \/ M[i].body = ProcessServerInitialized /\ i = 1 /\ serverPc[s] = "handshake"
                             \/ Sender(k, M[i].body)' /\ serverPc[s] # "run" /\ 1..Len(U) = {}
      OBVIOUS
    <3>2. PICK d : d = M[i] /\ d = N[f[i]] /\ f[i] \in 1..Len(N) /\ (f[i] = 1 => i = 1)
      BY <2>2
    <3>3. /\ d.src = q
          /\ \/ d.body = ProcessServerInitialized /\ f[i] = 1 /\ serverPc[s] = "handshake"
             \/ Sender(k, d.body) /\ serverPc[s] # "run" /\ 1..Len(R) = {}
      BY <2>1, <3>2
    <3>4. Sender(k, d.body) => Sender(k, d.body)'
      OBVIOUS
    <3> QED BY <1>5, <3>2, <3>3, <3>4
  <2> QED BY <2>3, <2>4
<1>7. ManagerPort(k)' = q /\ serverPort'[s] = p /\ net'[p] = M /\ net'[q] = U
  BY <1>1, <1>4 DEF ManagerPort
<1>8. Asking(k, s)'
  BY <1>6, <1>7 DEF Asking, Inbox
<1>9. /\ serverPc'[s] = "run" => job'[s].src = q /\ Sender(k, job[s].body)' /\ 1..Len(U) = {}
      /\ \A i \in 1..Len(U) : /\ i = 1 /\ U[i].src = p
                              /\ \E e \in Commands : Sender(k, e)' /\ U[i].body = Output(e)
  <2>1. /\ serverPc[s] = "run" => job[s].src = q /\ Sender(k, job[s].body) /\ 1..Len(R) = {}
        /\ \A i \in 1..Len(R) : /\ i = 1 /\ R[i].src = p
                                /\ \E e \in Commands : Sender(k, e) /\ R[i].body = Output(e)
    BY <1>1, <1>4 DEF Answering, Inbox
  <2>2. \A i \in 1..Len(U) : U[i] = R[g[i]] /\ g[i] \in 1..Len(R) /\ (g[i] = 1 => i = 1)
    BY <1>3, <1>4
  <2>3. Sender(k, job[s].body) => Sender(k, job[s].body)'
    <3>1. PICK e : e = job[s].body /\ e = job'[s].body
      OBVIOUS
    <3> QED BY <3>1 DEF Sender
  <2>4. serverPc'[s] = "run" => job'[s].src = q /\ Sender(k, job[s].body)' /\ 1..Len(U) = {}
    BY <1>5, <2>1, <2>3
  <2>5. \A i \in 1..Len(U) : /\ i = 1 /\ U[i].src = p
                              /\ \E e \in Commands : Sender(k, e)' /\ U[i].body = Output(e)
    BY <2>1, <2>2
  <2> QED BY <2>4, <2>5
<1>10. Answering(k, s)'
  BY <1>7, <1>9 DEF Answering, Inbox
<1> QED BY <1>8, <1>10

LEMMA TalkKept ==
  ASSUME PlaceInv, ServersUp, Announced, Conversations,
         UNCHANGED <<serverEndPoint, serverVars>>, TalkLost,
         \A k, e : Sender(k, e) => Sender(k, e)'
  PROVE  ServersUp' /\ Announced' /\ Conversations'
<1>1. UNCHANGED <<serverPc, serverTimer, serverPort, job>>
  BY DEF serverVars
<1>2. ServersUp' /\ Announced'
  <2>1. /\ InitializationPort \in DOMAIN net
        /\ \A s \in ServerProcs : ServerRunning(s) => serverPort[s] \in ServerZone \cap DOMAIN net
    BY DEF PlaceInv, NetworkInv, ServerInv, WellKnown
  <2> QED BY <1>1, <2>1, AnnouncedKept DEF ServersUp, TalkLost
<1>3. ServerIds' = ServerIds
  BY IdsSame
<1>4. ASSUME NEW k \in ServerIds, NEW s \in ServerProcs, KnownAs(k, s)'
      PROVE  Asking(k, s)' /\ Answering(k, s)'
  <2>1. KnownAs(k, s)
    BY <1>1, <1>4 DEF KnownAs, ServerRunning
  <2>2. serverPort[s] \in ServerZone \cap DOMAIN net
    BY <2>1 DEF PlaceInv, ServerInv, KnownAs
  <2>3. ManagerPort(k) \in ServerZone \cap DOMAIN net
    <3>1. ManagerPorts \subseteq ServerZone
      BY ManagerPortsInZone DEF PlaceInv, ManagerInv, ObjectsOK
    <3> QED BY <3>1 DEF ManagerPorts, PlaceInv, NetworkInv
  <2>4. /\ Fewer(net'[serverPort[s]], net[serverPort[s]])
        /\ Fewer(net'[ManagerPort(k)], net[ManagerPort(k)])
    BY <2>2, <2>3 DEF TalkLost
  <2> QED BY <1>1, <2>1, <2>4, ConversationKept DEF Conversations
<1> QED BY <1>2, <1>3, <1>4 DEF Conversations

\* A step that does not touch those inboxes at all.
TalkSame == \A p \in ServerZone \cup {InitializationPort} :
              p \in DOMAIN net => net'[p] = net[p]

LEMMA SameIsLost == TalkSame => TalkLost
BY FewerSame DEF TalkSame, TalkLost

LEMMA TalkPorts ==
  \A p \in ServerZone \cup {InitializationPort} :
    p # ClientReceivePort /\ p # WaitPort /\ p \notin ClientZone
BY ZonesApart, Zenon DEF WellKnown

LEMMA ClientElsewhere ==
  ASSUME PlaceInv, NEW c \in ClientProcs, ClientNext(c)
  PROVE  TalkSame
<1>1. CASE StartClient(c)
  <2>1. PICK p : p \notin DOMAIN net /\ net' = Sent(Bind(net, p), p, ClientReceivePort, Request(c))
    BY <1>1, LowestFreePortFound DEF StartClient, Free, Bound
  <2> QED BY <2>1, TalkPorts DEF TalkSame, Sent, Bind
<1>2. CASE ClientHandshake(c) \/ ReceiveResult(c)
  <2>1. PICK i : net' = Taken(clientPort[c], i)
    BY <1>2 DEF ClientHandshake, ReceiveResult
  <2>2. clientPort[c] \in ClientZone
    BY <1>2 DEF ClientHandshake, ReceiveResult, ClientGoto, PlaceInv, ClientInv, ClientRunning
  <2> QED BY <2>1, <2>2, TalkPorts, TakenElsewhere DEF TalkSame
<1>3. CASE Acknowledge(c)
  <2>1. clientPort[c] \in ClientZone
    BY <1>3 DEF Acknowledge, ClientGoto, PlaceInv, ClientInv, ClientRunning
  <2>2. \/ net' = Sent(net, clientPort[c], WaitPort, NextResult)
        \/ net' = Unbind(Sent(net, clientPort[c], WaitPort, NextResult), {clientPort[c]})
    BY <1>3 DEF Acknowledge
  <2> QED BY <2>1, <2>2, TalkPorts DEF TalkSame, Sent, Unbind
<1>4. CASE ClientTimerExits(c) \/ KillClient(c)
  <2>1. clientPort[c] \in ClientZone /\ net' = Unbind(net, {clientPort[c]})
    BY <1>4 DEF ClientTimerExits, KillClient, PlaceInv, ClientInv
  <2> QED BY <2>1, TalkPorts DEF TalkSame, Unbind
<1>5. CASE StopClientTimer(c) \/ ClientTimerReads(c) \/ ClientFindsNoPort(c)
  <2>1. net' = net
    BY <1>5 DEF StopClientTimer, ClientTimerReads, ClientFindsNoPort, netVars
  <2> QED BY <2>1 DEF TalkSame
<1> QED BY <1>1, <1>2, <1>3, <1>4, <1>5 DEF ClientNext, ClientMain

LEMMA AcceptElsewhere ==
  ASSUME PlaceInv, AcceptClient
  PROVE  TalkSame
<1>1. PICK i \in Arrivals(ClientReceivePort) :
        net' = Sent(Taken(ClientReceivePort, i), ClientReceivePort,
                    net[ClientReceivePort][i].src, ClientInitialized)
  BY DEF AcceptClient
<1>2. NetworkOK(net) /\ ManagerPorts \subseteq ServerZone /\ ClientReceivePort \in DOMAIN net
  BY ManagerPortsInZone DEF PlaceInv, NetworkInv, ManagerInv, ObjectsOK, WellKnown
<1>3. net[ClientReceivePort][i] \in [src : ClientZone, body : Requests]
  BY <1>2, TakenOK, ExpectedAt
<1>4. PICK p \in ClientZone : p = net[ClientReceivePort][i].src
  BY <1>3
<1>5. \A q \in DOMAIN net : q # ClientReceivePort /\ q # p => net'[q] = net[q]
  BY <1>1, <1>4 DEF Sent, Taken
<1> QED BY <1>5, TalkPorts DEF TalkSame

LEMMA SendResultElsewhere ==
  ASSUME PlaceInv, NEW t \in WorkerIds, SendResult(t)
  PROVE  TalkSame
<1>1. PICK p : p = clientObj[workers[t].client].endPoint
               /\ net' = Sent(net, ClientReceivePort, p, workers[t].exeResult)
  BY DEF SendResult
<1>2. p \in ClientZone
  BY <1>1, WorkerFinds DEF ClientObjectsZ
<1>3. \A q \in DOMAIN net : q # p => net'[q] = net[q]
  BY <1>1 DEF Sent
<1> QED BY <1>2, <1>3, TalkPorts DEF TalkSame

LEMMA ReceiveAckElsewhere ==
  ASSUME NEW t \in WorkerIds, ReceiveAck(t)
  PROVE  TalkSame
<1>1. PICK i : net' = Taken(WaitPort, i)
  BY DEF ReceiveAck
<1> QED BY <1>1, TalkPorts, TakenElsewhere DEF TalkSame

LEMMA LostElsewhere ==
  ASSUME PlaceInv, Lose
  PROVE  TalkLost
<1>1. PICK p \in DOMAIN net : \E i \in 1..Len(net[p]) : net' = Taken(p, i)
  BY DEF Lose, Bound
<1>2. PICK i \in 1..Len(net[p]) : net' = Taken(p, i)
  BY <1>1
<1>3. net[p] \in Seq(Expected(p))
  BY InboxTyped
<1>4. net'[p] = RemoveAt(net[p], i) /\ \A q \in DOMAIN net : q # p => net'[q] = net[q]
  BY <1>2, TakenThere, TakenElsewhere
<1>5. Fewer(net'[p], net[p])
  BY <1>3, <1>4, RemovedFewer
<1> QED BY <1>4, <1>5, FewerSame DEF TalkLost

-----------------------------------------------------------------------------
(* The workers and what they wait for.                                     *)

\* Worker t goes on with the command it has.
LEMMA KeepsTask ==
  ASSUME PlaceInv, NEW t \in WorkerIds, NEW from, NEW to, WorkerGoto(t, from, to)
  PROVE  workers'[t].process = workers[t].process /\ workers'[t].exeResult = workers[t].exeResult
<1> DEFINE w == [workers[t] EXCEPT !.pc = to]
<1>1. workers' = [workers EXCEPT ![t] = w]
  BY DEF WorkerGoto
<1>2. w.process = workers[t].process /\ w.exeResult = workers[t].exeResult
  BY WorkersAre DEF WorkerRecords
<1> HIDE DEF w
<1> QED BY <1>1, <1>2, OneChanged

\* A worker moves, and was not waiting for its server.
LEMMA SenderKept ==
  ASSUME NEW t \in WorkerIds, NEW pc, Moved(t, pc), workers[t].pc # "reply"
  PROVE  \A k, e : Sender(k, e) => Sender(k, e)'
BY DEF Sender, Moved

LEMMA RepliesKept ==
  ASSUME RepliesMatch, NEW t \in WorkerIds, NEW pc, Moved(t, pc),
         workers'[t].process = workers[t].process, workers'[t].exeResult = workers[t].exeResult,
         workers[t].pc \notin {"send", "reply"} \/ pc \in {"send", "reply"}
  PROVE  RepliesMatch'
BY DEF RepliesMatch, Moved

LEMMA RepliesSame ==
  ASSUME RepliesMatch, UNCHANGED workers
  PROVE  RepliesMatch' /\ \A k, e : Sender(k, e) => Sender(k, e)'
BY DEF RepliesMatch, Sender, WorkerIds

LEMMA RepliesDispatched ==
  ASSUME PlaceInv, RepliesMatch, Dispatch
  PROVE  RepliesMatch' /\ \A k, e : Sender(k, e) => Sender(k, e)'
<1>1. PICK n : /\ n \notin WorkerIds /\ WorkerIds' = WorkerIds \cup {n}
               /\ \A u \in WorkerIds : workers'[u] = workers[u]
               /\ workers'[n].pc = "send"
  BY WorkerAdded
<1> QED BY <1>1 DEF RepliesMatch, Sender

-----------------------------------------------------------------------------
(* The steps of a process server.                                          *)

LEMMA ManagerPortsDiffer ==
  ASSUME NEW k \in 1..997, NEW l \in 1..997, ManagerPort(k) = ManagerPort(l)
  PROVE  k = l
<1>1. \A j \in 1..997 : ManagerPort(j) - 9001 = j
  BY ManagerPortValue
<1>2. PICK q : q = ManagerPort(k) /\ q = ManagerPort(l)
  OBVIOUS
<1>3. q - 9001 = k
  BY <1>1, <1>2
<1>4. q - 9001 = l
  BY <1>1, <1>2
<1> QED BY <1>3, <1>4

\* The sockets of two sides, and of two conversations, are different.
LEMMA TalkSockets ==
  ASSUME PlaceInv
  PROVE  /\ \A s \in ServerProcs : ServerRunning(s) =>
              serverPort[s] \in ServerZone \cap DOMAIN net /\ serverPort[s] # InitializationPort
         /\ \A k \in ServerIds :
              ManagerPort(k) \in ServerZone \cap DOMAIN net /\ ManagerPort(k) # InitializationPort
         /\ \A k \in ServerIds, s \in ServerProcs : ServerRunning(s) => serverPort[s] # ManagerPort(k)
         /\ \A k, l \in ServerIds : ManagerPort(k) = ManagerPort(l) => k = l
         /\ \A r, s \in ServerProcs :
              (ServerRunning(r) /\ ServerRunning(s) /\ serverPort[r] = serverPort[s]) => r = s
         /\ InitializationPort \in DOMAIN net
<1>1. ServerIds \subseteq 1..997 /\ ManagerPorts \subseteq ServerZone /\ ManagerPorts \subseteq DOMAIN net
  BY ManagerPortsInZone DEF PlaceInv, ManagerInv, ObjectsOK, NetworkInv
<1>2. InitializationPort \notin ServerZone
  BY ZonesApart, Zenon DEF WellKnown
<1>3. \A k \in ServerIds : ManagerPort(k) \in ManagerPorts
  BY DEF ManagerPorts
<1>4. \A k, l \in ServerIds : ManagerPort(k) = ManagerPort(l) => k = l
  BY <1>1, ManagerPortsDiffer
<1>5. \A s \in ServerProcs : ServerRunning(s) =>
        serverPort[s] \in (ServerZone \cap DOMAIN net) \ ManagerPorts
  BY DEF PlaceInv, ServerInv
<1>6. \A r, s \in ServerProcs :
        (ServerRunning(r) /\ ServerRunning(s) /\ serverPort[r] = serverPort[s]) => r = s
  BY DEF PlaceInv, ServerInv
<1>7. InitializationPort \in DOMAIN net
  BY DEF PlaceInv, NetworkInv, WellKnown
<1> QED BY <1>1, <1>2, <1>3, <1>4, <1>5, <1>6, <1>7

\* A process server is one object, and an object is one process server.
LEMMA KnownOnce ==
  ASSUME PlaceInv, Announced, NEW k \in ServerIds, NEW s \in ServerProcs, KnownAs(k, s)
  PROVE  /\ \A l \in ServerIds : KnownAs(l, s) => l = k
         /\ \A r \in ServerProcs : KnownAs(k, r) => r = s
BY TalkSockets DEF KnownAs, Announced

LEMMA SenderSteady ==
  ASSUME UNCHANGED workers
  PROVE  \A k, e : Sender(k, e)' <=> Sender(k, e)
BY DEF Sender, WorkerIds

\* A step of process server r leaves the other conversations alone.
LEMMA OthersTalk ==
  ASSUME PlaceInv, Announced, Conversations, NEW r \in ServerProcs,
         NEW k \in ServerIds, NEW s \in ServerProcs, s # r, KnownAs(k, s)',
         UNCHANGED managerVars,
         serverPc'[s] = serverPc[s], serverPort'[s] = serverPort[s], job'[s] = job[s],
         net'[serverPort[s]] = net[serverPort[s]], net'[ManagerPort(k)] = net[ManagerPort(k)]
  PROVE  Asking(k, s)' /\ Answering(k, s)'
<1>1. UNCHANGED <<workers, serverEndPoint>>
  BY DEF managerVars
<1>2. KnownAs(k, s)
  BY <1>1 DEF KnownAs, ServerRunning
<1>3. Asking(k, s) /\ Answering(k, s)
  BY <1>2 DEF Conversations
<1> QED BY <1>1, <1>3, FewerSame, SenderSteady, ConversationKept

LEMMA StartTalks ==
  ASSUME PlaceInv, ServersUp, Announced, Conversations, NEW r \in ServerProcs, StartServer(r),
         UNCHANGED managerVars
  PROVE  ServersUp' /\ Announced' /\ Conversations'
<1>1. PICK p : /\ p \notin DOMAIN net
               /\ serverPort' = [serverPort EXCEPT ![r] = p]
               /\ net' = Sent(Bind(net, p), p, InitializationPort, InitMessage)
  BY HighestFreePortFound DEF StartServer, Free, Bound
<1>2. /\ serverPc[r] = "off" /\ serverPc' = [serverPc EXCEPT ![r] = "handshake"]
      /\ serverTimer' = [serverTimer EXCEPT ![r] = "asleep"] /\ job' = job
      /\ UNCHANGED <<serverEndPoint, workers>>
  BY DEF StartServer, ServerGoto, managerVars
<1>3. /\ serverPc \in [ServerProcs -> ServerPcs] /\ serverPort \in [ServerProcs -> Nat]
      /\ serverTimer \in [ServerProcs -> {"off", "asleep", "expired"}]
  BY DEF PlaceInv, ServerInv, ServerTypeOK
<1>4. /\ InitializationPort \in DOMAIN net /\ p # InitializationPort
      /\ \A k \in ServerIds : ManagerPort(k) \in DOMAIN net /\ ManagerPort(k) # InitializationPort
      /\ \A s \in ServerProcs : ServerRunning(s) =>
           serverPort[s] \in DOMAIN net /\ serverPort[s] # InitializationPort
  BY <1>1, TalkSockets
<1>5. /\ net'[p] = << >>
      /\ \A q \in DOMAIN net : q # InitializationPort => net'[q] = net[q]
      /\ Grown(net'[InitializationPort], net[InitializationPort], [src |-> p, body |-> InitMessage])
  <2>1. Bind(net, p)[InitializationPort] = net[InitializationPort]
        /\ InitializationPort \in DOMAIN Bind(net, p)
    BY <1>4 DEF Bind
  <2>2. net[InitializationPort] \in Seq(Expected(InitializationPort))
    BY <1>4, InboxTyped
  <2>3. net'[p] = << >> /\ \A q \in DOMAIN net : q # InitializationPort => net'[q] = net[q]
    BY <1>1, <1>4 DEF Bind, Sent
  <2> QED BY <1>1, <2>1, <2>2, <2>3, SentThere
<1>6. /\ ~ServerRunning(r) /\ ServerRunning(r)' /\ serverPort'[r] = p
      /\ \A s \in ServerProcs : s # r => /\ ServerRunning(s)' = ServerRunning(s)
                                         /\ serverPort'[s] = serverPort[s]
                                         /\ serverPc'[s] = serverPc[s]
  BY <1>1, <1>2, <1>3 DEF ServerRunning
<1>7. ServersUp'
  BY <1>2, <1>3 DEF ServersUp
<1>8. ServerIds' = ServerIds /\ \A q : Unknown(q)' = Unknown(q)
  BY <1>2 DEF ServerIds, Unknown
<1>9. Unknown(p)
  BY <1>1, <1>4 DEF Unknown, Announced, KnownAs
<1>10. \A k \in ServerIds, s \in ServerProcs : KnownAs(k, s)' <=> KnownAs(k, s)
  <2>1. \A k \in ServerIds : ~KnownAs(k, r)' /\ ~KnownAs(k, r)
    BY <1>2, <1>6, <1>9 DEF KnownAs, Unknown
  <2> QED BY <1>2, <1>6, <2>1 DEF KnownAs
<1>11. Announced'
  <2>1. PICK N, M : N = net[InitializationPort] /\ M = net'[InitializationPort]
    OBVIOUS
  <2>2. PICK last : /\ 1..Len(M) = 1..Len(N) \cup {last}
                    /\ M[last].src = p
                    /\ \A i \in 1..Len(N) : M[i] = N[i]
    BY <1>5, <2>1 DEF Grown
  <2>3. \A i \in 1..Len(N) : /\ Unknown(N[i].src)
                             /\ \E s \in ServerProcs : ServerRunning(s) /\ serverPort[s] = N[i].src
    BY <2>1 DEF Announced, Inbox
  <2>4. \A i \in 1..Len(N) : N[i].src # p
    BY <1>1, <1>4, <2>3
  <2>5. \A i, j \in 1..Len(M) : M[i].src = M[j].src => i = j
    <3>1. \A i, j \in 1..Len(N) : N[i].src = N[j].src => i = j
      BY <2>1 DEF Announced, Inbox
    <3> QED BY <2>2, <2>4, <3>1
  <2>6. ASSUME NEW i \in 1..Len(M)
        PROVE  /\ Unknown(M[i].src)'
               /\ \E s \in ServerProcs : ServerRunning(s)' /\ serverPort'[s] = M[i].src
    <3>1. PICK a : a = M[i].src
      OBVIOUS
    <3>2. Unknown(a) /\ \E s \in ServerProcs : ServerRunning(s)' /\ serverPort'[s] = a
      BY <1>6, <1>9, <2>2, <2>3, <3>1
    <3> QED BY <1>8, <3>1, <3>2
  <2>7. /\ \A k \in ServerIds : \E s \in ServerProcs : KnownAs(k, s)'
        /\ \A k, l \in ServerIds : serverEndPoint'[k] = serverEndPoint'[l] => k = l
    BY <1>2, <1>10 DEF Announced
  <2>8. ASSUME NEW s \in ServerProcs, ServerRunning(s)', Unknown(serverPort[s])'
        PROVE  serverPc'[s] = "handshake" /\ Inbox(serverPort[s])' = {}
    <3>1. CASE s = r
      BY <1>2, <1>3, <1>5, <1>6, <3>1 DEF Inbox
    <3>2. CASE s # r
      <4>1. ServerRunning(s) /\ serverPort'[s] = serverPort[s] /\ serverPc'[s] = serverPc[s]
        BY <1>6, <2>8, <3>2
      <4>2. Unknown(serverPort[s])
        BY <1>2, <2>8, <4>1 DEF Unknown, ServerIds
      <4>3. serverPc[s] = "handshake" /\ Inbox(serverPort[s]) = {}
        BY <4>1, <4>2 DEF Announced
      <4> QED BY <1>4, <1>5, <4>1, <4>3 DEF Inbox
    <3> QED BY <3>1, <3>2
  <2> QED BY <1>8, <2>1, <2>5, <2>6, <2>7, <2>8 DEF Announced, Inbox
<1>12. ASSUME NEW k \in ServerIds, NEW s \in ServerProcs, KnownAs(k, s)'
       PROVE  Asking(k, s)' /\ Answering(k, s)'
  <2>1. KnownAs(k, s) /\ s # r
    BY <1>6, <1>10, <1>12 DEF KnownAs
  <2>2. net'[serverPort[s]] = net[serverPort[s]] /\ net'[ManagerPort(k)] = net[ManagerPort(k)]
    BY <1>4, <1>5, <2>1 DEF KnownAs
  <2> QED BY <1>2, <1>6, <1>12, <2>1, <2>2, OthersTalk
<1> QED BY <1>7, <1>8, <1>11, <1>12 DEF Conversations

\* Process server r, which is object k, goes on with its conversation.
LEMMA KnownGoes ==
  ASSUME PlaceInv, ServersUp, Announced, Conversations,
         NEW r \in ServerProcs, NEW k \in ServerIds, KnownAs(k, r),
         NEW to \in {"answered", "receive", "run"},
         serverPc' = [serverPc EXCEPT ![r] = to],
         UNCHANGED <<serverPort, serverTimer>>, UNCHANGED managerVars,
         \A s \in ServerProcs : s # r => job'[s] = job[s],
         \A q \in DOMAIN net : q # serverPort[r] /\ q # ManagerPort(k) => net'[q] = net[q],
         Asking(k, r)', Answering(k, r)'
  PROVE  ServersUp' /\ Announced' /\ Conversations'
<1>1. serverPc \in [ServerProcs -> ServerPcs]
  BY DEF PlaceInv, ServerInv, ServerTypeOK
<1>2. /\ UNCHANGED <<serverEndPoint, workers>> /\ ServerIds' = ServerIds
      /\ \A q : Unknown(q)' = Unknown(q)
  BY DEF managerVars, ServerIds, Unknown
<1>3. /\ ServerRunning(r) /\ ServerRunning(r)'
      /\ \A s \in ServerProcs : ServerRunning(s)' = ServerRunning(s)
      /\ \A s \in ServerProcs : s # r => serverPc'[s] = serverPc[s]
  BY <1>1 DEF ServerRunning, KnownAs
<1>4. \A l \in ServerIds, s \in ServerProcs : KnownAs(l, s)' <=> KnownAs(l, s)
  BY <1>2, <1>3 DEF KnownAs
<1>5. ServersUp'
  BY <1>1 DEF ServersUp
<1>6. /\ InitializationPort \in DOMAIN net /\ net'[InitializationPort] = net[InitializationPort]
      /\ \A s \in ServerProcs : (ServerRunning(s) /\ s # r) =>
           net'[serverPort[s]] = net[serverPort[s]]
      /\ \A l \in ServerIds : l # k => net'[ManagerPort(l)] = net[ManagerPort(l)]
  <2>1. /\ InitializationPort \in DOMAIN net
        /\ InitializationPort # serverPort[r] /\ InitializationPort # ManagerPort(k)
    BY <1>3, TalkSockets
  <2>2. \A s \in ServerProcs : (ServerRunning(s) /\ s # r) =>
          /\ serverPort[s] \in DOMAIN net
          /\ serverPort[s] # serverPort[r] /\ serverPort[s] # ManagerPort(k)
    BY <1>3, TalkSockets
  <2>3. \A l \in ServerIds : l # k =>
          /\ ManagerPort(l) \in DOMAIN net
          /\ ManagerPort(l) # serverPort[r] /\ ManagerPort(l) # ManagerPort(k)
    BY <1>3, TalkSockets
  <2> QED BY <2>1, <2>2, <2>3
<1>7. Announced'
  <2>1. /\ \A i \in Inbox(InitializationPort)' :
             /\ Unknown(net[InitializationPort][i].src)'
             /\ \E s \in ServerProcs :
                  ServerRunning(s)' /\ serverPort'[s] = net'[InitializationPort][i].src
        /\ \A i, j \in Inbox(InitializationPort)' :
             net'[InitializationPort][i].src = net'[InitializationPort][j].src => i = j
    <3>1. PICK N : N = net[InitializationPort] /\ N = net'[InitializationPort]
      BY <1>6
    <3>2. /\ \A i \in 1..Len(N) : /\ Unknown(N[i].src)
                                  /\ \E s \in ServerProcs : ServerRunning(s) /\ serverPort[s] = N[i].src
          /\ \A i, j \in 1..Len(N) : N[i].src = N[j].src => i = j
      BY <3>1 DEF Announced, Inbox
    <3>3. \A i \in 1..Len(N) : Unknown(N[i].src)'
      BY <1>2, <3>2
    <3> QED BY <1>3, <3>1, <3>2, <3>3 DEF Inbox
  <2>2. /\ \A l \in ServerIds : \E s \in ServerProcs : KnownAs(l, s)'
        /\ \A l, m \in ServerIds : serverEndPoint'[l] = serverEndPoint'[m] => l = m
    BY <1>2, <1>4 DEF Announced
  <2>3. ASSUME NEW s \in ServerProcs, ServerRunning(s)', Unknown(serverPort[s])'
        PROVE  serverPc'[s] = "handshake" /\ Inbox(serverPort[s])' = {}
    <3>1. ServerRunning(s) /\ Unknown(serverPort[s])
      BY <1>2, <1>3, <2>3 DEF Unknown
    <3>2. s # r
      BY <3>1 DEF KnownAs, Unknown
    <3>3. serverPc[s] = "handshake" /\ Inbox(serverPort[s]) = {}
      BY <3>1 DEF Announced
    <3> QED BY <1>3, <1>6, <3>1, <3>2, <3>3 DEF Inbox
  <2> QED BY <1>2, <2>1, <2>2, <2>3 DEF Announced
<1>8. ASSUME NEW l \in ServerIds, NEW s \in ServerProcs, KnownAs(l, s)'
      PROVE  Asking(l, s)' /\ Answering(l, s)'
  <2>1. KnownAs(l, s) /\ ServerRunning(s)
    BY <1>4, <1>8 DEF KnownAs
  <2>2. CASE s = r
    BY <2>1, <2>2, KnownOnce
  <2>3. CASE s # r
    <3>1. l # k
      BY <2>1, <2>3, KnownOnce
    <3> QED BY <1>3, <1>6, <1>8, <2>1, <2>3, <3>1, OthersTalk
  <2> QED BY <2>2, <2>3
<1> QED BY <1>2, <1>5, <1>7, <1>8 DEF Conversations

\* Who has a datagram, or has been greeted, is known.
LEMMA KnownByNow ==
  ASSUME Announced, NEW r \in ServerProcs, ServerRunning(r),
         serverPc[r] # "handshake" \/ 1 \in Inbox(serverPort[r])
  PROVE  \E k \in ServerIds : KnownAs(k, r)
BY DEF Announced, KnownAs, Unknown

LEMMA HandshakeTalks ==
  ASSUME PlaceInv, ServersUp, Announced, Conversations, LossAndKills,
         NEW r \in ServerProcs, ServerHandshake(r), UNCHANGED managerVars
  PROVE  ServersUp' /\ Announced' /\ Conversations'
<1>1. PICK p : p = serverPort[r]
  OBVIOUS
<1>2. /\ serverPc[r] = "handshake" /\ ServerRunning(r)
      /\ serverPc' = [serverPc EXCEPT ![r] = "answered"]
      /\ UNCHANGED <<serverTimer, serverPort, job>>
  BY DEF ServerHandshake, ServerGoto, ServerRunning
<1>3. 1 \in Inbox(p) /\ net' = Taken(p, 1)
  BY <1>1, FirstArrives DEF ServerHandshake
<1>4. PICK k \in ServerIds : KnownAs(k, r)
  BY <1>1, <1>2, <1>3, KnownByNow
<1>5. PICK q : q = ManagerPort(k)
  OBVIOUS
<1>6. p \in DOMAIN net /\ q \in DOMAIN net /\ q # p
  BY <1>1, <1>2, <1>5, TalkSockets
<1>7. /\ \A j \in 1..Len(net'[p]) : net'[p][j] = net[p][j + 1] /\ j + 1 \in Inbox(p) /\ j + 1 # 1
      /\ \A m \in DOMAIN net : m # p => net'[m] = net[m]
  BY <1>3, <1>6, FirstTaken, TakenElsewhere
<1>8. Asking(k, r) /\ Answering(k, r)
  BY <1>4 DEF Conversations
<1>9. /\ ManagerPort(k)' = q /\ serverPort'[r] = p /\ serverPc'[r] = "answered"
      /\ \A e : Sender(k, e)' <=> Sender(k, e)
  <2>1. serverPc \in [ServerProcs -> ServerPcs]
    BY DEF PlaceInv, ServerInv, ServerTypeOK
  <2> QED BY <1>1, <1>2, <1>5, <2>1, SenderSteady DEF managerVars, ManagerPort
<1>10. PICK N, M : N = net[p] /\ M = net'[p]
  OBVIOUS
<1>11. \A j \in 1..Len(M) : M[j] = N[j + 1] /\ j + 1 \in 1..Len(N) /\ j + 1 # 1
  BY <1>7, <1>10 DEF Inbox
<1>12. /\ \A i \in 1..Len(N) : i # 1 =>
            /\ N[i].src = q
            /\ Sender(k, N[i].body) /\ Inbox(q) = {}
       /\ \A i, j \in 1..Len(N) :
            (N[i].body # ProcessServerInitialized /\ N[j].body # ProcessServerInitialized) => i = j
  BY <1>1, <1>5, <1>8, <1>10 DEF Asking, Inbox
<1>13. Asking(k, r)'
  <2>1. ASSUME NEW j \in 1..Len(M)
        PROVE  M[j].src = q /\ Sender(k, M[j].body)' /\ Inbox(q) = {}
    <3>1. PICK b : b = M[j].body /\ b = N[j + 1].body
      BY <1>11
    <3>2. Sender(k, b) /\ M[j].src = q /\ Inbox(q) = {}
      BY <1>11, <1>12, <3>1
    <3> QED BY <1>9, <3>1, <3>2
  <2>2. \A i, j \in 1..Len(M) : i + 1 = j + 1 => i = j
    OBVIOUS
  <2>3. \A i, j \in 1..Len(M) :
          (M[i].body # ProcessServerInitialized /\ M[j].body # ProcessServerInitialized) => i = j
    BY <1>11, <1>12, <2>2
  <2>4. Inbox(q)' = Inbox(q)
    BY <1>6, <1>7 DEF Inbox
  <2> QED BY <1>9, <1>10, <2>1, <2>3, <2>4 DEF Asking, Inbox
<1>14. Answering(k, r)'
  <2>1. \A i \in Inbox(q) : /\ i = 1 /\ net[q][i].src = p
                            /\ \E e \in Commands : Sender(k, e) /\ net[q][i].body = Output(e)
    BY <1>1, <1>5, <1>8 DEF Answering
  <2>2. net'[q] = net[q]
    BY <1>6, <1>7
  <2>3. \A i \in Inbox(q)' : /\ i = 1 /\ net'[q][i].src = p
                             /\ \E e \in Commands : Sender(k, e)' /\ net'[q][i].body = Output(e)
    BY <1>9, <2>1, <2>2 DEF Inbox
  <2> QED BY <1>9, <2>3 DEF Answering
<1>15. \A m \in DOMAIN net : m # serverPort[r] /\ m # ManagerPort(k) => net'[m] = net[m]
  BY <1>1, <1>7
<1> QED BY <1>2, <1>4, <1>13, <1>14, <1>15, KnownGoes

LEMMA TimerStops ==
  ASSUME PlaceInv, ServersUp, Announced, Conversations,
         NEW r \in ServerProcs, StopServerTimer(r), UNCHANGED managerVars
  PROVE  ServersUp' /\ Announced' /\ Conversations'
<1>1. /\ serverPc[r] = "answered" /\ ServerRunning(r)
      /\ serverPc' = [serverPc EXCEPT ![r] = "receive"]
      /\ UNCHANGED <<serverTimer, serverPort, job, net>>
  BY DEF StopServerTimer, ServerGoto, ServerRunning, netVars
<1>2. PICK k \in ServerIds : KnownAs(k, r)
  BY <1>1, KnownByNow
<1>3. Asking(k, r) /\ Answering(k, r)
  BY <1>2 DEF Conversations
<1>4. /\ ManagerPort(k)' = ManagerPort(k) /\ serverPc'[r] = "receive"
      /\ \A e : Sender(k, e)' <=> Sender(k, e)
  <2>1. serverPc \in [ServerProcs -> ServerPcs]
    BY DEF PlaceInv, ServerInv, ServerTypeOK
  <2> QED BY <1>1, <2>1, SenderSteady DEF managerVars, ManagerPort
<1>5. PICK p, q : p = serverPort[r] /\ q = ManagerPort(k)
  OBVIOUS
<1>6. Asking(k, r)'
  <2>1. /\ \A i \in Inbox(p) : /\ net[p][i].src = q
                               /\ Sender(k, net[p][i].body) /\ Inbox(q) = {}
        /\ \A i, j \in Inbox(p) :
             (/\ net[p][i].body # ProcessServerInitialized
              /\ net[p][j].body # ProcessServerInitialized) => i = j
    BY <1>1, <1>3, <1>5 DEF Asking
  <2>2. PICK N : N = net[p] /\ N = net'[p]
    BY <1>1
  <2>3. \A i \in 1..Len(N) : N[i].src = q /\ Sender(k, N[i].body)' /\ Inbox(q)' = {}
    <3>1. \A i \in 1..Len(N) : N[i].src = q /\ Sender(k, N[i].body) /\ Inbox(q) = {}
      BY <2>1, <2>2 DEF Inbox
    <3> QED BY <1>1, <1>4, <3>1 DEF Inbox
  <2>4. /\ serverPort'[r] = p /\ ManagerPort(k)' = q /\ net'[p] = N
        /\ serverPc'[r] # "run"
        /\ \A i, j \in 1..Len(N) :
             (N[i].body # ProcessServerInitialized /\ N[j].body # ProcessServerInitialized) => i = j
    BY <1>1, <1>4, <1>5, <2>1, <2>2 DEF Inbox
  <2> QED BY <2>3, <2>4 DEF Asking, Inbox
<1>7. Answering(k, r)'
  <2>1. \A i \in Inbox(q) : /\ i = 1 /\ net[q][i].src = p
                            /\ \E e \in Commands : Sender(k, e) /\ net[q][i].body = Output(e)
    BY <1>3, <1>5 DEF Answering
  <2>2. \A i \in Inbox(q)' : /\ i = 1 /\ net'[q][i].src = p
                             /\ \E e \in Commands : Sender(k, e)' /\ net'[q][i].body = Output(e)
    BY <1>1, <1>4, <2>1 DEF Inbox
  <2>3. serverPort'[r] = p /\ ManagerPort(k)' = q /\ serverPc'[r] # "run"
    BY <1>1, <1>4, <1>5
  <2> QED BY <2>2, <2>3 DEF Answering
<1> QED BY <1>1, <1>2, <1>6, <1>7, KnownGoes

LEMMA GreetingIsNoCommand == \A e \in Commands : e # ProcessServerInitialized
<1>1. ProcessServerInitialized.type = "Process Server Initialized"
  BY DEF ProcessServerInitialized
<1>2. \A e \in Commands : e.type = "command"
  BY DEF Commands, CommandsOf, Command
<1> QED BY <1>1, <1>2

\* The only command in its inbox is received.
LEMMA CommandTalks ==
  ASSUME PlaceInv, ServersUp, Announced, Conversations, LossAndKills,
         NEW r \in ServerProcs, ReceiveCommand(r), UNCHANGED managerVars
  PROVE  ServersUp' /\ Announced' /\ Conversations'
<1>1. PICK p : p = serverPort[r]
  OBVIOUS
<1>2. /\ serverPc[r] = "receive" /\ ServerRunning(r)
      /\ serverPc' = [serverPc EXCEPT ![r] = "run"]
      /\ UNCHANGED <<serverTimer, serverPort>>
  BY DEF ReceiveCommand, ServerGoto, ServerRunning
<1>3. 1 \in Inbox(p) /\ net' = Taken(p, 1) /\ job' = [job EXCEPT ![r] = net[p][1]]
  BY <1>1, FirstArrives DEF ReceiveCommand
<1>4. PICK k \in ServerIds : KnownAs(k, r)
  BY <1>1, <1>2, KnownByNow
<1>5. PICK q : q = ManagerPort(k)
  OBVIOUS
<1>6. p \in DOMAIN net /\ q \in DOMAIN net /\ q # p
  BY <1>1, <1>2, <1>5, TalkSockets
<1>7. Asking(k, r) /\ Answering(k, r)
  BY <1>4 DEF Conversations
<1>8. /\ ManagerPort(k)' = q /\ serverPort'[r] = p /\ job'[r] = net[p][1]
      /\ \A e : Sender(k, e)' <=> Sender(k, e)
  <2>1. job = [s \in ServerProcs |-> job[s]]
    BY DEF PlaceInv, ServerInv, ServerTypeOK
  <2> QED BY <1>1, <1>2, <1>3, <1>5, <2>1, SenderSteady DEF managerVars, ManagerPort
<1>9. /\ \A i \in Inbox(p) : /\ net[p][i].src = q
                             /\ Sender(k, net[p][i].body) /\ Inbox(q) = {}
      /\ \A i, j \in Inbox(p) :
           (/\ net[p][i].body # ProcessServerInitialized
            /\ net[p][j].body # ProcessServerInitialized) => i = j
  BY <1>1, <1>2, <1>5, <1>7 DEF Asking
<1>10. Inbox(p) = {1}
  <2>1. \A e : Sender(k, e) => e # ProcessServerInitialized
    <3>1. \A t \in WorkerIds : workers[t].process \in Commands
      BY WorkerFinds
    <3>2. \A e \in Commands : e # ProcessServerInitialized
      BY GreetingIsNoCommand
    <3> QED BY <3>1, <3>2 DEF Sender
  <2> QED BY <1>3, <1>9, <2>1
<1>11. 1..Len(net'[p]) = {} /\ \A m \in DOMAIN net : m # p => net'[m] = net[m]
  BY <1>3, <1>6, <1>10, FirstTaken, TakenElsewhere
<1>12. Asking(k, r)'
  BY <1>8, <1>11 DEF Asking, Inbox
<1>13. Answering(k, r)'
  <2>1. Inbox(q)' = {} /\ job'[r].src = q
    BY <1>3, <1>6, <1>8, <1>9, <1>11 DEF Inbox
  <2>2. Sender(k, job[r].body)'
    <3>1. PICK e : e = net[p][1].body /\ e = job'[r].body
      BY <1>8
    <3>2. Sender(k, e)'
      BY <1>3, <1>8, <1>9, <3>1
    <3> QED BY <3>1, <3>2
  <2> QED BY <1>8, <2>1, <2>2 DEF Answering, Inbox
<1>14. \A m \in DOMAIN net : m # serverPort[r] /\ m # ManagerPort(k) => net'[m] = net[m]
  BY <1>1, <1>11
<1>15. \A s \in ServerProcs : s # r => job'[s] = job[s]
  BY <1>3
<1> QED BY <1>2, <1>4, <1>12, <1>13, <1>14, <1>15, KnownGoes

\* The output goes to the empty inbox of the worker that sent the command.
LEMMA ReplyTalks ==
  ASSUME PlaceInv, ServersUp, Announced, Conversations,
         NEW r \in ServerProcs, Reply(r), UNCHANGED managerVars
  PROVE  ServersUp' /\ Announced' /\ Conversations'
<1>1. PICK p, b : p = serverPort[r] /\ b = job[r].body
  OBVIOUS
<1>2. /\ serverPc[r] = "run" /\ ServerRunning(r)
      /\ serverPc' = [serverPc EXCEPT ![r] = "receive"]
      /\ UNCHANGED <<serverTimer, serverPort>>
      /\ job' = [job EXCEPT ![r] = NoJob]
      /\ net' = Sent(net, p, job[r].src, Output(b))
  BY <1>1 DEF Reply, ServerGoto, ServerRunning
<1>3. PICK k \in ServerIds : KnownAs(k, r)
  BY <1>2, KnownByNow
<1>4. PICK q : q = ManagerPort(k)
  OBVIOUS
<1>5. p \in DOMAIN net /\ q \in DOMAIN net /\ q # p
  BY <1>1, <1>2, <1>4, TalkSockets
<1>6. Asking(k, r) /\ Answering(k, r)
  BY <1>3 DEF Conversations
<1>7. job[r].src = q /\ Sender(k, b) /\ Inbox(q) = {}
  BY <1>1, <1>2, <1>4, <1>6 DEF Answering
<1>8. Inbox(p) = {}
  BY <1>1, <1>2, <1>6 DEF Asking
<1>9. b \in Commands
  BY <1>7, WorkerFinds DEF Sender
<1>10. /\ \A m \in DOMAIN net : m # q => net'[m] = net[m]
       /\ Grown(net'[q], net[q], [src |-> p, body |-> Output(b)])
  BY <1>2, <1>5, <1>7, InboxTyped, SentElsewhere, SentThere
<1>11. PICK N : N = net'[q]
  OBVIOUS
<1>12. 1..Len(N) = {1} /\ N[1].src = p /\ N[1].body = Output(b)
  BY <1>7, <1>10, <1>11 DEF Grown, Inbox
<1>13. /\ ManagerPort(k)' = q /\ serverPort'[r] = p /\ serverPc'[r] = "receive"
       /\ \A e : Sender(k, e)' <=> Sender(k, e)
  <2>1. serverPc \in [ServerProcs -> ServerPcs]
    BY DEF PlaceInv, ServerInv, ServerTypeOK
  <2> QED BY <1>1, <1>2, <1>4, <2>1, SenderSteady DEF managerVars, ManagerPort
<1>14. Asking(k, r)'
  BY <1>5, <1>8, <1>10, <1>13 DEF Asking, Inbox
<1>15. Answering(k, r)'
  <2>1. Sender(k, b)'
    BY <1>7, <1>13
  <2> QED BY <1>9, <1>11, <1>12, <1>13, <2>1 DEF Answering, Inbox
<1>16. \A m \in DOMAIN net : m # serverPort[r] /\ m # ManagerPort(k) => net'[m] = net[m]
  BY <1>4, <1>10
<1>17. \A s \in ServerProcs : s # r => job'[s] = job[s]
  BY <1>2
<1> QED BY <1>2, <1>3, <1>14, <1>15, <1>16, <1>17, KnownGoes

LEMMA ServerTalks ==
  ASSUME PlaceInv, ServersUp, Announced, Conversations, LossAndKills,
         NEW r \in ServerProcs, ServerNext(r), UNCHANGED managerVars
  PROVE  ServersUp' /\ Announced' /\ Conversations'
<1>1. CASE StartServer(r)
  BY <1>1, StartTalks
<1>2. CASE ServerMain(r)
  BY <1>2, HandshakeTalks, TimerStops, CommandTalks, ReplyTalks DEF ServerMain
<1>3. CASE ServerFindsNoPort(r)
  <2>1. /\ serverPc[r] = "off" /\ serverPc' = [serverPc EXCEPT ![r] = "noPort"]
        /\ UNCHANGED <<serverTimer, serverPort, job, net>>
    BY <1>3 DEF ServerFindsNoPort, ServerGoto, netVars
  <2>2. serverPc \in [ServerProcs -> ServerPcs]
    BY DEF PlaceInv, ServerInv, ServerTypeOK
  <2>3. \A s \in ServerProcs : /\ ServerRunning(s)' = ServerRunning(s)
                               /\ ServerRunning(s) => s # r /\ serverPc'[s] = serverPc[s]
    BY <2>1, <2>2 DEF ServerRunning
  <2>4. UNCHANGED <<serverEndPoint, workers>>
    BY DEF managerVars
  <2>5. /\ ServerIds' = ServerIds /\ \A p : Unknown(p)' = Unknown(p)
        /\ \A k, s : s \in ServerProcs => (KnownAs(k, s)' <=> KnownAs(k, s))
    BY <2>1, <2>3, <2>4 DEF ServerIds, Unknown, KnownAs
  <2>6. ServersUp'
    BY <2>1, <2>2 DEF ServersUp
  <2>7. Announced'
    <3>1. /\ \A i \in Inbox(InitializationPort) :
               /\ Unknown(net[InitializationPort][i].src)'
               /\ \E s \in ServerProcs :
                    ServerRunning(s)' /\ serverPort[s] = net[InitializationPort][i].src
          /\ \A i, j \in Inbox(InitializationPort) :
               net[InitializationPort][i].src = net[InitializationPort][j].src => i = j
      <4>1. PICK N : N = net[InitializationPort]
        OBVIOUS
      <4>2. /\ \A i \in 1..Len(N) : /\ Unknown(N[i].src)
                                    /\ \E s \in ServerProcs : ServerRunning(s) /\ serverPort[s] = N[i].src
            /\ \A i, j \in 1..Len(N) : N[i].src = N[j].src => i = j
        BY <4>1 DEF Announced, Inbox
      <4>3. \A i \in 1..Len(N) : Unknown(N[i].src)'
        BY <2>1, <2>4, <4>2 DEF Unknown, ServerIds
      <4> QED BY <2>1, <2>3, <4>1, <4>2, <4>3 DEF Inbox
    <3>2. Inbox(InitializationPort)' = Inbox(InitializationPort)
      BY <2>1 DEF Inbox
    <3>3. /\ \A k \in ServerIds : \E s \in ServerProcs : KnownAs(k, s)'
          /\ \A k, l \in ServerIds : serverEndPoint'[k] = serverEndPoint'[l] => k = l
      BY <2>4, <2>5 DEF Announced
    <3>4. \A s \in ServerProcs : (ServerRunning(s)' /\ Unknown(serverPort[s])') =>
            serverPc'[s] = "handshake" /\ Inbox(serverPort[s])' = {}
      BY <2>1, <2>3, <2>4 DEF Announced, Inbox, Unknown, ServerIds
    <3> QED BY <2>1, <2>5, <3>1, <3>2, <3>3, <3>4 DEF Announced
  <2>8. ASSUME NEW k \in ServerIds, NEW s \in ServerProcs, KnownAs(k, s)'
        PROVE  Asking(k, s)' /\ Answering(k, s)'
    <3>1. ServerRunning(s) /\ s # r /\ serverPc'[s] = serverPc[s]
      BY <2>3, <2>8 DEF KnownAs
    <3>2. serverPort'[s] = serverPort[s] /\ job'[s] = job[s]
          /\ net'[serverPort[s]] = net[serverPort[s]] /\ net'[ManagerPort(k)] = net[ManagerPort(k)]
      BY <2>1
    <3> QED BY <2>8, <3>1, <3>2, OthersTalk
  <2> QED BY <2>5, <2>6, <2>7, <2>8 DEF Conversations
<1>4. CASE ServerTimerReads(r) \/ ServerTimerExits(r) \/ KillServer(r)
  BY <1>4 DEF LossAndKills, ServersUp, ServerTimerReads, ServerTimerExits, KillServer
<1> QED BY <1>1, <1>2, <1>3, <1>4 DEF ServerNext

-----------------------------------------------------------------------------
(* The steps of the load manager that take part in conversations.          *)

\* A new server object for sender a, which waits for the greeting.
LEMMA ObjectTalks ==
  ASSUME PlaceInv, ServersUp, Announced, Conversations, UNCHANGED <<serverVars, workers>>,
         1 \in Inbox(InitializationPort),
         NEW k, k = Len(serverEndPoint) + 1, Free(ManagerPort(k)),
         NEW a, a = net[InitializationPort][1].src,
         serverEndPoint' = Append(serverEndPoint, a),
         net' = Sent(Bind(Taken(InitializationPort, 1), ManagerPort(k)), ManagerPort(k),
                     a, ProcessServerInitialized)
  PROVE  ServersUp' /\ Announced' /\ Conversations'
<1>1. PICK m : m = ManagerPort(k)
  OBVIOUS
<1>2. UNCHANGED <<serverPc, serverTimer, serverPort, job>>
  BY DEF serverVars
<1>3. PICK s0 \in ServerProcs : ServerRunning(s0) /\ serverPort[s0] = a
  BY DEF Announced
<1>4. Unknown(a)
  BY DEF Announced
<1>5. /\ a \in ServerZone \cap DOMAIN net /\ a # InitializationPort
      /\ InitializationPort \in DOMAIN net /\ m \notin DOMAIN net
      /\ serverPc[s0] = "handshake" /\ Inbox(a) = {}
  BY <1>1, <1>3, <1>4, TalkSockets DEF Announced, Free, Bound
<1>6. /\ ServerIds' = ServerIds \cup {k} /\ k \notin ServerIds
      /\ \A l \in ServerIds : serverEndPoint'[l] = serverEndPoint[l]
      /\ serverEndPoint'[k] = a
  <2>1. ServerIds' = ServerIds \cup {k}
    BY <1>5, ServerMade
  <2>2. k \notin ServerIds
    <3>1. Len(serverEndPoint) \in 0..997
      BY DEF PlaceInv, ManagerInv, ObjectsOK
    <3> QED BY <3>1, NextIsNew, Zenon DEF ServerIds
  <2>3. serverEndPoint \in Seq(ServerZone)
    BY DEF PlaceInv, ManagerInv, ObjectsOK
  <2> QED BY <1>5, <2>1, <2>2, <2>3, AppendProperties DEF ServerIds
<1>7. /\ net'[m] = << >>
      /\ \A q \in DOMAIN net : q # InitializationPort /\ q # a => net'[q] = net[q]
      /\ net'[InitializationPort] = Taken(InitializationPort, 1)[InitializationPort]
      /\ Grown(net'[a], net[a], [src |-> m, body |-> ProcessServerInitialized])
  <2> DEFINE rest == Taken(InitializationPort, 1)
  <2>1. /\ DOMAIN rest = DOMAIN net /\ rest[a] = net[a]
        /\ \A q \in DOMAIN net : q # InitializationPort => rest[q] = net[q]
    BY <1>5, TakenElsewhere DEF Taken
  <2> HIDE DEF rest
  <2>2. net' = Sent(Bind(rest, m), m, a, ProcessServerInitialized)
    BY <1>1 DEF rest
  <2>3. /\ \A q \in DOMAIN net : Bind(rest, m)[q] = rest[q]
        /\ Bind(rest, m)[m] = << >> /\ m \in DOMAIN Bind(rest, m)
        /\ \A q \in DOMAIN net : q \in DOMAIN Bind(rest, m)
    BY <1>5, <2>1 DEF Bind
  <2>4. \A q \in DOMAIN Bind(rest, m) : q # a => net'[q] = Bind(rest, m)[q]
    BY <2>2, SentElsewhere
  <2>5. net[a] \in Seq(Expected(a))
    BY <1>5, InboxTyped
  <2>6. Grown(net'[a], net[a], [src |-> m, body |-> ProcessServerInitialized])
    BY <1>5, <2>1, <2>2, <2>3, <2>5, SentThere
  <2>7. m # a
    BY <1>5
  <2> QED BY <1>5, <2>1, <2>3, <2>4, <2>6, <2>7 DEF rest
<1>8. \A s : ServerRunning(s)' = ServerRunning(s)
  BY <1>2 DEF ServerRunning
<1>9. /\ \A l \in ServerIds, s \in ServerProcs : KnownAs(l, s)' <=> KnownAs(l, s)
      /\ \A s \in ServerProcs : KnownAs(k, s)' <=> s = s0
  <2>1. \A s \in ServerProcs : ServerRunning(s) /\ serverPort[s] = a => s = s0
    BY <1>3, TalkSockets
  <2> QED BY <1>2, <1>3, <1>6, <1>8, <2>1 DEF KnownAs
<1>10. \A p : Unknown(p)' <=> Unknown(p) /\ p # a
  BY <1>6 DEF Unknown
<1>11. ServersUp'
  BY <1>2 DEF ServersUp
<1>12. Announced'
  <2>1. PICK N, M : N = net[InitializationPort] /\ M = net'[InitializationPort]
    OBVIOUS
  <2>2. \A j \in 1..Len(M) : M[j] = N[j + 1] /\ j + 1 \in 1..Len(N) /\ j + 1 # 1
    <3>1. N \in Seq(Expected(InitializationPort)) /\ M = RemoveAt(N, 1) /\ 1 \in 1..Len(N)
      BY <1>5, <1>7, <2>1, InboxTyped, TakenThere DEF Inbox
    <3>2. /\ Len(M) = Len(N) - 1 /\ Len(N) \in Nat
          /\ \A j \in 1..(Len(N) - 1) : M[j] = N[j + 1] /\ j + 1 \in 1..Len(N)
      BY <3>1, FirstRemoved, LenProperties
    <3> QED BY <3>2
  <2>3. /\ \A i \in 1..Len(N) : /\ Unknown(N[i].src)
                                /\ \E s \in ServerProcs : ServerRunning(s) /\ serverPort[s] = N[i].src
        /\ \A i, j \in 1..Len(N) : N[i].src = N[j].src => i = j
        /\ 1 \in 1..Len(N) /\ N[1].src = a
    BY <2>1 DEF Announced, Inbox
  <2>4. ASSUME NEW j \in 1..Len(M)
        PROVE  /\ Unknown(M[j].src)'
               /\ \E s \in ServerProcs : ServerRunning(s)' /\ serverPort'[s] = M[j].src
    <3>1. PICK b : b = M[j].src /\ b = N[j + 1].src
      BY <2>2
    <3>2. Unknown(b) /\ b # a /\ \E s \in ServerProcs : ServerRunning(s) /\ serverPort[s] = b
      BY <2>2, <2>3, <3>1
    <3>3. Unknown(b)'
      BY <1>10, <3>2
    <3> QED BY <1>2, <1>8, <3>1, <3>2, <3>3
  <2>5. \A i, j \in 1..Len(M) : i + 1 = j + 1 => i = j
    OBVIOUS
  <2>6. ASSUME NEW i \in 1..Len(M), NEW j \in 1..Len(M), M[i].src = M[j].src PROVE i = j
    <3>1. /\ i + 1 \in 1..Len(N) /\ j + 1 \in 1..Len(N)
          /\ N[i + 1].src = M[i].src /\ N[j + 1].src = M[j].src
      BY <2>2
    <3>2. i + 1 = j + 1
      BY <2>3, <2>6, <3>1
    <3> QED BY <2>5, <3>2
  <2>7. \A l \in ServerIds \cup {k} : \E s \in ServerProcs : KnownAs(l, s)'
    BY <1>9 DEF Announced
  <2>8. \A l, n \in ServerIds \cup {k} : serverEndPoint'[l] = serverEndPoint'[n] => l = n
    <3>1. PICK E, F : E = serverEndPoint /\ F = serverEndPoint'
      OBVIOUS
    <3>2. \A l, n \in ServerIds : E[l] = E[n] => l = n
      BY <3>1 DEF Announced
    <3>3. \A l \in ServerIds : E[l] # a /\ F[l] = E[l]
      BY <1>4, <1>6, <3>1 DEF Unknown
    <3>4. F[k] = a
      BY <1>6, <3>1
    <3>5. \A l, n \in ServerIds \cup {k} : F[l] = F[n] => l = n
      BY <3>2, <3>3, <3>4
    <3> QED BY <3>1, <3>5
  <2>9. ASSUME NEW s \in ServerProcs, ServerRunning(s)', Unknown(serverPort[s])'
        PROVE  serverPc'[s] = "handshake" /\ Inbox(serverPort[s])' = {}
    <3>1. PICK p : p = serverPort[s] /\ p = serverPort'[s]
      BY <1>2
    <3>2. ServerRunning(s) /\ Unknown(p)'
      BY <1>8, <2>9, <3>1 DEF Unknown
    <3>3. ServerRunning(s) /\ Unknown(p) /\ p # a
      BY <1>10, <3>2
    <3>4. serverPc[s] = "handshake" /\ Inbox(p) = {} /\ p \in DOMAIN net /\ p # InitializationPort
      BY <3>1, <3>3, TalkSockets DEF Announced
    <3> QED BY <1>2, <1>7, <3>1, <3>3, <3>4 DEF Inbox
  <2>10. /\ \A i \in Inbox(InitializationPort)' :
              /\ Unknown(net[InitializationPort][i].src)'
              /\ \E s \in ServerProcs :
                   ServerRunning(s)' /\ serverPort'[s] = net'[InitializationPort][i].src
         /\ \A i, j \in Inbox(InitializationPort)' :
              net'[InitializationPort][i].src = net'[InitializationPort][j].src => i = j
    BY <2>1, <2>4, <2>6 DEF Inbox
  <2> QED BY <1>6, <2>7, <2>8, <2>9, <2>10 DEF Announced
<1>13. ASSUME NEW l \in ServerIds \cup {k}, NEW s \in ServerProcs, KnownAs(l, s)'
       PROVE  Asking(l, s)' /\ Answering(l, s)'
  <2>1. CASE l = k
    <3>1. s = s0 /\ ManagerPort(k)' = m /\ serverPort'[s0] = a /\ serverPc'[s0] = "handshake"
      BY <1>1, <1>2, <1>3, <1>5, <1>9, <1>13, <2>1 DEF ManagerPort
    <3>2. Inbox(m)' = {}
      BY <1>7 DEF Inbox
    <3>3. PICK M : M = net'[a]
      OBVIOUS
    <3>4. 1..Len(M) = {1} /\ M[1].src = m /\ M[1].body = ProcessServerInitialized
      BY <1>5, <1>7, <3>3 DEF Grown, Inbox
    <3>5. Asking(k, s0)'
      BY <3>1, <3>3, <3>4 DEF Asking, Inbox
    <3>6. Answering(k, s0)'
      BY <3>1, <3>2 DEF Answering
    <3> QED BY <2>1, <3>1, <3>5, <3>6
  <2>2. CASE l \in ServerIds
    <3>1. KnownAs(l, s) /\ serverPort[s] # a
      BY <1>4, <1>9, <1>13, <2>2 DEF KnownAs, Unknown
    <3>2. /\ net'[serverPort[s]] = net[serverPort[s]]
          /\ net'[ManagerPort(l)] = net[ManagerPort(l)]
      <4>1. /\ serverPort[s] \in DOMAIN net /\ serverPort[s] # InitializationPort
            /\ ManagerPort(l) \in DOMAIN net /\ ManagerPort(l) # InitializationPort
            /\ ManagerPort(l) # a
        BY <1>3, <2>2, <3>1, TalkSockets DEF KnownAs
      <4> QED BY <1>7, <3>1, <4>1
    <3>3. Asking(l, s) /\ Answering(l, s)
      BY <2>2, <3>1 DEF Conversations
    <3>4. \A e : Sender(l, e) => Sender(l, e)'
      BY SenderSteady
    <3> QED BY <1>2, <3>2, <3>3, <3>4, FewerSame, ConversationKept
  <2> QED BY <2>1, <2>2
<1> QED BY <1>6, <1>11, <1>12, <1>13 DEF Conversations

LEMMA InitializeTalks ==
  ASSUME PlaceInv, ServersUp, Announced, Conversations, LossAndKills,
         InitializeServer, UNCHANGED serverVars
  PROVE  ServersUp' /\ Announced' /\ Conversations'
<1>1. UNCHANGED workers
  BY DEF InitializeServer
<1>2. PICK i \in Arrivals(InitializationPort) :
        LET k      == Len(serverEndPoint) + 1
            sender == net[InitializationPort][i].src
            rest   == Taken(InitializationPort, i)
        IN  IF Free(ManagerPort(k))
              THEN /\ serverEndPoint' = Append(serverEndPoint, sender)
                   /\ net' = Sent(Bind(rest, ManagerPort(k)), ManagerPort(k),
                                  sender, ProcessServerInitialized)
              ELSE net' = rest /\ UNCHANGED serverEndPoint
  BY DEF InitializeServer
<1>3. i = 1 /\ 1 \in Inbox(InitializationPort)
  BY FirstArrives
<1>4. PICK k : k = Len(serverEndPoint) + 1
  OBVIOUS
<1>5. PICK a : a = net[InitializationPort][1].src
  OBVIOUS
<1>6. CASE Free(ManagerPort(k))
  <2>1. /\ serverEndPoint' = Append(serverEndPoint, a)
        /\ net' = Sent(Bind(Taken(InitializationPort, 1), ManagerPort(k)), ManagerPort(k),
                       a, ProcessServerInitialized)
    BY <1>2, <1>3, <1>4, <1>5, <1>6
  <2> QED BY <1>1, <1>3, <1>4, <1>5, <1>6, <2>1, ObjectTalks
<1>7. CASE ~Free(ManagerPort(k))
  <2>1. net' = Taken(InitializationPort, 1) /\ UNCHANGED serverEndPoint
    BY <1>2, <1>3, <1>4, <1>7
  <2>2. InitializationPort \in DOMAIN net
    BY TalkSockets
  <2>3. TalkLost
    BY <1>3, <2>1, <2>2, FirstTaken, TakenElsewhere, FewerSame DEF TalkLost
  <2> QED BY <1>1, <2>1, <2>3, SenderSteady, TalkKept
<1> QED BY <1>6, <1>7

\* No worker waits for server k while another one has it.
LEMMA NoOtherSender ==
  ASSUME PlaceInv, ServerExclusive, NEW t \in WorkerIds, HasServer(t)
  PROVE  \A e : Sender(workers[t].server, e) =>
           workers[t].pc = "reply" /\ workers[t].process = e
BY DEF ServerExclusive, Sender, HasServer

LEMMA SendTalks ==
  ASSUME PlaceInv, ServerExclusive, ServersUp, Announced, Conversations,
         UNCHANGED serverVars, NEW t \in WorkerIds, SendCommand(t)
  PROVE  ServersUp' /\ Announced' /\ Conversations'
<1>1. PICK k, e : k = workers[t].server /\ e = workers[t].process
  OBVIOUS
<1>2. k \in ServerIds /\ e \in Commands
  BY <1>1, WorkerFinds
<1>3. PICK s \in ServerProcs : KnownAs(k, s)
  BY <1>2 DEF Announced
<1>4. PICK p, q : p = serverPort[s] /\ q = ManagerPort(k)
  OBVIOUS
<1>5. WorkerGoto(t, "send", "reply") /\ net' = Sent(net, q, p, e) /\ UNCHANGED serverEndPoint
  BY <1>1, <1>3, <1>4 DEF SendCommand, KnownAs
<1>6. workers[t].pc = "send" /\ Moved(t, "reply") /\ workers'[t].process = e
  BY <1>1, <1>5, Goes, KeepsTask
<1>7. \A b : ~Sender(k, b)
  BY <1>1, <1>6, NoOtherSender DEF HasServer
<1>8. Sender(k, e)' /\ \A l, b : Sender(l, b) => Sender(l, b)'
  <2>1. t \in WorkerIds' /\ workers'[t].server = k /\ workers'[t].pc = "reply"
    BY <1>1, <1>6 DEF Moved
  <2>2. Sender(k, e)'
    BY <1>6, <2>1 DEF Sender
  <2> QED BY <1>6, <2>2, SenderKept
<1>9. UNCHANGED <<serverPc, serverTimer, serverPort, job>>
  BY DEF serverVars
<1>10. /\ p \in DOMAIN net /\ q \in DOMAIN net /\ p # q
       /\ p # InitializationPort /\ InitializationPort \in DOMAIN net
  BY <1>2, <1>3, <1>4, TalkSockets DEF KnownAs
<1>11. /\ \A m \in DOMAIN net : m # p => net'[m] = net[m]
       /\ Grown(net'[p], net[p], [src |-> q, body |-> e])
  BY <1>5, <1>10, InboxTyped, SentElsewhere, SentThere
<1>12. Asking(k, s) /\ Answering(k, s)
  BY <1>2, <1>3 DEF Conversations
<1>13. Inbox(q) = {} /\ serverPc[s] # "run"
  BY <1>4, <1>7, <1>12 DEF Answering
<1>14. \A i \in Inbox(p) : /\ net[p][i].src = q /\ net[p][i].body = ProcessServerInitialized
                           /\ i = 1 /\ serverPc[s] = "handshake"
  BY <1>4, <1>7, <1>12 DEF Asking
<1>15. serverPort'[s] = p /\ ManagerPort(k)' = q /\ serverPc'[s] = serverPc[s]
       /\ Inbox(q)' = {}
  BY <1>4, <1>9, <1>10, <1>11, <1>13 DEF ManagerPort, Inbox
<1>16. Asking(k, s)'
  <2>1. PICK N, M : N = net[p] /\ M = net'[p]
    OBVIOUS
  <2>2. PICK last : /\ 1..Len(M) = 1..Len(N) \cup {last}
                    /\ M[last].src = q /\ M[last].body = e
                    /\ \A i \in 1..Len(N) : M[i] = N[i]
    BY <1>11, <2>1 DEF Grown
  <2>3. \A i \in 1..Len(N) : /\ M[i].src = q /\ M[i].body = ProcessServerInitialized
                             /\ i = 1 /\ serverPc'[s] = "handshake"
    BY <1>14, <1>15, <2>1, <2>2 DEF Inbox
  <2>4. ASSUME NEW i \in 1..Len(M)
        PROVE  /\ M[i].src = q
               /\ \/ /\ M[i].body = ProcessServerInitialized
                     /\ i = 1 /\ serverPc'[s] = "handshake"
                  \/ Sender(k, M[i].body)' /\ serverPc'[s] # "run" /\ Inbox(q)' = {}
    <3>1. CASE i \in 1..Len(N)
      BY <2>3, <3>1
    <3>2. CASE i = last
      <4>1. PICK b : b = M[i].body /\ b = e
        BY <2>2, <3>2
      <4>2. Sender(k, b)'
        BY <1>8, <4>1
      <4> QED BY <1>13, <1>15, <2>2, <3>2, <4>1, <4>2
    <3> QED BY <2>2, <3>1, <3>2
  <2>5. \A i, j \in 1..Len(M) :
          (M[i].body # ProcessServerInitialized /\ M[j].body # ProcessServerInitialized) => i = j
    BY <2>2, <2>3
  <2> QED BY <1>15, <2>1, <2>4, <2>5 DEF Asking, Inbox
<1>17. Answering(k, s)'
  BY <1>13, <1>15 DEF Answering
<1>18. ServersUp' /\ Announced'
  <2>1. \A r \in ServerProcs : (ServerRunning(r) /\ Unknown(serverPort[r])) =>
          serverPort[r] \in DOMAIN net /\ serverPort[r] # p
    BY <1>2, <1>3, <1>4, TalkSockets DEF KnownAs, Unknown
  <2> QED BY <1>5, <1>9, <1>10, <1>11, <2>1, FewerSame, AnnouncedKept DEF ServersUp
<1>19. ServerIds' = ServerIds /\ \A l, r : KnownAs(l, r)' = KnownAs(l, r)
  BY <1>5, <1>9 DEF ServerIds, KnownAs, ServerRunning
<1>20. ASSUME NEW l \in ServerIds, NEW r \in ServerProcs, KnownAs(l, r)'
       PROVE  Asking(l, r)' /\ Answering(l, r)'
  <2>1. KnownAs(l, r)
    BY <1>19, <1>20
  <2>2. CASE r = s
    <3>1. l = k
      BY <1>2, <1>3, <2>1, <2>2, KnownOnce
    <3> QED BY <1>16, <1>17, <2>2, <3>1
  <2>3. CASE r # s
    <3>1. /\ net'[serverPort[r]] = net[serverPort[r]]
          /\ net'[ManagerPort(l)] = net[ManagerPort(l)]
      <4>1. /\ serverPort[r] \in DOMAIN net /\ serverPort[r] # p
            /\ ManagerPort(l) \in DOMAIN net /\ ManagerPort(l) # p
        BY <1>3, <1>4, <2>1, <2>3, TalkSockets DEF KnownAs
      <4> QED BY <1>11, <4>1
    <3>2. Asking(l, r) /\ Answering(l, r)
      BY <2>1 DEF Conversations
    <3>3. \A b : Sender(l, b) => Sender(l, b)'
      BY <1>8
    <3> QED BY <1>9, <3>1, <3>2, <3>3, FewerSame, ConversationKept
  <2> QED BY <2>2, <2>3
<1> QED BY <1>18, <1>19, <1>20 DEF Conversations

LEMMA RepliedTask ==
  ASSUME PlaceInv, NEW t \in WorkerIds, NEW b,
         workers' = [workers EXCEPT ![t].pc = "lock", ![t].exeResult = b]
  PROVE  workers'[t].process = workers[t].process /\ workers'[t].exeResult = b
<1> DEFINE w == [workers[t] EXCEPT !.pc = "lock", !.exeResult = b]
<1>1. workers \in Seq(WorkerRecords) /\ t \in DOMAIN workers /\ workers[t] \in WorkerRecords
  BY WorkersAre
<1>2. workers' = [workers EXCEPT ![t] = w]
  BY <1>1
<1>3. w.process = workers[t].process /\ w.exeResult = b
  BY <1>1 DEF WorkerRecords
<1> HIDE DEF w
<1> QED BY <1>2, <1>3, OneChanged

\* What the worker of an object finds in its inbox is the output of its
\* command, from the process server that it sent it to.
LEMMA ReceiveTalks ==
  ASSUME PlaceInv, ServerExclusive, TalkInv, LossAndKills,
         UNCHANGED serverVars, NEW t \in WorkerIds, ReceiveReply(t)
  PROVE  TalkInv' /\ UNCHANGED serverEndPoint
<1>1. PICK k : k = workers[t].server
  OBVIOUS
<1>2. k \in ServerIds /\ serverEndPoint \in Seq(ServerZone)
  BY <1>1, WorkerFinds DEF PlaceInv, ManagerInv, ObjectsOK
<1>3. ServersUp /\ Announced /\ Conversations /\ RepliesMatch
  BY DEF TalkInv
<1>4. PICK s \in ServerProcs : KnownAs(k, s)
  BY <1>2, <1>3 DEF Announced
<1>5. PICK p, q : p = serverPort[s] /\ q = ManagerPort(k)
  OBVIOUS
<1>6. /\ p \in DOMAIN net /\ q \in DOMAIN net /\ p # q
      /\ q # InitializationPort /\ InitializationPort \in DOMAIN net
  BY <1>2, <1>4, <1>5, TalkSockets DEF KnownAs
<1>7. PICK i \in Arrivals(q) :
        /\ workers' = [workers EXCEPT ![t].pc = "lock", ![t].exeResult = net[q][i].body]
        /\ serverEndPoint' = [serverEndPoint EXCEPT ![k] = net[q][i].src]
        /\ net' = Taken(q, i)
  BY <1>1, <1>5 DEF ReceiveReply
<1>8. i = 1 /\ 1 \in Inbox(q)
  BY FirstArrives
<1>9. Asking(k, s) /\ Answering(k, s)
  BY <1>2, <1>3, <1>4 DEF Conversations
<1>10. PICK e \in Commands : /\ net[q][1].src = p
                             /\ Sender(k, e) /\ net[q][1].body = Output(e)
  BY <1>5, <1>8, <1>9 DEF Answering
<1>11. Inbox(q) = {1} /\ serverPc[s] # "run"
  BY <1>5, <1>8, <1>9 DEF Answering
<1>12. \A j \in Inbox(p) : /\ net[p][j].src = q /\ net[p][j].body = ProcessServerInitialized
                           /\ j = 1 /\ serverPc[s] = "handshake"
  BY <1>5, <1>9, <1>11 DEF Asking
<1>13. UNCHANGED serverEndPoint
  <2>1. net[q][i].src = serverEndPoint[k]
    BY <1>4, <1>5, <1>8, <1>10 DEF KnownAs
  <2> QED BY <1>2, <1>7, <2>1
<1>14. /\ workers[t].pc = "reply" /\ Moved(t, "lock")
       /\ workers'[t].process = workers[t].process
       /\ workers'[t].exeResult = net[q][1].body
  BY <1>7, <1>8, RepliedMoves, RepliedTask
<1>15. workers[t].process = e
  BY <1>1, <1>10, <1>14, NoOtherSender DEF HasServer
<1>16. RepliesMatch'
  <2>1. workers'[t].exeResult = Output(workers'[t].process)
    BY <1>10, <1>14, <1>15
  <2>2. \A u \in WorkerIds : u # t => workers'[u] = workers[u]
    BY <1>14 DEF Moved
  <2>3. WorkerIds' = WorkerIds
    BY <1>14 DEF Moved
  <2> QED BY <1>3, <2>1, <2>2, <2>3 DEF RepliesMatch
<1>17. \A l, b : l # k /\ Sender(l, b) => Sender(l, b)'
  BY <1>1, <1>14 DEF Sender, Moved
<1>18. /\ Fewer(net'[q], net[q]) /\ 1..Len(net'[q]) = {}
       /\ \A m \in DOMAIN net : m # q => net'[m] = net[m]
  BY <1>6, <1>7, <1>8, <1>11, FirstTaken, TakenElsewhere
<1>19. UNCHANGED <<serverPc, serverTimer, serverPort, job>>
  BY DEF serverVars
<1>20. ServersUp' /\ Announced'
  <2>1. /\ Fewer(net'[InitializationPort], net[InitializationPort])
        /\ \A r \in ServerProcs : ServerRunning(r) => Fewer(net'[serverPort[r]], net[serverPort[r]])
    <3>1. \A r \in ServerProcs : ServerRunning(r) => serverPort[r] \in DOMAIN net
      BY TalkSockets
    <3> QED BY <1>6, <1>18, <3>1, FewerSame
  <2> QED BY <1>3, <1>13, <1>19, <2>1, AnnouncedKept DEF ServersUp
<1>21. serverPort'[s] = p /\ ManagerPort(k)' = q /\ serverPc'[s] = serverPc[s]
  BY <1>5, <1>19 DEF ManagerPort
<1>22. Asking(k, s)'
  <2>1. PICK N : N = net[p] /\ N = net'[p]
    BY <1>6, <1>18
  <2>2. \A j \in 1..Len(N) : /\ N[j].src = q /\ N[j].body = ProcessServerInitialized
                             /\ j = 1 /\ serverPc'[s] = "handshake"
    BY <1>12, <1>21, <2>1 DEF Inbox
  <2> QED BY <1>21, <2>1, <2>2 DEF Asking, Inbox
<1>23. Answering(k, s)'
  BY <1>11, <1>18, <1>21 DEF Answering, Inbox
<1>24. ServerIds' = ServerIds /\ \A l, r : KnownAs(l, r)' = KnownAs(l, r)
  BY <1>13, <1>19 DEF ServerIds, KnownAs, ServerRunning
<1>25. ASSUME NEW l \in ServerIds, NEW r \in ServerProcs, KnownAs(l, r)'
       PROVE  Asking(l, r)' /\ Answering(l, r)'
  <2>1. KnownAs(l, r)
    BY <1>24, <1>25
  <2>2. CASE l = k
    <3>1. r = s
      BY <1>2, <1>3, <1>4, <2>1, <2>2, KnownOnce
    <3> QED BY <1>22, <1>23, <2>2, <3>1
  <2>3. CASE l # k
    <3>1. /\ net'[serverPort[r]] = net[serverPort[r]]
          /\ net'[ManagerPort(l)] = net[ManagerPort(l)]
      <4>1. /\ serverPort[r] \in DOMAIN net /\ serverPort[r] # q
            /\ ManagerPort(l) \in DOMAIN net /\ ManagerPort(l) # q
        BY <1>2, <1>5, <2>1, <2>3, TalkSockets DEF KnownAs
      <4> QED BY <1>18, <4>1
    <3>2. Asking(l, r) /\ Answering(l, r)
      BY <1>3, <2>1 DEF Conversations
    <3>3. \A b : Sender(l, b) => Sender(l, b)'
      BY <1>17, <2>3
    <3> QED BY <1>19, <3>1, <3>2, <3>3, FewerSame, ConversationKept
  <2> QED BY <2>2, <2>3
<1>26. Conversations'
  BY <1>24, <1>25 DEF Conversations
<1> QED BY <1>13, <1>16, <1>20, <1>26 DEF TalkInv

-----------------------------------------------------------------------------
(* The other steps, and the theorem.                                       *)

LEMMA TalkUndisturbed ==
  ASSUME PlaceInv, TalkInv, UNCHANGED <<serverEndPoint, serverVars>>, TalkLost,
         \A k, e : Sender(k, e) => Sender(k, e)', RepliesMatch'
  PROVE  TalkInv'
BY TalkKept DEF TalkInv

LEMMA MainTalks ==
  ASSUME PlaceInv, TalkInv, UNCHANGED serverVars, MainNext
  PROVE  TalkInv' /\ UNCHANGED serverEndPoint
<1>1. UNCHANGED <<net, serverEndPoint>>
  BY DEF MainNext, GetClient, PopProcess, LeaveClient, ReadDeletedClient, Dispatch, netVars
<1>2. RepliesMatch
  BY DEF TalkInv
<1>3. RepliesMatch' /\ \A k, e : Sender(k, e) => Sender(k, e)'
  <2>1. CASE Dispatch
    BY <1>2, <2>1, RepliesDispatched
  <2>2. CASE ~Dispatch
    <3>1. UNCHANGED workers
      BY <2>2 DEF MainNext, GetClient, PopProcess, LeaveClient, ReadDeletedClient
    <3> QED BY <1>2, <3>1, RepliesSame
  <2> QED BY <2>1, <2>2
<1>4. TalkSame
  BY <1>1 DEF TalkSame
<1> QED BY <1>1, <1>3, <1>4, SameIsLost, TalkUndisturbed

\* The steps of a worker between its reply and its end.
LEMMA LaterTalks ==
  ASSUME PlaceInv, TalkInv, UNCHANGED serverVars, NEW t \in WorkerIds,
         SendResult(t) \/ ReceiveAck(t) \/ DeleteClient(t) \/ ReturnServer(t)
  PROVE  TalkInv' /\ UNCHANGED serverEndPoint
<1>1. UNCHANGED serverEndPoint
  BY DEF SendResult, ReceiveAck, DeleteClient, ReturnServer
<1>2. TalkSame
  <2>1. CASE DeleteClient(t) \/ ReturnServer(t)
    <3>1. UNCHANGED net
      BY <2>1 DEF DeleteClient, ReturnServer, netVars
    <3> QED BY <3>1 DEF TalkSame
  <2> QED BY <2>1, SendResultElsewhere, ReceiveAckElsewhere
<1>3. PICK from, to : /\ WorkerGoto(t, from, to)
                      /\ from \in {"lock", "ack", "delete", "return"}
  BY DEF SendResult, ReceiveAck, DeleteClient, ReturnServer, WorkerGoto
<1>4. /\ workers[t].pc = from /\ Moved(t, to)
      /\ workers'[t].process = workers[t].process
      /\ workers'[t].exeResult = workers[t].exeResult
  BY <1>3, Goes, KeepsTask
<1>5. RepliesMatch' /\ \A k, e : Sender(k, e) => Sender(k, e)'
  BY <1>3, <1>4, RepliesKept, SenderKept DEF TalkInv
<1> QED BY <1>1, <1>2, <1>5, SameIsLost, TalkUndisturbed

\* A step of the manager, and what it does to the server objects there are.
LEMMA ManagerTalks ==
  ASSUME PlaceInv, ServerExclusive, TalkInv, LossAndKills,
         UNCHANGED serverVars, ManagerNext
  PROVE  TalkInv' /\ \A k \in ServerIds : serverEndPoint'[k] = serverEndPoint[k]
<1>1. CASE InitializeServer
  <2>1. UNCHANGED workers
    BY <1>1 DEF InitializeServer
  <2>2. RepliesMatch'
    BY <2>1, RepliesSame DEF TalkInv
  <2>3. \A k \in ServerIds : serverEndPoint'[k] = serverEndPoint[k]
    <3>1. PICK a : serverEndPoint' = serverEndPoint \/ serverEndPoint' = Append(serverEndPoint, a)
      BY <1>1 DEF InitializeServer
    <3>2. serverEndPoint \in Seq(ServerZone)
      BY DEF PlaceInv, ManagerInv, ObjectsOK
    <3>3. serverEndPoint \in Seq(ServerZone \cup {a})
      BY <3>2, SeqWithin
    <3> QED BY <3>1, <3>3, AppendProperties DEF ServerIds
  <2> QED BY <1>1, <2>2, <2>3, InitializeTalks DEF TalkInv
<1>2. CASE AcceptClient
  <2>1. UNCHANGED <<serverEndPoint, workers>>
    BY <1>2 DEF AcceptClient
  <2>2. RepliesMatch' /\ \A k, e : Sender(k, e) => Sender(k, e)'
    BY <2>1, RepliesSame DEF TalkInv
  <2> QED BY <1>2, <2>1, <2>2, AcceptElsewhere, SameIsLost, TalkUndisturbed
<1>3. CASE MainNext
  BY <1>3, MainTalks
<1>4. ASSUME NEW t \in WorkerIds, SendCommand(t)
      PROVE  TalkInv' /\ UNCHANGED serverEndPoint
  <2>1. workers[t].pc = "send" /\ Moved(t, "reply") /\ UNCHANGED serverEndPoint
        /\ workers'[t].process = workers[t].process
        /\ workers'[t].exeResult = workers[t].exeResult
    BY <1>4, Goes, KeepsTask DEF SendCommand
  <2>2. RepliesMatch'
    BY <2>1, RepliesKept DEF TalkInv
  <2> QED BY <1>4, <2>1, <2>2, SendTalks DEF TalkInv
<1>5. ASSUME NEW t \in WorkerIds, WorkerNext(t)
      PROVE  TalkInv' /\ UNCHANGED serverEndPoint
  BY <1>4, <1>5, ReceiveTalks, LaterTalks DEF WorkerNext
<1> QED BY <1>1, <1>2, <1>3, <1>5 DEF ManagerNext

LEMMA TalkNext ==
  ASSUME PlaceInv, WorkInv, TalkInv, LossAndKills, [Next]_vars
  PROVE  TalkInv' /\ \A k \in ServerIds : serverEndPoint'[k] = serverEndPoint[k]
<1>1. ServerExclusive
  BY DEF WorkInv
<1>2. CASE ManagerStep(ManagerNext)
  BY <1>1, <1>2, ManagerTalks DEF ManagerStep
<1>3. CASE UNCHANGED managerVars
  <2>1. UNCHANGED <<serverEndPoint, workers>>
    BY <1>3 DEF managerVars
  <2>2. RepliesMatch' /\ \A k, e : Sender(k, e) => Sender(k, e)'
    BY <2>1, RepliesSame DEF TalkInv
  <2>3. ASSUME NEW c \in ClientProcs, ClientStep(ClientNext(c)) PROVE TalkInv'
    <3>1. ClientNext(c) /\ UNCHANGED serverVars
      BY <2>3 DEF ClientStep
    <3> QED BY <2>1, <2>2, <3>1, ClientElsewhere, SameIsLost, TalkUndisturbed
  <2>4. ASSUME NEW s \in ServerProcs, ServerStep(ServerNext(s)) PROVE TalkInv'
    BY <1>3, <2>2, <2>4, ServerTalks DEF ServerStep, TalkInv
  <2>5. CASE NetworkStep(NetworkNext)
    <3>1. Lose /\ UNCHANGED serverVars
      BY <2>5 DEF NetworkStep, NetworkNext, Duplicate, LossAndKills
    <3> QED BY <2>1, <2>2, <3>1, LostElsewhere, TalkUndisturbed
  <2>6. CASE UNCHANGED vars
    <3>1. UNCHANGED <<net, serverVars>>
      BY <2>6 DEF vars, netVars
    <3>2. TalkSame
      BY <3>1 DEF TalkSame
    <3> QED BY <2>1, <2>2, <3>1, <3>2, SameIsLost, TalkUndisturbed
  <2>7. TalkInv'
    BY <2>3, <2>4, <2>5, <2>6, <1>2, <1>1, ManagerTalks DEF Next, ManagerStep
  <2> QED BY <2>1, <2>7
<1> QED BY <1>2, <1>3 DEF Next, ClientStep, ServerStep, NetworkStep, vars

LEMMA TalkInit == Init => TalkInv
<1> SUFFICES ASSUME Init PROVE TalkInv
  OBVIOUS
<1>1. ServerIds = {} /\ WorkerIds = {}
  BY DEF Init, ManagerInit, ServerIds, WorkerIds
<1>2. net[InitializationPort] = << >>
  BY DEF Init, NetworkInit
<1>3. \A s \in ServerProcs : serverPc[s] = "off" /\ serverTimer[s] = "off"
  BY DEF Init, ServerInit
<1>4. ServersUp /\ RepliesMatch /\ Conversations
  BY <1>1, <1>3 DEF ServersUp, RepliesMatch, Conversations
<1>5. Announced
  <2>1. Inbox(InitializationPort) = {}
    BY <1>2 DEF Inbox
  <2> QED BY <1>1, <1>3, <2>1 DEF Announced, ServerRunning
<1> QED BY <1>4, <1>5 DEF TalkInv

\* The inductive invariant of the conversations: who knows whom, and the one
\* trace that each command has left.
THEOREM TalkInvariant == ASSUME LossAndKills PROVE SafetySpec => []TalkInv
<1>1. Init => TalkInv
  BY TalkInit
<1>2. PlaceInv /\ WorkInv /\ TalkInv /\ [Next]_vars => TalkInv'
  BY TalkNext
<1> QED BY <1>1, <1>2, PlaceInvariant, WorkInvariant, PTL DEF SafetySpec

\* receiveMessage gives each worker the output of the command that it sent,
\* for any number of clients, commands and process servers, although it takes
\* whatever comes next, and although datagrams are lost and clients killed.
THEOREM AlwaysRepliesMatch == ASSUME LossAndKills PROVE SafetySpec => []RepliesMatch
<1>1. TalkInv => RepliesMatch
  BY DEF TalkInv
<1> QED BY <1>1, TalkInvariant, PTL

\* receive_from overwrites serverEndPoint with the source of what it took, and
\* that never redirects a server object to another process.
THEOREM AlwaysSameServers ==
  ASSUME LossAndKills
  PROVE  SafetySpec => [][\A k \in ServerIds : serverEndPoint'[k] = serverEndPoint[k]]_vars
<1>1. PlaceInv /\ WorkInv /\ TalkInv /\ [Next]_vars =>
        [\A k \in ServerIds : serverEndPoint'[k] = serverEndPoint[k]]_vars
  BY TalkNext
<1> QED BY <1>1, TalkInvariant, PlaceInvariant, WorkInvariant, PTL DEF SafetySpec

==============================================================================
