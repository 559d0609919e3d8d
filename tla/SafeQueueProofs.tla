--------------------------- MODULE SafeQueueProofs ---------------------------
(***************************************************************************)
(* What SafeQueue guarantees for any number of producers and objects.      *)
(***************************************************************************)
EXTENDS SafeQueue, TLAPS

\* A thread is at a program point inside the lock scope iff it owns mtx.
MutexInv == \A t \in Threads : pc[t] \in Critical <=> mtx = t

\* Between the call of add and the push, the argument is a real object.
ArgumentInv == \A p \in Producers : pc[p] \in {"add", "push"} => obj[p] \in Items

\* Inductive with or without spurious wake-ups.
LockInv == TypeOK /\ ArgumentInv /\ MutexInv

\* Until a spurious wake-up, size() has not wrapped, and whoever was notified,
\* or is about to notify, left an element in the queue.
PresenceInv ==
  ~spurious =>
  /\ underflow = 0
  /\ \A c \in Consumers : pc[c] \in {"woken", "pop"} => queue # << >>
  /\ \A p \in Producers : pc[p] = "notify" => queue # << >>

QueueInv == LockInv /\ PresenceInv /\ NoLostWakeup

-----------------------------------------------------------------------------
LEMMA LockInit == Init => LockInv
<1> SUFFICES ASSUME Init PROVE LockInv
  OBVIOUS
<1>1. TypeOK
  <2>1. queue \in Seq(Items) /\ underflow \in Nat
    BY DEF Init
  <2>2. spurious \in BOOLEAN
    BY DEF Init
  <2>3. pc \in [Threads -> ProducerPcs \cup ConsumerPcs] /\ obj \in [Threads -> Items \cup {NoItem}]
    BY DEF Init, ProducerPcs, ConsumerPcs
  <2>4. \A t \in Threads : pc[t] \in ProducerPcs /\ pc[t] \in ConsumerPcs
    BY DEF Init, ProducerPcs, ConsumerPcs
  <2>5. mtx \in Threads \cup {NoThread}
    BY DEF Init
  <2> QED BY <2>1, <2>2, <2>3, <2>4, <2>5 DEF TypeOK, Threads
<1>2. ArgumentInv /\ MutexInv
  BY ThreadsAssumption DEF Init, ArgumentInv, MutexInv, Threads, Critical
<1> QED BY <1>1, <1>2 DEF LockInv

LEMMA LockStep == LockInv /\ [Next]_vars => LockInv'
<1> SUFFICES ASSUME LockInv, [Next]_vars PROVE LockInv'
  OBVIOUS
<1> USE ThreadsAssumption DEF LockInv, TypeOK, ArgumentInv, MutexInv, Threads,
    ProducerPcs, ConsumerPcs, Critical, Goto, Acquire
<1>1. ASSUME NEW p \in Producers, NEW i \in Items, Add(p, i) PROVE LockInv'
  BY <1>1 DEF Add
<1>2. ASSUME NEW p \in Producers, AddLock(p) PROVE LockInv'
  BY <1>2 DEF AddLock
<1>3. ASSUME NEW p \in Producers, Push(p) PROVE LockInv'
  BY <1>3 DEF Push
<1>4. ASSUME NEW p \in Producers, Notify(p) PROVE LockInv'
  <2>1. CASE pc' = [pc EXCEPT ![p] = "unlock"]
    BY <1>4, <2>1 DEF Notify
  <2>2. ASSUME NEW c \in Sleepers,
               pc' = [pc EXCEPT ![p] = "unlock", ![c] = "woken"]
        PROVE  LockInv'
    BY <1>4, <2>2 DEF Notify, Sleepers
  <2> QED BY <1>4, <2>1, <2>2 DEF Notify
<1>5. ASSUME NEW t \in Threads, Unlock(t) PROVE LockInv'
  BY <1>5 DEF Unlock
<1>6. ASSUME NEW c \in Consumers, Get(c) PROVE LockInv'
  BY <1>6 DEF Get
<1>7. ASSUME NEW c \in Consumers, GetLock(c) PROVE LockInv'
  BY <1>7 DEF GetLock
<1>8. ASSUME NEW c \in Consumers, Test(c) PROVE LockInv'
  BY <1>8 DEF Test
<1>9. ASSUME NEW c \in Consumers, SpuriousWakeup(c) PROVE LockInv'
  BY <1>9 DEF SpuriousWakeup
<1>10. ASSUME NEW c \in Consumers, Rewake(c) PROVE LockInv'
  BY <1>10 DEF Rewake
<1>11. ASSUME NEW c \in Consumers, Pop(c) PROVE LockInv'
  <2>1. CASE queue # << >>
    <3>1. queue' \in Seq(Items) /\ Head(queue) \in Items
      BY <1>11, <2>1 DEF Pop
    <3>2. TypeOK'
      BY <1>11, <2>1, <3>1 DEF Pop
    <3> QED BY <1>11, <2>1, <3>2 DEF Pop
  <2>2. CASE queue = << >>
    BY <1>11, <2>2 DEF Pop
  <2> QED BY <2>1, <2>2
<1>12. CASE UNCHANGED vars
  BY <1>12 DEF vars
<1> QED
  BY <1>1, <1>2, <1>3, <1>4, <1>5, <1>6, <1>7, <1>8, <1>9, <1>10, <1>11, <1>12
  DEF Next, ProducerNext, ConsumerNext

\* Every variable keeps its type, whatever wakes a sleeping get().
THEOREM SafeQueueTypeCorrect == SafetySpec => []TypeOK
<1>1. LockInv => TypeOK
  BY DEF LockInv
<1> QED BY <1>1, LockInit, LockStep, PTL DEF SafetySpec

\* Mutual exclusion: two threads are never inside the lock scope together.
THEOREM SafeQueueMutualExclusion ==
  SafetySpec => [](\A s, t \in Threads : pc[s] \in Critical /\ pc[t] \in Critical => s = t)
<1>1. LockInv => \A s, t \in Threads : pc[s] \in Critical /\ pc[t] \in Critical => s = t
  BY DEF LockInv, MutexInv
<1> QED BY <1>1, LockInit, LockStep, PTL DEF SafetySpec

-----------------------------------------------------------------------------
(* Notified, the one consumer never finds the queue empty: nobody else     *)
(* pops, so what was there at notify_one is there at front().              *)

LEMMA QueueInit == Init => QueueInv
<1> SUFFICES ASSUME Init PROVE QueueInv
  OBVIOUS
<1>1. LockInv
  BY LockInit
<1>2. PresenceInv /\ NoLostWakeup
  BY ThreadsAssumption DEF Init, PresenceInv, NoLostWakeup, Threads
<1> QED BY <1>1, <1>2 DEF QueueInv

LEMMA QueueStep == QueueInv /\ [Next]_vars => QueueInv'
<1> SUFFICES ASSUME QueueInv, [Next]_vars PROVE PresenceInv' /\ NoLostWakeup'
  BY LockStep DEF QueueInv
<1> USE ThreadsAssumption, SingleConsumer DEF QueueInv, PresenceInv, NoLostWakeup,
    LockInv, TypeOK, ArgumentInv, MutexInv, Threads, Sleepers, Critical, Goto, Acquire
<1>1. ASSUME NEW p \in Producers, NEW i \in Items, Add(p, i)
      PROVE  PresenceInv' /\ NoLostWakeup'
  BY <1>1 DEF Add
<1>2. ASSUME NEW p \in Producers, AddLock(p) PROVE PresenceInv' /\ NoLostWakeup'
  BY <1>2 DEF AddLock
<1>3. ASSUME NEW p \in Producers, Push(p) PROVE PresenceInv' /\ NoLostWakeup'
  BY <1>3 DEF Push
<1>4. ASSUME NEW p \in Producers, Notify(p) PROVE PresenceInv' /\ NoLostWakeup'
  <2>1. CASE Sleepers = {} /\ pc' = [pc EXCEPT ![p] = "unlock"]
    BY <1>4, <2>1 DEF Notify
  <2>2. ASSUME NEW c \in Sleepers,
               pc' = [pc EXCEPT ![p] = "unlock", ![c] = "woken"]
        PROVE  PresenceInv' /\ NoLostWakeup'
    BY <1>4, <2>2 DEF Notify
  <2> QED BY <1>4, <2>1, <2>2 DEF Notify
<1>5. ASSUME NEW t \in Threads, Unlock(t) PROVE PresenceInv' /\ NoLostWakeup'
  BY <1>5 DEF Unlock
<1>6. ASSUME NEW c \in Consumers, Get(c) PROVE PresenceInv' /\ NoLostWakeup'
  BY <1>6 DEF Get
<1>7. ASSUME NEW c \in Consumers, GetLock(c) PROVE PresenceInv' /\ NoLostWakeup'
  BY <1>7 DEF GetLock
<1>8. ASSUME NEW c \in Consumers, Test(c) PROVE PresenceInv' /\ NoLostWakeup'
  BY <1>8 DEF Test, Empty
<1>9. ASSUME NEW c \in Consumers, SpuriousWakeup(c) PROVE PresenceInv' /\ NoLostWakeup'
  BY <1>9 DEF SpuriousWakeup
<1>10. ASSUME NEW c \in Consumers, Rewake(c) PROVE PresenceInv' /\ NoLostWakeup'
  BY <1>10 DEF Rewake
<1>11. ASSUME NEW c \in Consumers, Pop(c) PROVE PresenceInv' /\ NoLostWakeup'
  BY <1>11 DEF Pop
<1>12. CASE UNCHANGED vars
  BY <1>12 DEF vars
<1> QED
  BY <1>1, <1>2, <1>3, <1>4, <1>5, <1>6, <1>7, <1>8, <1>9, <1>10, <1>11, <1>12
  DEF Next, ProducerNext, ConsumerNext

\* front() and pop() always find an element, although the wait has no loop.
THEOREM SafeQueuePopsNonEmpty == SafetySpec => []PopsNonEmpty
<1>1. QueueInv => PopsNonEmpty
  BY DEF QueueInv, PresenceInv, PopsNonEmpty
<1>2. Init => QueueInv
  BY QueueInit
<1>3. QueueInv /\ [Next]_vars => QueueInv'
  BY QueueStep
<1> QED BY <1>1, <1>2, <1>3, PTL DEF SafetySpec

\* A get() sleeps over a non-empty queue only until the add() under way notifies.
THEOREM SafeQueueNoLostWakeup == SafetySpec => []NoLostWakeup
<1>1. QueueInv => NoLostWakeup
  BY DEF QueueInv
<1>2. Init => QueueInv
  BY QueueInit
<1>3. QueueInv /\ [Next]_vars => QueueInv'
  BY QueueStep
<1> QED BY <1>1, <1>2, <1>3, PTL DEF SafetySpec

-----------------------------------------------------------------------------
(* Refinement: the push is the abstract Add, the pop the abstract Get, the *)
(* call of get the abstract Ask; every other step leaves the abstract      *)
(* queue as it is.                                                         *)

Asking == {c \in Consumers : pc[c] \in {"get", "test", "waiting", "woken", "pop"}}
Got == [c \in Consumers |-> obj[c]]

LEMMA FifoInit == Init => Fifo!Init
BY DEF Init, Fifo!Init, Threads

LEMMA SpuriousForever ==
  ASSUME LockInv, LockInv', [Next]_vars
  PROVE  \/ spurious' = TRUE
         \/ ~spurious /\ ~spurious'
<1> USE DEF LockInv, TypeOK
<1>1. ASSUME NEW p \in Producers, ProducerNext(p) PROVE UNCHANGED spurious
  BY <1>1 DEF ProducerNext, Add, AddLock, Push, Notify, Unlock
<1>2. ASSUME NEW c \in Consumers, ConsumerNext(c)
      PROVE  UNCHANGED spurious \/ spurious' = TRUE
  BY <1>2 DEF ConsumerNext, Get, GetLock, Test, SpuriousWakeup, Rewake, Pop, Unlock
<1> QED BY <1>1, <1>2 DEF Next, vars

LEMMA FifoStep ==
  ASSUME QueueInv, [Next]_vars
  PROVE  [Fifo!Next]_(Fifo!vars)
<1> SUFFICES ASSUME ~spurious, ~spurious' PROVE [Fifo!Next]_(Fifo!vars)
  BY SpuriousForever, LockStep DEF Fifo!Next, QueueInv
<1> USE ThreadsAssumption DEF QueueInv, PresenceInv, LockInv, TypeOK, ArgumentInv,
    MutexInv, Threads, Goto, Acquire, ProducerPcs, ConsumerPcs
<1>1. ASSUME UNCHANGED <<queue, Asking, Got, spurious>> PROVE UNCHANGED Fifo!vars
  BY <1>1 DEF Asking, Got, Fifo!vars
<1>2. ASSUME NEW p \in Producers, NEW i \in Items, Add(p, i)
      PROVE  UNCHANGED <<queue, Asking, Got, spurious>>
  BY <1>2 DEF Add, Asking, Got
<1>3. ASSUME NEW p \in Producers, AddLock(p) PROVE UNCHANGED <<queue, Asking, Got, spurious>>
  BY <1>3 DEF AddLock, Asking, Got
<1>4. ASSUME NEW p \in Producers, Push(p) PROVE Fifo!Next
  <2>1. queue' = Append(queue, obj[p]) /\ obj[p] \in Items
    BY <1>4 DEF Push
  <2>2. UNCHANGED <<Asking, Got, spurious>>
    BY <1>4 DEF Push, Asking, Got
  <2> QED BY <2>1, <2>2 DEF Asking, Got, Fifo!Next, Fifo!QueueNext, Fifo!Add
<1>5. ASSUME NEW p \in Producers, Notify(p) PROVE UNCHANGED <<queue, Asking, Got, spurious>>
  <2>1. CASE pc' = [pc EXCEPT ![p] = "unlock"]
    BY <1>5, <2>1 DEF Notify, Asking, Got
  <2>2. ASSUME NEW c \in Sleepers,
               pc' = [pc EXCEPT ![p] = "unlock", ![c] = "woken"]
        PROVE  UNCHANGED <<queue, Asking, Got, spurious>>
    BY <1>5, <2>2 DEF Notify, Sleepers, Asking, Got
  <2> QED BY <1>5, <2>1, <2>2 DEF Notify
<1>6. ASSUME NEW t \in Threads, Unlock(t) PROVE UNCHANGED <<queue, Asking, Got, spurious>>
  BY <1>6 DEF Unlock, Asking, Got
<1>7. ASSUME NEW c \in Consumers, Get(c) PROVE Fifo!Next
  <2>1. c \notin Asking /\ Asking' = Asking \cup {c} /\ UNCHANGED <<queue, Got, spurious>>
    BY <1>7 DEF Get, Asking, Got
  <2> QED BY <2>1 DEF Asking, Got, Fifo!Next, Fifo!QueueNext, Fifo!Ask
<1>8. ASSUME NEW c \in Consumers, GetLock(c) PROVE UNCHANGED <<queue, Asking, Got, spurious>>
  BY <1>8 DEF GetLock, Asking, Got
<1>9. ASSUME NEW c \in Consumers, Test(c) PROVE UNCHANGED <<queue, Asking, Got, spurious>>
  BY <1>9 DEF Test, Asking, Got
<1>10. ASSUME NEW c \in Consumers, Rewake(c) PROVE UNCHANGED <<queue, Asking, Got, spurious>>
  BY <1>10 DEF Rewake, Asking, Got
<1>11. ASSUME NEW c \in Consumers, Pop(c) PROVE Fifo!Next
  <2>1. /\ queue # << >>
        /\ queue' = Tail(queue)
        /\ obj' = [obj EXCEPT ![c] = Head(queue)]
        /\ UNCHANGED spurious
        /\ pc[c] = "pop" /\ pc' = [pc EXCEPT ![c] = "unlock"]
    BY <1>11 DEF Pop
  <2>2. c \in Asking /\ Asking' = Asking \ {c}
    BY <2>1 DEF Asking
  <2>3. Got' = [Got EXCEPT ![c] = Head(queue)]
    BY <2>1 DEF Got
  <2> QED BY <2>1, <2>2, <2>3 DEF Asking, Got, Fifo!Next, Fifo!QueueNext, Fifo!Get
<1>12. ASSUME NEW c \in Consumers, SpuriousWakeup(c) PROVE FALSE
  BY <1>12 DEF SpuriousWakeup
<1>13. CASE UNCHANGED vars
  BY <1>13, <1>1 DEF vars, Asking, Got
<1> QED
  BY <1>1, <1>2, <1>3, <1>4, <1>5, <1>6, <1>7, <1>8, <1>9, <1>10, <1>11, <1>12, <1>13
  DEF Next, ProducerNext, ConsumerNext

\* SafeQueue is a FIFO queue: every behaviour of the code is, through the
\* mapping of module SafeQueue, a behaviour of FifoQueue (its safety part).
THEOREM SafeQueueImplementsFifo == SafetySpec => Fifo!SafetySpec
<1>1. Init => Fifo!Init
  BY FifoInit
<1>2. QueueInv /\ [Next]_vars => [Fifo!Next]_(Fifo!vars)
  BY FifoStep
<1>3. Init => QueueInv
  BY QueueInit
<1>4. QueueInv /\ [Next]_vars => QueueInv'
  BY QueueStep
<1> QED BY <1>1, <1>2, <1>3, <1>4, PTL DEF SafetySpec, Fifo!SafetySpec
==============================================================================
