------------------------------ MODULE SafeQueue ------------------------------
(***************************************************************************)
(* The template SafeQueue<T> of loadManager.cxx: a std::queue guarded by   *)
(* a std::mutex, with a std::condition_variable on which get() sleeps.     *)
(* One action per step another thread can observe: entering a call, each   *)
(* acquisition of the mutex, the push, notify_one, the sleep, the pop and  *)
(* the release.                                                            *)
(*                                                                         *)
(* get() tests "empty" with an if, not a while, so whoever wakes it must   *)
(* guarantee that there is something to take.  Two things can break that:  *)
(* another consumer, and a wake-up nobody caused.  The program has one     *)
(* consumer of each of its two queues, the main thread, and that is the    *)
(* assumption SingleConsumer; the second is the action SpuriousWakeup,     *)
(* after which get() promises nothing any more.                            *)
(***************************************************************************)
EXTENDS Naturals, Sequences

CONSTANTS
  Producers,        \* the threads that call add
  Consumers,        \* the threads that call get
  Items,            \* the objects (pointers) that are queued
  NoItem,           \* no object, or a pointer that points to none
  NoThread,         \* the owner of a free mutex
  MaxUnderflow      \* bound: pops of an empty queue that are followed

ASSUME ThreadsAssumption ==
  /\ Producers \cap Consumers = {}
  /\ NoThread \notin Producers \cup Consumers
  /\ NoItem \notin Items
  /\ MaxUnderflow \in Nat

ASSUME SingleConsumer == \A c, d \in Consumers : c = d

VARIABLES
  queue,      \* std::queue<T>: its elements, oldest first
  underflow,  \* pops beyond the contents: size() is Len(queue) - underflow
              \* as a size_t, so the queue is not empty() while this is not 0
  spurious,   \* history: whether cv.wait has ever returned unprompted
  mtx,        \* the thread that holds mtx, or NoThread
  pc,         \* where each thread is in add() or get()
  obj         \* the local T obj of each thread: add's argument, get's result

vars == <<queue, underflow, spurious, mtx, pc, obj>>

Threads == Producers \cup Consumers

ProducerPcs == {"idle", "add", "push", "notify", "unlock"}
ConsumerPcs == {"idle", "get", "test", "waiting", "woken", "pop", "unlock"}

\* The program points at which a thread holds the mutex.
Critical == {"push", "notify", "test", "pop", "unlock"}

\* The threads asleep in cv.wait.
Sleepers == {c \in Consumers : pc[c] = "waiting"}

Queued == {queue[n] : n \in 1..Len(queue)}

Empty == queue = << >> /\ underflow = 0

Init == /\ queue = << >>
        /\ underflow = 0
        /\ spurious = FALSE
        /\ mtx = NoThread
        /\ pc = [t \in Threads |-> "idle"]
        /\ obj = [t \in Threads |-> NoItem]

Goto(t, from, to) == pc[t] = from /\ pc' = [pc EXCEPT ![t] = to]

Acquire(t) == mtx = NoThread /\ mtx' = t

-----------------------------------------------------------------------------
(* add(obj).  A pointer is never queued twice at a time: the program adds  *)
(* a Client once, and a ProcessServer only by the thread it was given to.  *)

AddUnstored(p, i) ==  \* mutant: the argument is not kept
  /\ i \notin Queued
  /\ Goto(p, "idle", "add")
  /\ UNCHANGED <<queue, underflow, spurious, mtx, obj>>

Add(p, i) ==
  /\ i \notin Queued
  /\ \A q \in Producers : pc[q] \in {"add", "push"} => obj[q] # i
  /\ Goto(p, "idle", "add")
  /\ obj' = [obj EXCEPT ![p] = i]
  /\ UNCHANGED <<queue, underflow, spurious, mtx>>

AddLock(p) == /\ Goto(p, "add", "push")
              /\ Acquire(p)
              /\ UNCHANGED <<queue, underflow, spurious, obj>>

PushFront(p) ==  \* mutant: newest element first
  /\ Goto(p, "push", "notify")
  /\ queue' = <<obj[p]>> \o queue
  /\ UNCHANGED <<underflow, spurious, mtx, obj>>

\* queue.push(obj).  After an underflow the element lands in front of the
\* begin iterator and brings size() back towards 0: nobody can reach it.
Push(p) ==
  /\ Goto(p, "push", "notify")
  /\ IF underflow = 0
       THEN queue' = Append(queue, obj[p]) /\ UNCHANGED underflow
       ELSE underflow' = underflow - 1 /\ UNCHANGED queue
  /\ UNCHANGED <<spurious, mtx, obj>>

NotifyNobody(p) ==  \* mutant: notify_one forgotten
  /\ Goto(p, "notify", "unlock")
  /\ UNCHANGED <<queue, underflow, spurious, mtx, obj>>

\* cv.notify_one(): one sleeper, if there is any, starts to re-acquire mtx.
Notify(p) ==
  /\ pc[p] = "notify"
  /\ \/ /\ Sleepers = {}
        /\ pc' = [pc EXCEPT ![p] = "unlock"]
     \/ \E c \in Sleepers : pc' = [pc EXCEPT ![p] = "unlock", ![c] = "woken"]
  /\ UNCHANGED <<queue, underflow, spurious, mtx, obj>>

\* The end of add() or get(): the lock guard releases the mutex.
Unlock(t) == /\ Goto(t, "unlock", "idle")
             /\ mtx' = NoThread
             /\ UNCHANGED <<queue, underflow, spurious, obj>>

-----------------------------------------------------------------------------
(* get()                                                                   *)

Get(c) == /\ underflow < MaxUnderflow
          /\ Goto(c, "idle", "get")
          /\ UNCHANGED <<queue, underflow, spurious, mtx, obj>>

GetLock(c) == /\ Goto(c, "get", "test")
              /\ Acquire(c)
              /\ UNCHANGED <<queue, underflow, spurious, obj>>

TestNegated(c) ==  \* mutant: waits when there is something to take
  /\ IF Empty THEN Goto(c, "test", "pop") /\ UNCHANGED mtx
              ELSE Goto(c, "test", "waiting") /\ mtx' = NoThread
  /\ UNCHANGED <<queue, underflow, spurious, obj>>

\* if(queue.empty()) cv.wait(lock): sleeping releases the mutex in one step.
Test(c) ==
  /\ IF Empty THEN Goto(c, "test", "waiting") /\ mtx' = NoThread
              ELSE Goto(c, "test", "pop") /\ UNCHANGED mtx
  /\ UNCHANGED <<queue, underflow, spurious, obj>>

\* The C++ standard lets cv.wait return without a notification.
SpuriousWakeup(c) == /\ Goto(c, "waiting", "woken")
                     /\ spurious' = TRUE
                     /\ UNCHANGED <<queue, underflow, mtx, obj>>

\* cv.wait returns with the mutex held; the if does not test again.
Rewake(c) == /\ Goto(c, "woken", "pop")
             /\ Acquire(c)
             /\ UNCHANGED <<queue, underflow, spurious, obj>>

\* T obj = queue.front(); queue.pop().  On an empty queue both are undefined:
\* the pointer read is whatever the memory holds, and size() wraps below 0.
Pop(c) ==
  /\ Goto(c, "pop", "unlock")
  /\ IF queue # << >>
       THEN /\ obj' = [obj EXCEPT ![c] = Head(queue)]
            /\ queue' = Tail(queue)
            /\ UNCHANGED underflow
       ELSE /\ \E i \in Items \cup {NoItem} : obj' = [obj EXCEPT ![c] = i]
            /\ underflow' = underflow + 1
            /\ UNCHANGED queue
  /\ UNCHANGED <<spurious, mtx>>

-----------------------------------------------------------------------------
ProducerNext(p) == \/ \E i \in Items : Add(p, i)
                   \/ AddLock(p)
                   \/ Push(p)
                   \/ Notify(p)
                   \/ Unlock(p)

ConsumerNext(c) == \/ Get(c)
                   \/ GetLock(c)
                   \/ Test(c)
                   \/ SpuriousWakeup(c)
                   \/ Rewake(c)
                   \/ Pop(c)
                   \/ Unlock(c)

Next == \/ \E p \in Producers : ProducerNext(p)
        \/ \E c \in Consumers : ConsumerNext(c)

SafetySpec == Init /\ [][Next]_vars

(***************************************************************************)
(* A thread that is inside a call and can move does move.  Calling add or  *)
(* get is the caller's choice and no spurious wake-up ever has to happen.  *)
(* Weak fairness is enough for the mutex: while the consumer contends for  *)
(* it the producers can take it only once per item that is not queued.     *)
(***************************************************************************)
Fairness ==
  /\ \A p \in Producers : WF_vars(AddLock(p) \/ Push(p) \/ Notify(p) \/ Unlock(p))
  /\ \A c \in Consumers :
       WF_vars(GetLock(c) \/ Test(c) \/ Rewake(c) \/ Pop(c) \/ Unlock(c))

Spec == SafetySpec /\ Fairness

-----------------------------------------------------------------------------
(* Properties                                                              *)

\* Every variable has its type, and the queue holds real objects only.
TypeOK ==
  /\ queue \in Seq(Items)
  /\ underflow \in Nat
  /\ spurious \in BOOLEAN
  /\ mtx \in Threads \cup {NoThread}
  /\ pc \in [Threads -> ProducerPcs \cup ConsumerPcs]
  /\ \A p \in Producers : pc[p] \in ProducerPcs
  /\ \A c \in Consumers : pc[c] \in ConsumerPcs
  /\ obj \in [Threads -> Items \cup {NoItem}]

\* When get() reaches front() and pop() there is an element to take, although
\* the wait is not in a loop, as long as every wake-up is a notification.
PopsNonEmpty ==
  ~spurious => \A c \in Consumers : pc[c] = "pop" => queue # << >>

\* "blocks until something is pushed", as the comment has it: however it was
\* woken, get() takes something that was pushed.
BlocksUntilPushed == \A c \in Consumers : pc[c] = "pop" => queue # << >>

\* No wake-up is lost: if get() sleeps while something is queued, the add()
\* that queued it has yet to notify.
NoLostWakeup ==
  (Sleepers # {} /\ queue # << >>) => \E p \in Producers : pc[p] = "notify"

\* Up to a spurious wake-up the code implements the abstract queue: push and
\* pop are the points where add and get take effect, in FIFO order, and a get
\* that can be served is.
Fifo == INSTANCE FifoQueue WITH
  asking <- {c \in Consumers : pc[c] \in {"get", "test", "waiting", "woken", "pop"}},
  got    <- [c \in Consumers |-> obj[c]],
  broken <- spurious

ImplementsFifo == Fifo!Spec
==============================================================================
