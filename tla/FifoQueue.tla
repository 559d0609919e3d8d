------------------------------ MODULE FifoQueue ------------------------------
(***************************************************************************)
(* What SafeQueue<T> promises to its callers: an unbounded FIFO queue      *)
(* whose add and get each happen in one step.  get blocks while the queue  *)
(* is empty, and a pending get does return once something is there.  The   *)
(* promise ends with the first wait that returns unprompted.               *)
(***************************************************************************)
EXTENDS Sequences

CONSTANTS Items,      \* the objects that can be queued
          Consumers,  \* the threads that call get
          NoItem      \* "get has not returned anything yet"

VARIABLES queue,      \* the queued objects, oldest first
          asking,     \* the consumers whose get has been called, not served
          got,        \* got[c]: what the last get of c returned
          broken      \* whether a wait has returned unprompted

vars == <<queue, asking, got, broken>>

Init == /\ queue = << >>
        /\ asking = {}
        /\ got = [c \in Consumers |-> NoItem]
        /\ broken = FALSE

\* add(obj): the object becomes the newest element.
Add(i) == /\ queue' = Append(queue, i)
          /\ UNCHANGED <<asking, got>>

\* A consumer calls get().
Ask(c) == /\ c \notin asking
          /\ asking' = asking \cup {c}
          /\ UNCHANGED <<queue, got>>

\* get() takes the oldest element; it is blocked while there is none.
Get(c) == /\ c \in asking
          /\ queue # << >>
          /\ got' = [got EXCEPT ![c] = Head(queue)]
          /\ queue' = Tail(queue)
          /\ asking' = asking \ {c}

QueueNext == \/ \E i \in Items : Add(i)
             \/ \E c \in Consumers : Ask(c) \/ Get(c)

Next == \/ ~broken /\ QueueNext /\ UNCHANGED broken
        \/ broken' = TRUE

SafetySpec == Init /\ [][Next]_vars

Spec == SafetySpec /\ \A c \in Consumers : WF_vars(~broken /\ Get(c) /\ UNCHANGED broken)
==============================================================================
