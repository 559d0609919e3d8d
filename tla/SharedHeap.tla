------------------------------ MODULE SharedHeap ------------------------------
(***************************************************************************)
(* The test program t1.c with its heap, heap.c: processes that share       *)
(* arenas of words, each with a spin lock, allocate and free blocks.       *)
(*                                                                         *)
(* A block is a header and the words it counts; the header of a free one   *)
(* is the complement of its size.  Where the first word after the header   *)
(* would not be 16-byte aligned, that word is a pad, 0, and is counted in  *)
(* the block.  What a process does between setting and clearing a lock is  *)
(* one step, unless another is in the same arena: what they then do to     *)
(* each other's headers is undefined, and the model ends.                  *)
(***************************************************************************)
EXTENDS Integers, FiniteSets, FiniteSetsExt

CONSTANTS
  Processes,    \* those that share the heap: t1 forks once
  Pid,          \* Pid[p]: the process id
  ArenaCount,   \* arenaMaxCount
  LastAddress,  \* the index of the last word of an arena
  Sizes,        \* bound: the words a process may ask for, at least one
  M,            \* the pointers a process keeps
  N             \* the turns of its loop

ASSUME HeapAssumption ==
  /\ Pid \in [Processes -> Nat]
  /\ ArenaCount \in Nat \ {0} /\ LastAddress \in Nat /\ M \in Nat /\ N \in Nat
  /\ Sizes \subseteq Nat \ {0}

VARIABLES
  lock,       \* lock[a]: 1 while a process is in arena a
  word,       \* word[a]: its words, the first header being word 0
  pc,         \* where each process is
  i,          \* its turn; from N on, it frees what it has left
  x,          \* the pointer it is about
  size8B,     \* the words it asks for
  arena,      \* the arenas malloc has given up in this call
  last,       \* its pointers: <<arena, index>>, or NULL
  fresh,      \* the block malloc has carved and not returned yet
  mCount,     \* its allocations
  fCount,     \* its frees
  overtaken   \* whether another took the lock after it was found free

vars == <<lock, word, pc, i, x, size8B, arena, last, fresh, mCount, fCount, overtaken>>

NULL   == << >>
ArenaIds == 0..(ArenaCount - 1)
Words  == 0..LastAddress
Slots  == 1..M
Not(n) == -n - 1

Init == /\ lock = [a \in ArenaIds |-> 0]
        /\ word = [a \in ArenaIds |-> [k \in Words |-> IF k = 0 THEN Not(LastAddress) ELSE 0]]
        /\ pc = [p \in Processes |-> "turn"]
        /\ i = [p \in Processes |-> 0]
        /\ x = [p \in Processes |-> 1]
        /\ size8B = [p \in Processes |-> 0]
        /\ arena = [p \in Processes |-> 0]
        /\ last = [p \in Processes |-> [s \in Slots |-> NULL]]
        /\ fresh = [p \in Processes |-> NULL]
        /\ mCount = [p \in Processes |-> 0]
        /\ fCount = [p \in Processes |-> 0]
        /\ overtaken = [p \in Processes |-> FALSE]

-----------------------------------------------------------------------------
(* The blocks of an arena whose words are w.                               *)

Padded(h)  == h % 2 = 1
Need(n, h) == IF Padded(h) THEN n + 1 ELSE n
Payload(h) == IF Padded(h) THEN h + 2 ELSE h + 1

FreeEndOfTwo(w) ==  \* mutant: no more than two blocks are joined
  [h \in Words |->
     LET e == h + Not(w[h])
     IN  IF e >= LastAddress \/ w[e + 1] >= 0 THEN e ELSE e + 1 + Not(w[e + 1])]

\* The header behind the block at h.
Behind(w) == [h \in Words |-> h + (IF w[h] < 0 THEN Not(w[h]) ELSE w[h]) + 1]

\* joinFreeSpace: where the free blocks that start at h end.
FreeEnd(w) ==
  LET end[h \in Int] == IF h \in Words /\ w[h] < 0 THEN end[Behind(w)[h]] ELSE h - 1
  IN  end

\* findFreeSpace: the first block with room for n words, or LastAddress + 1,
\* and the words once the free blocks on the way are joined.
Search(w, n) ==
  LET end       == FreeEnd(w)
      goesOn(h) == h \in Words /\ (w[h] < 0 => end[h] - h < Need(n, h))
      from[h \in Int] ==
        IF goesOn(h) THEN {h} \cup from[IF w[h] < 0 THEN end[h] + 1 ELSE Behind(w)[h]] ELSE {h}
      passed == from[0]
  IN  [block |-> CHOOSE h \in passed : ~goesOn(h),
       words |-> [k \in Words |-> IF k \in passed /\ w[k] < 0 THEN Not(end[k] - k) ELSE w[k]]]

SplitShort(w, h, n) ==  \* mutant: the header of what is left is not counted
  LET free == Not(w[h])
  IN  [k \in Words |-> CASE k = h -> n
                         [] k = h + n + 1 /\ free # n -> Not(free - n)
                         [] OTHER -> w[k]]

\* The free block h of w becomes one of n words and, if any are left, a free one.
Split(w, h, n) ==
  LET free == Not(w[h])
  IN  [k \in Words |-> CASE k = h -> n
                         [] k = h + n + 1 /\ free # n -> Not(free - (n + 1))
                         [] OTHER -> w[k]]

-----------------------------------------------------------------------------
(* The locks.                                                              *)

Goto(p, from, to) == pc[p] = from /\ pc' = [pc EXCEPT ![p] = to]

Tried(p) == (Pid[p] + arena[p]) % ArenaCount

\* The arena whose lock p tests, takes or holds.
At(p) == IF pc[p] \in {"spin", "grab", "flip"} THEN last[p][x[p]][1] ELSE Tried(p)

Inside(p) == pc[p] \in {"search", "flip"}

\* Two processes are in one arena: they test the lock and set it in two steps.
Raced == \E p, q \in Processes : p # q /\ Inside(p) /\ Inside(q) /\ At(p) = At(q)

Set(p) ==
  /\ lock' = [lock EXCEPT ![At(p)] = 1]
  /\ overtaken' = [q \in Processes |->
       overtaken[q] \/ (q # p /\ pc[q] \in {"take", "grab"} /\ At(q) = At(p))]

FindsFree(p) == overtaken' = [overtaken EXCEPT ![p] = FALSE]

-----------------------------------------------------------------------------
(* SharedHeap_malloc                                                       *)

\* The next arena is locked: it is passed over.
PassLocked(p) ==
  /\ pc[p] = "test"
  /\ arena[p] < 3 * ArenaCount
  /\ lock[Tried(p)] = 1
  /\ arena' = [arena EXCEPT ![p] = @ + 1]
  /\ UNCHANGED <<lock, word, pc, i, x, size8B, last, fresh, mCount, fCount, overtaken>>

TestLock(p) ==
  /\ Goto(p, "test", "take")
  /\ arena[p] < 3 * ArenaCount
  /\ lock[Tried(p)] = 0
  /\ FindsFree(p)
  /\ UNCHANGED <<lock, word, i, x, size8B, arena, last, fresh, mCount, fCount>>

TakeLock(p) ==
  /\ Goto(p, "take", "search")
  /\ Set(p)
  /\ UNCHANGED <<word, i, x, size8B, arena, last, fresh, mCount, fCount>>

\* There is room: the block is carved and the lock is cleared.
Allocate(p) ==
  /\ Goto(p, "search", "return")
  /\ LET a     == Tried(p)
         found == Search(word[a], size8B[p])
         h     == found.block
     IN  /\ h <= LastAddress
         /\ word' = [word EXCEPT ![a] = Split(found.words, h, Need(size8B[p], h))]
         /\ fresh' = [fresh EXCEPT ![p] = <<a, h>>]
         /\ lock' = [lock EXCEPT ![a] = 0]
  /\ mCount' = [mCount EXCEPT ![p] = @ + 1]
  /\ UNCHANGED <<i, x, size8B, arena, last, fCount, overtaken>>

LeaveLocked(p) ==  \* mutant: an arena without room stays locked
  /\ Goto(p, "search", "test")
  /\ LET found == Search(word[Tried(p)], size8B[p])
     IN  found.block > LastAddress /\ word' = [word EXCEPT ![Tried(p)] = found.words]
  /\ arena' = [arena EXCEPT ![p] = @ + 1]
  /\ UNCHANGED <<lock, i, x, size8B, last, fresh, mCount, fCount, overtaken>>

\* There is none in this arena.
LeaveArena(p) ==
  /\ Goto(p, "search", "test")
  /\ LET found == Search(word[Tried(p)], size8B[p])
     IN  found.block > LastAddress /\ word' = [word EXCEPT ![Tried(p)] = found.words]
  /\ lock' = [lock EXCEPT ![Tried(p)] = 0]
  /\ arena' = [arena EXCEPT ![p] = @ + 1]
  /\ UNCHANGED <<i, x, size8B, last, fresh, mCount, fCount, overtaken>>

PanicCounted(p) ==  \* mutant: an allocation is counted before it is known to succeed
  /\ Goto(p, "test", "panic")
  /\ arena[p] = 3 * ArenaCount
  /\ mCount' = [mCount EXCEPT ![p] = @ + 1]
  /\ UNCHANGED <<lock, word, i, x, size8B, arena, last, fresh, fCount, overtaken>>

\* malloc returns NULL, and t1 gives up.
Panic(p) ==
  /\ Goto(p, "test", "panic")
  /\ arena[p] = 3 * ArenaCount
  /\ UNCHANGED <<lock, word, i, x, size8B, arena, last, fresh, mCount, fCount, overtaken>>

\* The pad is written, if there is one, with the lock already cleared; t1 keeps
\* the pointer and writes to both ends of the block.
ReturnBlock(p) ==
  /\ Goto(p, "return", "turn")
  /\ LET a == fresh[p][1]
         h == fresh[p][2]
         k == Payload(h)
     IN  /\ word' = [word EXCEPT ![a] =
              [j \in Words |-> CASE j \in {k, k + size8B[p] - 1} -> 66
                                 [] j = h + 1 /\ Padded(h) -> 0
                                 [] OTHER -> @[j]]]
         /\ last' = [last EXCEPT ![p][x[p]] = <<a, k>>]
  /\ fresh' = [fresh EXCEPT ![p] = NULL]
  /\ i' = [i EXCEPT ![p] = @ + 1]
  /\ UNCHANGED <<lock, x, size8B, arena, mCount, fCount, overtaken>>

-----------------------------------------------------------------------------
(* SharedHeap_free                                                         *)

SpinOnce(p) ==  \* mutant: free does not wait for the lock
  /\ Goto(p, "spin", "grab")
  /\ FindsFree(p)
  /\ UNCHANGED <<lock, word, i, x, size8B, arena, last, fresh, mCount, fCount>>

\* The end of the while: the lock is found free.
Spin(p) ==
  /\ Goto(p, "spin", "grab")
  /\ lock[At(p)] = 0
  /\ FindsFree(p)
  /\ UNCHANGED <<lock, word, i, x, size8B, arena, last, fresh, mCount, fCount>>

GrabLock(p) ==
  /\ Goto(p, "grab", "flip")
  /\ Set(p)
  /\ UNCHANGED <<word, i, x, size8B, arena, last, fresh, mCount, fCount>>

\* A 0 in front of the block is taken for its pad; the header becomes free.
FreeBlock(p) ==
  /\ pc[p] = "flip"
  /\ LET a == At(p)
         k == last[p][x[p]][2]
         h == IF word[a][k - 1] = 0 THEN k - 2 ELSE k - 1
     IN  /\ word' = [word EXCEPT ![a][h] = Not(@)]
         /\ lock' = [lock EXCEPT ![a] = 0]
  /\ fCount' = [fCount EXCEPT ![p] = @ + 1]
  /\ IF i[p] < N
       THEN /\ last' = [last EXCEPT ![p][x[p]] = NULL]
            /\ pc' = [pc EXCEPT ![p] = "test"]
            /\ UNCHANGED i
       ELSE /\ pc' = [pc EXCEPT ![p] = "turn"]
            /\ i' = [i EXCEPT ![p] = @ + 1]
            /\ UNCHANGED last
  /\ UNCHANGED <<x, size8B, arena, fresh, mCount, overtaken>>

-----------------------------------------------------------------------------
(* t1                                                                      *)

\* A pointer and a size are drawn; what the pointer had is freed first.
Turn(p) ==
  /\ pc[p] = "turn"
  /\ i[p] < N
  /\ \E s \in Slots, n \in Sizes :
       /\ x' = [x EXCEPT ![p] = s]
       /\ size8B' = [size8B EXCEPT ![p] = n]
       /\ pc' = [pc EXCEPT ![p] = IF last[p][s] = NULL THEN "test" ELSE "spin"]
  /\ arena' = [arena EXCEPT ![p] = 0]
  /\ UNCHANGED <<lock, word, i, last, fresh, mCount, fCount, overtaken>>

\* After N turns, all that is left is freed.
CleanUp(p) ==
  /\ pc[p] = "turn"
  /\ i[p] >= N
  /\ LET left == {s \in Slots : s > i[p] - N /\ last[p][s] # NULL}
     IN  IF left = {}
           THEN pc' = [pc EXCEPT ![p] = "done"] /\ UNCHANGED <<i, x>>
           ELSE /\ pc' = [pc EXCEPT ![p] = "spin"]
                /\ x' = [x EXCEPT ![p] = Min(left)]
                /\ i' = [i EXCEPT ![p] = N + Min(left) - 1]
  /\ UNCHANGED <<lock, word, size8B, arena, last, fresh, mCount, fCount, overtaken>>

Step(p) == \/ Turn(p)
           \/ CleanUp(p)
           \/ PassLocked(p)
           \/ TestLock(p)
           \/ TakeLock(p)
           \/ Allocate(p)
           \/ LeaveArena(p)
           \/ Panic(p)
           \/ ReturnBlock(p)
           \/ Spin(p)
           \/ GrabLock(p)
           \/ FreeBlock(p)

Next == ~Raced /\ \E p \in Processes : Step(p)

\* Every process gets to run.
Spec == Init /\ [][Next]_vars /\ \A p \in Processes : WF_vars(~Raced /\ Step(p))

-----------------------------------------------------------------------------
(* What the heap and the test promise.                                     *)

\* The headers found by going from each block to the one behind it.
Headers(w) ==
  LET from[h \in Int] == IF h \in Words THEN {h} \cup from[Behind(w)[h]] ELSE {h}
  IN  from[0]

Used(a) == {h \in Headers(word[a]) \cap Words : word[a][h] >= 0}

\* The slots whose pointers process p keeps and has not freed, the pointers
\* into arena a, and the blocks of it that malloc is about to return.
Kept(p)     == {s \in Slots : last[p][s] # NULL /\ s > i[p] - N}
Pointers(a) == {ps \in Processes \X Slots : ps[2] \in Kept(ps[1]) /\ last[ps[1]][ps[2]][1] = a}
Carved(a)   == {p \in Processes : pc[p] = "return" /\ fresh[p][1] = a}

\* The blocks cover each arena; the allocated ones are those the processes
\* keep, each by one pointer: nothing is given to two or leaks, and free finds
\* the header of what malloc returned.
BlocksOwned ==
  ~Raced =>
    \A a \in ArenaIds :
      /\ Headers(word[a]) \ Words = {LastAddress + 1}
      /\ {Payload(h) : h \in Used(a)} = {last[ps[1]][ps[2]][2] : ps \in Pointers(a)}
                                         \cup {Payload(fresh[p][2]) : p \in Carved(a)}
      /\ Cardinality(Used(a)) = Cardinality(Pointers(a)) + Cardinality(Carved(a))

\* The counters of a process are right: it keeps what it has allocated and not
\* freed.
CountersRight ==
  \A p \in Processes :
    mCount[p] - fCount[p] = Cardinality(Kept(p)) + (IF pc[p] = "return" THEN 1 ELSE 0)

\* The locks work but for their window: two processes are in one arena only if
\* one took its lock after the other had found it free; and a lock is set
\* exactly while somebody is in the arena.
ExclusiveUnlessOvertaken ==
  /\ \A p, q \in Processes :
       (p # q /\ Inside(p) /\ Inside(q) /\ At(p) = At(q)) => overtaken[p] \/ overtaken[q]
  /\ \A a \in ArenaIds : lock[a] = 1 <=> \E p \in Processes : Inside(p) /\ At(p) = a

\* The words of arena a in no allocated block, and whether n of them with their
\* header, and their pad, lie together behind a block or at the start.
FreeWords(a) == Words \ UNION {h..(h + word[a][h]) : h \in Used(a)}
Room(a, n)   == \E h \in FreeWords(a) : /\ h - 1 \notin FreeWords(a)
                                        /\ h..(h + Need(n, h)) \subseteq FreeWords(a)

\* malloc leaves an arena only if it is locked or has no room: joining blocks
\* on the way of a first fit misses none.
LeftOnlyIfFull ==
  [][\A p \in Processes :
       (pc[p] = "search" /\ pc'[p] = "test") => ~Room(Tried(p), size8B[p])]_vars

\* "child terminated": both processes come to their end, or give up, unless
\* they meet in an arena.  malloc tries a bounded number of times, and a lock
\* that free waits for is cleared.
ProcessesEnd == <>(Raced \/ \A p \in Processes : pc[p] \in {"done", "panic"})
==============================================================================
