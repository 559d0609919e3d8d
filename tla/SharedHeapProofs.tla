--------------------------- MODULE SharedHeapProofs ---------------------------
(***************************************************************************)
(* What the locks and the heap of SharedHeap give, for any number of       *)
(* processes, arenas, words, sizes, pointers and turns.                    *)
(*                                                                         *)
(* The locks: two processes are in one arena only if one of them was       *)
(* overtaken between testing the lock and setting it.  The heap: the       *)
(* allocated blocks of each arena are those that the processes keep, each  *)
(* by one pointer, and malloc leaves an arena only if it has no room.      *)
(*                                                                         *)
(* The recursive functions that go from header to header are reasoned      *)
(* about as chains: the least set that has a header and, with each, the    *)
(* next.                                                                   *)
(***************************************************************************)
EXTENDS SharedHeap, TLAPS, WellFoundedInduction, FiniteSetTheorems, FunctionTheorems

Places  == {"turn", "test", "take", "search", "return", "spin", "grab", "flip", "done", "panic"}
Freeing == {"spin", "grab", "flip"}
Busy    == Freeing \cup {"test", "take", "search", "return"}

(* The shape of the variables that say where a process is, and that the    *)
(* pointers it works on lead to arenas.                                    *)
PlaceInv ==
  /\ lock \in [ArenaIds -> {0, 1}]
  /\ pc \in [Processes -> Places]
  /\ arena \in [Processes -> Nat]
  /\ overtaken \in [Processes -> BOOLEAN]
  /\ x = [p \in Processes |-> x[p]]
  /\ fresh = [p \in Processes |-> fresh[p]]
  /\ last = [p \in Processes |-> [s \in Slots |-> last[p][s]]]
  /\ \A p \in Processes : pc[p] \in Busy => x[p] \in Slots
  /\ \A p \in Processes : pc[p] = "return" => fresh[p][1] \in ArenaIds
  /\ \A p \in Processes, s \in Slots : last[p][s] = NULL \/ last[p][s][1] \in ArenaIds
  /\ \A p \in Processes : pc[p] \in Freeing => last[p][x[p]][1] \in ArenaIds

Waiting(p) == pc[p] \in {"take", "grab"}

(* A lock is set exactly while somebody is in the arena, and who has found *)
(* it free and meets another there was overtaken.                          *)
LockInv ==
  /\ \A p \in Processes : Inside(p) => lock[At(p)] = 1
  /\ \A a \in ArenaIds : lock[a] = 1 => \E p \in Processes : Inside(p) /\ At(p) = a
  /\ \A p, q \in Processes :
       (p # q /\ Inside(p) /\ Waiting(q) /\ At(q) = At(p)) => overtaken[q]
  /\ \A p, q \in Processes :
       (p # q /\ Inside(p) /\ Inside(q) /\ At(p) = At(q)) => overtaken[p] \/ overtaken[q]

-----------------------------------------------------------------------------
(* Where a process is.                                                     *)

\* malloc only looks at arenas there are.
LEMMA TriedInRange ==
  ASSUME PlaceInv, NEW p \in Processes
  PROVE  Tried(p) \in ArenaIds
<1>1. Pid[p] + arena[p] \in Nat /\ ArenaCount \in Nat \ {0}
  BY HeapAssumption DEF PlaceInv
<1>2. \A n \in Nat, c \in Nat \ {0} : n % c \in 0..(c - 1)
  OBVIOUS
<1> QED
  BY <1>1, <1>2 DEF Tried, ArenaIds

\* Every process is at an arena.
LEMMA AtInRange ==
  ASSUME PlaceInv, NEW p \in Processes
  PROVE  At(p) \in ArenaIds
BY TriedInRange DEF At, PlaceInv, Freeing

LEMMA InitiallyPlaced == Init => PlaceInv /\ LockInv
<1> SUFFICES ASSUME Init PROVE PlaceInv /\ LockInv
  OBVIOUS
<1>1. PlaceInv
  BY DEF Init, PlaceInv, Places, Busy, Freeing
<1>2. LockInv
  BY DEF Init, LockInv, Inside, Waiting
<1> QED
  BY <1>1, <1>2

-----------------------------------------------------------------------------
(* PlaceInv is inductive.                                                  *)

\* A set of natural numbers has a least element.
LEMMA LeastInSet ==
  ASSUME NEW S, S \subseteq Nat, S # {}
  PROVE  Min(S) \in S /\ \A k \in S : Min(S) <= k
<1> DEFINE R == {q \in Nat \X Nat : q[1] < q[2]}
<1>1. IsWellFoundedOn(R, Nat)
  BY NatLessThanWellFounded DEF OpToRel
<1>2. PICK n \in S : \A k \in S : ~ (<<k, n>> \in R)
  <2> HIDE DEF R
  <2> QED BY <1>1, WFMin
<1>3. ASSUME NEW k \in S PROVE n <= k
  <2>1. k < n => <<k, n>> \in R
    OBVIOUS
  <2>2. ~ (k < n)
    BY <1>2, <2>1, Zenon
  <2> QED BY <2>2
<1>4. \E m \in S : \A k \in S : m <= k
  BY <1>3
<1> QED
  BY <1>4 DEF Min

LEMMA TurnKeepsPlaces ==
  ASSUME PlaceInv, NEW p \in Processes, Turn(p)
  PROVE  PlaceInv'
<1>1. PICK s \in Slots, n \in Sizes :
        /\ x' = [x EXCEPT ![p] = s]
        /\ pc' = [pc EXCEPT ![p] = IF last[p][s] = NULL THEN "test" ELSE "spin"]
  BY DEF Turn
<1>2. pc' \in [Processes -> Places] /\ arena' \in [Processes -> Nat]
  BY <1>1 DEF Turn, PlaceInv, Places
<1>3. \A q \in Processes : pc'[q] \in Busy => x'[q] \in Slots
  BY <1>1 DEF Turn, PlaceInv, Busy
<1>4. \A q \in Processes : pc'[q] \in Freeing => last[q][x'[q]][1] \in ArenaIds
  BY <1>1 DEF Turn, PlaceInv, Freeing
<1>5. \A q \in Processes : pc'[q] = "return" => fresh[q][1] \in ArenaIds
  BY <1>1 DEF Turn, PlaceInv
<1>6. x' = [q \in Processes |-> x'[q]]
  BY <1>1 DEF PlaceInv
<1>7. UNCHANGED <<lock, last, fresh, overtaken>>
  BY DEF Turn
<1> QED
  BY <1>2, <1>3, <1>4, <1>5, <1>6, <1>7 DEF PlaceInv

LEMMA CleanUpKeepsPlaces ==
  ASSUME PlaceInv, NEW p \in Processes, CleanUp(p)
  PROVE  PlaceInv'
<1> DEFINE left == {s \in Slots : s > i[p] - N /\ last[p][s] # NULL}
<1>1. CASE left = {}
  <2>1. pc' = [pc EXCEPT ![p] = "done"] /\ UNCHANGED x
    BY <1>1 DEF CleanUp
  <2> QED
    BY <2>1 DEF CleanUp, PlaceInv, Places, Busy, Freeing
<1>2. CASE left # {}
  <2> DEFINE s == Min(left)
  <2>1. pc' = [pc EXCEPT ![p] = "spin"] /\ x' = [x EXCEPT ![p] = s]
    BY <1>2 DEF CleanUp
  <2>2. s \in left
    <3>1. left \subseteq Nat
      BY HeapAssumption DEF Slots
    <3> QED
      BY <1>2, <3>1, LeastInSet
  <2> HIDE DEF s
  <2>3. s \in Slots /\ last[p][s][1] \in ArenaIds
    BY <2>2 DEF PlaceInv
  <2> QED
    BY <2>1, <2>3 DEF CleanUp, PlaceInv, Places, Busy, Freeing
<1> QED
  BY <1>1, <1>2

\* A process that goes on with the pointer it was about.
LEMMA WalkKeepsPlaces ==
  ASSUME PlaceInv, NEW p \in Processes, NEW to \in Places \ {"return"},
         pc' = [pc EXCEPT ![p] = to],
         to \in Busy => pc[p] \in Busy,
         to \in Freeing => pc[p] \in Freeing,
         lock' \in [ArenaIds -> {0, 1}],
         arena' \in [Processes -> Nat],
         overtaken' \in [Processes -> BOOLEAN],
         UNCHANGED <<x, fresh, last>>
  PROVE  PlaceInv'
<1>1. pc' \in [Processes -> Places]
  BY DEF PlaceInv
<1>2. \A q \in Processes : pc'[q] \in Busy => x[q] \in Slots
  BY DEF PlaceInv
<1>3. \A q \in Processes : pc'[q] = "return" => fresh[q][1] \in ArenaIds
  BY DEF PlaceInv
<1>4. \A q \in Processes : pc'[q] \in Freeing => last[q][x[q]][1] \in ArenaIds
  BY DEF PlaceInv
<1> QED
  BY <1>1, <1>2, <1>3, <1>4 DEF PlaceInv

LEMMA PassLockedKeepsPlaces ==
  ASSUME PlaceInv, NEW p \in Processes, PassLocked(p)
  PROVE  PlaceInv'
<1>1. arena' \in [Processes -> Nat]
  BY DEF PassLocked, PlaceInv
<1>2. UNCHANGED <<lock, pc, x, fresh, last, overtaken>>
  BY DEF PassLocked
<1> QED
  BY <1>1, <1>2 DEF PlaceInv

LEMMA FindsFreeKeepsPlaces ==
  ASSUME PlaceInv, NEW p \in Processes, TestLock(p) \/ Spin(p)
  PROVE  PlaceInv'
<1>1. overtaken' \in [Processes -> BOOLEAN]
  BY DEF TestLock, Spin, FindsFree, PlaceInv
<1>2. lock' \in [ArenaIds -> {0, 1}] /\ arena' \in [Processes -> Nat]
  BY DEF TestLock, Spin, PlaceInv
<1>3. UNCHANGED <<x, fresh, last>>
  BY DEF TestLock, Spin
<1>4. CASE TestLock(p)
  BY <1>1, <1>2, <1>3, <1>4, WalkKeepsPlaces DEF TestLock, Goto, Places, Busy, Freeing
<1>5. CASE Spin(p)
  BY <1>1, <1>2, <1>3, <1>5, WalkKeepsPlaces DEF Spin, Goto, Places, Busy, Freeing
<1> QED
  BY <1>4, <1>5

LEMMA SetKeepsPlaces ==
  ASSUME PlaceInv, NEW p \in Processes, TakeLock(p) \/ GrabLock(p)
  PROVE  PlaceInv'
<1>1. At(p) \in ArenaIds
  BY AtInRange
<1>2. lock' = [lock EXCEPT ![At(p)] = 1] /\ overtaken' \in [Processes -> BOOLEAN]
  BY DEF TakeLock, GrabLock, Set, PlaceInv
<1>3. arena' \in [Processes -> Nat]
  BY DEF TakeLock, GrabLock, PlaceInv
<1>4. UNCHANGED <<x, fresh, last>>
  BY DEF TakeLock, GrabLock
<1> HIDE DEF At
<1>5. lock' \in [ArenaIds -> {0, 1}]
  BY <1>1, <1>2 DEF PlaceInv
<1>6. CASE TakeLock(p)
  BY <1>2, <1>3, <1>4, <1>5, <1>6, WalkKeepsPlaces DEF TakeLock, Goto, Places, Busy, Freeing
<1>7. CASE GrabLock(p)
  BY <1>2, <1>3, <1>4, <1>5, <1>7, WalkKeepsPlaces DEF GrabLock, Goto, Places, Busy, Freeing
<1> QED
  BY <1>6, <1>7

LEMMA LeaveArenaKeepsPlaces ==
  ASSUME PlaceInv, NEW p \in Processes, LeaveArena(p)
  PROVE  PlaceInv'
<1>1. Tried(p) \in ArenaIds
  BY TriedInRange
<1>2. lock' = [lock EXCEPT ![Tried(p)] = 0] /\ arena' = [arena EXCEPT ![p] = @ + 1]
  BY DEF LeaveArena
<1> HIDE DEF Tried
<1>3. lock' \in [ArenaIds -> {0, 1}] /\ arena' \in [Processes -> Nat]
  BY <1>1, <1>2 DEF PlaceInv
<1>4. overtaken' \in [Processes -> BOOLEAN] /\ UNCHANGED <<x, fresh, last>>
  BY DEF LeaveArena, PlaceInv
<1> QED
  BY <1>3, <1>4, WalkKeepsPlaces DEF LeaveArena, Goto, Places, Busy, Freeing

LEMMA PanicKeepsPlaces ==
  ASSUME PlaceInv, NEW p \in Processes, Panic(p)
  PROVE  PlaceInv'
<1>1. /\ lock' \in [ArenaIds -> {0, 1}] /\ arena' \in [Processes -> Nat]
      /\ overtaken' \in [Processes -> BOOLEAN] /\ UNCHANGED <<x, fresh, last>>
  BY DEF Panic, PlaceInv
<1> QED
  BY <1>1, WalkKeepsPlaces DEF Panic, Goto, Places, Busy, Freeing

LEMMA AllocateKeepsPlaces ==
  ASSUME PlaceInv, NEW p \in Processes, Allocate(p)
  PROVE  PlaceInv'
<1>1. Tried(p) \in ArenaIds
  BY TriedInRange
<1>2. PICK h : fresh' = [fresh EXCEPT ![p] = <<Tried(p), h>>]
  BY DEF Allocate
<1>3. lock' = [lock EXCEPT ![Tried(p)] = 0]
  BY DEF Allocate
<1> HIDE DEF Tried
<1>4. lock' \in [ArenaIds -> {0, 1}]
  BY <1>1, <1>3 DEF PlaceInv
<1>5. fresh' = [q \in Processes |-> fresh'[q]]
  BY <1>2 DEF PlaceInv
<1>6. \A q \in Processes : pc'[q] = "return" => fresh'[q][1] \in ArenaIds
  BY <1>1, <1>2 DEF Allocate, Goto, PlaceInv
<1>7. pc' = [pc EXCEPT ![p] = "return"] /\ pc[p] = "search"
  BY DEF Allocate, Goto
<1>8. /\ pc' \in [Processes -> Places]
      /\ \A q \in Processes : pc'[q] \in Busy => x[q] \in Slots
      /\ \A q \in Processes : pc'[q] \in Freeing => last[q][x[q]][1] \in ArenaIds
  BY <1>7 DEF PlaceInv, Places, Busy, Freeing
<1>9. UNCHANGED <<x, arena, last, overtaken>>
  BY DEF Allocate
<1> QED
  BY <1>4, <1>5, <1>6, <1>8, <1>9 DEF PlaceInv

LEMMA ReturnBlockKeepsPlaces ==
  ASSUME PlaceInv, NEW p \in Processes, ReturnBlock(p)
  PROVE  PlaceInv'
<1>1. PICK k : last' = [last EXCEPT ![p][x[p]] = <<fresh[p][1], k>>]
  BY DEF ReturnBlock
<1>2. fresh[p][1] \in ArenaIds /\ x[p] \in Slots
  BY DEF ReturnBlock, Goto, PlaceInv, Busy
<1>3. last' = [q \in Processes |-> [s \in Slots |-> last'[q][s]]]
  BY <1>1, <1>2 DEF PlaceInv
<1>4. \A q \in Processes, s \in Slots : last'[q][s] = NULL \/ last'[q][s][1] \in ArenaIds
  BY <1>1, <1>2 DEF PlaceInv
<1>5. \A q \in Processes : q # p => last'[q] = last[q]
  BY <1>1 DEF PlaceInv
<1>6. \A q \in Processes : pc'[q] \in Freeing => last'[q][x'[q]][1] \in ArenaIds
  BY <1>5 DEF ReturnBlock, Goto, PlaceInv, Freeing
<1> QED
  BY <1>3, <1>4, <1>6 DEF ReturnBlock, Goto, PlaceInv, Places, Busy, Freeing

LEMMA FreeBlockKeepsPlaces ==
  ASSUME PlaceInv, NEW p \in Processes, FreeBlock(p)
  PROVE  PlaceInv'
<1>1. At(p) \in ArenaIds /\ x[p] \in Slots
  BY AtInRange DEF FreeBlock, PlaceInv, Busy, Freeing
<1>2. lock' = [lock EXCEPT ![At(p)] = 0]
  BY DEF FreeBlock
<1> HIDE DEF At
<1>3. lock' \in [ArenaIds -> {0, 1}]
  BY <1>1, <1>2 DEF PlaceInv
<1>4. CASE i[p] < N
  <2>1. last' = [last EXCEPT ![p][x[p]] = NULL] /\ pc' = [pc EXCEPT ![p] = "test"]
    BY <1>4 DEF FreeBlock
  <2>2. last' = [q \in Processes |-> [s \in Slots |-> last'[q][s]]]
    BY <1>1, <2>1 DEF PlaceInv
  <2>3. \A q \in Processes, s \in Slots : last'[q][s] = NULL \/ last'[q][s][1] \in ArenaIds
    BY <1>1, <2>1 DEF PlaceInv
  <2>4. \A q \in Processes : q # p => last'[q] = last[q]
    BY <2>1 DEF PlaceInv
  <2>5. \A q \in Processes : pc'[q] \in Freeing => last'[q][x'[q]][1] \in ArenaIds
    BY <2>1, <2>4 DEF FreeBlock, PlaceInv, Freeing
  <2> QED
    BY <1>3, <2>1, <2>2, <2>3, <2>5 DEF FreeBlock, PlaceInv, Places, Busy, Freeing
<1>5. CASE ~(i[p] < N)
  <2>1. pc' = [pc EXCEPT ![p] = "turn"] /\ UNCHANGED last
    BY <1>5 DEF FreeBlock
  <2>2. arena' \in [Processes -> Nat] /\ overtaken' \in [Processes -> BOOLEAN] /\ UNCHANGED <<x, fresh>>
    BY DEF FreeBlock, PlaceInv
  <2> QED
    BY <1>3, <2>1, <2>2, WalkKeepsPlaces DEF FreeBlock, Places, Busy, Freeing
<1> QED
  BY <1>4, <1>5

-----------------------------------------------------------------------------
(* LockInv is inductive: the four things a step may do to a lock.          *)

\* Where the others are is up to them.
StepOf(p) == \A q \in Processes \ {p} : pc'[q] = pc[q] /\ At(q)' = At(q)

\* p is neither in an arena nor about to take its lock.
LEMMA ElsewhereKeepsLocks ==
  ASSUME LockInv, NEW p \in Processes, StepOf(p),
         pc[p] \notin {"search", "flip"},
         pc'[p] \notin {"search", "flip", "take", "grab"},
         UNCHANGED <<lock, overtaken>>
  PROVE  LockInv'
<1>1. \A q \in Processes : Inside(q)' => q # p /\ Inside(q) /\ At(q)' = At(q)
  BY DEF Inside, StepOf
<1>2. \A q \in Processes : Waiting(q)' => q # p /\ Waiting(q) /\ At(q)' = At(q)
  BY DEF Waiting, StepOf
<1>3. \A q \in Processes : Inside(q) => Inside(q)' /\ At(q)' = At(q)
  BY DEF Inside, StepOf
<1> HIDE DEF At, Inside, Waiting
<1>4. \A q \in Processes : Inside(q)' => lock'[At(q)'] = 1
  BY <1>1 DEF LockInv
<1>5. \A a \in ArenaIds : lock'[a] = 1 => \E q \in Processes : Inside(q)' /\ At(q)' = a
  BY <1>3 DEF LockInv
<1>6. \A r, q \in Processes :
        (r # q /\ Inside(r)' /\ Waiting(q)' /\ At(q)' = At(r)') => overtaken'[q]
  BY <1>1, <1>2 DEF LockInv
<1>7. \A r, q \in Processes :
        (r # q /\ Inside(r)' /\ Inside(q)' /\ At(r)' = At(q)') => overtaken'[r] \/ overtaken'[q]
  BY <1>1 DEF LockInv
<1> QED
  BY <1>4, <1>5, <1>6, <1>7 DEF LockInv

\* p has found the lock free.
LEMMA FindingKeepsLocks ==
  ASSUME LockInv, NEW p \in Processes, StepOf(p),
         pc[p] \notin {"search", "flip"},
         pc'[p] \in {"take", "grab"},
         At(p)' = At(p), At(p) \in ArenaIds, lock[At(p)] = 0,
         UNCHANGED lock,
         \A q \in Processes \ {p} : overtaken'[q] = overtaken[q]
  PROVE  LockInv'
<1>1. \A q \in Processes : Inside(q)' <=> Inside(q)
  BY DEF Inside, StepOf
<1>2. \A q \in Processes : At(q)' = At(q)
  BY DEF StepOf
<1>3. \A q \in Processes \ {p} : Waiting(q)' <=> Waiting(q)
  BY DEF Waiting, StepOf
<1>4. ~ Inside(p)
  BY DEF Inside
<1> HIDE DEF At, Inside, Waiting
<1>5. \A q \in Processes : Inside(q) => At(q) # At(p)
  BY DEF LockInv
<1>6. \A q \in Processes : Inside(q)' => lock'[At(q)'] = 1
  BY <1>1, <1>2 DEF LockInv
<1>7. \A a \in ArenaIds : lock'[a] = 1 => \E q \in Processes : Inside(q)' /\ At(q)' = a
  BY <1>1, <1>2 DEF LockInv
<1>8. \A r, q \in Processes :
        (r # q /\ Inside(r)' /\ Waiting(q)' /\ At(q)' = At(r)') => overtaken'[q]
  BY <1>1, <1>2, <1>3, <1>5 DEF LockInv
<1>9. \A r, q \in Processes :
        (r # q /\ Inside(r)' /\ Inside(q)' /\ At(r)' = At(q)') => overtaken'[r] \/ overtaken'[q]
  BY <1>1, <1>2, <1>4 DEF LockInv
<1> QED
  BY <1>6, <1>7, <1>8, <1>9 DEF LockInv

\* p sets the lock it has found free; the others that have are overtaken.
LEMMA SettingKeepsLocks ==
  ASSUME LockInv, PlaceInv, NEW p \in Processes, StepOf(p),
         Waiting(p), Set(p),
         pc'[p] \in {"search", "flip"}, At(p)' = At(p)
  PROVE  LockInv'
<1>1. At(p) \in ArenaIds
  BY AtInRange
<1>2. \A q \in Processes : At(q)' = At(q)
  BY DEF StepOf
<1>3. Inside(p)' /\ ~Waiting(p)' /\ ~Inside(p)
  BY DEF Inside, Waiting
<1>4. \A q \in Processes \ {p} : (Inside(q)' <=> Inside(q)) /\ (Waiting(q)' <=> Waiting(q))
  BY DEF Inside, Waiting, StepOf
<1>5. lock' = [lock EXCEPT ![At(p)] = 1]
  BY DEF Set
<1>6. \A q \in Processes :
        overtaken'[q] <=> (overtaken[q] \/ (q # p /\ Waiting(q) /\ At(q) = At(p)))
  BY DEF Set, Waiting, PlaceInv
<1> HIDE DEF At, Inside, Waiting
<1>7. \A a \in ArenaIds : lock'[a] = IF a = At(p) THEN 1 ELSE lock[a]
  BY <1>5 DEF PlaceInv
<1>8. \A q \in Processes : At(q) \in ArenaIds
  BY AtInRange
<1>9. \A q \in Processes : Inside(q)' => lock'[At(q)'] = 1
  BY <1>2, <1>4, <1>7, <1>8 DEF LockInv
<1>10. \A a \in ArenaIds : lock'[a] = 1 => \E q \in Processes : Inside(q)' /\ At(q)' = a
  BY <1>2, <1>3, <1>4, <1>7 DEF LockInv
<1>11. \A r, q \in Processes :
        (r # q /\ Inside(r)' /\ Waiting(q)' /\ At(q)' = At(r)') => overtaken'[q]
  BY <1>2, <1>3, <1>4, <1>6 DEF LockInv
<1>12. \A r, q \in Processes :
        (r # q /\ Inside(r)' /\ Inside(q)' /\ At(r)' = At(q)') => overtaken'[r] \/ overtaken'[q]
  BY <1>2, <1>3, <1>4, <1>6 DEF LockInv
<1> QED
  BY <1>9, <1>10, <1>11, <1>12 DEF LockInv

\* p, alone in its arena, clears the lock and leaves.
LEMMA ClearingKeepsLocks ==
  ASSUME LockInv, PlaceInv, NEW p \in Processes, StepOf(p), ~Raced,
         Inside(p), lock' = [lock EXCEPT ![At(p)] = 0], UNCHANGED overtaken,
         pc'[p] \notin {"search", "flip", "take", "grab"}
  PROVE  LockInv'
<1>1. \A q \in Processes : At(q) \in ArenaIds
  BY AtInRange
<1>2. ~Inside(p)' /\ ~Waiting(p)'
  BY DEF Inside, Waiting
<1>3. \A q \in Processes \ {p} :
        At(q)' = At(q) /\ (Inside(q)' <=> Inside(q)) /\ (Waiting(q)' <=> Waiting(q))
  BY DEF Inside, Waiting, StepOf
<1>4. \A q \in Processes \ {p} : Inside(q) => At(q) # At(p)
  BY DEF Raced
<1> HIDE DEF At, Inside, Waiting
<1>5. \A a \in ArenaIds : lock'[a] = IF a = At(p) THEN 0 ELSE lock[a]
  BY DEF PlaceInv
<1>6. \A q \in Processes : Inside(q)' => lock'[At(q)'] = 1
  BY <1>1, <1>2, <1>3, <1>4, <1>5 DEF LockInv
<1>7. \A a \in ArenaIds : lock'[a] = 1 => \E q \in Processes : Inside(q)' /\ At(q)' = a
  BY <1>3, <1>5 DEF LockInv
<1>8. \A r, q \in Processes :
        (r # q /\ Inside(r)' /\ Waiting(q)' /\ At(q)' = At(r)') => overtaken'[q]
  BY <1>2, <1>3 DEF LockInv
<1>9. \A r, q \in Processes :
        (r # q /\ Inside(r)' /\ Inside(q)' /\ At(r)' = At(q)') => overtaken'[r] \/ overtaken'[q]
  BY <1>2, <1>3 DEF LockInv
<1> QED
  BY <1>6, <1>7, <1>8, <1>9 DEF LockInv

-----------------------------------------------------------------------------
(* The actions.                                                            *)

\* An action of p that changes pc, arena, x and last, if at all, at p.
LEMMA OthersStay ==
  ASSUME PlaceInv, NEW p \in Processes,
         \A q \in Processes \ {p} :
           pc'[q] = pc[q] /\ arena'[q] = arena[q] /\ x'[q] = x[q] /\ last'[q] = last[q]
  PROVE  StepOf(p)
BY DEF StepOf, At, Tried

LEMMA StepStaysItsOwn ==
  ASSUME PlaceInv, NEW p \in Processes, Step(p)
  PROVE  StepOf(p)
<1>1. \A q \in Processes \ {p} : pc'[q] = pc[q]
  BY DEF Step, Turn, CleanUp, PassLocked, TestLock, TakeLock, Allocate, LeaveArena, Panic,
         ReturnBlock, Spin, GrabLock, FreeBlock, Goto, PlaceInv
<1>2. \A q \in Processes \ {p} : arena'[q] = arena[q]
  BY DEF Step, Turn, CleanUp, PassLocked, TestLock, TakeLock, Allocate, LeaveArena, Panic,
         ReturnBlock, Spin, GrabLock, FreeBlock, PlaceInv
<1>3. \A q \in Processes \ {p} : x'[q] = x[q]
  BY DEF Step, Turn, CleanUp, PassLocked, TestLock, TakeLock, Allocate, LeaveArena, Panic,
         ReturnBlock, Spin, GrabLock, FreeBlock, PlaceInv
<1>4. \A q \in Processes \ {p} : last'[q] = last[q]
  BY DEF Step, Turn, CleanUp, PassLocked, TestLock, TakeLock, Allocate, LeaveArena, Panic,
         ReturnBlock, Spin, GrabLock, FreeBlock, PlaceInv
<1> QED
  BY <1>1, <1>2, <1>3, <1>4, OthersStay

LEMMA StepKeepsPlaces ==
  ASSUME PlaceInv, NEW p \in Processes, Step(p)
  PROVE  PlaceInv'
BY TurnKeepsPlaces, CleanUpKeepsPlaces, PassLockedKeepsPlaces, FindsFreeKeepsPlaces,
   SetKeepsPlaces, AllocateKeepsPlaces, LeaveArenaKeepsPlaces, PanicKeepsPlaces,
   ReturnBlockKeepsPlaces, FreeBlockKeepsPlaces DEF Step

LEMMA StepKeepsLocks ==
  ASSUME PlaceInv, LockInv, ~Raced, NEW p \in Processes, Step(p)
  PROVE  LockInv'
<1>1. StepOf(p)
  BY StepStaysItsOwn
<1>2. At(p) \in ArenaIds
  BY AtInRange
<1>3. CASE Turn(p)
  BY <1>1, <1>3, ElsewhereKeepsLocks DEF Turn, PlaceInv
<1>4. CASE CleanUp(p)
  BY <1>1, <1>4, ElsewhereKeepsLocks DEF CleanUp, PlaceInv
<1>5. CASE PassLocked(p)
  BY <1>1, <1>5, ElsewhereKeepsLocks DEF PassLocked, PlaceInv
<1>6. CASE Panic(p)
  BY <1>1, <1>6, ElsewhereKeepsLocks DEF Panic, Goto, PlaceInv
<1>7. CASE ReturnBlock(p)
  BY <1>1, <1>7, ElsewhereKeepsLocks DEF ReturnBlock, Goto, PlaceInv
<1>8. CASE TestLock(p)
  <2>1. pc[p] = "test" /\ pc'[p] = "take" /\ UNCHANGED lock /\ UNCHANGED arena
    BY <1>8 DEF TestLock, Goto, PlaceInv
  <2>2. At(p) = Tried(p) /\ At(p)' = At(p) /\ lock[At(p)] = 0
    BY <1>8, <2>1 DEF TestLock, At, Tried
  <2>3. \A q \in Processes \ {p} : overtaken'[q] = overtaken[q]
    BY <1>8 DEF TestLock, FindsFree, PlaceInv
  <2> QED
    BY <1>1, <1>2, <2>1, <2>2, <2>3, FindingKeepsLocks
<1>9. CASE Spin(p)
  <2>1. pc[p] = "spin" /\ pc'[p] = "grab" /\ UNCHANGED <<lock, last, x>>
    BY <1>9 DEF Spin, Goto, PlaceInv
  <2>2. At(p)' = At(p) /\ lock[At(p)] = 0
    BY <1>9, <2>1 DEF Spin, At
  <2>3. \A q \in Processes \ {p} : overtaken'[q] = overtaken[q]
    BY <1>9 DEF Spin, FindsFree, PlaceInv
  <2> QED
    BY <1>1, <1>2, <2>1, <2>2, <2>3, FindingKeepsLocks
<1>10. CASE TakeLock(p)
  <2>1. Waiting(p) /\ pc'[p] = "search" /\ Set(p) /\ At(p)' = At(p)
    BY <1>10 DEF TakeLock, Goto, PlaceInv, Waiting, At, Tried
  <2> QED
    BY <1>1, <2>1, SettingKeepsLocks
<1>11. CASE GrabLock(p)
  <2>1. Waiting(p) /\ pc'[p] = "flip" /\ Set(p) /\ At(p)' = At(p)
    BY <1>11 DEF GrabLock, Goto, PlaceInv, Waiting, At
  <2> QED
    BY <1>1, <2>1, SettingKeepsLocks
<1>12. CASE Allocate(p)
  <2>1. Inside(p) /\ At(p) = Tried(p) /\ pc'[p] = "return"
    BY <1>12 DEF Allocate, Goto, PlaceInv, Inside, At
  <2>2. lock' = [lock EXCEPT ![Tried(p)] = 0] /\ UNCHANGED overtaken
    BY <1>12 DEF Allocate
  <2> QED
    BY <1>1, <2>1, <2>2, ClearingKeepsLocks
<1>13. CASE LeaveArena(p)
  <2>1. Inside(p) /\ At(p) = Tried(p) /\ pc'[p] = "test"
    BY <1>13 DEF LeaveArena, Goto, PlaceInv, Inside, At
  <2>2. lock' = [lock EXCEPT ![Tried(p)] = 0] /\ UNCHANGED overtaken
    BY <1>13 DEF LeaveArena
  <2> QED
    BY <1>1, <2>1, <2>2, ClearingKeepsLocks
<1>14. CASE FreeBlock(p)
  <2>1. Inside(p) /\ pc'[p] \in {"test", "turn"}
    BY <1>14 DEF FreeBlock, PlaceInv, Inside
  <2>2. lock' = [lock EXCEPT ![At(p)] = 0] /\ UNCHANGED overtaken
    BY <1>14 DEF FreeBlock
  <2> QED
    BY <1>1, <2>1, <2>2, ClearingKeepsLocks
<1> QED
  BY <1>3, <1>4, <1>5, <1>6, <1>7, <1>8, <1>9, <1>10, <1>11, <1>12, <1>13, <1>14 DEF Step

\* What names none of the other variables does not change with them.
LEMMA StutterKeeps == PlaceInv /\ LockInv /\ UNCHANGED vars => PlaceInv' /\ LockInv'
<1> SUFFICES ASSUME PlaceInv, LockInv, UNCHANGED vars PROVE PlaceInv' /\ LockInv'
  OBVIOUS
<1>1. PlaceInv'
  BY DEF vars, PlaceInv
<1>2. \A q \in Processes :
        At(q)' = At(q) /\ (Inside(q)' <=> Inside(q)) /\ (Waiting(q)' <=> Waiting(q))
  BY DEF vars, Inside, Waiting, At, Tried
<1>3. UNCHANGED <<lock, overtaken>>
  BY DEF vars
<1> HIDE DEF At, Inside, Waiting
<1>4. LockInv'
  BY <1>2, <1>3 DEF LockInv
<1> QED
  BY <1>1, <1>4

\* Both invariants hold of the heap and of t1, for any number of processes,
\* arenas, pointers and turns.
THEOREM LockInvariant == Spec => [](PlaceInv /\ LockInv)
<1>1. Init => PlaceInv /\ LockInv
  BY InitiallyPlaced
<1>2. PlaceInv /\ LockInv /\ [Next]_vars => PlaceInv' /\ LockInv'
  BY StepKeepsPlaces, StepKeepsLocks, StutterKeeps DEF Next
<1> QED
  BY <1>1, <1>2, PTL DEF Spec

\* A lock is set exactly while a process is in its arena, and two are in one
\* only after one was overtaken between testing the lock and setting it
\* (heap.c 125 to 126 and 149 to 150).
THEOREM AlwaysExclusiveUnlessOvertaken == Spec => []ExclusiveUnlessOvertaken
<1>1. PlaceInv /\ LockInv => ExclusiveUnlessOvertaken
  <2> SUFFICES ASSUME PlaceInv, LockInv PROVE ExclusiveUnlessOvertaken
    OBVIOUS
  <2> HIDE DEF At, Inside
  <2> QED
    BY DEF LockInv, ExclusiveUnlessOvertaken
<1> QED
  BY <1>1, LockInvariant, PTL

-----------------------------------------------------------------------------
(* Going from header to header.  The recursive functions of the model all  *)
(* follow a function `next` that goes up, until they leave its domain.     *)

IsChain(f, next) ==
  f = [h \in Int |-> IF h \in DOMAIN next THEN {h} \cup f[next[h]] ELSE {h}]

Ascends(next) ==
  /\ DOMAIN next \subseteq Words
  /\ \A h \in DOMAIN next : next[h] \in Int /\ next[h] > h

Closed(H, next) == \A h \in H \cap DOMAIN next : next[h] \in H

\* Induction from the last word of an arena down.
LEMMA DownTheWords ==
  ASSUME NEW S, \A h \in Int \ Words : h \in S,
         \A h \in Words : (\A k \in Int : k > h => k \in S) => h \in S
  PROVE  \A h \in Int : h \in S
<1> SUFFICES ASSUME NEW g \in Int, g \notin S PROVE FALSE
  OBVIOUS
<1> DEFINE Out == {n \in Nat : n <= LastAddress /\ LastAddress - n \notin S}
<1>1. g \in Words
  OBVIOUS
<1>2. LastAddress - g \in Out
  BY <1>1, HeapAssumption DEF Words
<1>3. Min(Out) \in Out /\ \A n \in Out : Min(Out) <= n
  BY <1>2, LeastInSet
<1> DEFINE m == Min(Out)
           h == LastAddress - m
<1> HIDE DEF m
<1>4. h \in Words /\ h \notin S
  BY <1>3, HeapAssumption DEF Words, m
<1>5. ASSUME NEW k \in Int, k > h, k \notin S PROVE FALSE
  <2>1. k \in Words
    BY <1>5
  <2>2. LastAddress - k \in Out
    BY <2>1, <1>5, HeapAssumption DEF Words
  <2>3. m <= LastAddress - k
    BY <1>3, <2>2 DEF m
  <2> QED BY <2>1, <2>3, <1>5, <1>3, HeapAssumption DEF Words, m
<1> QED BY <1>4, <1>5

\* There is such a function: its value at h is what every closed set that has
\* h has in common.
LEMMA ChainExists ==
  ASSUME NEW D, D \subseteq Int, NEW next \in [D -> Int]
  PROVE  \E f : IsChain(f, next)
<1> DEFINE Reach(h) == {k \in Int : \A C \in SUBSET Int : h \in C /\ Closed(C, next) => k \in C}
           F == [h \in Int |-> Reach(h)]
<1>1. ASSUME NEW h \in Int
      PROVE  h \in Reach(h) /\ Closed(Reach(h), next) /\ Reach(h) \in SUBSET Int
  BY DEF Closed
<1>2. ASSUME NEW h \in Int, h \notin D PROVE Reach(h) = {h}
  <2>1. {h} \in SUBSET Int /\ Closed({h}, next)
    BY <1>2 DEF Closed
  <2> QED BY <2>1, <1>1
<1>3. ASSUME NEW h \in D PROVE Reach(h) = {h} \cup Reach(next[h])
  <2>1. next[h] \in Int /\ h \in Int
    OBVIOUS
  <2> DEFINE R == {h} \cup Reach(next[h])
  <2>2. R \in SUBSET Int /\ h \in R /\ Closed(R, next)
    BY <2>1, <1>1 DEF Closed
  <2>3. Reach(h) \subseteq R
    BY <2>2
  <2>4. next[h] \in Reach(h)
    BY <1>1, <2>1 DEF Closed
  <2>5. Reach(next[h]) \subseteq Reach(h)
    BY <1>1, <2>1, <2>4
  <2> QED BY <2>1, <2>3, <2>5, <1>1
<1>4. IsChain(F, next)
  BY <1>2, <1>3 DEF IsChain
<1> QED BY <1>4

\* The equation, case by case.
LEMMA ChainStep ==
  ASSUME NEW next, Ascends(next), NEW f, IsChain(f, next)
  PROVE  /\ \A h \in DOMAIN next : h \in Int /\ next[h] \in Int /\ f[h] = {h} \cup f[next[h]]
         /\ \A h \in Int \ DOMAIN next : f[h] = {h}
<1>1. \A h \in Int : f[h] = IF h \in DOMAIN next THEN {h} \cup f[next[h]] ELSE {h}
  BY Zenon DEF IsChain
<1>2. \A h \in DOMAIN next : h \in Int /\ next[h] \in Int
  BY HeapAssumption DEF Ascends, Words
<1> QED BY <1>1, <1>2

\* A chain goes up from where it starts.
LEMMA ChainRange ==
  ASSUME NEW next, Ascends(next), NEW f, IsChain(f, next), NEW g \in Int
  PROVE  g \in f[g] /\ \A m \in f[g] : m \in Int /\ m >= g
<1> DEFINE S == {h \in Int : h \in f[h] /\ \A m \in f[h] : m \in Int /\ m >= h}
<1>1. \A h \in Int \ Words : h \in S
  BY ChainStep DEF Ascends
<1>2. ASSUME NEW h \in Words, \A k \in Int : k > h => k \in S PROVE h \in S
  <2>1. h \in Int
    BY HeapAssumption DEF Words
  <2>2. CASE h \notin DOMAIN next
    BY <2>1, <2>2, ChainStep
  <2>3. CASE h \in DOMAIN next
    <3>1. next[h] \in S /\ next[h] > h /\ next[h] \in Int
      BY <1>2, <2>3 DEF Ascends
    <3>2. f[h] = {h} \cup f[next[h]]
      BY <2>3, ChainStep
    <3> QED BY <2>1, <3>1, <3>2
  <2> QED BY <2>2, <2>3
<1> HIDE DEF S
<1>3. g \in S
  BY <1>1, <1>2, DownTheWords
<1> QED BY <1>3 DEF S

\* A chain is closed.
LEMMA ChainClosed ==
  ASSUME NEW next, Ascends(next), NEW f, IsChain(f, next), NEW g \in Int
  PROVE  Closed(f[g], next)
<1> DEFINE S == {h \in Int : Closed(f[h], next)}
<1>1. ASSUME NEW h \in Int, h \notin DOMAIN next PROVE h \in S
  BY <1>1, ChainStep DEF Closed
<1>2. ASSUME NEW h \in Words, \A k \in Int : k > h => k \in S PROVE h \in S
  <2>1. h \in Int
    BY HeapAssumption DEF Words
  <2>2. CASE h \notin DOMAIN next
    BY <1>1, <2>1, <2>2
  <2>3. CASE h \in DOMAIN next
    <3>1. next[h] \in S /\ next[h] \in Int
      BY <1>2, <2>3 DEF Ascends
    <3>2. f[h] = {h} \cup f[next[h]] /\ next[h] \in f[next[h]]
      BY <2>3, <3>1, ChainStep, ChainRange
    <3> QED BY <2>1, <3>1, <3>2 DEF Closed
  <2> QED BY <2>2, <2>3
<1>3. \A h \in Int \ Words : h \in S
  BY <1>1 DEF Ascends
<1> HIDE DEF S
<1>4. g \in S
  BY <1>2, <1>3, DownTheWords
<1> QED BY <1>4 DEF S

\* It is the least closed set with its start.
LEMMA ChainLeast ==
  ASSUME NEW next, Ascends(next), NEW f, IsChain(f, next), NEW g \in Int,
         NEW H, g \in H, Closed(H, next)
  PROVE  f[g] \subseteq H
<1> DEFINE S == {h \in Int : h \in H => f[h] \subseteq H}
<1>1. ASSUME NEW h \in Int, h \notin DOMAIN next PROVE h \in S
  BY <1>1, ChainStep
<1>2. ASSUME NEW h \in Words, \A k \in Int : k > h => k \in S PROVE h \in S
  <2>1. h \in Int
    BY HeapAssumption DEF Words
  <2>2. CASE h \notin DOMAIN next
    BY <1>1, <2>1, <2>2
  <2>3. CASE h \in DOMAIN next
    <3>1. next[h] \in S /\ next[h] \in Int
      BY <1>2, <2>3 DEF Ascends
    <3>2. f[h] = {h} \cup f[next[h]]
      BY <2>3, ChainStep
    <3> QED BY <2>1, <2>3, <3>1, <3>2 DEF Closed
  <2> QED BY <2>2, <2>3
<1>3. \A h \in Int \ Words : h \in S
  BY <1>1 DEF Ascends
<1> HIDE DEF S
<1>4. g \in S
  BY <1>2, <1>3, DownTheWords
<1> QED BY <1>4 DEF S

\* Between a member and the one behind it there is none.
LEMMA ChainGap ==
  ASSUME NEW next, Ascends(next), NEW f, IsChain(f, next), NEW g \in Int,
         NEW k \in f[g] \cap DOMAIN next, NEW m \in f[g]
  PROVE  m <= k \/ m >= next[k]
<1> DEFINE H == {h \in Int : k \in f[h] \/ h >= next[k]}
<1>1. k \in Int /\ next[k] \in Int
  BY ChainStep
<1>2. Closed(H, next)
  <2> SUFFICES ASSUME NEW h \in H, h \in DOMAIN next PROVE next[h] \in H
    BY DEF Closed
  <2>1. h \in Int /\ next[h] \in Int /\ next[h] > h /\ f[h] = {h} \cup f[next[h]]
    BY ChainStep DEF Ascends
  <2> QED BY <1>1, <2>1
<1>3. f[g] \subseteq H
  BY <1>2, ChainLeast
<1>4. m \in Int /\ (k \in f[m] => m <= k)
  BY <1>1, <1>3, ChainRange
<1> QED BY <1>3, <1>4

\* It ends: one member is outside the domain.
LEMMA ChainEnds ==
  ASSUME NEW next, Ascends(next), NEW f, IsChain(f, next), NEW g \in Int
  PROVE  \E e \in f[g] : e \notin DOMAIN next /\ \A d \in f[g] : d \notin DOMAIN next => d = e
<1> DEFINE S == {h \in Int : \E e \in f[h] : e \notin DOMAIN next
                                /\ \A d \in f[h] : d \notin DOMAIN next => d = e}
<1>1. ASSUME NEW h \in Int, h \notin DOMAIN next PROVE h \in S
  BY <1>1, ChainStep
<1>2. ASSUME NEW h \in Words, \A k \in Int : k > h => k \in S PROVE h \in S
  <2>1. h \in Int
    BY HeapAssumption DEF Words
  <2>2. CASE h \notin DOMAIN next
    BY <1>1, <2>1, <2>2
  <2>3. CASE h \in DOMAIN next
    <3>1. next[h] \in S /\ next[h] \in Int
      BY <1>2, <2>3 DEF Ascends
    <3>2. f[h] = {h} \cup f[next[h]]
      BY <2>3, ChainStep
    <3> QED BY <2>1, <2>3, <3>1, <3>2
  <2> QED BY <2>2, <2>3
<1>3. \A h \in Int \ Words : h \in S
  BY <1>1 DEF Ascends
<1> HIDE DEF S
<1>4. g \in S
  BY <1>2, <1>3, DownTheWords
<1> QED BY <1>4 DEF S

-----------------------------------------------------------------------------
(* The blocks of an arena.                                                 *)

Memory == [Words -> Int]

(* Going from header to header ends just behind the last word, and an      *)
(* allocated block has room for its pad and a word.                        *)
WellFormed(w) ==
  /\ Headers(w) \ Words = {LastAddress + 1}
  /\ \A h \in Headers(w) \cap Words : w[h] >= 0 => w[h] >= Need(1, h)

Taken(w) == {h \in Headers(w) \cap Words : w[h] >= 0}

\* The words of an arena are its first ones.
LEMMA WordsAreInts == Words \subseteq Int /\ LastAddress \in Int /\ 0 \in Words /\ 0 \in Int
BY HeapAssumption DEF Words

\* The next header is further up.
LEMMA BehindAscends ==
  ASSUME NEW w \in Memory
  PROVE  Ascends(Behind(w)) /\ Behind(w) \in [Words -> Int] /\ DOMAIN Behind(w) = Words
<1>1. ASSUME NEW h \in Words PROVE Behind(w)[h] \in Int /\ Behind(w)[h] > h
  <2>1. h \in Int /\ w[h] \in Int
    BY WordsAreInts DEF Memory
  <2> QED BY <2>1 DEF Behind, Not
<1> QED BY <1>1 DEF Ascends, Behind

\* Headers is such a chain.
LEMMA HeadersChain ==
  ASSUME NEW w \in Memory
  PROVE  \E f : IsChain(f, Behind(w)) /\ Headers(w) = f[0]
<1> DEFINE F(f) == f = [h \in Int |-> IF h \in Words THEN {h} \cup f[Behind(w)[h]] ELSE {h}]
<1>1. DOMAIN Behind(w) = Words
  BY BehindAscends
<1>2. \A f : F(f) <=> IsChain(f, Behind(w))
  BY <1>1 DEF IsChain
<1>3. \E f : F(f)
  BY <1>2, BehindAscends, ChainExists, WordsAreInts
<1> DEFINE c == CHOOSE f : F(f)
<1>4. F(c)
  BY <1>3, Zenon
<1>5. Headers(w) = c[0]
  BY Zenon DEF Headers
<1> HIDE DEF F, c
<1> QED BY <1>2, <1>4, <1>5

\* 0 is a header, and so is what is behind one.
LEMMA HeadersClosed ==
  ASSUME NEW w \in Memory
  PROVE  /\ 0 \in Headers(w)
         /\ \A h \in Headers(w) : h \in Int /\ h >= 0
         /\ \A h \in Headers(w) \cap Words : Behind(w)[h] \in Headers(w)
<1>1. PICK f : IsChain(f, Behind(w)) /\ Headers(w) = f[0]
  BY HeadersChain
<1>2. Closed(f[0], Behind(w))
  BY <1>1, BehindAscends, ChainClosed, WordsAreInts
<1>3. 0 \in f[0] /\ \A m \in f[0] : m \in Int /\ m >= 0
  BY <1>1, BehindAscends, ChainRange, WordsAreInts
<1> QED BY <1>1, <1>2, <1>3, BehindAscends DEF Closed

\* Nothing else is a header.
LEMMA HeadersLeast ==
  ASSUME NEW w \in Memory, NEW H, 0 \in H, \A h \in H \cap Words : Behind(w)[h] \in H
  PROVE  Headers(w) \subseteq H
<1>1. PICK f : IsChain(f, Behind(w)) /\ Headers(w) = f[0]
  BY HeadersChain
<1>2. Closed(H, Behind(w))
  BY BehindAscends DEF Closed
<1> QED BY <1>1, <1>2, BehindAscends, ChainLeast, WordsAreInts

\* There is no header within a block.
LEMMA HeadersGap ==
  ASSUME NEW w \in Memory, NEW h \in Headers(w) \cap Words, NEW m \in Headers(w)
  PROVE  m <= h \/ m >= Behind(w)[h]
<1>1. PICK f : IsChain(f, Behind(w)) /\ Headers(w) = f[0]
  BY HeadersChain
<1>2. h \in f[0] \cap DOMAIN Behind(w) /\ m \in f[0]
  BY <1>1, BehindAscends
<1> QED BY <1>1, <1>2, BehindAscends, ChainGap, WordsAreInts

\* Of the headers one is outside the arena.
LEMMA HeadersEnd ==
  ASSUME NEW w \in Memory, NEW e \in Headers(w), e \notin Words
  PROVE  Headers(w) \ Words = {e}
<1>1. PICK f : IsChain(f, Behind(w)) /\ Headers(w) = f[0]
  BY HeadersChain
<1>2. PICK g \in f[0] : g \notin Words /\ \A d \in f[0] : d \notin Words => d = g
  BY <1>1, BehindAscends, ChainEnds, WordsAreInts
<1> QED BY <1>1, <1>2

LEMMA HeadersLeave ==
  ASSUME NEW w \in Memory
  PROVE  \E e \in Headers(w) : e \notin Words
<1>1. PICK f : IsChain(f, Behind(w)) /\ Headers(w) = f[0]
  BY HeadersChain
<1> QED BY <1>1, BehindAscends, ChainEnds, WordsAreInts

\* In a well-formed arena the headers are words of it, and one past the last.
LEMMA HeadersWithin ==
  ASSUME NEW w \in Memory, WellFormed(w)
  PROVE  /\ LastAddress + 1 \in Headers(w)
         /\ \A h \in Headers(w) : h \in Words \/ h = LastAddress + 1
         /\ \A h \in Headers(w) \cap Words : Behind(w)[h] <= LastAddress + 1
<1>1. LastAddress + 1 \in Headers(w) /\ \A h \in Headers(w) : h \in Words \/ h = LastAddress + 1
  BY DEF WellFormed
<1>2. ASSUME NEW h \in Headers(w) \cap Words PROVE Behind(w)[h] <= LastAddress + 1
  <2>1. Behind(w)[h] \in Headers(w) /\ LastAddress \in Int
    BY HeadersClosed, HeapAssumption
  <2> QED BY <1>1, <2>1 DEF Words
<1> QED BY <1>1, <1>2

\* What the words between the headers are does not matter.
LEMMA HeadersSame ==
  ASSUME NEW w \in Memory, NEW v \in Memory,
         \A h \in Headers(w) \cap Words : Behind(v)[h] = Behind(w)[h]
  PROVE  Headers(v) = Headers(w)
<1>1. Headers(v) \subseteq Headers(w)
  BY HeadersLeast, HeadersClosed
<1>2. Headers(w) \subseteq Headers(v)
  BY <1>1, HeadersLeast, HeadersClosed
<1> QED BY <1>1, <1>2

\* The blocks are apart: no word is in two.
LEMMA BlocksApart ==
  ASSUME NEW w \in Memory, NEW h \in Taken(w), NEW g \in Headers(w), g # h
  PROVE  g \notin h..(h + w[h])
<1>1. h \in Headers(w) \cap Words /\ h \in Int /\ g \in Int /\ w[h] \in Int /\ w[h] >= 0
  BY WordsAreInts, HeadersClosed DEF Taken, Memory
<1>2. Behind(w)[h] = h + w[h] + 1
  BY <1>1 DEF Behind
<1> QED BY <1>1, <1>2, HeadersGap

\* A pointer has one header.
LEMMA PayloadOnce ==
  ASSUME NEW w \in Memory, WellFormed(w), NEW h \in Taken(w), NEW g \in Taken(w),
         Payload(h) = Payload(g)
  PROVE  h = g
<1> SUFFICES ASSUME NEW b \in Taken(w), NEW c \in Taken(w), Payload(b) = Payload(c),
                    Padded(b), ~Padded(c)
             PROVE  FALSE
  <2>1. h \in Int /\ g \in Int
    BY WordsAreInts DEF Taken
  <2> HIDE DEF Padded
  <2> QED BY <2>1 DEF Payload
<1> HIDE DEF Padded
<1>1. b \in Headers(w) \cap Words /\ c \in Headers(w) /\ b \in Int /\ c \in Int /\ w[b] \in Int
  BY WordsAreInts DEF Taken, Memory
<1>2. w[b] >= 2
  BY <1>1 DEF WellFormed, Need, Taken
<1>3. c = b + 1
  BY <1>1 DEF Payload
<1> QED BY <1>1, <1>2, <1>3, BlocksApart

\* A word of an arena is in the block of some header.
LEMMA SomeBlockHas ==
  ASSUME NEW w \in Memory, WellFormed(w), NEW k \in Words
  PROVE  \E h \in Headers(w) \cap Words : h <= k /\ k < Behind(w)[h]
<1> SUFFICES ASSUME \A h \in Headers(w) \cap Words : h <= k => Behind(w)[h] <= k
             PROVE  FALSE
  <2>1. \A h \in Headers(w) \cap Words : Behind(w)[h] \in Int /\ k \in Int
    BY WordsAreInts, HeadersClosed
  <2> QED BY <2>1
<1>1. Headers(w) \subseteq {h \in Int : h <= k}
  <2>1. k \in Int /\ 0 <= k
    BY WordsAreInts DEF Words
  <2>2. \A h \in Headers(w) \cap Words : Behind(w)[h] \in Int
    BY HeadersClosed
  <2> DEFINE H == {h \in Headers(w) : h <= k}
  <2>3. 0 \in H /\ \A h \in H \cap Words : Behind(w)[h] \in H
    BY <2>1, <2>2, HeadersClosed
  <2>4. Headers(w) \subseteq H
    BY <2>3, HeadersLeast
  <2> QED BY <2>4, HeadersClosed
<1>2. LastAddress + 1 \in Headers(w)
  BY HeadersWithin
<1> QED BY <1>1, <1>2, HeapAssumption DEF Words

-----------------------------------------------------------------------------
(* joinFreeSpace                                                           *)

\* FreeEnd follows the free blocks: the equation of its recursion.
LEMMA FreeEndStep ==
  ASSUME NEW w \in Memory
  PROVE  \A h \in Int : FreeEnd(w)[h] =
           IF h \in Words /\ w[h] < 0 THEN FreeEnd(w)[Behind(w)[h]] ELSE h - 1
<1> DEFINE E(f) == f = [h \in Int |-> IF h \in Words /\ w[h] < 0 THEN f[Behind(w)[h]] ELSE h - 1]
           D == {h \in Words : w[h] < 0}
           next == [h \in D |-> Behind(w)[h]]
<1>1. Ascends(next) /\ D \subseteq Int /\ next \in [D -> Int] /\ DOMAIN next = D
  BY BehindAscends, WordsAreInts DEF Ascends
<1>2. PICK g : IsChain(g, next)
  BY <1>1, ChainExists
<1> DEFINE e(h) == CHOOSE c : c \in g[h] \ D
           F == [h \in Int |-> e(h) - 1]
<1>3. ASSUME NEW h \in Int, h \notin D PROVE e(h) = h
  BY <1>1, <1>2, <1>3, ChainStep
<1>4. ASSUME NEW h \in D PROVE Behind(w)[h] \in Int /\ e(h) = e(Behind(w)[h])
  <2>1. g[h] = {h} \cup g[next[h]] /\ next[h] = Behind(w)[h] /\ next[h] \in Int
    BY <1>1, <1>2, ChainStep
  <2>2. g[h] \ D = g[Behind(w)[h]] \ D
    BY <2>1
  <2> QED BY <2>1, <2>2
<1>5. E(F)
  <2> HIDE DEF e
  <2> QED BY <1>3, <1>4
<1> DEFINE c == CHOOSE f : E(f)
<1>6. E(c)
  BY <1>5, Zenon
<1>7. FreeEnd(w) = c
  BY Zenon DEF FreeEnd
<1> HIDE DEF c
<1>8. \A h \in Int : c[h] = IF h \in Words /\ w[h] < 0 THEN c[Behind(w)[h]] ELSE h - 1
  BY <1>6, Zenon
<1> QED BY <1>7, <1>8

(* Behind the free blocks that start at the header h is a header that does *)
(* not start another, and no header on the way does anything else.         *)
FreeRun(w, h) ==
  LET e == FreeEnd(w)[h]
  IN  /\ e \in Int /\ e + 1 >= h
      /\ e + 1 \in Headers(w)
      /\ e + 1 \in Words => w[e + 1] >= 0
      /\ \A m \in Headers(w) : m >= h /\ m <= e => m \in Words /\ w[m] < 0
      /\ h \in Words /\ w[h] < 0 => e >= h

LEMMA FreeRuns ==
  ASSUME NEW w \in Memory, WellFormed(w), NEW g \in Headers(w)
  PROVE  FreeRun(w, g)
<1> DEFINE S == {h \in Int : h \in Headers(w) => FreeRun(w, h)}
<1>1. ASSUME NEW h \in Int, ~ (h \in Words /\ w[h] < 0) PROVE h \in S
  <2>1. FreeEnd(w)[h] = h - 1
    BY <1>1, FreeEndStep
  <2>2. ASSUME NEW m \in Headers(w), m >= h, m <= h - 1 PROVE FALSE
    <3>1. m \in Int
      BY HeadersClosed
    <3> QED BY <2>2, <3>1
  <2> DEFINE e == h - 1
  <2>3. e \in Int /\ e + 1 = h /\ FreeEnd(w)[h] = e
    BY <2>1
  <2>4. h \in Words => w[h] \in Int
    BY DEF Memory
  <2> HIDE DEF e
  <2>5. ASSUME h \in Headers(w) PROVE FreeRun(w, h)
    <3>1. \A m \in Headers(w) : m >= h /\ m <= e => m \in Words /\ w[m] < 0
      BY <2>2 DEF e
    <3>2. e + 1 >= h /\ e + 1 \in Headers(w) /\ (e + 1 \in Words => w[e + 1] >= 0)
      BY <1>1, <2>3, <2>4, <2>5
    <3> QED BY <1>1, <2>3, <3>1, <3>2 DEF FreeRun
  <2> QED BY <2>5
<1>2. ASSUME NEW h \in Words, \A k \in Int : k > h => k \in S PROVE h \in S
  <2>1. h \in Int
    BY WordsAreInts
  <2>2. CASE ~ (w[h] < 0)
    BY <1>1, <2>1, <2>2
  <2>3. CASE w[h] < 0
    <3> SUFFICES ASSUME h \in Headers(w) PROVE FreeRun(w, h)
      BY <2>1
    <3> DEFINE b == Behind(w)[h]
               e == FreeEnd(w)[b]
    <3>1. b \in Int /\ b > h /\ b \in Headers(w)
      BY BehindAscends, HeadersClosed DEF Ascends
    <3>2. FreeRun(w, b)
      BY <1>2, <3>1
    <3>3. FreeEnd(w)[h] = e
      BY <2>1, <2>3, FreeEndStep
    <3>4. e \in Int /\ e + 1 >= b /\ e + 1 \in Headers(w) /\ (e + 1 \in Words => w[e + 1] >= 0)
      BY <3>2 DEF FreeRun
    <3>5. ASSUME NEW m \in Headers(w), m >= h, m <= e PROVE m \in Words /\ w[m] < 0
      <4>1. m \in Int /\ (m <= h \/ m >= b)
        BY HeadersGap, HeadersClosed
      <4>2. CASE m >= b
        BY <3>2, <3>5, <4>2 DEF FreeRun
      <4>3. CASE m = h
        BY <2>3, <4>3
      <4> HIDE DEF b
      <4> QED BY <2>1, <3>1, <3>5, <4>1, <4>2, <4>3
    <3>6. e >= h
      BY <3>1, <3>4, <2>1
    <3>7. e + 1 >= h
      BY <3>6, <3>4, <2>1
    <3> HIDE DEF e
    <3> QED BY <3>3, <3>4, <3>5, <3>6, <3>7 DEF FreeRun
  <2> QED BY <2>2, <2>3
<1>3. \A h \in Int \ Words : h \in S
  BY <1>1
<1> HIDE DEF S
<1>4. g \in S
  BY <1>2, <1>3, DownTheWords, HeadersClosed
<1> QED BY <1>4 DEF S

-----------------------------------------------------------------------------
(* findFreeSpace                                                           *)

Fits(w, n, h)   == FreeEnd(w)[h] - h >= Need(n, h)
GoesOn(w, n, h) == h \in Words /\ (w[h] < 0 => ~Fits(w, n, h))
Beyond(w, h)    == IF w[h] < 0 THEN FreeEnd(w)[h] + 1 ELSE Behind(w)[h]

(* P is the headers that a search passes, the last one included.           *)
Passes(w, n, P) ==
  /\ P \subseteq Headers(w)
  /\ 0 \in P
  /\ \A h \in P : GoesOn(w, n, h) => Beyond(w, h) \in P
  /\ \A H \in SUBSET P : 0 \in H /\ (\A h \in H : GoesOn(w, n, h) => Beyond(w, h) \in H) => P \subseteq H
  /\ \E b \in P : ~GoesOn(w, n, b) /\ \A c \in P : ~GoesOn(w, n, c) => c = b

Joined(w, P) == [k \in Words |-> IF k \in P /\ w[k] < 0 THEN Not(FreeEnd(w)[k] - k) ELSE w[k]]

LEMMA FreeEndInt ==
  ASSUME NEW w \in Memory, NEW g \in Int
  PROVE  FreeEnd(w)[g] \in Int /\ FreeEnd(w)[g] + 1 >= g
<1> DEFINE S == {h \in Int : FreeEnd(w)[h] \in Int /\ FreeEnd(w)[h] + 1 >= h}
<1>1. \A h \in Int \ Words : h \in S
  BY FreeEndStep
<1>2. ASSUME NEW h \in Words, \A k \in Int : k > h => k \in S PROVE h \in S
  <2>1. h \in Int
    BY WordsAreInts
  <2>2. Behind(w)[h] \in Int /\ Behind(w)[h] > h
    BY BehindAscends DEF Ascends
  <2>3. Behind(w)[h] \in S
    BY <1>2, <2>2
  <2> QED BY <2>1, <2>2, <2>3, FreeEndStep
<1> HIDE DEF S
<1>3. g \in S
  BY <1>1, <1>2, DownTheWords
<1> QED BY <1>3 DEF S

\* What Search computes, told without its recursion.
LEMMA SearchPasses ==
  ASSUME NEW w \in Memory, WellFormed(w), NEW n \in Nat
  PROVE  \E P : /\ Passes(w, n, P)
                /\ Search(w, n).block \in P
                /\ ~GoesOn(w, n, Search(w, n).block)
                /\ Search(w, n).words = Joined(w, P)
<1> DEFINE end == FreeEnd(w)
           goesOn(h) == h \in Words /\ (w[h] < 0 => end[h] - h < Need(n, h))
           E(f) == f = [h \in Int |->
                          IF goesOn(h)
                            THEN {h} \cup f[IF w[h] < 0 THEN end[h] + 1 ELSE Behind(w)[h]]
                            ELSE {h}]
           D == {h \in Words : goesOn(h)}
           next == [h \in D |-> Beyond(w, h)]
<1>1. ASSUME NEW h \in Int PROVE goesOn(h) <=> GoesOn(w, n, h)
  <2>1. end[h] \in Int /\ Need(n, h) \in Int
    BY FreeEndInt DEF Need
  <2> QED BY <2>1 DEF GoesOn, Fits
<1>2. ASSUME NEW h \in Words PROVE Beyond(w, h) \in Int /\ Beyond(w, h) > h
  <2>1. h \in Int /\ Behind(w)[h] \in Int /\ Behind(w)[h] > h /\ w[h] \in Int
    BY BehindAscends, WordsAreInts DEF Ascends, Memory
  <2>2. CASE w[h] < 0
    <3>1. end[h] = end[Behind(w)[h]]
      BY <2>1, <2>2, FreeEndStep
    <3>2. end[Behind(w)[h]] \in Int /\ end[Behind(w)[h]] + 1 >= Behind(w)[h]
      BY <2>1, FreeEndInt
    <3> HIDE DEF end
    <3>3. end[h] + 1 \in Int /\ end[h] + 1 > h
      BY <2>1, <3>1, <3>2
    <3> QED BY <2>2, <3>3 DEF Beyond, end
  <2> QED BY <2>1, <2>2 DEF Beyond
<1> HIDE DEF goesOn, end
<1>3. Ascends(next) /\ D \subseteq Int /\ next \in [D -> Int] /\ DOMAIN next = D
  BY <1>2, WordsAreInts DEF Ascends
<1>4. \A f : E(f) <=> IsChain(f, next)
  <2>1. \A h \in Int : goesOn(h) <=> h \in D
    BY DEF goesOn
  <2>2. \A h \in D : next[h] = IF w[h] < 0 THEN end[h] + 1 ELSE Behind(w)[h]
    BY DEF Beyond, end
  <2> HIDE DEF next
  <2> QED BY <1>3, <2>1, <2>2 DEF IsChain
<1>5. \E f : E(f)
  BY <1>3, <1>4, ChainExists
<1> DEFINE from == CHOOSE f : E(f)
           P == from[0]
<1>6. E(from)
  BY <1>5, Zenon
<1>7. /\ Search(w, n).block = CHOOSE h \in P : ~goesOn(h)
      /\ Search(w, n).words = [k \in Words |-> IF k \in P /\ w[k] < 0 THEN Not(end[k] - k) ELSE w[k]]
  BY Zenon DEF Search, goesOn, end
<1>8. IsChain(from, next)
  BY <1>4, <1>6
<1> HIDE DEF E, from
<1>9. P \subseteq Headers(w)
  <2>1. ASSUME NEW h \in Headers(w) \cap DOMAIN next PROVE next[h] \in Headers(w)
    <3>1. h \in Words /\ next[h] = Beyond(w, h)
      BY <1>3
    <3>2. Behind(w)[h] \in Headers(w)
      BY <3>1, HeadersClosed
    <3>3. FreeEnd(w)[h] + 1 \in Headers(w)
      BY FreeRuns DEF FreeRun
    <3> QED BY <3>1, <3>2, <3>3 DEF Beyond
  <2> HIDE DEF next
  <2>2. Closed(Headers(w), next)
    BY <2>1 DEF Closed
  <2>3. 0 \in Headers(w)
    BY HeadersClosed
  <2> QED BY <1>3, <1>8, <2>2, <2>3, ChainLeast, WordsAreInts
<1>10. 0 \in P
  BY <1>3, <1>8, ChainRange, WordsAreInts
<1>11. ASSUME NEW h \in P, GoesOn(w, n, h) PROVE Beyond(w, h) \in P
  <2>1. h \in D
    BY <1>1, <1>11, WordsAreInts DEF GoesOn
  <2>2. Closed(P, next)
    <3> HIDE DEF next, D
    <3> QED BY <1>3, <1>8, ChainClosed, WordsAreInts
  <2> QED BY <1>3, <2>1, <2>2 DEF Closed
<1>12. PICK b \in P : b \notin D /\ \A d \in P : d \notin D => d = b
  <2> HIDE DEF next, D
  <2> QED BY <1>3, <1>8, ChainEnds, WordsAreInts
<1>13. \A h \in P : h \in D <=> GoesOn(w, n, h)
  BY <1>1, <1>9, HeadersClosed DEF goesOn
<1>14. ASSUME NEW H \in SUBSET P, 0 \in H, \A h \in H : GoesOn(w, n, h) => Beyond(w, h) \in H
       PROVE  P \subseteq H
  <2>1. Closed(H, next)
    BY <1>3, <1>13, <1>14 DEF Closed
  <2> HIDE DEF next
  <2> QED BY <1>3, <1>8, <1>14, <2>1, ChainLeast, WordsAreInts
<1>15. Passes(w, n, P)
  BY <1>9, <1>10, <1>11, <1>12, <1>13, <1>14 DEF Passes
<1>16. \A h \in P : goesOn(h) <=> GoesOn(w, n, h)
  BY <1>1, <1>9, HeadersClosed
<1> HIDE DEF P, D, next
<1>17. Search(w, n).block \in P /\ ~GoesOn(w, n, Search(w, n).block)
  BY <1>7, <1>12, <1>13, <1>16
<1>18. Search(w, n).words = Joined(w, P)
  BY <1>7, Zenon DEF Joined, end
<1> QED BY <1>15, <1>17, <1>18

\* Joining the free blocks on the way leaves the allocated ones and their words.
LEMMA JoinedHeap ==
  ASSUME NEW w \in Memory, WellFormed(w), NEW n \in Nat, NEW P, Passes(w, n, P)
  PROVE  LET v == Joined(w, P)
         IN  /\ v \in Memory /\ WellFormed(v)
             /\ Taken(v) = Taken(w)
             /\ \A k \in Words : w[k] >= 0 => v[k] = w[k]
             /\ P \subseteq Headers(v)
             /\ \A k \in P \cap Words : w[k] < 0 => v[k] = Not(FreeEnd(w)[k] - k)
<1> DEFINE v == Joined(w, P)
           end == FreeEnd(w)
<1>1. ASSUME NEW k \in P \cap Words, w[k] < 0
      PROVE  /\ v[k] = Not(end[k] - k) /\ v[k] \in Int /\ v[k] < 0
             /\ end[k] \in Int /\ end[k] >= k /\ k \in Int /\ end[k] + 1 \in Headers(w)
             /\ Behind(v)[k] = end[k] + 1 /\ Beyond(w, k) = end[k] + 1
  <2>1. k \in Headers(w) /\ k \in Int
    BY WordsAreInts DEF Passes
  <2>2. FreeRun(w, k)
    BY <2>1, FreeRuns
  <2>3. end[k] \in Int /\ end[k] >= k /\ end[k] + 1 \in Headers(w)
    BY <1>1, <2>2 DEF FreeRun
  <2>4. v[k] = Not(end[k] - k)
    BY <1>1 DEF Joined
  <2> HIDE DEF v, end
  <2>5. v[k] \in Int /\ v[k] < 0 /\ Behind(v)[k] = end[k] + 1
    BY <2>1, <2>3, <2>4 DEF Not, Behind
  <2> QED BY <1>1, <2>1, <2>3, <2>4, <2>5 DEF Beyond, end
<1>2. ASSUME NEW k \in Words, k \notin P \/ ~ (w[k] < 0)
      PROVE  v[k] = w[k] /\ Behind(v)[k] = Behind(w)[k]
  <2>1. v[k] = w[k]
    BY <1>2 DEF Joined
  <2> HIDE DEF v
  <2> QED BY <2>1 DEF Behind
<1>3. v \in Memory
  <2>1. \A k \in Words : v[k] \in Int
    BY <1>1, <1>2 DEF Memory
  <2> QED BY <2>1 DEF Memory, Joined
<1>4. \A k \in Words : /\ w[k] >= 0 => v[k] = w[k]
                       /\ v[k] >= 0 => w[k] >= 0
  <2>1. \A k \in Words : w[k] \in Int
    BY DEF Memory
  <2> HIDE DEF v
  <2> QED BY <1>1, <1>2, <2>1
<1> HIDE DEF v
<1>5. Headers(v) \subseteq Headers(w)
  <2>1. \A h \in Headers(w) \cap Words : Behind(v)[h] \in Headers(w)
    BY <1>1, <1>2, HeadersClosed
  <2> HIDE DEF end
  <2> QED BY <1>3, <2>1, HeadersLeast, HeadersClosed
<1>6. Headers(v) \ Words = {LastAddress + 1}
  <2>1. PICK e \in Headers(v) : e \notin Words
    BY <1>3, HeadersLeave
  <2>2. e = LastAddress + 1
    BY <1>5, <2>1, HeadersWithin
  <2> QED BY <1>3, <2>1, <2>2, HeadersEnd
<1>7. WellFormed(v)
  BY <1>4, <1>5, <1>6 DEF WellFormed
<1>8. P \subseteq Headers(v)
  <2> DEFINE H == P \cap Headers(v)
  <2>1. 0 \in H
    BY <1>3, HeadersClosed DEF Passes
  <2>2. ASSUME NEW h \in H, GoesOn(w, n, h) PROVE Beyond(w, h) \in H
    <3>1. h \in Words /\ Behind(v)[h] \in Headers(v)
      BY <1>3, <2>2, HeadersClosed DEF GoesOn
    <3>2. Beyond(w, h) = Behind(v)[h]
      BY <1>1, <1>2, <3>1 DEF Beyond
    <3> QED BY <2>2, <3>1, <3>2 DEF Passes
  <2> QED BY <2>1, <2>2 DEF Passes
<1> DEFINE Swallowed(h) == \E k \in P \cap Words : w[k] < 0 /\ k < h /\ h <= end[k]
           K == {h \in Headers(w) : h \in Headers(v) \/ Swallowed(h)}
<1>9. Headers(w) \subseteq K
  <2>1. 0 \in K
    BY <1>3, HeadersClosed
  <2>2. ASSUME NEW h \in Headers(w) \cap Words, NEW k \in P \cap Words, w[k] < 0, k <= h, h <= end[k]
        PROVE  Behind(w)[h] \in K
    <3>1. /\ Behind(w)[h] \in Headers(w) /\ Behind(w)[h] \in Int /\ Behind(w)[h] > h
          /\ h \in Int /\ k \in Int /\ end[k] \in Int /\ end[k] + 1 \in Headers(w)
      BY <1>1, <2>2, HeadersClosed, BehindAscends DEF Ascends
    <3>2. Behind(w)[h] <= end[k] + 1
      <4> HIDE DEF end
      <4>1. end[k] + 1 <= h \/ end[k] + 1 >= Behind(w)[h]
        BY <3>1, HeadersGap
      <4> QED BY <2>2, <3>1, <4>1
    <3>3. CASE Behind(w)[h] = end[k] + 1
      <4>1. Behind(v)[k] \in Headers(v)
        BY <1>3, <1>8, HeadersClosed
      <4> QED BY <1>1, <2>2, <3>1, <3>3, <4>1
    <3>4. CASE Behind(w)[h] <= end[k]
      <4>1. k < Behind(w)[h]
        BY <2>2, <3>1
      <4> QED BY <2>2, <3>1, <3>4, <4>1
    <3> HIDE DEF K, end
    <3> QED BY <3>1, <3>2, <3>3, <3>4
  <2>3. ASSUME NEW h \in K \cap Words PROVE Behind(w)[h] \in K
    <3>1. CASE Swallowed(h)
      <4>1. PICK k \in P \cap Words : w[k] < 0 /\ k < h /\ h <= end[k]
        BY <3>1
      <4>2. k \in Int /\ h \in Int
        BY WordsAreInts
      <4>3. k <= h
        BY <4>1, <4>2
      <4> HIDE DEF K
      <4> QED BY <2>2, <2>3, <4>1, <4>3 DEF K
    <3>2. CASE h \in P /\ w[h] < 0
      <4>1. h <= h /\ h <= end[h]
        BY <1>1, <2>3, <3>2, WordsAreInts
      <4> QED BY <2>2, <2>3, <3>2, <4>1
    <3>3. CASE h \in Headers(v) /\ ~ (h \in P /\ w[h] < 0)
      <4>1. Behind(w)[h] = Behind(v)[h] /\ Behind(v)[h] \in Headers(v) /\ Behind(w)[h] \in Headers(w)
        BY <1>2, <1>3, <2>3, <3>3, HeadersClosed
      <4> QED BY <4>1
    <3> QED BY <2>3, <3>1, <3>2, <3>3
  <2> HIDE DEF K
  <2> QED BY <2>1, <2>3, HeadersLeast
<1>10. Taken(v) = Taken(w)
  <2>1. ASSUME NEW h \in Taken(v) PROVE h \in Taken(w)
    BY <1>4, <1>5, <2>1 DEF Taken
  <2>2. ASSUME NEW h \in Taken(w) PROVE h \in Taken(v)
    <3>1. h \in Headers(w) /\ h \in Words /\ h \in Int /\ w[h] \in Int /\ w[h] >= 0
      BY WordsAreInts DEF Taken, Memory
    <3>2. ASSUME Swallowed(h) PROVE FALSE
      <4>1. PICK k \in P \cap Words : w[k] < 0 /\ k < h /\ h <= end[k]
        BY <3>2
      <4>2. k \in Headers(w) /\ k \in Int /\ h >= k
        BY <3>1, <4>1, WordsAreInts DEF Passes
      <4>3. FreeRun(w, k)
        BY <4>2, FreeRuns
      <4> QED BY <3>1, <4>1, <4>2, <4>3 DEF FreeRun
    <3>3. h \in Headers(v)
      BY <1>9, <3>1, <3>2
    <3> QED BY <1>4, <3>1, <3>3 DEF Taken
  <2> QED BY <2>1, <2>2
<1> QED BY <1>1, <1>3, <1>4, <1>7, <1>8, <1>10 DEF v

(* What the heap promises of a search for n words in w: s is its result.   *)
Finds(w, n, s) ==
  /\ s.words \in Memory /\ WellFormed(s.words)
  /\ Taken(s.words) = Taken(w)
  /\ \A k \in Words : w[k] >= 0 => s.words[k] = w[k]
  /\ s.block \in Headers(s.words)
  /\ s.block \in Words \/ s.block = LastAddress + 1
  /\ s.block \in Words => s.words[s.block] < 0 /\ Not(s.words[s.block]) >= Need(n, s.block)

LEMMA SearchFinds ==
  ASSUME NEW w \in Memory, WellFormed(w), NEW n \in Nat
  PROVE  Finds(w, n, Search(w, n))
<1> DEFINE s == Search(w, n)
           b == s.block
<1>1. PICK P : Passes(w, n, P) /\ b \in P /\ ~GoesOn(w, n, b) /\ s.words = Joined(w, P)
  BY SearchPasses
<1> HIDE DEF s
<1>2. /\ s.words \in Memory /\ WellFormed(s.words)
      /\ Taken(s.words) = Taken(w)
      /\ \A k \in Words : w[k] >= 0 => s.words[k] = w[k]
      /\ b \in Headers(s.words)
      /\ b \in Words /\ w[b] < 0 => s.words[b] = Not(FreeEnd(w)[b] - b)
  BY <1>1, JoinedHeap
<1>3. b \in Words \/ b = LastAddress + 1
  BY <1>2, HeadersWithin
<1>4. ASSUME b \in Words
      PROVE  s.words[b] < 0 /\ Not(s.words[b]) >= Need(n, b)
  <2>1. w[b] < 0 /\ Fits(w, n, b)
    BY <1>1, <1>4 DEF GoesOn
  <2>2. FreeRun(w, b) /\ b \in Int
    BY <1>1, FreeRuns, HeadersClosed DEF Passes
  <2>3. FreeEnd(w)[b] \in Int /\ FreeEnd(w)[b] >= b
    BY <1>4, <2>1, <2>2 DEF FreeRun
  <2>4. s.words[b] = Not(FreeEnd(w)[b] - b)
    BY <1>2, <1>4, <2>1
  <2>5. FreeEnd(w)[b] - b >= Need(n, b)
    BY <2>1 DEF Fits
  <2> HIDE DEF b
  <2> QED BY <2>2, <2>3, <2>4, <2>5 DEF Not
<1> HIDE DEF b
<1>5. Finds(w, n, s)
  BY <1>2, <1>3, <1>4 DEF Finds, b
<1> QED BY <1>5 DEF s

-----------------------------------------------------------------------------
(* The steps of malloc and free on the words of an arena.                  *)

\* Splitting a free block makes it an allocated one, and a free one of the rest.
LEMMA SplitHeap ==
  ASSUME NEW w \in Memory, WellFormed(w),
         NEW h \in Headers(w) \cap Words, w[h] < 0,
         NEW n \in Nat, n >= Need(1, h), n <= Not(w[h])
  PROVE  LET u == Split(w, h, n)
         IN  /\ u \in Memory /\ WellFormed(u)
             /\ h \notin Taken(w) /\ Taken(u) = Taken(w) \cup {h}
             /\ u[h] = n
             /\ \A g \in Taken(w) : \A k \in g..(g + w[g]) : u[k] = w[k]
<1> DEFINE u == Split(w, h, n)
           free == Not(w[h])
           c == h + n + 1
<1>1. /\ h \in Words /\ h \in Int /\ h >= 0 /\ w[h] \in Int /\ free \in Int /\ c \in Int
      /\ Behind(w)[h] = h + free + 1 /\ Behind(w)[h] \in Headers(w)
  <2>1. h \in Words /\ h \in Int /\ h >= 0 /\ w[h] \in Int
    BY WordsAreInts DEF Memory, Words
  <2>2. free \in Int /\ c \in Int
    BY <2>1 DEF Not
  <2>3. Behind(w)[h] = h + free + 1
    BY <2>1 DEF Behind
  <2>4. Behind(w)[h] \in Headers(w)
    BY HeadersClosed
  <2> QED BY <2>1, <2>2, <2>3, <2>4
<1>2. Behind(w)[h] <= LastAddress + 1
  BY HeadersWithin
<1> HIDE DEF free, c
<1>3. ASSUME free # n PROVE c \in Words /\ c # h /\ c < Behind(w)[h] /\ c > h
  BY <1>1, <1>2, <1>3, HeapAssumption DEF Words, c, free
<1>4. /\ u[h] = n
      /\ free # n => u[c] = Not(free - (n + 1))
      /\ \A k \in Words : k # h /\ (k # c \/ free = n) => u[k] = w[k]
  <2>1. u = [k \in Words |-> CASE k = h -> n
                         [] k = h + n + 1 /\ free # n -> Not(free - (n + 1))
                         [] OTHER -> w[k]]
    BY DEF Split, free
  <2> HIDE DEF u
  <2>2. u[h] = n
    <3>1. h \in Words /\ h # h + n + 1
      BY <1>1
    <3> QED BY <2>1, <3>1, Zenon
  <2>3. ASSUME free # n PROVE u[c] = Not(free - (n + 1))
    <3>1. c \in Words /\ c # h
      BY <1>3, <2>3
    <3> QED BY <2>1, <2>3, <3>1, Zenon DEF c
  <2>4. ASSUME NEW k \in Words, k # h, k # c \/ free = n PROVE u[k] = w[k]
    BY <2>1, <2>4, Zenon DEF c
  <2> QED BY <2>2, <2>3, <2>4
<1>5. u = [k \in Words |-> u[k]]
  BY DEF Split
<1> HIDE DEF u
<1>6. free # n => u[c] \in Int /\ u[c] < 0 /\ Behind(u)[c] = Behind(w)[h]
  <2> SUFFICES ASSUME free # n PROVE u[c] \in Int /\ u[c] < 0 /\ Behind(u)[c] = Behind(w)[h]
    OBVIOUS
  <2>1. free > n /\ c \in Words
    BY <1>1, <1>3 DEF free
  <2>2. u[c] = Not(free - (n + 1))
    BY <1>4
  <2>3. u[c] \in Int /\ u[c] < 0
    BY <1>1, <2>1, <2>2 DEF Not
  <2>4. Behind(u)[c] = c + Not(u[c]) + 1
    BY <2>1, <2>3 DEF Behind
  <2> QED BY <1>1, <2>1, <2>2, <2>3, <2>4 DEF Not, c
<1>7. Behind(u)[h] = c
  <2>1. u[h] = n /\ ~ (n < 0)
    BY <1>4
  <2> QED BY <1>1, <2>1 DEF Behind, c
<1>8. free = n => c = Behind(w)[h]
  BY <1>1 DEF c
<1>9. u \in Memory
  <2>1. ASSUME NEW k \in Words PROVE u[k] \in Int
    <3>1. w[k] \in Int
      BY DEF Memory
    <3> QED BY <1>4, <1>6, <3>1
  <2> QED BY <1>5, <2>1 DEF Memory
<1>10. ASSUME NEW g \in Headers(w) \cap Words, g # h
       PROVE  u[g] = w[g] /\ Behind(u)[g] = Behind(w)[g] /\ (free # n => g # c)
  <2>1. free # n => g # c
    <3>1. g \in Int /\ (g <= h \/ g >= Behind(w)[h])
      BY HeadersGap, HeadersClosed
    <3> QED BY <1>1, <1>3, <3>1
  <2>2. u[g] = w[g]
    BY <1>4, <1>10, <2>1
  <2> QED BY <2>1, <2>2 DEF Behind
<1>11. Headers(u) \subseteq Headers(w) \cup {c}
  <2> DEFINE H == Headers(w) \cup {c}
  <2>1. ASSUME NEW g \in H \cap Words PROVE Behind(u)[g] \in H
    <3>1. CASE g = h
      BY <1>7, <3>1
    <3>2. CASE g \in Headers(w) /\ g # h
      BY <1>10, <2>1, <3>2, HeadersClosed
    <3>3. CASE g = c /\ free # n
      BY <1>1, <1>6, <3>3
    <3>4. CASE g = c /\ free = n
      BY <1>1, <1>8, <1>7, <3>2, <3>4
    <3> QED BY <2>1, <3>1, <3>2, <3>3, <3>4
  <2>2. 0 \in H
    BY HeadersClosed
  <2> QED BY <1>9, <2>1, <2>2, HeadersLeast
<1>12. Headers(w) \subseteq Headers(u)
  <2> DEFINE H == Headers(w) \cap Headers(u)
  <2>1. ASSUME NEW g \in H \cap Words PROVE Behind(w)[g] \in H
    <3>1. Behind(w)[g] \in Headers(w) /\ Behind(u)[g] \in Headers(u)
      BY <1>9, HeadersClosed
    <3>2. CASE g # h
      BY <1>10, <3>1, <3>2
    <3>3. CASE g = h
      <4>1. c \in Headers(u)
        BY <1>7, <3>1, <3>3
      <4>2. free # n => Behind(u)[c] \in Headers(u)
        BY <1>3, <1>9, <4>1, HeadersClosed
      <4> QED BY <1>6, <1>8, <3>1, <3>3, <4>1, <4>2
    <3> QED BY <3>2, <3>3
  <2>2. 0 \in H
    BY <1>9, HeadersClosed
  <2>3. Headers(w) \subseteq H
    BY <2>1, <2>2, HeadersLeast
  <2> QED BY <2>3
<1>13. LastAddress + 1 \in Headers(u)
  BY <1>12, HeadersWithin
<1>14. Headers(u) \ Words = {LastAddress + 1}
  BY <1>9, <1>13, HeadersEnd, HeapAssumption DEF Words
<1>15. ASSUME NEW g \in Headers(u) \cap Words, u[g] >= 0
       PROVE  g = h \/ (g \in Headers(w) /\ u[g] = w[g])
  <2>1. CASE g = c /\ free # n
    BY <1>6, <1>15, <2>1
  <2>2. CASE g = c /\ free = n
    BY <1>8, <1>1, <1>10, <2>2
  <2> QED BY <1>10, <1>11, <2>1, <2>2
<1>16. WellFormed(u)
  <2>1. \A g \in Headers(u) \cap Words : u[g] >= 0 => u[g] >= Need(1, g)
    BY <1>4, <1>15 DEF WellFormed
  <2> QED BY <1>14, <2>1 DEF WellFormed
<1>17. h \notin Taken(w)
  BY <1>1 DEF Taken
<1>18. Taken(u) = Taken(w) \cup {h}
  <2>1. ASSUME NEW g \in Taken(u) PROVE g \in Taken(w) \cup {h}
    BY <1>15, <2>1 DEF Taken
  <2>2. ASSUME NEW g \in Taken(w) PROVE g \in Taken(u)
    <3>1. g \in Headers(w) \cap Words /\ w[g] >= 0 /\ g # h
      BY <1>17 DEF Taken
    <3> QED BY <1>10, <1>12, <3>1 DEF Taken
  <2>3. h \in Taken(u)
    BY <1>1, <1>4, <1>12 DEF Taken
  <2> QED BY <2>1, <2>2, <2>3
<1>19. ASSUME NEW g \in Taken(w), NEW k \in g..(g + w[g]) PROVE u[k] = w[k]
  <2>1. g \in Headers(w) \cap Words /\ w[g] >= 0 /\ g # h /\ g \in Int /\ w[g] \in Int /\ g >= 0
    BY <1>17, WordsAreInts DEF Taken, Memory, Words
  <2>2. Behind(w)[g] = g + w[g] + 1 /\ Behind(w)[g] <= LastAddress + 1
    BY <2>1, HeadersWithin DEF Behind
  <2>3. k \in Words
    BY <2>1, <2>2, HeapAssumption DEF Words
  <2>4. k # h
    BY <2>1, BlocksApart
  <2>5. k # c \/ free = n
    <3>1. h <= g \/ h >= Behind(w)[g]
      BY <2>1, HeadersGap
    <3>2. g <= h \/ g >= Behind(w)[h]
      BY <2>1, HeadersGap
    <3> QED BY <1>1, <1>3, <2>1, <2>2, <3>1, <3>2
  <2> QED BY <1>4, <2>3, <2>4, <2>5
<1> QED BY <1>4, <1>9, <1>16, <1>17, <1>18, <1>19 DEF u

\* Freeing a block leaves all others.
LEMMA FlipHeap ==
  ASSUME NEW w \in Memory, WellFormed(w), NEW h \in Taken(w)
  PROVE  LET u == [w EXCEPT ![h] = Not(@)]
         IN  /\ u \in Memory /\ WellFormed(u)
             /\ Taken(u) = Taken(w) \ {h}
             /\ \A k \in Words : k # h => u[k] = w[k]
<1> DEFINE u == [w EXCEPT ![h] = Not(@)]
<1>1. h \in Headers(w) \cap Words /\ w[h] \in Int /\ w[h] >= 0
  BY DEF Taken, Memory
<1>2. u \in Memory /\ u[h] = Not(w[h]) /\ \A k \in Words : k # h => u[k] = w[k]
  BY <1>1 DEF Memory, Not
<1> HIDE DEF u
<1>3. u[h] \in Int /\ u[h] < 0 /\ Not(u[h]) = w[h]
  BY <1>1, <1>2 DEF Not
<1>4. \A k \in Words : Behind(u)[k] = Behind(w)[k]
  BY <1>1, <1>2, <1>3 DEF Behind
<1>5. Headers(u) = Headers(w)
  BY <1>2, <1>4, HeadersSame
<1>6. WellFormed(u)
  BY <1>1, <1>2, <1>3, <1>5 DEF WellFormed
<1>7. Taken(u) = Taken(w) \ {h}
  BY <1>1, <1>2, <1>3, <1>5 DEF Taken
<1> QED BY <1>2, <1>6, <1>7 DEF u

\* Writing to an allocated block leaves all others, and its header.
LEMMA FillHeap ==
  ASSUME NEW w \in Memory, WellFormed(w), NEW h \in Taken(w), NEW u \in Memory,
         \A k \in Words : k \notin (h + 1)..(h + w[h]) => u[k] = w[k]
  PROVE  /\ WellFormed(u)
         /\ Taken(u) = Taken(w)
         /\ \A g \in Taken(w) : u[g] = w[g]
         /\ \A g \in Taken(w) : g # h => \A k \in g..(g + w[g]) : u[k] = w[k]
<1>1. h \in Headers(w) \cap Words /\ w[h] \in Int /\ w[h] >= 0 /\ h \in Int
  BY WordsAreInts DEF Taken, Memory
<1>2. \A g \in Headers(w) \cap Words : u[g] = w[g]
  <2> SUFFICES ASSUME NEW g \in Headers(w) \cap Words PROVE u[g] = w[g]
    OBVIOUS
  <2>1. g # h => g \notin h..(h + w[h])
    BY BlocksApart
  <2> QED BY <1>1, <2>1, WordsAreInts
<1>3. Headers(u) = Headers(w)
  <2>1. \A g \in Headers(w) \cap Words : Behind(u)[g] = Behind(w)[g]
    BY <1>2 DEF Behind
  <2> QED BY <2>1, HeadersSame
<1>4. WellFormed(u) /\ Taken(u) = Taken(w) /\ \A g \in Taken(w) : u[g] = w[g]
  BY <1>2, <1>3 DEF WellFormed, Taken
<1>5. ASSUME NEW g \in Taken(w), g # h, NEW k \in g..(g + w[g]) PROVE u[k] = w[k]
  <2>1. g \in Headers(w) \cap Words /\ w[g] >= 0 /\ g \in Int /\ w[g] \in Int /\ g >= 0
    BY WordsAreInts DEF Taken, Memory, Words
  <2>2. Behind(w)[g] = g + w[g] + 1 /\ Behind(w)[g] <= LastAddress + 1 /\ Behind(w)[h] = h + w[h] + 1
    BY <1>1, <2>1, HeadersWithin DEF Behind
  <2>3. k \in Words
    BY <2>1, <2>2, HeapAssumption DEF Words
  <2>4. h <= g \/ h >= Behind(w)[g]
    BY <1>1, <2>1, HeadersGap
  <2>5. g <= h \/ g >= Behind(w)[h]
    BY <1>1, <2>1, HeadersGap
  <2>6. k \notin (h + 1)..(h + w[h])
    BY <1>1, <1>5, <2>1, <2>2, <2>4, <2>5
  <2> QED BY <2>3, <2>6
<1> QED BY <1>4, <1>5

-----------------------------------------------------------------------------
(* Who owns which block.                                                   *)

Getting == {"test", "take", "search", "return"}

(* Where the loop of t1 and the work on its pointer have got to.           *)
TurnInv ==
  /\ i \in [Processes -> Nat]
  /\ size8B \in [Processes -> Nat]
  /\ mCount \in [Processes -> Int]
  /\ fCount \in [Processes -> Int]
  /\ \A p \in Processes : pc[p] \in Getting =>
       i[p] < N /\ last[p][x[p]] = NULL /\ size8B[p] \in Sizes
  /\ \A p \in Processes : pc[p] \in Freeing =>
       /\ x[p] \in Kept(p)
       /\ i[p] < N => size8B[p] \in Sizes
       /\ i[p] >= N => i[p] = N + x[p] - 1

(* A process claims what its pointers lead to and, with tag 0, the block   *)
(* that malloc has carved for it.                                          *)
Tags          == 0..M
Claimed(p, s) == IF s = 0 THEN pc[p] = "return" ELSE s \in Kept(p)
PlaceOf(p, s) == IF s = 0 THEN <<fresh[p][1], Payload(fresh[p][2])>> ELSE last[p][s]

(* Process p claims, by s, the allocated block at h of arena a: as it was  *)
(* carved, or with its pad written.                                        *)
Holds(p, s, a, h) ==
  /\ h \in Used(a)
  /\ PlaceOf(p, s) = <<a, Payload(h)>>
  /\ s = 0 => fresh[p] = <<a, h>> /\ word[a][h] = Need(size8B[p], h)
  /\ s # 0 /\ Padded(h) => word[a][h + 1] = 0

(* Each arena is well-formed; the claims are for its allocated blocks,     *)
(* each for another one, and none is left unclaimed.                       *)
OwnInv ==
  /\ word \in [ArenaIds -> Memory]
  /\ \A a \in ArenaIds : WellFormed(word[a])
  /\ \A p \in Processes, s \in Tags : Claimed(p, s) =>
       \E a \in ArenaIds : \E h \in Used(a) : Holds(p, s, a, h)
  /\ \A p, q \in Processes, s, t \in Tags :
       Claimed(p, s) /\ Claimed(q, t) /\ PlaceOf(p, s) = PlaceOf(q, t) => p = q /\ s = t
  /\ \A a \in ArenaIds : \A h \in Used(a) :
       \E p \in Processes, s \in Tags : Claimed(p, s) /\ PlaceOf(p, s) = <<a, Payload(h)>>

-----------------------------------------------------------------------------
(* The pointers a process keeps.                                           *)

LEMMA SlotsAreInts ==
  /\ Slots \subseteq Nat /\ M \in Nat /\ N \in Nat
  /\ \A s \in Slots : s \in Int /\ s > 0 /\ s \in Tags
BY HeapAssumption DEF Slots, Tags

\* What a step of p leaves to the others.
LEMMA OthersSame ==
  ASSUME PlaceInv, TurnInv, NEW p \in Processes, Step(p), NEW q \in Processes, q # p
  PROVE  /\ pc'[q] = pc[q] /\ i'[q] = i[q] /\ x'[q] = x[q] /\ last'[q] = last[q]
         /\ size8B'[q] = size8B[q] /\ fresh'[q] = fresh[q]
         /\ mCount'[q] = mCount[q] /\ fCount'[q] = fCount[q]
<1>1. pc'[q] = pc[q]
  BY DEF Step, Turn, CleanUp, PassLocked, TestLock, TakeLock, Allocate, LeaveArena, Panic,
         ReturnBlock, Spin, GrabLock, FreeBlock, Goto, PlaceInv
<1>2. x'[q] = x[q]
  BY DEF Step, Turn, CleanUp, PassLocked, TestLock, TakeLock, Allocate, LeaveArena, Panic,
         ReturnBlock, Spin, GrabLock, FreeBlock, PlaceInv
<1>3. last'[q] = last[q]
  BY DEF Step, Turn, CleanUp, PassLocked, TestLock, TakeLock, Allocate, LeaveArena, Panic,
         ReturnBlock, Spin, GrabLock, FreeBlock, PlaceInv
<1>4. i'[q] = i[q]
  BY DEF Step, Turn, CleanUp, PassLocked, TestLock, TakeLock, Allocate, LeaveArena, Panic,
         ReturnBlock, Spin, GrabLock, FreeBlock, TurnInv
<1>5. size8B'[q] = size8B[q]
  BY DEF Step, Turn, CleanUp, PassLocked, TestLock, TakeLock, Allocate, LeaveArena, Panic,
         ReturnBlock, Spin, GrabLock, FreeBlock, TurnInv
<1>6. fresh'[q] = fresh[q]
  BY DEF Step, Turn, CleanUp, PassLocked, TestLock, TakeLock, Allocate, LeaveArena, Panic,
         ReturnBlock, Spin, GrabLock, FreeBlock, PlaceInv
<1>7. mCount'[q] = mCount[q]
  BY DEF Step, Turn, CleanUp, PassLocked, TestLock, TakeLock, Allocate, LeaveArena, Panic,
         ReturnBlock, Spin, GrabLock, FreeBlock, TurnInv
<1>8. fCount'[q] = fCount[q]
  BY DEF Step, Turn, CleanUp, PassLocked, TestLock, TakeLock, Allocate, LeaveArena, Panic,
         ReturnBlock, Spin, GrabLock, FreeBlock, TurnInv
<1> QED
  BY <1>1, <1>2, <1>3, <1>4, <1>5, <1>6, <1>7, <1>8

\* The actions that leave words, pointers and counters alone, but for joining.
Quiet(p) == \/ Turn(p) \/ CleanUp(p) \/ PassLocked(p) \/ TestLock(p) \/ TakeLock(p)
            \/ LeaveArena(p) \/ Panic(p) \/ Spin(p) \/ GrabLock(p)

\* Cleaning up starts from the first pointer that is left, and skips none.
LEMMA CleanUpKeeps ==
  ASSUME PlaceInv, TurnInv, NEW p \in Processes, CleanUp(p)
  PROVE  /\ Kept(p)' = Kept(p)
         /\ i' \in [Processes -> Nat]
         /\ pc'[p] \in Freeing => x'[p] \in Kept(p) /\ i'[p] = N + x'[p] - 1
<1> DEFINE left == {s \in Slots : s > i[p] - N /\ last[p][s] # NULL}
<1>1. left = Kept(p) /\ UNCHANGED last
  BY DEF Kept, CleanUp
<1>2. i[p] \in Nat /\ i[p] >= N /\ N \in Nat
  BY HeapAssumption DEF CleanUp, TurnInv
<1>3. CASE left = {}
  <2>1. pc' = [pc EXCEPT ![p] = "done"] /\ UNCHANGED <<i, last>>
    BY <1>3 DEF CleanUp
  <2>2. pc'[p] \notin Freeing
    BY <2>1 DEF PlaceInv, Freeing
  <2> QED BY <2>1, <2>2 DEF Kept, TurnInv
<1>4. CASE left # {}
  <2> DEFINE s == Min(left)
  <2>1. x' = [x EXCEPT ![p] = s] /\ i' = [i EXCEPT ![p] = N + s - 1]
    BY <1>4 DEF CleanUp
  <2>2. s \in left /\ \A t \in left : s <= t
    BY <1>4, LeastInSet, SlotsAreInts
  <2> HIDE DEF s
  <2>3. s \in Nat /\ s > 0 /\ s > i[p] - N /\ s \in Slots
    BY <2>2, SlotsAreInts
  <2>4. i'[p] = N + s - 1 /\ x'[p] = s /\ i' \in [Processes -> Nat]
    BY <1>2, <2>1, <2>3 DEF PlaceInv, TurnInv
  <2>5. ASSUME NEW t \in Slots, last[p][t] # NULL PROVE t > i'[p] - N <=> t > i[p] - N
    <3>1. t \in Nat /\ (t > i[p] - N => s <= t)
      BY <2>2, <2>5, SlotsAreInts
    <3> QED BY <1>2, <2>3, <2>4, <3>1
  <2>6. Kept(p)' = Kept(p)
    BY <1>1, <2>5 DEF Kept
  <2> QED BY <1>1, <2>2, <2>4, <2>6
<1> QED BY <1>3, <1>4

LEMMA QuietKeeps ==
  ASSUME PlaceInv, TurnInv, NEW p \in Processes, Quiet(p)
  PROVE  Kept(p)' = Kept(p) /\ UNCHANGED <<last, fresh, mCount, fCount>>
<1>1. CASE CleanUp(p)
  BY <1>1, CleanUpKeeps DEF CleanUp
<1>2. CASE ~CleanUp(p)
  <2>1. UNCHANGED <<last, fresh, mCount, fCount>>
    BY <1>2 DEF Quiet, Turn, PassLocked, TestLock, TakeLock, LeaveArena, Panic, Spin, GrabLock
  <2>2. UNCHANGED i
    BY <1>2 DEF Quiet, Turn, PassLocked, TestLock, TakeLock, LeaveArena, Panic, Spin, GrabLock
  <2> QED BY <2>1, <2>2 DEF Kept
<1> QED BY <1>1, <1>2

LEMMA AllocateKeeps ==
  ASSUME PlaceInv, TurnInv, NEW p \in Processes, Allocate(p)
  PROVE  Kept(p)' = Kept(p)
BY DEF Allocate, Kept

LEMMA ReturnBlockKeeps ==
  ASSUME PlaceInv, TurnInv, NEW p \in Processes, ReturnBlock(p)
  PROVE  /\ x[p] \in Slots /\ x[p] \notin Kept(p)
         /\ Kept(p)' = Kept(p) \cup {x[p]}
         /\ \A s \in Slots : s # x[p] => last'[p][s] = last[p][s]
         /\ last'[p][x[p]] = <<fresh[p][1], Payload(fresh[p][2])>>
<1>1. pc[p] = "return" /\ x[p] \in Slots /\ last[p][x[p]] = NULL /\ i[p] < N /\ i[p] \in Nat /\ N \in Nat
  BY HeapAssumption DEF ReturnBlock, Goto, PlaceInv, TurnInv, Busy, Getting
<1>2. last' = [last EXCEPT ![p][x[p]] = <<fresh[p][1], Payload(fresh[p][2])>>]
  BY DEF ReturnBlock
<1>3. i'[p] = i[p] + 1
  BY DEF ReturnBlock, TurnInv
<1>4. /\ last'[p][x[p]] = <<fresh[p][1], Payload(fresh[p][2])>>
      /\ \A s \in Slots : s # x[p] => last'[p][s] = last[p][s]
  BY <1>1, <1>2 DEF PlaceInv
<1>5. last'[p][x[p]] # NULL
  BY <1>4 DEF NULL
<1>6. ASSUME NEW s \in Slots PROVE s > i[p] - N /\ s > i'[p] - N
  <2>1. s \in Int /\ s > 0
    BY SlotsAreInts
  <2> QED BY <1>1, <1>3, <2>1
<1>7. x[p] \notin Kept(p)
  BY <1>1 DEF Kept
<1>8. Kept(p)' = Kept(p) \cup {x[p]}
  BY <1>1, <1>4, <1>5, <1>6 DEF Kept
<1> QED BY <1>1, <1>4, <1>7, <1>8

LEMMA FreeBlockKeeps ==
  ASSUME PlaceInv, TurnInv, NEW p \in Processes, FreeBlock(p)
  PROVE  /\ x[p] \in Kept(p) /\ x[p] \in Slots
         /\ Kept(p)' = Kept(p) \ {x[p]}
         /\ \A s \in Slots : s # x[p] => last'[p][s] = last[p][s]
<1>1. x[p] \in Kept(p) /\ x[p] \in Slots /\ i[p] \in Nat /\ (i[p] >= N => i[p] = N + x[p] - 1) /\ N \in Nat
  BY HeapAssumption DEF FreeBlock, TurnInv, Freeing, Kept
<1>2. CASE i[p] < N
  <2>1. last' = [last EXCEPT ![p][x[p]] = NULL] /\ UNCHANGED i
    BY <1>2 DEF FreeBlock
  <2>2. last'[p][x[p]] = NULL /\ \A s \in Slots : s # x[p] => last'[p][s] = last[p][s]
    BY <1>1, <2>1 DEF PlaceInv
  <2> QED BY <1>1, <2>1, <2>2 DEF Kept
<1>3. CASE ~ (i[p] < N)
  <2>1. i' = [i EXCEPT ![p] = @ + 1] /\ UNCHANGED last
    BY <1>3 DEF FreeBlock
  <2>2. x[p] \in Int
    BY <1>1, SlotsAreInts
  <2>3. i'[p] = i[p] + 1
    BY <2>1 DEF TurnInv
  <2>4. i'[p] = N + x[p] /\ i[p] = N + x[p] - 1
    BY <1>1, <1>3, <2>2, <2>3
  <2>5. ASSUME NEW s \in Slots PROVE s > i'[p] - N <=> s > i[p] - N /\ s # x[p]
    <3>1. s \in Int /\ N \in Int
      BY SlotsAreInts
    <3> QED BY <2>2, <2>4, <3>1
  <2> QED BY <1>1, <2>1, <2>5 DEF Kept
<1> QED BY <1>2, <1>3

-----------------------------------------------------------------------------
(* TurnInv is inductive.                                                   *)

LEMMA InitiallyTurned == Init => TurnInv
BY HeapAssumption DEF Init, TurnInv, Getting, Freeing

\* What a step has to establish for the process that takes it.
LEMMA TurnInvFrom ==
  ASSUME PlaceInv, TurnInv, NEW p \in Processes, Step(p),
         i' \in [Processes -> Nat], size8B' \in [Processes -> Nat],
         mCount' \in [Processes -> Int], fCount' \in [Processes -> Int],
         pc'[p] \in Getting => i'[p] < N /\ last'[p][x'[p]] = NULL /\ size8B'[p] \in Sizes,
         pc'[p] \in Freeing => /\ x'[p] \in Kept(p)'
                               /\ i'[p] < N => size8B'[p] \in Sizes
                               /\ i'[p] >= N => i'[p] = N + x'[p] - 1
  PROVE  TurnInv'
<1>1. ASSUME NEW q \in Processes, q # p
      PROVE  /\ pc'[q] = pc[q] /\ i'[q] = i[q] /\ x'[q] = x[q] /\ last'[q] = last[q]
             /\ size8B'[q] = size8B[q] /\ Kept(q)' = Kept(q)
  <2>1. /\ pc'[q] = pc[q] /\ i'[q] = i[q] /\ x'[q] = x[q] /\ last'[q] = last[q]
        /\ size8B'[q] = size8B[q]
    BY <1>1, OthersSame
  <2> QED BY <2>1 DEF Kept
<1>2. ASSUME NEW q \in Processes, pc'[q] \in Getting
      PROVE  i'[q] < N /\ last'[q][x'[q]] = NULL /\ size8B'[q] \in Sizes
  BY <1>1, <1>2 DEF TurnInv
<1>3. ASSUME NEW q \in Processes, pc'[q] \in Freeing
      PROVE  /\ x'[q] \in Kept(q)'
             /\ i'[q] < N => size8B'[q] \in Sizes
             /\ i'[q] >= N => i'[q] = N + x'[q] - 1
  <2>1. CASE q = p
    BY <1>3, <2>1
  <2>2. CASE q # p
    BY <1>1, <1>3, <2>2 DEF TurnInv
  <2> QED BY <2>1, <2>2
<1> HIDE DEF Kept
<1> QED BY <1>2, <1>3 DEF TurnInv

LEMMA StepKeepsTurns ==
  ASSUME PlaceInv, TurnInv, NEW p \in Processes, Step(p)
  PROVE  TurnInv'
<1>1. CASE Turn(p)
  <2>1. PICK s \in Slots, n \in Sizes :
          /\ x' = [x EXCEPT ![p] = s]
          /\ size8B' = [size8B EXCEPT ![p] = n]
          /\ pc' = [pc EXCEPT ![p] = IF last[p][s] = NULL THEN "test" ELSE "spin"]
    BY <1>1 DEF Turn
  <2>2. i[p] < N /\ UNCHANGED <<i, last, mCount, fCount>> /\ i[p] \in Nat /\ N \in Nat /\ n \in Nat
    BY <1>1, HeapAssumption DEF Turn, TurnInv
  <2>3. x'[p] = s /\ size8B'[p] = n /\ pc'[p] = IF last[p][s] = NULL THEN "test" ELSE "spin"
    BY <2>1 DEF PlaceInv, TurnInv
  <2>4. size8B' \in [Processes -> Nat]
    BY <2>1, <2>2 DEF TurnInv
  <2>5. last[p][s] # NULL => s \in Kept(p)'
    BY <2>2, SlotsAreInts DEF Kept
  <2> QED BY <2>2, <2>3, <2>4, <2>5, TurnInvFrom DEF TurnInv, Getting, Freeing
<1>2. CASE CleanUp(p)
  <2>1. /\ Kept(p)' = Kept(p) /\ i' \in [Processes -> Nat]
        /\ pc'[p] \in Freeing => x'[p] \in Kept(p) /\ i'[p] = N + x'[p] - 1
    BY <1>2, CleanUpKeeps
  <2>2. pc'[p] \notin Getting
    BY <1>2 DEF CleanUp, PlaceInv, Getting
  <2>3. UNCHANGED <<size8B, mCount, fCount>>
    BY <1>2 DEF CleanUp
  <2>4. ASSUME pc'[p] \in Freeing PROVE ~ (i'[p] < N)
    <3>1. x'[p] \in Slots
      BY <2>1, <2>4 DEF Kept
    <3>2. x'[p] \in Int /\ x'[p] > 0 /\ N \in Int
      BY <3>1, HeapAssumption DEF Slots
    <3>3. i'[p] = N + x'[p] - 1
      BY <2>1, <2>4
    <3> QED BY <3>2, <3>3
  <2> QED BY <2>1, <2>2, <2>3, <2>4, TurnInvFrom DEF TurnInv
<1>3. CASE PassLocked(p) \/ TestLock(p) \/ TakeLock(p) \/ LeaveArena(p) \/ Panic(p)
  <2>1. UNCHANGED <<i, x, last, size8B, mCount, fCount>>
    BY <1>3 DEF PassLocked, TestLock, TakeLock, LeaveArena, Panic
  <2>2. pc[p] \in Getting /\ pc'[p] \notin Freeing
    BY <1>3 DEF PassLocked, TestLock, TakeLock, LeaveArena, Panic, Goto, PlaceInv, Getting, Freeing
  <2> QED BY <2>1, <2>2, TurnInvFrom DEF TurnInv
<1>4. CASE Spin(p) \/ GrabLock(p)
  <2>1. UNCHANGED <<i, x, last, size8B, mCount, fCount>>
    BY <1>4 DEF Spin, GrabLock
  <2>2. pc[p] \in Freeing /\ pc'[p] \notin Getting /\ Kept(p)' = Kept(p)
    BY <1>4, <2>1 DEF Spin, GrabLock, Goto, PlaceInv, Getting, Freeing, Kept
  <2> QED BY <2>1, <2>2, TurnInvFrom DEF TurnInv
<1>5. CASE Allocate(p)
  <2>1. UNCHANGED <<i, x, last, size8B, fCount>> /\ mCount' = [mCount EXCEPT ![p] = @ + 1]
    BY <1>5 DEF Allocate
  <2>2. pc[p] \in Getting /\ pc'[p] \notin Freeing
    BY <1>5 DEF Allocate, Goto, PlaceInv, Getting, Freeing
  <2>3. mCount' \in [Processes -> Int]
    BY <2>1 DEF TurnInv
  <2> QED BY <2>1, <2>2, <2>3, TurnInvFrom DEF TurnInv
<1>6. CASE ReturnBlock(p)
  <2>1. UNCHANGED <<size8B, mCount, fCount>> /\ i' = [i EXCEPT ![p] = @ + 1]
    BY <1>6 DEF ReturnBlock
  <2>2. pc'[p] = "turn"
    BY <1>6 DEF ReturnBlock, Goto, PlaceInv
  <2>3. i' \in [Processes -> Nat]
    BY <2>1 DEF TurnInv
  <2> QED BY <2>1, <2>2, <2>3, TurnInvFrom DEF TurnInv, Getting, Freeing
<1>7. CASE FreeBlock(p)
  <2>1. UNCHANGED <<size8B, mCount, x>> /\ fCount' = [fCount EXCEPT ![p] = @ + 1]
    BY <1>7 DEF FreeBlock
  <2>2. fCount' \in [Processes -> Int]
    BY <2>1 DEF TurnInv
  <2>3. x[p] \in Slots
    BY <1>7, FreeBlockKeeps
  <2>4. CASE i[p] < N
    <3>1. UNCHANGED i /\ pc'[p] = "test" /\ last' = [last EXCEPT ![p][x[p]] = NULL]
      BY <1>7, <2>4 DEF FreeBlock, PlaceInv
    <3>2. last'[p][x[p]] = NULL /\ size8B[p] \in Sizes
      BY <1>7, <2>3, <2>4, <3>1 DEF PlaceInv, TurnInv, FreeBlock, Freeing
    <3> QED BY <2>1, <2>2, <2>4, <3>1, <3>2, TurnInvFrom DEF TurnInv, Getting, Freeing
  <2>5. CASE ~ (i[p] < N)
    <3>1. i' = [i EXCEPT ![p] = @ + 1] /\ pc'[p] = "turn"
      BY <1>7, <2>5 DEF FreeBlock, PlaceInv
    <3>2. i' \in [Processes -> Nat]
      BY <3>1 DEF TurnInv
    <3> QED BY <2>1, <2>2, <3>1, <3>2, TurnInvFrom DEF TurnInv, Getting, Freeing
  <2> QED BY <2>4, <2>5
<1> QED BY <1>1, <1>2, <1>3, <1>4, <1>5, <1>6, <1>7 DEF Step

-----------------------------------------------------------------------------
(* The counters.                                                           *)

\* A process keeps finitely many pointers.
LEMMA KeptFinite ==
  ASSUME NEW p \in Processes
  PROVE  IsFiniteSet(Kept(p)) /\ Cardinality(Kept(p)) \in Nat
<1>1. IsFiniteSet(Slots)
  BY FS_Interval, HeapAssumption DEF Slots
<1>2. Kept(p) \in SUBSET Slots
  BY DEF Kept
<1>3. IsFiniteSet(Kept(p))
  BY <1>1, <1>2, FS_Subset
<1> QED BY <1>3, FS_CardinalityType

CountOf(p) == Cardinality(Kept(p)) + (IF pc[p] = "return" THEN 1 ELSE 0)

LEMMA StepKeepsCounters ==
  ASSUME PlaceInv, TurnInv, CountersRight, NEW p \in Processes, Step(p)
  PROVE  CountersRight'
<1>1. ASSUME NEW q \in Processes, q # p PROVE (mCount[q] - fCount[q] = CountOf(q))'
  <2>1. /\ pc'[q] = pc[q] /\ i'[q] = i[q] /\ last'[q] = last[q]
        /\ mCount'[q] = mCount[q] /\ fCount'[q] = fCount[q]
    BY <1>1, OthersSame
  <2>2. Kept(q)' = Kept(q)
    BY <2>1 DEF Kept
  <2> QED BY <2>1, <2>2 DEF CountersRight, CountOf
<1>2. mCount[p] - fCount[p] = CountOf(p) /\ mCount[p] \in Int /\ fCount[p] \in Int
      /\ Cardinality(Kept(p)) \in Nat /\ IsFiniteSet(Kept(p))
  BY KeptFinite DEF CountersRight, CountOf, TurnInv
<1>3. CASE Quiet(p)
  <2>1. Kept(p)' = Kept(p) /\ UNCHANGED <<mCount, fCount>>
    BY <1>3, QuietKeeps
  <2>2. pc[p] # "return" /\ pc'[p] # "return"
    BY <1>3 DEF Quiet, Turn, CleanUp, PassLocked, TestLock, TakeLock, LeaveArena, Panic, Spin,
                GrabLock, Goto, PlaceInv
  <2>3. (mCount[p] - fCount[p] = CountOf(p))'
    BY <1>2, <2>1, <2>2 DEF CountOf
  <2> QED BY <1>1, <2>3 DEF CountersRight, CountOf
<1>4. CASE Allocate(p)
  <2>1. Kept(p)' = Kept(p) /\ UNCHANGED fCount /\ mCount'[p] = mCount[p] + 1
    BY <1>4, AllocateKeeps DEF Allocate, TurnInv
  <2>2. pc[p] = "search" /\ pc'[p] = "return"
    BY <1>4 DEF Allocate, Goto, PlaceInv
  <2>3. (mCount[p] - fCount[p] = CountOf(p))'
    BY <1>2, <2>1, <2>2 DEF CountOf
  <2> QED BY <1>1, <2>3 DEF CountersRight, CountOf
<1>5. CASE ReturnBlock(p)
  <2>1. Kept(p)' = Kept(p) \cup {x[p]} /\ x[p] \notin Kept(p) /\ UNCHANGED <<mCount, fCount>>
    BY <1>5, ReturnBlockKeeps DEF ReturnBlock
  <2>2. pc[p] = "return" /\ pc'[p] = "turn"
    BY <1>5 DEF ReturnBlock, Goto, PlaceInv
  <2>3. Cardinality(Kept(p)') = Cardinality(Kept(p)) + 1
    BY <1>2, <2>1, FS_AddElement
  <2>4. (mCount[p] - fCount[p] = CountOf(p))'
    BY <1>2, <2>1, <2>2, <2>3 DEF CountOf
  <2> QED BY <1>1, <2>4 DEF CountersRight, CountOf
<1>6. CASE FreeBlock(p)
  <2>1. Kept(p)' = Kept(p) \ {x[p]} /\ x[p] \in Kept(p) /\ UNCHANGED mCount /\ fCount'[p] = fCount[p] + 1
    BY <1>6, FreeBlockKeeps DEF FreeBlock, TurnInv
  <2>2. pc[p] = "flip" /\ pc'[p] \in {"test", "turn"}
    BY <1>6 DEF FreeBlock, PlaceInv
  <2>3. Cardinality(Kept(p)') = Cardinality(Kept(p)) - 1
    BY <1>2, <2>1, FS_RemoveElement
  <2>4. (mCount[p] - fCount[p] = CountOf(p))'
    BY <1>2, <2>1, <2>2, <2>3 DEF CountOf
  <2> QED BY <1>1, <2>4 DEF CountersRight, CountOf
<1> QED BY <1>3, <1>4, <1>5, <1>6 DEF Step, Quiet

LEMMA InitiallyCounted == Init => CountersRight
<1> SUFFICES ASSUME Init, NEW p \in Processes PROVE mCount[p] - fCount[p] = CountOf(p)
  BY DEF CountersRight, CountOf
<1>1. Kept(p) = {}
  BY DEF Init, Kept
<1> QED BY <1>1, FS_EmptySet DEF Init, CountOf

-----------------------------------------------------------------------------
(* OwnInv is inductive.                                                    *)

\* What there is to know of a claim.
LEMMA ClaimHeld ==
  ASSUME PlaceInv, OwnInv, NEW p \in Processes, NEW s \in Tags, Claimed(p, s)
  PROVE  \E a \in ArenaIds, h \in Words :
           /\ h \in Taken(word[a])
           /\ word[a] \in Memory /\ WellFormed(word[a])
           /\ h \in Headers(word[a]) \cap Words /\ h \in Int /\ h >= 0
           /\ word[a][h] \in Int /\ word[a][h] >= 1 /\ (Padded(h) => word[a][h] >= 2)
           /\ Holds(p, s, a, h)
<1>1. PICK a \in ArenaIds : \E h \in Used(a) : Holds(p, s, a, h)
  BY DEF OwnInv
<1>2. PICK h \in Used(a) : Holds(p, s, a, h)
  BY <1>1
<1>3. word[a] \in Memory /\ WellFormed(word[a])
  BY DEF OwnInv
<1>4. h \in Taken(word[a]) /\ h \in Headers(word[a]) \cap Words /\ word[a][h] >= 0
  BY <1>2 DEF Used, Taken
<1>5. h \in Int /\ h >= 0 /\ word[a][h] \in Int
  BY <1>3, <1>4, HeapAssumption DEF Memory, Words
<1>6. word[a][h] >= Need(1, h)
  BY <1>3, <1>4 DEF WellFormed
<1>7. word[a][h] >= 1 /\ (Padded(h) => word[a][h] >= 2)
  <2> HIDE DEF Padded
  <2> QED BY <1>5, <1>6 DEF Need
<1> QED BY <1>2, <1>3, <1>4, <1>5, <1>7

\* Who makes no new claim, and loses none, keeps its blocks where all that is
\* written is free.
LEMMA QuietKeepsOwners ==
  ASSUME PlaceInv, OwnInv,
         word' \in [ArenaIds -> Memory],
         \A a \in ArenaIds : /\ WellFormed(word'[a])
                             /\ Taken(word'[a]) = Taken(word[a])
                             /\ \A k \in Words : word[a][k] >= 0 => word'[a][k] = word[a][k],
         \A q \in Processes, s \in Tags : Claimed(q, s)' = Claimed(q, s),
         \A q \in Processes, s \in Tags : Claimed(q, s) =>
           /\ PlaceOf(q, s)' = PlaceOf(q, s)
           /\ s = 0 => fresh'[q] = fresh[q] /\ size8B'[q] = size8B[q]
  PROVE  OwnInv'
<1> HIDE DEF Claimed, PlaceOf
<1>1. \A a \in ArenaIds : Used(a)' = Used(a) /\ Used(a) = Taken(word[a])
  BY DEF Used, Taken
<1>2. ASSUME NEW p \in Processes, NEW s \in Tags, Claimed(p, s)'
      PROVE  \E a \in ArenaIds : \E h \in Used(a)' : Holds(p, s, a, h)'
  <2>1. Claimed(p, s)
    BY <1>2
  <2>2. PICK a \in ArenaIds, h \in Words :
           /\ h \in Taken(word[a])
           /\ word[a] \in Memory /\ WellFormed(word[a])
           /\ h \in Headers(word[a]) \cap Words /\ h \in Int /\ h >= 0
           /\ word[a][h] \in Int /\ word[a][h] >= 1 /\ (Padded(h) => word[a][h] >= 2)
           /\ Holds(p, s, a, h)
    BY <2>1, ClaimHeld
  <2>3. h \in Used(a)' /\ h \in Used(a)
    BY <1>1, <2>2
  <2>4. word'[a][h] = word[a][h]
    BY <2>2
  <2>5. PlaceOf(p, s)' = <<a, Payload(h)>>
    BY <2>1, <2>2 DEF Holds
  <2>6. s = 0 => (fresh[p] = <<a, h>> /\ word[a][h] = Need(size8B[p], h))'
    BY <2>1, <2>2, <2>4 DEF Holds
  <2>7. s # 0 /\ Padded(h) => word'[a][h + 1] = 0
    <3> SUFFICES ASSUME s # 0, Padded(h) PROVE word'[a][h + 1] = 0
      OBVIOUS
    <3> HIDE DEF Padded
    <3>1. word[a][h + 1] = 0 /\ word[a][h] >= 2
      BY <2>2 DEF Holds
    <3>2. Behind(word[a])[h] = h + word[a][h] + 1 /\ Behind(word[a])[h] <= LastAddress + 1
      BY <2>2, HeadersWithin DEF Behind
    <3>3. h + 1 \in Words
      BY <2>2, <3>1, <3>2, HeapAssumption DEF Words
    <3> QED BY <3>1, <3>3
  <2> QED BY <2>3, <2>5, <2>6, <2>7 DEF Holds
<1>3. ASSUME NEW p \in Processes, NEW q \in Processes, NEW s \in Tags, NEW t \in Tags,
             Claimed(p, s)', Claimed(q, t)', PlaceOf(p, s)' = PlaceOf(q, t)'
      PROVE  p = q /\ s = t
  <2>1. Claimed(p, s) /\ Claimed(q, t)
    BY <1>3
  <2>2. PlaceOf(p, s) = PlaceOf(q, t)
    BY <1>3, <2>1
  <2> QED BY <2>1, <2>2 DEF OwnInv
<1>4. ASSUME NEW a \in ArenaIds, NEW h \in Used(a)'
      PROVE  \E p \in Processes, s \in Tags : (Claimed(p, s) /\ PlaceOf(p, s) = <<a, Payload(h)>>)'
  <2>1. h \in Used(a)
    BY <1>1, <1>4
  <2>2. PICK p \in Processes, s \in Tags : Claimed(p, s) /\ PlaceOf(p, s) = <<a, Payload(h)>>
    BY <2>1 DEF OwnInv
  <2>3. Claimed(p, s)' /\ PlaceOf(p, s)' = <<a, Payload(h)>>
    BY <2>2
  <2> QED BY <2>3
<1> HIDE DEF Holds, Used
<1> QED BY <1>2, <1>3, <1>4 DEF OwnInv

\* A claim of a process that has not moved, and a pointer that has not changed.
LEMMA ClaimsOfOthers ==
  ASSUME PlaceInv, TurnInv, NEW p \in Processes, Step(p), NEW q \in Processes, q # p, NEW s \in Tags
  PROVE  /\ Claimed(q, s)' = Claimed(q, s) /\ PlaceOf(q, s)' = PlaceOf(q, s)
         /\ fresh'[q] = fresh[q] /\ size8B'[q] = size8B[q]
<1>1. /\ pc'[q] = pc[q] /\ i'[q] = i[q] /\ last'[q] = last[q]
      /\ size8B'[q] = size8B[q] /\ fresh'[q] = fresh[q]
  BY OthersSame
<1>2. Kept(q)' = Kept(q)
  BY <1>1 DEF Kept
<1> QED BY <1>1, <1>2 DEF Claimed, PlaceOf

LEMMA QuietStepKeepsOwners ==
  ASSUME PlaceInv, TurnInv, OwnInv, NEW p \in Processes, Step(p), Quiet(p)
  PROVE  OwnInv'
<1>1. Kept(p)' = Kept(p) /\ UNCHANGED <<last, fresh>>
  BY QuietKeeps
<1>2. pc[p] # "return" /\ pc'[p] # "return"
  BY DEF Quiet, Turn, CleanUp, PassLocked, TestLock, TakeLock, LeaveArena, Panic, Spin,
         GrabLock, Goto, PlaceInv
<1>3. \A s \in Tags : Claimed(p, s)' = Claimed(p, s) /\ PlaceOf(p, s)' = PlaceOf(p, s)
  BY <1>1, <1>2 DEF Claimed, PlaceOf
<1>4. /\ \A q \in Processes, s \in Tags : Claimed(q, s)' = Claimed(q, s)
      /\ \A q \in Processes, s \in Tags : PlaceOf(q, s)' = PlaceOf(q, s)
      /\ \A q \in Processes : Claimed(q, 0) => fresh'[q] = fresh[q] /\ size8B'[q] = size8B[q]
  <2>1. 0 \in Tags
    BY SlotsAreInts DEF Tags
  <2>2. ~Claimed(p, 0)
    BY <1>2 DEF Claimed
  <2> HIDE DEF Claimed, PlaceOf
  <2> QED BY <1>3, <2>1, <2>2, ClaimsOfOthers
<1>5. CASE UNCHANGED word
  <2>1. word' \in [ArenaIds -> Memory] /\ \A a \in ArenaIds : WellFormed(word'[a])
    BY <1>5 DEF OwnInv
  <2> HIDE DEF Claimed, PlaceOf
  <2> QED BY <1>4, <1>5, <2>1, QuietKeepsOwners
<1>6. CASE LeaveArena(p)
  <2> DEFINE a == Tried(p)
             w == word[a]
             s == Search(w, size8B[p])
  <2>1. a \in ArenaIds
    BY TriedInRange
  <2>2. w \in Memory /\ WellFormed(w) /\ size8B[p] \in Nat
    BY <2>1 DEF OwnInv, TurnInv
  <2>3. Finds(w, size8B[p], s)
    BY <2>2, SearchFinds
  <2>4. word' = [word EXCEPT ![a] = s.words]
    BY <1>6, Zenon DEF LeaveArena
  <2> HIDE DEF a, s
  <2>5. word' \in [ArenaIds -> Memory]
    BY <2>1, <2>3, <2>4 DEF OwnInv, Finds
  <2>6. ASSUME NEW b \in ArenaIds
        PROVE  /\ WellFormed(word'[b])
               /\ Taken(word'[b]) = Taken(word[b])
               /\ \A k \in Words : word[b][k] >= 0 => word'[b][k] = word[b][k]
    <3>1. CASE b = a
      <4>1. word'[b] = s.words
        BY <2>1, <2>4, <3>1 DEF OwnInv
      <4> QED BY <2>3, <3>1, <4>1 DEF Finds
    <3>2. CASE b # a
      <4>1. word'[b] = word[b]
        BY <2>1, <2>4, <3>2 DEF OwnInv
      <4> QED BY <4>1 DEF OwnInv
    <3> QED BY <3>1, <3>2
  <2> HIDE DEF Claimed, PlaceOf
  <2> QED BY <1>4, <2>5, <2>6, QuietKeepsOwners
<1>7. UNCHANGED word \/ LeaveArena(p)
  BY DEF Quiet, Turn, CleanUp, PassLocked, TestLock, TakeLock, Panic, Spin, GrabLock
<1> QED BY <1>5, <1>6, <1>7

\* The block that malloc carves is claimed by nobody yet.
LEMMA AllocateKeepsOwners ==
  ASSUME PlaceInv, TurnInv, OwnInv, NEW p \in Processes, Step(p), Allocate(p)
  PROVE  OwnInv'
<1>1. PICK a \in ArenaIds : a = Tried(p)
  BY TriedInRange
<1>2. pc[p] = "search" /\ pc'[p] = "return"
  BY DEF Allocate, Goto, PlaceInv
<1>3. PICK n \in Nat, w \in Memory : n = size8B[p] /\ n >= 1 /\ w = word[a] /\ WellFormed(w)
  BY <1>2, HeapAssumption DEF OwnInv, TurnInv, Getting
<1> DEFINE f == Search(w, n)
<1>4. PICK h, u : h = f.block /\ u = Split(f.words, h, Need(n, h))
  OBVIOUS
<1>5. Finds(w, n, f)
  BY <1>3, SearchFinds
<1>6. /\ h <= LastAddress
      /\ UNCHANGED <<size8B, last, i>> /\ word'[a] = u /\ fresh'[p] = <<a, h>>
      /\ word' = [word EXCEPT ![a] = u]
      /\ \A b \in ArenaIds : b # a => word'[b] = word[b]
  <2>1. /\ h <= LastAddress
        /\ word' = [word EXCEPT ![a] = u]
        /\ fresh' = [fresh EXCEPT ![p] = <<a, h>>]
    BY <1>1, <1>3, <1>4, Zenon DEF Allocate
  <2>2. UNCHANGED <<size8B, last, i>>
    BY DEF Allocate
  <2> QED BY <2>1, <2>2 DEF OwnInv, PlaceInv
<1> HIDE DEF f
<1>7. h \in Headers(f.words) \cap Words /\ f.words[h] < 0 /\ h \in Int
  <2>1. h \in Words
    BY <1>4, <1>5, <1>6, HeapAssumption DEF Finds
  <2> QED BY <1>4, <1>5, <2>1, WordsAreInts DEF Finds
<1>8. Need(n, h) \in Nat /\ Need(n, h) >= Need(1, h) /\ Need(n, h) <= Not(f.words[h])
  <2>1. Need(n, h) <= Not(f.words[h])
    <3>1. Not(f.words[h]) >= Need(n, h)
      BY <1>4, <1>5, <1>7 DEF Finds
    <3>2. Not(f.words[h]) \in Int /\ Need(n, h) \in Int
      BY <1>3, <1>5, <1>7 DEF Finds, Memory, Not, Need
    <3> QED BY <3>1, <3>2
  <2> HIDE DEF Padded
  <2> QED BY <1>3, <2>1 DEF Need
<1>9. /\ u \in Memory /\ WellFormed(u)
      /\ h \notin Taken(w) /\ Taken(u) = Taken(w) \cup {h}
      /\ u[h] = Need(n, h)
  BY <1>4, <1>5, <1>7, <1>8, SplitHeap DEF Finds
<1>10. ASSUME NEW g \in Taken(w), NEW k \in g..(g + w[g]), w[k] >= 0, k \in Words PROVE u[k] = w[k]
  <2>1. g \in Taken(f.words) /\ f.words[g] = w[g] /\ f.words[k] = w[k]
    BY <1>5, <1>10 DEF Finds, Taken
  <2> QED BY <1>4, <1>5, <1>7, <1>8, <1>10, <2>1, SplitHeap DEF Finds
<1>11. Used(a)' = Used(a) \cup {h} /\ Used(a) = Taken(w) /\ \A b \in ArenaIds : b # a => Used(b)' = Used(b)
  <2>1. Used(a)' = Taken(u) /\ Used(a) = Taken(w)
    BY <1>3, <1>6 DEF Used, Taken
  <2>2. \A b \in ArenaIds : b # a => Used(b)' = Used(b)
    BY <1>6 DEF Used
  <2> QED BY <1>9, <2>1, <2>2
<1>12. Kept(p)' = Kept(p) /\ 0 \in Tags
  BY AllocateKeeps, SlotsAreInts DEF Tags
<1>13. /\ \A q \in Processes, s \in Tags : Claimed(q, s)' <=> (Claimed(q, s) \/ (q = p /\ s = 0))
       /\ ~Claimed(p, 0)
       /\ PlaceOf(p, 0)' = <<a, Payload(h)>>
       /\ \A q \in Processes, s \in Tags : Claimed(q, s) =>
            /\ PlaceOf(q, s)' = PlaceOf(q, s)
            /\ s = 0 => fresh'[q] = fresh[q] /\ size8B'[q] = size8B[q]
  <2>1. ~Claimed(p, 0) /\ Claimed(p, 0)' /\ PlaceOf(p, 0)' = <<a, Payload(h)>>
    BY <1>2, <1>6 DEF Claimed, PlaceOf
  <2>2. \A s \in Tags : s # 0 => Claimed(p, s)' = Claimed(p, s) /\ PlaceOf(p, s)' = PlaceOf(p, s)
    BY <1>6, <1>12 DEF Claimed, PlaceOf
  <2> HIDE DEF Claimed, PlaceOf
  <2> QED BY <2>1, <2>2, ClaimsOfOthers
<1> HIDE DEF Claimed, PlaceOf
<1>14. ASSUME NEW q \in Processes, NEW s \in Tags, Claimed(q, s)
       PROVE  \E b \in ArenaIds, g \in Words :
                /\ g \in Used(b) /\ g \in Used(b)'
                /\ Holds(q, s, b, g)' /\ PlaceOf(q, s)' = <<b, Payload(g)>>
  <2>1. PICK b \in ArenaIds, g \in Words :
           /\ g \in Taken(word[b])
           /\ word[b] \in Memory /\ WellFormed(word[b])
           /\ g \in Headers(word[b]) \cap Words /\ g \in Int /\ g >= 0
           /\ word[b][g] \in Int /\ word[b][g] >= 1 /\ (Padded(g) => word[b][g] >= 2)
           /\ Holds(q, s, b, g)
    BY <1>14, ClaimHeld
  <2>2. g \in Used(b) /\ g \in Used(b)'
    BY <1>11, <2>1 DEF Holds
  <2>3. word'[b][g] = word[b][g] /\ (s # 0 /\ Padded(g) => word'[b][g + 1] = word[b][g + 1])
    <3>1. CASE b # a
      BY <1>6, <3>1
    <3>2. CASE b = a
      <4>1. w = word[b] /\ u = word'[b]
        BY <1>3, <1>6, <3>2
      <4>2. g \in g..(g + w[g]) /\ w[g] >= 0
        BY <2>1, <4>1
      <4>3. ASSUME s # 0, Padded(g) PROVE u[g + 1] = w[g + 1]
        <5> HIDE DEF Padded
        <5>1. w[g + 1] = 0 /\ g + 1 \in g..(g + w[g]) /\ w[g] >= 2
          BY <2>1, <4>1, <4>3 DEF Holds
        <5>2. Behind(w)[g] = g + w[g] + 1 /\ Behind(w)[g] <= LastAddress + 1
          BY <2>1, <4>1, HeadersWithin DEF Behind
        <5>3. g + 1 \in Words
          BY <2>1, <4>1, <5>1, <5>2, HeapAssumption DEF Words
        <5> QED BY <1>10, <2>1, <4>1, <5>1, <5>3
      <4> QED BY <1>10, <2>1, <4>1, <4>2, <4>3
    <3> QED BY <3>1, <3>2
  <2>4. PlaceOf(q, s)' = <<b, Payload(g)>>
    BY <1>13, <1>14, <2>1 DEF Holds
  <2>5. Holds(q, s, b, g)'
    <3> HIDE DEF Padded
    <3> QED BY <1>13, <1>14, <2>1, <2>2, <2>3, <2>4 DEF Holds
  <2> QED BY <2>2, <2>4, <2>5
<1>15. Holds(p, 0, a, h)' /\ h \in Used(a)'
  BY <1>3, <1>6, <1>9, <1>11, <1>13 DEF Holds
<1>16. ASSUME NEW q \in Processes, NEW s \in Tags, Claimed(q, s) PROVE PlaceOf(q, s)' # <<a, Payload(h)>>
  <2>1. PICK b \in ArenaIds, g \in Words : g \in Used(b) /\ PlaceOf(q, s)' = <<b, Payload(g)>>
    BY <1>14, <1>16
  <2> SUFFICES ASSUME PlaceOf(q, s)' = <<a, Payload(h)>> PROVE FALSE
    OBVIOUS
  <2>2. b = a /\ Payload(g) = Payload(h)
    <3> HIDE DEF Payload
    <3> QED BY <2>1
  <2>3. g \in Taken(u) /\ h \in Taken(u) /\ g # h
    BY <1>9, <1>11, <2>1, <2>2
  <2> QED BY <1>9, <2>2, <2>3, PayloadOnce
<1>17. word' \in [ArenaIds -> Memory] /\ \A b \in ArenaIds : WellFormed(word'[b])
  <2>1. word' \in [ArenaIds -> Memory]
    BY <1>6, <1>9 DEF OwnInv
  <2> QED BY <1>6, <1>9, <2>1 DEF OwnInv
<1>18. ASSUME NEW q \in Processes, NEW s \in Tags, Claimed(q, s)'
       PROVE  \E b \in ArenaIds : \E g \in Used(b)' : Holds(q, s, b, g)'
  <2>1. CASE Claimed(q, s)
    BY <1>14, <2>1
  <2>2. CASE q = p /\ s = 0
    BY <1>1, <1>15, <2>2
  <2> QED BY <1>13, <1>18, <2>1, <2>2
<1>19. ASSUME NEW q \in Processes, NEW r \in Processes, NEW s \in Tags, NEW t \in Tags,
              Claimed(q, s)', Claimed(r, t)', PlaceOf(q, s)' = PlaceOf(r, t)'
       PROVE  q = r /\ s = t
  <2>1. CASE Claimed(q, s) /\ Claimed(r, t)
    <3>1. PlaceOf(q, s) = PlaceOf(r, t)
      BY <1>13, <1>19, <2>1
    <3> QED BY <2>1, <3>1 DEF OwnInv
  <2>2. CASE ~Claimed(q, s) \/ ~Claimed(r, t)
    BY <1>13, <1>16, <1>19, <2>2
  <2> QED BY <2>1, <2>2
<1>20. ASSUME NEW b \in ArenaIds, NEW g \in Used(b)'
       PROVE  \E q \in Processes, s \in Tags : (Claimed(q, s) /\ PlaceOf(q, s) = <<b, Payload(g)>>)'
  <2>1. CASE g \in Used(b)
    <3>1. PICK q \in Processes, s \in Tags : Claimed(q, s) /\ PlaceOf(q, s) = <<b, Payload(g)>>
      BY <2>1 DEF OwnInv
    <3>2. Claimed(q, s)' /\ PlaceOf(q, s)' = <<b, Payload(g)>>
      BY <1>13, <3>1
    <3> QED BY <3>2
  <2>2. CASE b = a /\ g = h
    <3>1. Claimed(p, 0)' /\ PlaceOf(p, 0)' = <<b, Payload(g)>>
      BY <1>12, <1>13, <2>2
    <3> QED BY <1>12, <3>1
  <2> QED BY <1>11, <1>20, <2>1, <2>2
<1> HIDE DEF Holds, Used
<1> QED BY <1>17, <1>18, <1>19, <1>20 DEF OwnInv

\* A block that another claim is for is as it was, where only the block at h
\* has been written to.
LEMMA HeldElsewhere ==
  ASSUME PlaceInv, OwnInv, NEW q \in Processes, NEW s \in Tags, Claimed(q, s),
         NEW a \in ArenaIds, NEW h \in Used(a),
         PlaceOf(q, s) # <<a, Payload(h)>>,
         word' \in [ArenaIds -> Memory],
         \A b \in ArenaIds : b # a => word'[b] = word[b],
         Used(a)' \in {Used(a), Used(a) \ {h}},
         \A g \in Used(a) : g # h => \A k \in g..(g + word[a][g]) : word'[a][k] = word[a][k],
         PlaceOf(q, s)' = PlaceOf(q, s),
         s = 0 => fresh'[q] = fresh[q] /\ size8B'[q] = size8B[q]
  PROVE  \E b \in ArenaIds : \E g \in Used(b)' : Holds(q, s, b, g)'
<1>1. PICK b \in ArenaIds, g \in Words :
           /\ g \in Taken(word[b])
           /\ word[b] \in Memory /\ WellFormed(word[b])
           /\ g \in Headers(word[b]) \cap Words /\ g \in Int /\ g >= 0
           /\ word[b][g] \in Int /\ word[b][g] >= 1 /\ (Padded(g) => word[b][g] >= 2)
           /\ Holds(q, s, b, g)
  BY ClaimHeld
<1>2. b = a => g # h
  BY <1>1 DEF Holds
<1>3. g \in Used(b) /\ g \in Used(b)'
  <2>1. CASE b # a
    <3>1. Used(b)' = Used(b)
      BY <2>1 DEF Used
    <3> QED BY <1>1, <3>1 DEF Holds
  <2>2. CASE b = a
    BY <1>1, <1>2, <2>2 DEF Holds
  <2> QED BY <2>1, <2>2
<1>4. word'[b][g] = word[b][g] /\ (Padded(g) => word'[b][g + 1] = word[b][g + 1])
  <2>1. CASE b # a
    BY <2>1
  <2>2. CASE b = a
    <3>1. \A k \in g..(g + word[a][g]) : word'[a][k] = word[a][k]
      BY <1>2, <1>3, <2>2
    <3>2. g \in g..(g + word[a][g]) /\ (Padded(g) => g + 1 \in g..(g + word[a][g]))
      <4> HIDE DEF Padded
      <4> QED BY <1>1, <2>2
    <3> QED BY <2>2, <3>1, <3>2
  <2> QED BY <2>1, <2>2
<1> HIDE DEF Padded, PlaceOf, Used, Claimed
<1>5. Holds(q, s, b, g)'
  BY <1>1, <1>3, <1>4 DEF Holds
<1> QED BY <1>3, <1>5

\* The pointer that t1 keeps is to the block that was carved.
LEMMA ReturnBlockKeepsOwners ==
  ASSUME PlaceInv, TurnInv, OwnInv, NEW p \in Processes, Step(p), ReturnBlock(p)
  PROVE  OwnInv'
<1>1. /\ pc[p] = "return" /\ pc'[p] = "turn" /\ UNCHANGED size8B
      /\ x[p] \in Slots /\ x[p] \notin Kept(p) /\ Kept(p)' = Kept(p) \cup {x[p]}
      /\ \A s \in Slots : s # x[p] => last'[p][s] = last[p][s]
      /\ last'[p][x[p]] = <<fresh[p][1], Payload(fresh[p][2])>>
  BY ReturnBlockKeeps DEF ReturnBlock, Goto, PlaceInv
<1>2. PICK z \in Slots : z = x[p] /\ z # 0 /\ z \in Tags /\ 0 \in Tags
  <2>1. x[p] # 0 /\ x[p] \in Tags /\ 0 \in Tags
    BY <1>1, HeapAssumption DEF Slots, Tags
  <2> QED BY <1>1, <2>1
<1>3. Claimed(p, 0)
  BY <1>1 DEF Claimed
<1>4. PICK a \in ArenaIds, h \in Words :
           /\ h \in Taken(word[a])
           /\ word[a] \in Memory /\ WellFormed(word[a])
           /\ h \in Headers(word[a]) \cap Words /\ h \in Int /\ h >= 0
           /\ word[a][h] \in Int /\ word[a][h] >= 1 /\ (Padded(h) => word[a][h] >= 2)
           /\ Holds(p, 0, a, h)
  BY <1>2, <1>3, ClaimHeld
<1>5. PICK n \in Nat : n = size8B[p] /\ n >= 1
  BY <1>1, HeapAssumption DEF TurnInv, Getting
<1>6. fresh[p] = <<a, h>> /\ word[a][h] = Need(n, h) /\ h \in Used(a)
  BY <1>4, <1>5 DEF Holds
<1> DEFINE k == Payload(h)
           u == [j \in Words |-> CASE j \in {k, k + n - 1} -> 66
                                   [] j = h + 1 /\ Padded(h) -> 0
                                   [] OTHER -> word[a][j]]
<1>7. word' = [word EXCEPT ![a] = u]
  <2>1. fresh[p][1] = a /\ fresh[p][2] = h
    BY <1>6
  <2> DEFINE Filled(b, g, m) ==
        [j \in Words |-> CASE j \in {Payload(g), Payload(g) + m - 1} -> 66
                           [] j = g + 1 /\ Padded(g) -> 0
                           [] OTHER -> word[b][j]]
  <2>2. word' = [word EXCEPT ![fresh[p][1]] = Filled(fresh[p][1], fresh[p][2], size8B[p])]
    BY Zenon DEF ReturnBlock
  <2>3. u = Filled(a, h, n)
    OBVIOUS
  <2> HIDE DEF u, Filled
  <2> QED BY <1>5, <2>1, <2>2, <2>3
<1>8. h + 1 <= k /\ k + n - 1 <= h + word[a][h] /\ k \in Int /\ k + n - 1 >= k /\ (Padded(h) => k = h + 2)
  <2> HIDE DEF Padded
  <2> QED BY <1>4, <1>5, <1>6 DEF Payload, Need
<1>9. /\ \A j \in Words : j \notin (h + 1)..(h + word[a][h]) => u[j] = word[a][j]
      /\ Padded(h) => u[h + 1] = 0
      /\ u \in Memory
  <2> HIDE DEF k, Padded
  <2>1. ASSUME NEW j \in Words, j \notin (h + 1)..(h + word[a][h]) PROVE u[j] = word[a][j]
    <3>1. j \notin {k, k + n - 1} /\ j # h + 1
      BY <1>4, <1>5, <1>8, <2>1, WordsAreInts
    <3> QED BY <3>1, Zenon
  <2>2. ASSUME Padded(h) PROVE u[h + 1] = 0
    <3>1. h + 1 \notin {k, k + n - 1}
      BY <1>4, <1>5, <1>8, <2>2
    <3>2. h + 1 \in Words
      <4>1. Behind(word[a])[h] = h + word[a][h] + 1 /\ Behind(word[a])[h] <= LastAddress + 1
        BY <1>4, HeadersWithin DEF Behind
      <4> QED BY <1>4, <2>2, <4>1, HeapAssumption DEF Words
    <3> QED BY <2>2, <3>1, <3>2, Zenon
  <2>3. ASSUME NEW j \in Words PROVE u[j] \in Int
    <3>1. word[a][j] \in Int
      BY <1>4 DEF Memory
    <3>2. CASE j \in {k, k + n - 1}
      <4>1. ~ (j = h + 1 /\ Padded(h))
        BY <1>4, <1>5, <1>8, <3>2
      <4>2. u[j] = 66
        BY <3>2, <4>1, Zenon
      <4> QED BY <4>2
    <3>3. CASE j \notin {k, k + n - 1} /\ j = h + 1 /\ Padded(h)
      <4>1. u[j] = 0
        BY <3>3, Zenon
      <4> QED BY <4>1
    <3>4. CASE j \notin {k, k + n - 1} /\ ~ (j = h + 1 /\ Padded(h))
      <4>1. u[j] = word[a][j]
        BY <3>4, Zenon
      <4> QED BY <3>1, <4>1
    <3> QED BY <3>2, <3>3, <3>4
  <2> HIDE DEF u
  <2>4. u = [j \in Words |-> u[j]]
    BY DEF u
  <2> QED BY <2>1, <2>2, <2>3, <2>4 DEF Memory
<1> HIDE DEF u
<1>10. PICK v \in Memory : v = u
  BY <1>9
<1>11. /\ WellFormed(v) /\ Taken(v) = Taken(word[a]) /\ v[h] = word[a][h]
       /\ \A g \in Taken(word[a]) : g # h => \A j \in g..(g + word[a][g]) : v[j] = word[a][j]
  BY <1>4, <1>9, <1>10, FillHeap
<1>12. /\ word'[a] = v /\ \A b \in ArenaIds : b # a => word'[b] = word[b]
       /\ word' \in [ArenaIds -> Memory]
  BY <1>7, <1>10 DEF OwnInv
<1>13. \A b \in ArenaIds : WellFormed(word'[b]) /\ Used(b)' = Used(b)
  BY <1>11, <1>12 DEF OwnInv, Used, Taken
<1>14. /\ ~Claimed(p, z) /\ Claimed(p, z)' /\ ~Claimed(p, 0)'
       /\ PlaceOf(p, 0) = <<a, k>> /\ PlaceOf(p, z)' = <<a, k>>
       /\ \A s \in Tags : s # 0 /\ s # z => Claimed(p, s)' = Claimed(p, s) /\ PlaceOf(p, s)' = PlaceOf(p, s)
  <2>1. ASSUME NEW s \in Tags, s # 0 PROVE s \in Slots
    BY <2>1, HeapAssumption DEF Slots, Tags
  <2> QED BY <1>1, <1>2, <1>6, <2>1 DEF Claimed, PlaceOf
<1> HIDE DEF Claimed, PlaceOf, k
<1>15. ASSUME NEW q \in Processes, NEW s \in Tags, Claimed(q, s)', q # p \/ s # z
       PROVE  Claimed(q, s) /\ PlaceOf(q, s)' = PlaceOf(q, s) /\ PlaceOf(q, s) # <<a, k>>
              /\ (s = 0 => fresh'[q] = fresh[q] /\ size8B'[q] = size8B[q])
  <2>1. CASE q # p
    <3>1. Claimed(q, s) /\ PlaceOf(q, s)' = PlaceOf(q, s) /\ fresh'[q] = fresh[q] /\ size8B'[q] = size8B[q]
      BY <1>15, <2>1, ClaimsOfOthers
    <3>2. PlaceOf(q, s) # PlaceOf(p, 0)
      BY <1>2, <1>3, <2>1, <3>1 DEF OwnInv
    <3> QED BY <1>14, <3>1, <3>2
  <2>2. CASE q = p
    <3>1. s # 0 /\ s # z
      BY <1>14, <1>15, <2>2
    <3>2. Claimed(p, s) /\ PlaceOf(p, s)' = PlaceOf(p, s)
      BY <1>14, <1>15, <2>2, <3>1
    <3>3. PlaceOf(p, s) # PlaceOf(p, 0)
      BY <1>2, <1>3, <3>1, <3>2 DEF OwnInv
    <3> QED BY <1>14, <2>2, <3>1, <3>2, <3>3
  <2> QED BY <2>1, <2>2
<1>16. Holds(p, z, a, h)' /\ h \in Used(a)'
  <2>1. h \in Used(a)'
    BY <1>6, <1>13
  <2>2. Padded(h) => word'[a][h + 1] = 0
    BY <1>9, <1>10, <1>12
  <2> HIDE DEF Padded, Used
  <2> QED BY <1>2, <1>14, <2>1, <2>2 DEF Holds, k
<1>17. ASSUME NEW q \in Processes, NEW s \in Tags, Claimed(q, s)'
       PROVE  \E b \in ArenaIds : \E g \in Used(b)' : Holds(q, s, b, g)'
  <2>1. CASE q = p /\ s = z
    BY <1>16, <2>1
  <2>2. CASE q # p \/ s # z
    <3>1. Claimed(q, s) /\ PlaceOf(q, s)' = PlaceOf(q, s) /\ PlaceOf(q, s) # <<a, Payload(h)>>
          /\ (s = 0 => fresh'[q] = fresh[q] /\ size8B'[q] = size8B[q])
      BY <1>15, <1>17, <2>2 DEF k
    <3>2. \A g \in Used(a) : g # h => \A j \in g..(g + word[a][g]) : word'[a][j] = word[a][j]
      BY <1>11, <1>12 DEF Used, Taken
    <3>3. Used(a)' \in {Used(a), Used(a) \ {h}}
      BY <1>13
    <3> QED BY <1>6, <1>12, <3>1, <3>2, <3>3, HeldElsewhere
  <2> QED BY <2>1, <2>2
<1>18. ASSUME NEW q \in Processes, NEW r \in Processes, NEW s \in Tags, NEW t \in Tags,
              Claimed(q, s)', Claimed(r, t)', PlaceOf(q, s)' = PlaceOf(r, t)'
       PROVE  q = r /\ s = t
  <2>1. CASE (q # p \/ s # z) /\ (r # p \/ t # z)
    <3>1. Claimed(q, s) /\ Claimed(r, t) /\ PlaceOf(q, s) = PlaceOf(r, t)
      BY <1>15, <1>18, <2>1
    <3> QED BY <3>1 DEF OwnInv
  <2>2. CASE q = p /\ s = z /\ (r # p \/ t # z)
    BY <1>14, <1>15, <1>18, <2>2
  <2>3. CASE r = p /\ t = z /\ (q # p \/ s # z)
    BY <1>14, <1>15, <1>18, <2>3
  <2> QED BY <2>1, <2>2, <2>3
<1>19. ASSUME NEW b \in ArenaIds, NEW g \in Used(b)'
       PROVE  \E q \in Processes, s \in Tags : (Claimed(q, s) /\ PlaceOf(q, s) = <<b, Payload(g)>>)'
  <2>1. PICK q \in Processes, s \in Tags : Claimed(q, s) /\ PlaceOf(q, s) = <<b, Payload(g)>>
    BY <1>13, <1>19 DEF OwnInv
  <2>2. CASE q = p /\ s = 0
    <3>1. Claimed(p, z)' /\ PlaceOf(p, z)' = <<b, Payload(g)>>
      BY <1>14, <2>1, <2>2
    <3> QED BY <1>2, <3>1
  <2>3. CASE ~ (q = p /\ s = 0)
    <3>1. Claimed(q, s)' /\ PlaceOf(q, s)' = PlaceOf(q, s)
      BY <1>14, <2>1, <2>3, ClaimsOfOthers
    <3>2. Claimed(q, s)' /\ PlaceOf(q, s)' = <<b, Payload(g)>>
      BY <2>1, <3>1
    <3> QED BY <3>2
  <2> QED BY <2>2, <2>3
<1> HIDE DEF Holds, Used
<1> QED BY <1>12, <1>13, <1>17, <1>18, <1>19 DEF OwnInv

\* free finds the header: behind it is a 0 if, and only if, the block has a pad.
LEMMA FreeBlockKeepsOwners ==
  ASSUME PlaceInv, TurnInv, OwnInv, NEW p \in Processes, Step(p), FreeBlock(p)
  PROVE  OwnInv'
<1>1. /\ pc[p] = "flip" /\ pc'[p] \in {"test", "turn"} /\ UNCHANGED <<size8B, fresh>>
      /\ x[p] \in Slots /\ x[p] \in Kept(p) /\ Kept(p)' = Kept(p) \ {x[p]}
      /\ \A s \in Slots : s # x[p] => last'[p][s] = last[p][s]
  BY FreeBlockKeeps DEF FreeBlock, PlaceInv
<1>2. PICK z \in Slots : z = x[p] /\ z # 0 /\ z \in Tags
  <2>1. x[p] # 0 /\ x[p] \in Tags
    BY <1>1, HeapAssumption DEF Slots, Tags
  <2> QED BY <1>1, <2>1
<1>3. Claimed(p, z)
  BY <1>1, <1>2 DEF Claimed
<1>4. PICK a \in ArenaIds, h \in Words :
           /\ h \in Taken(word[a])
           /\ word[a] \in Memory /\ WellFormed(word[a])
           /\ h \in Headers(word[a]) \cap Words /\ h \in Int /\ h >= 0
           /\ word[a][h] \in Int /\ word[a][h] >= 1 /\ (Padded(h) => word[a][h] >= 2)
           /\ Holds(p, z, a, h)
  BY <1>2, <1>3, ClaimHeld
<1>5. PICK k : k = Payload(h)
  OBVIOUS
<1>6. last[p][x[p]] = <<a, k>> /\ (Padded(h) => word[a][h + 1] = 0) /\ h \in Used(a)
  BY <1>2, <1>4, <1>5 DEF Holds, PlaceOf
<1>7. (IF word[a][k - 1] = 0 THEN k - 2 ELSE k - 1) = h
  <2> HIDE DEF Padded
  <2>1. CASE Padded(h)
    <3>1. k - 1 = h + 1 /\ k - 2 = h
      BY <1>4, <1>5, <2>1 DEF Payload
    <3> QED BY <1>6, <2>1, <3>1
  <2>2. CASE ~Padded(h)
    <3>1. k - 1 = h
      BY <1>4, <1>5, <2>2 DEF Payload
    <3> QED BY <1>4, <3>1
  <2> QED BY <2>1, <2>2
<1>8. word' = [word EXCEPT ![a][h] = Not(@)]
  <2>1. At(p) = a /\ last[p][x[p]][2] = k
    BY <1>1, <1>6 DEF At
  <2>2. word' = [word EXCEPT ![At(p)][IF word[At(p)][last[p][x[p]][2] - 1] = 0
                                        THEN last[p][x[p]][2] - 2 ELSE last[p][x[p]][2] - 1] = Not(@)]
    BY Zenon DEF FreeBlock
  <2> QED BY <1>7, <2>1, <2>2
<1>9. PICK v : v = [word[a] EXCEPT ![h] = Not(@)]
  OBVIOUS
<1>10. /\ v \in Memory /\ WellFormed(v) /\ Taken(v) = Taken(word[a]) \ {h}
       /\ \A j \in Words : j # h => v[j] = word[a][j]
  BY <1>4, <1>9, FlipHeap
<1>11. /\ word'[a] = v /\ \A b \in ArenaIds : b # a => word'[b] = word[b]
       /\ word' \in [ArenaIds -> Memory]
  <2>1. word' = [word EXCEPT ![a] = v]
    BY <1>8, <1>9 DEF OwnInv
  <2> QED BY <1>10, <2>1 DEF OwnInv
<1>12. /\ \A b \in ArenaIds : WellFormed(word'[b])
       /\ Used(a)' = Used(a) \ {h} /\ \A b \in ArenaIds : b # a => Used(b)' = Used(b)
  <2>1. \A b \in ArenaIds : WellFormed(word'[b])
    BY <1>10, <1>11 DEF OwnInv
  <2>2. Used(a)' = Taken(v) /\ Used(a) = Taken(word[a])
    BY <1>11 DEF Used, Taken
  <2>3. \A b \in ArenaIds : b # a => Used(b)' = Used(b)
    BY <1>11 DEF Used
  <2> QED BY <1>10, <2>1, <2>2, <2>3
<1>13. ASSUME NEW g \in Used(a), g # h, NEW j \in g..(g + word[a][g]) PROVE v[j] = word[a][j]
  <2>1. /\ g \in Headers(word[a]) \cap Words /\ g \in Taken(word[a]) /\ g \in Int
        /\ word[a][g] \in Int /\ word[a][g] >= 0 /\ g >= 0
    BY <1>4, <1>13, WordsAreInts DEF Used, Taken, Memory, Words
  <2>2. Behind(word[a])[g] = g + word[a][g] + 1 /\ Behind(word[a])[g] <= LastAddress + 1
    BY <1>4, <2>1, HeadersWithin DEF Behind
  <2>3. j \in Words
    BY <1>13, <2>1, <2>2, HeapAssumption DEF Words
  <2>4. h \notin g..(g + word[a][g])
    BY <1>4, <1>13, <2>1, BlocksApart
  <2> QED BY <1>10, <1>13, <2>3, <2>4
<1>14. /\ ~Claimed(p, z)' /\ PlaceOf(p, z) = <<a, k>>
       /\ \A s \in Tags : s # z => Claimed(p, s)' = Claimed(p, s) /\ PlaceOf(p, s)' = PlaceOf(p, s)
  <2>1. ASSUME NEW s \in Tags, s # 0 PROVE s \in Slots
    BY <2>1, HeapAssumption DEF Slots, Tags
  <2>2. ~Claimed(p, 0) /\ ~Claimed(p, 0)' /\ PlaceOf(p, 0)' = PlaceOf(p, 0)
    BY <1>1 DEF Claimed, PlaceOf
  <2> QED BY <1>1, <1>2, <1>6, <2>1, <2>2 DEF Claimed, PlaceOf
<1> HIDE DEF Claimed, PlaceOf
<1>15. ASSUME NEW q \in Processes, NEW s \in Tags, q # p \/ s # z
       PROVE  /\ Claimed(q, s)' = Claimed(q, s) /\ PlaceOf(q, s)' = PlaceOf(q, s)
              /\ fresh'[q] = fresh[q] /\ size8B'[q] = size8B[q]
              /\ Claimed(q, s) => PlaceOf(q, s) # <<a, k>>
  <2>1. /\ Claimed(q, s)' = Claimed(q, s) /\ PlaceOf(q, s)' = PlaceOf(q, s)
        /\ fresh'[q] = fresh[q] /\ size8B'[q] = size8B[q]
    BY <1>1, <1>14, <1>15, ClaimsOfOthers
  <2>2. Claimed(q, s) => PlaceOf(q, s) # PlaceOf(p, z)
    BY <1>2, <1>3, <1>15 DEF OwnInv
  <2> QED BY <1>14, <2>1, <2>2
<1>16. ASSUME NEW q \in Processes, NEW s \in Tags, Claimed(q, s)'
       PROVE  \E b \in ArenaIds : \E g \in Used(b)' : Holds(q, s, b, g)'
  <2>1. q # p \/ s # z
    BY <1>14, <1>16
  <2>2. /\ Claimed(q, s) /\ PlaceOf(q, s)' = PlaceOf(q, s) /\ PlaceOf(q, s) # <<a, Payload(h)>>
        /\ fresh'[q] = fresh[q] /\ size8B'[q] = size8B[q]
    BY <1>5, <1>15, <1>16, <2>1
  <2>3. \A g \in Used(a) : g # h => \A j \in g..(g + word[a][g]) : word'[a][j] = word[a][j]
    BY <1>11, <1>13
  <2>4. Used(a)' \in {Used(a), Used(a) \ {h}}
    BY <1>12
  <2> QED BY <1>6, <1>11, <2>2, <2>3, <2>4, HeldElsewhere
<1>17. ASSUME NEW q \in Processes, NEW r \in Processes, NEW s \in Tags, NEW t \in Tags,
              Claimed(q, s)', Claimed(r, t)', PlaceOf(q, s)' = PlaceOf(r, t)'
       PROVE  q = r /\ s = t
  <2>1. (q # p \/ s # z) /\ (r # p \/ t # z)
    BY <1>14, <1>17
  <2>2. Claimed(q, s) /\ Claimed(r, t) /\ PlaceOf(q, s) = PlaceOf(r, t)
    BY <1>15, <1>17, <2>1
  <2> QED BY <2>2 DEF OwnInv
<1>18. ASSUME NEW b \in ArenaIds, NEW g \in Used(b)'
       PROVE  \E q \in Processes, s \in Tags : (Claimed(q, s) /\ PlaceOf(q, s) = <<b, Payload(g)>>)'
  <2>1. g \in Used(b) /\ (b = a => g # h)
    BY <1>12, <1>18
  <2>2. PICK q \in Processes, s \in Tags : Claimed(q, s) /\ PlaceOf(q, s) = <<b, Payload(g)>>
    BY <2>1 DEF OwnInv
  <2>3. q # p \/ s # z
    <3> SUFFICES ASSUME q = p, s = z PROVE FALSE
      OBVIOUS
    <3>1. b = a /\ Payload(g) = Payload(h)
      BY <1>5, <1>14, <2>2
    <3>2. g \in Taken(word[a]) /\ g # h
      BY <2>1, <3>1 DEF Used, Taken
    <3> QED BY <1>4, <3>1, <3>2, PayloadOnce
  <2>4. Claimed(q, s)' /\ PlaceOf(q, s)' = <<b, Payload(g)>>
    BY <1>15, <2>2, <2>3
  <2> QED BY <2>4
<1> HIDE DEF Holds, Used
<1> QED BY <1>11, <1>12, <1>16, <1>17, <1>18 DEF OwnInv

-----------------------------------------------------------------------------
(* The heap.                                                               *)

HeapInv == PlaceInv /\ LockInv /\ TurnInv /\ OwnInv /\ CountersRight

LEMMA InitiallyOwned == Init => OwnInv
<1> SUFFICES ASSUME Init PROVE OwnInv
  OBVIOUS
<1> DEFINE w == [k \in Words |-> IF k = 0 THEN Not(LastAddress) ELSE 0]
<1>1. \A a \in ArenaIds : word[a] = w
  BY DEF Init
<1>2. w \in Memory /\ w[0] < 0 /\ w[0] = Not(LastAddress) /\ LastAddress \in Int /\ 0 \in Words
  BY WordsAreInts, HeapAssumption DEF Memory, Not, Words
<1>3. word \in [ArenaIds -> Memory]
  BY <1>2 DEF Init
<1> HIDE DEF w
<1>4. Behind(w)[0] = LastAddress + 1
  BY <1>2 DEF Behind, Not
<1>5. LastAddress + 1 \notin Words
  BY HeapAssumption DEF Words
<1>6. Headers(w) \subseteq {0, LastAddress + 1}
  BY <1>2, <1>4, <1>5, HeadersLeast
<1>7. LastAddress + 1 \in Headers(w)
  BY <1>2, <1>4, HeadersClosed
<1>8. WellFormed(w) /\ Taken(w) = {}
  <2>1. w[0] \in Int /\ ~ (w[0] >= 0)
    BY <1>2 DEF Memory
  <2>2. Headers(w) \ Words = {LastAddress + 1}
    BY <1>2, <1>5, <1>6, <1>7
  <2>3. \A h \in Headers(w) \cap Words : h = 0
    BY <1>5, <1>6
  <2> QED BY <2>1, <2>2, <2>3 DEF WellFormed, Taken
<1>9. \A a \in ArenaIds : WellFormed(word[a]) /\ Used(a) = {}
  BY <1>1, <1>8 DEF Used, Taken
<1>10. \A p \in Processes, s \in Tags : ~Claimed(p, s)
  BY DEF Init, Claimed, Kept
<1> QED BY <1>3, <1>9, <1>10 DEF OwnInv

LEMMA StepKeepsOwners ==
  ASSUME PlaceInv, TurnInv, OwnInv, NEW p \in Processes, Step(p)
  PROVE  OwnInv'
BY QuietStepKeepsOwners, AllocateKeepsOwners, ReturnBlockKeepsOwners, FreeBlockKeepsOwners
   DEF Step, Quiet

LEMMA StutterKeepsHeap ==
  ASSUME TurnInv, OwnInv, CountersRight, UNCHANGED vars
  PROVE  TurnInv' /\ OwnInv' /\ CountersRight'
<1>1. /\ UNCHANGED <<pc, i, x, size8B, last, fresh, mCount, fCount, word>>
  BY DEF vars
<1>2. \A p \in Processes : Kept(p)' = Kept(p)
  BY <1>1 DEF Kept
<1>3. \A p \in Processes, s \in Tags : Claimed(p, s)' = Claimed(p, s) /\ PlaceOf(p, s)' = PlaceOf(p, s)
  BY <1>1, <1>2 DEF Claimed, PlaceOf
<1>4. \A a \in ArenaIds : Used(a)' = Used(a)
  BY <1>1 DEF Used
<1>5. \A p \in Processes, s \in Tags, a \in ArenaIds : \A h : Holds(p, s, a, h)' = Holds(p, s, a, h)
  BY <1>1, <1>3, <1>4 DEF Holds
<1> HIDE DEF Kept, Claimed, PlaceOf, Used, Holds
<1>6. TurnInv'
  BY <1>1, <1>2 DEF TurnInv
<1>7. CountersRight'
  BY <1>1, <1>2 DEF CountersRight
<1>8. OwnInv'
  <2>1. word' \in [ArenaIds -> Memory] /\ \A a \in ArenaIds : WellFormed(word'[a])
    BY <1>1 DEF OwnInv
  <2>2. ASSUME NEW p \in Processes, NEW s \in Tags, Claimed(p, s)'
        PROVE  \E a \in ArenaIds : \E h \in Used(a)' : Holds(p, s, a, h)'
    <3>1. PICK a \in ArenaIds : \E h \in Used(a) : Holds(p, s, a, h)
      BY <1>3, <2>2 DEF OwnInv
    <3> QED BY <1>4, <1>5, <3>1
  <2>3. ASSUME NEW p \in Processes, NEW q \in Processes, NEW s \in Tags, NEW t \in Tags,
               Claimed(p, s)', Claimed(q, t)', PlaceOf(p, s)' = PlaceOf(q, t)'
        PROVE  p = q /\ s = t
    <3>1. Claimed(p, s) /\ Claimed(q, t) /\ PlaceOf(p, s) = PlaceOf(q, t)
      BY <1>3, <2>3
    <3> QED BY <3>1 DEF OwnInv
  <2>4. ASSUME NEW a \in ArenaIds, NEW h \in Used(a)'
        PROVE  \E p \in Processes, s \in Tags : (Claimed(p, s) /\ PlaceOf(p, s) = <<a, Payload(h)>>)'
    <3>1. PICK p \in Processes, s \in Tags : Claimed(p, s) /\ PlaceOf(p, s) = <<a, Payload(h)>>
      BY <1>4, <2>4 DEF OwnInv
    <3>2. Claimed(p, s)' /\ PlaceOf(p, s)' = <<a, Payload(h)>>
      BY <1>3, <3>1
    <3> QED BY <3>2
  <2> QED BY <2>1, <2>2, <2>3, <2>4 DEF OwnInv
<1> QED BY <1>6, <1>7, <1>8

\* The arenas, the claims on their blocks, and the counters: for any number of
\* processes, arenas, words, sizes, pointers and turns.
THEOREM HeapInvariant == Spec => []HeapInv
<1>1. Init => HeapInv
  BY InitiallyPlaced, InitiallyTurned, InitiallyOwned, InitiallyCounted DEF HeapInv
<1>2. HeapInv /\ [Next]_vars => HeapInv'
  <2> SUFFICES ASSUME HeapInv, [Next]_vars PROVE HeapInv'
    OBVIOUS
  <2> USE DEF HeapInv
  <2>1. CASE UNCHANGED vars
    BY <2>1, StutterKeeps, StutterKeepsHeap
  <2>2. ASSUME ~Raced, NEW p \in Processes, Step(p) PROVE HeapInv'
    <3>1. PlaceInv'
      BY <2>2, StepKeepsPlaces
    <3>2. LockInv'
      BY <2>2, StepKeepsLocks
    <3>3. TurnInv'
      BY <2>2, StepKeepsTurns
    <3>4. OwnInv'
      BY <2>2, StepKeepsOwners
    <3>5. CountersRight'
      BY <2>2, StepKeepsCounters
    <3> QED BY <3>1, <3>2, <3>3, <3>4, <3>5
  <2> QED BY <2>1, <2>2 DEF Next
<1> QED BY <1>1, <1>2, PTL DEF Spec

\* A process has counted as many allocations more than frees as it keeps
\* pointers (t1.c 24 to 47, heap.c 138 and 158).
THEOREM AlwaysCountersRight == Spec => []CountersRight
<1>1. HeapInv => CountersRight
  BY DEF HeapInv
<1> QED BY <1>1, HeapInvariant, PTL

-----------------------------------------------------------------------------
(* What is claimed, arena by arena.                                        *)

\* A pointer, or a carved block, and the allocated block that it is for.
LEMMA PointerHeader ==
  ASSUME OwnInv, NEW a \in ArenaIds, NEW ps \in Pointers(a)
  PROVE  /\ ps[1] \in Processes /\ ps[2] \in Tags /\ ps[2] # 0 /\ Claimed(ps[1], ps[2])
         /\ PlaceOf(ps[1], ps[2]) = last[ps[1]][ps[2]]
         /\ \E h \in Used(a) : last[ps[1]][ps[2]] = <<a, Payload(h)>>
<1>1. ps[1] \in Processes /\ ps[2] \in Slots /\ ps[2] \in Kept(ps[1]) /\ last[ps[1]][ps[2]][1] = a
  BY DEF Pointers
<1>2. ps[2] \in Tags /\ ps[2] # 0
  BY <1>1, HeapAssumption DEF Slots, Tags
<1>3. Claimed(ps[1], ps[2]) /\ PlaceOf(ps[1], ps[2]) = last[ps[1]][ps[2]]
  BY <1>1, <1>2 DEF Claimed, PlaceOf
<1>4. PICK b \in ArenaIds : \E h \in Used(b) : Holds(ps[1], ps[2], b, h)
  BY <1>1, <1>2, <1>3 DEF OwnInv
<1>5. PICK h \in Used(b) : last[ps[1]][ps[2]] = <<b, Payload(h)>>
  BY <1>3, <1>4 DEF Holds
<1>6. b = a
  BY <1>1, <1>5
<1> QED BY <1>1, <1>2, <1>3, <1>5, <1>6

LEMMA CarvedHeader ==
  ASSUME OwnInv, NEW a \in ArenaIds, NEW p \in Carved(a)
  PROVE  /\ p \in Processes /\ 0 \in Tags /\ Claimed(p, 0) /\ fresh[p][1] = a /\ fresh[p][2] \in Used(a)
         /\ PlaceOf(p, 0) = <<a, Payload(fresh[p][2])>>
<1>1. p \in Processes /\ pc[p] = "return" /\ fresh[p][1] = a
  BY DEF Carved
<1>2. 0 \in Tags /\ Claimed(p, 0)
  BY <1>1, HeapAssumption DEF Claimed, Tags
<1>3. PICK b \in ArenaIds : \E h \in Used(b) : Holds(p, 0, b, h)
  BY <1>1, <1>2 DEF OwnInv
<1>4. PICK h \in Used(b) : fresh[p] = <<b, h>> /\ PlaceOf(p, 0) = <<b, Payload(h)>>
  BY <1>3 DEF Holds
<1>5. b = a /\ fresh[p][2] = h
  BY <1>1, <1>4
<1> QED BY <1>1, <1>2, <1>4, <1>5

\* Each allocated block is one of the two.
LEMMA UsedClaimed ==
  ASSUME OwnInv, NEW a \in ArenaIds, NEW h \in Used(a)
  PROVE  \/ \E ps \in Pointers(a) : last[ps[1]][ps[2]] = <<a, Payload(h)>>
         \/ \E p \in Carved(a) : fresh[p][2] = h
<1>1. PICK p \in Processes, s \in Tags : Claimed(p, s) /\ PlaceOf(p, s) = <<a, Payload(h)>>
  BY DEF OwnInv
<1>2. CASE s = 0
  <2>1. fresh[p][1] = a /\ Payload(fresh[p][2]) = Payload(h)
    <3> HIDE DEF Payload
    <3> QED BY <1>1, <1>2 DEF PlaceOf
  <2>2. p \in Carved(a)
    BY <1>1, <1>2, <2>1 DEF Carved, Claimed
  <2>3. fresh[p][2] \in Used(a)
    BY <2>2, CarvedHeader
  <2>4. fresh[p][2] \in Taken(word[a]) /\ h \in Taken(word[a]) /\ word[a] \in Memory /\ WellFormed(word[a])
    BY <2>3 DEF OwnInv, Used, Taken
  <2>5. fresh[p][2] = h
    BY <2>1, <2>4, PayloadOnce
  <2> QED BY <2>2, <2>5
<1>3. CASE s # 0
  <2>1. s \in Kept(p) /\ last[p][s] = <<a, Payload(h)>> /\ s \in Slots
    BY <1>1, <1>3 DEF Claimed, PlaceOf, Kept
  <2>2. last[p][s][1] = a
    BY <2>1
  <2> DEFINE ps == <<p, s>>
  <2>3. ps \in Processes \X Slots /\ ps[1] = p /\ ps[2] = s
    BY <2>1
  <2>4. ps \in Pointers(a)
    BY <2>1, <2>2, <2>3 DEF Pointers
  <2> QED BY <2>1, <2>3, <2>4
<1> QED BY <1>2, <1>3

\* As many pointers and carved blocks lead to an arena as it has allocated ones.
LEMMA BlocksCounted ==
  ASSUME OwnInv, NEW a \in ArenaIds
  PROVE  Cardinality(Used(a)) = Cardinality(Pointers(a)) + Cardinality(Carved(a))
<1> DEFINE A == {h \in Used(a) : \E ps \in Pointers(a) : last[ps[1]][ps[2]] = <<a, Payload(h)>>}
           B == {h \in Used(a) : \E p \in Carved(a) : fresh[p][2] = h}
<1>1. IsFiniteSet(Used(a))
  <2>1. IsFiniteSet(Words) /\ Used(a) \in SUBSET Words
    BY FS_Interval, HeapAssumption DEF Words, Used
  <2> QED BY <2>1, FS_Subset
<1>2. IsFiniteSet(A) /\ IsFiniteSet(B)
  <2>1. A \in SUBSET Used(a) /\ B \in SUBSET Used(a)
    OBVIOUS
  <2> HIDE DEF A, B
  <2> QED BY <1>1, <2>1, FS_Subset
<1>3. A \cup B = Used(a)
  BY UsedClaimed
<1>4. A \cap B = {}
  <2> SUFFICES ASSUME NEW h \in A, h \in B PROVE FALSE
    OBVIOUS
  <2>1. PICK ps \in Pointers(a) : last[ps[1]][ps[2]] = <<a, Payload(h)>>
    OBVIOUS
  <2>2. PICK p \in Carved(a) : fresh[p][2] = h
    OBVIOUS
  <2>3. ps[1] \in Processes /\ ps[2] \in Tags /\ ps[2] # 0 /\ Claimed(ps[1], ps[2])
        /\ PlaceOf(ps[1], ps[2]) = <<a, Payload(h)>>
    BY <2>1, PointerHeader
  <2>4. p \in Processes /\ 0 \in Tags /\ Claimed(p, 0) /\ PlaceOf(p, 0) = <<a, Payload(h)>>
    BY <2>2, CarvedHeader
  <2>5. ps[2] = 0
    BY <2>3, <2>4 DEF OwnInv
  <2> QED BY <2>3, <2>5
<1>5. Cardinality(A) = Cardinality(Pointers(a))
  <2> DEFINE F == [h \in A |-> CHOOSE ps \in Pointers(a) : last[ps[1]][ps[2]] = <<a, Payload(h)>>]
  <2>1. ASSUME NEW h \in A PROVE F[h] \in Pointers(a) /\ last[F[h][1]][F[h][2]] = <<a, Payload(h)>>
    OBVIOUS
  <2>2. F \in [A -> Pointers(a)]
    BY <2>1
  <2>3. ASSUME NEW g \in A, NEW h \in A, F[g] = F[h] PROVE g = h
    <3>1. Payload(g) = Payload(h)
      <4> HIDE DEF Payload, F
      <4> QED BY <2>1, <2>3
    <3>2. g \in Taken(word[a]) /\ h \in Taken(word[a]) /\ word[a] \in Memory /\ WellFormed(word[a])
      BY DEF OwnInv, Used, Taken
    <3> QED BY <3>1, <3>2, PayloadOnce
  <2>4. ASSUME NEW ps \in Pointers(a) PROVE \E h \in A : F[h] = ps
    <3>1. PICK h \in Used(a) : last[ps[1]][ps[2]] = <<a, Payload(h)>>
      BY PointerHeader
    <3>2. h \in A
      BY <3>1
    <3> DEFINE qs == F[h]
    <3>3. qs \in Pointers(a) /\ last[qs[1]][qs[2]] = <<a, Payload(h)>>
      BY <2>1, <3>2
    <3> HIDE DEF qs
    <3>4. /\ ps[1] \in Processes /\ ps[2] \in Tags /\ Claimed(ps[1], ps[2])
          /\ qs[1] \in Processes /\ qs[2] \in Tags /\ Claimed(qs[1], qs[2])
          /\ PlaceOf(ps[1], ps[2]) = <<a, Payload(h)>> /\ PlaceOf(qs[1], qs[2]) = <<a, Payload(h)>>
      BY <3>1, <3>3, PointerHeader
    <3>5. ps[1] = qs[1] /\ ps[2] = qs[2]
      BY <3>4 DEF OwnInv
    <3>6. ps = qs
      BY <3>3, <3>5 DEF Pointers
    <3> QED BY <3>2, <3>6 DEF qs
  <2> HIDE DEF F, A
  <2>5. F \in Bijection(A, Pointers(a))
    BY <2>2, <2>3, <2>4, Fun_IsBij
  <2> QED BY <1>2, <2>5, FS_Bijection, Fun_ExistsBij
<1>6. Cardinality(B) = Cardinality(Carved(a))
  <2> DEFINE F == [h \in B |-> CHOOSE p \in Carved(a) : fresh[p][2] = h]
  <2>1. ASSUME NEW h \in B PROVE F[h] \in Carved(a) /\ fresh[F[h]][2] = h
    OBVIOUS
  <2>2. F \in [B -> Carved(a)]
    BY <2>1
  <2>3. ASSUME NEW g \in B, NEW h \in B, F[g] = F[h] PROVE g = h
    <3> HIDE DEF F
    <3> QED BY <2>1, <2>3
  <2>4. ASSUME NEW p \in Carved(a) PROVE \E h \in B : F[h] = p
    <3> DEFINE h == fresh[p][2]
    <3>1. h \in Used(a) /\ p \in Processes /\ 0 \in Tags /\ Claimed(p, 0) /\ PlaceOf(p, 0) = <<a, Payload(h)>>
      BY CarvedHeader
    <3>2. h \in B
      BY <3>1
    <3> DEFINE q == F[h]
    <3>3. q \in Carved(a) /\ fresh[q][2] = h
      BY <2>1, <3>2
    <3> HIDE DEF q
    <3>4. q \in Processes /\ Claimed(q, 0) /\ PlaceOf(q, 0) = <<a, Payload(h)>>
      BY <3>3, CarvedHeader
    <3>5. p = q
      BY <3>1, <3>4 DEF OwnInv
    <3> QED BY <3>2, <3>5 DEF q
  <2> HIDE DEF F, B
  <2>5. F \in Bijection(B, Carved(a))
    BY <2>2, <2>3, <2>4, Fun_IsBij
  <2> QED BY <1>2, <2>5, FS_Bijection, Fun_ExistsBij
<1> HIDE DEF A, B
<1>7. Cardinality(Used(a)) = Cardinality(A) + Cardinality(B) - Cardinality(A \cap B)
  BY <1>2, <1>3, FS_Union
<1>8. Cardinality(A \cap B) = 0
  BY <1>4, FS_EmptySet
<1> QED BY <1>2, <1>5, <1>6, <1>7, <1>8, FS_CardinalityType

\* The blocks cover the arenas; the allocated ones are those that processes
\* keep, each by one pointer (heap.c 64 to 159 and t1.c 24 to 44).
THEOREM AlwaysBlocksOwned == Spec => []BlocksOwned
<1>1. HeapInv => BlocksOwned
  <2> SUFFICES ASSUME OwnInv, NEW a \in ArenaIds
               PROVE  /\ Headers(word[a]) \ Words = {LastAddress + 1}
                      /\ {Payload(h) : h \in Used(a)} = {last[ps[1]][ps[2]][2] : ps \in Pointers(a)}
                                         \cup {Payload(fresh[p][2]) : p \in Carved(a)}
                      /\ Cardinality(Used(a)) = Cardinality(Pointers(a)) + Cardinality(Carved(a))
    BY DEF HeapInv, BlocksOwned
  <2>1. Headers(word[a]) \ Words = {LastAddress + 1}
    BY DEF OwnInv, WellFormed
  <2> HIDE DEF Payload
  <2>2. ASSUME NEW h \in Used(a)
        PROVE  Payload(h) \in {last[ps[1]][ps[2]][2] : ps \in Pointers(a)}
                                 \cup {Payload(fresh[p][2]) : p \in Carved(a)}
    <3>1. CASE \E ps \in Pointers(a) : last[ps[1]][ps[2]] = <<a, Payload(h)>>
      <4>1. PICK ps \in Pointers(a) : last[ps[1]][ps[2]] = <<a, Payload(h)>>
        BY <3>1
      <4>2. last[ps[1]][ps[2]][2] = Payload(h)
        BY <4>1
      <4> QED BY <4>2
    <3>2. CASE \E p \in Carved(a) : fresh[p][2] = h
      BY <3>2
    <3> QED BY <3>1, <3>2, UsedClaimed
  <2>3. ASSUME NEW ps \in Pointers(a) PROVE last[ps[1]][ps[2]][2] \in {Payload(h) : h \in Used(a)}
    <3>1. PICK h \in Used(a) : last[ps[1]][ps[2]] = <<a, Payload(h)>>
      BY PointerHeader
    <3>2. last[ps[1]][ps[2]][2] = Payload(h)
      BY <3>1
    <3> QED BY <3>2
  <2>4. ASSUME NEW p \in Carved(a) PROVE Payload(fresh[p][2]) \in {Payload(h) : h \in Used(a)}
    BY CarvedHeader
  <2> QED BY <2>1, <2>2, <2>3, <2>4, BlocksCounted
<1> QED BY <1>1, HeapInvariant, PTL

-----------------------------------------------------------------------------
(* A first fit that joins on the way misses no room.                       *)

\* A search that finds nothing has passed each header, or swallowed it with
\* the free blocks before it.
LEMMA SearchCovers ==
  ASSUME NEW w \in Memory, WellFormed(w), NEW n \in Nat, NEW P, Passes(w, n, P),
         \A k \in P \cap Words : GoesOn(w, n, k),
         NEW g \in Headers(w)
  PROVE  g \in P \/ \E k \in P \cap Words : w[k] < 0 /\ k < g /\ g <= FreeEnd(w)[k]
<1> DEFINE Swallowed(h) == \E k \in P \cap Words : w[k] < 0 /\ k < h /\ h <= FreeEnd(w)[k]
           K == {h \in Headers(w) : h \in P \/ Swallowed(h)}
<1>1. 0 \in K
  BY HeadersClosed DEF Passes
<1>2. ASSUME NEW h \in Headers(w) \cap Words, NEW k \in P \cap Words, w[k] < 0, k <= h, h <= FreeEnd(w)[k]
      PROVE  Behind(w)[h] \in K
  <2> DEFINE e == FreeEnd(w)[k]
  <2>1. FreeRun(w, k)
    BY FreeRuns DEF Passes
  <2>2. /\ Behind(w)[h] \in Headers(w) /\ Behind(w)[h] \in Int /\ Behind(w)[h] > h
        /\ h \in Int /\ k \in Int /\ e \in Int /\ e + 1 \in Headers(w)
    BY <2>1, HeadersClosed, BehindAscends, WordsAreInts DEF Ascends, FreeRun
  <2>3. h <= e
    BY <1>2
  <2>4. e + 1 \in P
    BY <1>2 DEF Passes, Beyond
  <2> HIDE DEF e
  <2>5. Behind(w)[h] <= e + 1
    <3>1. e + 1 <= h \/ e + 1 >= Behind(w)[h]
      BY <2>2, HeadersGap
    <3> QED BY <2>2, <2>3, <3>1
  <2>6. CASE Behind(w)[h] = e + 1
    BY <2>2, <2>4, <2>6
  <2>7. CASE Behind(w)[h] <= e
    <3>1. k < Behind(w)[h]
      BY <1>2, <2>2
    <3> QED BY <1>2, <2>2, <2>7, <3>1 DEF e
  <2> HIDE DEF K
  <2> QED BY <2>2, <2>5, <2>6, <2>7
<1>3. ASSUME NEW h \in K \cap Words PROVE Behind(w)[h] \in K
  <2>1. CASE Swallowed(h)
    <3>1. PICK k \in P \cap Words : w[k] < 0 /\ k < h /\ h <= FreeEnd(w)[k]
      BY <2>1
    <3>2. k \in Int /\ h \in Int
      BY WordsAreInts
    <3>3. k <= h
      BY <3>1, <3>2
    <3> HIDE DEF K
    <3> QED BY <1>2, <1>3, <3>1, <3>3 DEF K
  <2>2. CASE h \in P /\ w[h] < 0
    <3>1. FreeRun(w, h) /\ h \in Int
      BY <1>3, <2>2, FreeRuns, WordsAreInts
    <3>2. h <= h /\ h <= FreeEnd(w)[h]
      BY <1>3, <2>2, <3>1 DEF FreeRun
    <3> QED BY <1>2, <1>3, <2>2, <3>2
  <2>3. CASE h \in P /\ ~ (w[h] < 0)
    <3>1. Beyond(w, h) \in P /\ Beyond(w, h) = Behind(w)[h]
      BY <1>3, <2>3 DEF Passes, Beyond
    <3>2. Behind(w)[h] \in Headers(w)
      BY <1>3, HeadersClosed
    <3> QED BY <3>1, <3>2
  <2> QED BY <1>3, <2>1, <2>2, <2>3
<1> HIDE DEF K
<1>4. Headers(w) \subseteq K
  BY <1>1, <1>3, HeadersLeast
<1> QED BY <1>4 DEF K

\* No room is left where nothing is found.
LEMMA NothingFound ==
  ASSUME OwnInv, NEW a \in ArenaIds, NEW n \in Nat, Search(word[a], n).block > LastAddress
  PROVE  ~Room(a, n)
<1>1. PICK w \in Memory : w = word[a] /\ WellFormed(w)
  BY DEF OwnInv
<1>2. Used(a) = Taken(w)
  BY <1>1 DEF Used, Taken
<1>3. PICK P : Passes(w, n, P) /\ Search(w, n).block \in P /\ ~GoesOn(w, n, Search(w, n).block)
  BY <1>1, SearchPasses
<1>4. \A k \in P \cap Words : GoesOn(w, n, k)
  <2>1. Search(w, n).block \notin Words
    BY <1>1, HeapAssumption DEF Words
  <2> QED BY <1>3, <2>1 DEF Passes
<1> SUFFICES ASSUME NEW h \in FreeWords(a), h - 1 \notin FreeWords(a),
                    h..(h + Need(n, h)) \subseteq FreeWords(a)
             PROVE  FALSE
  BY DEF Room
<1>5. \A k \in Words : k \in FreeWords(a) <=> \A g \in Taken(w) : k \notin g..(g + w[g])
  BY <1>1, <1>2 DEF FreeWords
<1>6. h \in Words /\ h \in Int /\ h >= 0
  BY HeapAssumption DEF FreeWords, Words
<1>7. \A g \in Taken(w) : /\ g \in Headers(w) \cap Words /\ g \in Int /\ w[g] \in Int /\ w[g] >= 0
                          /\ Behind(w)[g] = g + w[g] + 1
  <2> SUFFICES ASSUME NEW g \in Taken(w)
               PROVE  /\ g \in Headers(w) \cap Words /\ g \in Int /\ w[g] \in Int /\ w[g] >= 0
                      /\ Behind(w)[g] = g + w[g] + 1
    OBVIOUS
  <2>1. g \in Headers(w) \cap Words /\ g \in Int /\ w[g] \in Int /\ w[g] >= 0
    BY WordsAreInts DEF Taken, Memory
  <2> QED BY <2>1 DEF Behind
\* It starts at a header, which is free and follows an allocated block, if any.
<1>8. h \in Headers(w) /\ (h # 0 => \E j \in Taken(w) : Behind(w)[j] = h)
  <2>1. CASE h = 0
    BY <2>1, HeadersClosed
  <2>2. CASE h # 0
    <3>1. h - 1 \in Words
      BY <1>6, <2>2, HeapAssumption DEF Words
    <3>2. PICK j \in Taken(w) : h - 1 \in j..(j + w[j])
      BY <1>5, <3>1
    <3>3. h \notin j..(j + w[j])
      BY <1>5, <1>6
    <3>4. Behind(w)[j] = h
      BY <1>6, <1>7, <3>2, <3>3
    <3> QED BY <1>7, <3>4, HeadersClosed
  <2> QED BY <2>1, <2>2
<1>9. w[h] < 0
  <2> SUFFICES ASSUME ~ (w[h] < 0) PROVE FALSE
    OBVIOUS
  <2>1. w[h] \in Int /\ h \in Taken(w)
    BY <1>6, <1>8 DEF Taken, Memory
  <2>2. h \in h..(h + w[h])
    BY <1>6, <1>7, <2>1
  <2> QED BY <1>5, <1>6, <2>1, <2>2
<1>10. h \in P
  <2> SUFFICES ASSUME h \notin P PROVE FALSE
    OBVIOUS
  <2>1. PICK k \in P \cap Words : w[k] < 0 /\ k < h /\ h <= FreeEnd(w)[k]
    BY <1>1, <1>3, <1>4, <1>8, SearchCovers
  <2>2. FreeRun(w, k) /\ k \in Int /\ k >= 0 /\ k \in Headers(w) \cap Words
    BY <1>1, <1>3, FreeRuns, WordsAreInts DEF Passes, Words
  <2>3. PICK j \in Taken(w) : Behind(w)[j] = h
    BY <1>6, <1>8, <2>1, <2>2
  <2>4. j >= k
    <3>1. k <= j \/ k >= Behind(w)[j]
      BY <1>7, <2>2, HeadersGap
    <3>2. j <= k \/ j >= Behind(w)[k]
      BY <1>7, <2>2, HeadersGap
    <3> QED BY <1>6, <1>7, <2>1, <2>2, <2>3, <3>1, <3>2
  <2>5. j <= FreeEnd(w)[k]
    <3>1. FreeEnd(w)[k] \in Int
      BY <2>2 DEF FreeRun
    <3> QED BY <1>6, <1>7, <2>1, <2>3, <3>1
  <2>6. w[j] < 0
    BY <1>7, <2>2, <2>4, <2>5 DEF FreeRun
  <2> QED BY <1>7, <2>6
<1> DEFINE e == FreeEnd(w)[h]
<1>11. FreeRun(w, h)
  BY <1>1, <1>8, FreeRuns
<1>12. /\ e \in Int /\ e >= h /\ e + 1 \in Headers(w) /\ (e + 1 \in Words => w[e + 1] >= 0)
  BY <1>6, <1>9, <1>11 DEF FreeRun
<1>13. Need(n, h) \in Int /\ e - h < Need(n, h)
  <2>1. ~ (e - h >= Need(n, h))
    BY <1>4, <1>6, <1>9, <1>10 DEF GoesOn, Fits
  <2>2. Need(n, h) \in Int
    BY DEF Need
  <2> HIDE DEF e
  <2> QED BY <1>6, <1>12, <2>1, <2>2
<1> HIDE DEF e
<1>14. e + 1 \in FreeWords(a)
  <2>1. e + 1 \in h..(h + Need(n, h))
    BY <1>6, <1>12, <1>13
  <2> QED BY <2>1
<1>15. e + 1 \in Taken(w) /\ e + 1 \in Words
  BY <1>12, <1>14 DEF Taken, FreeWords
<1>16. e + 1 \in (e + 1)..(e + 1 + w[e + 1])
  BY <1>7, <1>15
<1> QED BY <1>5, <1>14, <1>15, <1>16

\* malloc leaves an arena that it could enter only if there is no room in it
\* (heap.c 64 to 99 and 124 to 131).
THEOREM AlwaysLeftOnlyIfFull == Spec => LeftOnlyIfFull
<1>1. HeapInv /\ [Next]_vars => 
        [\A p \in Processes : (pc[p] = "search" /\ pc'[p] = "test") => ~Room(Tried(p), size8B[p])]_vars
  <2> SUFFICES ASSUME HeapInv, Next, NEW p \in Processes, pc[p] = "search", pc'[p] = "test"
               PROVE  ~Room(Tried(p), size8B[p])
    OBVIOUS
  <2> USE DEF HeapInv
  <2>1. PICK q \in Processes : Step(q)
    BY DEF Next
  <2>2. q = p
    BY <2>1, OthersSame
  <2>3. LeaveArena(p)
    BY <2>1, <2>2 DEF Step, Turn, CleanUp, PassLocked, TestLock, TakeLock, Allocate, Panic,
                      ReturnBlock, Spin, GrabLock, FreeBlock, Goto, PlaceInv
  <2>4. Search(word[Tried(p)], size8B[p]).block > LastAddress
    BY <2>3, Zenon DEF LeaveArena
  <2>5. Tried(p) \in ArenaIds /\ size8B[p] \in Nat
    BY TriedInRange DEF TurnInv
  <2> QED BY <2>4, <2>5, NothingFound
<1> QED BY <1>1, HeapInvariant, PTL DEF Spec, LeftOnlyIfFull
=============================================================================
