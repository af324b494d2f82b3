------------------------ MODULE MainKeyEventsProofs ------------------------
(***************************************************************************)
(* Proofs about MainKeyEvents for any number of slots, any queue size and  *)
(* any width of size_t the queue size divides.  The first part is about    *)
(* the three indices, m_full_lock and FLAG_KEY_EVENT of                    *)
(* lua_embedded/main_key_events.cpp, which stay in step until the lock is  *)
(* released with the queue full.  The second looks into the ring buffer:   *)
(* it is a queue with a cursor (KeyQueue), what it hands out was once      *)
(* reported, and the events of each slot alternate, so that at rest the    *)
(* keymap has seen every key released.                                     *)
(***************************************************************************)
EXTENDS MainKeyEvents, SequenceTheorems, FiniteSetTheorems,
        WellFoundedInduction, TLAPS

-----------------------------------------------------------------------------
(* The arithmetic of size_t.                                               *)

Index == 0 .. SIZE_T - 1

LEMMA SizesAreNumbers ==
  QUEUE_SIZE \in Nat /\ SIZE_T \in Nat /\ 0 < QUEUE_SIZE /\ QUEUE_SIZE < SIZE_T
BY KeyEventsAssumption

(* The distance between two indices, and what advancing one does to it.    *)
LEMMA Distance ==
  ASSUME NEW i \in Index, NEW j \in Index
  PROVE  /\ Minus(i, j) \in Index
         /\ Minus(i, j) = IF j <= i THEN i - j ELSE i - j + SIZE_T
BY SizesAreNumbers DEF Index, Minus

LEMMA Advance ==
  ASSUME NEW i \in Index
  PROVE  /\ Plus(i, 1) \in Index
         /\ Plus(i, 1) = IF i = SIZE_T - 1 THEN 0 ELSE i + 1
BY SizesAreNumbers DEF Index, Plus

(* m_push++ lengthens the queue by one...                                  *)
LEMMA AdvanceFirst ==
  ASSUME NEW i \in Index, NEW j \in Index, Minus(i, j) < SIZE_T - 1
  PROVE  Minus(Plus(i, 1), j) = Minus(i, j) + 1
<1> DEFINE p == Plus(i, 1)
<1>1. p \in Index /\ p = IF i = SIZE_T - 1 THEN 0 ELSE i + 1
  BY Advance
<1>2. Minus(p, j) = IF j <= p THEN p - j ELSE p - j + SIZE_T
  BY <1>1, Distance
<1>3. Minus(i, j) = IF j <= i THEN i - j ELSE i - j + SIZE_T
  BY Distance
<1>4. /\ i \in Int /\ j \in Int /\ SIZE_T \in Int
      /\ 0 <= i /\ i <= SIZE_T - 1 /\ 0 <= j /\ j <= SIZE_T - 1
  BY SizesAreNumbers DEF Index
<1> HIDE DEF p
<1>5. Minus(p, j) = Minus(i, j) + 1
  BY <1>1, <1>2, <1>3, <1>4
<1> QED
  BY <1>5 DEF p

(* ... and m_pop++ shortens it by one.                                     *)
LEMMA AdvanceSecond ==
  ASSUME NEW i \in Index, NEW j \in Index, i # j
  PROVE  /\ Minus(i, j) > 0
         /\ Minus(i, Plus(j, 1)) = Minus(i, j) - 1
<1> DEFINE p == Plus(j, 1)
<1>1. p \in Index /\ p = IF j = SIZE_T - 1 THEN 0 ELSE j + 1
  BY Advance
<1>2. Minus(i, p) = IF p <= i THEN i - p ELSE i - p + SIZE_T
  BY <1>1, Distance
<1>3. Minus(i, j) = IF j <= i THEN i - j ELSE i - j + SIZE_T
  BY Distance
<1>4. /\ i \in Int /\ j \in Int /\ SIZE_T \in Int
      /\ 0 <= i /\ i <= SIZE_T - 1 /\ 0 <= j /\ j <= SIZE_T - 1
  BY SizesAreNumbers DEF Index
<1> HIDE DEF p
<1>5. Minus(i, j) > 0 /\ Minus(i, p) = Minus(i, j) - 1
  BY <1>1, <1>2, <1>3, <1>4
<1> QED
  BY <1>5 DEF p

LEMMA DistanceZero ==
  ASSUME NEW i \in Index
  PROVE  Minus(i, i) = 0
BY Distance, SizesAreNumbers DEF Index

-----------------------------------------------------------------------------
(* The inductive invariant: FullLockTight, with the ranges it needs.       *)
IndexTypes ==
  /\ m_push \in Index
  /\ m_peek \in Index
  /\ m_pop \in Index

LockInv ==
  /\ IndexTypes
  /\ spurious \in BOOLEAN
  /\ fullLocked \in BOOLEAN
  /\ FullLockTight

LEMMA CountsAreNumbers ==
  ASSUME IndexTypes
  PROVE  Count \in Index /\ Deferred \in Index /\ Count \in Nat /\ Deferred \in Nat
<1>1. Minus(m_push, m_pop) \in Index /\ Minus(m_peek, m_pop) \in Index
  BY Distance DEF IndexTypes
<1> QED
  BY <1>1 DEF Count, Deferred, Index

(* What FullLockTight says depends on these variables only.                *)
LEMMA LockInvStutter ==
  ASSUME LockInv,
         UNCHANGED <<m_push, m_peek, m_pop, fullLocked, spurious, matrix, main>>
  PROVE  LockInv'
BY DEF LockInv, IndexTypes, FullLockTight, Count, Deferred

LEMMA LockInvInit == Init => LockInv
<1> SUFFICES ASSUME Init PROVE LockInv
  OBVIOUS
<1>1. IndexTypes
  BY SizesAreNumbers DEF Init, IndexTypes, Index
<1>2. Count = 0 /\ Deferred = 0
  BY <1>1, DistanceZero DEF Init, IndexTypes, Count, Deferred
<1>3. ~ fullLocked /\ ~ spurious /\ fullLocked \in BOOLEAN /\ spurious \in BOOLEAN
  BY DEF Init
<1> QED
  BY <1>1, <1>2, <1>3, SizesAreNumbers DEF LockInv, FullLockTight

(* Releasing m_full_lock, by main_thread, is right unless the queue is     *)
(* full - and that is what spurious records.                               *)
LEMMA LockInvUnlock ==
  ASSUME LockInv, UnlockFull, UNCHANGED indexVars, matrix # "granted"
  PROVE  LockInv'
<1>1. IndexTypes' /\ Count' = Count /\ Deferred' = Deferred
  BY DEF LockInv, IndexTypes, Count, Deferred, indexVars
<1>2. spurious' = (spurious \/ Count = QUEUE_SIZE)
  BY DEF UnlockFull
<1>3. \/ matrix' = "granted" /\ fullLocked' = fullLocked
      \/ fullLocked' = FALSE /\ matrix' = matrix
  BY DEF UnlockFull
<1>4. fullLocked' \in BOOLEAN /\ spurious' \in BOOLEAN
  BY <1>2, <1>3 DEF LockInv
<1>5. FullLockTight'
  <2> SUFFICES ASSUME ~ spurious' PROVE FullLockTight'
    BY DEF FullLockTight
  <2>1. ~ spurious /\ Count # QUEUE_SIZE
    BY <1>2
  <2>2. Deferred <= Count /\ Count <= QUEUE_SIZE
    BY <2>1 DEF LockInv, FullLockTight
  <2>3. Count \in Nat
    BY CountsAreNumbers DEF LockInv
  <2>4. Count' < QUEUE_SIZE
    BY <1>1, <2>1, <2>2, <2>3, SizesAreNumbers
  <2>5. ~ fullLocked' \/ matrix' = "granted"
    BY <1>3
  <2> QED
    BY <1>1, <2>2, <2>4, <2>5 DEF FullLockTight
<1> QED
  BY <1>1, <1>4, <1>5 DEF LockInv

LEMMA LockInvMatrix ==
  ASSUME LockInv, MatrixStep
  PROVE  LockInv'
<1>1. ASSUME NEW k \in Slots, Push(k) PROVE LockInv'
  <2>1. /\ m_push' = Plus(m_push, 1)
        /\ UNCHANGED <<m_peek, m_pop, main, spurious>>
        /\ fullLocked' = (Minus(m_push', m_pop) >= QUEUE_SIZE)
        /\ matrix' = "scanning"
        /\ ~ fullLocked \/ matrix = "granted"
    BY <1>1 DEF Push
  <2>2. IndexTypes'
    BY <2>1, Advance DEF LockInv, IndexTypes
  <2>3. Deferred' = Deferred /\ fullLocked' = (Count' >= QUEUE_SIZE)
    BY <2>1 DEF Deferred, Count
  <2>4. fullLocked' \in BOOLEAN /\ spurious' \in BOOLEAN
    BY <2>1, <2>3 DEF LockInv
  <2>5. FullLockTight'
    <3> SUFFICES ASSUME ~ spurious' PROVE FullLockTight'
      BY DEF FullLockTight
    <3>1. Deferred <= Count /\ Count < QUEUE_SIZE
      BY <2>1 DEF LockInv, FullLockTight
    <3>2. Count \in Nat /\ Deferred \in Nat
      BY CountsAreNumbers DEF LockInv
    <3>3. Count' = Count + 1
      BY <2>1, <3>1, <3>2, AdvanceFirst, SizesAreNumbers
         DEF LockInv, IndexTypes, Count
    <3>4. Count' \in Nat /\ Count' <= QUEUE_SIZE /\ Deferred' <= Count'
      BY <2>3, <3>1, <3>2, <3>3, SizesAreNumbers
    <3>5. ~ (Count' >= QUEUE_SIZE) => Count' < QUEUE_SIZE
      BY <3>4, SizesAreNumbers
    <3>6. Count' >= QUEUE_SIZE => Count' = QUEUE_SIZE
      BY <3>4, SizesAreNumbers
    <3> QED
      BY <2>1, <2>3, <3>4, <3>5, <3>6 DEF FullLockTight
  <2> QED
    BY <2>2, <2>4, <2>5 DEF LockInv
<1>2. CASE PushWaits
  <2>1. /\ UNCHANGED <<m_push, m_peek, m_pop, fullLocked, main, spurious>>
        /\ matrix = "scanning" /\ matrix' = "waiting"
    BY <1>2 DEF PushWaits, queueVars, indexVars
  <2> QED
    BY <2>1 DEF LockInv, IndexTypes, FullLockTight, Count, Deferred
<1>3. CASE PushTimeout
  <2>1. /\ UNCHANGED <<m_push, m_peek, m_pop, fullLocked, main, spurious>>
        /\ matrix = "waiting" /\ matrix' = "resting"
    BY <1>3 DEF PushTimeout, queueVars, indexVars
  <2> QED
    BY <2>1 DEF LockInv, IndexTypes, FullLockTight, Count, Deferred
<1>4. CASE SystemReset
  <2>1. /\ m_push' = 0 /\ m_peek' = 0 /\ m_pop' = 0
        /\ fullLocked' = FALSE /\ spurious' = FALSE
    BY <1>4 DEF SystemReset
  <2>2. IndexTypes'
    BY <2>1, SizesAreNumbers DEF IndexTypes, Index
  <2>3. Count' = 0 /\ Deferred' = 0
    BY <2>1, <2>2, DistanceZero DEF IndexTypes, Count, Deferred
  <2>4. FullLockTight'
    BY <2>1, <2>3, SizesAreNumbers DEF FullLockTight
  <2> QED
    BY <2>1, <2>2, <2>4 DEF LockInv
<1>5. CASE ScanDone
  <2>1. /\ UNCHANGED <<m_push, m_peek, m_pop, fullLocked, main, spurious>>
        /\ matrix = "scanning" /\ matrix' \in {"resting", "asleep"}
    BY <1>5 DEF ScanDone, queueVars, indexVars
  <2> QED
    BY <2>1 DEF LockInv, IndexTypes, FullLockTight, Count, Deferred
<1> QED
  BY <1>1, <1>2, <1>3, <1>4, <1>5 DEF MatrixStep

(* defer_remove_last() shortens the queue and its deferred part alike.     *)
LEMMA LockInvRemove ==
  ASSUME LockInv, RemoveLast, matrix # "granted", main = "handle",
         UNCHANGED <<fullLocked, matrix, spurious>>
  PROVE  LockInv'
<1>1. CASE m_pop = m_peek
  <2>1. main' = "check" /\ UNCHANGED <<m_push, m_peek, m_pop>>
    BY <1>1 DEF RemoveLast, queueVars, indexVars
  <2> QED
    BY <2>1 DEF LockInv, IndexTypes, FullLockTight, Count, Deferred
<1>2. CASE m_pop # m_peek
  <2>1. /\ m_pop' = Plus(m_pop, 1)
        /\ main' = "removed"
        /\ UNCHANGED <<m_push, m_peek>>
    BY <1>2 DEF RemoveLast
  <2>2. IndexTypes'
    BY <2>1, Advance DEF LockInv, IndexTypes
  <2>3. Deferred > 0 /\ Deferred' = Deferred - 1
    BY <1>2, <2>1, AdvanceSecond DEF LockInv, IndexTypes, Deferred
  <2>4. FullLockTight'
    <3> SUFFICES ASSUME ~ spurious' PROVE FullLockTight'
      BY DEF FullLockTight
    <3>1. Deferred <= Count /\ Count <= QUEUE_SIZE
      BY DEF LockInv, FullLockTight
    <3>2. Count \in Nat /\ Deferred \in Nat
      BY CountsAreNumbers DEF LockInv
    <3>3. Count > 0
      BY <2>3, <3>1, <3>2
    <3>4. m_push # m_pop
      BY <3>3, DistanceZero DEF LockInv, IndexTypes, Count
    <3>5. Count' = Count - 1
      BY <2>1, <3>4, AdvanceSecond DEF LockInv, IndexTypes, Count
    <3>6. Deferred' <= Count' /\ Count' < QUEUE_SIZE /\ Count' <= QUEUE_SIZE
      BY <2>3, <3>1, <3>2, <3>5, SizesAreNumbers
    <3> QED
      BY <2>1, <3>6 DEF FullLockTight
  <2> QED
    BY <2>2, <2>4 DEF LockInv
<1> QED
  BY <1>1, <1>2

LEMMA LockInvMain ==
  ASSUME LockInv, MainStep
  PROVE  LockInv'
<1>1. CASE TryPop
  <2>1. /\ m_pop # m_push
        /\ m_pop' = Plus(m_pop, 1)
        /\ m_peek' = m_pop'
        /\ main' = "popped"
        /\ matrix # "granted"
        /\ UNCHANGED <<m_push, fullLocked, matrix, spurious>>
    BY <1>1 DEF TryPop, MainRuns
  <2>2. IndexTypes'
    BY <2>1, Advance DEF LockInv, IndexTypes
  <2>3. Deferred' = 0
    BY <2>1, <2>2, DistanceZero DEF IndexTypes, Deferred
  <2>4. Count > 0 /\ Count' = Count - 1
    BY <2>1, AdvanceSecond DEF LockInv, IndexTypes, Count
  <2>5. Count \in Nat
    BY CountsAreNumbers DEF LockInv
  <2>6. FullLockTight'
    <3> SUFFICES ASSUME ~ spurious' PROVE FullLockTight'
      BY DEF FullLockTight
    <3>1. Count <= QUEUE_SIZE
      BY <2>1 DEF LockInv, FullLockTight
    <3>2. Deferred' <= Count' /\ Count' < QUEUE_SIZE /\ Count' <= QUEUE_SIZE
      BY <2>3, <2>4, <2>5, <3>1, SizesAreNumbers
    <3> QED
      BY <2>1, <3>2 DEF FullLockTight
  <2> QED
    BY <2>1, <2>2, <2>6 DEF LockInv
<1>2. CASE PopUnlocks \/ DryRunUnlocks \/ RemoveUnlocks
  <2>1. UnlockFull /\ UNCHANGED indexVars /\ matrix # "granted"
    BY <1>2 DEF PopUnlocks, DryRunUnlocks, RemoveUnlocks, MainRuns, queueVars,
                indexVars
  <2> QED
    BY <2>1, LockInvUnlock
<1>3. CASE TryPeek
  <2>1. /\ m_peek # m_push
        /\ m_peek' = Plus(m_peek, 1)
        /\ main = "wait" /\ main' = "handle"
        /\ UNCHANGED <<m_push, m_pop, fullLocked, matrix, spurious>>
    BY <1>3 DEF TryPeek, MainRuns
  <2>2. IndexTypes'
    BY <2>1, Advance DEF LockInv, IndexTypes
  <2>3. Count' = Count
    BY <2>1 DEF Count
  <2>4. FullLockTight'
    <3> SUFFICES ASSUME ~ spurious' PROVE FullLockTight'
      BY DEF FullLockTight
    <3>1. Deferred <= Count /\ Count <= QUEUE_SIZE
      BY <2>1 DEF LockInv, FullLockTight
    <3>2. Count \in Nat /\ Deferred \in Nat
      BY CountsAreNumbers DEF LockInv
    <3>3. Count # Deferred
      <4>1. /\ m_push \in Index /\ m_peek \in Index /\ m_pop \in Index
            /\ m_peek # m_push
        BY <2>1 DEF LockInv, IndexTypes
      <4>2. /\ Count = IF m_pop <= m_push THEN m_push - m_pop
                                          ELSE m_push - m_pop + SIZE_T
            /\ Deferred = IF m_pop <= m_peek THEN m_peek - m_pop
                                             ELSE m_peek - m_pop + SIZE_T
        BY <4>1, Distance DEF Count, Deferred
      <4> QED
        BY <4>1, <4>2, SizesAreNumbers DEF Index
    <3>4. Deferred' = Deferred + 1
      <4>1. Deferred < SIZE_T - 1
        BY <3>1, <3>2, <3>3, SizesAreNumbers
      <4> QED
        BY <2>1, <4>1, AdvanceFirst DEF LockInv, IndexTypes, Deferred
    <3>5. Deferred' <= Count'
      BY <2>3, <3>1, <3>2, <3>3, <3>4
    <3> QED
      BY <2>1, <2>3, <3>5 DEF LockInv, FullLockTight
  <2> QED
    BY <2>1, <2>2, <2>4 DEF LockInv
<1>4. CASE DryRun
  <2>1. /\ main = "check" /\ main' \in {"dryPopped", "wait"}
        /\ UNCHANGED <<m_push, m_peek, m_pop, fullLocked, matrix, spurious>>
    BY <1>4 DEF DryRun, MainRuns, queueVars, indexVars
  <2> QED
    BY <2>1 DEF LockInv, IndexTypes, FullLockTight, Count, Deferred
<1>5. CASE HandleNormal \/ HandleOther
  <2>1. /\ main = "handle" /\ main' = "check"
        /\ UNCHANGED <<m_push, m_peek, m_pop, fullLocked, matrix, spurious>>
    BY <1>5 DEF HandleNormal, HandleOther, MainRuns, queueVars, indexVars
  <2> QED
    BY <2>1 DEF LockInv, IndexTypes, FullLockTight, Count, Deferred
<1>6. CASE HandleOwner \/ HandleQuickRelease
  <2>1. /\ main = "handle" /\ matrix # "granted" /\ RemoveLast
        /\ UNCHANGED <<fullLocked, matrix, spurious>>
    BY <1>6 DEF HandleOwner, HandleQuickRelease, MainRuns
  <2> QED
    BY <2>1, LockInvRemove
<1> QED
  BY <1>1, <1>2, <1>3, <1>4, <1>5, <1>6 DEF MainStep

LEMMA LockInvNext == LockInv /\ [Next]_vars => LockInv'
<1> SUFFICES ASSUME LockInv, [Next]_vars PROVE LockInv'
  OBVIOUS
<1>1. ASSUME NEW found \in SUBSET Slots, Scan(found) PROVE LockInv'
  <2>1. /\ matrix \in {"asleep", "resting"} /\ matrix' = "scanning"
        /\ UNCHANGED <<m_push, m_peek, m_pop, fullLocked, main, spurious>>
    BY <1>1 DEF Scan, queueVars, indexVars
  <2> QED
    BY <2>1 DEF LockInv, IndexTypes, FullLockTight, Count, Deferred
<1>2. CASE DeferTimeout \/ OtherFlag
  <2>1. /\ main = "wait" /\ main' = "check"
        /\ UNCHANGED <<m_push, m_peek, m_pop, fullLocked, matrix, spurious>>
    BY <1>2 DEF DeferTimeout, OtherFlag, MainRuns, queueVars, indexVars
  <2> QED
    BY <2>1 DEF LockInv, IndexTypes, FullLockTight, Count, Deferred
<1>3. CASE UNCHANGED vars
  BY <1>3, LockInvStutter DEF vars, queueVars, indexVars
<1> QED
  BY <1>1, <1>2, <1>3, LockInvMatrix, LockInvMain DEF Next

(* hpp:53 and 59: m_pop <= m_peek <= m_push, never more events than the    *)
(* buffer holds, and m_full_lock locked exactly while the queue is full,   *)
(* in every state before an unlock of the full queue.                      *)
THEOREM FullLockInvariant == Spec => []FullLockTight
<1>1. LockInv => FullLockTight
  BY DEF LockInv
<1> QED
  BY <1>1, LockInvInit, LockInvNext, PTL DEF Spec

-----------------------------------------------------------------------------
(* What the operations on the indices do to the two counts.                *)

(* m_pop <= m_peek <= m_push, in the order of size_t.                      *)
InOrder == IndexTypes /\ Deferred <= Count

(* The comparisons of the code, as comparisons of the counts: in a state,  *)
(* and in the next.                                                        *)
LEMMA Compare ==
  ASSUME NEW push \in Index, NEW peek \in Index, NEW pop \in Index,
         Minus(peek, pop) <= Minus(push, pop)
  PROVE  /\ Minus(push, pop) \in Nat /\ Minus(peek, pop) \in Nat
         /\ pop # push <=> Minus(push, pop) > 0
         /\ peek # push <=> Minus(peek, pop) < Minus(push, pop)
         /\ pop # peek <=> Minus(peek, pop) > 0
<1>1. /\ Minus(push, pop) = IF pop <= push THEN push - pop
                                           ELSE push - pop + SIZE_T
      /\ Minus(peek, pop) = IF pop <= peek THEN peek - pop
                                           ELSE peek - pop + SIZE_T
  BY Distance
<1> QED
  BY <1>1, SizesAreNumbers DEF Index

LEMMA Comparisons ==
  ASSUME InOrder
  PROVE  /\ Count \in Nat /\ Deferred \in Nat
         /\ m_pop # m_push <=> Count > 0
         /\ m_peek # m_push <=> Deferred < Count
         /\ m_pop # m_peek <=> Deferred > 0
BY Compare DEF InOrder, IndexTypes, Count, Deferred

LEMMA ComparisonsNext ==
  ASSUME InOrder'
  PROVE  /\ Count' \in Nat /\ Deferred' \in Nat
         /\ m_pop' # m_push' <=> Count' > 0
         /\ m_peek' # m_push' <=> Deferred' < Count'
         /\ m_pop' # m_peek' <=> Deferred' > 0
BY Compare DEF InOrder, IndexTypes, Count, Deferred

LEMMA PushCounts ==
  ASSUME InOrder, Count < SIZE_T - 1,
         m_push' = Plus(m_push, 1), UNCHANGED <<m_peek, m_pop>>
  PROVE  InOrder' /\ Count' = Count + 1 /\ Deferred' = Deferred
<1>1. IndexTypes'
  BY Advance DEF InOrder, IndexTypes
<1>2. Count' = Count + 1
  BY AdvanceFirst DEF InOrder, IndexTypes, Count
<1>3. Deferred' = Deferred
  BY DEF Deferred
<1> QED
  BY <1>1, <1>2, <1>3, CountsAreNumbers DEF InOrder

LEMMA PopCounts ==
  ASSUME InOrder, m_pop # m_push,
         m_pop' = Plus(m_pop, 1), m_peek' = m_pop', UNCHANGED m_push
  PROVE  InOrder' /\ Count' = Count - 1 /\ Deferred' = 0
<1>1. IndexTypes'
  BY Advance DEF InOrder, IndexTypes
<1>2. Count > 0 /\ Count' = Count - 1
  BY AdvanceSecond DEF InOrder, IndexTypes, Count
<1>3. Deferred' = 0
  BY <1>1, DistanceZero DEF IndexTypes, Deferred
<1> QED
  BY <1>1, <1>2, <1>3, CountsAreNumbers DEF InOrder

LEMMA PeekCounts ==
  ASSUME InOrder, m_peek # m_push,
         m_peek' = Plus(m_peek, 1), UNCHANGED <<m_push, m_pop>>
  PROVE  InOrder' /\ Count' = Count /\ Deferred' = Deferred + 1
<1>1. IndexTypes'
  BY Advance DEF InOrder, IndexTypes
<1>2. Count' = Count
  BY DEF Count
<1>3. Deferred < Count /\ Count \in Index /\ Deferred \in Nat /\ IndexTypes
  BY Comparisons, CountsAreNumbers DEF InOrder
<1>4. Deferred < SIZE_T - 1
  BY <1>3, SizesAreNumbers DEF Index
<1>5. Deferred' = Deferred + 1
  BY <1>4, AdvanceFirst DEF InOrder, IndexTypes, Deferred
<1> QED
  BY <1>1, <1>2, <1>3, <1>5 DEF InOrder, Index

LEMMA RemoveCounts ==
  ASSUME InOrder, m_pop # m_peek,
         m_pop' = Plus(m_pop, 1), UNCHANGED <<m_push, m_peek>>
  PROVE  InOrder' /\ Count' = Count - 1 /\ Deferred' = Deferred - 1
<1>1. IndexTypes'
  BY Advance DEF InOrder, IndexTypes
<1>2. Deferred' = Deferred - 1
  BY AdvanceSecond DEF InOrder, IndexTypes, Deferred
<1>3. Count > 0 /\ m_pop # m_push
  BY Comparisons, CountsAreNumbers DEF InOrder
<1>4. Count' = Count - 1
  BY <1>3, AdvanceSecond DEF InOrder, IndexTypes, Count
<1> QED
  BY <1>1, <1>2, <1>4, CountsAreNumbers DEF InOrder

LEMMA SameCounts ==
  ASSUME InOrder, UNCHANGED <<m_push, m_peek, m_pop>>
  PROVE  InOrder' /\ Count' = Count /\ Deferred' = Deferred
BY DEF InOrder, IndexTypes, Count, Deferred

-----------------------------------------------------------------------------
(* Every variable keeps its type, whatever becomes of the queue.           *)
Word == KeyEvent \cup {NoEvent}

Ranges ==
  /\ m_buffer \in [0 .. QUEUE_SIZE - 1 -> Word]
  /\ IndexTypes
  /\ fullLocked \in BOOLEAN
  /\ getMode \in {"pop", "peek"}
  /\ matrix \in {"asleep", "resting", "scanning", "waiting", "granted"}
  /\ pressing \subseteq Slots
  /\ m_pressed \subseteq Slots
  /\ main \in {"wait", "popped", "handle", "removed", "check", "dryPopped"}
  /\ flag \in BOOLEAN
  /\ event \in Word
  /\ owner \in Slots \cup {NoSlot}
  /\ nest \in 0 .. MaxNest
  /\ down \subseteq Slots
  /\ spurious \in BOOLEAN

(* A place in the buffer; what a word says of a key.                       *)
LEMMA Places ==
  ASSUME NEW i \in Int
  PROVE  At(i) \in 0 .. QUEUE_SIZE - 1
BY SizesAreNumbers DEF At

LEMMA Words ==
  ASSUME NEW w \in Word
  PROVE  /\ w.press \in BOOLEAN
         /\ w.press => w.slot \in Slots
         /\ w.slot \in Slots => w \in KeyEvent
         /\ w.slot \in Slots \cup {NoSlot}
<1>1. 0 \notin Slots
  BY DEF Slots
<1>2. CASE w \in KeyEvent
  BY <1>2 DEF KeyEvent
<1>3. CASE w = NoEvent
  <2>1. w.slot = 0 /\ w.press = FALSE
    BY <1>3 DEF NoEvent
  <2>2. ~ w.press /\ w.press \in BOOLEAN
    BY <2>1, Zenon
  <2> QED
    BY <1>1, <2>1, <2>2 DEF NoSlot
<1> QED
  BY <1>2, <1>3 DEF Word

LEMMA RangesInit == Init => Ranges
<1> SUFFICES ASSUME Init PROVE Ranges
  OBVIOUS
<1>1. IndexTypes
  BY SizesAreNumbers DEF Init, IndexTypes, Index
<1>2. m_buffer \in [0 .. QUEUE_SIZE - 1 -> Word] /\ event \in Word
  BY DEF Init, Word
<1>3. 0 \in 0 .. MaxNest
  BY KeyEventsAssumption
<1> QED
  BY <1>1, <1>2, <1>3 DEF Init, Ranges

LEMMA RangesUnlock ==
  ASSUME Ranges, UnlockFull
  PROVE  /\ fullLocked' \in BOOLEAN
         /\ spurious' \in BOOLEAN
         /\ matrix' \in {"asleep", "resting", "scanning", "waiting", "granted"}
BY DEF Ranges, UnlockFull

LEMMA RangesRemove ==
  ASSUME Ranges, RemoveLast
  PROVE  /\ m_buffer' \in [0 .. QUEUE_SIZE - 1 -> Word]
         /\ IndexTypes'
         /\ main' \in {"check", "removed"}
<1>1. CASE m_pop = m_peek
  BY <1>1 DEF Ranges, IndexTypes, RemoveLast, queueVars, indexVars
<1>2. CASE m_pop # m_peek
  <2>1. \A i \in 0 .. QUEUE_SIZE - 1 : m_buffer[i] \in Word /\ m_buffer[At(i - 1)] \in Word
    <3>1. TAKE i \in 0 .. QUEUE_SIZE - 1
    <3>2. i - 1 \in Int
      BY SizesAreNumbers
    <3>3. At(i - 1) \in 0 .. QUEUE_SIZE - 1
      BY <3>2, Places
    <3> QED
      BY <3>3 DEF Ranges
  <2>2. m_buffer' \in [0 .. QUEUE_SIZE - 1 -> Word]
    <3>1. m_buffer' = [i \in DOMAIN m_buffer |->
                         IF \E n \in 2 .. Deferred : i = At(m_pop + n - 1)
                         THEN m_buffer[At(i - 1)] ELSE m_buffer[i]]
      BY <1>2 DEF RemoveLast
    <3>2. DOMAIN m_buffer = 0 .. QUEUE_SIZE - 1
      BY DEF Ranges
    <3> QED
      BY <2>1, <3>1, <3>2
  <2>3. IndexTypes' /\ main' = "removed"
    BY <1>2, Advance DEF Ranges, IndexTypes, RemoveLast
  <2> QED
    BY <2>2, <2>3
<1> QED
  BY <1>1, <1>2

LEMMA RangesDecide ==
  ASSUME Ranges, StayDeferring \/ StopDefer \/ NestDefer
  PROVE  /\ owner' \in Slots \cup {NoSlot}
         /\ nest' \in 0 .. MaxNest
         /\ getMode' \in {"pop", "peek"}
<1>1. CASE StayDeferring
  BY <1>1 DEF Ranges, StayDeferring
<1>2. CASE StopDefer
  <2>1. 0 \in 0 .. MaxNest
    BY KeyEventsAssumption
  <2> QED
    BY <1>2, <2>1 DEF StopDefer
<1>3. CASE NestDefer
  BY <1>3, KeyEventsAssumption DEF Ranges, NestDefer
<1> QED
  BY <1>1, <1>2, <1>3

LEMMA RangesExecute ==
  ASSUME Ranges, Execute(event)
  PROVE  down' \subseteq Slots
<1>1. event.press => event.slot \in Slots
  BY Words DEF Ranges
<1> QED
  BY <1>1 DEF Ranges, Execute

LEMMA RangesMatrix ==
  ASSUME Ranges, MatrixStep
  PROVE  Ranges'
<1>1. ASSUME NEW k \in Slots, Push(k) PROVE Ranges'
  <2>1. /\ m_buffer' = [m_buffer EXCEPT ![At(m_push)] =
                          [slot |-> k, press |-> k \in pressing]]
        /\ m_push' = Plus(m_push, 1)
        /\ m_pressed' = IF k \in pressing THEN m_pressed \cup {k}
                                          ELSE m_pressed \ {k}
        /\ fullLocked' = (Minus(m_push', m_pop) >= QUEUE_SIZE)
        /\ matrix' = "scanning"
        /\ flag' = TRUE
        /\ UNCHANGED <<m_peek, m_pop, pressing, main, event, getMode, owner,
                       nest, down, spurious>>
    BY <1>1 DEF Push, keymapVars
  <2>2. [slot |-> k, press |-> k \in pressing] \in Word
    BY DEF Word, KeyEvent
  <2>3. m_buffer' \in [0 .. QUEUE_SIZE - 1 -> Word]
    BY <2>1, <2>2 DEF Ranges
  <2>4. IndexTypes'
    BY <2>1, Advance DEF Ranges, IndexTypes
  <2>5. m_pressed' \subseteq Slots
    BY <2>1 DEF Ranges
  <2>6. fullLocked' \in BOOLEAN /\ flag' \in BOOLEAN
    BY <2>1
  <2> QED
    BY <2>1, <2>3, <2>4, <2>5, <2>6 DEF Ranges
<1>2. CASE PushWaits \/ PushTimeout \/ ScanDone
  <2>1. /\ matrix' \in {"waiting", "resting", "asleep"}
        /\ UNCHANGED <<m_buffer, m_push, m_peek, m_pop, fullLocked, pressing,
                       m_pressed, main, flag, event, getMode, owner, nest, down,
                       spurious>>
    BY <1>2 DEF PushWaits, PushTimeout, ScanDone, queueVars, indexVars,
                matrixVars, keymapVars
  <2> QED
    BY <2>1 DEF Ranges, IndexTypes
<1>3. CASE SystemReset
  <2>1. m_push' \in Index /\ m_peek' \in Index /\ m_pop' \in Index
    BY <1>3, SizesAreNumbers DEF SystemReset, Index
  <2>2. m_buffer' \in [0 .. QUEUE_SIZE - 1 -> Word] /\ event' \in Word
    BY <1>3 DEF SystemReset, Word
  <2>3. nest' \in 0 .. MaxNest
    BY <1>3, KeyEventsAssumption DEF SystemReset
  <2> QED
    BY <1>3, <2>1, <2>2, <2>3 DEF SystemReset, Ranges, IndexTypes
<1> QED
  BY <1>1, <1>2, <1>3 DEF MatrixStep

LEMMA RangesMain ==
  ASSUME Ranges, MainStep
  PROVE  Ranges'
<1>1. CASE TryPop \/ TryPeek
  <2>1. /\ m_push' = m_push
        /\ \/ m_pop' = Plus(m_pop, 1) /\ m_peek' = m_pop'
           \/ m_pop' = m_pop /\ m_peek' = Plus(m_peek, 1)
        /\ event' \in {m_buffer[At(m_pop)], m_buffer[At(m_peek)]}
        /\ main' \in {"popped", "handle"}
        /\ flag' = FALSE
        /\ UNCHANGED <<m_buffer, fullLocked, matrix, pressing, m_pressed,
                       getMode, owner, nest, down, spurious>>
    BY <1>1 DEF TryPop, TryPeek, matrixVars, keymapVars
  <2>2. IndexTypes'
    BY <2>1, Advance DEF Ranges, IndexTypes
  <2>3. event' \in Word
    <3>1. At(m_pop) \in 0 .. QUEUE_SIZE - 1 /\ At(m_peek) \in 0 .. QUEUE_SIZE - 1
      BY Places DEF Ranges, IndexTypes, Index
    <3> QED
      BY <2>1, <3>1 DEF Ranges
  <2>4. flag' \in BOOLEAN
    BY <2>1
  <2> QED
    BY <2>1, <2>2, <2>3, <2>4 DEF Ranges
<1>2. CASE PopUnlocks \/ RemoveUnlocks \/ DryRunUnlocks
  <2>1. /\ UnlockFull
        /\ main' \in {"handle", "check", "wait"}
        /\ flag' \in {flag, TRUE}
        /\ UNCHANGED <<m_buffer, m_push, m_peek, m_pop, pressing, m_pressed,
                       event, getMode, owner, nest, down>>
    BY <1>2 DEF PopUnlocks, RemoveUnlocks, DryRunUnlocks, queueVars, indexVars,
                matrixVars, keymapVars
  <2>2. flag' \in BOOLEAN
    BY <2>1 DEF Ranges
  <2> QED
    BY <2>1, <2>2, RangesUnlock DEF Ranges, IndexTypes
<1>3. CASE DryRun
  <2>1. /\ main' \in {"dryPopped", "wait"}
        /\ flag' = flag \/ flag' = (flag \/ Available)
        /\ UNCHANGED <<m_buffer, m_push, m_peek, m_pop, fullLocked, matrix,
                       pressing, m_pressed, event, getMode, owner, nest, down,
                       spurious>>
    BY <1>3 DEF DryRun, queueVars, indexVars, matrixVars, keymapVars
  <2>2. flag' \in BOOLEAN
    BY <2>1 DEF Ranges
  <2> QED
    BY <2>1, <2>2 DEF Ranges, IndexTypes
<1>4. CASE HandleNormal
  <2>1. /\ Execute(event)
        /\ \/ UNCHANGED <<owner, nest, getMode>>
           \/ event.press /\ owner' = event.slot /\ nest' = 0 /\ getMode' = "peek"
        /\ main' = "check"
        /\ UNCHANGED <<m_buffer, m_push, m_peek, m_pop, fullLocked, matrix,
                       pressing, m_pressed, flag, event, spurious>>
    BY <1>4 DEF HandleNormal, StayDeferring, queueVars, indexVars, matrixVars
  <2>2. event.press => event.slot \in Slots
    BY Words DEF Ranges
  <2>3. 0 \in 0 .. MaxNest
    BY KeyEventsAssumption
  <2>4. owner' \in Slots \cup {NoSlot} /\ nest' \in 0 .. MaxNest
        /\ getMode' \in {"pop", "peek"}
    BY <2>1, <2>2, <2>3 DEF Ranges
  <2> QED
    BY <2>1, <2>4, RangesExecute DEF Ranges, IndexTypes
<1>5. CASE HandleOwner \/ HandleOther \/ HandleQuickRelease
  <2>1. /\ StayDeferring \/ StopDefer \/ NestDefer
        /\ RemoveLast \/ (main' = "check" /\ UNCHANGED queueVars)
        /\ Execute(event) \/ UNCHANGED down
        /\ UNCHANGED <<fullLocked, matrix, pressing, m_pressed, flag, event,
                       spurious>>
    BY <1>5 DEF HandleOwner, HandleOther, HandleQuickRelease, StayDeferring,
                matrixVars
  <2>2. /\ m_buffer' \in [0 .. QUEUE_SIZE - 1 -> Word]
        /\ IndexTypes'
        /\ main' \in {"check", "removed"}
    <3>1. CASE RemoveLast
      BY <3>1, RangesRemove
    <3>2. CASE main' = "check" /\ UNCHANGED queueVars
      BY <3>2 DEF Ranges, IndexTypes, queueVars, indexVars
    <3> QED
      BY <2>1, <3>1, <3>2
  <2>3. down' \subseteq Slots
    BY <2>1, RangesExecute DEF Ranges
  <2> QED
    BY <2>1, <2>2, <2>3, RangesDecide DEF Ranges
<1> QED
  BY <1>1, <1>2, <1>3, <1>4, <1>5 DEF MainStep

LEMMA RangesNext == Ranges /\ [Next]_vars => Ranges'
<1> SUFFICES ASSUME Ranges, [Next]_vars PROVE Ranges'
  OBVIOUS
<1>1. ASSUME NEW found \in SUBSET Slots, Scan(found) PROVE Ranges'
  BY <1>1 DEF Scan, Ranges, IndexTypes, queueVars, indexVars, keymapVars
<1>2. CASE DeferTimeout \/ OtherFlag
  <2>1. /\ (StopDefer \/ NestDefer) \/ StayDeferring
        /\ main' = "check"
        /\ UNCHANGED <<m_buffer, m_push, m_peek, m_pop, fullLocked, matrix,
                       pressing, m_pressed, flag, event, down, spurious>>
    BY <1>2 DEF DeferTimeout, OtherFlag, StayDeferring, queueVars, indexVars,
                matrixVars, keymapVars
  <2> QED
    BY <2>1, RangesDecide DEF Ranges, IndexTypes
<1>3. CASE UNCHANGED vars
  BY <1>3 DEF Ranges, IndexTypes, vars, queueVars, indexVars, matrixVars,
              keymapVars
<1> QED
  BY <1>1, <1>2, <1>3, RangesMatrix, RangesMain DEF Next

THEOREM RangesInvariant == Spec => []Ranges
BY RangesInit, RangesNext, PTL DEF Spec

-----------------------------------------------------------------------------
(* FLAG_KEY_EVENT.  While main_thread is busy the flag may only be set for *)
(* an event that m_get can return, and what it may turn m_get into keeps   *)
(* that event in reach: defer mode begins with nothing deferred, and an    *)
(* event ahead of m_peek is one ahead of m_pop.                            *)
FlagInv ==
  /\ InOrder
  /\ flag \in BOOLEAN
  /\ getMode \in {"pop", "peek"}
  /\ flag => Available
  /\ main = "wait" /\ Available => flag
  /\ main = "dryPopped" => getMode = "pop" /\ m_pop # m_push
  /\ main \in {"popped", "handle"} /\ getMode = "pop" => m_peek = m_pop
  /\ getMode = "peek" <=> owner # NoSlot

LEMMA FlagInvInit == Init => FlagInv
<1> SUFFICES ASSUME Init PROVE FlagInv
  OBVIOUS
<1>1. IndexTypes
  BY SizesAreNumbers DEF Init, IndexTypes, Index
<1>2. Count = 0 /\ Deferred = 0
  BY <1>1, DistanceZero DEF Init, IndexTypes, Count, Deferred
<1>3. /\ ~ flag /\ flag \in BOOLEAN
      /\ main = "wait" /\ getMode = "pop" /\ owner = NoSlot
      /\ m_pop = m_push
  BY DEF Init
<1> QED
  BY <1>1, <1>2, <1>3 DEF FlagInv, InOrder, Available

LEMMA FlagInvStutter ==
  ASSUME FlagInv,
         UNCHANGED <<m_push, m_peek, m_pop, flag, getMode, main, owner>>
  PROVE  FlagInv'
BY SameCounts DEF FlagInv, Available

(* The queue holds fewer events than a size_t can count: the indices have  *)
(* not lapped one another, even if events were overwritten.                *)
NoWrap == Count < SIZE_T - 1

LEMMA FlagInvReset ==
  ASSUME SystemReset
  PROVE  FlagInv'
<1>1. /\ m_push' = 0 /\ m_peek' = 0 /\ m_pop' = 0
      /\ ~ flag' /\ flag' \in BOOLEAN
      /\ main' = "wait" /\ getMode' = "pop" /\ owner' = NoSlot
  BY DEF SystemReset
<1>2. IndexTypes'
  BY <1>1, SizesAreNumbers DEF IndexTypes, Index
<1>3. Count' = 0 /\ Deferred' = 0
  BY <1>1, <1>2, DistanceZero DEF IndexTypes, Count, Deferred
<1> QED
  BY <1>1, <1>2, <1>3 DEF FlagInv, InOrder, Available

LEMMA FlagInvMatrix ==
  ASSUME FlagInv, (\E k \in Slots : Push(k)) => NoWrap, MatrixStep
  PROVE  FlagInv'
<1>1. ASSUME NEW k \in Slots, Push(k) PROVE FlagInv'
  <2>1. /\ m_push' = Plus(m_push, 1)
        /\ UNCHANGED <<m_peek, m_pop, main, getMode, owner>>
        /\ flag' /\ flag' \in BOOLEAN
    BY <1>1 DEF Push, keymapVars
  <2>2. InOrder' /\ Count' = Count + 1 /\ Deferred' = Deferred
    BY <1>1, <2>1, PushCounts DEF FlagInv, NoWrap
  <2>3. Deferred \in Nat /\ Count \in Nat /\ Deferred <= Count
    BY Comparisons DEF FlagInv, InOrder
  <2>4. Count' > 0 /\ Deferred' < Count'
    BY <2>2, <2>3
  <2>5. m_pop' # m_push' /\ m_peek' # m_push'
    BY <2>2, <2>4, ComparisonsNext
  <2>6. Available'
    BY <2>5 DEF Available
  <2> QED
    BY <2>1, <2>2, <2>5, <2>6 DEF FlagInv
<1>2. CASE PushWaits \/ PushTimeout \/ ScanDone
  <2>1. UNCHANGED <<m_push, m_peek, m_pop, flag, getMode, main, owner>>
    BY <1>2 DEF PushWaits, PushTimeout, ScanDone, queueVars, indexVars, keymapVars
  <2> QED
    BY <2>1, FlagInvStutter
<1> QED
  BY <1>1, <1>2, FlagInvReset DEF MatrixStep

(* What the deferrer decides, with or without the removal of its event: an *)
(* event ahead of m_peek stays one, and is one ahead of m_pop as well.     *)
LEMMA FlagInvDecide ==
  ASSUME FlagInv, main = "handle",
         StayDeferring \/ StopDefer \/ NestDefer,
         RemoveLast \/ (main' = "check" /\ UNCHANGED queueVars),
         UNCHANGED flag
  PROVE  FlagInv'
<1>1. getMode' \in {"pop", "peek"} /\ (getMode' = "peek" <=> owner' # NoSlot)
  BY DEF FlagInv, StayDeferring, StopDefer, NestDefer
<1>2. /\ main' \in {"check", "removed"}
      /\ UNCHANGED <<m_push, m_peek>>
      /\ \/ UNCHANGED m_pop
         \/ m_pop # m_peek /\ m_pop' = Plus(m_pop, 1)
  BY DEF RemoveLast, queueVars, indexVars
<1>3. /\ InOrder'
      /\ \/ Count' = Count /\ Deferred' = Deferred
         \/ Count' = Count - 1 /\ Deferred' = Deferred - 1
  BY <1>2, SameCounts, RemoveCounts DEF FlagInv
<1>4. m_peek # m_push => m_pop' # m_push'
  <2>1. SUFFICES ASSUME m_peek # m_push PROVE m_pop' # m_push'
    OBVIOUS
  <2>2. Deferred < Count /\ Deferred \in Nat /\ Count \in Nat
    BY <2>1, Comparisons DEF FlagInv
  <2>3. Count' > 0
    BY <1>3, <2>2, ComparisonsNext
  <2> QED
    BY <1>3, <2>3, ComparisonsNext
<1>5. flag' => Available'
  <2>1. flag => m_peek # m_push
    BY DEF FlagInv, Available
  <2>2. flag' => m_peek' # m_push' /\ m_pop' # m_push'
    BY <1>2, <1>4, <2>1
  <2> QED
    BY <2>2 DEF Available
<1> QED
  BY <1>1, <1>2, <1>3, <1>5 DEF FlagInv

LEMMA FlagInvMain ==
  ASSUME Ranges, FlagInv, MainStep
  PROVE  FlagInv'
<1>1. CASE TryPop
  <2>1. /\ m_pop # m_push
        /\ m_pop' = Plus(m_pop, 1)
        /\ m_peek' = m_pop'
        /\ main' = "popped"
        /\ ~ flag' /\ flag' \in BOOLEAN
        /\ UNCHANGED <<m_push, getMode, owner>>
    BY <1>1 DEF TryPop, MainRuns, keymapVars
  <2>2. InOrder'
    BY <2>1, PopCounts DEF FlagInv
  <2> QED
    BY <2>1, <2>2 DEF FlagInv
<1>2. CASE TryPeek
  <2>1. /\ m_peek # m_push /\ getMode = "peek"
        /\ m_peek' = Plus(m_peek, 1)
        /\ main' = "handle"
        /\ ~ flag' /\ flag' \in BOOLEAN
        /\ UNCHANGED <<m_push, m_pop, getMode, owner>>
    BY <1>2 DEF TryPeek, MainRuns, keymapVars
  <2>2. InOrder'
    BY <2>1, PeekCounts DEF FlagInv
  <2> QED
    BY <2>1, <2>2 DEF FlagInv
<1>3. CASE PopUnlocks \/ RemoveUnlocks
  <2>1. /\ \/ main = "popped" /\ main' = "handle"
           \/ main = "removed" /\ main' = "check"
        /\ UNCHANGED <<m_push, m_peek, m_pop, flag, getMode, owner>>
    BY <1>3 DEF PopUnlocks, RemoveUnlocks, MainRuns, queueVars, indexVars,
                keymapVars
  <2>2. InOrder'
    BY <2>1, SameCounts DEF FlagInv
  <2> QED
    BY <2>1, <2>2 DEF FlagInv, Available
<1>4. CASE DryRun
  <2>1. /\ main = "check"
        /\ UNCHANGED <<m_push, m_peek, m_pop, getMode, owner>>
        /\ \/ /\ getMode = "pop" /\ Available
              /\ main' = "dryPopped" /\ UNCHANGED flag
           \/ main' = "wait" /\ flag' = (flag \/ Available)
    BY <1>4 DEF DryRun, MainRuns, queueVars, indexVars, keymapVars
  <2>2. InOrder' /\ (Available' <=> Available)
    BY <2>1, SameCounts DEF FlagInv, Available
  <2>3. CASE main' = "dryPopped" /\ getMode = "pop" /\ Available /\ UNCHANGED flag
    BY <2>1, <2>2, <2>3 DEF FlagInv, Available
  <2>4. CASE main' = "wait" /\ flag' = (flag \/ Available)
    <3>1. flag' <=> Available
      BY <2>4, Zenon DEF FlagInv
    <3>2. flag' \in BOOLEAN
      BY <2>4
    <3> QED
      BY <2>1, <2>2, <2>4, <3>1, <3>2 DEF FlagInv
  <2> QED
    BY <2>1, <2>3, <2>4
<1>5. CASE DryRunUnlocks
  <2>1. /\ main = "dryPopped" /\ main' = "wait"
        /\ flag' /\ flag' \in BOOLEAN
        /\ UNCHANGED <<m_push, m_peek, m_pop, getMode, owner>>
    BY <1>5 DEF DryRunUnlocks, MainRuns, queueVars, indexVars, keymapVars
  <2>2. InOrder' /\ Available'
    BY <2>1, SameCounts DEF FlagInv, Available
  <2> QED
    BY <2>1, <2>2 DEF FlagInv
<1>6. CASE HandleNormal
  <2>1. /\ main = "handle" /\ main' = "check" /\ owner = NoSlot
        /\ UNCHANGED <<m_push, m_peek, m_pop, flag>>
        /\ \/ UNCHANGED <<owner, getMode>>
           \/ owner' = event.slot /\ getMode' = "peek" /\ event.press
    BY <1>6 DEF HandleNormal, MainRuns, StayDeferring, queueVars, indexVars
  <2>2. InOrder'
    BY <2>1, SameCounts DEF FlagInv
  <2>3. event.press => event.slot # NoSlot
    BY Words DEF Ranges, Slots, NoSlot
  <2>4. getMode = "pop" /\ m_peek = m_pop
    BY <2>1 DEF FlagInv
  <2>5. getMode' \in {"pop", "peek"} /\ (getMode' = "peek" <=> owner' # NoSlot)
    BY <2>1, <2>3, <2>4
  <2>6. flag' => Available'
    BY <2>1, <2>4 DEF FlagInv, Available
  <2> QED
    BY <2>1, <2>2, <2>5, <2>6 DEF FlagInv
<1>7. CASE HandleOwner \/ HandleOther \/ HandleQuickRelease
  <2>1. /\ main = "handle"
        /\ StayDeferring \/ StopDefer \/ NestDefer
        /\ RemoveLast \/ (main' = "check" /\ UNCHANGED queueVars)
        /\ UNCHANGED flag
    BY <1>7 DEF HandleOwner, HandleOther, HandleQuickRelease, MainRuns,
                StayDeferring
  <2> QED
    BY <2>1, FlagInvDecide
<1> QED
  BY <1>1, <1>2, <1>3, <1>4, <1>5, <1>6, <1>7 DEF MainStep

LEMMA FlagInvStep ==
  ASSUME Ranges, FlagInv, (\E k \in Slots : Push(k)) => NoWrap, [Next]_vars
  PROVE  FlagInv'
<1>1. ASSUME NEW found \in SUBSET Slots, Scan(found) PROVE FlagInv'
  BY <1>1, FlagInvStutter DEF Scan, queueVars, indexVars, keymapVars
<1>2. CASE DeferTimeout \/ OtherFlag
  <2>1. /\ main = "wait" /\ main' = "check"
        /\ UNCHANGED <<m_push, m_peek, m_pop, flag>>
        /\ \/ UNCHANGED <<owner, getMode>>
           \/ owner # NoSlot /\ owner' = NoSlot /\ getMode' = "pop"
    BY <1>2 DEF DeferTimeout, OtherFlag, MainRuns, StopDefer, NestDefer,
                queueVars, indexVars, keymapVars
  <2>2. InOrder'
    BY <2>1, SameCounts DEF FlagInv
  <2>3. getMode' \in {"pop", "peek"} /\ (getMode' = "peek" <=> owner' # NoSlot)
    BY <2>1 DEF FlagInv
  <2>4. m_peek # m_push => m_pop # m_push
    BY Comparisons DEF FlagInv
  <2>5. flag' => Available'
    BY <2>1, <2>4 DEF FlagInv, Available
  <2> QED
    BY <2>1, <2>2, <2>3, <2>5 DEF FlagInv
<1>3. CASE UNCHANGED vars
  BY <1>3, FlagInvStutter DEF vars, queueVars, indexVars, keymapVars
<1> QED
  BY <1>1, <1>2, <1>3, FlagInvMatrix, FlagInvMain DEF Next

LEMMA FlagInvNext == Ranges /\ FlagInv /\ NoWrap /\ [Next]_vars => FlagInv'
BY FlagInvStep

(* get() returns an event whenever FLAG_KEY_EVENT wakes main_thread, and   *)
(* main_thread does not sleep over an event it could get, in every         *)
(* behavior in which the queue never holds as many events as a size_t can  *)
(* count - also after m_full_lock was released with the queue full.        *)
THEOREM FlagMeansEventWhileCounting ==
  Spec /\ []NoWrap => []FlagMeansEvent
<1>1. FlagInv => FlagMeansEvent
  BY DEF FlagInv, FlagMeansEvent
<1> QED
  BY <1>1, FlagInvInit, FlagInvNext, RangesInvariant, PTL DEF Spec

(* And in every behavior as long as the lock was never so released: then   *)
(* FullLockTight bounds the queue.                                         *)
FlagUnlessSpurious == ~ spurious => FlagInv

LEMMA FlagUnlessSpuriousNext ==
  Ranges /\ LockInv /\ FlagUnlessSpurious /\ [Next]_vars => FlagUnlessSpurious'
<1> SUFFICES ASSUME Ranges, LockInv, FlagUnlessSpurious, [Next]_vars,
                    ~ spurious'
             PROVE  FlagInv'
  BY DEF FlagUnlessSpurious
<1>1. CASE spurious
  <2>1. SystemReset
    BY <1>1 DEF Next, MatrixStep, MainStep, Scan, Push, PushWaits, PushTimeout,
                ScanDone, TryPop, PopUnlocks, TryPeek, DryRun, DryRunUnlocks,
                RemoveUnlocks, HandleNormal, HandleOwner, HandleOther,
                HandleQuickRelease, DeferTimeout, OtherFlag, UnlockFull, vars
  <2> QED
    BY <2>1, FlagInvReset
<1>2. CASE ~ spurious
  <2>1. ASSUME NEW k \in Slots, Push(k) PROVE NoWrap
    <3>1. Count < QUEUE_SIZE /\ Count \in Nat
      BY <1>2, <2>1, CountsAreNumbers DEF LockInv, FullLockTight, Push
    <3> QED
      BY <3>1, SizesAreNumbers DEF NoWrap
  <2> QED
    BY <1>2, <2>1, FlagInvStep DEF FlagUnlessSpurious
<1> QED
  BY <1>1, <1>2

THEOREM FlagUnlessSpuriousInvariant == Spec => [](~ spurious => FlagMeansEvent)
<1>1. FlagUnlessSpurious => (~ spurious => FlagMeansEvent)
  BY DEF FlagUnlessSpurious, FlagInv, FlagMeansEvent
<1>2. Init => FlagUnlessSpurious
  BY FlagInvInit DEF FlagUnlessSpurious
<1> QED
  BY <1>1, <1>2, FlagUnlessSpuriousNext, RangesInvariant, LockInvInit,
     LockInvNext, PTL DEF Spec

-----------------------------------------------------------------------------
(* The places of the buffer.  i % QUEUE_SIZE, for indices that may wrap.   *)

LEMMA Distribute ==
  ASSUME NEW q \in Int, NEW p \in Int, NEW n \in Int
  PROVE  /\ (q - p) * n = q * n - p * n
         /\ (q + p) * n = q * n + p * n
         /\ q * n \in Int /\ p * n \in Int
OBVIOUS

LEMMA Multiples ==
  ASSUME NEW q \in Int, NEW r \in Int, q * QUEUE_SIZE + r = 0,
         - QUEUE_SIZE < r, r < QUEUE_SIZE
  PROVE  q = 0 /\ r = 0
<1>1. CASE q >= 1
  <2>1. q * QUEUE_SIZE >= QUEUE_SIZE
    BY <1>1, SizesAreNumbers
  <2> QED
    BY <2>1, SizesAreNumbers
<1>2. CASE q <= -1
  <2>1. q * QUEUE_SIZE <= - QUEUE_SIZE
    BY <1>2, SizesAreNumbers
  <2> QED
    BY <2>1, SizesAreNumbers
<1>3. CASE q = 0
  BY <1>3, SizesAreNumbers
<1> QED
  BY <1>1, <1>2, <1>3

LEMMA Division ==
  ASSUME NEW i \in Int
  PROVE  \E q \in Int : i = q * QUEUE_SIZE + At(i)
<1>1. i = (i \div QUEUE_SIZE) * QUEUE_SIZE + At(i) /\ i \div QUEUE_SIZE \in Int
  BY SizesAreNumbers DEF At
<1> QED
  BY <1>1

LEMMA Remainder ==
  ASSUME NEW q \in Int, NEW r \in 0 .. QUEUE_SIZE - 1
  PROVE  At(q * QUEUE_SIZE + r) = r
<1> DEFINE i == q * QUEUE_SIZE + r
<1>1. i \in Int
  BY SizesAreNumbers
<1>2. PICK p \in Int : i = p * QUEUE_SIZE + At(i)
  BY <1>1, Division
<1>3. At(i) \in 0 .. QUEUE_SIZE - 1
  BY <1>1, Places
<1> DEFINE a == q - p
           b == r - At(i)
<1>4. a \in Int /\ b \in Int /\ - QUEUE_SIZE < b /\ b < QUEUE_SIZE
  BY <1>3, SizesAreNumbers
<1>5. a * QUEUE_SIZE + b = 0
  BY <1>2, <1>3, Distribute, SizesAreNumbers
<1> HIDE DEF a, b
<1>6. b = 0
  BY <1>4, <1>5, Multiples
<1> QED
  BY <1>3, <1>6 DEF b

(* A size_t that wraps stays at its place: QUEUE_SIZE divides SIZE_T.      *)
LEMMA WrapAt ==
  ASSUME NEW i \in Int
  PROVE  At(i + SIZE_T) = At(i)
<1>1. PICK q \in Int : i = q * QUEUE_SIZE + At(i)
  BY Division
<1>2. PICK p \in Int : SIZE_T = p * QUEUE_SIZE + At(SIZE_T)
  <2>1. SIZE_T \in Int
    BY SizesAreNumbers
  <2> QED
    BY <2>1, Division
<1>3. At(SIZE_T) = 0
  BY KeyEventsAssumption DEF At
<1>4. At(i) \in 0 .. QUEUE_SIZE - 1
  BY Places
<1>5. i + SIZE_T = (q + p) * QUEUE_SIZE + At(i)
  BY <1>1, <1>2, <1>3, <1>4, Distribute, SizesAreNumbers
<1> QED
  BY <1>4, <1>5, Remainder

(* Places closer than QUEUE_SIZE are different...                          *)
LEMMA DistinctAt ==
  ASSUME NEW i \in Int, NEW j \in Int, i # j,
         i - j < QUEUE_SIZE, j - i < QUEUE_SIZE
  PROVE  At(i) # At(j)
<1>1. PICK q \in Int : i = q * QUEUE_SIZE + At(i)
  BY Division
<1>2. PICK p \in Int : j = p * QUEUE_SIZE + At(j)
  BY Division
<1>3. At(i) \in 0 .. QUEUE_SIZE - 1 /\ At(j) \in 0 .. QUEUE_SIZE - 1
  BY Places
<1> SUFFICES ASSUME At(i) = At(j) PROVE FALSE
  OBVIOUS
<1>4. (q - p) * QUEUE_SIZE + (j - i) = 0
  BY <1>1, <1>2, <1>3, Distribute, SizesAreNumbers
<1> QED
  BY <1>4, Multiples, SizesAreNumbers

(* ... and the place before a place is that of the index before.           *)
LEMMA BeforeAt ==
  ASSUME NEW i \in Int
  PROVE  At(At(i) - 1) = At(i - 1)
<1>1. PICK q \in Int : i = q * QUEUE_SIZE + At(i)
  BY Division
<1>2. At(i) \in 0 .. QUEUE_SIZE - 1
  BY Places
<1> DEFINE j == At(i) - 1
<1>3. j \in Int
  BY <1>2
<1>4. PICK p \in Int : j = p * QUEUE_SIZE + At(j)
  BY <1>3, Division
<1>5. At(j) \in 0 .. QUEUE_SIZE - 1
  BY <1>3, Places
<1>6. i - 1 = q * QUEUE_SIZE + j
  BY <1>1, <1>2, SizesAreNumbers
<1> HIDE DEF j
<1>7. i - 1 = (q + p) * QUEUE_SIZE + At(j)
  BY <1>3, <1>4, <1>5, <1>6, Distribute, SizesAreNumbers
<1>8. At(i - 1) = At(j)
  BY <1>5, <1>7, Remainder
<1> QED
  BY <1>8 DEF j

(* Advancing an index moves every place by one; m_push is where Count says. *)
LEMMA AdvanceAt ==
  ASSUME NEW i \in Index, NEW n \in Int
  PROVE  At(Plus(i, 1) + n) = At(i + n + 1)
<1>1. i \in Int /\ SIZE_T \in Int
  BY SizesAreNumbers DEF Index
<1>2. CASE i = SIZE_T - 1
  <2>1. Plus(i, 1) + n = n /\ i + n + 1 = n + SIZE_T
    BY <1>1, <1>2, Advance
  <2> QED
    BY <2>1, WrapAt
<1>3. CASE i # SIZE_T - 1
  <2>1. Plus(i, 1) + n = i + n + 1
    BY <1>1, <1>3, Advance
  <2> QED
    BY <2>1
<1> QED
  BY <1>2, <1>3

LEMMA PushAt ==
  ASSUME InOrder
  PROVE  At(m_push) = At(m_pop + Count)
<1>1. m_push \in Index /\ m_pop \in Index
  BY DEF InOrder, IndexTypes
<1>2. /\ m_push \in Int /\ m_pop \in Int /\ SIZE_T \in Int
      /\ Count = IF m_pop <= m_push THEN m_push - m_pop
                                    ELSE m_push - m_pop + SIZE_T
  BY <1>1, Distance, SizesAreNumbers DEF Count, Index
<1>3. CASE m_pop <= m_push
  BY <1>2, <1>3
<1>4. CASE ~ (m_pop <= m_push)
  <2>1. m_pop + Count = m_push + SIZE_T
    BY <1>2, <1>4
  <2> QED
    BY <1>2, <2>1, WrapAt
<1> QED
  BY <1>3, <1>4

LEMMA PeekAt ==
  ASSUME InOrder
  PROVE  At(m_peek) = At(m_pop + Deferred)
<1>1. m_peek \in Index /\ m_pop \in Index
  BY DEF InOrder, IndexTypes
<1>2. /\ m_peek \in Int /\ m_pop \in Int /\ SIZE_T \in Int
      /\ Deferred = IF m_pop <= m_peek THEN m_peek - m_pop
                                       ELSE m_peek - m_pop + SIZE_T
  BY <1>1, Distance, SizesAreNumbers DEF Deferred, Index
<1>3. CASE m_pop <= m_peek
  BY <1>2, <1>3
<1>4. CASE ~ (m_pop <= m_peek)
  <2>1. m_pop + Deferred = m_peek + SIZE_T
    BY <1>2, <1>4
  <2> QED
    BY <1>2, <2>1, WrapAt
<1> QED
  BY <1>3, <1>4

-----------------------------------------------------------------------------
(* The queue, event by event.                                              *)

(* Numbers of the counts, and the place of event n.                        *)
LEMMA Numbers ==
  ASSUME InOrder
  PROVE  Count \in Nat /\ Deferred \in Nat /\ Deferred <= Count /\ m_pop \in Int
BY Comparisons DEF InOrder, IndexTypes, Index

LEMMA QueuedIsWord ==
  ASSUME Ranges, NEW n \in Int
  PROVE  Queued(n) \in Word
<1>1. m_pop + n - 1 \in Int
  BY DEF Ranges, IndexTypes, Index
<1>2. At(m_pop + n - 1) \in 0 .. QUEUE_SIZE - 1
  BY <1>1, Places
<1> QED
  BY <1>2 DEF Ranges, Queued

(* signal_key_event() adds one at the end and touches no other.            *)
LEMMA PushQueued ==
  ASSUME Ranges, InOrder, Count < QUEUE_SIZE, NEW w,
         m_buffer' = [m_buffer EXCEPT ![At(m_push)] = w],
         UNCHANGED m_pop
  PROVE  /\ \A n \in 1 .. Count : Queued(n)' = Queued(n)
         /\ \A n \in Int : n = Count + 1 => Queued(n)' = w
<1>1. At(m_push) \in 0 .. QUEUE_SIZE - 1
  BY Places DEF Ranges, IndexTypes, Index
<1>2. ASSUME NEW n \in 1 .. Count PROVE Queued(n)' = Queued(n)
  <2>1. /\ m_pop + n - 1 \in Int /\ m_pop + Count \in Int
        /\ m_pop + n - 1 # m_pop + Count
        /\ (m_pop + n - 1) - (m_pop + Count) < QUEUE_SIZE
        /\ (m_pop + Count) - (m_pop + n - 1) < QUEUE_SIZE
    BY Numbers, SizesAreNumbers
  <2>2. At(m_pop + n - 1) # At(m_push)
    BY <2>1, Numbers, DistinctAt, PushAt, SizesAreNumbers
  <2> QED
    BY <2>2 DEF Queued
<1>3. ASSUME NEW n \in Int, n = Count + 1 PROVE Queued(n)' = w
  <2>1. m_pop + n - 1 = m_pop + Count
    BY <1>3, Numbers
  <2>2. Queued(n)' = m_buffer'[At(m_push)]
    BY <2>1, PushAt DEF Queued
  <2> QED
    BY <1>1, <2>2 DEF Ranges
<1> QED
  BY <1>2, <1>3

(* m_pop++ renumbers the events.                                           *)
LEMMA PopQueued ==
  ASSUME Ranges, m_pop' = Plus(m_pop, 1), UNCHANGED m_buffer
  PROVE  \A n \in Int : Queued(n)' = Queued(n + 1)
<1> SUFFICES ASSUME NEW n \in Int PROVE Queued(n)' = Queued(n + 1)
  OBVIOUS
<1>1. m_pop \in Index /\ m_pop \in Int /\ m_pop' \in Int
  BY Advance DEF Ranges, IndexTypes, Index
<1>2. At(m_pop' + (n - 1)) = At(m_pop + (n - 1) + 1)
  BY <1>1, AdvanceAt
<1>3. m_pop' + n - 1 = m_pop' + (n - 1) /\ m_pop + (n + 1) - 1 = m_pop + (n - 1) + 1
  BY <1>1
<1> QED
  BY <1>2, <1>3 DEF Queued

(* defer_remove_last() leaves out the last deferred event.                 *)
LEMMA RemoveQueued ==
  ASSUME Ranges, InOrder, Count <= QUEUE_SIZE, Deferred > 0,
         m_pop' = Plus(m_pop, 1),
         m_buffer' = [i \in DOMAIN m_buffer |->
                        IF \E n \in 2 .. Deferred : i = At(m_pop + n - 1)
                        THEN m_buffer[At(i - 1)] ELSE m_buffer[i]]
  PROVE  \A n \in 1 .. Count - 1 :
           Queued(n)' = IF n < Deferred THEN Queued(n) ELSE Queued(n + 1)
<1> SUFFICES ASSUME NEW n \in 1 .. Count - 1
             PROVE  Queued(n)' = IF n < Deferred THEN Queued(n) ELSE Queued(n + 1)
  OBVIOUS
<1>1. /\ m_pop \in Index /\ m_pop \in Int /\ n \in Int
      /\ Count \in Nat /\ Deferred \in Nat /\ Deferred <= Count
      /\ m_pop' \in Int
  BY Numbers, Advance DEF Ranges, IndexTypes, Index
<1> DEFINE i == At(m_pop + n)
<1>2. i \in 0 .. QUEUE_SIZE - 1
  BY <1>1, Places
<1>3. Queued(n)' = m_buffer'[i]
  <2>1. At(m_pop' + (n - 1)) = At(m_pop + (n - 1) + 1)
    BY <1>1, AdvanceAt
  <2>2. m_pop' + n - 1 = m_pop' + (n - 1) /\ m_pop + n = m_pop + (n - 1) + 1
    BY <1>1
  <2> QED
    BY <2>1, <2>2 DEF Queued
<1>4. CASE n < Deferred
  <2>1. n + 1 \in 2 .. Deferred /\ i = At(m_pop + (n + 1) - 1)
    BY <1>1, <1>4
  <2>2. m_buffer'[i] = m_buffer[At(i - 1)]
    BY <1>2, <2>1 DEF Ranges
  <2>3. At(i - 1) = At(m_pop + n - 1)
    BY <1>1, BeforeAt
  <2> QED
    BY <1>3, <1>4, <2>2, <2>3 DEF Queued
<1>5. CASE ~ (n < Deferred)
  <2>1. ASSUME NEW k \in 2 .. Deferred PROVE i # At(m_pop + k - 1)
    <3>1. /\ m_pop + n \in Int /\ m_pop + k - 1 \in Int
          /\ m_pop + n # m_pop + k - 1
          /\ (m_pop + n) - (m_pop + k - 1) < QUEUE_SIZE
          /\ (m_pop + k - 1) - (m_pop + n) < QUEUE_SIZE
      BY <1>1, <1>5, SizesAreNumbers
    <3> QED
      BY <3>1, DistinctAt
  <2>2. m_buffer'[i] = m_buffer[i]
    BY <1>2, <2>1 DEF Ranges
  <2>3. m_pop + (n + 1) - 1 = m_pop + n
    BY <1>1
  <2> QED
    BY <1>3, <1>5, <2>2, <2>3 DEF Queued
<1> QED
  BY <1>4, <1>5

LEMMA SameQueued ==
  ASSUME UNCHANGED <<m_buffer, m_pop>>
  PROVE  \A n \in Int : Queued(n)' = Queued(n)
BY DEF Queued

-----------------------------------------------------------------------------
(* The queue as a sequence.                                                *)

LEMMA ContentsIsSeq ==
  ASSUME Ranges, InOrder
  PROVE  /\ Contents \in Seq(Word)
         /\ Len(Contents) = Count
         /\ \A n \in 1 .. Count : Contents[n] = Queued(n)
<1>1. Count \in Nat /\ \A n \in 1 .. Count : Queued(n) \in Word
  BY Numbers, QueuedIsWord
<1> QED
  BY <1>1 DEF Contents

LEMMA ContentsIsSeqNext ==
  ASSUME Ranges', InOrder'
  PROVE  /\ Contents' \in Seq(Word)
         /\ Len(Contents') = Count'
         /\ \A n \in 1 .. Count' : Contents'[n] = Queued(n)'
<1>1. Count' \in Nat
  BY ComparisonsNext
<1>2. ASSUME NEW n \in 1 .. Count' PROVE Queued(n)' \in Word
  <2>1. m_pop' + n - 1 \in Int
    BY <1>1 DEF Ranges, IndexTypes, Index
  <2>2. At(m_pop' + n - 1) \in 0 .. QUEUE_SIZE - 1
    BY <2>1, Places
  <2> QED
    BY <2>2 DEF Ranges, Queued
<1> QED
  BY <1>1, <1>2 DEF Contents

LEMMA PushContents ==
  ASSUME Ranges, Ranges', InOrder, Count < QUEUE_SIZE, NEW w \in Word,
         m_buffer' = [m_buffer EXCEPT ![At(m_push)] = w],
         m_push' = Plus(m_push, 1), UNCHANGED <<m_peek, m_pop>>
  PROVE  Contents' = Append(Contents, w)
<1>1. InOrder' /\ Count' = Count + 1 /\ Count \in Nat
  BY PushCounts, Numbers, SizesAreNumbers
<1>2. /\ Append(Contents, w) \in Seq(Word)
      /\ Len(Append(Contents, w)) = Count + 1
      /\ \A n \in 1 .. Count : Append(Contents, w)[n] = Queued(n)
      /\ Append(Contents, w)[Count + 1] = w
  BY ContentsIsSeq, AppendProperties
<1>3. /\ Contents' \in Seq(Word)
      /\ Len(Contents') = Count + 1
      /\ \A n \in 1 .. Count + 1 : Contents'[n] = Queued(n)'
  BY <1>1, ContentsIsSeqNext
<1>4. ASSUME NEW n \in 1 .. Count + 1
      PROVE  Contents'[n] = Append(Contents, w)[n]
  <2>1. /\ \A k \in 1 .. Count : Queued(k)' = Queued(k)
        /\ \A k \in Int : k = Count + 1 => Queued(k)' = w
    BY PushQueued
  <2>2. CASE n = Count + 1
    BY <1>1, <1>2, <1>3, <2>1, <2>2
  <2>3. CASE n \in 1 .. Count
    BY <1>1, <1>2, <1>3, <2>1, <2>3
  <2>4. n = Count + 1 \/ n \in 1 .. Count
    BY <1>1
  <2> QED
    BY <2>2, <2>3, <2>4
<1> QED
  BY <1>1, <1>2, <1>3, <1>4, SeqEqual

LEMMA PopContents ==
  ASSUME Ranges, Ranges', InOrder, m_pop # m_push,
         m_pop' = Plus(m_pop, 1), m_peek' = m_pop', UNCHANGED <<m_buffer, m_push>>
  PROVE  Contents # <<>> /\ Contents' = Tail(Contents)
<1>1. InOrder' /\ Count' = Count - 1 /\ Count \in Nat /\ Count > 0
  BY PopCounts, Comparisons
<1>2. Contents # <<>>
  BY <1>1, ContentsIsSeq
<1>3. /\ Tail(Contents) \in Seq(Word)
      /\ Len(Tail(Contents)) = Count - 1
      /\ \A n \in 1 .. Count - 1 : Tail(Contents)[n] = Queued(n + 1)
  BY <1>1, <1>2, ContentsIsSeq, HeadTailProperties
<1>4. /\ Contents' \in Seq(Word)
      /\ Len(Contents') = Count - 1
      /\ \A n \in 1 .. Count - 1 : Contents'[n] = Queued(n)'
  BY <1>1, ContentsIsSeqNext
<1>5. ASSUME NEW n \in 1 .. Count - 1 PROVE Contents'[n] = Tail(Contents)[n]
  <2>1. Queued(n)' = Queued(n + 1)
    BY PopQueued, <1>1
  <2> QED
    BY <1>1, <1>3, <1>4, <2>1
<1> QED
  BY <1>1, <1>2, <1>3, <1>4, <1>5, SeqEqual

LEMMA RemoveContents ==
  ASSUME Ranges, Ranges', InOrder, Count <= QUEUE_SIZE, RemoveLast,
         m_pop # m_peek
  PROVE  /\ Deferred > 0
         /\ Deferred' = Deferred - 1
         /\ Contents' = SubSeq(Contents, 1, Deferred - 1)
                          \o SubSeq(Contents, Deferred + 1, Count)
<1> DEFINE first == SubSeq(Contents, 1, Deferred - 1)
           rest == SubSeq(Contents, Deferred + 1, Count)
<1>1. /\ m_pop' = Plus(m_pop, 1) /\ UNCHANGED <<m_push, m_peek>>
      /\ m_buffer' = [i \in DOMAIN m_buffer |->
                        IF \E n \in 2 .. Deferred : i = At(m_pop + n - 1)
                        THEN m_buffer[At(i - 1)] ELSE m_buffer[i]]
  BY DEF RemoveLast
<1>2. InOrder' /\ Count' = Count - 1 /\ Deferred' = Deferred - 1
  BY <1>1, RemoveCounts
<1>3. /\ Count \in Nat /\ Deferred \in Nat /\ Deferred > 0 /\ Deferred <= Count
  BY Comparisons DEF InOrder
<1>4. /\ first \in Seq(Word)
      /\ Len(first) = Deferred - 1
      /\ \A n \in 1 .. Deferred - 1 : first[n] = Queued(n)
  <2>1. \A n \in 1 .. Deferred - 1 : Contents[n] \in Word /\ Contents[n] = Queued(n)
    BY <1>3, ContentsIsSeq, QueuedIsWord
  <2> QED
    BY <1>3, <2>1, SubSeqProperties
<1>5. /\ rest \in Seq(Word)
      /\ Len(rest) = Count - Deferred
      /\ \A n \in 1 .. Count - Deferred : rest[n] = Queued(Deferred + n)
  <2>1. \A n \in Deferred + 1 .. Count : Contents[n] \in Word /\ Contents[n] = Queued(n)
    BY <1>3, ContentsIsSeq, QueuedIsWord
  <2> QED
    BY <1>3, <2>1, SubSeqProperties
<1> HIDE DEF first, rest
<1>6. /\ first \o rest \in Seq(Word)
      /\ Len(first \o rest) = Count - 1
      /\ \A n \in 1 .. Count - 1 :
           (first \o rest)[n] = IF n < Deferred THEN Queued(n) ELSE Queued(n + 1)
  <2>1. /\ first \o rest \in Seq(Word)
        /\ Len(first \o rest) = Len(first) + Len(rest)
        /\ \A n \in 1 .. Len(first) + Len(rest) :
             (first \o rest)[n] = IF n <= Len(first) THEN first[n]
                                   ELSE rest[n - Len(first)]
    BY <1>4, <1>5, ConcatProperties
  <2>2. ASSUME NEW n \in 1 .. Count - 1, n < Deferred
        PROVE  (first \o rest)[n] = Queued(n)
    BY <1>3, <1>4, <1>5, <2>1, <2>2
  <2>3. ASSUME NEW n \in 1 .. Count - 1, ~ (n < Deferred)
        PROVE  (first \o rest)[n] = Queued(n + 1)
    <3>1. /\ (first \o rest)[n] = rest[n - (Deferred - 1)]
          /\ n - (Deferred - 1) \in 1 .. Count - Deferred
      BY <1>3, <1>4, <1>5, <2>1, <2>3
    <3>2. Deferred + (n - (Deferred - 1)) = n + 1
      BY <1>3
    <3> QED
      BY <1>5, <3>1, <3>2
  <2> QED
    BY <1>3, <1>4, <1>5, <2>1, <2>2, <2>3
<1>7. /\ Contents' \in Seq(Word)
      /\ Len(Contents') = Count - 1
      /\ \A n \in 1 .. Count - 1 : Contents'[n] = Queued(n)'
  BY <1>2, ContentsIsSeqNext
<1>8. \A n \in 1 .. Count - 1 : Contents'[n] = (first \o rest)[n]
  BY <1>1, <1>3, <1>6, <1>7, RemoveQueued
<1> QED
  BY <1>2, <1>3, <1>6, <1>7, <1>8, SeqEqual DEF first, rest

LEMMA SameContents ==
  ASSUME Ranges, InOrder, UNCHANGED queueVars
  PROVE  Contents' = Contents /\ Deferred' = Deferred /\ Count' = Count
BY DEF queueVars, indexVars, Contents, Queued, Count, Deferred

-----------------------------------------------------------------------------
(* What is queued and what is handled, as long as the queue is whole.      *)

Whole == Ranges /\ LockInv /\ FlagUnlessSpurious

(* Everything queued or being handled was once reported.                   *)
EventsReported ==
  /\ \A n \in 1 .. Count : Queued(n) \in KeyEvent
  /\ main \in {"popped", "handle"} => event \in KeyEvent

(* In defer mode the event being handled is the last deferred one, and of  *)
(* the others deferred none is the deferrer's own.                         *)
LastIsHandled ==
  /\ main = "popped" => getMode = "pop"
  /\ main = "handle" /\ getMode = "peek" =>
       Deferred > 0 /\ \A n \in Int : n = Deferred => Queued(n) = event
  /\ getMode = "peek" =>
       \A n \in 1 .. Deferred :
         Queued(n).slot # owner \/ (main = "handle" /\ n = Deferred)

AsleepIsReleased == matrix = "asleep" => pressing = {} /\ m_pressed = {}

QueueInv ==
  ~ spurious => EventsReported /\ LastIsHandled /\ AsleepIsReleased

(* What Whole says of a queue that is whole.                               *)
LEMMA WholeFacts ==
  ASSUME Whole, ~ spurious
  PROVE  /\ Ranges /\ InOrder /\ FlagInv
         /\ Count \in Nat /\ Deferred \in Nat
         /\ Deferred <= Count /\ Count <= QUEUE_SIZE
         /\ matrix = "granted" \/ ~ fullLocked => Count < QUEUE_SIZE
<1>1. FlagInv /\ InOrder
  BY DEF Whole, FlagUnlessSpurious, FlagInv
<1> QED
  BY <1>1, Numbers DEF Whole, LockInv, FullLockTight

LEMMA WholeInit == Init => Whole
BY RangesInit, LockInvInit, FlagInvInit DEF Whole, FlagUnlessSpurious

LEMMA WholeNext == Whole /\ [Next]_vars => Whole'
BY RangesNext, LockInvNext, FlagUnlessSpuriousNext DEF Whole

(* Only a reset mends the queue.                                           *)
LEMMA StaysSpurious ==
  ASSUME [Next]_vars, spurious, ~ spurious'
  PROVE  SystemReset
BY DEF Next, MatrixStep, MainStep, Scan, Push, PushWaits, PushTimeout, ScanDone,
       TryPop, PopUnlocks, TryPeek, DryRun, DryRunUnlocks, RemoveUnlocks,
       HandleNormal, HandleOwner, HandleOther, HandleQuickRelease, DeferTimeout,
       OtherFlag, UnlockFull, vars

LEMMA QueueInvInit == Init => QueueInv
<1> SUFFICES ASSUME Init PROVE QueueInv
  OBVIOUS
<1>1. IndexTypes
  BY SizesAreNumbers DEF Init, IndexTypes, Index
<1>2. Count = 0 /\ Deferred = 0
  BY <1>1, DistanceZero DEF Init, IndexTypes, Count, Deferred
<1> QED
  BY <1>2 DEF Init, QueueInv, EventsReported, LastIsHandled, AsleepIsReleased

LEMMA QueueInvReset ==
  ASSUME SystemReset
  PROVE  QueueInv'
<1>1. IndexTypes' /\ m_push' = 0 /\ m_peek' = 0 /\ m_pop' = 0
  BY SizesAreNumbers DEF SystemReset, IndexTypes, Index
<1>2. Count' = 0 /\ Deferred' = 0
  BY <1>1, DistanceZero DEF IndexTypes, Count, Deferred
<1>3. main' = "wait" /\ getMode' = "pop" /\ pressing' = {} /\ m_pressed' = {}
  BY DEF SystemReset
<1> QED
  BY <1>2, <1>3 DEF QueueInv, EventsReported, LastIsHandled, AsleepIsReleased

LEMMA QueueInvPush ==
  ASSUME Whole, QueueInv, ~ spurious, NEW k \in Slots, Push(k)
  PROVE  QueueInv'
<1> DEFINE w == [slot |-> k, press |-> k \in pressing]
<1>1. /\ m_buffer' = [m_buffer EXCEPT ![At(m_push)] = w]
      /\ m_push' = Plus(m_push, 1)
      /\ matrix = "granted" \/ ~ fullLocked
      /\ matrix' = "scanning"
      /\ UNCHANGED <<m_peek, m_pop, main, event, getMode, owner>>
  BY DEF Push, keymapVars
<1>2. w \in KeyEvent
  BY DEF KeyEvent
<1> HIDE DEF w
<1>3. Count < QUEUE_SIZE /\ Ranges /\ InOrder /\ Count \in Nat /\ Deferred \in Nat
      /\ Deferred <= Count
  BY <1>1, WholeFacts
<1>4. Count' = Count + 1 /\ Deferred' = Deferred
  BY <1>1, <1>3, PushCounts, SizesAreNumbers
<1>5. /\ \A n \in 1 .. Count : Queued(n)' = Queued(n)
      /\ \A n \in Int : n = Count + 1 => Queued(n)' = w
  BY <1>1, <1>3, PushQueued
<1>6. EventsReported'
  <2>1. \A n \in 1 .. Count' : n \in 1 .. Count \/ n = Count + 1
    BY <1>3, <1>4
  <2>2. \A n \in 1 .. Count' : Queued(n)' \in KeyEvent
    BY <1>2, <1>5, <2>1 DEF QueueInv, EventsReported
  <2> QED
    BY <1>1, <2>2 DEF QueueInv, EventsReported
<1>7. LastIsHandled'
  <2>1. \A n \in 1 .. Deferred : Queued(n)' = Queued(n)
    BY <1>3, <1>5
  <2>2. Deferred > 0 => \A n \in Int : n = Deferred => Queued(n)' = Queued(n)
    BY <1>3, <2>1
  <2> QED
    BY <1>1, <1>4, <2>1, <2>2 DEF QueueInv, LastIsHandled
<1> QED
  BY <1>1, <1>6, <1>7 DEF QueueInv, AsleepIsReleased

LEMMA QueueInvPop ==
  ASSUME Whole, QueueInv, ~ spurious, TryPop
  PROVE  QueueInv'
<1>1. /\ m_pop # m_push /\ getMode = "pop"
      /\ m_pop' = Plus(m_pop, 1) /\ m_peek' = m_pop'
      /\ event' = m_buffer[At(m_pop)]
      /\ main' = "popped"
      /\ UNCHANGED <<m_buffer, m_push, matrix, pressing, m_pressed, getMode,
                     owner>>
  BY DEF TryPop, matrixVars, keymapVars
<1>2. Ranges /\ InOrder /\ Count \in Nat
  BY WholeFacts
<1>3. Count > 0 /\ Count' = Count - 1 /\ Deferred' = 0
  BY <1>1, <1>2, PopCounts, Comparisons
<1>4. \A n \in Int : Queued(n)' = Queued(n + 1)
  BY <1>1, <1>2, PopQueued
<1>5. event' = Queued(1)
  <2>1. m_pop + 1 - 1 = m_pop
    BY <1>2 DEF InOrder, IndexTypes, Index
  <2> QED
    BY <1>1, <2>1 DEF Queued
<1>6. \A n \in 1 .. Count : Queued(n) \in KeyEvent
  BY DEF QueueInv, EventsReported
<1>7. event' \in KeyEvent /\ \A n \in 1 .. Count' : Queued(n)' \in KeyEvent
  BY <1>2, <1>3, <1>4, <1>5, <1>6
<1> QED
  BY <1>1, <1>3, <1>7
     DEF QueueInv, EventsReported, LastIsHandled, AsleepIsReleased

LEMMA QueueInvPeek ==
  ASSUME Whole, QueueInv, ~ spurious, TryPeek
  PROVE  QueueInv'
<1>1. /\ m_peek # m_push /\ getMode = "peek"
      /\ m_peek' = Plus(m_peek, 1)
      /\ event' = m_buffer[At(m_peek)]
      /\ main = "wait" /\ main' = "handle"
      /\ UNCHANGED <<m_buffer, m_push, m_pop, matrix, pressing, m_pressed,
                     getMode, owner>>
  BY DEF TryPeek, MainRuns, matrixVars, keymapVars
<1>2. Ranges /\ InOrder /\ Count \in Nat /\ Deferred \in Nat
  BY WholeFacts
<1>3. Deferred < Count /\ Count' = Count /\ Deferred' = Deferred + 1
  BY <1>1, <1>2, PeekCounts, Comparisons
<1>4. \A n \in Int : Queued(n)' = Queued(n)
  BY <1>1, SameQueued
<1>5. \A n \in Int : n = Deferred' => Queued(n)' = event'
  <2>1. ASSUME NEW n \in Int, n = Deferred' PROVE m_pop + n - 1 = m_pop + Deferred
    BY <1>2, <1>3, <2>1 DEF InOrder, IndexTypes, Index
  <2> QED
    BY <1>1, <1>2, <1>4, <2>1, PeekAt DEF Queued
<1>6. \A n \in 1 .. Count : Queued(n) \in KeyEvent
  BY DEF QueueInv, EventsReported
<1>7. event' \in KeyEvent /\ \A n \in 1 .. Count' : Queued(n)' \in KeyEvent
  <2>1. Deferred' \in 1 .. Count /\ Deferred' \in Int
    BY <1>2, <1>3
  <2>2. \A n \in 1 .. Count' : Queued(n)' \in KeyEvent
    BY <1>2, <1>3, <1>4, <1>6
  <2> QED
    BY <1>3, <1>5, <2>1, <2>2
<1>8. \A n \in 1 .. Deferred : Queued(n).slot # owner
  BY <1>1 DEF QueueInv, LastIsHandled
<1>9. \A n \in 1 .. Deferred' : Queued(n)'.slot # owner \/ n = Deferred'
  BY <1>2, <1>3, <1>4, <1>8
<1> QED
  BY <1>1, <1>2, <1>3, <1>5, <1>7, <1>9
     DEF QueueInv, EventsReported, LastIsHandled, AsleepIsReleased

(* Taking the last deferred event out.                                     *)
LEMMA QueueInvRemove ==
  ASSUME Whole, QueueInv, ~ spurious, RemoveLast, main = "handle",
         getMode = "peek", owner' = owner \/ getMode' = "pop",
         UNCHANGED <<matrix, pressing, m_pressed>>
  PROVE  QueueInv'
<1>1. /\ Ranges /\ InOrder /\ Count \in Nat /\ Deferred \in Nat
      /\ Deferred <= Count /\ Count <= QUEUE_SIZE
  BY WholeFacts
<1>2. Deferred > 0 /\ m_pop # m_peek
  BY <1>1, Comparisons DEF QueueInv, LastIsHandled
<1>3. /\ m_pop' = Plus(m_pop, 1)
      /\ main' = "removed"
      /\ UNCHANGED <<m_push, m_peek>>
      /\ m_buffer' = [i \in DOMAIN m_buffer |->
                        IF \E n \in 2 .. Deferred : i = At(m_pop + n - 1)
                        THEN m_buffer[At(i - 1)] ELSE m_buffer[i]]
  BY <1>2 DEF RemoveLast
<1>4. Count' = Count - 1 /\ Deferred' = Deferred - 1
  BY <1>1, <1>2, <1>3, RemoveCounts
<1>5. \A n \in 1 .. Count - 1 :
        Queued(n)' = IF n < Deferred THEN Queued(n) ELSE Queued(n + 1)
  BY <1>1, <1>2, <1>3, RemoveQueued
<1>6. \A n \in 1 .. Count : Queued(n) \in KeyEvent
  BY DEF QueueInv, EventsReported
<1>7. \A n \in 1 .. Count' : Queued(n)' \in KeyEvent
  BY <1>1, <1>4, <1>5, <1>6
<1>8. ASSUME NEW n \in 1 .. Deferred', getMode' = "peek"
      PROVE  Queued(n)'.slot # owner'
  <2>1. n \in 1 .. Count - 1 /\ n \in 1 .. Deferred /\ n < Deferred
    BY <1>1, <1>4
  <2>2. Queued(n).slot # owner
    BY <2>1 DEF QueueInv, LastIsHandled
  <2> QED
    BY <1>5, <1>8, <2>1, <2>2
<1> QED
  BY <1>3, <1>7, <1>8
     DEF QueueInv, EventsReported, LastIsHandled, AsleepIsReleased

(* The rest leaves the queue as it is.                                     *)
LEMMA QueueInvSame ==
  ASSUME Whole, QueueInv, ~ spurious,
         UNCHANGED queueVars,
         main' \in {"popped", "handle"} => UNCHANGED event /\ main \in {"popped", "handle"},
         main' = "popped" => main = "popped" /\ UNCHANGED getMode,
         main' = "handle" => \/ main = "handle" /\ UNCHANGED getMode
                             \/ getMode' = "pop",
         getMode' = "peek" =>
           \A n \in 1 .. Deferred :
             Queued(n).slot # owner' \/ (main' = "handle" /\ n = Deferred),
         matrix' = "asleep" => pressing' = {} /\ m_pressed' = {}
  PROVE  QueueInv'
<1>1. Count' = Count /\ Deferred' = Deferred /\ \A n \in Int : Queued(n)' = Queued(n)
  BY SameQueued DEF queueVars, indexVars, Count, Deferred
<1>2. Count \in Nat /\ Deferred \in Nat
  BY WholeFacts
<1>3. EventsReported'
  BY <1>1, <1>2 DEF QueueInv, EventsReported
<1>4. LastIsHandled'
  BY <1>1, <1>2 DEF QueueInv, LastIsHandled
<1>5. AsleepIsReleased'
  BY DEF AsleepIsReleased
<1> QED
  BY <1>3, <1>4, <1>5 DEF QueueInv

(* Defer mode, as seen by the thread that handles an event.                *)
LEMMA HandlesInDeferMode ==
  ASSUME Whole, QueueInv, ~ spurious, main = "handle",
         owner = event.slot \/ owner # NoSlot
  PROVE  /\ event \in KeyEvent /\ event.slot # NoSlot
         /\ owner # NoSlot
         /\ getMode = "peek"
         /\ Deferred \in 1 .. Count
         /\ m_pop # m_peek
         /\ \A n \in Int : n = Deferred => Queued(n) = event
<1>1. event \in KeyEvent
  BY DEF QueueInv, EventsReported
<1>2. event.slot # NoSlot
  BY <1>1 DEF KeyEvent, Slots, NoSlot
<1>3. FlagInv /\ InOrder /\ Count \in Nat /\ Deferred \in Nat /\ Deferred <= Count
  BY WholeFacts
<1>4. getMode = "peek"
  BY <1>2, <1>3 DEF FlagInv
<1>5. Deferred > 0 /\ \A n \in Int : n = Deferred => Queued(n) = event
  BY <1>4 DEF QueueInv, LastIsHandled
<1> QED
  BY <1>1, <1>2, <1>3, <1>4, <1>5, Comparisons

LEMMA QueueInvMain ==
  ASSUME Whole, QueueInv, ~ spurious, MainStep
  PROVE  QueueInv'
<1>0. getMode = "peek" => \A n \in 1 .. Deferred :
        Queued(n).slot # owner \/ (main = "handle" /\ n = Deferred)
  BY DEF QueueInv, LastIsHandled
<1>1. CASE PopUnlocks \/ RemoveUnlocks \/ DryRunUnlocks
  <2>1. /\ UNCHANGED queueVars
        /\ \/ main = "popped" /\ main' = "handle"
           \/ main = "removed" /\ main' = "check"
           \/ main = "dryPopped" /\ main' = "wait"
        /\ UNCHANGED <<event, getMode, owner, pressing, m_pressed>>
        /\ matrix' = matrix \/ matrix' = "granted"
    BY <1>1 DEF PopUnlocks, RemoveUnlocks, DryRunUnlocks, MainRuns, UnlockFull,
                keymapVars, matrixVars
  <2>2. main = "popped" => getMode = "pop"
    BY DEF QueueInv, LastIsHandled
  <2>3. matrix' = "asleep" => pressing' = {} /\ m_pressed' = {}
    BY <2>1 DEF QueueInv, AsleepIsReleased
  <2>4. getMode' = "peek" => \A n \in 1 .. Deferred : Queued(n).slot # owner'
    BY <1>0, <2>1, <2>2
  <2> QED
    BY <2>1, <2>2, <2>3, <2>4, QueueInvSame
<1>2. CASE DryRun
  <2>1. /\ UNCHANGED queueVars
        /\ main = "check" /\ main' \in {"dryPopped", "wait"}
        /\ UNCHANGED <<event, getMode, owner, pressing, m_pressed, matrix>>
    BY <1>2 DEF DryRun, MainRuns, keymapVars, matrixVars
  <2>2. matrix' = "asleep" => pressing' = {} /\ m_pressed' = {}
    BY <2>1 DEF QueueInv, AsleepIsReleased
  <2>3. getMode' = "peek" => \A n \in 1 .. Deferred : Queued(n).slot # owner'
    BY <1>0, <2>1
  <2> QED
    BY <2>1, <2>2, <2>3, QueueInvSame
<1>3. CASE HandleNormal
  <2>1. /\ UNCHANGED queueVars
        /\ main = "handle" /\ owner = NoSlot /\ main' = "check"
        /\ UNCHANGED <<event, pressing, m_pressed, matrix>>
    BY <1>3 DEF HandleNormal, MainRuns, matrixVars
  <2>2. matrix' = "asleep" => pressing' = {} /\ m_pressed' = {}
    BY <2>1 DEF QueueInv, AsleepIsReleased
  <2>3. FlagInv /\ InOrder /\ Deferred \in Nat
    BY WholeFacts
  <2>4. Deferred = 0
    BY <2>1, <2>3, Comparisons DEF FlagInv
  <2>5. \A n \in 1 .. Deferred : FALSE
    BY <2>4
  <2> QED
    BY <2>1, <2>2, <2>5, QueueInvSame
<1>4. CASE HandleOwner \/ HandleQuickRelease
  <2>1. /\ RemoveLast /\ main = "handle"
        /\ owner = event.slot \/ owner # NoSlot
        /\ owner' = owner \/ getMode' = "pop"
        /\ UNCHANGED <<matrix, pressing, m_pressed>>
    BY <1>4 DEF HandleOwner, HandleQuickRelease, MainRuns, StayDeferring,
                StopDefer, NestDefer, matrixVars
  <2> QED
    BY <2>1, HandlesInDeferMode, QueueInvRemove
<1>5. CASE HandleOther
  <2>1. /\ UNCHANGED queueVars
        /\ main = "handle" /\ owner \notin {NoSlot, event.slot}
        /\ main' = "check"
        /\ UNCHANGED <<event, pressing, m_pressed, matrix>>
        /\ owner' = owner \/ getMode' = "pop"
    BY <1>5 DEF HandleOther, MainRuns, matrixVars, StayDeferring, StopDefer,
                NestDefer
  <2>2. matrix' = "asleep" => pressing' = {} /\ m_pressed' = {}
    BY <2>1 DEF QueueInv, AsleepIsReleased
  <2>3. getMode = "peek" /\ \A n \in Int : n = Deferred => Queued(n) = event
    BY <2>1, HandlesInDeferMode
  <2>4. getMode' = "peek" => \A n \in 1 .. Deferred : Queued(n).slot # owner'
    BY <1>0, <2>1, <2>3
  <2> QED
    BY <2>1, <2>2, <2>4, QueueInvSame
<1> QED
  BY <1>1, <1>2, <1>3, <1>4, <1>5, QueueInvPop, QueueInvPeek DEF MainStep

LEMMA QueueInvNext == Whole /\ QueueInv /\ [Next]_vars => QueueInv'
<1> SUFFICES ASSUME Whole, QueueInv, [Next]_vars, ~ spurious' PROVE QueueInv'
  BY DEF QueueInv
<1>1. CASE spurious
  BY <1>1, StaysSpurious, QueueInvReset
<1>2. CASE ~ spurious
  <2>0. getMode = "peek" => \A n \in 1 .. Deferred :
          Queued(n).slot # owner \/ (main = "handle" /\ n = Deferred)
    BY <1>2 DEF QueueInv, LastIsHandled
  <2>1. ASSUME NEW k \in Slots, Push(k) PROVE QueueInv'
    BY <1>2, <2>1, QueueInvPush
  <2>2. CASE PushWaits \/ PushTimeout \/ ScanDone
             \/ (\E found \in SUBSET Slots : Scan(found)) \/ UNCHANGED vars
    <3>1. /\ UNCHANGED <<queueVars, main, event, getMode, owner>>
          /\ matrix' = "asleep" => \/ pressing' = {} /\ m_pressed' = {}
                                   \/ UNCHANGED <<matrix, pressing, m_pressed>>
      BY <2>2 DEF PushWaits, PushTimeout, ScanDone, Scan, vars, keymapVars,
                  matrixVars
    <3>2. matrix' = "asleep" => pressing' = {} /\ m_pressed' = {}
      BY <1>2, <3>1 DEF QueueInv, AsleepIsReleased
    <3>3. getMode' = "peek" => \A n \in 1 .. Deferred :
            Queued(n).slot # owner' \/ (main' = "handle" /\ n = Deferred)
      BY <2>0, <3>1
    <3> QED
      BY <1>2, <3>1, <3>2, <3>3, QueueInvSame
  <2>3. CASE SystemReset
    BY <2>3, QueueInvReset
  <2>4. CASE MainStep
    BY <1>2, <2>4, QueueInvMain
  <2>5. CASE DeferTimeout \/ OtherFlag
    <3>1. /\ UNCHANGED <<queueVars, event, matrix, pressing, m_pressed>>
          /\ main = "wait" /\ main' = "check"
          /\ (getMode' = getMode /\ owner' = owner) \/ getMode' = "pop"
      BY <2>5 DEF DeferTimeout, OtherFlag, MainRuns, StopDefer, NestDefer,
                  keymapVars, matrixVars
    <3>2. matrix' = "asleep" => pressing' = {} /\ m_pressed' = {}
      BY <1>2, <3>1 DEF QueueInv, AsleepIsReleased
    <3>3. getMode' = "peek" => \A n \in 1 .. Deferred : Queued(n).slot # owner'
      BY <2>0, <3>1
    <3> QED
      BY <1>2, <3>1, <3>2, <3>3, QueueInvSame
  <2> QED
    BY <2>1, <2>2, <2>3, <2>4, <2>5 DEF Next, MatrixStep
<1> QED
  BY <1>1, <1>2

(* Every variable has its type, and what main_thread handles was reported: *)
(* try_pop() and try_peek() never hand out a slot of the buffer that no    *)
(* push has filled, unless m_full_lock was released with the queue full.   *)
THEOREM TypeInvariant == Spec => []TypeOK
<1>1. Ranges /\ QueueInv => TypeOK
  BY DEF Ranges, QueueInv, EventsReported, TypeOK, IndexTypes, Index, Word
<1>2. Whole => Ranges
  BY DEF Whole
<1> QED
  BY <1>1, <1>2, WholeInit, WholeNext, QueueInvInit, QueueInvNext, PTL DEF Spec

-----------------------------------------------------------------------------
(* The refinement of KeyQueue, operation by operation.                     *)

(* What an action does to the queue, as long as it stays whole.            *)
LEMMA QueueActions ==
  ASSUME [Next]_vars, Whole, QueueInv, ~ spurious, ~ spurious'
  PROVE  \/ \E k \in Slots : Push(k)
         \/ TryPop
         \/ TryPeek
         \/ RemoveLast /\ m_pop # m_peek
         \/ SystemReset
         \/ UNCHANGED queueVars
<1>1. CASE HandleOwner \/ HandleQuickRelease
  <2>1. RemoveLast /\ main = "handle" /\ (owner = event.slot \/ owner # NoSlot)
    BY <1>1 DEF HandleOwner, HandleQuickRelease, MainRuns
  <2> QED
    BY <2>1, HandlesInDeferMode
<1>2. CASE ~ (HandleOwner \/ HandleQuickRelease)
  BY <1>2 DEF Next, MatrixStep, MainStep, Scan, PushWaits, PushTimeout,
              ScanDone, PopUnlocks, DryRun, DryRunUnlocks, RemoveUnlocks,
              HandleNormal, HandleOther, DeferTimeout, OtherFlag, vars
<1> QED
  BY <1>1, <1>2

LEMMA PushRefines ==
  ASSUME Whole, Whole', ~ spurious, ~ spurious', NEW k \in Slots, Push(k)
  PROVE  Queue!Next
<1> DEFINE w == [slot |-> k, press |-> k \in pressing]
<1>1. /\ m_buffer' = [m_buffer EXCEPT ![At(m_push)] = w]
      /\ m_push' = Plus(m_push, 1)
      /\ matrix = "granted" \/ ~ fullLocked
      /\ UNCHANGED <<m_peek, m_pop>>
  BY DEF Push
<1>2. w \in KeyEvent /\ w \in Word
  BY DEF KeyEvent, Word
<1> HIDE DEF w
<1>3. Count < QUEUE_SIZE /\ Ranges /\ InOrder
  BY <1>1, WholeFacts
<1>4. Ranges'
  BY DEF Whole
<1>5. Contents' = Append(Contents, w) /\ Len(Contents) < QUEUE_SIZE
  BY <1>1, <1>2, <1>3, <1>4, PushContents, ContentsIsSeq
<1>6. Deferred' = Deferred
  BY <1>1 DEF Deferred
<1>7. Queue!Push(w)
  BY <1>5, <1>6 DEF Queue!Push
<1> QED
  BY <1>2, <1>7 DEF Queue!Next

LEMMA PopRefines ==
  ASSUME Whole, Whole', ~ spurious, ~ spurious', TryPop
  PROVE  Queue!Next
<1>1. /\ m_pop # m_push
      /\ m_pop' = Plus(m_pop, 1) /\ m_peek' = m_pop'
      /\ UNCHANGED <<m_buffer, m_push>>
  BY DEF TryPop
<1>2. Ranges /\ InOrder /\ Ranges'
  BY WholeFacts DEF Whole
<1>3. Contents # <<>> /\ Contents' = Tail(Contents) /\ Deferred' = 0
  BY <1>1, <1>2, PopContents, PopCounts
<1>4. Queue!Pop
  BY <1>3 DEF Queue!Pop
<1> QED
  BY <1>4 DEF Queue!Next

LEMMA PeekRefines ==
  ASSUME Whole, Whole', ~ spurious, ~ spurious', TryPeek
  PROVE  Queue!Next
<1>1. /\ m_peek # m_push
      /\ m_peek' = Plus(m_peek, 1)
      /\ UNCHANGED <<m_buffer, m_push, m_pop>>
  BY DEF TryPeek
<1>2. Ranges /\ InOrder
  BY WholeFacts
<1>3. Deferred < Len(Contents) /\ Deferred' = Deferred + 1
  BY <1>1, <1>2, PeekCounts, Comparisons, ContentsIsSeq
<1>4. Contents' = Contents
  BY <1>1 DEF Contents, Queued, Count
<1>5. Queue!Peek
  BY <1>3, <1>4 DEF Queue!Peek
<1> QED
  BY <1>5 DEF Queue!Next

LEMMA RemoveRefines ==
  ASSUME Whole, Whole', ~ spurious, ~ spurious', RemoveLast, m_pop # m_peek
  PROVE  Queue!Next
<1>1. Ranges /\ InOrder /\ Ranges' /\ Count <= QUEUE_SIZE
  BY WholeFacts DEF Whole
<1>2. /\ Deferred > 0
      /\ Deferred' = Deferred - 1
      /\ Contents' = SubSeq(Contents, 1, Deferred - 1)
                       \o SubSeq(Contents, Deferred + 1, Count)
  BY <1>1, RemoveContents
<1>3. Len(Contents) = Count
  BY <1>1, ContentsIsSeq
<1>4. Queue!RemoveLast
  BY <1>2, <1>3 DEF Queue!RemoveLast
<1> QED
  BY <1>4 DEF Queue!Next

LEMMA ResetRefines ==
  ASSUME SystemReset
  PROVE  Queue!Next
<1>1. IndexTypes' /\ m_push' = 0 /\ m_peek' = 0 /\ m_pop' = 0 /\ ~ spurious'
  BY SizesAreNumbers DEF SystemReset, IndexTypes, Index
<1>2. Count' = 0 /\ Deferred' = 0
  BY <1>1, DistanceZero DEF IndexTypes, Count, Deferred
<1>3. Contents' = <<>>
  BY <1>2 DEF Contents
<1>4. Queue!Reset
  BY <1>1, <1>2, <1>3 DEF Queue!Reset
<1> QED
  BY <1>4 DEF Queue!Next

(* The queue is given away when full by a release of m_full_lock only.     *)
LEMMA BreakRefines ==
  ASSUME Whole, [Next]_vars, ~ spurious, spurious'
  PROVE  Queue!Next
<1>1. Count = QUEUE_SIZE
  BY DEF Next, MatrixStep, MainStep, Scan, Push, PushWaits, PushTimeout,
         SystemReset, ScanDone, TryPop, PopUnlocks, TryPeek, DryRun,
         DryRunUnlocks, RemoveUnlocks, HandleNormal, HandleOwner, HandleOther,
         HandleQuickRelease, DeferTimeout, OtherFlag, UnlockFull, vars
<1>2. Len(Contents) = QUEUE_SIZE
  BY <1>1, WholeFacts, ContentsIsSeq
<1>3. Queue!Break
  BY <1>2 DEF Queue!Break
<1> QED
  BY <1>3 DEF Queue!Next

LEMMA StepRefines ==
  ASSUME Whole, Whole', QueueInv, [Next]_vars
  PROVE  [Queue!Next]_(Queue!vars)
<1>1. CASE spurious /\ spurious'
  BY <1>1 DEF Queue!Next
<1>2. CASE spurious /\ ~ spurious'
  BY <1>2, StaysSpurious, ResetRefines
<1>3. CASE ~ spurious /\ spurious'
  BY <1>3, BreakRefines
<1>4. CASE ~ spurious /\ ~ spurious'
  <2>1. CASE UNCHANGED queueVars
    <3>1. Contents' = Contents /\ Deferred' = Deferred
      BY <1>4, <2>1, WholeFacts, SameContents
    <3>2. spurious' = spurious
      BY <1>4 DEF Whole, LockInv
    <3> QED
      BY <1>4, <3>1, <3>2 DEF Queue!vars
  <2> QED
    BY <1>4, <2>1, QueueActions, PushRefines, PopRefines, PeekRefines,
       RemoveRefines, ResetRefines
<1> QED
  BY <1>1, <1>2, <1>3, <1>4

(* The ring buffer with its three indices, on a size_t that wraps, is a    *)
(* bounded queue with a cursor until m_full_lock is released with the      *)
(* queue full: no event is lost, repeated, or taken out of turn but the    *)
(* one peeked last.                                                        *)
THEOREM Refinement == Spec => ImplementsQueue
<1>1. Init => Queue!Init
  <2> SUFFICES ASSUME Init PROVE Queue!Init
    OBVIOUS
  <2>1. IndexTypes /\ ~ spurious /\ spurious = FALSE
    BY SizesAreNumbers DEF Init, IndexTypes, Index
  <2>2. Count = 0 /\ Deferred = 0
    BY <2>1, DistanceZero DEF Init, IndexTypes, Count, Deferred
  <2>3. Contents = <<>>
    BY <2>2 DEF Contents
  <2> QED
    BY <2>1, <2>2, <2>3 DEF Queue!Init
<1>2. Whole /\ Whole' /\ QueueInv /\ [Next]_vars => [Queue!Next]_(Queue!vars)
  BY StepRefines
<1> QED
  BY <1>1, <1>2, WholeInit, WholeNext, QueueInvInit, QueueInvNext, PTL
     DEF Spec, ImplementsQueue, Queue!Spec

-----------------------------------------------------------------------------
(* Alternation, of any sequence between two states of a key: before it the *)
(* key is down (d), after it the key was reported down (r).                *)

Tale(es, d, r, k) ==
  <<[slot |-> k, press |-> d]>> \o es \o <<[slot |-> k, press |-> ~ r]>>

(* The same without the two ends.                                          *)
Turns(es, d, r, k) ==
  /\ \A i, j \in 1 .. Len(es) :
       /\ i < j /\ es[i].slot = k /\ es[j].slot = k
       /\ \A n \in i + 1 .. j - 1 : es[n].slot # k
       => es[i].press = ~ es[j].press
  /\ \A j \in 1 .. Len(es) :
       /\ es[j].slot = k
       /\ \A n \in 1 .. j - 1 : es[n].slot # k
       => es[j].press = ~ d
  /\ \A i \in 1 .. Len(es) :
       /\ es[i].slot = k
       /\ \A n \in i + 1 .. Len(es) : es[n].slot # k
       => es[i].press = r
  /\ (\A n \in 1 .. Len(es) : es[n].slot # k) => d = r

LEMMA TaleIsSeq ==
  ASSUME NEW es \in Seq(Word), NEW d \in BOOLEAN, NEW r \in BOOLEAN,
         NEW k \in Slots
  PROVE  /\ Len(es) \in Nat
         /\ DOMAIN Tale(es, d, r, k) = 1 .. Len(es) + 2
         /\ Tale(es, d, r, k)[1] = [slot |-> k, press |-> d]
         /\ \A n \in 1 .. Len(es) : Tale(es, d, r, k)[n + 1] = es[n]
         /\ Tale(es, d, r, k)[Len(es) + 2] = [slot |-> k, press |-> ~ r]
<1> DEFINE s1 == <<[slot |-> k, press |-> d]>>
           s3 == <<[slot |-> k, press |-> ~ r]>>
<1>1. [slot |-> k, press |-> d] \in Word /\ [slot |-> k, press |-> ~ r] \in Word
  BY DEF Word, KeyEvent
<1>2. /\ s1 \in Seq(Word) /\ Len(s1) = 1 /\ s1[1] = [slot |-> k, press |-> d]
      /\ s3 \in Seq(Word) /\ Len(s3) = 1 /\ s3[1] = [slot |-> k, press |-> ~ r]
  BY <1>1
<1> HIDE DEF s1, s3
<1>3. Len(es) \in Nat
  BY LenProperties
<1>4. /\ s1 \o es \in Seq(Word)
      /\ Len(s1 \o es) = Len(es) + 1
      /\ (s1 \o es)[1] = s1[1]
      /\ \A n \in 1 .. Len(es) : (s1 \o es)[n + 1] = es[n]
  <2>1. /\ s1 \o es \in Seq(Word)
        /\ Len(s1 \o es) = 1 + Len(es)
        /\ \A i \in 1 .. 1 + Len(es) :
             (s1 \o es)[i] = IF i <= 1 THEN s1[i] ELSE es[i - 1]
    <3>1. /\ s1 \o es \in Seq(Word)
          /\ Len(s1 \o es) = Len(s1) + Len(es)
          /\ \A i \in 1 .. Len(s1) + Len(es) :
               (s1 \o es)[i] = IF i <= Len(s1) THEN s1[i] ELSE es[i - Len(s1)]
      BY <1>2, ConcatProperties
    <3>2. Len(s1) = 1
      BY <1>2
    <3> QED
      BY <3>1, <3>2
  <2>2. ASSUME NEW n \in 1 .. Len(es) PROVE (s1 \o es)[n + 1] = es[n]
    <3>1. n + 1 \in 1 .. 1 + Len(es) /\ ~ (n + 1 <= 1) /\ (n + 1) - 1 = n
      BY <1>3
    <3> QED
      BY <2>1, <3>1
  <2> QED
    BY <1>3, <2>1, <2>2
<1> DEFINE t == s1 \o es
<1> HIDE DEF t
<1>5. /\ t \o s3 \in Seq(Word)
      /\ Len(t \o s3) = Len(es) + 2
      /\ (t \o s3)[1] = s1[1]
      /\ \A n \in 1 .. Len(es) : (t \o s3)[n + 1] = es[n]
      /\ (t \o s3)[Len(es) + 2] = s3[1]
  <2>0. t \in Seq(Word) /\ Len(t) = Len(es) + 1 /\ t[1] = s1[1]
        /\ \A n \in 1 .. Len(es) : t[n + 1] = es[n]
    BY <1>4 DEF t
  <2>1. /\ t \o s3 \in Seq(Word)
        /\ Len(t \o s3) = Len(es) + 2
        /\ \A i \in 1 .. Len(es) + 2 :
             (t \o s3)[i] = IF i <= Len(es) + 1 THEN t[i] ELSE s3[i - (Len(es) + 1)]
    <3>1. /\ t \o s3 \in Seq(Word)
          /\ Len(t \o s3) = Len(t) + Len(s3)
          /\ \A i \in 1 .. Len(t) + Len(s3) :
               (t \o s3)[i] = IF i <= Len(t) THEN t[i] ELSE s3[i - Len(t)]
      BY <1>2, <2>0, ConcatProperties
    <3>2. Len(t) = Len(es) + 1 /\ Len(t) + Len(s3) = Len(es) + 2
      BY <1>2, <1>3, <2>0
    <3> QED
      BY <3>1, <3>2
  <2>2. ASSUME NEW n \in 1 .. Len(es) PROVE (t \o s3)[n + 1] = es[n]
    <3>1. n + 1 \in 1 .. Len(es) + 2 /\ n + 1 <= Len(es) + 1
      BY <1>3
    <3> QED
      BY <2>0, <2>1, <3>1
  <2>3. (Len(es) + 2) - (Len(es) + 1) = 1 /\ Len(es) + 2 \in 1 .. Len(es) + 2
        /\ ~ (Len(es) + 2 <= Len(es) + 1) /\ 1 \in 1 .. Len(es) + 2
        /\ 1 <= Len(es) + 1
    BY <1>3
  <2> QED
    BY <2>0, <2>1, <2>2, <2>3
<1>6. Tale(es, d, r, k) = t \o s3
  BY DEF Tale, t, s1, s3
<1> QED
  BY <1>2, <1>3, <1>5, <1>6, LenProperties

LEMMA TurnsAlternate ==
  ASSUME NEW es \in Seq(Word), NEW d \in BOOLEAN, NEW r \in BOOLEAN,
         NEW k \in Slots, Turns(es, d, r, k)
  PROVE  Alternates(Tale(es, d, r, k), k)
<1> DEFINE t == Tale(es, d, r, k)
           N == Len(es)
<1>1. /\ N \in Nat /\ DOMAIN t = 1 .. N + 2
      /\ t[1].slot = k /\ t[1].press = d
      /\ \A n \in 1 .. N : t[n + 1] = es[n]
      /\ t[N + 2].slot = k /\ t[N + 2].press = ~ r
  <2>1. /\ N \in Nat /\ DOMAIN t = 1 .. N + 2
        /\ t[1] = [slot |-> k, press |-> d]
        /\ \A n \in 1 .. N : t[n + 1] = es[n]
        /\ t[N + 2] = [slot |-> k, press |-> ~ r]
    BY TaleIsSeq
  <2> QED
    BY <2>1
<1>2. /\ \A i, j \in 1 .. N :
           /\ i < j /\ es[i].slot = k /\ es[j].slot = k
           /\ \A n \in i + 1 .. j - 1 : es[n].slot # k
           => es[i].press = ~ es[j].press
      /\ \A j \in 1 .. N :
           /\ es[j].slot = k
           /\ \A n \in 1 .. j - 1 : es[n].slot # k
           => es[j].press = ~ d
      /\ \A i \in 1 .. N :
           /\ es[i].slot = k
           /\ \A n \in i + 1 .. N : es[n].slot # k
           => es[i].press = r
      /\ (\A n \in 1 .. N : es[n].slot # k) => d = r
  BY DEF Turns
<1> HIDE DEF t, N
<1>3. SUFFICES ASSUME NEW i \in DOMAIN t, NEW j \in DOMAIN t, i < j,
                      t[i].slot = k, t[j].slot = k,
                      \A n \in i + 1 .. j - 1 : t[n].slot # k
               PROVE  t[i].press = ~ t[j].press
  BY DEF Alternates, t
<1>4. i \in 1 .. N + 2 /\ j \in 1 .. N + 2 /\ N \in Nat
  BY <1>1
<1>5. \A n \in i .. j - 2 : n > i - 1 => es[n].slot # k
  <2> SUFFICES ASSUME NEW n \in i .. j - 2 PROVE es[n].slot # k
    OBVIOUS
  <2>1. n \in 1 .. N /\ n + 1 \in i + 1 .. j - 1
    BY <1>4
  <2> QED
    BY <1>1, <1>3, <2>1
<1>6. CASE i = 1 /\ j = N + 2
  <2>1. \A n \in 1 .. N : es[n].slot # k
    BY <1>4, <1>5, <1>6
  <2>2. d = r
    BY <1>2, <2>1
  <2> QED
    BY <1>1, <1>6, <2>2
<1>7. CASE i = 1 /\ j # N + 2
  <2>1. j - 1 \in 1 .. N /\ (j - 1) + 1 = j
    BY <1>3, <1>4, <1>7
  <2>2. t[j] = es[j - 1]
    BY <1>1, <2>1
  <2>3. \A n \in 1 .. (j - 1) - 1 : es[n].slot # k
    BY <1>4, <1>5, <1>7
  <2>4. es[j - 1].press = ~ d
    BY <1>2, <1>3, <2>1, <2>2, <2>3
  <2> QED
    BY <1>1, <1>7, <2>2, <2>4
<1>8. CASE i # 1 /\ j = N + 2
  <2>1. i - 1 \in 1 .. N /\ (i - 1) + 1 = i
    BY <1>3, <1>4, <1>8
  <2>2. t[i] = es[i - 1]
    BY <1>1, <2>1
  <2>3. \A n \in (i - 1) + 1 .. N : es[n].slot # k
    BY <1>4, <1>5, <1>8
  <2>4. es[i - 1].press = r
    BY <1>2, <1>3, <2>1, <2>2, <2>3
  <2> QED
    BY <1>1, <1>8, <2>2, <2>4
<1>9. CASE i # 1 /\ j # N + 2
  <2>1. i - 1 \in 1 .. N /\ (i - 1) + 1 = i /\ j - 1 \in 1 .. N /\ (j - 1) + 1 = j
        /\ i - 1 < j - 1
    BY <1>3, <1>4, <1>9
  <2>2. t[i] = es[i - 1] /\ t[j] = es[j - 1]
    BY <1>1, <2>1
  <2>3. \A n \in (i - 1) + 1 .. (j - 1) - 1 : es[n].slot # k
    BY <1>4, <1>5
  <2>4. es[i - 1].press = ~ es[j - 1].press
    BY <1>2, <1>3, <2>1, <2>2, <2>3
  <2> QED
    BY <2>2, <2>4
<1> QED
  BY <1>6, <1>7, <1>8, <1>9

(* One more report at the end: it is of the other kind than the last.      *)
LEMMA TurnsAppend ==
  ASSUME NEW es \in Seq(Word), NEW d \in BOOLEAN, NEW r \in BOOLEAN,
         NEW k \in Slots, Turns(es, d, r, k),
         NEW e \in KeyEvent, e.slot = k => e.press = ~ r
  PROVE  Turns(Append(es, e), d, IF e.slot = k THEN e.press ELSE r, k)
<1> DEFINE fs == Append(es, e)
           N == Len(es)
<1>1. /\ N \in Nat /\ Len(fs) = N + 1
      /\ \A n \in 1 .. N : fs[n] = es[n]
      /\ fs[N + 1] = e
  BY AppendProperties, LenProperties DEF Word
<1>2. e.press \in BOOLEAN
  BY DEF KeyEvent
<1>3. /\ \A i, j \in 1 .. N :
           /\ i < j /\ es[i].slot = k /\ es[j].slot = k
           /\ \A n \in i + 1 .. j - 1 : es[n].slot # k
           => es[i].press = ~ es[j].press
      /\ \A j \in 1 .. N :
           /\ es[j].slot = k
           /\ \A n \in 1 .. j - 1 : es[n].slot # k
           => es[j].press = ~ d
      /\ \A i \in 1 .. N :
           /\ es[i].slot = k
           /\ \A n \in i + 1 .. N : es[n].slot # k
           => es[i].press = r
      /\ (\A n \in 1 .. N : es[n].slot # k) => d = r
  BY DEF Turns
<1> HIDE DEF fs, N
<1>4. ASSUME NEW i \in 1 .. N + 1, NEW j \in 1 .. N + 1, i < j,
             fs[i].slot = k, fs[j].slot = k,
             \A n \in i + 1 .. j - 1 : fs[n].slot # k
      PROVE  fs[i].press = ~ fs[j].press
  <2>1. i \in 1 .. N /\ \A n \in i + 1 .. j - 1 : n \in 1 .. N
    BY <1>1, <1>4
  <2>2. fs[i] = es[i] /\ \A n \in i + 1 .. j - 1 : es[n].slot # k
    BY <1>1, <1>4, <2>1
  <2>3. CASE j = N + 1
    <3>1. es[i].press = r
      BY <1>1, <1>3, <1>4, <2>1, <2>2, <2>3
    <3>2. e.press = ~ r /\ fs[j] = e
      BY <1>1, <1>4, <2>3
    <3> QED
      BY <2>2, <3>1, <3>2
  <2>4. CASE j \in 1 .. N
    <3>1. fs[j] = es[j]
      BY <1>1, <2>4
    <3> QED
      BY <1>3, <1>4, <2>1, <2>2, <2>4, <3>1
  <2> QED
    BY <1>1, <2>3, <2>4
<1>5. ASSUME NEW j \in 1 .. N + 1, fs[j].slot = k,
             \A n \in 1 .. j - 1 : fs[n].slot # k
      PROVE  fs[j].press = ~ d
  <2>1. \A n \in 1 .. j - 1 : n \in 1 .. N
    BY <1>1
  <2>2. \A n \in 1 .. j - 1 : es[n].slot # k
    BY <1>1, <1>5, <2>1
  <2>3. CASE j = N + 1
    <3>1. d = r
      BY <1>1, <1>3, <2>2, <2>3
    <3> QED
      BY <1>1, <1>5, <2>3, <3>1
  <2>4. CASE j \in 1 .. N
    <3>1. fs[j] = es[j]
      BY <1>1, <2>4
    <3> QED
      BY <1>3, <1>5, <2>2, <2>4, <3>1
  <2> QED
    BY <1>1, <2>3, <2>4
<1>6. ASSUME NEW i \in 1 .. N + 1, fs[i].slot = k,
             \A n \in i + 1 .. N + 1 : fs[n].slot # k
      PROVE  fs[i].press = IF e.slot = k THEN e.press ELSE r
  <2>1. CASE i = N + 1
    BY <1>1, <1>6, <2>1
  <2>2. CASE i \in 1 .. N
    <3>1. N + 1 \in i + 1 .. N + 1
      BY <1>1, <2>2
    <3>2. e.slot # k
      BY <1>1, <1>6, <3>1
    <3>3. fs[i] = es[i] /\ \A n \in i + 1 .. N : fs[n] = es[n] /\ n \in i + 1 .. N + 1
      BY <1>1, <2>2
    <3>4. es[i].press = r
      BY <1>3, <1>6, <2>2, <3>3
    <3> QED
      BY <3>2, <3>3, <3>4
  <2> QED
    BY <1>1, <2>1, <2>2
<1>7. ASSUME \A n \in 1 .. N + 1 : fs[n].slot # k
      PROVE  d = IF e.slot = k THEN e.press ELSE r
  <2>1. N + 1 \in 1 .. N + 1 /\ \A n \in 1 .. N : n \in 1 .. N + 1
    BY <1>1
  <2>2. e.slot # k /\ \A n \in 1 .. N : es[n].slot # k
    BY <1>1, <1>7, <2>1
  <2> QED
    BY <1>3, <2>2
<1>8. Len(fs) = N + 1
  BY <1>1
<1> QED
  BY <1>4, <1>5, <1>6, <1>7, <1>8 DEF Turns, fs

(* One event executed, the first of its slot but wherever it stands.       *)
FirstOfSlot(es, p, k) == es[p].slot = k => \A n \in 1 .. p - 1 : es[n].slot # k

Without(es, p, fs) ==
  /\ Len(fs) = Len(es) - 1
  /\ \A n \in 1 .. Len(es) - 1 : fs[n] = IF n < p THEN es[n] ELSE es[n + 1]

LEMMA TurnsRemove ==
  ASSUME NEW es \in Seq(Word), NEW d \in BOOLEAN, NEW r \in BOOLEAN,
         NEW k \in Slots, Turns(es, d, r, k),
         NEW p \in 1 .. Len(es), FirstOfSlot(es, p, k),
         NEW fs \in Seq(Word), Without(es, p, fs)
  PROVE  Turns(fs, IF es[p].slot = k THEN es[p].press ELSE d, r, k)
<1> DEFINE N == Len(es)
           M == Len(es) - 1
           a(i) == IF i < p THEN i ELSE i + 1
<1>1. N \in Nat /\ M \in Nat /\ N = M + 1 /\ p \in 1 .. N /\ p \in Int
  BY LenProperties
<1>2. \A n \in 1 .. N : es[n].press \in BOOLEAN
  <2> SUFFICES ASSUME NEW n \in 1 .. N PROVE es[n].press \in BOOLEAN
    OBVIOUS
  <2>1. es[n] \in Word
    BY ElementOfSeq
  <2> QED
    BY <2>1, Words
<1>3. /\ \A i, j \in 1 .. N :
           /\ i < j /\ es[i].slot = k /\ es[j].slot = k
           /\ \A n \in i + 1 .. j - 1 : es[n].slot # k
           => es[i].press = ~ es[j].press
      /\ \A j \in 1 .. N :
           /\ es[j].slot = k
           /\ \A n \in 1 .. j - 1 : es[n].slot # k
           => es[j].press = ~ d
      /\ \A i \in 1 .. N :
           /\ es[i].slot = k
           /\ \A n \in i + 1 .. N : es[n].slot # k
           => es[i].press = r
      /\ (\A n \in 1 .. N : es[n].slot # k) => d = r
  BY DEF Turns
<1>4. \A n \in 1 .. M : fs[n] = es[a(n)] /\ a(n) \in 1 .. N /\ a(n) # p
  BY <1>1 DEF Without
<1>5. Len(fs) = M
  BY DEF Without
<1> HIDE DEF N, M
(* Where fs has nothing of slot k, es has nothing but perhaps at p.        *)
<1>6. ASSUME NEW i \in 0 .. M, NEW j \in 1 .. M + 1,
             \A n \in i + 1 .. j - 1 : fs[n].slot # k,
             NEW m \in a(i) + 1 .. a(j) - 1, m # p
      PROVE  es[m].slot # k
  <2>1. CASE m < p
    <3>1. m \in i + 1 .. j - 1 /\ m \in 1 .. M /\ a(m) = m
      BY <1>1, <1>6, <2>1
    <3> QED
      BY <1>4, <1>6, <3>1
  <2>2. CASE m > p
    <3>1. m - 1 \in i + 1 .. j - 1 /\ m - 1 \in 1 .. M /\ a(m - 1) = m
      BY <1>1, <1>6, <2>2
    <3> QED
      BY <1>4, <1>6, <3>1
  <2> QED
    BY <1>1, <1>6, <2>1, <2>2
<1>7. ASSUME es[p].slot = k, NEW i \in 1 .. M, fs[i].slot = k PROVE p < a(i)
  <2>1. es[a(i)].slot = k /\ a(i) \in 1 .. N /\ a(i) # p
    BY <1>4, <1>7
  <2>2. a(i) \notin 1 .. p - 1
    BY <1>7, <2>1 DEF FirstOfSlot
  <2> QED
    BY <1>1, <2>1, <2>2
<1>8. ASSUME NEW i \in 1 .. M, NEW j \in 1 .. M, i < j,
             fs[i].slot = k, fs[j].slot = k,
             \A n \in i + 1 .. j - 1 : fs[n].slot # k
      PROVE  fs[i].press = ~ fs[j].press
  <2>1. a(i) < a(j) /\ i \in 0 .. M /\ j \in 1 .. M + 1
    BY <1>1, <1>8
  <2>2. fs[i] = es[a(i)] /\ fs[j] = es[a(j)] /\ a(i) \in 1 .. N /\ a(j) \in 1 .. N
    BY <1>4
  <2>3. ASSUME NEW m \in a(i) + 1 .. a(j) - 1 PROVE es[m].slot # k
    <3>1. CASE m # p
      BY <1>6, <1>8, <2>1, <3>1
    <3>2. CASE m = p
      BY <1>1, <1>7, <1>8, <2>2, <3>2
    <3> QED
      BY <3>1, <3>2
  <2> DEFINE x == a(i)
             y == a(j)
  <2>4. /\ x \in 1 .. N /\ y \in 1 .. N /\ x < y
        /\ es[x].slot = k /\ es[y].slot = k
        /\ \A m \in x + 1 .. y - 1 : es[m].slot # k
    BY <1>8, <2>1, <2>2, <2>3
  <2>5. fs[i].press = es[x].press /\ fs[j].press = es[y].press
    BY <2>2
  <2> HIDE DEF x, y
  <2>6. es[x].press = ~ es[y].press
    BY <1>3, <2>4
  <2> QED
    BY <2>5, <2>6
<1>9. ASSUME NEW j \in 1 .. M, fs[j].slot = k,
             \A n \in 1 .. j - 1 : fs[n].slot # k
      PROVE  fs[j].press = ~ IF es[p].slot = k THEN es[p].press ELSE d
  <2>1. fs[j] = es[a(j)] /\ a(j) \in 1 .. N /\ j \in 1 .. M + 1
    BY <1>1, <1>4
  <2>2. ASSUME NEW m \in 1 .. a(j) - 1, m # p PROVE es[m].slot # k
    <3>1. 0 \in 0 .. M /\ m \in a(0) + 1 .. a(j) - 1
          /\ \A n \in 0 + 1 .. j - 1 : fs[n].slot # k
      BY <1>1, <1>9
    <3> QED
      BY <1>6, <2>1, <2>2, <3>1
  <2>3. CASE es[p].slot = k
    <3>1. p < a(j)
      BY <1>7, <1>9, <2>3
    <3>2. \A m \in p + 1 .. a(j) - 1 : es[m].slot # k
      BY <1>1, <2>2
    <3>3. es[p].press = ~ es[a(j)].press
      BY <1>1, <1>3, <1>9, <2>1, <2>3, <3>1, <3>2
    <3>4. es[p].press \in BOOLEAN /\ es[a(j)].press \in BOOLEAN
      BY <1>1, <1>2, <2>1
    <3>5. es[a(j)].press = ~ es[p].press
      BY <3>3, <3>4
    <3> QED
      BY <2>1, <2>3, <3>5
  <2>4. CASE es[p].slot # k
    <3>1. \A m \in 1 .. a(j) - 1 : es[m].slot # k
      BY <2>2, <2>4
    <3> QED
      BY <1>3, <1>9, <2>1, <2>4, <3>1
  <2> QED
    BY <2>3, <2>4
<1>10. ASSUME NEW i \in 1 .. M, fs[i].slot = k,
              \A n \in i + 1 .. M : fs[n].slot # k
       PROVE  fs[i].press = r
  <2>1. fs[i] = es[a(i)] /\ a(i) \in 1 .. N /\ i \in 0 .. M /\ M + 1 \in 1 .. M + 1
        /\ a(M + 1) = N + 1
    BY <1>1, <1>4
  <2>2. ASSUME NEW m \in a(i) + 1 .. N PROVE es[m].slot # k
    <3>1. CASE m # p
      <4>0. a(M + 1) - 1 = N /\ (M + 1) - 1 = M
        BY <1>1, <2>1
      <4>1. m \in a(i) + 1 .. a(M + 1) - 1
            /\ \A n \in i + 1 .. (M + 1) - 1 : fs[n].slot # k
        BY <1>10, <4>0
      <4> QED
        BY <1>6, <2>1, <3>1, <4>1
    <3>2. CASE m = p
      BY <1>1, <1>7, <1>10, <2>1, <3>2
    <3> QED
      BY <3>1, <3>2
  <2> QED
    BY <1>3, <1>10, <2>1, <2>2
<1>11. ASSUME \A n \in 1 .. M : fs[n].slot # k
       PROVE  (IF es[p].slot = k THEN es[p].press ELSE d) = r
  <2>1. ASSUME NEW m \in 1 .. N, m # p PROVE es[m].slot # k
    <3>1. 0 \in 0 .. M /\ M + 1 \in 1 .. M + 1
          /\ m \in a(0) + 1 .. a(M + 1) - 1
          /\ \A n \in 0 + 1 .. (M + 1) - 1 : fs[n].slot # k
      BY <1>1, <1>11
    <3> QED
      BY <1>6, <2>1, <3>1
  <2>2. CASE es[p].slot = k
    <3>1. \A n \in p + 1 .. N : es[n].slot # k
      BY <1>1, <2>1
    <3> QED
      BY <1>1, <1>3, <2>2, <3>1
  <2>3. CASE es[p].slot # k
    BY <1>3, <2>1, <2>3
  <2> QED
    BY <2>2, <2>3
<1> QED
  BY <1>5, <1>8, <1>9, <1>10, <1>11 DEF Turns

-----------------------------------------------------------------------------
(* Alternation of the pending events.                                      *)

PendingTurns ==
  \A k \in Slots : Turns(Pending, k \in down, k \in m_pressed, k)

AltInv == ~ spurious => PendingTurns

(* A largest number of a set is found where fewest numbers are larger.     *)
LEMMA Largest ==
  ASSUME NEW m \in Nat, NEW T \in SUBSET (1 .. m), T # {}
  PROVE  \E x \in T : \A y \in T : y <= x
<1> DEFINE Above(x) == {y \in T : y > x}
           S == {Above(x) : x \in T}
           R == StrictSubsetOrdering(T)
<1>1. IsWellFoundedOn(R, FiniteSubsetsOf(T))
  BY FS_StrictSubsetOrderingWellFounded
<1>2. IsFiniteSet(T)
  <2>1. IsFiniteSet(1 .. m)
    BY FS_Interval
  <2> QED
    BY <2>1, FS_Subset
<1>3. FiniteSubsetsOf(T) = SUBSET T
  BY <1>2, FS_FiniteSubsetsOfFinite
<1>4. S \subseteq SUBSET T /\ S # {}
  OBVIOUS
<1>5. IsWellFoundedOn(R, SUBSET T)
  BY <1>1, <1>3
<1>6. PICK A \in S : \A B \in S : ~ (<<B, A>> \in R)
  <2> HIDE DEF S, R
  <2> QED
    BY <1>4, <1>5, WFMin
<1>7. PICK x \in T : A = Above(x)
  BY <1>6
<1>8. ASSUME NEW y \in T, y > x PROVE FALSE
  <2>1. x \in Int /\ y \in Int /\ \A z \in T : z \in Int
    OBVIOUS
  <2>2. Above(y) \subseteq Above(x)
    <3> SUFFICES ASSUME NEW z \in T, z > y PROVE z > x
      OBVIOUS
    <3> QED
      BY <1>8, <2>1
  <2>3. y \in Above(x) /\ y \notin Above(y)
    BY <1>8, <2>1
  <2>4. Above(y) # Above(x)
    BY <2>3
  <2>5. Above(y) \in S /\ Above(y) \subseteq T /\ Above(x) \subseteq T
    OBVIOUS
  <2>6. <<Above(y), Above(x)>> \in R
    <3> HIDE DEF Above
    <3> QED
      BY <2>2, <2>4, <2>5 DEF StrictSubsetOrdering
  <2> QED
    BY <1>6, <1>7, <2>5, <2>6
<1> QED
  BY <1>8

LEMMA PendingIsSeq ==
  ASSUME Whole, QueueInv, ~ spurious
  PROVE  Pending \in Seq(Word) /\ Contents \in Seq(Word)
<1>1. Contents \in Seq(Word)
  BY WholeFacts, ContentsIsSeq
<1>2. CASE main \in {"popped", "handle"} /\ getMode = "pop"
  <2>1. event \in Word
    BY <1>2 DEF QueueInv, EventsReported, Word
  <2>2. <<event>> \in Seq(Word)
    BY <2>1
  <2> QED
    BY <1>1, <1>2, <2>2, ConcatProperties DEF Pending
<1>3. CASE ~ (main \in {"popped", "handle"} /\ getMode = "pop")
  BY <1>1, <1>3 DEF Pending
<1> QED
  BY <1>1, <1>2, <1>3

LEMMA AltSame ==
  ASSUME PendingTurns, Pending' = Pending, UNCHANGED <<down, m_pressed>>
  PROVE  PendingTurns'
BY DEF PendingTurns

(* A report, of a key whose state is not the one reported last.            *)
LEMMA AltReport ==
  ASSUME PendingTurns, Pending \in Seq(Word), NEW e \in KeyEvent,
         Pending' = Append(Pending, e), UNCHANGED down,
         e.slot \in m_pressed <=> ~ e.press,
         m_pressed' = IF e.press THEN m_pressed \cup {e.slot}
                                 ELSE m_pressed \ {e.slot}
  PROVE  PendingTurns'
<1> SUFFICES ASSUME NEW k \in Slots
             PROVE  Turns(Pending', k \in down', k \in m_pressed', k)
  BY DEF PendingTurns
<1> DEFINE d == k \in down
           r == k \in m_pressed
<1>1. Turns(Pending, d, r, k) /\ d \in BOOLEAN /\ r \in BOOLEAN
  BY DEF PendingTurns
<1>2. e.press \in BOOLEAN
  BY DEF KeyEvent
<1>3. e.slot = k => e.press = ~ r
  BY <1>2
<1>4. (k \in m_pressed') = IF e.slot = k THEN e.press ELSE r
  BY <1>2
<1>5. (k \in down') = d
  OBVIOUS
<1> HIDE DEF d, r
<1>6. Turns(Append(Pending, e), d, IF e.slot = k THEN e.press ELSE r, k)
  BY <1>1, <1>3, TurnsAppend
<1> QED
  BY <1>4, <1>5, <1>6

(* An execution, of the first pending event of its slot.                   *)
LEMMA AltExecute ==
  ASSUME PendingTurns, Pending \in Seq(Word), Pending' \in Seq(Word),
         event \in KeyEvent, Execute(event), UNCHANGED m_pressed,
         NEW p \in 1 .. Len(Pending), Pending[p] = event,
         FirstOfSlot(Pending, p, event.slot),
         \A fs : fs = Pending' => Without(Pending, p, fs)
  PROVE  PendingTurns'
<1> SUFFICES ASSUME NEW k \in Slots
             PROVE  Turns(Pending', k \in down', k \in m_pressed', k)
  BY DEF PendingTurns
<1> DEFINE d == k \in down
           r == k \in m_pressed
           fs == Pending'
<1>1. Turns(Pending, d, r, k) /\ d \in BOOLEAN /\ r \in BOOLEAN
  BY DEF PendingTurns
<1>2. event.press \in BOOLEAN
  BY DEF KeyEvent
<1>3. (k \in down') = IF event.slot = k THEN event.press ELSE d
  BY <1>2 DEF Execute
<1>4. (k \in m_pressed') = r
  OBVIOUS
<1>5. fs \in Seq(Word) /\ Without(Pending, p, fs)
  OBVIOUS
<1>6. FirstOfSlot(Pending, p, k)
  BY DEF FirstOfSlot
<1> SUFFICES Turns(fs, k \in down', k \in m_pressed', k)
  OBVIOUS
<1> HIDE DEF d, r, fs
<1>7. Turns(fs, IF Pending[p].slot = k THEN Pending[p].press ELSE d, r, k)
  BY <1>1, <1>5, <1>6, TurnsRemove
<1> QED
  BY <1>3, <1>4, <1>7

(* The queue without its last deferred event.                              *)
LEMMA RemoveWithout ==
  ASSUME Ranges, Ranges', InOrder, Count <= QUEUE_SIZE, RemoveLast,
         m_pop # m_peek
  PROVE  /\ Contents' \in Seq(Word)
         /\ \A fs : fs = Contents' => Without(Contents, Deferred, fs)
<1>1. /\ m_pop' = Plus(m_pop, 1) /\ UNCHANGED <<m_push, m_peek>>
      /\ m_buffer' = [i \in DOMAIN m_buffer |->
                        IF \E n \in 2 .. Deferred : i = At(m_pop + n - 1)
                        THEN m_buffer[At(i - 1)] ELSE m_buffer[i]]
  BY DEF RemoveLast
<1>2. InOrder' /\ Count' = Count - 1
  BY <1>1, RemoveCounts
<1>3. /\ Count \in Nat /\ Deferred \in Nat /\ Deferred > 0 /\ Deferred <= Count
  BY Comparisons DEF InOrder
<1>4. /\ Contents' \in Seq(Word)
      /\ Len(Contents') = Count - 1
      /\ \A n \in 1 .. Count - 1 : Contents'[n] = Queued(n)'
  BY <1>2, ContentsIsSeqNext
<1>5. /\ Len(Contents) = Count
      /\ \A n \in 1 .. Count : Contents[n] = Queued(n)
  BY ContentsIsSeq
<1>6. \A n \in 1 .. Count - 1 :
        Queued(n)' = IF n < Deferred THEN Queued(n) ELSE Queued(n + 1)
  BY <1>1, <1>3, RemoveQueued
<1>7. \A n \in 1 .. Count - 1 :
        Contents'[n] = IF n < Deferred THEN Contents[n] ELSE Contents[n + 1]
  <2>1. \A n \in 1 .. Count - 1 : n \in 1 .. Count /\ n + 1 \in 1 .. Count
    BY <1>3
  <2> QED
    BY <1>4, <1>5, <1>6, <2>1
<1> QED
  BY <1>4, <1>5, <1>7 DEF Without

LEMMA AltPush ==
  ASSUME Whole, Whole', QueueInv, ~ spurious, PendingTurns,
         NEW k \in Slots, Push(k)
  PROVE  PendingTurns'
<1> DEFINE e == [slot |-> k, press |-> k \in pressing]
<1>1. /\ m_buffer' = [m_buffer EXCEPT ![At(m_push)] = e]
      /\ m_push' = Plus(m_push, 1)
      /\ matrix = "granted" \/ ~ fullLocked
      /\ UNCHANGED <<m_peek, m_pop, main, event, getMode, down>>
  BY DEF Push, keymapVars
<1>2. /\ e \in KeyEvent
      /\ e.slot \in m_pressed <=> ~ e.press
      /\ m_pressed' = IF e.press THEN m_pressed \cup {e.slot}
                                 ELSE m_pressed \ {e.slot}
  <2>1. e.slot = k /\ e.press = (k \in pressing) /\ e \in KeyEvent
    BY DEF KeyEvent
  <2>2. (k \in pressing) # (k \in m_pressed)
    BY DEF Push, Reported, Changed
  <2>3. m_pressed' = IF k \in pressing THEN m_pressed \cup {k}
                     ELSE m_pressed \ {k}
    BY DEF Push
  <2> HIDE DEF e
  <2>4. CASE k \in pressing
    BY <2>1, <2>2, <2>3, <2>4
  <2>5. CASE k \notin pressing
    <3>1. ~ e.press
      BY <2>1, <2>5
    <3>2. k \in m_pressed /\ m_pressed' = m_pressed \ {k}
      BY <2>2, <2>3, <2>5
    <3> QED
      BY <2>1, <3>1, <3>2
  <2> QED
    BY <2>4, <2>5
<1> HIDE DEF e
<1>3. Ranges /\ Ranges' /\ InOrder /\ Count < QUEUE_SIZE /\ e \in Word
  BY <1>1, <1>2, WholeFacts DEF Whole, Word
<1>4. Contents' = Append(Contents, e)
  BY <1>1, <1>3, PushContents
<1>5. Contents \in Seq(Word) /\ Pending \in Seq(Word)
  BY PendingIsSeq
<1>6. Pending' = Append(Pending, e)
  <2>1. CASE main \in {"popped", "handle"} /\ getMode = "pop"
    <3>1. Pending = <<event>> \o Contents /\ Pending' = <<event>> \o Contents'
      BY <1>1, <2>1 DEF Pending
    <3>2. event \in Word
      BY <2>1 DEF QueueInv, EventsReported, Word
    <3>3. <<event>> \in Seq(Word) /\ <<e>> \in Seq(Word)
      BY <1>3, <3>2
    <3>4. Contents' = Contents \o <<e>>
      BY <1>3, <1>4, <1>5, AppendIsConcat
    <3>5. (<<event>> \o Contents) \o <<e>> = <<event>> \o (Contents \o <<e>>)
      BY <1>5, <3>3, ConcatAssociative
    <3>6. Append(Pending, e) = Pending \o <<e>>
      BY <1>3, <1>5, AppendIsConcat
    <3> QED
      BY <3>1, <3>4, <3>5, <3>6
  <2>2. CASE ~ (main \in {"popped", "handle"} /\ getMode = "pop")
    BY <1>1, <1>4, <2>2 DEF Pending
  <2> QED
    BY <2>1, <2>2
<1> QED
  BY <1>1, <1>2, <1>5, <1>6, AltReport

LEMMA AltPop ==
  ASSUME Whole, Whole', QueueInv, ~ spurious, PendingTurns, TryPop
  PROVE  PendingTurns'
<1>1. /\ m_pop # m_push /\ getMode = "pop"
      /\ m_pop' = Plus(m_pop, 1) /\ m_peek' = m_pop'
      /\ event' = m_buffer[At(m_pop)]
      /\ main = "wait" /\ main' = "popped"
      /\ UNCHANGED <<m_buffer, m_push, m_pressed, getMode, down>>
  BY DEF TryPop, MainRuns, matrixVars, keymapVars
<1>2. Ranges /\ Ranges' /\ InOrder /\ Count \in Nat
  BY WholeFacts DEF Whole
<1>3. Contents # <<>> /\ Contents' = Tail(Contents) /\ Count > 0
  BY <1>1, <1>2, PopContents, Comparisons
<1>4. /\ Contents \in Seq(Word) /\ Len(Contents) = Count
      /\ \A n \in 1 .. Count : Contents[n] = Queued(n)
  BY <1>2, ContentsIsSeq
<1>5. event' = Contents[1]
  <2>1. m_pop + 1 - 1 = m_pop
    BY <1>2 DEF InOrder, IndexTypes, Index
  <2>2. Queued(1) = m_buffer[At(m_pop)]
    BY <2>1 DEF Queued
  <2> QED
    BY <1>1, <1>2, <1>3, <1>4, <2>2
<1>6. <<Contents[1]>> \o Tail(Contents) = Contents
  <2>1. 1 \in 1 .. Len(Contents) /\ Len(Contents) \in 1 .. Len(Contents)
    BY <1>2, <1>3, <1>4
  <2>2. /\ SubSeq(Contents, 1, Len(Contents)) = Contents
        /\ Tail(Contents) = SubSeq(Contents, 2, Len(Contents))
    BY <1>3, <1>4, SubSeqFull, TailIsSubSeq
  <2>3. SubSeq(Contents, 1, Len(Contents))
          = <<Contents[1]>> \o SubSeq(Contents, 1 + 1, Len(Contents))
    BY <1>4, <2>1, SubSeqRecursiveFirst
  <2> QED
    BY <2>2, <2>3
<1>7. Pending = Contents /\ Pending' = <<event'>> \o Contents'
  BY <1>1 DEF Pending
<1> QED
  BY <1>1, <1>3, <1>5, <1>6, <1>7, AltSame

(* The owner's own event, or a release whose press is not deferred, is the *)
(* first of its slot.                                                      *)
LEMMA FirstDeferred ==
  ASSUME Whole, QueueInv, ~ spurious, PendingTurns,
         main = "handle", owner = event.slot \/ owner # NoSlot,
         \/ owner = event.slot
         \/ ~ event.press
            /\ ~ DeferIsPending([slot |-> event.slot, press |-> TRUE])
  PROVE  FirstOfSlot(Contents, Deferred, event.slot)
<1>1. /\ event \in KeyEvent /\ getMode = "peek"
      /\ Deferred \in 1 .. Count /\ Count \in Nat
      /\ \A n \in Int : n = Deferred => Queued(n) = event
  BY HandlesInDeferMode, WholeFacts
<1>2. /\ Contents \in Seq(Word) /\ Len(Contents) = Count
      /\ \A n \in 1 .. Count : Contents[n] = Queued(n)
  BY WholeFacts, ContentsIsSeq
<1>3. Deferred \in Int /\ Contents[Deferred] = event
  BY <1>1, <1>2
<1>4. CASE owner = event.slot
  <2>1. \A n \in 1 .. Deferred : Queued(n).slot # owner \/ n = Deferred
    BY <1>1 DEF QueueInv, LastIsHandled
  <2>2. \A n \in 1 .. Deferred - 1 :
          n \in 1 .. Deferred /\ n \in 1 .. Count /\ n # Deferred
    BY <1>1
  <2>3. \A n \in 1 .. Deferred - 1 : Contents[n].slot # event.slot
    BY <1>2, <1>4, <2>1, <2>2
  <2> QED
    BY <2>3 DEF FirstOfSlot
<1>5. CASE /\ ~ event.press
           /\ ~ DeferIsPending([slot |-> event.slot, press |-> TRUE])
  <2> DEFINE s == event.slot
             D == Deferred
             T == {n \in 1 .. D - 1 : Contents[n].slot = s}
  <2>1. s \in Slots /\ D \in Nat /\ D - 1 \in Nat /\ D \in 1 .. Count
        /\ Contents[D].slot = s
    BY <1>1, <1>3 DEF KeyEvent
  <2>2. ASSUME T # {} PROVE FALSE
    <3>1. PICK x \in T : \A y \in T : y <= x
      <4>1. T \in SUBSET (1 .. D - 1)
        OBVIOUS
      <4> HIDE DEF T, D
      <4> QED
        BY <2>1, <2>2, <4>1, Largest
    <3>2. /\ x \in 1 .. Count /\ x < D /\ Contents[x].slot = s
          /\ x \in 1 .. D
      BY <1>1, <2>1, <3>1
    <3>3. \A n \in x + 1 .. D - 1 : Contents[n].slot # s
      <4> SUFFICES ASSUME NEW n \in x + 1 .. D - 1, Contents[n].slot = s
                   PROVE  FALSE
        OBVIOUS
      <4>1. n \in 1 .. D - 1 /\ n > x
        BY <2>1, <3>2
      <4> QED
        BY <3>1, <4>1
    <3>4. Turns(Contents, s \in down, s \in m_pressed, s)
      <4>1. Pending = Contents
        BY <1>1 DEF Pending
      <4> QED
        BY <2>1, <4>1 DEF PendingTurns
    <3>5. Contents[x].press = ~ Contents[D].press
      <4> HIDE DEF D, s
      <4> QED
        BY <1>2, <2>1, <3>2, <3>3, <3>4 DEF Turns
    <3>6. Contents[x].press /\ Contents[x] = Queued(x) /\ Queued(x) \in KeyEvent
      <4>1. ~ Contents[D].press
        BY <1>3, <1>5
      <4>2. Contents[x] = Queued(x) /\ Queued(x) \in KeyEvent
        BY <1>2, <3>2 DEF QueueInv, EventsReported
      <4> QED
        BY <3>5, <4>1, <4>2
    <3>7. Queued(x) = [slot |-> s, press |-> TRUE]
      BY <3>2, <3>6 DEF KeyEvent
    <3> QED
      BY <1>5, <3>2, <3>7 DEF DeferIsPending
  <2>3. \A n \in 1 .. Deferred - 1 : Contents[n].slot # event.slot
    BY <2>2
  <2> QED
    BY <2>3 DEF FirstOfSlot
<1> QED
  BY <1>4, <1>5

(* In defer mode: the last deferred event is executed and taken out.       *)
LEMMA AltDeferred ==
  ASSUME Whole, Whole', QueueInv, ~ spurious, PendingTurns,
         HandleOwner \/ HandleQuickRelease
  PROVE  PendingTurns'
<1>1. /\ main = "handle"
      /\ owner = event.slot \/ owner # NoSlot
      /\ \/ owner = event.slot
         \/ ~ event.press
            /\ ~ DeferIsPending([slot |-> event.slot, press |-> TRUE])
      /\ RemoveLast /\ Execute(event) /\ UNCHANGED m_pressed
  BY DEF HandleOwner, HandleQuickRelease, MainRuns, matrixVars
<1>2. /\ event \in KeyEvent /\ getMode = "peek"
      /\ Deferred \in 1 .. Count /\ m_pop # m_peek
      /\ \A n \in Int : n = Deferred => Queued(n) = event
  BY <1>1, HandlesInDeferMode
<1>3. /\ Ranges /\ Ranges' /\ InOrder /\ Count <= QUEUE_SIZE /\ Count \in Nat
  BY WholeFacts DEF Whole
<1>4. FirstOfSlot(Contents, Deferred, event.slot)
  BY <1>1, FirstDeferred
<1>5. /\ Contents' \in Seq(Word)
      /\ \A fs : fs = Contents' => Without(Contents, Deferred, fs)
  BY <1>1, <1>2, <1>3, RemoveWithout
<1>6. main' = "removed"
  BY <1>1, <1>2 DEF RemoveLast
<1>7. Pending = Contents /\ Pending' = Contents'
  BY <1>2, <1>6 DEF Pending
<1>8. /\ Contents \in Seq(Word) /\ Len(Contents) = Count
      /\ \A n \in 1 .. Count : Contents[n] = Queued(n)
  BY <1>3, ContentsIsSeq
<1>9. Deferred \in 1 .. Len(Pending) /\ Pending[Deferred] = event
  BY <1>2, <1>3, <1>7, <1>8
<1> QED
  BY <1>1, <1>2, <1>4, <1>5, <1>7, <1>8, <1>9, AltExecute

(* Outside it: the event that was popped is.                               *)
LEMMA AltNormal ==
  ASSUME Whole, QueueInv, ~ spurious, PendingTurns, HandleNormal
  PROVE  PendingTurns'
<1>1. /\ main = "handle" /\ main' = "check" /\ owner = NoSlot
      /\ Execute(event) /\ UNCHANGED queueVars /\ UNCHANGED m_pressed
  BY DEF HandleNormal, MainRuns, matrixVars
<1>2. Ranges /\ InOrder /\ getMode = "pop"
  BY <1>1, WholeFacts DEF FlagInv
<1>3. event \in KeyEvent /\ event \in Word
  BY <1>1 DEF QueueInv, EventsReported, Word
<1>4. Contents' = Contents /\ Contents \in Seq(Word) /\ Pending \in Seq(Word)
  BY <1>1, <1>2, SameContents, PendingIsSeq
<1>5. Pending = <<event>> \o Contents /\ Pending' = Contents
  BY <1>1, <1>2, <1>4 DEF Pending
<1>6. /\ Len(Pending) = Len(Contents) + 1 /\ Len(Contents) \in Nat
      /\ Pending[1] = event
      /\ \A n \in 1 .. Len(Contents) : Pending[n + 1] = Contents[n]
  <2> DEFINE es == <<event>> \o Contents
  <2>1. <<event>> \in Seq(Word) /\ Len(<<event>>) = 1 /\ <<event>>[1] = event
    BY <1>3
  <2>2. Len(Contents) \in Nat
    BY <1>4, LenProperties
  <2>3. /\ Len(es) = Len(<<event>>) + Len(Contents)
        /\ \A n \in 1 .. Len(<<event>>) + Len(Contents) :
             es[n] = IF n <= Len(<<event>>) THEN <<event>>[n]
                     ELSE Contents[n - Len(<<event>>)]
    BY <1>4, <2>1, ConcatProperties
  <2> HIDE DEF es
  <2>4. /\ Len(es) = 1 + Len(Contents)
        /\ \A n \in 1 .. 1 + Len(Contents) :
             es[n] = IF n <= 1 THEN <<event>>[n] ELSE Contents[n - 1]
    BY <2>1, <2>3
  <2>5. es[1] = event
    BY <2>1, <2>2, <2>4
  <2>6. ASSUME NEW n \in 1 .. Len(Contents) PROVE es[n + 1] = Contents[n]
    <3>1. n + 1 \in 1 .. 1 + Len(Contents) /\ ~ (n + 1 <= 1) /\ (n + 1) - 1 = n
      BY <2>2
    <3> QED
      BY <2>4, <3>1
  <2>7. Pending = es
    BY <1>5 DEF es
  <2> QED
    BY <2>2, <2>4, <2>5, <2>6, <2>7
<1>7. 1 \in 1 .. Len(Pending) /\ FirstOfSlot(Pending, 1, event.slot)
  BY <1>6 DEF FirstOfSlot
<1>8. Without(Pending, 1, Contents)
  <2>1. Len(Pending) - 1 = Len(Contents)
    BY <1>6
  <2> QED
    BY <1>6, <2>1 DEF Without
<1> QED
  BY <1>1, <1>3, <1>4, <1>5, <1>6, <1>7, <1>8, AltExecute

LEMMA AltMain ==
  ASSUME Whole, Whole', QueueInv, ~ spurious, PendingTurns, MainStep
  PROVE  PendingTurns'
<1>0. Ranges /\ InOrder /\ FlagInv /\ (main = "popped" => getMode = "pop")
  BY WholeFacts DEF QueueInv, LastIsHandled
<1>1. CASE PopUnlocks \/ RemoveUnlocks \/ DryRunUnlocks \/ DryRun
  <2>1. /\ UNCHANGED <<queueVars, event, getMode, down, m_pressed>>
        /\ main \in {"popped", "handle"} <=> main' \in {"popped", "handle"}
    BY <1>1 DEF PopUnlocks, RemoveUnlocks, DryRunUnlocks, DryRun, MainRuns,
                keymapVars, matrixVars
  <2>2. Contents' = Contents
    BY <1>0, <2>1, SameContents
  <2> QED
    BY <2>1, <2>2, AltSame DEF Pending
<1>2. CASE TryPeek
  <2>1. /\ getMode = "peek" /\ UNCHANGED <<m_buffer, m_push, m_pop>>
        /\ UNCHANGED <<getMode, down, m_pressed>>
    BY <1>2 DEF TryPeek, keymapVars, matrixVars
  <2>2. Contents' = Contents
    BY <2>1 DEF Contents, Queued, Count
  <2> QED
    BY <2>1, <2>2, AltSame DEF Pending
<1>3. CASE HandleOther
  <2>1. /\ main = "handle" /\ main' = "check" /\ owner # NoSlot
        /\ UNCHANGED <<queueVars, down, m_pressed>>
    BY <1>3 DEF HandleOther, MainRuns, matrixVars
  <2>2. Contents' = Contents /\ getMode = "peek"
    BY <1>0, <2>1, SameContents DEF FlagInv
  <2> QED
    BY <2>1, <2>2, AltSame DEF Pending
<1> QED
  BY <1>1, <1>2, <1>3, AltPop, AltNormal, AltDeferred DEF MainStep

LEMMA AltEmpty ==
  ASSUME Pending \in Seq(Word), Len(Pending) = 0, down = {}, m_pressed = {}
  PROVE  PendingTurns
BY DEF PendingTurns, Turns

LEMMA AltInit == Init => AltInv
<1> SUFFICES ASSUME Init PROVE PendingTurns
  BY DEF AltInv
<1>1. IndexTypes
  BY SizesAreNumbers DEF Init, IndexTypes, Index
<1>2. Count = 0
  BY <1>1, DistanceZero DEF Init, IndexTypes, Count
<1>3. Pending = Contents /\ Contents = <<>>
  BY <1>2 DEF Init, Pending, Contents
<1> QED
  BY <1>3, AltEmpty DEF Init

LEMMA AltReset ==
  ASSUME SystemReset
  PROVE  PendingTurns'
<1>1. IndexTypes' /\ m_push' = 0 /\ m_peek' = 0 /\ m_pop' = 0
  BY SizesAreNumbers DEF SystemReset, IndexTypes, Index
<1>2. Count' = 0
  BY <1>1, DistanceZero DEF IndexTypes, Count
<1>3. Pending' = Contents' /\ Contents' = <<>>
  BY <1>2 DEF SystemReset, Pending, Contents
<1>4. down' = {} /\ m_pressed' = {}
  BY DEF SystemReset
<1>5. Pending' \in Seq(Word) /\ Len(Pending') = 0
  BY <1>3
<1> QED
  BY <1>4, <1>5 DEF PendingTurns, Turns

LEMMA AltNext == Whole /\ Whole' /\ QueueInv /\ AltInv /\ [Next]_vars => AltInv'
<1> SUFFICES ASSUME Whole, Whole', QueueInv, AltInv, [Next]_vars, ~ spurious'
             PROVE  PendingTurns'
  BY DEF AltInv
<1>1. CASE spurious
  BY <1>1, StaysSpurious, AltReset
<1>2. CASE ~ spurious
  <2>0. PendingTurns /\ Ranges /\ InOrder
    BY <1>2, WholeFacts DEF AltInv
  <2>1. CASE \E k \in Slots : Push(k)
    BY <1>2, <2>0, <2>1, AltPush
  <2>2. CASE SystemReset
    BY <2>2, AltReset
  <2>3. CASE PushWaits \/ PushTimeout \/ ScanDone
             \/ (\E found \in SUBSET Slots : Scan(found)) \/ UNCHANGED vars
    <3>1. UNCHANGED <<queueVars, main, event, getMode, down, m_pressed>>
      BY <2>3 DEF PushWaits, PushTimeout, ScanDone, Scan, vars, keymapVars,
                  matrixVars
    <3>2. Contents' = Contents
      BY <2>0, <3>1, SameContents
    <3> QED
      BY <2>0, <3>1, <3>2, AltSame DEF Pending
  <2>4. CASE DeferTimeout \/ OtherFlag
    <3>1. /\ main = "wait" /\ main' = "check"
          /\ UNCHANGED <<queueVars, down, m_pressed>>
      BY <2>4 DEF DeferTimeout, OtherFlag, MainRuns, keymapVars, matrixVars
    <3>2. Contents' = Contents
      BY <2>0, <3>1, SameContents
    <3> QED
      BY <2>0, <3>1, <3>2, AltSame DEF Pending
  <2>5. CASE MainStep
    BY <1>2, <2>0, <2>5, AltMain
  <2> QED
    BY <2>1, <2>2, <2>3, <2>4, <2>5 DEF Next, MatrixStep
<1> QED
  BY <1>1, <1>2

(* The events of a slot that are still to be executed take the key, one by *)
(* one, from the state the keymap last saw to the one matrix_thread last   *)
(* reported, for every size of the queue and every number of slots, until  *)
(* m_full_lock is released with the queue full.                            *)
THEOREM AlternationInvariant == Spec => []AlternatingUnlessSpurious
<1>1. Whole /\ QueueInv /\ AltInv => AlternatingUnlessSpurious
  <2> SUFFICES ASSUME Whole, QueueInv, AltInv, ~ spurious, NEW k \in Slots
               PROVE  Alternates(Story(k), k)
    BY DEF AlternatingUnlessSpurious, Alternating
  <2> DEFINE d == k \in down
             r == k \in m_pressed
  <2>1. Turns(Pending, d, r, k) /\ d \in BOOLEAN /\ r \in BOOLEAN
    BY DEF AltInv, PendingTurns
  <2>2. Pending \in Seq(Word)
    BY PendingIsSeq
  <2>3. Story(k) = Tale(Pending, d, r, k)
    BY DEF Story, Tale
  <2> HIDE DEF d, r
  <2> QED
    BY <2>1, <2>2, <2>3, TurnsAlternate
<1> QED
  BY <1>1, WholeInit, WholeNext, QueueInvInit, QueueInvNext, AltInit, AltNext,
     PTL DEF Spec

(* When matrix_thread sleeps and main_thread has nothing left to do, the   *)
(* keymap has seen every key released: nothing is pending (FlagInv), so    *)
(* what it saw last is what matrix_thread reported last, and that slept    *)
(* with no key reported down.                                              *)
THEOREM ReleasedAtRestInvariant == Spec => []ReleasedAtRest
<1>1. Whole /\ QueueInv /\ AltInv => ReleasedAtRest
  <2> SUFFICES ASSUME Whole, QueueInv, AltInv, matrix = "asleep", main = "wait",
                      ~ flag, owner = NoSlot, ~ spurious
               PROVE  down = {}
    BY DEF ReleasedAtRest
  <2>1. FlagInv /\ InOrder /\ Ranges /\ m_pressed = {}
    BY WholeFacts DEF QueueInv, AsleepIsReleased
  <2>2. m_pop = m_push
    BY <2>1 DEF FlagInv, Available
  <2>3. Count = 0
    BY <2>1, <2>2, Comparisons
  <2>4. Pending = Contents /\ Contents \in Seq(Word) /\ Len(Contents) = 0
    BY <2>1, <2>3, ContentsIsSeq DEF Pending
  <2>5. ASSUME NEW k \in Slots PROVE k \notin down
    <3>1. Turns(Pending, k \in down, k \in m_pressed, k)
      BY DEF AltInv, PendingTurns
    <3>2. \A n \in 1 .. Len(Pending) : FALSE
      BY <2>4
    <3>3. (k \in down) = (k \in m_pressed)
      BY <3>1, <3>2 DEF Turns
    <3> QED
      BY <2>1, <3>3
  <2>6. down \subseteq Slots
    BY <2>1 DEF Ranges
  <2> QED
    BY <2>5, <2>6
<1> QED
  BY <1>1, WholeInit, WholeNext, QueueInvInit, QueueInvNext, AltInit, AltNext,
     PTL DEF Spec

=============================================================================
