-------------------------- MODULE PersistentProofs --------------------------
(***************************************************************************)
(* Proofs about Persistent: whatever the size of the memory, the names and *)
(* the requests, the blocks tile the memory at every store, free buddies   *)
(* are merged, and a name has one entry.                                   *)
(***************************************************************************)
EXTENDS Persistent, TLAPS

-----------------------------------------------------------------------------
(* The tree of nodes.                                                      *)

LEMMA NodeShape ==
  ASSUME NEW n
  PROVE  n \in Nodes <=> /\ n = <<n[1], n[2]>>
                         /\ n[1] \in Levels
                         /\ n[2] \in 0 .. Width[n[1]] - 1
BY DEF Nodes

LEMMA PairNode ==
  ASSUME NEW l, NEW i
  PROVE  <<l, i>> \in Nodes <=> l \in Levels /\ i \in 0 .. Width[l] - 1
BY DEF Nodes

LEMMA RootNode == Root \in Nodes
BY PersistentAssumption DEF Nodes, Root, Levels

LEMMA BelowRoot ==
  ASSUME NEW n \in Nodes, n # Root
  PROVE  n[1] \in 0 .. SEEPROM_SIZE2 - 1
BY NodeShape, PersistentAssumption DEF Root, Levels

(* Going up and sideways.                                                  *)
LEMMA Upward ==
  ASSUME NEW n \in Nodes, n # Root
  PROVE  /\ Buddy(n) \in Nodes \ {Root}
         /\ Buddy(n) # n
         /\ Buddy(Buddy(n)) = n
         /\ Parent(n) \in Nodes
         /\ Parent(n) # n
         /\ Parent(n)[1] > 0
         /\ Parent(Buddy(n)) = Parent(n)
         /\ Parent(n) # Buddy(n)
<1> DEFINE l == n[1]
           i == n[2]
<1>1. n = <<l, i>> /\ l \in 0 .. SEEPROM_SIZE2 - 1 /\ i \in 0 .. Width[l] - 1
  BY NodeShape, BelowRoot
<1>2. Width[l] = 2 * Width[l + 1] /\ Width[l + 1] \in Nat
  BY <1>1, PersistentAssumption DEF Levels
<1>3. i \div 2 \in 0 .. Width[l + 1] - 1
  BY <1>1, <1>2
<1>4. Parent(n) = <<l + 1, i \div 2>> /\ l + 1 \in Levels
  BY <1>1, PersistentAssumption DEF Parent, Levels
<1>5. Parent(n) \in Nodes /\ Parent(n)[1] = l + 1
  BY <1>3, <1>4, PairNode
<1>6. Parent(n) # n /\ Parent(n)[1] > 0
  BY <1>1, <1>5
<1>7. \A j : Parent(n) # <<l, j>>
  BY <1>1, <1>4
<1>8. CASE i % 2 = 0
  <2>1. Buddy(n) = <<l, i + 1>> /\ i + 1 \in 0 .. Width[l] - 1
    BY <1>1, <1>2, <1>8 DEF Buddy
  <2>2. (i + 1) % 2 = 1 /\ (i + 1) \div 2 = i \div 2
    BY <1>1, <1>8
  <2>3. Buddy(n) \in Nodes /\ Buddy(n)[1] = l /\ Buddy(n)[2] = i + 1
    BY <1>1, <2>1, PairNode, PersistentAssumption DEF Levels
  <2>4. Buddy(Buddy(n)) = <<l, (i + 1) - 1>>
    BY <2>2, <2>3 DEF Buddy
  <2>5. Parent(Buddy(n)) = <<l + 1, i \div 2>>
    BY <2>2, <2>3 DEF Parent
  <2>6. Buddy(n) # Root /\ Buddy(n) # n
    BY <1>1, <2>1 DEF Root
  <2>7. Buddy(Buddy(n)) = n
    BY <1>1, <2>4
  <2> QED BY <1>4, <1>5, <1>6, <1>7, <2>1, <2>3, <2>5, <2>6, <2>7
<1>9. CASE i % 2 # 0
  <2>1. Buddy(n) = <<l, i - 1>> /\ i - 1 \in 0 .. Width[l] - 1
    BY <1>1, <1>2, <1>9 DEF Buddy
  <2>2. (i - 1) % 2 = 0 /\ (i - 1) \div 2 = i \div 2
    BY <1>1, <1>9
  <2>3. Buddy(n) \in Nodes /\ Buddy(n)[1] = l /\ Buddy(n)[2] = i - 1
    BY <1>1, <2>1, PairNode, PersistentAssumption DEF Levels
  <2>4. Buddy(Buddy(n)) = <<l, (i - 1) + 1>>
    BY <2>2, <2>3 DEF Buddy
  <2>5. Parent(Buddy(n)) = <<l + 1, i \div 2>>
    BY <2>2, <2>3 DEF Parent
  <2>6. Buddy(n) # Root /\ Buddy(n) # n
    BY <1>1, <2>1 DEF Root
  <2>7. Buddy(Buddy(n)) = n
    BY <1>1, <2>4
  <2> QED BY <1>4, <1>5, <1>6, <1>7, <2>1, <2>3, <2>5, <2>6, <2>7
<1> QED BY <1>8, <1>9

(* Two nodes with one parent are buddies.                                  *)
LEMMA Siblings ==
  ASSUME NEW n \in Nodes, NEW m \in Nodes, n # Root, m # Root,
         Parent(n) = Parent(m)
  PROVE  n = m \/ n = Buddy(m)
<1>1. /\ n = <<n[1], n[2]>> /\ n[1] \in Nat /\ n[2] \in Nat
      /\ m = <<m[1], m[2]>> /\ m[1] \in Nat /\ m[2] \in Nat
  BY NodeShape, PersistentAssumption DEF Levels
<1>2. n[1] = m[1] /\ n[2] \div 2 = m[2] \div 2
  BY <1>1 DEF Parent
<1>3. \/ n[2] = m[2]
      \/ m[2] % 2 = 0 /\ n[2] = m[2] + 1
      \/ m[2] % 2 # 0 /\ n[2] = m[2] - 1
  BY <1>1, <1>2
<1>4. Buddy(m) = IF m[2] % 2 = 0 THEN <<n[1], m[2] + 1>> ELSE <<n[1], m[2] - 1>>
  BY <1>2 DEF Buddy
<1>5. CASE n[2] = m[2]
  BY <1>1, <1>2, <1>5
<1>6. CASE n[2] # m[2]
  <2>1. Buddy(m) = <<n[1], n[2]>>
    BY <1>3, <1>4, <1>6
  <2> QED BY <1>1, <2>1
<1> QED BY <1>5, <1>6

LEMMA Halves ==
  ASSUME NEW i \in Nat
  PROVE  /\ (2 * i) % 2 = 0 /\ (2 * i) \div 2 = i
         /\ (2 * i + 1) % 2 = 1 /\ (2 * i + 1) \div 2 = i
<1>1. ASSUME NEW j \in Nat, j = i + i
      PROVE  j % 2 = 0 /\ j \div 2 = i
  BY <1>1
<1>2. ASSUME NEW j \in Nat, j = i + i
      PROVE  (j + 1) % 2 = 1 /\ (j + 1) \div 2 = i
  BY <1>2
<1>3. 2 * i \in Nat /\ 2 * i = i + i
  OBVIOUS
<1>4. (2 * i) % 2 = 0 /\ (2 * i) \div 2 = i
  BY <1>1, <1>3
<1>5. (2 * i + 1) % 2 = 1 /\ (2 * i + 1) \div 2 = i
  BY <1>2, <1>3
<1> QED BY <1>4, <1>5

(* Going down.                                                             *)
LEMMA Downward ==
  ASSUME NEW n \in Nodes, n[1] > 0
  PROVE  /\ Left(n) \in Nodes \ {Root} /\ Right(n) \in Nodes \ {Root}
         /\ Parent(Left(n)) = n /\ Parent(Right(n)) = n
         /\ Left(n) # n /\ Right(n) # n
         /\ Left(n)[1] = n[1] - 1
         /\ Buddy(Left(n)) = Right(n)
         /\ Buddy(Right(n)) = Left(n)
<1> DEFINE l == n[1]
           i == n[2]
<1>1. n = <<l, i>> /\ l \in 1 .. SEEPROM_SIZE2 /\ i \in 0 .. Width[l] - 1
  BY NodeShape, PersistentAssumption DEF Levels
<1>2. Width[l - 1] = 2 * Width[l] /\ Width[l] \in Nat
  BY <1>1, PersistentAssumption DEF Levels
<1>3. /\ Left(n) = <<l - 1, 2 * i>> /\ 2 * i \in 0 .. Width[l - 1] - 1
      /\ Right(n) = <<l - 1, 2 * i + 1>> /\ 2 * i + 1 \in 0 .. Width[l - 1] - 1
      /\ l - 1 \in 0 .. SEEPROM_SIZE2 - 1
  <2>1. i \in Int /\ 0 <= i /\ i <= Width[l] - 1
    BY <1>1, <1>2
  <2>2. 2 * i \in 0 .. Width[l - 1] - 1 /\ 2 * i + 1 \in 0 .. Width[l - 1] - 1
    BY <1>2, <2>1
  <2>3. l - 1 \in 0 .. SEEPROM_SIZE2 - 1
    BY <1>1, PersistentAssumption
  <2> QED BY <2>2, <2>3 DEF Left, Right
<1>4. /\ (2 * i) % 2 = 0 /\ (2 * i) \div 2 = i
      /\ (2 * i + 1) % 2 = 1 /\ (2 * i + 1) \div 2 = i
  <2>1. i \in Nat
    BY <1>1, <1>2
  <2> QED BY <2>1, Halves
<1>5. /\ Left(n) \in Nodes /\ Left(n)[1] = l - 1 /\ Left(n)[2] = 2 * i
      /\ Right(n) \in Nodes /\ Right(n)[1] = l - 1 /\ Right(n)[2] = 2 * i + 1
  BY <1>3, PairNode, PersistentAssumption DEF Levels
<1>6. Parent(Left(n)) = <<l, i>> /\ Parent(Right(n)) = <<l, i>>
  BY <1>1, <1>4, <1>5 DEF Parent
<1>7. Buddy(Left(n)) = <<l - 1, 2 * i + 1>> /\ Buddy(Right(n)) = <<l - 1, 2 * i>>
  BY <1>1, <1>4, <1>5 DEF Buddy
<1>8. Left(n) # Root /\ Right(n) # Root /\ Left(n) # n /\ Right(n) # n
  BY <1>1, <1>3 DEF Root
<1> QED BY <1>1, <1>3, <1>5, <1>6, <1>7, <1>8

-----------------------------------------------------------------------------
(* The heap: what makes HeapSound inductive.                               *)

(* Only the block at hand and its buddy may both be free in the draft.     *)
DraftMerged ==
  \A n \in Nodes \ {Root} :
    Free(draft, n) /\ Free(draft, Buddy(n)) => n = cur \/ Buddy(n) = cur

(* What the block at hand is, at each point of an operation.               *)
AtHand ==
  /\ pc \in {"idle", "create", "fill"} => draft = nvm
  /\ pc \in {"merge", "split"} => Free(draft, cur)
  /\ pc = "fill" => nvm[cur].kind = "used"

HeapInv ==
  /\ TypeOK
  /\ Tiled(nvm) /\ Merged(nvm)
  /\ Tiled(durable) /\ Merged(durable)
  /\ Tiled(draft) /\ DraftMerged
  /\ AtHand

LEMMA Cells ==
  /\ \A kind \in {"inside", "split", "free", "used"} : Plain(kind) \in Cell
  /\ \A type \in Types, junk \in Junk : Headed(type, junk) \in Cell
  /\ \A name \in Names, type \in Types, data \in Data : Entry(name, type, data) \in Cell
<1>1. \A kind \in {"inside", "split", "free", "used"} : Plain(kind) \in Cell
  BY PersistentAssumption DEF Plain, Cell, Types
<1>2. \A type \in Types, junk \in Junk : Headed(type, junk) \in Cell
  BY PersistentAssumption DEF Headed, Cell
<1>3. \A name \in Names, type \in Types, data \in Data : Entry(name, type, data) \in Cell
  BY DEF Entry, Cell
<1> QED BY <1>1, <1>2, <1>3

LEMMA BlankSound == Blank \in [Nodes -> Cell] /\ Tiled(Blank) /\ Merged(Blank)
<1>1. Blank \in [Nodes -> Cell]
  BY Cells DEF Blank
<1>2. /\ Blank[Root].kind = "free"
      /\ \A n \in Nodes \ {Root} : Blank[n].kind = "inside"
  BY RootNode DEF Blank, Plain
<1>3. Tiled(Blank)
  BY <1>2, Upward DEF Tiled
<1>4. Merged(Blank)
  BY <1>2 DEF Merged, Free
<1> QED BY <1>1, <1>3, <1>4

LEMMA HeapInit == Init => HeapInv
<1> SUFFICES ASSUME Init PROVE HeapInv
  OBVIOUS
<1>1. TypeOK
  BY BlankSound, RootNode, PersistentAssumption
     DEF Init, TypeOK, Ops, FirstPort, Creates, Types
<1>2. DraftMerged
  BY BlankSound DEF Init, DraftMerged, Merged
<1> QED BY <1>1, <1>2, BlankSound DEF Init, HeapInv, AtHand

(* Replacing a used block by a used block, or a free one by a used one,    *)
(* changes neither the tiling nor makes free buddies.                      *)
LEMMA Refill ==
  ASSUME NEW heap \in [Nodes -> Cell], NEW n \in Nodes, NEW cell \in Cell,
         Tiled(heap), heap[n].kind \in {"free", "used"}, cell.kind = "used"
  PROVE  /\ [heap EXCEPT ![n] = cell] \in [Nodes -> Cell]
         /\ Tiled([heap EXCEPT ![n] = cell])
         /\ \A m \in Nodes \ {Root} :
              Free([heap EXCEPT ![n] = cell], m) => Free(heap, m) /\ m # n
<1> DEFINE new == [heap EXCEPT ![n] = cell]
<1>1. new \in [Nodes -> Cell] /\ \A m \in Nodes : new[m] = IF m = n THEN cell ELSE heap[m]
  OBVIOUS
<1> HIDE DEF new
<1>2. Tiled(new)
  BY <1>1, Upward, RootNode DEF Tiled
<1>3. \A m \in Nodes \ {Root} : Free(new, m) => Free(heap, m) /\ m # n
  BY <1>1 DEF Free
<1> QED BY <1>1, <1>2, <1>3 DEF new

(* A used block becomes free.                                              *)
LEMMA Freed ==
  ASSUME NEW heap \in [Nodes -> Cell], NEW n \in Nodes, Tiled(heap),
         heap[n].kind = "used"
  PROVE  /\ [heap EXCEPT ![n] = Plain("free")] \in [Nodes -> Cell]
         /\ Tiled([heap EXCEPT ![n] = Plain("free")])
         /\ \A m \in Nodes \ {Root} :
              Free([heap EXCEPT ![n] = Plain("free")], m) => Free(heap, m) \/ m = n
<1> DEFINE new == [heap EXCEPT ![n] = Plain("free")]
<1>1. /\ new \in [Nodes -> Cell]
      /\ \A m \in Nodes : new[m] = IF m = n THEN Plain("free") ELSE heap[m]
  BY Cells
<1> HIDE DEF new
<1>2. Tiled(new)
  BY <1>1, Upward, RootNode DEF Tiled, Plain
<1>3. \A m \in Nodes \ {Root} : Free(new, m) => Free(heap, m) \/ m = n
  BY <1>1 DEF Free
<1> QED BY <1>1, <1>2, <1>3 DEF new

(* Two free buddies become one free block.                                 *)
Join(heap, n) ==
  [heap EXCEPT ![n] = Plain("inside"), ![Buddy(n)] = Plain("inside"),
               ![Parent(n)] = Plain("free")]

LEMMA Joined ==
  ASSUME NEW heap \in [Nodes -> Cell], NEW n \in Nodes \ {Root}, Tiled(heap),
         Free(heap, n), Free(heap, Buddy(n))
  PROVE  /\ Join(heap, n) \in [Nodes -> Cell]
         /\ Tiled(Join(heap, n))
         /\ \A m \in Nodes : Join(heap, n)[m] = IF m = Parent(n) THEN Plain("free")
                                      ELSE IF m \in {n, Buddy(n)} THEN Plain("inside")
                                      ELSE heap[m]
         /\ heap[Parent(n)].kind = "split"
<1> DEFINE new == Join(heap, n)
<1>1. /\ Buddy(n) \in Nodes \ {Root} /\ Parent(n) \in Nodes
      /\ Parent(n) # n /\ Parent(n) # Buddy(n) /\ Buddy(n) # n
      /\ Parent(Buddy(n)) = Parent(n) /\ Parent(n)[1] > 0
  BY Upward
<1>2. /\ new \in [Nodes -> Cell]
      /\ \A m \in Nodes : new[m] = IF m = Parent(n) THEN Plain("free")
                                   ELSE IF m \in {n, Buddy(n)} THEN Plain("inside")
                                   ELSE heap[m]
  BY <1>1, Cells DEF Join
<1> HIDE DEF new
<1>3. heap[Parent(n)].kind = "split"
  BY <1>1 DEF Tiled, Free
<1>4. new[Root].kind # "inside"
  BY <1>1, <1>2, RootNode DEF Tiled, Plain
<1>5. ASSUME NEW m \in Nodes, m # Root
      PROVE  new[m].kind = "inside" <=> new[Parent(m)].kind # "split"
  <2>1. Parent(m) \in Nodes /\ Parent(m) # m
    BY <1>5, Upward
  <2>2. heap[m].kind = "inside" <=> heap[Parent(m)].kind # "split"
    BY <1>5 DEF Tiled
  <2>3. CASE m \in {n, Buddy(n)}
    BY <1>1, <1>2, <2>3 DEF Plain
  <2>4. CASE m = Parent(n)
    <3>1. Parent(m) \notin {n, Buddy(n), Parent(n)}
      BY <1>3, <2>1, <2>2, <2>4 DEF Free, Tiled
    <3> QED BY <1>2, <1>3, <2>1, <2>2, <2>4, <3>1 DEF Plain
  <2>5. CASE m \notin {n, Buddy(n), Parent(n)}
    <3>1. Parent(m) # Parent(n)
      BY <1>1, <1>5, <2>5, Siblings
    <3> QED BY <1>2, <2>1, <2>2, <2>5, <3>1 DEF Plain, Free
  <2> QED BY <2>3, <2>4, <2>5
<1>6. \A m \in Nodes : m[1] = 0 => new[m].kind # "split"
  BY <1>2 DEF Tiled, Plain
<1> QED BY <1>2, <1>3, <1>4, <1>5, <1>6 DEF Tiled, new

(* A free block becomes two.                                               *)
Halve(heap, n) ==
  [heap EXCEPT ![n] = Plain("split"), ![Left(n)] = Plain("free"),
               ![Right(n)] = Plain("free")]

LEMMA Halved ==
  ASSUME NEW heap \in [Nodes -> Cell], NEW n \in Nodes, n[1] > 0, Tiled(heap),
         Free(heap, n)
  PROVE  /\ Halve(heap, n) \in [Nodes -> Cell]
         /\ Tiled(Halve(heap, n))
         /\ \A m \in Nodes : Halve(heap, n)[m] = IF m = n THEN Plain("split")
                                      ELSE IF m \in {Left(n), Right(n)} THEN Plain("free")
                                      ELSE heap[m]
<1> DEFINE new == Halve(heap, n)
<1>1. /\ Left(n) \in Nodes \ {Root} /\ Right(n) \in Nodes \ {Root}
      /\ Parent(Left(n)) = n /\ Parent(Right(n)) = n
      /\ Left(n) # n /\ Right(n) # n
      /\ Buddy(Left(n)) = Right(n) /\ Buddy(Right(n)) = Left(n)
  BY Downward
<1>2. /\ new \in [Nodes -> Cell]
      /\ \A m \in Nodes : new[m] = IF m = n THEN Plain("split")
                                   ELSE IF m \in {Left(n), Right(n)} THEN Plain("free")
                                   ELSE heap[m]
  BY <1>1, Cells DEF Halve
<1> HIDE DEF new
<1>3. new[Root].kind # "inside"
  BY <1>1, <1>2, RootNode DEF Tiled, Plain
<1>4. heap[Left(n)].kind = "inside" /\ heap[Right(n)].kind = "inside"
  BY <1>1 DEF Tiled, Free
<1>5. ASSUME NEW m \in Nodes, m # Root
      PROVE  new[m].kind = "inside" <=> new[Parent(m)].kind # "split"
  <2>1. Parent(m) \in Nodes /\ Parent(m) # m
    BY <1>5, Upward
  <2>2. heap[m].kind = "inside" <=> heap[Parent(m)].kind # "split"
    BY <1>5 DEF Tiled
  <2>3. CASE m \in {Left(n), Right(n)}
    BY <1>1, <1>2, <2>3 DEF Plain
  <2>4. CASE Parent(m) = n
    BY <1>1, <1>5, <2>3, <2>4, Siblings
  <2>5. CASE m \notin {Left(n), Right(n)} /\ Parent(m) # n
    <3>1. CASE Parent(m) \in {Left(n), Right(n)}
      <4>1. heap[m].kind = "inside"
        BY <1>4, <2>2, <3>1
      <4>2. m # n
        BY <4>1 DEF Free
      <4> QED BY <1>2, <2>1, <2>5, <3>1, <4>1, <4>2 DEF Plain
    <3>2. CASE Parent(m) \notin {Left(n), Right(n)}
      <4>1. new[Parent(m)] = heap[Parent(m)]
        BY <1>2, <2>1, <2>5, <3>2
      <4> QED BY <1>2, <2>2, <2>5, <4>1 DEF Plain, Free
    <3> QED BY <3>1, <3>2
  <2> QED BY <2>3, <2>4, <2>5
<1>6. \A m \in Nodes : m[1] = 0 => new[m].kind # "split"
  BY <1>2, Downward DEF Tiled, Plain
<1> QED BY <1>2, <1>3, <1>5, <1>6 DEF Tiled, new

-----------------------------------------------------------------------------
(* Each action keeps the heap.                                             *)

LEMMA OpTypes ==
  /\ NoOp \in Ops /\ FirstPort \in Ops
  /\ \A name \in Names, type \in Types, data \in Data : Creates(name, type, data) \in Ops
BY PersistentAssumption DEF NoOp, FirstPort, Creates, Ops, Types

LEMMA RequiredLevel ==
  ASSUME TypeOK
  PROVE  Required \in Nat /\ Required \in Levels
BY PersistentAssumption DEF TypeOK, Ops, Required, Values, Levels

LEMMA FinishHeap ==
  ASSUME HeapInv, NEW n \in Nodes, nvm[n].kind = "used", NEW cell \in Cell,
         cell.kind = "used", Finish([nvm EXCEPT ![n] = cell])
  PROVE  HeapInv'
<1> DEFINE heap == [nvm EXCEPT ![n] = cell]
<1>1. /\ heap \in [Nodes -> Cell] /\ Tiled(heap)
      /\ \A m \in Nodes \ {Root} : Free(heap, m) => Free(nvm, m) /\ m # n
  BY Refill DEF HeapInv, TypeOK
<1>2. Merged(heap)
  BY <1>1, Upward DEF HeapInv, Merged
<1>3. /\ nvm' = heap /\ draft' = heap /\ pc' = "idle" /\ op' = NoOp /\ cur' = Root
      /\ durable' = durable /\ torn' = torn
  BY DEF Finish
<1> HIDE DEF heap
<1>4. TypeOK'
  BY <1>1, <1>3, OpTypes, RootNode DEF HeapInv, TypeOK
<1>5. DraftMerged'
  BY <1>2, <1>3 DEF DraftMerged, Merged
<1> QED BY <1>1, <1>2, <1>3, <1>4, <1>5 DEF HeapInv, AtHand

LEMMA OverwriteHeap ==
  ASSUME HeapInv, NEW name \in Names, NEW n \in Nodes, Finds(name, n),
         NEW bytes, NEW data \in Data, Overwrite(n, bytes, data)
  PROVE  HeapInv'
<1>1. nvm[n] \in Cell /\ nvm[n].kind = "used"
  BY DEF HeapInv, TypeOK, Finds, Used
<1>2. LowByte(nvm[n].data, data) \in Data
  BY <1>1, PersistentAssumption DEF Cell
<1>3. Overwritten(nvm[n], bytes, data) \in Cell /\ Overwritten(nvm[n], bytes, data).kind = "used"
  BY <1>1, <1>2 DEF Overwritten, Cell
<1> QED BY <1>1, <1>3, FinishHeap DEF Overwrite

LEMMA StartCreateHeap ==
  ASSUME HeapInv, pc = "idle", NEW new \in Ops, StartCreate(new)
  PROVE  HeapInv'
BY DEF HeapInv, TypeOK, StartCreate, AtHand, DraftMerged

LEMMA StartRemoveHeap ==
  ASSUME HeapInv, pc = "idle", NEW name \in Names, NEW n \in Nodes, Finds(name, n),
         NEW new \in Ops, StartRemove(n, new)
  PROVE  HeapInv'
<1>1. nvm[n].kind = "used"
  BY DEF Finds, Used
<1> DEFINE heap == [nvm EXCEPT ![n] = Plain("free")]
<1>2. /\ heap \in [Nodes -> Cell] /\ Tiled(heap)
      /\ \A m \in Nodes \ {Root} : Free(heap, m) => Free(nvm, m) \/ m = n
      /\ Free(heap, n)
  BY <1>1, Freed DEF HeapInv, TypeOK, Free, Plain
<1>3. /\ draft' = heap /\ pc' = "merge" /\ op' = new /\ cur' = n
      /\ nvm' = nvm /\ durable' = durable /\ torn' = torn
  BY DEF StartRemove
<1> HIDE DEF heap
<1>4. TypeOK'
  BY <1>2, <1>3 DEF HeapInv, TypeOK
<1>5. DraftMerged'
  BY <1>2, <1>3, Upward DEF HeapInv, DraftMerged, Merged
<1> QED BY <1>2, <1>3, <1>4, <1>5 DEF HeapInv, AtHand

LEMMA CallHeap ==
  ASSUME HeapInv, Call
  PROVE  HeapInv'
<1> PICK r \in Requests : \/ Set(r)
                          \/ NewIndexNil(r)
                          \/ NewIndexInt(r)
                          \/ NewIndexFloat(r)
                          \/ NewIndexString(r)
  BY DEF Call
<1>1. pc = "idle" /\ r.name \in Names /\ r.data \in Data
  BY PersistentAssumption DEF Call, Calls
<1>2. \A type \in Types : Creates(r.name, type, r.data) \in Ops
  BY <1>1, OpTypes
<1>3. CASE Set(r)
  BY <1>1, <1>2, <1>3, StartCreateHeap, OverwriteHeap DEF Set, Types
<1>4. CASE NewIndexNil(r)
  BY <1>1, <1>4, OpTypes, StartRemoveHeap DEF NewIndexNil
<1>5. CASE NewIndexInt(r)
  BY <1>1, <1>2, <1>5, StartCreateHeap, StartRemoveHeap, OverwriteHeap
     DEF NewIndexInt, Types
<1>6. CASE NewIndexFloat(r)
  BY <1>1, <1>2, <1>6, StartCreateHeap, StartRemoveHeap, OverwriteHeap
     DEF NewIndexFloat, Types
<1>7. CASE NewIndexString(r)
  BY <1>1, <1>2, <1>7, StartCreateHeap, StartRemoveHeap DEF NewIndexString, Types
<1> QED BY <1>3, <1>4, <1>5, <1>6, <1>7

LEMMA MergeHeap ==
  ASSUME HeapInv, Merge
  PROVE  HeapInv'
<1>1. /\ cur \in Nodes \ {Root} /\ Free(draft, cur) /\ Free(draft, Buddy(cur))
      /\ draft \in [Nodes -> Cell] /\ Tiled(draft)
  BY DEF HeapInv, TypeOK, AtHand, Merge, CanMerge
<1>2. /\ draft' \in [Nodes -> Cell] /\ Tiled(draft')
      /\ \A m \in Nodes : draft'[m] = IF m = Parent(cur) THEN Plain("free")
                                      ELSE IF m \in {cur, Buddy(cur)} THEN Plain("inside")
                                      ELSE draft[m]
  <2>1. draft' = Join(draft, cur)
    BY DEF Merge, Join
  <2> QED BY <1>1, <2>1, Joined
<1>3. Parent(cur) \in Nodes /\ Buddy(Buddy(cur)) = cur
  BY <1>1, Upward
<1>4. TypeOK'
  BY <1>2, <1>3 DEF HeapInv, TypeOK, Merge
<1>5. Free(draft', cur')
  BY <1>2, <1>3 DEF Merge, Free, Plain
<1>6. DraftMerged'
  <2> SUFFICES ASSUME NEW n \in Nodes \ {Root}, Free(draft', n), Free(draft', Buddy(n)),
                      n # Parent(cur), Buddy(n) # Parent(cur)
               PROVE  FALSE
    BY DEF DraftMerged, Merge
  <2>1. Buddy(n) \in Nodes /\ Buddy(Buddy(n)) = n
    BY Upward
  <2>2. n \notin {cur, Buddy(cur)} /\ Buddy(n) \notin {cur, Buddy(cur)}
    BY <1>2, <2>1 DEF Free, Plain
  <2>3. Free(draft, n) /\ Free(draft, Buddy(n))
    BY <1>2, <2>1, <2>2 DEF Free
  <2> QED BY <2>2, <2>3 DEF HeapInv, DraftMerged
<1> QED BY <1>2, <1>4, <1>5, <1>6 DEF HeapInv, Merge, AtHand

LEMMA RemoveHeap ==
  ASSUME HeapInv, Remove
  PROVE  HeapInv'
<1>1. Merged(draft)
  BY Upward DEF HeapInv, TypeOK, DraftMerged, Merged, Remove, CanMerge, AtHand
<1>2. /\ nvm' = draft /\ draft' = draft /\ durable' = durable /\ torn' = torn /\ op' = op
      /\ pc' \in {"create", "idle"} /\ cur' = Root
  BY DEF Remove
<1>3. TypeOK'
  BY <1>2, RootNode DEF HeapInv, TypeOK
<1>4. DraftMerged'
  BY <1>1, <1>2 DEF DraftMerged, Merged
<1> QED BY <1>1, <1>2, <1>3, <1>4 DEF HeapInv, AtHand

LEMMA CreateFailsHeap ==
  ASSUME HeapInv, CreateFails
  PROVE  HeapInv'
<1>1. TypeOK'
  BY OpTypes, RootNode DEF HeapInv, TypeOK, CreateFails, Finish
<1>2. DraftMerged'
  BY DEF HeapInv, CreateFails, Finish, DraftMerged, Merged
<1> QED BY <1>1, <1>2 DEF HeapInv, CreateFails, Finish, AtHand

LEMMA CreateHeap ==
  ASSUME HeapInv, Create
  PROVE  HeapInv'
<1>1. cur' \in Nodes /\ Free(nvm, cur')
  BY DEF Create, Chosen, Fitting
<1>2. TypeOK'
  BY <1>1 DEF HeapInv, TypeOK, Create
<1>3. DraftMerged' /\ draft = nvm
  BY DEF HeapInv, AtHand, Create, DraftMerged, Merged
<1> QED BY <1>1, <1>2, <1>3 DEF HeapInv, Create, AtHand

LEMMA SplitHeap ==
  ASSUME HeapInv, Split
  PROVE  HeapInv'
<1>1. /\ cur \in Nodes /\ cur[1] > 0 /\ Free(draft, cur)
      /\ draft \in [Nodes -> Cell] /\ Tiled(draft)
  BY RequiredLevel, NodeShape, PersistentAssumption
     DEF HeapInv, TypeOK, AtHand, Split, Levels
<1>2. /\ draft' \in [Nodes -> Cell] /\ Tiled(draft')
      /\ \A m \in Nodes : draft'[m] = IF m = cur THEN Plain("split")
                                      ELSE IF m \in {Left(cur), Right(cur)} THEN Plain("free")
                                      ELSE draft[m]
  <2>1. draft' = Halve(draft, cur)
    BY DEF Split, Halve
  <2> QED BY <1>1, <2>1, Halved
<1>3. /\ Left(cur) \in Nodes \ {Root} /\ Right(cur) \in Nodes \ {Root}
      /\ Left(cur) # cur
      /\ Buddy(Left(cur)) = Right(cur) /\ Buddy(Right(cur)) = Left(cur)
  BY <1>1, Downward
<1>4. TypeOK'
  BY <1>2, <1>3 DEF HeapInv, TypeOK, Split
<1>5. Free(draft', cur')
  BY <1>2, <1>3 DEF Split, Free, Plain
<1>6. DraftMerged'
  <2> SUFFICES ASSUME NEW n \in Nodes \ {Root}, Free(draft', n), Free(draft', Buddy(n)),
                      n # Left(cur), Buddy(n) # Left(cur)
               PROVE  FALSE
    BY DEF DraftMerged, Split
  <2>1. Buddy(n) \in Nodes /\ Buddy(Buddy(n)) = n
    BY Upward
  <2>2. n # Right(cur) /\ Buddy(n) # Right(cur)
    BY <1>3, <2>1
  <2>3. n # cur /\ Buddy(n) # cur
    BY <1>2, <2>1 DEF Free, Plain
  <2>4. Free(draft, n) /\ Free(draft, Buddy(n))
    BY <1>2, <2>1, <2>2, <2>3 DEF Free
  <2> QED BY <2>3, <2>4 DEF HeapInv, DraftMerged
<1> QED BY <1>2, <1>4, <1>5, <1>6 DEF HeapInv, Split, AtHand

LEMMA AllocateHeap ==
  ASSUME HeapInv, Allocate
  PROVE  HeapInv'
<1> PICK junk \in Junk : nvm' = [draft EXCEPT ![cur] = Headed(op.type, junk)]
  BY DEF Allocate
<1>1. /\ cur \in Nodes /\ Free(draft, cur) /\ draft \in [Nodes -> Cell] /\ Tiled(draft)
      /\ Headed(op.type, junk) \in Cell /\ Headed(op.type, junk).kind = "used"
  BY Cells DEF HeapInv, TypeOK, AtHand, Allocate, Ops, Headed
<1>2. /\ nvm' \in [Nodes -> Cell] /\ Tiled(nvm')
      /\ \A m \in Nodes \ {Root} : Free(nvm', m) => Free(draft, m) /\ m # cur
  BY <1>1, Refill DEF Free
<1>3. Merged(nvm')
  BY <1>2, Upward DEF HeapInv, DraftMerged, Merged
<1>4. TypeOK'
  BY <1>2 DEF HeapInv, TypeOK, Allocate
<1>5. DraftMerged'
  BY <1>3 DEF Allocate, DraftMerged, Merged
<1>6. nvm'[cur'].kind = "used"
  BY <1>1 DEF Allocate
<1> QED BY <1>2, <1>3, <1>4, <1>5, <1>6 DEF HeapInv, Allocate, AtHand

LEMMA FillHeap ==
  ASSUME HeapInv, Fill
  PROVE  HeapInv'
<1>1. cur \in Nodes /\ nvm[cur].kind = "used"
  BY DEF HeapInv, TypeOK, AtHand, Fill
<1>2. Entry(op.name, op.type, op.data) \in Cell /\ Entry(op.name, op.type, op.data).kind = "used"
  BY Cells DEF HeapInv, TypeOK, Ops, Entry
<1> QED BY <1>1, <1>2, FinishHeap DEF Fill

LEMMA CommitHeap ==
  ASSUME HeapInv, Commit
  PROVE  HeapInv'
BY DEF HeapInv, TypeOK, Commit, DraftMerged, AtHand

LEMMA BootHeap ==
  ASSUME HeapInv, Boot
  PROVE  HeapInv'
<1>1. /\ nvm' \in {durable, Blank} /\ draft' = nvm' /\ durable' = durable
      /\ pc' \in {"idle", "create"} /\ op' \in {NoOp, FirstPort} /\ cur' = Root
      /\ torn' \in BOOLEAN
  BY DEF HeapInv, TypeOK, Boot
<1>2. nvm' \in [Nodes -> Cell] /\ Tiled(nvm') /\ Merged(nvm')
  BY <1>1, BlankSound DEF HeapInv, TypeOK
<1>3. TypeOK'
  BY <1>1, <1>2, OpTypes, RootNode DEF HeapInv, TypeOK
<1>4. DraftMerged'
  BY <1>1, <1>2 DEF DraftMerged, Merged
<1> QED BY <1>1, <1>2, <1>3, <1>4 DEF HeapInv, AtHand

LEMMA HeapStep ==
  ASSUME HeapInv, [Next]_vars
  PROVE  HeapInv'
<1>1. CASE UNCHANGED vars
  BY <1>1 DEF HeapInv, TypeOK, DraftMerged, AtHand, vars
<1>2. CASE Next
  BY <1>2, CallHeap, MergeHeap, RemoveHeap, CreateFailsHeap, CreateHeap, SplitHeap,
     AllocateHeap, FillHeap, CommitHeap, BootHeap DEF Next
<1> QED BY <1>1, <1>2

LEMMA HeapAlways == Spec => []HeapInv
BY HeapInit, HeapStep, PTL DEF Spec

(* Whatever is called, and whenever the power goes, the state is typed.    *)
THEOREM PersistentTypes == Spec => []TypeOK
<1>1. HeapInv => TypeOK
  BY DEF HeapInv
<1> QED BY <1>1, HeapAlways, PTL

(* The memory can be walked, by _find() or by init() after a power loss,   *)
(* between any two stores of _create() and _remove(): the blocks tile it   *)
(* and no two free buddies are left apart.                                 *)
THEOREM HeapIsSound == Spec => []HeapSound
<1>1. HeapInv => HeapSound
  BY DEF HeapInv, HeapSound
<1> QED BY <1>1, HeapAlways, PTL

-----------------------------------------------------------------------------
(* Entries: what makes NamesUnique inductive.                              *)

Live(heap) == {n \in Nodes : heap[n].kind = "used" /\ heap[n].filled}

Unique(heap) == \A name \in Names : \A n, m \in Filled(heap, name) : n = m

(* The draft has the entries of the heap, less the one being removed.      *)
Pending ==
  IF pc = "merge"
  THEN \E n \in Live(nvm) :
         /\ nvm[n].name \in Names
         /\ op.create => op.name = nvm[n].name
         /\ Live(draft) = Live(nvm) \ {n}
         /\ \A m \in Live(draft) : draft[m] = nvm[m]
  ELSE /\ Live(draft) = Live(nvm)
       /\ \A m \in Live(draft) : draft[m] = nvm[m]

(* Only the entry being made is unfilled.                                  *)
Complete(heap) ==
  \A n \in Nodes : heap[n].kind = "used" /\ ~ heap[n].filled => pc = "fill" /\ n = cur

EntriesInv ==
  ~ torn =>
    /\ Unique(nvm)
    /\ Pending
    /\ Complete(nvm) /\ Complete(draft)
    /\ pc \in {"create", "split", "fill"} => Filled(nvm, op.name) = {}
    /\ pc = "fill" => ~ nvm[cur].filled
    /\ ~ Unfilled(durable) => Unique(durable)

LEMMA FilledLive ==
  ASSUME NEW heap, NEW name
  PROVE  Filled(heap, name) = {n \in Live(heap) : heap[n].name = name}
BY DEF Filled, Used, Live

(* Heaps with the same entries have the same map.                          *)
LEMMA SameEntries ==
  ASSUME NEW heap, NEW new, Live(new) = Live(heap),
         \A n \in Live(heap) : new[n] = heap[n]
  PROVE  /\ \A name : Filled(new, name) = Filled(heap, name)
         /\ MapOf(new) = MapOf(heap)
         /\ Known(new) = Known(heap)
<1>1. ASSUME NEW name PROVE Filled(new, name) = Filled(heap, name)
  BY FilledLive
<1>2. \A name, n : n \in Filled(heap, name) => new[n] = heap[n]
  BY FilledLive
<1>3. Known(new) = Known(heap)
  BY <1>1, <1>2 DEF Known
<1>4. ASSUME NEW name \in Names
      PROVE  (IF Filled(new, name) = {} THEN NoValue
              ELSE LET n == CHOOSE n \in Filled(new, name) : TRUE IN
                   <<new[n].type, new[n].data>>)
             = (IF Filled(heap, name) = {} THEN NoValue
                ELSE LET n == CHOOSE n \in Filled(heap, name) : TRUE IN
                     <<heap[n].type, heap[n].data>>)
  <2>1. Filled(new, name) = Filled(heap, name)
    BY <1>1
  <2>2. Filled(heap, name) # {} =>
          (CHOOSE n \in Filled(heap, name) : TRUE) \in Filled(heap, name)
    OBVIOUS
  <2> QED BY <1>2, <2>1, <2>2
<1>5. MapOf(new) = MapOf(heap)
  BY <1>4 DEF MapOf
<1> QED BY <1>1, <1>3, <1>5

LEMMA EntriesInit == Init => EntriesInv
<1>1. Live(Blank) = {}
  BY RootNode DEF Live, Blank, Plain
<1>2. \A name : Filled(Blank, name) = {}
  BY <1>1, FilledLive
<1>3. \A n \in Nodes : Blank[n].kind # "used"
  BY DEF Blank, Plain
<1> QED BY <1>1, <1>2, <1>3 DEF Init, EntriesInv, Unique, Pending, Complete

(* An entry is rewritten where it is.                                      *)
LEMMA OverwriteEntries ==
  ASSUME HeapInv, EntriesInv, pc = "idle", NEW name \in Names, NEW n \in Nodes,
         Finds(name, n), NEW bytes, NEW data \in Data, Overwrite(n, bytes, data), ~ torn
  PROVE  /\ Live(nvm') = Live(nvm) /\ n \in Live(nvm)
         /\ \A m \in Nodes : m # n => nvm'[m] = nvm[m]
         /\ nvm'[n].name = nvm[n].name /\ nvm'[n].type = nvm[n].type
         /\ nvm'[n].data \in Data
         /\ nvm'[n].kind = "used"
         /\ EntriesInv'
<1>1. /\ nvm[n] \in Cell /\ nvm[n].kind = "used" /\ nvm[n].name = name /\ nvm[n].filled
      /\ nvm \in [Nodes -> Cell]
  BY DEF HeapInv, TypeOK, Finds, Used, EntriesInv, Complete
<1>2. LowByte(nvm[n].data, data) \in Data
  BY <1>1, PersistentAssumption DEF Cell
<1> DEFINE cell == Overwritten(nvm[n], bytes, data)
<1>3. /\ cell.name = name /\ cell.type = nvm[n].type /\ cell.kind = "used" /\ cell.filled
      /\ cell.data \in Data
  BY <1>1, <1>2 DEF Overwritten, Cell
<1>4. /\ nvm' = [nvm EXCEPT ![n] = cell] /\ draft' = nvm' /\ pc' = "idle"
      /\ durable' = durable /\ torn' = torn
  BY DEF Overwrite, Finish
<1> HIDE DEF cell
<1>5. \A m \in Nodes : nvm'[m] = IF m = n THEN cell ELSE nvm[m]
  BY <1>1, <1>4
<1>6. Live(nvm') = Live(nvm) /\ \A m \in Nodes : nvm'[m].name = nvm[m].name
  BY <1>1, <1>3, <1>5 DEF Live
<1>7. \A x : Filled(nvm', x) = Filled(nvm, x)
  BY <1>6, FilledLive DEF Live
<1>8. Unique(nvm')
  BY <1>7 DEF EntriesInv, Unique
<1>9. Complete(nvm)'
  BY <1>1, <1>3, <1>5 DEF EntriesInv, Complete
<1>10. EntriesInv'
  BY <1>4, <1>8, <1>9 DEF EntriesInv, Pending, Complete, Unique, Unfilled
<1> QED BY <1>1, <1>3, <1>5, <1>6, <1>10 DEF Live

LEMMA StartCreateEntries ==
  ASSUME HeapInv, EntriesInv, pc = "idle", NEW new \in Ops, Absent(new.name),
         StartCreate(new)
  PROVE  EntriesInv'
<1>1. Filled(nvm, new.name) = {}
  BY DEF Absent, Filled
<1> QED BY <1>1 DEF StartCreate, EntriesInv, Pending, Complete, Unique, Filled, Used,
          Unfilled, Live

LEMMA StartRemoveEntries ==
  ASSUME HeapInv, EntriesInv, pc = "idle", NEW name \in Names, NEW n \in Nodes,
         Finds(name, n), NEW new \in Ops, new.create => new.name = name,
         StartRemove(n, new)
  PROVE  EntriesInv'
<1> SUFFICES ASSUME ~ torn PROVE EntriesInv'
  BY DEF EntriesInv, StartRemove
<1>1. /\ nvm[n].kind = "used" /\ nvm[n].name = name /\ nvm[n].filled
      /\ nvm \in [Nodes -> Cell]
  BY DEF HeapInv, TypeOK, Finds, Used, EntriesInv, Complete
<1>2. \A m \in Nodes : draft'[m] = IF m = n THEN Plain("free") ELSE nvm[m]
  BY <1>1 DEF StartRemove
<1>3. n \in Live(nvm) /\ Live(draft') = Live(nvm) \ {n}
  BY <1>1, <1>2 DEF Live, Plain
<1>4. \A m \in Live(draft') : draft'[m] = nvm[m]
  BY <1>2, <1>3 DEF Live
<1>5. Pending'
  BY <1>1, <1>3, <1>4 DEF Pending, StartRemove
<1>6. Complete(nvm)' /\ Complete(draft)'
  BY <1>2 DEF EntriesInv, Complete, StartRemove, Plain
<1> QED BY <1>5, <1>6 DEF StartRemove, EntriesInv, Unique, Filled, Used, Unfilled

LEMMA CallEntries ==
  ASSUME HeapInv, EntriesInv, Call
  PROVE  EntriesInv'
<1> PICK r \in Requests : \/ Set(r)
                          \/ NewIndexNil(r)
                          \/ NewIndexInt(r)
                          \/ NewIndexFloat(r)
                          \/ NewIndexString(r)
  BY DEF Call
<1>1. pc = "idle" /\ r.name \in Names /\ r.data \in Data
  BY PersistentAssumption DEF Call, Calls
<1>2. \A type \in Types : /\ Creates(r.name, type, r.data) \in Ops
                          /\ Creates(r.name, type, r.data).name = r.name
  BY <1>1, OpTypes DEF Creates
<1>3. ASSUME NEW type \in Types, Absent(r.name), StartCreate(Creates(r.name, type, r.data))
      PROVE  EntriesInv'
  BY <1>1, <1>2, <1>3, StartCreateEntries
<1>4. ASSUME NEW type \in Types, NEW n \in Nodes, Finds(r.name, n),
             StartRemove(n, Creates(r.name, type, r.data))
      PROVE  EntriesInv'
  BY <1>1, <1>2, <1>4, StartRemoveEntries
<1>5. ASSUME NEW n \in Nodes, Finds(r.name, n), NEW bytes, Overwrite(n, bytes, r.data)
      PROVE  EntriesInv'
  <2>1. CASE torn
    BY <1>5, <2>1 DEF EntriesInv, Overwrite, Finish
  <2> QED BY <1>1, <1>5, <2>1, OverwriteEntries
<1>6. CASE Set(r)
  BY <1>3, <1>5, <1>6 DEF Set, Types
<1>7. CASE NewIndexNil(r)
  <2>1. NoOp \in Ops /\ ~ NoOp.create
    BY OpTypes DEF NoOp
  <2> QED BY <1>1, <1>7, <2>1, StartRemoveEntries DEF NewIndexNil
<1>8. CASE NewIndexInt(r)
  BY <1>3, <1>4, <1>5, <1>8 DEF NewIndexInt, Types
<1>9. CASE NewIndexFloat(r)
  BY <1>3, <1>4, <1>5, <1>9 DEF NewIndexFloat, Types
<1>10. CASE NewIndexString(r)
  BY <1>3, <1>4, <1>10 DEF NewIndexString, Types
<1> QED BY <1>6, <1>7, <1>8, <1>9, <1>10

(* Moving the borders of free blocks touches no entry.                     *)
LEMMA MergeEntries ==
  ASSUME HeapInv, EntriesInv, Merge
  PROVE  EntriesInv'
<1>1. /\ cur \in Nodes \ {Root} /\ Free(draft, cur) /\ Free(draft, Buddy(cur))
      /\ draft \in [Nodes -> Cell] /\ Tiled(draft) /\ draft' = Join(draft, cur)
  BY DEF HeapInv, TypeOK, AtHand, Merge, CanMerge, Join
<1>2. /\ \A m \in Nodes : draft'[m] = IF m = Parent(cur) THEN Plain("free")
                                      ELSE IF m \in {cur, Buddy(cur)} THEN Plain("inside")
                                      ELSE draft[m]
      /\ draft[Parent(cur)].kind = "split"
  BY <1>1, Joined
<1>3. Live(draft') = Live(draft) /\ \A m \in Live(draft) : draft'[m] = draft[m]
  BY <1>1, <1>2 DEF Live, Plain, Free
<1>4. Complete(draft) => Complete(draft)'
  BY <1>2 DEF Complete, Plain, Merge
<1>5. Pending => Pending'
  BY <1>3 DEF Pending, Merge
<1>6. Complete(nvm) => Complete(nvm)'
  BY DEF Complete, Merge
<1> QED BY <1>4, <1>5, <1>6 DEF Merge, EntriesInv, Unique, Filled, Used, Unfilled

LEMMA RemoveEntries ==
  ASSUME HeapInv, EntriesInv, Remove, ~ torn
  PROVE  /\ EntriesInv'
         /\ \E n \in Live(nvm) :
              /\ nvm[n].name \in Names
              /\ Live(nvm') = Live(nvm) \ {n}
              /\ \A m \in Live(nvm') : nvm'[m] = nvm[m]
<1>1. PICK n \in Live(nvm) : /\ nvm[n].name \in Names
                             /\ op.create => op.name = nvm[n].name
                             /\ Live(draft) = Live(nvm) \ {n}
                             /\ \A m \in Live(draft) : draft[m] = nvm[m]
  BY DEF EntriesInv, Pending, Remove
<1>2. /\ nvm' = draft /\ draft' = draft /\ durable' = durable /\ torn' = torn /\ op' = op
      /\ pc' = IF op.create THEN "create" ELSE "idle"
      /\ pc = "merge"
  BY DEF Remove
<1>3. \A x : Filled(draft, x) = Filled(nvm, x) \ {n}
  BY <1>1, FilledLive
<1>4. Unique(nvm')
  BY <1>2, <1>3 DEF EntriesInv, Unique
<1>5. op.create => Filled(draft, op.name) = {}
  <2>1. op.create => n \in Filled(nvm, op.name)
    BY <1>1, FilledLive
  <2> QED BY <1>1, <1>3, <2>1 DEF EntriesInv, Unique
<1>6. Complete(nvm)' /\ Complete(draft)'
  BY <1>2 DEF EntriesInv, Complete
<1>7. Pending'
  BY <1>2 DEF Pending
<1> QED BY <1>1, <1>2, <1>4, <1>5, <1>6, <1>7 DEF EntriesInv, Unique, Unfilled

LEMMA CreateEntries ==
  ASSUME HeapInv, EntriesInv, CreateFails \/ Create
  PROVE  EntriesInv'
<1>1. CASE CreateFails
  BY <1>1 DEF CreateFails, Finish, EntriesInv, Unique, Pending, Complete, Filled, Used,
     Unfilled, Live
<1>2. CASE Create
  BY <1>2 DEF Create, EntriesInv, Unique, Pending, Complete, Filled, Used, Unfilled, Live
<1> QED BY <1>1, <1>2

LEMMA SplitEntries ==
  ASSUME HeapInv, EntriesInv, Split
  PROVE  EntriesInv'
<1>1. /\ cur \in Nodes /\ cur[1] > 0 /\ Free(draft, cur)
      /\ draft \in [Nodes -> Cell] /\ Tiled(draft) /\ draft' = Halve(draft, cur)
  BY RequiredLevel, NodeShape, PersistentAssumption
     DEF HeapInv, TypeOK, AtHand, Split, Levels, Halve
<1>2. \A m \in Nodes : draft'[m] = IF m = cur THEN Plain("split")
                                   ELSE IF m \in {Left(cur), Right(cur)} THEN Plain("free")
                                   ELSE draft[m]
  BY <1>1, Halved
<1>3. draft[Left(cur)].kind = "inside" /\ draft[Right(cur)].kind = "inside"
  BY <1>1, Downward DEF Tiled, Free
<1>4. Live(draft') = Live(draft) /\ \A m \in Live(draft) : draft'[m] = draft[m]
  BY <1>1, <1>2, <1>3 DEF Live, Plain, Free
<1>5. Complete(nvm) => Complete(nvm)'
  BY DEF Complete, Split
<1>6. Complete(draft) => Complete(draft)'
  BY <1>2 DEF Complete, Plain, Split
<1>7. Pending => Pending'
  BY <1>4 DEF Pending, Split
<1> QED BY <1>5, <1>6, <1>7 DEF Split, EntriesInv, Unique, Filled, Used, Unfilled

(* The new block is no entry yet.                                          *)
LEMMA AllocateEntries ==
  ASSUME HeapInv, EntriesInv, Allocate, ~ torn
  PROVE  /\ EntriesInv'
         /\ Live(nvm') = Live(nvm) /\ \A m \in Live(nvm) : nvm'[m] = nvm[m]
<1> PICK junk \in Junk : nvm' = [draft EXCEPT ![cur] = Headed(op.type, junk)]
  BY DEF Allocate
<1>1. /\ cur \in Nodes /\ Free(draft, cur) /\ draft \in [Nodes -> Cell]
      /\ pc = "split" /\ pc' = "fill" /\ draft' = nvm' /\ cur' = cur /\ op' = op
      /\ durable' = durable /\ torn' = torn
  BY DEF HeapInv, TypeOK, AtHand, Allocate
<1>2. \A m \in Nodes : nvm'[m] = IF m = cur THEN Headed(op.type, junk) ELSE draft[m]
  BY <1>1
<1>3. Live(nvm') = Live(nvm) /\ \A m \in Live(nvm) : nvm'[m] = nvm[m]
  BY <1>1, <1>2 DEF EntriesInv, Pending, Live, Headed, Free
<1>4. \A x : Filled(nvm', x) = Filled(nvm, x)
  BY <1>3, SameEntries
<1>5. Complete(nvm)'
  BY <1>1, <1>2 DEF EntriesInv, Complete
<1>6. Unique(nvm') /\ Filled(nvm', op.name) = {}
  BY <1>1, <1>4 DEF EntriesInv, Unique
<1>7. ~ nvm'[cur].filled
  BY <1>1, <1>2 DEF Headed
<1> QED BY <1>1, <1>3, <1>5, <1>6, <1>7
     DEF EntriesInv, Pending, Complete, Unique, Unfilled

LEMMA FillEntries ==
  ASSUME HeapInv, EntriesInv, Fill, ~ torn
  PROVE  /\ EntriesInv'
         /\ Filled(nvm, op.name) = {}
         /\ Filled(nvm', op.name) = {cur}
         /\ nvm'[cur] = Entry(op.name, op.type, op.data)
         /\ \A x : x # op.name => Filled(nvm', x) = Filled(nvm, x) \ {cur}
         /\ \A m \in Nodes \ {cur} : nvm'[m] = nvm[m]
<1>1. /\ cur \in Nodes /\ nvm \in [Nodes -> Cell]
      /\ nvm' = [nvm EXCEPT ![cur] = Entry(op.name, op.type, op.data)]
      /\ draft' = nvm' /\ pc' = "idle" /\ durable' = durable /\ torn' = torn
      /\ pc = "fill"
  BY DEF HeapInv, TypeOK, Fill, Finish
<1>2. \A m \in Nodes : nvm'[m] = IF m = cur THEN Entry(op.name, op.type, op.data) ELSE nvm[m]
  BY <1>1
<1>3. Filled(nvm, op.name) = {}
  BY <1>1 DEF EntriesInv
<1>4. Filled(nvm', op.name) = {cur}
  BY <1>1, <1>2, <1>3 DEF Filled, Used, Entry
<1>5. \A x : x # op.name => Filled(nvm', x) = Filled(nvm, x) \ {cur}
  BY <1>1, <1>2 DEF Filled, Used, Entry
<1>6. Unique(nvm')
  BY <1>4, <1>5 DEF EntriesInv, Unique
<1>7. Complete(nvm)'
  BY <1>1, <1>2 DEF EntriesInv, Complete, Entry
<1>8. EntriesInv'
  BY <1>1, <1>6, <1>7 DEF EntriesInv, Pending, Complete, Unique, Unfilled
<1> QED BY <1>1, <1>2, <1>3, <1>4, <1>5, <1>8

LEMMA CommitEntries ==
  ASSUME HeapInv, EntriesInv, Commit
  PROVE  EntriesInv'
BY DEF EntriesInv, Commit, Unique, Pending, Complete, Filled, Used, Unfilled, Live

LEMMA BootEntries ==
  ASSUME HeapInv, EntriesInv, Boot
  PROVE  EntriesInv'
<1> SUFFICES ASSUME ~ torn' PROVE EntriesInv'
  BY DEF EntriesInv
<1>1. /\ ~ torn /\ draft' = nvm' /\ durable' = durable /\ ~ Unfilled(nvm')
      /\ pc' \in {"idle", "create"}
  BY DEF Boot
<1>2. Complete(nvm)'
  BY <1>1 DEF Complete, Unfilled
<1>3. CASE Anchored(durable)
  BY <1>1, <1>2, <1>3
     DEF Boot, EntriesInv, Unique, Pending, Complete, Filled, Used, Unfilled, Live
<1>4. CASE ~ Anchored(durable)
  <2>1. nvm' = Blank
    BY <1>4 DEF Boot
  <2>2. \A x : Filled(nvm', x) = {}
    BY <2>1 DEF Filled, Used, Blank, Plain
  <2> QED BY <1>1, <1>2, <2>2 DEF EntriesInv, Unique, Pending, Complete, Unfilled
<1> QED BY <1>3, <1>4

LEMMA EntriesStep ==
  ASSUME HeapInv, EntriesInv, [Next]_vars
  PROVE  EntriesInv'
<1>1. CASE UNCHANGED vars
  BY <1>1 DEF EntriesInv, Unique, Pending, Complete, Filled, Used, Unfilled, Live, vars
<1>2. CASE Next /\ torn /\ torn'
  BY <1>2 DEF EntriesInv
<1>3. torn => ([Next]_vars => torn')
  BY DEF Next, Call, Set, NewIndexNil, NewIndexInt, NewIndexFloat, NewIndexString,
     Overwrite, StartCreate, StartRemove, Finish, Merge, Remove, CreateFails, Create,
     Split, Allocate, Fill, Commit, Boot, vars
<1>4. CASE Next /\ ~ torn
  BY <1>4, CallEntries, MergeEntries, RemoveEntries, CreateEntries, SplitEntries,
     AllocateEntries, FillEntries, CommitEntries, BootEntries DEF Next
<1> QED BY <1>1, <1>2, <1>3, <1>4

LEMMA EntriesAlways == Spec => [](HeapInv /\ EntriesInv)
<1>1. Init => HeapInv /\ EntriesInv
  BY HeapInit, EntriesInit
<1>2. (HeapInv /\ EntriesInv) /\ [Next]_vars => (HeapInv /\ EntriesInv)'
  BY HeapStep, EntriesStep
<1> QED BY <1>1, <1>2, PTL DEF Spec

(* Though _create() stops looking at the first block that fits, no name    *)
(* comes to have two entries while no power loss has torn one.             *)
THEOREM OneEntryPerName == Spec => []NamesUnique
<1>1. EntriesInv => NamesUnique
  BY DEF EntriesInv, NamesUnique, Unique
<1> QED BY <1>1, EntriesAlways, PTL

-----------------------------------------------------------------------------
(* The heap implements the map.                                            *)

LEMMA NextMap ==
  /\ MapOf(nvm)' = MapOf(nvm') /\ Known(nvm)' = Known(nvm')
  /\ MapOf(durable)' = MapOf(durable') /\ Known(durable)' = Known(durable')
BY DEF MapOf, Known, Filled, Used

LEMMA BlankMap ==
  /\ MapOf(Blank) = [name \in Names |-> NoValue]
  /\ Known(Blank) = FALSE
<1>1. \A x : Filled(Blank, x) = {}
  BY DEF Filled, Used, Blank, Plain
<1> QED BY <1>1 DEF MapOf, Known

(* The value found under a name that has one entry.                        *)
LEMMA OneEntry ==
  ASSUME NEW heap, NEW name \in Names, NEW n, Filled(heap, name) = {n}
  PROVE  MapOf(heap)[name] = <<heap[n].type, heap[n].data>>
<1>1. (CHOOSE m \in {n} : TRUE) = n
  OBVIOUS
<1> QED BY <1>1 DEF MapOf

LEMMA NoEntry ==
  ASSUME NEW heap, NEW name \in Names, Filled(heap, name) = {}
  PROVE  MapOf(heap)[name] = NoValue
BY DEF MapOf

(* Only the entry of one name differs.                                     *)
LEMMA OtherEntries ==
  ASSUME NEW heap, NEW new, NEW x \in Names,
         Filled(new, x) = Filled(heap, x),
         \A n \in Filled(heap, x) : new[n] = heap[n]
  PROVE  MapOf(new)[x] = MapOf(heap)[x]
<1>1. Filled(heap, x) # {} =>
        (CHOOSE n \in Filled(heap, x) : TRUE) \in Filled(heap, x)
  OBVIOUS
<1> QED BY <1>1 DEF MapOf

LEMMA MapShape ==
  ASSUME NEW heap
  PROVE  MapOf(heap) = [x \in Names |-> MapOf(heap)[x]]
BY DEF MapOf

LEMMA AbstractInit == Init => Abstract!Init
<1> SUFFICES ASSUME Init PROVE Abstract!Init
  OBVIOUS
<1>1. nvm = Blank /\ durable = Blank /\ torn = FALSE
  BY DEF Init
<1>2. /\ MapOf(nvm) = [n \in Names |-> NoValue] /\ MapOf(durable) = MapOf(nvm)
      /\ Known(nvm) = FALSE /\ Known(durable) = FALSE
  BY <1>1, BlankMap
<1> QED BY <1>1, <1>2 DEF Abstract!Init, Abstract!Empty

(* No entry changes: a stutter.                                            *)
LEMMA Stutter ==
  ASSUME Live(nvm') = Live(nvm), \A n \in Live(nvm) : nvm'[n] = nvm[n],
         durable' = durable, torn' = torn
  PROVE  UNCHANGED Abstract!vars
<1>1. MapOf(nvm') = MapOf(nvm) /\ Known(nvm') = Known(nvm)
  BY SameEntries
<1> QED BY <1>1 DEF Abstract!vars, MapOf, Known, Filled, Used

LEMMA OverwritePut ==
  ASSUME HeapInv, EntriesInv, pc = "idle", NEW name \in Names, NEW n \in Nodes,
         Finds(name, n), NEW bytes, NEW data \in Data, Overwrite(n, bytes, data), ~ torn
  PROVE  \E v \in Values : Abstract!Put(name, v)
<1> DEFINE v == <<nvm'[n].type, nvm'[n].data>>
<1>1. /\ Live(nvm') = Live(nvm) /\ n \in Live(nvm)
      /\ \A m \in Nodes : m # n => nvm'[m] = nvm[m]
      /\ nvm'[n].name = nvm[n].name /\ nvm'[n].type = nvm[n].type /\ nvm'[n].kind = "used"
      /\ nvm'[n].data \in Data
  BY OverwriteEntries
<1>2. nvm[n].name = name /\ nvm[n].type \in Types
  BY DEF Finds, Used, HeapInv, TypeOK, Cell
<1>3. v \in Values
  BY <1>1, <1>2 DEF Values
<1>4. \A x : Filled(nvm', x) = Filled(nvm, x)
  BY <1>1, FilledLive DEF Live
<1>5. Filled(nvm', name) = {n}
  <2>1. n \in Filled(nvm, name)
    BY <1>1, <1>2, FilledLive
  <2> QED BY <1>4, <2>1 DEF EntriesInv, Unique
<1>6. MapOf(nvm')[name] = v
  BY <1>5, OneEntry
<1>7. ASSUME NEW x \in Names, x # name
      PROVE  MapOf(nvm')[x] = MapOf(nvm)[x]
  <2>1. \A m \in Filled(nvm, x) : nvm'[m] = nvm[m]
    BY <1>1, <1>2, <1>7 DEF Filled, Used
  <2> QED BY <1>4, <2>1, OtherEntries
<1>8. MapOf(nvm') = [MapOf(nvm) EXCEPT ![name] = v]
  BY <1>6, <1>7, MapShape
<1>9. Known(nvm') = Known(nvm)
  <2>1. \A m \in Filled(nvm, First) : nvm'[m].type = nvm[m].type
    BY <1>1 DEF Filled, Used
  <2> QED BY <1>4, <2>1 DEF Known
<1>10. durable' = durable /\ torn' = torn
  BY DEF Overwrite, Finish
<1> QED BY <1>3, <1>8, <1>9, <1>10, NextMap DEF Abstract!Put

LEMMA RemoveDelete ==
  ASSUME HeapInv, EntriesInv, Remove, ~ torn
  PROVE  \E name \in Names : Abstract!Delete(name)
<1>1. PICK n \in Live(nvm) : /\ nvm[n].name \in Names
                             /\ Live(nvm') = Live(nvm) \ {n}
                             /\ \A m \in Live(nvm') : nvm'[m] = nvm[m]
  BY RemoveEntries
<1> DEFINE name == nvm[n].name
<1>2. n \in Filled(nvm, name)
  BY <1>1, FilledLive
<1>3. Filled(nvm, name) = {n}
  BY <1>1, <1>2 DEF EntriesInv, Unique
<1>4. \A x : Filled(nvm', x) = Filled(nvm, x) \ {n}
  BY <1>1, FilledLive
<1>5. MapOf(nvm')[name] = NoValue
  BY <1>1, <1>3, <1>4, NoEntry
<1>6. \A x : x # name => Filled(nvm', x) = Filled(nvm, x)
  BY <1>4 DEF Filled, Used
<1>7. \A x : \A m \in Filled(nvm', x) : nvm'[m] = nvm[m]
  BY <1>1, FilledLive
<1>8. ASSUME NEW x \in Names, x # name
      PROVE  MapOf(nvm')[x] = MapOf(nvm)[x]
  BY <1>6, <1>7, <1>8, OtherEntries
<1>9. MapOf(nvm') = [MapOf(nvm) EXCEPT ![name] = NoValue]
  BY <1>5, <1>8, MapShape
<1>10. Known(nvm') = (Known(nvm) /\ name # First)
  <2>1. CASE name = First
    BY <1>3, <1>4, <2>1 DEF Known
  <2>2. CASE name # First
    <3>1. Filled(nvm', First) = Filled(nvm, First)
      BY <1>6, <2>2
    <3>2. \A m \in Filled(nvm, First) : nvm'[m].type = nvm[m].type
      BY <1>7, <3>1
    <3> QED BY <2>2, <3>1, <3>2 DEF Known
  <2> QED BY <2>1, <2>2
<1>11. durable' = durable /\ torn' = torn
  BY DEF Remove
<1> QED BY <1>1, <1>9, <1>10, <1>11, NextMap DEF Abstract!Delete

LEMMA FillPut ==
  ASSUME HeapInv, EntriesInv, Fill, ~ torn
  PROVE  \E name \in Names : \E v \in Values : Abstract!Put(name, v)
<1> DEFINE v == <<op.type, op.data>>
<1>1. op.name \in Names /\ v \in Values
  BY DEF HeapInv, TypeOK, Ops, Values
<1>2. /\ Filled(nvm, op.name) = {}
      /\ Filled(nvm', op.name) = {cur}
      /\ nvm'[cur] = Entry(op.name, op.type, op.data)
      /\ \A x : x # op.name => Filled(nvm', x) = Filled(nvm, x) \ {cur}
      /\ \A m \in Nodes \ {cur} : nvm'[m] = nvm[m]
  BY FillEntries
<1>3. \A x : x # op.name => Filled(nvm', x) = Filled(nvm, x)
  <2>1. \A x : cur \notin Filled(nvm, x) \/ x = op.name
    BY DEF EntriesInv, Fill, Filled
  <2> QED BY <1>2, <2>1
<1>4. MapOf(nvm')[op.name] = v
  BY <1>1, <1>2, OneEntry DEF Entry
<1>5. ASSUME NEW x \in Names, x # op.name
      PROVE  /\ Filled(nvm', x) = Filled(nvm, x)
             /\ \A m \in Filled(nvm, x) : nvm'[m] = nvm[m]
  <2>1. Filled(nvm', x) = Filled(nvm, x) /\ cur \notin Filled(nvm, x)
    BY <1>2, <1>3, <1>5
  <2> QED BY <1>2, <2>1 DEF Filled, Used
<1>6. \A x \in Names : x # op.name => MapOf(nvm')[x] = MapOf(nvm)[x]
  BY <1>5, OtherEntries
<1>7. MapOf(nvm') = [MapOf(nvm) EXCEPT ![op.name] = v]
  BY <1>4, <1>6, MapShape
<1>8. /\ Known(nvm) => Known(nvm')
      /\ op.name # First => Known(nvm') = Known(nvm)
  <2>1. CASE op.name = First
    BY <1>2, <2>1 DEF Known
  <2>2. CASE op.name # First
    <3>1. Filled(nvm', First) = Filled(nvm, First)
      BY <1>3, <2>2
    <3>2. \A m \in Filled(nvm, First) : nvm'[m].type = nvm[m].type
      BY <1>5, <2>2, PersistentAssumption
    <3>3. Known(nvm') = Known(nvm)
      BY <3>1, <3>2 DEF Known
    <3> QED BY <2>2, <3>3
  <2> QED BY <2>1, <2>2
<1>9. durable' = durable /\ torn' = torn
  BY DEF Fill, Finish
<1> QED BY <1>1, <1>7, <1>8, <1>9, NextMap DEF Abstract!Put

LEMMA CommitSave ==
  ASSUME Commit
  PROVE  Abstract!Save
<1>1. durable' = nvm /\ nvm' = nvm /\ torn' = torn
  BY DEF Commit
<1> QED BY <1>1, NextMap DEF Abstract!Save

LEMMA BootBoot ==
  ASSUME HeapInv, Boot, ~ torn'
  PROVE  Abstract!Boot
<1>1. ~ torn /\ durable' = durable /\ ~ Unfilled(nvm')
  BY DEF Boot
<1>2. CASE Anchored(durable)
  <2>1. nvm' = durable
    BY <1>2 DEF Boot
  <2>2. Known(durable) = TRUE
    BY <1>1, <1>2, <2>1 DEF Anchored, Known, Filled, Used, Unfilled
  <2>3. MapOf(nvm)' = MapOf(durable) /\ Known(nvm)' = TRUE
    BY <2>1, <2>2, NextMap
  <2>4. UNCHANGED <<[map |-> MapOf(durable), known |-> Known(durable)], torn>>
    <3>1. MapOf(durable)' = MapOf(durable) /\ Known(durable)' = Known(durable)
      BY <1>1, NextMap
    <3>2. torn' = torn
      BY <1>1 DEF Boot, HeapInv, TypeOK
    <3> QED BY <3>1, <3>2
  <2> QED BY <2>2, <2>3, <2>4 DEF Abstract!Boot
<1>3. CASE ~ Anchored(durable)
  <2>1. nvm' = Blank
    BY <1>3 DEF Boot
  <2>2. Known(durable) = FALSE
    BY <1>3 DEF Anchored, Known, Filled
  <2>3. MapOf(nvm)' = Abstract!Empty /\ Known(nvm)' = FALSE
    BY <2>1, BlankMap, NextMap DEF Abstract!Empty
  <2>4. UNCHANGED <<[map |-> MapOf(durable), known |-> Known(durable)], torn>>
    <3>1. MapOf(durable)' = MapOf(durable) /\ Known(durable)' = Known(durable)
      BY <1>1, NextMap
    <3>2. torn' = torn
      BY <1>1 DEF Boot, HeapInv, TypeOK
    <3> QED BY <3>1, <3>2
  <2> QED BY <2>2, <2>3, <2>4 DEF Abstract!Boot
<1> QED BY <1>2, <1>3

(* Starting an operation changes no entry; overwriting one is a Put.       *)
LEMMA CallAbstract ==
  ASSUME HeapInv, EntriesInv, Call, ~ torn
  PROVE  \/ UNCHANGED Abstract!vars
         \/ \E name \in Names : \E v \in Values : Abstract!Put(name, v)
<1> PICK r \in Requests : \/ Set(r)
                          \/ NewIndexNil(r)
                          \/ NewIndexInt(r)
                          \/ NewIndexFloat(r)
                          \/ NewIndexString(r)
  BY DEF Call
<1>1. pc = "idle" /\ r.name \in Names /\ r.data \in Data
  BY PersistentAssumption DEF Call, Calls
<1>2. ASSUME UNCHANGED <<nvm, durable, torn>>
      PROVE  UNCHANGED Abstract!vars
  BY <1>2, Stutter
<1>3. ASSUME NEW n \in Nodes, Finds(r.name, n), NEW bytes, Overwrite(n, bytes, r.data)
      PROVE  \E name \in Names : \E v \in Values : Abstract!Put(name, v)
  BY <1>1, <1>3, OverwritePut
<1> HIDE DEF Abstract!vars, Abstract!Put
<1> QED BY <1>2, <1>3 DEF Set, NewIndexNil, NewIndexInt, NewIndexFloat, NewIndexString,
          StartCreate, StartRemove

LEMMA AbstractStep ==
  ASSUME HeapInv, EntriesInv, [Next]_vars
  PROVE  [Abstract!Next]_(Abstract!vars)
<1>1. CASE UNCHANGED vars
  BY <1>1, Stutter DEF vars
<1>2. CASE torn \/ torn'
  BY <1>2 DEF Abstract!Next
<1>3. CASE ~ torn /\ ~ torn' /\ (Merge \/ CreateFails \/ Create \/ Split)
  <2>1. nvm' = nvm /\ durable' = durable /\ torn' = torn
    BY <1>3 DEF Merge, CreateFails, Finish, Create, Split
  <2> QED BY <2>1, Stutter
<1>4. CASE ~ torn /\ ~ torn' /\ Allocate
  <2>1. durable' = durable /\ torn' = torn
    BY <1>4 DEF Allocate
  <2> QED BY <1>4, <2>1, AllocateEntries, Stutter
<1>5. CASE ~ torn /\ ~ torn' /\ Call
  BY <1>5, CallAbstract DEF Abstract!Next
<1>6. CASE ~ torn /\ ~ torn' /\ Remove
  BY <1>6, RemoveDelete DEF Abstract!Next
<1>7. CASE ~ torn /\ ~ torn' /\ Fill
  BY <1>7, FillPut DEF Abstract!Next
<1>8. CASE ~ torn /\ ~ torn' /\ Commit
  BY <1>8, CommitSave DEF Abstract!Next
<1>9. CASE ~ torn /\ ~ torn' /\ Boot
  BY <1>9, BootBoot DEF Abstract!Next
<1> QED BY <1>1, <1>2, <1>3, <1>4, <1>5, <1>6, <1>7, <1>8, <1>9 DEF Next

(* Seen through _find(), the buddy heap is a map: an operation changes the *)
(* value of its own name and no other, in one step, and a power loss goes  *)
(* back to what was committed (or to an empty map, if last_host_port was   *)
(* not in its place), as long as it has not torn an entry.                 *)
THEOREM HeapImplementsMap == Spec => ImplementsMap
<1>1. Init => Abstract!Init
  BY AbstractInit
<1>2. HeapInv /\ EntriesInv /\ [Next]_vars => [Abstract!Next]_(Abstract!vars)
  BY AbstractStep
<1> QED BY <1>1, <1>2, EntriesAlways, PTL DEF Spec, ImplementsMap, Abstract!Spec

=============================================================================
