----------------------------- MODULE Persistent -----------------------------
(***************************************************************************)
(* Named values in the SmartEEPROM: persistent/persistent.cpp, its Lua     *)
(* interface (fw.nvm, lua_embedded/lfwlib.cpp) and the hub's use of it.    *)
(*                                                                         *)
(* The memory is a buddy allocator.  A block of size2 = l at offset        *)
(* i * 2^l is the node <<l, i>> of a binary tree whose root is the whole   *)
(* memory; l = 0 stands for the smallest block in use.  A heap says of     *)
(* each node what a walk from begin() to end() makes of it: a block, free  *)
(* or used; "split", if its halves are separate; or "inside" a larger      *)
(* block.  An operation prepares the headers of the new blocks inside a    *)
(* block that is free or about to be (draft), where no walk comes, and     *)
(* makes them visible with the store of a single header.                   *)
(*                                                                         *)
(* The operations hold a mutex, so one runs at a time; the power may go    *)
(* between any two of its stores, and the SmartEEPROM may have committed   *)
(* the stores up to any of them.                                           *)
(***************************************************************************)
EXTENDS Integers

CONSTANTS
  Names,
  First,        (* "last_host_port"                                       *)
  NoName,
  SEEPROM_SIZE2, (* size2 of the whole memory                              *)
  Width,        (* number of nodes of each level                          *)
  Data,         (* contents of values; a byte holds those below BYTE      *)
  BYTE,
  Need,         (* size2 of the block an entry takes                      *)
  Junk,         (* names the memory may hold before one is written        *)
  Requests      (* the calls made                                         *)

Levels == 0 .. SEEPROM_SIZE2
Types == {"T1", "T4", "TFLOAT", "TSTRING"}
Values == Types \X Data

(* d with its lowest byte taken from e.                                   *)
LowByte(d, e) == (d - (d % BYTE)) + (e % BYTE)

Calls == [call : {"set", "nil", "int", "float", "string"},
          name : Names, data : Data]

ASSUME PersistentAssumption ==
  /\ First \in Names
  /\ NoName \notin Names
  /\ SEEPROM_SIZE2 \in Nat
  /\ Width \in [Levels -> Nat]
  /\ Width[SEEPROM_SIZE2] = 1
  /\ \A l \in Levels : l > 0 => Width[l - 1] = 2 * Width[l]
  /\ Data \subseteq Nat
  /\ BYTE \in Nat \ {0}
  /\ \A d, e \in Data : LowByte(d, e) \in Data
  /\ Need \in [Names \X Values -> Levels]
  /\ Junk \subseteq Names \cup {NoName}
  /\ Requests \subseteq Calls
  /\ 1 \in Data

Nodes == UNION {{<<l, i>> : i \in 0 .. Width[l] - 1} : l \in Levels}
Root == <<SEEPROM_SIZE2, 0>>

Buddy(n) == IF n[2] % 2 = 0 THEN <<n[1], n[2] + 1>> ELSE <<n[1], n[2] - 1>>
Parent(n) == <<n[1] + 1, n[2] \div 2>>
Left(n) == <<n[1] - 1, 2 * n[2]>>
Right(n) == <<n[1] - 1, 2 * n[2] + 1>>

(* n begins before m.                                                      *)
Before(n, m) == n[2] * 2 ^ n[1] < m[2] * 2 ^ m[1]

Cell == [kind : {"inside", "split", "free", "used"}, name : Names \cup {NoName},
         type : Types, data : Data, filled : BOOLEAN]

(* A cell that is not an entry.                                            *)
Plain(kind) ==
  [kind |-> kind, name |-> NoName, type |-> "T1", data |-> 1, filled |-> FALSE]

(* The header is written; the bytes of name and value are what the memory  *)
(* had there.                                                              *)
Headed(type, junk) ==
  [kind |-> "used", name |-> junk, type |-> type, data |-> 1, filled |-> FALSE]

Entry(name, type, data) ==
  [kind |-> "used", name |-> name, type |-> type, data |-> data, filled |-> TRUE]

(* block_header(SEEPROM_SIZE2) at the very beginning.                      *)
Blank == [n \in Nodes |-> Plain(IF n = Root THEN "free" ELSE "inside")]

VARIABLES
  nvm,      (* the heap as a walk sees it                                *)
  durable,  (* the heap as it survives a power loss                      *)
  draft,    (* the heap as it will be after the header store             *)
  pc,       (* what the operation that holds the mutex does next         *)
  op,       (* what it is to create: [name, type, data, create]          *)
  cur,      (* found in _create(), it in _remove()                       *)
  torn      (* History: a power loss has left an entry unfilled          *)

vars == <<nvm, durable, draft, pc, op, cur, torn>>

Ops == [name : Names, type : Types, data : Data, create : BOOLEAN]

Creates(name, type, data) ==
  [name |-> name, type |-> type, data |-> data, create |-> TRUE]

(* Nothing to create: no operation, or one that only removes.              *)
NoOp == [name |-> First, type |-> "T1", data |-> 1, create |-> FALSE]

(* The host port first remembered.                                         *)
FirstPort == Creates(First, "T1", 1)

(* A new keyboard boots: nothing in the memory is recognised.              *)
Init ==
  /\ nvm = Blank
  /\ durable = Blank
  /\ draft = Blank
  /\ pc = "create"
  /\ op = FirstPort
  /\ cur = Root
  /\ torn = FALSE

-----------------------------------------------------------------------------
(* Looking things up.                                                      *)

Used(heap, name) == {n \in Nodes : heap[n].kind = "used" /\ heap[n].name = name}

(* _find(): the first of the blocks that have the name.                    *)
Finds(name, n) ==
  /\ n \in Used(nvm, name)
  /\ \A m \in Used(nvm, name) : ~ Before(m, n)

Absent(name) == Used(nvm, name) = {}

Free(heap, n) == heap[n].kind = "free"

(* A set of free nodes _create() chooses from, and its choice: the first   *)
(* of the smallest.                                                        *)
Fitting(level) == {n \in Nodes : Free(nvm, n) /\ n[1] >= level}
Chosen(level, n) ==
  /\ n \in Fitting(level)
  /\ \A m \in Fitting(level) : n[1] < m[1] \/ (n[1] = m[1] /\ n[2] <= m[2])

Required == Need[<<op.name, <<op.type, op.data>>>>]

(* init() recognises the memory by its first entry.                        *)
Anchored(heap) ==
  \E n \in Used(heap, First) : n[2] = 0 /\ heap[n].type = "T1"

-----------------------------------------------------------------------------
(* The end of an operation: the mutex is released.                         *)
Finish(heap) ==
  /\ nvm' = heap
  /\ draft' = heap
  /\ pc' = "idle"
  /\ op' = NoOp
  /\ cur' = Root
  /\ UNCHANGED <<durable, torn>>

(* _set(): no more bytes are copied than the old value has; a string       *)
(* counts as having none, a float as having enough.                        *)
Overwritten(cell, bytes, data) ==
  IF cell.type = "TSTRING" THEN cell
  ELSE IF bytes = 1 \/ cell.type = "T1"
       THEN [cell EXCEPT !.data = LowByte(cell.data, data)]
       ELSE [cell EXCEPT !.data = data]

Overwrite(n, bytes, data) ==
  Finish([nvm EXCEPT ![n] = Overwritten(nvm[n], bytes, data)])

StartCreate(new) ==
  /\ pc' = "create"
  /\ op' = new
  /\ UNCHANGED <<nvm, durable, draft, cur, torn>>

(* _remove(n); a new entry is created afterwards if new.create says so.    *)
StartRemove(n, new) ==
  /\ pc' = "merge"
  /\ op' = new
  /\ cur' = n
  /\ draft' = [nvm EXCEPT ![n] = Plain("free")]
  /\ UNCHANGED <<nvm, durable, torn>>

(* persistent::set<T>(): the hub remembers the host port, in one byte.     *)
Set(r) ==
  /\ r.call = "set"
  /\ \/ Absent(r.name) /\ StartCreate(Creates(r.name, "T1", r.data))
     \/ \E n \in Nodes : Finds(r.name, n) /\ Overwrite(n, 1, r.data)

(* fw.nvm[name] = nil                                                      *)
NewIndexNil(r) ==
  /\ r.call = "nil"
  /\ \E n \in Nodes :
       /\ Finds(r.name, n)
       /\ StartRemove(n, NoOp)

(* fw.nvm[name] = an integer                                               *)
NewIndexInt(r) ==
  LET new == Creates(r.name, "T4", r.data) IN
  /\ r.call = "int"
  /\ \/ Absent(r.name) /\ StartCreate(new)
     \/ \E n \in Nodes :
          /\ Finds(r.name, n)
          /\ IF nvm[n].type \in {"TSTRING", "TFLOAT"}
             THEN StartRemove(n, new)
             ELSE Overwrite(n, 4, r.data)

(* fw.nvm[name] = a float                                                  *)
NewIndexFloat(r) ==
  LET new == Creates(r.name, "TFLOAT", r.data) IN
  /\ r.call = "float"
  /\ \/ Absent(r.name) /\ StartCreate(new)
     \/ \E n \in Nodes :
          /\ Finds(r.name, n)
          /\ IF nvm[n].type = "TFLOAT"
             THEN Overwrite(n, 4, r.data)
             ELSE StartRemove(n, new)

(* Faulty: leaves it to _create() to find the old entry.                   *)
NewIndexStringUnlooked(r) ==
  r.call = "string" /\ StartCreate(Creates(r.name, "TSTRING", r.data))

(* fw.nvm[name] = a string                                                 *)
NewIndexString(r) ==
  LET new == Creates(r.name, "TSTRING", r.data) IN
  /\ r.call = "string"
  /\ \/ Absent(r.name) /\ StartCreate(new)
     \/ \E n \in Nodes : Finds(r.name, n) /\ StartRemove(n, new)

Call ==
  /\ pc = "idle"
  /\ \E r \in Requests :
       \/ Set(r)
       \/ NewIndexNil(r)
       \/ NewIndexInt(r)
       \/ NewIndexFloat(r)
       \/ NewIndexString(r)

-----------------------------------------------------------------------------
(* Faulty: a free block that begins where the buddy does is enough.        *)
CanMergeAnySize ==
  /\ cur # Root
  /\ \E n \in Nodes :
       /\ Free(draft, n)
       /\ n[1] <= cur[1]
       /\ n[2] * 2 ^ n[1] = Buddy(cur)[2] * 2 ^ cur[1]

(* Faulty: the buddy need not be free.                                     *)
CanMergeUsed == cur # Root /\ draft[Buddy(cur)].kind \in {"free", "used"}

(* _remove(): one turn of the loop joins the block with its free buddy.    *)
CanMerge == cur # Root /\ Free(draft, Buddy(cur))

Merge ==
  /\ pc = "merge"
  /\ CanMerge
  /\ draft' = [draft EXCEPT ![cur] = Plain("inside"),
                            ![Buddy(cur)] = Plain("inside"),
                            ![Parent(cur)] = Plain("free")]
  /\ cur' = Parent(cur)
  /\ UNCHANGED <<nvm, durable, pc, op, torn>>

(* The header store that frees the block.                                  *)
Remove ==
  /\ pc = "merge"
  /\ ~ CanMerge
  /\ nvm' = draft
  /\ pc' = IF op.create THEN "create" ELSE "idle"
  /\ cur' = Root
  /\ UNCHANGED <<durable, draft, op, torn>>

(* _create() looks no further than a free block of the very size: a block  *)
(* met before that may have the name already.                              *)
Duplicate(n) ==
  \E m \in Used(nvm, op.name) : n[1] = Required => Before(m, n)

CreateFails ==
  /\ pc = "create"
  /\ \A n \in Nodes : Chosen(Required, n) => Duplicate(n)
  /\ Finish(nvm)

Create ==
  /\ pc = "create"
  /\ \E n \in Nodes :
       /\ Chosen(Required, n)
       /\ ~ Duplicate(n)
       /\ cur' = n
  /\ pc' = "split"
  /\ UNCHANGED <<nvm, durable, draft, op, torn>>

(* One turn of the loop that halves the block.                             *)
Split ==
  /\ pc = "split"
  /\ cur[1] > Required
  /\ draft' = [draft EXCEPT ![cur] = Plain("split"),
                            ![Left(cur)] = Plain("free"),
                            ![Right(cur)] = Plain("free")]
  /\ cur' = Left(cur)
  /\ UNCHANGED <<nvm, durable, pc, op, torn>>

(* The header store that takes the block.                                  *)
Allocate ==
  /\ pc = "split"
  /\ cur[1] = Required
  /\ \E junk \in Junk :
       nvm' = [draft EXCEPT ![cur] = Headed(op.type, junk)]
  /\ draft' = nvm'
  /\ pc' = "fill"
  /\ UNCHANGED <<durable, op, cur, torn>>

(* The name and the value are copied.                                      *)
Fill ==
  /\ pc = "fill"
  /\ Finish([nvm EXCEPT ![cur] = Entry(op.name, op.type, op.data)])

-----------------------------------------------------------------------------
(* The buffered stores are committed: by the timer of _commit_later(), or  *)
(* earlier by the SmartEEPROM.                                             *)
Commit ==
  /\ durable # nvm
  /\ durable' = nvm
  /\ UNCHANGED <<nvm, draft, pc, op, cur, torn>>

Unfilled(heap) == \E n \in Nodes : heap[n].kind = "used" /\ ~ heap[n].filled

(* Power loss, and init() at the next boot.                                *)
Boot ==
  /\ IF Anchored(durable)
     THEN /\ nvm' = durable
          /\ pc' = "idle"
          /\ op' = NoOp
     ELSE /\ nvm' = Blank
          /\ pc' = "create"
          /\ op' = FirstPort
  /\ draft' = nvm'
  /\ cur' = Root
  /\ torn' = (torn \/ Unfilled(nvm'))
  /\ UNCHANGED durable

Next ==
  \/ Call
  \/ Merge
  \/ Remove
  \/ CreateFails
  \/ Create
  \/ Split
  \/ Allocate
  \/ Fill
  \/ Commit
  \/ Boot

Spec == Init /\ [][Next]_vars

-----------------------------------------------------------------------------
(* Properties.                                                             *)

TypeOK ==
  /\ nvm \in [Nodes -> Cell]
  /\ durable \in [Nodes -> Cell]
  /\ draft \in [Nodes -> Cell]
  /\ pc \in {"idle", "merge", "create", "split", "fill"}
  /\ op \in Ops
  /\ cur \in Nodes
  /\ torn \in BOOLEAN

(* The blocks of a heap tile the memory: no byte is lost, none belongs to  *)
(* two blocks.                                                             *)
Tiled(heap) ==
  /\ heap[Root].kind # "inside"
  /\ \A n \in Nodes :
       /\ n # Root => (heap[n].kind = "inside" <=> heap[Parent(n)].kind # "split")
       /\ n[1] = 0 => heap[n].kind # "split"

(* Free space is not scattered: of two buddies one is in use.              *)
Merged(heap) == \A n \in Nodes \ {Root} : ~ (Free(heap, n) /\ Free(heap, Buddy(n)))

(* The heap is sound whenever a walk or a power loss may meet it, in the   *)
(* middle of an operation too: _create() and _remove() make their new      *)
(* blocks visible with one store.                                          *)
HeapSound ==
  /\ Tiled(nvm) /\ Merged(nvm)
  /\ Tiled(durable) /\ Merged(durable)

Filled(heap, name) == {n \in Used(heap, name) : heap[n].filled}

(* No name has two entries, unless a power loss left an entry whose name   *)
(* is whatever the memory held: _create() trusts its caller's _find() for  *)
(* the blocks it does not look at.                                         *)
NamesUnique ==
  ~ torn => \A name \in Names : \A n, m \in Filled(nvm, name) : n = m

(* The map a heap stands for.                                              *)
NoValue == <<"none", 0>>
MapOf(heap) ==
  [name \in Names |->
     IF Filled(heap, name) = {} THEN NoValue
     ELSE LET n == CHOOSE n \in Filled(heap, name) : TRUE IN
          <<heap[n].type, heap[n].data>>]

Known(heap) ==
  \E n \in Filled(heap, First) : n[2] = 0 /\ heap[n].type = "T1"

(* The heap implements the map of NameValues.                              *)
Abstract ==
  INSTANCE NameValues WITH
    map <- MapOf(nvm),
    known <- Known(nvm),
    saved <- [map |-> MapOf(durable), known |-> Known(durable)]
ImplementsMap == Abstract!Spec
=============================================================================
