--------------------------- MODULE MainKeyEvents ---------------------------
(***************************************************************************)
(* The key event queue between matrix_thread and main_thread:              *)
(* lua_embedded/main_key_events.cpp with the loop that fills it            *)
(* (matrix_thread.cpp), the loop that empties it (main_thread.cpp, normal  *)
(* mode) and the defer protocol of the keymap driver (user_logic).         *)
(*                                                                         *)
(* matrix_thread has the higher priority: main_thread takes no step while  *)
(* it can run, but it may wake up between any two steps of main_thread.    *)
(* What a thread does under m_access_lock is one step; releasing           *)
(* m_full_lock afterwards is a step of its own.                            *)
(***************************************************************************)
EXTENDS Integers, Sequences, FiniteSets

CONSTANTS
  NumSlots,     (* key slots, numbered from 1                           *)
  QUEUE_SIZE,   (* capacity of the ring buffer                          *)
  SIZE_T,       (* number of values of a size_t                         *)
  MaxNest,      (* deferrers nested in one keymap                       *)
  Beyond        (* explore what follows once the queue was broken?      *)

ASSUME KeyEventsAssumption ==
  /\ NumSlots \in Nat \ {0}
  /\ QUEUE_SIZE \in Nat \ {0}
  /\ SIZE_T \in Nat
  /\ SIZE_T > QUEUE_SIZE
  /\ SIZE_T % QUEUE_SIZE = 0
  /\ MaxNest \in Nat
  /\ Beyond \in BOOLEAN

Slots == 1 .. NumSlots
KeyEvent == [slot : Slots, press : BOOLEAN]
NoEvent == [slot |-> 0, press |-> FALSE]
NoSlot == 0

VARIABLES
  \* main_key_events.
  m_buffer,     (* the ring buffer                                      *)
  m_push, m_peek, m_pop,
  fullLocked,   (* m_full_lock is locked                                *)
  getMode,      (* m_get: "pop" for try_pop(), "peek" for try_peek()    *)
  \* matrix_thread.
  matrix,       (* "asleep", "resting" between scans, "scanning",       *)
                (* "waiting" for m_full_lock, or "granted" it           *)
  pressing,     (* the keys the last scan found down                    *)
  m_pressed,    (* the keys reported down                               *)
  \* main_thread.
  main,         (* what it does next                                    *)
  flag,         (* FLAG_KEY_EVENT                                       *)
  event,        (* the event it is handling                             *)
  \* The keymap.
  owner,        (* Defer.c_slot_index, NoSlot outside defer mode        *)
  nest,         (* deferrers nested so far                              *)
  down,         (* the keys whose press was executed last               *)
  \* History.
  spurious      (* m_full_lock was released with the queue full         *)

indexVars  == <<m_push, m_peek, m_pop>>
queueVars  == <<m_buffer, indexVars>>
matrixVars == <<pressing, m_pressed>>
keymapVars == <<getMode, owner, nest, down>>
vars == <<queueVars, fullLocked, matrix, matrixVars, main, flag, event,
          keymapVars, spurious>>

Init ==
  /\ m_buffer = [i \in 0 .. QUEUE_SIZE - 1 |-> NoEvent]
  /\ m_push = 0
  /\ m_peek = 0
  /\ m_pop = 0
  /\ fullLocked = FALSE
  /\ getMode = "pop"
  /\ matrix = "asleep"
  /\ pressing = {}
  /\ m_pressed = {}
  /\ main = "wait"
  /\ flag = FALSE
  /\ event = NoEvent
  /\ owner = NoSlot
  /\ nest = 0
  /\ down = {}
  /\ spurious = FALSE

-----------------------------------------------------------------------------
(* Arithmetic on size_t, and what the indices delimit.                     *)

Plus(i, n) == (i + n) % SIZE_T
Minus(i, n) == (i - n) % SIZE_T
At(i) == i % QUEUE_SIZE

Count == Minus(m_push, m_pop)
Deferred == Minus(m_peek, m_pop)

(* Event number n of the queue, counted from the oldest.                   *)
Queued(n) == m_buffer[At(m_pop + n - 1)]
Contents == [n \in 1 .. Count |-> Queued(n)]

(* mutex_unlock(&m_full_lock): to the waiting matrix_thread, if it waits.  *)
UnlockFull ==
  /\ IF matrix = "waiting"
     THEN matrix' = "granted" /\ UNCHANGED fullLocked
     ELSE fullLocked' = FALSE /\ UNCHANGED matrix
  /\ spurious' = (spurious \/ Count = QUEUE_SIZE)

-----------------------------------------------------------------------------
(* matrix_thread.                                                          *)

(* The wake-up by interrupt or by timer, and the debounced scan.  The      *)
(* bound: no key changes any more once m_full_lock was released wrongly.   *)
Scan(found) ==
  /\ matrix \in {"asleep", "resting"}
  /\ Beyond \/ ~ spurious \/ found = pressing
  /\ matrix' = "scanning"
  /\ pressing' = found
  /\ UNCHANGED <<queueVars, fullLocked, m_pressed, main, flag, event,
                 keymapVars, spurious>>

(* Keys are reported in the order of their slots; those already dealt with *)
(* in this scan are the ones whose state agrees.                           *)
Changed == {k \in Slots : (k \in pressing) # (k \in m_pressed)}
Reported(k) ==
  /\ k \in Changed
  /\ \A j \in Changed : k <= j

(* signal_key_event() with room in the queue.                              *)
Push(k) ==
  /\ Reported(k)
  /\ \/ matrix = "scanning" /\ ~ fullLocked
     \/ matrix = "granted"
  /\ m_buffer' = [m_buffer EXCEPT ![At(m_push)] =
                    [slot |-> k, press |-> k \in pressing]]
  /\ m_push' = Plus(m_push, 1)
  /\ fullLocked' = (Minus(m_push', m_pop) >= QUEUE_SIZE)
  /\ matrix' = "scanning"
  /\ m_pressed' = IF k \in pressing THEN m_pressed \cup {k} ELSE m_pressed \ {k}
  /\ flag' = TRUE
  /\ UNCHANGED <<m_peek, m_pop, pressing, main, event, keymapVars, spurious>>

(* ztimer_mutex_lock_timeout() finds m_full_lock locked...                 *)
PushWaits ==
  /\ matrix = "scanning"
  /\ Changed # {}
  /\ fullLocked
  /\ matrix' = "waiting"
  /\ UNCHANGED <<queueVars, fullLocked, matrixVars, main, flag, event,
                 keymapVars, spurious>>

TerminalFull == Deferred = QUEUE_SIZE

(* Faulty: a key counts as reported whether or not the report got through. *)
PushTimeoutForgets ==
  /\ matrix = "waiting"
  /\ ~ TerminalFull
  /\ matrix' = "resting"
  /\ m_pressed' = pressing
  /\ UNCHANGED <<queueVars, fullLocked, pressing, main, flag, event,
                 keymapVars, spurious>>

(* Faulty: a failed report does not keep matrix_thread awake.              *)
PushTimeoutMaySleep ==
  /\ matrix = "waiting"
  /\ ~ TerminalFull
  /\ matrix' = IF pressing = {} THEN "asleep" ELSE "resting"
  /\ UNCHANGED <<queueVars, fullLocked, matrixVars, main, flag, event,
                 keymapVars, spurious>>

(* ... and gives up: the key is reported again by a later scan.            *)
PushTimeout ==
  /\ matrix = "waiting"
  /\ ~ TerminalFull
  /\ matrix' = "resting"
  /\ UNCHANGED <<queueVars, fullLocked, matrixVars, main, flag, event,
                 keymapVars, spurious>>

(* system_reset(), if only deferred events fill the queue.                 *)
SystemReset ==
  /\ matrix = "waiting"
  /\ TerminalFull
  /\ m_buffer' = [i \in 0 .. QUEUE_SIZE - 1 |-> NoEvent]
  /\ m_push' = 0
  /\ m_peek' = 0
  /\ m_pop' = 0
  /\ fullLocked' = FALSE
  /\ getMode' = "pop"
  /\ matrix' = "asleep"
  /\ pressing' = {}
  /\ m_pressed' = {}
  /\ main' = "wait"
  /\ flag' = FALSE
  /\ event' = NoEvent
  /\ owner' = NoSlot
  /\ nest' = 0
  /\ down' = {}
  /\ spurious' = FALSE

(* The scan is over.  matrix_thread sleeps until the next interrupt only   *)
(* if no key is pressed or reported down.                                  *)
ScanDone ==
  /\ matrix = "scanning"
  /\ Changed = {}
  /\ \/ matrix' = "resting"
     \/ matrix' = "asleep" /\ pressing = {} /\ m_pressed = {}
  /\ UNCHANGED <<queueVars, fullLocked, matrixVars, main, flag, event,
                 keymapVars, spurious>>

-----------------------------------------------------------------------------
(* main_thread gets an event...                                            *)

MainRuns(step) ==
  /\ matrix \notin {"scanning", "granted"}
  /\ main = step

(* m_get has an event to return.                                           *)
Available == IF getMode = "pop" THEN m_pop # m_push ELSE m_peek # m_push

(* Faulty: does not reset the peek point.                                  *)
TryPopKeepsPeek ==
  /\ MainRuns("wait")
  /\ flag
  /\ flag' = FALSE
  /\ getMode = "pop"
  /\ m_pop # m_push
  /\ event' = m_buffer[At(m_pop)]
  /\ m_pop' = Plus(m_pop, 1)
  /\ m_peek' = IF Deferred = 0 THEN m_pop' ELSE m_peek
  /\ main' = "popped"
  /\ UNCHANGED <<m_buffer, m_push, fullLocked, matrix, matrixVars, keymapVars,
                 spurious>>

(* try_pop() up to the release of m_access_lock.  It always finds an event *)
(* (FlagMeansEvent), as does try_peek().                                   *)
TryPop ==
  /\ MainRuns("wait")
  /\ flag
  /\ flag' = FALSE
  /\ getMode = "pop"
  /\ m_pop # m_push
  /\ event' = m_buffer[At(m_pop)]
  /\ m_pop' = Plus(m_pop, 1)
  /\ m_peek' = m_pop'
  /\ main' = "popped"
  /\ UNCHANGED <<m_buffer, m_push, fullLocked, matrix, matrixVars, keymapVars,
                 spurious>>

PopUnlocks ==
  /\ MainRuns("popped")
  /\ UnlockFull
  /\ main' = "handle"
  /\ UNCHANGED <<queueVars, matrixVars, flag, event, keymapVars>>

TryPeek ==
  /\ MainRuns("wait")
  /\ flag
  /\ flag' = FALSE
  /\ getMode = "peek"
  /\ m_peek # m_push
  /\ event' = m_buffer[At(m_peek)]
  /\ m_peek' = Plus(m_peek, 1)
  /\ main' = "handle"
  /\ UNCHANGED <<m_buffer, m_push, m_pop, fullLocked, matrix, matrixVars,
                 keymapVars, spurious>>

(* ... and looks for more before it sleeps: get(nullptr).                  *)
DryRun ==
  /\ MainRuns("check")
  /\ IF getMode = "pop" /\ Available
     THEN main' = "dryPopped" /\ UNCHANGED flag
     ELSE main' = "wait" /\ flag' = (flag \/ Available)
  /\ UNCHANGED <<queueVars, fullLocked, matrix, matrixVars, event, keymapVars,
                 spurious>>

(* Faulty: nothing reminds main_thread of the events it has seen.          *)
DryRunForgets ==
  /\ MainRuns("dryPopped")
  /\ UnlockFull
  /\ main' = "wait"
  /\ UNCHANGED <<queueVars, matrixVars, flag, event, keymapVars>>

DryRunUnlocks ==
  /\ MainRuns("dryPopped")
  /\ UnlockFull
  /\ flag' = TRUE
  /\ main' = "wait"
  /\ UNCHANGED <<queueVars, matrixVars, event, keymapVars>>

-----------------------------------------------------------------------------
(* The keymap driver.                                                      *)

Execute(e) == down' = IF e.press THEN down \cup {e.slot} ELSE down \ {e.slot}

StayDeferring == UNCHANGED <<owner, nest, getMode>>

StopDefer ==
  /\ owner' = NoSlot
  /\ nest' = 0
  /\ getMode' = "pop"

(* The last deferrer stops, and the keymap it decides for is another one.  *)
NestDefer ==
  /\ nest < MaxNest
  /\ nest' = nest + 1
  /\ UNCHANGED <<owner, getMode>>

(* Faulty: removing an event does not release m_full_lock.                 *)
RemoveLastKeepsLock ==
  IF m_pop = m_peek
  THEN main' = "check" /\ UNCHANGED queueVars
  ELSE /\ m_buffer' = [i \in DOMAIN m_buffer |->
            IF \E n \in 2 .. Deferred : i = At(m_pop + n - 1)
            THEN m_buffer[At(i - 1)] ELSE m_buffer[i]]
       /\ m_pop' = Plus(m_pop, 1)
       /\ main' = "check"
       /\ UNCHANGED <<m_push, m_peek>>

(* defer_remove_last(), up to the release of m_access_lock: the events     *)
(* before the last deferred one move up by one place.                      *)
RemoveLast ==
  IF m_pop = m_peek
  THEN main' = "check" /\ UNCHANGED queueVars
  ELSE /\ m_buffer' = [i \in DOMAIN m_buffer |->
            IF \E n \in 2 .. Deferred : i = At(m_pop + n - 1)
            THEN m_buffer[At(i - 1)] ELSE m_buffer[i]]
       /\ m_pop' = Plus(m_pop, 1)
       /\ main' = "removed"
       /\ UNCHANGED <<m_push, m_peek>>

RemoveUnlocks ==
  /\ MainRuns("removed")
  /\ UnlockFull
  /\ main' = "check"
  /\ UNCHANGED <<queueVars, matrixVars, flag, event, keymapVars>>

(* Outside defer mode the event is executed; a press may start defer mode. *)
HandleNormal ==
  /\ MainRuns("handle")
  /\ owner = NoSlot
  /\ Execute(event)
  /\ \/ StayDeferring
     \/ /\ event.press
        /\ owner' = event.slot
        /\ nest' = 0
        /\ getMode' = "peek"
  /\ main' = "check"
  /\ UNCHANGED <<queueVars, fullLocked, matrix, matrixVars, flag, event,
                 spurious>>

(* The deferrer's own events are executed at once.                         *)
HandleOwner ==
  /\ MainRuns("handle")
  /\ owner = event.slot
  /\ Execute(event)
  /\ StayDeferring \/ StopDefer \/ NestDefer
  /\ RemoveLast
  /\ UNCHANGED <<fullLocked, matrix, matrixVars, flag, event, spurious>>

(* Other events stay in the queue, whatever the deferrer decides...        *)
HandleOther ==
  /\ MainRuns("handle")
  /\ owner \notin {NoSlot, event.slot}
  /\ StayDeferring \/ StopDefer \/ NestDefer
  /\ main' = "check"
  /\ UNCHANGED <<queueVars, fullLocked, matrix, matrixVars, flag, event, down,
                 spurious>>

DeferIsPending(e) == \E n \in 1 .. Deferred : Queued(n) = e

(* ... except for the release of a key pressed before, under QuickRelease. *)
HandleQuickRelease ==
  /\ MainRuns("handle")
  /\ owner \notin {NoSlot, event.slot}
  /\ ~ event.press
  /\ ~ DeferIsPending([slot |-> event.slot, press |-> TRUE])
  /\ Execute(event)
  /\ RemoveLast
  /\ UNCHANGED <<fullLocked, matrix, matrixVars, flag, event, owner, nest,
                 getMode, spurious>>

(* Faulty: the events deferred so far are not looked at again.             *)
DeferTimeoutUnchecked ==
  /\ MainRuns("wait")
  /\ owner # NoSlot
  /\ StopDefer \/ NestDefer
  /\ UNCHANGED <<queueVars, fullLocked, matrix, matrixVars, main, flag, event,
                 down, spurious>>

(* The timer of the deferrer expired: FLAG_GENERIC_EVENT.                  *)
DeferTimeout ==
  /\ MainRuns("wait")
  /\ owner # NoSlot
  /\ StopDefer \/ NestDefer
  /\ main' = "check"
  /\ UNCHANGED <<queueVars, fullLocked, matrix, matrixVars, flag, event, down,
                 spurious>>

(* Any other flag: the lamp state, the terminal, the heartbeat.            *)
OtherFlag ==
  /\ MainRuns("wait")
  /\ main' = "check"
  /\ UNCHANGED <<queueVars, fullLocked, matrix, matrixVars, flag, event,
                 keymapVars, spurious>>

-----------------------------------------------------------------------------
MatrixStep ==
  \/ \E k \in Slots : Push(k)
  \/ PushWaits
  \/ PushTimeout
  \/ SystemReset
  \/ ScanDone

MainStep ==
  \/ TryPop
  \/ PopUnlocks
  \/ TryPeek
  \/ DryRun
  \/ DryRunUnlocks
  \/ RemoveUnlocks
  \/ HandleNormal
  \/ HandleOwner
  \/ HandleOther
  \/ HandleQuickRelease

Next ==
  \/ \E found \in SUBSET Slots : Scan(found)
  \/ MatrixStep
  \/ MainStep
  \/ DeferTimeout
  \/ OtherFlag

Spec == Init /\ [][Next]_vars

-----------------------------------------------------------------------------
(* Properties.                                                             *)

(* Types; unless the queue was broken, what is handled was once reported.  *)
TypeOK ==
  /\ m_buffer \in [0 .. QUEUE_SIZE - 1 -> KeyEvent \cup {NoEvent}]
  /\ m_push \in 0 .. SIZE_T - 1
  /\ m_peek \in 0 .. SIZE_T - 1
  /\ m_pop \in 0 .. SIZE_T - 1
  /\ fullLocked \in BOOLEAN
  /\ getMode \in {"pop", "peek"}
  /\ matrix \in {"asleep", "resting", "scanning", "waiting", "granted"}
  /\ pressing \subseteq Slots
  /\ m_pressed \subseteq Slots
  /\ main \in {"wait", "popped", "handle", "removed", "check", "dryPopped"}
  /\ flag \in BOOLEAN
  /\ event \in KeyEvent \cup {NoEvent}
  /\ main \in {"popped", "handle"} /\ ~ spurious => event \in KeyEvent
  /\ owner \in Slots \cup {NoSlot}
  /\ nest \in 0 .. MaxNest
  /\ down \subseteq Slots
  /\ spurious \in BOOLEAN

(* main_key_events.hpp:53 and 59: the indices are in order, m_full_lock is *)
(* free or handed over only while there is room, and, unless main_thread   *)
(* is about to release it, it is held only while the queue is full - until *)
(* it is released once with the queue full.                                *)
FullLockTight ==
  ~ spurious =>
    /\ Deferred <= Count
    /\ Count <= QUEUE_SIZE
    /\ ~ fullLocked \/ matrix = "granted" => Count < QUEUE_SIZE
    /\ /\ fullLocked
       /\ matrix # "granted"
       /\ main \notin {"popped", "removed", "dryPopped"}
       => Count = QUEUE_SIZE

(* Until m_full_lock is released with the queue full, the ring buffer with *)
(* its three indices is a bounded queue: no event is overwritten, a        *)
(* deferred event is seen again after defer mode, and defer_remove_last()  *)
(* takes out exactly the event that was peeked last.                       *)
Queue == INSTANCE KeyQueue WITH
  Event <- KeyEvent,
  Size <- QUEUE_SIZE,
  events <- IF spurious THEN <<>> ELSE Contents,
  cursor <- IF spurious THEN 0 ELSE Deferred,
  broken <- spurious

ImplementsQueue == Queue!Spec

(* The events that have been reported and not been executed.               *)
Pending ==
  IF main \in {"popped", "handle"} /\ getMode = "pop"
  THEN <<event>> \o Contents ELSE Contents

(* What there is to say of slot k: the press or release the keymap saw     *)
(* last, the pending events, and what matrix_thread would report next.     *)
Story(k) ==
  <<[slot |-> k, press |-> k \in down]>> \o Pending
    \o <<[slot |-> k, press |-> k \notin m_pressed]>>

Alternates(es, k) ==
  \A i, j \in DOMAIN es :
    /\ i < j
    /\ es[i].slot = k
    /\ es[j].slot = k
    /\ \A n \in i + 1 .. j - 1 : es[n].slot # k
    => es[i].press = ~ es[j].press

(* export.lua, "strictly alternating press/release per slot": the events   *)
(* of a slot still to be executed turn its key over one by one, from the   *)
(* state the keymap last saw to the state matrix_thread last reported.     *)
Alternating == \A k \in Slots : Alternates(Story(k), k)

AlternatingUnlessSpurious == ~ spurious => Alternating

(* main_thread never sleeps over an event it could get, and is never woken *)
(* for one it cannot get: get() returns an event whenever FLAG_KEY_EVENT   *)
(* is set.                                                                 *)
FlagMeansEvent == main = "wait" => (flag <=> Available)

(* A key whose report failed keeps matrix_thread awake until it went       *)
(* through: when it sleeps and main_thread has nothing left to do, the     *)
(* keymap has seen every key released.                                     *)
ReleasedAtRest ==
  /\ matrix = "asleep"
  /\ main = "wait"
  /\ ~ flag
  /\ owner = NoSlot
  /\ ~ spurious
  => down = {}

-----------------------------------------------------------------------------
(* Fairness: matrix_thread finishes a scan before the next one is due, so  *)
(* that main_thread gets to run between two scans; the other flags do not  *)
(* come so often that main_thread never gets to FLAG_KEY_EVENT; the timer  *)
(* of a deferrer expires.  Nothing obliges the user to type.               *)
Fairness ==
  /\ WF_vars(MatrixStep)
  /\ SF_vars(MainStep)
  /\ SF_vars(TryPop \/ TryPeek)
  /\ SF_vars(DeferTimeout)

FairSpec == Spec /\ Fairness

(* Once no more keys change, everything reported gets executed.            *)
Drains == <>[][m_pressed' = m_pressed]_m_pressed => <>[](Count = 0)

=============================================================================
