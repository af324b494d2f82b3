-------------------------- MODULE UsbHidKeyboard --------------------------
(***************************************************************************)
(* The USB HID keyboard: usb/usbus_hid_keyboard.cpp on top of              *)
(* usb/usbus_hid_device.cpp, and the queue of usb/usb_key_events.cpp.      *)
(*                                                                         *)
(* Three contexts run the code.  main_thread (lowest priority) reports key *)
(* events.  The usbus thread (highest priority) runs the handlers of the   *)
(* bus events, of the acknowledged transfers and of the events posted to   *)
(* it, in the order they were posted; main_thread does not run while it    *)
(* has something to do.  Timer callbacks are interrupts and may come       *)
(* between any two steps.                                                  *)
(***************************************************************************)
EXTENDS KeyReport

CONSTANTS
  KC_NO,          (* no keycode                                          *)
  QUEUE_SIZE,     (* capacity of the key event queue                     *)
  Redundant,      (* may main_thread press a key twice, or release an up *)
                  (* key?  The keymap does not; a Lua script can.        *)
  Prompt,         (* does main_thread, once runnable, run before the     *)
                  (* host polls again?                                   *)
  MaxStalls,      (* transfers the active host leaves unanswered         *)
  MaxSuspends,    (* times the bus is suspended                          *)
  MaxResets       (* times the bus is reset                              *)

ASSUME UsbAssumption ==
  /\ KC_NO \notin KeyCode
  /\ QUEUE_SIZE \in Nat \ {0}
  /\ Redundant \in BOOLEAN
  /\ Prompt \in BOOLEAN
  /\ MaxStalls \in Nat
  /\ MaxSuspends \in Nat
  /\ MaxResets \in Nat

VARIABLES
  \* The state of usbus_hid_keyboard_t.
  accessible,   (* m_is_usb_accessible                                   *)
  updated,      (* m_report_updated                                      *)
  pressYet,     (* m_press_yet_to_submit                                 *)
  report,       (* m_report, the keys down in it                         *)
  inBuf,        (* in_buf, the copy of the report handed to the endpoint *)
  queue,        (* m_key_event_queue, oldest event first                 *)
  locked,       (* m_not_full is locked                                  *)
  \* Timers that are set, and the events posted to the usbus thread.
  txArmed,      (* tx_timer                                              *)
  settleArmed,  (* m_timer_resume_settle                                 *)
  clearArmed,   (* m_timer_clear_queue                                   *)
  posted,       (* events waiting in the usbus event queue, no doubles   *)
  \* The threads.
  usb,          (* "idle", or "drain" inside on_transfer_complete()      *)
  main,         (* "run", "locking", "waiting" or "granted" in push()    *)
  pushing,      (* the event main_thread is blocked with                 *)
  held,         (* the keys main_thread has reported down                *)
  \* The controller, the bus and the host (external).
  ready,        (* the IN endpoint holds data for the host               *)
  acked,        (* TRCPT1: the host took it, the handler has yet to run  *)
  suspended,    (* the bus is suspended                                  *)
  wakeup,       (* CTRLB.UPRSM: a remote wakeup was requested            *)
  host,         (* the keys the host sees down                           *)
  \* History: how the report came about, and how often the environment
  \* misbehaved.
  inFrame,      (* events that are in inBuf and not yet seen by the host *)
  deferred,     (* events that are in report and not yet in inBuf        *)
  spent         (* stalls, suspends and resets so far                    *)

deviceVars == <<accessible, updated, pressYet, report, inBuf>>
queueVars  == <<queue, locked, main, pushing>>
timerVars  == <<txArmed, settleArmed, clearArmed>>
busVars    == <<ready, acked, suspended, wakeup, host>>
histVars   == <<inFrame, deferred>>
vars == <<deviceVars, queueVars, timerVars, busVars, histVars,
          posted, usb, held, spent>>

PostedEvents == {"tx_ready", "transfer_complete", "clear_queue"}

Init ==
  /\ accessible = FALSE
  /\ updated = 0
  /\ pressYet = KC_NO
  /\ report = {}
  /\ inBuf = {}
  /\ queue = <<>>
  /\ locked = FALSE
  /\ txArmed = FALSE
  /\ settleArmed = FALSE
  /\ clearArmed = FALSE
  /\ posted = <<>>
  /\ usb = "idle"
  /\ main = "run"
  /\ pushing = <<>>
  /\ held = {}
  /\ ready = FALSE
  /\ acked = FALSE
  /\ suspended = FALSE
  /\ wakeup = FALSE
  /\ host = {}
  /\ inFrame = <<>>
  /\ deferred = <<>>
  /\ spent = [stalls |-> 0, suspends |-> 0, resets |-> 0]

-----------------------------------------------------------------------------
(* Helpers shared by the handlers.                                         *)

IsPosted(event) == \E i \in DOMAIN posted : posted[i] = event

(* event_post() leaves an event alone that is in the queue already.        *)
Posting(events, event) ==
  IF \E i \in DOMAIN events : events[i] = event
  THEN events ELSE Append(events, event)

(* The usbus thread has nothing to do, so that main_thread runs.           *)
UsbQuiet == usb = "idle" /\ posted = <<>>

(* main_thread is ready to leave push(), if the usbus thread lets it run.  *)
MainMayPush == main = "granted" \/ (main = "locking" /\ ~ locked)

(* Faulty: pop() and clear() leave the mutex to its waiter's own devices.  *)
UnlockNotFullForgotten == UNCHANGED <<locked, main>>

(* mutex_unlock() hands the mutex to the waiting thread, if there is one.  *)
UnlockNotFull ==
  IF main = "waiting"
  THEN main' = "granted" /\ UNCHANGED locked
  ELSE locked' = FALSE /\ UNCHANGED main

(* Faulty: push() releases the mutex of a queue it has just filled.        *)
EnqueueUnlocksFull(e) ==
  LET q == Append(queue, e) IN
  /\ queue' = IF Len(q) > QUEUE_SIZE THEN Tail(q) ELSE q
  /\ locked' = FALSE

(* The part of push() behind the mutex: the oldest event goes if there is  *)
(* no room for it, and the mutex stays locked while the queue is full.     *)
Enqueue(e) ==
  LET q == Append(queue, e) IN
  /\ queue' = IF Len(q) > QUEUE_SIZE THEN Tail(q) ELSE q
  /\ locked' = (Len(q) >= QUEUE_SIZE)

(* submit_report(), once the events of more are in the report.             *)
Submit(newReport, more, events) ==
  /\ inBuf' = newReport
  /\ inFrame' = inFrame \o deferred \o more
  /\ deferred' = <<>>
  /\ posted' = Posting(events, "tx_ready")

(* Faulty: the frame of a press also takes the release of that key.        *)
CanTrySameKey(e) ==
  updated <= 1 \/ (~ e.press /\ (pressYet = KC_NO \/ e.key \notin Mods))

(* Faulty: a frame takes any number of presses.                            *)
CanTryAnyPress(e) ==
  updated <= 1 \/ e.press \/ e.key # pressYet

(* The condition under which try_report_event() returns true.              *)
CanTry(e) ==
  \/ updated <= 1
  \/ /\ ~ e.press
     /\ e.key # pressYet
     /\ pressYet = KC_NO \/ e.key \notin Mods

(* try_report_event() when it returns true.                                *)
TryReport(e) ==
  IF ~ CanUpdate(report, e)
  THEN UNCHANGED <<report, updated, pressYet, inBuf, histVars, posted>>
  ELSE /\ report' = Updated(report, e)
       /\ updated' = updated + 1
       /\ IF updated = 0
          THEN Submit(report', <<e>>, posted) /\ UNCHANGED pressYet
          ELSE /\ pressYet' = IF e.press THEN e.key ELSE pressYet
               /\ deferred' = Append(deferred, e)
               /\ UNCHANGED <<inBuf, inFrame, posted>>

-----------------------------------------------------------------------------
(* main_thread: report_press() and report_release().                       *)

(* The events the keymap may report next.                                  *)
MayReport(e) ==
  /\ main = "run"
  /\ UsbQuiet
  /\ Redundant \/ (e.press <=> e.key \notin held)

ReportInaccessible(e) ==
  /\ MayReport(e)
  /\ ~ accessible
  /\ held' = Updated(held, e)
  /\ wakeup' = (wakeup \/ (e.press /\ suspended))
  /\ Enqueue(e)
  /\ clearArmed' = TRUE
  /\ UNCHANGED <<deviceVars, main, pushing, txArmed, settleArmed, posted, usb,
                 ready, acked, suspended, host, histVars, spent>>

ReportNow(e) ==
  /\ MayReport(e)
  /\ accessible
  /\ queue = <<>>
  /\ CanTry(e)
  /\ held' = Updated(held, e)
  /\ TryReport(e)
  /\ UNCHANGED <<accessible, queueVars, timerVars, usb, busVars, spent>>

(* push(event, true): trylock either takes m_not_full or leaves the thread *)
(* on its way into mutex_lock(), with interrupts enabled.                  *)
ReportLater(e) ==
  /\ MayReport(e)
  /\ accessible
  /\ queue # <<>> \/ ~ CanTry(e)
  /\ held' = Updated(held, e)
  /\ IF locked
     THEN main' = "locking" /\ pushing' = <<e>> /\ UNCHANGED <<queue, locked>>
     ELSE Enqueue(e) /\ UNCHANGED <<main, pushing>>
  /\ UNCHANGED <<deviceVars, timerVars, posted, usb, busVars, histVars, spent>>

LockNotFull ==
  /\ main = "locking"
  /\ UsbQuiet
  /\ main' = IF locked THEN "waiting" ELSE "granted"
  /\ locked' = TRUE
  /\ UNCHANGED <<deviceVars, queue, pushing, timerVars, posted, usb, held,
                 busVars, histVars, spent>>

PushGranted ==
  /\ main = "granted"
  /\ UsbQuiet
  /\ Enqueue(pushing[1])
  /\ main' = "run"
  /\ pushing' = <<>>
  /\ UNCHANGED <<deviceVars, timerVars, posted, usb, held, busVars, histVars,
                 spent>>

-----------------------------------------------------------------------------
(* The usbus thread: posted events and acknowledged transfers.             *)

(* event_get() of the usbus thread.                                        *)
Take(event) ==
  /\ usb = "idle"
  /\ posted # <<>>
  /\ Head(posted) = event

HandleTxReady ==
  /\ Take("tx_ready")
  /\ posted' = Tail(posted)
  /\ ready' = TRUE
  /\ txArmed' = TRUE
  /\ UNCHANGED <<deviceVars, queueVars, settleArmed, clearArmed, usb, held,
                 acked, suspended, wakeup, host, histVars, spent>>

HandleClearQueue ==
  /\ Take("clear_queue")
  /\ posted' = Tail(posted)
  /\ queue' = <<>>
  /\ UnlockNotFull
  /\ UNCHANGED <<deviceVars, pushing, timerVars, usb, held, busVars, histVars,
                 spent>>

(* Faulty: changes made during the transfer are not submitted after it.    *)
OnTransferCompleteNoResubmit(successful, events) ==
  IF ~ accessible
  THEN /\ posted' = events
       /\ UNCHANGED <<deviceVars, usb, histVars>>
  ELSE /\ updated' = 0
       /\ posted' = events
       /\ pressYet' = KC_NO
       /\ usb' = "drain"
       /\ UNCHANGED <<accessible, report, inBuf, histVars>>

(* on_transfer_complete() up to its loop, with the events still posted.    *)
OnTransferComplete(successful, events) ==
  IF ~ accessible
  THEN /\ posted' = events
       /\ UNCHANGED <<deviceVars, usb, histVars>>
  ELSE /\ IF successful /\ updated > 1
          THEN Submit(report, <<>>, events) /\ updated' = 1
          ELSE /\ updated' = 0
               /\ posted' = events
               /\ UNCHANGED <<inBuf, histVars>>
       /\ pressYet' = KC_NO
       /\ usb' = "drain"
       /\ UNCHANGED <<accessible, report>>

HandleTransferComplete ==
  /\ Take("transfer_complete")
  /\ OnTransferComplete(FALSE, Tail(posted))
  /\ UNCHANGED <<queueVars, timerVars, held, busVars, spent>>

HandleAck ==
  /\ usb = "idle"
  /\ acked
  /\ acked' = FALSE
  /\ txArmed' = FALSE
  /\ OnTransferComplete(TRUE, posted)
  /\ UNCHANGED <<queueVars, settleArmed, clearArmed, held, ready, suspended,
                 wakeup, host, spent>>

(* One round of the loop of on_transfer_complete()...                      *)
DrainOne ==
  /\ usb = "drain"
  /\ queue # <<>>
  /\ CanTry(Head(queue))
  /\ TryReport(Head(queue))
  /\ queue' = Tail(queue)
  /\ UnlockNotFull
  /\ UNCHANGED <<accessible, pushing, timerVars, usb, held, busVars, spent>>

(* ... and its end.                                                        *)
DrainDone ==
  /\ usb = "drain"
  /\ queue # <<>> => ~ CanTry(Head(queue))
  /\ usb' = "idle"
  /\ UNCHANGED <<deviceVars, queueVars, timerVars, posted, held, busVars,
                 histVars, spent>>

-----------------------------------------------------------------------------
(* The usbus thread: what the host does to the bus.                        *)

(* A reset lasts 10 ms: what was posted before it has been handled.        *)
OnReset ==
  /\ UsbQuiet
  /\ spent.resets < MaxResets
  /\ spent' = [spent EXCEPT !.resets = @ + 1]
  /\ report' = {}
  /\ updated' = 0
  /\ pressYet' = KC_NO
  /\ ready' = FALSE
  /\ acked' = FALSE
  /\ suspended' = FALSE
  /\ wakeup' = FALSE
  /\ host' = {}
  /\ inFrame' = <<>>
  /\ deferred' = <<>>
  /\ UNCHANGED <<accessible, inBuf, queueVars, timerVars, posted, usb, held>>

(* Faulty: a resume that has not settled yet survives the next suspend.    *)
OnSuspendKeepsSettle ==
  /\ usb = "idle"
  /\ ~ suspended
  /\ ~ acked
  /\ spent.suspends < MaxSuspends
  /\ spent' = [spent EXCEPT !.suspends = @ + 1]
  /\ accessible' = FALSE
  /\ suspended' = TRUE
  /\ UNCHANGED <<updated, pressYet, report, inBuf, queueVars, timerVars, posted,
                 usb, held, ready, acked, wakeup, host, histVars>>

(* The bus has been idle for 3 ms when the controller reports the suspend, *)
(* so the handler of the last acknowledged transfer has run.               *)
OnSuspend ==
  /\ usb = "idle"
  /\ ~ suspended
  /\ ~ acked
  /\ spent.suspends < MaxSuspends
  /\ spent' = [spent EXCEPT !.suspends = @ + 1]
  /\ settleArmed' = FALSE
  /\ accessible' = FALSE
  /\ suspended' = TRUE
  /\ UNCHANGED <<updated, pressYet, report, inBuf, queueVars, txArmed,
                 clearArmed, posted, usb, held, ready, acked, wakeup, host,
                 histVars>>

OnResume ==
  /\ usb = "idle"
  /\ suspended
  /\ suspended' = FALSE
  /\ wakeup' = FALSE
  /\ UNCHANGED <<deviceVars, queueVars, timerVars, posted, usb, held, ready,
                 acked, host, histVars, spent>>

(* The host sends the lamp state: _hdlr_receive_data().                    *)
ReceiveData ==
  /\ usb = "idle"
  /\ ~ suspended
  /\ ~ accessible
  /\ settleArmed' = TRUE
  /\ UNCHANGED <<deviceVars, queueVars, txArmed, clearArmed, posted, usb, held,
                 busVars, histVars, spent>>

(* The host polls the IN endpoint and acknowledges what it gets.           *)
HostPoll ==
  /\ ready
  /\ ~ suspended
  /\ Prompt => ~ MainMayPush
  /\ ready' = FALSE
  /\ acked' = TRUE
  /\ host' = inBuf
  /\ inFrame' = <<>>
  /\ UNCHANGED <<deviceVars, queueVars, timerVars, posted, usb, held,
                 suspended, wakeup, deferred, spent>>

-----------------------------------------------------------------------------
(* Timer callbacks.                                                        *)

(* tx_timer is longer than the polling interval: on an active bus it       *)
(* expires only if the host stalls, or lost the transfer in a reset.       *)
TxTimeout ==
  /\ txArmed
  /\ txArmed' = FALSE
  /\ \/ /\ suspended \/ ~ (ready \/ acked)
        /\ UNCHANGED spent
     \/ /\ ~ suspended
        /\ ready \/ acked
        /\ spent.stalls < MaxStalls
        /\ spent' = [spent EXCEPT !.stalls = @ + 1]
  /\ posted' = Posting(posted, "transfer_complete")
  /\ UNCHANGED <<deviceVars, queueVars, settleArmed, clearArmed, usb, held,
                 busVars, histVars>>

(* Faulty: nobody starts on the events queued during the suspend.          *)
ResumeSettledSilently ==
  /\ settleArmed
  /\ settleArmed' = FALSE
  /\ clearArmed' = FALSE
  /\ accessible' = TRUE
  /\ UNCHANGED <<updated, pressYet, report, inBuf, queueVars, txArmed, posted,
                 usb, held, busVars, histVars, spent>>

ResumeSettled ==
  /\ settleArmed
  /\ settleArmed' = FALSE
  /\ clearArmed' = FALSE
  /\ accessible' = TRUE
  /\ posted' = IF queue # <<>> THEN Posting(posted, "transfer_complete")
                               ELSE posted
  /\ UNCHANGED <<updated, pressYet, report, inBuf, queueVars, txArmed, usb,
                 held, busVars, histVars, spent>>

ClearTimeout ==
  /\ clearArmed
  /\ clearArmed' = FALSE
  /\ posted' = Posting(posted, "clear_queue")
  /\ UNCHANGED <<deviceVars, queueVars, txArmed, settleArmed, usb, held,
                 busVars, histVars, spent>>

-----------------------------------------------------------------------------
MainStep ==
  \/ \E e \in KeyEvent : ReportInaccessible(e) \/ ReportNow(e) \/ ReportLater(e)
  \/ LockNotFull
  \/ PushGranted

UsbStep ==
  \/ HandleTxReady
  \/ HandleClearQueue
  \/ HandleTransferComplete
  \/ HandleAck
  \/ DrainOne
  \/ DrainDone

BusStep == OnReset \/ OnSuspend \/ OnResume \/ ReceiveData \/ HostPoll

TimerStep == TxTimeout \/ ResumeSettled \/ ClearTimeout

Next == MainStep \/ UsbStep \/ BusStep \/ TimerStep

Spec == Init /\ [][Next]_vars

-----------------------------------------------------------------------------
(* Properties.                                                             *)

(* Types; an event is pending in push() exactly while main_thread is in it.*)
TypeOK ==
  /\ accessible \in BOOLEAN
  /\ updated \in Nat
  /\ pressYet \in KeyCode \cup {KC_NO}
  /\ report \subseteq KeyCode
  /\ inBuf \subseteq KeyCode
  /\ queue \in Seq(KeyEvent)
  /\ locked \in BOOLEAN
  /\ txArmed \in BOOLEAN
  /\ settleArmed \in BOOLEAN
  /\ clearArmed \in BOOLEAN
  /\ posted \in Seq(PostedEvents)
  /\ usb \in {"idle", "drain"}
  /\ main \in {"run", "locking", "waiting", "granted"}
  /\ pushing \in Seq(KeyEvent)
  /\ Len(pushing) = (IF main = "run" THEN 0 ELSE 1)
  /\ held \subseteq KeyCode
  /\ ready \in BOOLEAN
  /\ acked \in BOOLEAN
  /\ suspended \in BOOLEAN
  /\ wakeup \in BOOLEAN
  /\ host \subseteq KeyCode
  /\ inFrame \in Seq(KeyEvent)
  /\ deferred \in Seq(KeyEvent)
  /\ spent \in [stalls : Nat, suspends : Nat, resets : Nat]

(* usb_key_events.hpp keeps "m_not_full ... locked when full": whenever    *)
(* main_thread is not inside the blocking push(), the mutex is locked      *)
(* exactly while the queue is full; a thread waits on it only while the    *)
(* queue is full, and whoever was handed it finds room, so a blocking      *)
(* push() never overwrites a queued event.                                 *)
QueueLock ==
  /\ Len(queue) <= QUEUE_SIZE
  /\ main \in {"run", "locking"} => (locked <=> Len(queue) = QUEUE_SIZE)
  /\ main = "waiting" => locked /\ Len(queue) = QUEUE_SIZE
  /\ main = "granted" => Len(queue) < QUEUE_SIZE

(* m_report_updated is a uint8_t and is_idle() reads 0 as idle.  It cannot *)
(* wrap: within a frame one press is counted at most after the first       *)
(* event, and then only releases of keys that are in the report.           *)
CounterFits ==
  updated > 1 => updated + Cardinality(report) <= Cardinality(KeyCode) + 2

(* The events between the keymap and the host, oldest first.               *)
UnderWay == inFrame \o deferred \o queue \o pushing

Channel == INSTANCE KeyChannel WITH
  chan <- UnderWay,
  open <- accessible /\ ~ IsPosted("clear_queue"),
  Strict <- MaxStalls + MaxSuspends + MaxResets = 0

(* The report algorithm of usbus_hid_keyboard.cpp:101-128 implements the   *)
(* channel: events reach the host in the order main_thread reported them,  *)
(* none is lost while USB is accessible, and, on a bus that behaves, no    *)
(* frame holds two presses, a press with its release, or a modifier        *)
(* release behind a press.                                                 *)
ImplementsChannel == Channel!Spec

(* Something will make the usbus thread run on_transfer_complete().        *)
InFlight ==
  \/ \E event \in {"tx_ready", "transfer_complete"} : IsPosted(event)
  \/ txArmed \/ ready \/ acked \/ usb = "drain"

(* Queued events are never left behind: report_event() only appends to a   *)
(* queue that is not empty, so something must be under way to drain it.    *)
NeverStranded == accessible /\ queue # <<>> => InFlight

(* Nothing under way, and yet the host has not seen the report             *)
(* (usbus_hid_keyboard.hpp:62, "requires re-submission").                  *)
HostAgreesAtRest ==
  accessible /\ ~ InFlight /\ queue = <<>> /\ main = "run" => host = report

(* Reports go to the endpoint only while the bus is active: however a      *)
(* suspend interrupts a resume that is settling (usbus_hid_keyboard.cpp:   *)
(* 71-99), USB does not become accessible before the next resume.          *)
AccessibleOnlyActive == suspended => ~ accessible /\ ~ settleArmed

(* usbus_hid_keyboard.hpp:30-32: "If USB is not accessible, the methods    *)
(* remain non-blocking".                                                   *)
NeverBlocksInaccessible == ~ accessible => main = "run"

-----------------------------------------------------------------------------
(* Fairness.  The usbus thread has the highest priority and main_thread    *)
(* runs when nothing else does; the host polls an interrupt endpoint       *)
(* periodically; timers that are set expire.  Nothing obliges the user to  *)
(* type or the host to suspend, resume, reset or send the lamp state.      *)
Fairness ==
  /\ WF_vars(UsbStep)
  /\ WF_vars(LockNotFull)
  /\ WF_vars(PushGranted)
  /\ WF_vars(HostPoll)
  /\ WF_vars(ResumeSettled)
  /\ WF_vars(ClearTimeout)
  /\ WF_vars(TxTimeout)

FairSpec == Spec /\ Fairness

(* While USB was inaccessible no queued event expired or was overwritten.  *)
NothingLost ==
  /\ [] ~ IsPosted("clear_queue")
  /\ [] (~ accessible => Len(queue) < QUEUE_SIZE)

(* Once the user stops typing, the host ends up with exactly the keys that *)
(* are held, those typed before USB became accessible included.            *)
Converges ==
  /\ NothingLost
  /\ <>[]accessible
  /\ <>[][held' = held]_held
  => <>[](host = held)

(* A main_thread blocked on the full queue gets out of push().             *)
Unblocks == main # "run" ~> main = "run"

=============================================================================
