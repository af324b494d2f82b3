----------------------- MODULE UsbHidKeyboardProofs -----------------------
(***************************************************************************)
(* Proofs about UsbHidKeyboard for any set of keys, any queue size and any *)
(* number of stalls, suspends and resets: the types; that the mutex        *)
(* m_not_full and the queue of usb_key_events.hpp stay in step; that       *)
(* m_report_updated does not wrap; that queued events have a submission    *)
(* under way which will drain them; and that the whole implements          *)
(* KeyChannel, so that on a calm bus the host has seen the report at rest. *)
(***************************************************************************)
EXTENDS UsbHidKeyboard, SequenceTheorems, FiniteSetTheorems, TLAPS

-----------------------------------------------------------------------------
(* The operators the handlers are built from.                              *)

(* event_post() keeps the queue of posted events a sequence of events.     *)
LEMMA PostingType ==
  ASSUME NEW events \in Seq(PostedEvents), NEW event \in PostedEvents
  PROVE  Posting(events, event) \in Seq(PostedEvents)
BY DEF Posting

(* Taking the first of a sequence leaves a sequence, one shorter.          *)
LEMMA TailType ==
  ASSUME NEW S, NEW s \in Seq(S), s # <<>>
  PROVE  Tail(s) \in Seq(S) /\ Len(s) \in Nat /\ Len(Tail(s)) = Len(s) - 1
         /\ Len(s) > 0 /\ Head(s) \in S
OBVIOUS

(* Reporting a key keeps a set of keycodes a set of keycodes.              *)
LEMMA UpdatedType ==
  ASSUME NEW keys \in SUBSET KeyCode, NEW e \in KeyEvent
  PROVE  Updated(keys, e) \subseteq KeyCode
BY DEF Updated, KeyEvent

(* push() behind its mutex: the queue stays within its capacity, whatever  *)
(* it has to drop, and the mutex is locked exactly if the queue is full.   *)
LEMMA EnqueueFits ==
  ASSUME NEW e \in KeyEvent, queue \in Seq(KeyEvent),
         Len(queue) <= QUEUE_SIZE, Enqueue(e)
  PROVE  /\ queue' \in Seq(KeyEvent)
         /\ locked' \in BOOLEAN
         /\ Len(queue') <= QUEUE_SIZE
         /\ locked' <=> Len(queue') = QUEUE_SIZE
<1> DEFINE q == Append(queue, e)
<1>1. q \in Seq(KeyEvent) /\ q # <<>> /\ Len(q) = Len(queue) + 1 /\ Len(queue) \in Nat
  OBVIOUS
<1>2. Tail(q) \in Seq(KeyEvent) /\ Len(Tail(q)) = Len(queue)
  BY <1>1, TailType
<1>3. /\ queue' = IF Len(q) > QUEUE_SIZE THEN Tail(q) ELSE q
      /\ locked' = (Len(q) >= QUEUE_SIZE)
  BY DEF Enqueue
<1>4. Len(q) \in Nat /\ QUEUE_SIZE \in Nat /\ QUEUE_SIZE > 0
  BY <1>1, UsbAssumption
<1> HIDE DEF q
<1>5. queue' \in Seq(KeyEvent) /\ Len(queue') <= QUEUE_SIZE
  BY <1>1, <1>2, <1>3, <1>4
<1>6. locked' \in BOOLEAN
  BY <1>3
<1>7. (Len(q) >= QUEUE_SIZE) <=> Len(queue') = QUEUE_SIZE
  BY <1>1, <1>2, <1>3, <1>4
<1> QED
  BY <1>3, <1>5, <1>6, <1>7

(* submit_report() and update_report() keep the types of what they write.  *)
LEMMA TryReportType ==
  ASSUME TypeOK, NEW e \in KeyEvent, TryReport(e)
  PROVE  /\ report' \subseteq KeyCode
         /\ updated' \in Nat
         /\ pressYet' \in KeyCode \cup {KC_NO}
         /\ inBuf' \subseteq KeyCode
         /\ inFrame' \in Seq(KeyEvent)
         /\ deferred' \in Seq(KeyEvent)
         /\ posted' \in Seq(PostedEvents)
<1>1. CASE ~ CanUpdate(report, e)
  BY <1>1 DEF TypeOK, TryReport, histVars
<1>2. CASE CanUpdate(report, e)
  <2>1. report' = Updated(report, e) /\ updated' = updated + 1
    BY <1>2 DEF TryReport
  <2>2. report' \subseteq KeyCode /\ updated' \in Nat
    BY <2>1, UpdatedType DEF TypeOK
  <2>3. e.key \in KeyCode
    BY DEF KeyEvent
  <2>4. CASE updated = 0
    <3>1. Submit(report', <<e>>, posted) /\ UNCHANGED pressYet
      BY <1>2, <2>4 DEF TryReport
    <3>2. posted' \in Seq(PostedEvents)
      BY <3>1, PostingType DEF TypeOK, PostedEvents, Submit
    <3>3. inFrame' \in Seq(KeyEvent) /\ deferred' \in Seq(KeyEvent)
      <4>1. <<e>> \in Seq(KeyEvent)
        OBVIOUS
      <4> QED
        BY <3>1, <4>1 DEF TypeOK, Submit
    <3> QED
      BY <2>2, <3>1, <3>2, <3>3 DEF TypeOK, Submit
  <2>5. CASE updated # 0
    <3>1. /\ pressYet' = IF e.press THEN e.key ELSE pressYet
          /\ deferred' = Append(deferred, e)
          /\ UNCHANGED <<inBuf, inFrame, posted>>
      BY <1>2, <2>5 DEF TryReport
    <3>2. deferred' \in Seq(KeyEvent)
      BY <3>1 DEF TypeOK
    <3> QED
      BY <2>2, <2>3, <3>1, <3>2 DEF TypeOK
  <2> QED
    BY <2>4, <2>5
<1> QED
  BY <1>1, <1>2

(* So does on_transfer_complete().                                         *)
LEMMA OnTransferCompleteType ==
  ASSUME TypeOK, NEW successful \in BOOLEAN, NEW events \in Seq(PostedEvents),
         OnTransferComplete(successful, events)
  PROVE  /\ accessible' \in BOOLEAN
         /\ report' \subseteq KeyCode
         /\ updated' \in Nat
         /\ pressYet' \in KeyCode \cup {KC_NO}
         /\ inBuf' \subseteq KeyCode
         /\ inFrame' \in Seq(KeyEvent)
         /\ deferred' \in Seq(KeyEvent)
         /\ posted' \in Seq(PostedEvents)
         /\ usb' \in {"idle", "drain"}
<1>1. CASE ~ accessible
  BY <1>1 DEF TypeOK, OnTransferComplete, deviceVars, histVars
<1>2. CASE accessible
  <2>1. /\ pressYet' = KC_NO
        /\ usb' = "drain"
        /\ UNCHANGED <<accessible, report>>
    BY <1>2 DEF OnTransferComplete
  <2>2. CASE successful /\ updated > 1
    <3>1. Submit(report, <<>>, events) /\ updated' = 1
      BY <1>2, <2>2 DEF OnTransferComplete
    <3>2. posted' \in Seq(PostedEvents)
      BY <3>1, PostingType DEF PostedEvents, Submit
    <3>3. inFrame' \in Seq(KeyEvent) /\ deferred' \in Seq(KeyEvent)
      BY <3>1 DEF TypeOK, Submit
    <3> QED
      BY <2>1, <3>1, <3>2, <3>3 DEF TypeOK, Submit
  <2>3. CASE ~ (successful /\ updated > 1)
    <3>1. updated' = 0 /\ posted' = events /\ UNCHANGED <<inBuf, histVars>>
      BY <1>2, <2>3 DEF OnTransferComplete
    <3> QED
      BY <2>1, <3>1 DEF TypeOK, histVars
  <2> QED
    BY <2>2, <2>3
<1> QED
  BY <1>1, <1>2

(* A step that leaves the report, the queue and its mutex alone keeps      *)
(* their types.                                                            *)
LEMMA UntouchedTypes ==
  ASSUME TypeOK, UNCHANGED <<deviceVars, queueVars>>
  PROVE  /\ accessible' \in BOOLEAN
         /\ updated' \in Nat
         /\ pressYet' \in KeyCode \cup {KC_NO}
         /\ report' \subseteq KeyCode
         /\ inBuf' \subseteq KeyCode
         /\ queue' \in Seq(KeyEvent)
         /\ locked' \in BOOLEAN
         /\ main' \in {"run", "locking", "waiting", "granted"}
         /\ pushing' \in Seq(KeyEvent)
         /\ Len(pushing') = (IF main' = "run" THEN 0 ELSE 1)
BY DEF TypeOK, deviceVars, queueVars

(* mutex_unlock(), by whoever made room in the queue.                      *)
LEMMA UnlockKeepsLock ==
  ASSUME TypeOK, QueueLock, UnlockNotFull,
         queue' \in Seq(KeyEvent), Len(queue') < QUEUE_SIZE,
         UNCHANGED pushing
  PROVE  /\ locked' \in BOOLEAN
         /\ main' \in {"run", "locking", "waiting", "granted"}
         /\ Len(pushing') = (IF main' = "run" THEN 0 ELSE 1)
         /\ QueueLock'
<1>1. Len(queue') \in Nat /\ QUEUE_SIZE \in Nat
  BY UsbAssumption
<1>2. CASE main = "waiting"
  BY <1>1, <1>2 DEF TypeOK, QueueLock, UnlockNotFull
<1>3. CASE main # "waiting"
  <2>1. locked' = FALSE /\ UNCHANGED main
    BY <1>3 DEF UnlockNotFull
  <2>2. main' \in {"run", "locking", "granted"} /\ ~ locked' /\ locked' \in BOOLEAN
    BY <1>3, <2>1 DEF TypeOK
  <2>3. QueueLock'
    BY <1>1, <2>2 DEF QueueLock
  <2> QED
    BY <2>1, <2>2, <2>3 DEF TypeOK
<1> QED
  BY <1>2, <1>3

-----------------------------------------------------------------------------
(* The inductive invariant.  QueueLock alone is not inductive: a handler   *)
(* may rely on what is in the queue only if the types hold.                *)
QueueInv == TypeOK /\ QueueLock

LEMMA QueueInvInit == Init => QueueInv
<1> SUFFICES ASSUME Init PROVE QueueInv
  OBVIOUS
<1> USE DEF Init
<1>1. TypeOK
  <2>1. spent \in [stalls : Nat, suspends : Nat, resets : Nat]
    OBVIOUS
  <2>2. /\ queue \in Seq(KeyEvent) /\ pushing \in Seq(KeyEvent)
        /\ inFrame \in Seq(KeyEvent) /\ deferred \in Seq(KeyEvent)
        /\ posted \in Seq(PostedEvents)
    OBVIOUS
  <2> QED
    BY <2>1, <2>2 DEF TypeOK
<1>2. QueueLock
  BY UsbAssumption DEF QueueLock
<1> QED
  BY <1>1, <1>2 DEF QueueInv

(* main_thread, in report_press(), report_release() and push().            *)
LEMMA QueueInvMain == QueueInv /\ MainStep => QueueInv'
<1> SUFFICES ASSUME QueueInv, MainStep PROVE QueueInv'
  OBVIOUS
<1>1. TypeOK /\ QueueLock /\ Len(queue) <= QUEUE_SIZE
  BY DEF QueueInv, QueueLock
<1>2. ASSUME NEW e \in KeyEvent, ReportInaccessible(e) PROVE QueueInv'
  <2>1. Enqueue(e) /\ UNCHANGED <<main, pushing>> /\ main = "run"
    BY <1>2 DEF ReportInaccessible, MayReport
  <2>2. QueueLock'
    BY <1>1, <2>1, EnqueueFits DEF TypeOK, QueueLock
  <2>3. queue' \in Seq(KeyEvent) /\ locked' \in BOOLEAN /\ held' \subseteq KeyCode
    BY <1>1, <1>2, <2>1, EnqueueFits, UpdatedType DEF TypeOK, ReportInaccessible
  <2>4. wakeup' \in BOOLEAN
    BY <1>2 DEF ReportInaccessible
  <2>5. TypeOK'
    BY <1>1, <1>2, <2>3, <2>4
       DEF TypeOK, ReportInaccessible, deviceVars, histVars
  <2> QED
    BY <2>2, <2>5 DEF QueueInv
<1>3. ASSUME NEW e \in KeyEvent, ReportNow(e) PROVE QueueInv'
  <2>1. TryReport(e) /\ held' = Updated(held, e)
        /\ UNCHANGED <<accessible, queueVars, timerVars, usb, busVars, spent>>
    BY <1>3 DEF ReportNow
  <2>2. QueueLock'
    BY <1>1, <2>1 DEF QueueLock, queueVars
  <2>3. held' \subseteq KeyCode
    BY <1>1, <2>1, UpdatedType DEF TypeOK
  <2>4. TypeOK'
    BY <1>1, <2>1, <2>3, TryReportType DEF TypeOK, queueVars, timerVars, busVars
  <2> QED
    BY <2>2, <2>4 DEF QueueInv
<1>4. ASSUME NEW e \in KeyEvent, ReportLater(e) PROVE QueueInv'
  <2>1. main = "run" /\ held' \subseteq KeyCode
    BY <1>1, <1>4, UpdatedType DEF TypeOK, ReportLater, MayReport
  <2>2. UNCHANGED <<deviceVars, timerVars, posted, usb, busVars, histVars, spent>>
    BY <1>4 DEF ReportLater
  <2>3. CASE locked
    <3>1. main' = "locking" /\ pushing' = <<e>> /\ UNCHANGED <<queue, locked>>
      BY <1>4, <2>3 DEF ReportLater
    <3>2. QueueLock'
      BY <1>1, <2>1, <3>1 DEF QueueLock
    <3>3. pushing' \in Seq(KeyEvent) /\ Len(pushing') = 1
      BY <3>1
    <3>4. TypeOK'
      BY <1>1, <2>1, <2>2, <3>1, <3>3
         DEF TypeOK, deviceVars, timerVars, busVars, histVars
    <3> QED
      BY <3>2, <3>4 DEF QueueInv
  <2>4. CASE ~ locked
    <3>1. Enqueue(e) /\ UNCHANGED <<main, pushing>>
      BY <1>4, <2>4 DEF ReportLater
    <3>2. /\ queue' \in Seq(KeyEvent)
          /\ locked' \in BOOLEAN
          /\ Len(queue') <= QUEUE_SIZE
          /\ locked' <=> Len(queue') = QUEUE_SIZE
      BY <1>1, <3>1, EnqueueFits DEF TypeOK
    <3>3. QueueLock'
      BY <2>1, <3>1, <3>2 DEF QueueLock
    <3>4. TypeOK'
      BY <1>1, <2>1, <2>2, <3>1, <3>2
         DEF TypeOK, deviceVars, timerVars, busVars, histVars
    <3> QED
      BY <3>3, <3>4 DEF QueueInv
  <2> QED
    BY <2>3, <2>4
<1>5. CASE LockNotFull
  <2>1. /\ main = "locking"
        /\ main' = IF locked THEN "waiting" ELSE "granted"
        /\ locked' = TRUE
        /\ UNCHANGED <<queue, pushing>>
    BY <1>5 DEF LockNotFull
  <2>2. locked <=> Len(queue) = QUEUE_SIZE
    BY <1>1, <2>1 DEF QueueLock
  <2>3. Len(queue) \in Nat /\ QUEUE_SIZE \in Nat
    BY <1>1, UsbAssumption DEF TypeOK
  <2>4. QueueLock'
    BY <1>1, <2>1, <2>2, <2>3 DEF QueueLock
  <2>5. TypeOK'
    BY <1>1, <1>5 DEF TypeOK, LockNotFull, deviceVars, timerVars, busVars, histVars
  <2> QED
    BY <2>4, <2>5 DEF QueueInv
<1>6. CASE PushGranted
  <2>1. main = "granted" /\ main' = "run" /\ pushing' = <<>>
    BY <1>6 DEF PushGranted
  <2>2. pushing[1] \in KeyEvent
    <3>1. pushing \in Seq(KeyEvent) /\ Len(pushing) = 1
      BY <1>1, <2>1 DEF TypeOK
    <3> QED
      BY <3>1
  <2>3. /\ queue' \in Seq(KeyEvent)
        /\ locked' \in BOOLEAN
        /\ Len(queue') <= QUEUE_SIZE
        /\ locked' <=> Len(queue') = QUEUE_SIZE
    BY <1>1, <1>6, <2>2, EnqueueFits DEF TypeOK, PushGranted
  <2>4. QueueLock'
    BY <2>1, <2>3 DEF QueueLock
  <2>5. TypeOK'
    BY <1>1, <1>6, <2>1, <2>3
       DEF TypeOK, PushGranted, deviceVars, timerVars, busVars, histVars
  <2> QED
    BY <2>4, <2>5 DEF QueueInv
<1> QED
  BY <1>2, <1>3, <1>4, <1>5, <1>6 DEF MainStep

(* The usbus thread, handling posted events and acknowledged transfers.    *)
LEMMA QueueInvUsb == QueueInv /\ UsbStep => QueueInv'
<1> SUFFICES ASSUME QueueInv, UsbStep PROVE QueueInv'
  OBVIOUS
<1>1. TypeOK /\ QueueLock
  BY DEF QueueInv
<1>2. CASE HandleTxReady
  <2>1. posted' \in Seq(PostedEvents)
    BY <1>1, <1>2, TailType DEF TypeOK, HandleTxReady, Take
  <2>2. TypeOK'
    BY <1>1, <1>2, <2>1 DEF TypeOK, HandleTxReady, deviceVars, queueVars, histVars
  <2>3. QueueLock'
    BY <1>1, <1>2 DEF QueueLock, HandleTxReady, queueVars
  <2> QED
    BY <2>2, <2>3 DEF QueueInv
<1>3. CASE HandleClearQueue
  <2>1. posted' \in Seq(PostedEvents)
    BY <1>1, <1>3, TailType DEF TypeOK, HandleClearQueue, Take
  <2>2. queue' \in Seq(KeyEvent) /\ Len(queue') < QUEUE_SIZE
    <3>1. queue' = <<>>
      BY <1>3 DEF HandleClearQueue
    <3> QED
      BY <3>1, UsbAssumption
  <2>3. /\ locked' \in BOOLEAN
        /\ main' \in {"run", "locking", "waiting", "granted"}
        /\ Len(pushing') = (IF main' = "run" THEN 0 ELSE 1)
        /\ QueueLock'
    BY <1>1, <1>3, <2>2, UnlockKeepsLock DEF HandleClearQueue
  <2>4. TypeOK'
    BY <1>1, <1>3, <2>1, <2>2, <2>3
       DEF TypeOK, HandleClearQueue, deviceVars, timerVars, busVars, histVars
  <2> QED
    BY <2>3, <2>4 DEF QueueInv
<1>4. CASE HandleTransferComplete
  <2>1. Tail(posted) \in Seq(PostedEvents)
    BY <1>1, <1>4, TailType DEF TypeOK, HandleTransferComplete, Take
  <2>2. OnTransferComplete(FALSE, Tail(posted))
        /\ UNCHANGED <<queueVars, timerVars, held, busVars, spent>>
    BY <1>4 DEF HandleTransferComplete
  <2>3. TypeOK'
    BY <1>1, <2>1, <2>2, OnTransferCompleteType
       DEF TypeOK, queueVars, timerVars, busVars
  <2>4. QueueLock'
    BY <1>1, <2>2 DEF QueueLock, queueVars
  <2> QED
    BY <2>3, <2>4 DEF QueueInv
<1>5. CASE HandleAck
  <2>1. /\ acked' = FALSE
        /\ txArmed' = FALSE
        /\ OnTransferComplete(TRUE, posted)
        /\ UNCHANGED <<queueVars, settleArmed, clearArmed, held, ready, suspended,
                       wakeup, host, spent>>
    BY <1>5 DEF HandleAck
  <2>2. posted \in Seq(PostedEvents)
    BY <1>1 DEF TypeOK
  <2>3. TypeOK'
    BY <1>1, <2>1, <2>2, OnTransferCompleteType DEF TypeOK, queueVars
  <2>4. QueueLock'
    BY <1>1, <2>1 DEF QueueLock, queueVars
  <2> QED
    BY <2>3, <2>4 DEF QueueInv
<1>6. CASE DrainOne
  <2>1. /\ queue # <<>>
        /\ TryReport(Head(queue))
        /\ queue' = Tail(queue)
        /\ UnlockNotFull
        /\ UNCHANGED <<accessible, pushing, timerVars, usb, held, busVars, spent>>
    BY <1>6 DEF DrainOne
  <2>2. /\ queue \in Seq(KeyEvent) /\ Len(queue) <= QUEUE_SIZE
        /\ QUEUE_SIZE \in Nat
    BY <1>1, UsbAssumption DEF TypeOK, QueueLock
  <2>3. /\ Head(queue) \in KeyEvent /\ queue' \in Seq(KeyEvent)
        /\ Len(queue') < QUEUE_SIZE
    BY <2>1, <2>2, TailType
  <2>4. /\ locked' \in BOOLEAN
        /\ main' \in {"run", "locking", "waiting", "granted"}
        /\ Len(pushing') = (IF main' = "run" THEN 0 ELSE 1)
        /\ QueueLock'
    BY <1>1, <2>1, <2>3, UnlockKeepsLock
  <2>5. TypeOK'
    BY <1>1, <2>1, <2>3, <2>4, TryReportType DEF TypeOK, timerVars, busVars
  <2> QED
    BY <2>4, <2>5 DEF QueueInv
<1>7. CASE DrainDone
  <2>1. TypeOK'
    BY <1>1, <1>7
       DEF TypeOK, DrainDone, deviceVars, queueVars, timerVars, busVars, histVars
  <2>2. QueueLock'
    BY <1>1, <1>7 DEF QueueLock, DrainDone, queueVars
  <2> QED
    BY <2>1, <2>2 DEF QueueInv
<1> QED
  BY <1>2, <1>3, <1>4, <1>5, <1>6, <1>7 DEF UsbStep

(* The bus and the timers leave the queue and its mutex alone.             *)
LEMMA QueueInvEnvironment == QueueInv /\ (BusStep \/ TimerStep) => QueueInv'
<1> SUFFICES ASSUME QueueInv, BusStep \/ TimerStep PROVE QueueInv'
  OBVIOUS
<1>1. TypeOK /\ QueueLock
  BY DEF QueueInv
<1>2. UNCHANGED queueVars
  BY DEF BusStep, TimerStep, OnReset, OnSuspend, OnResume, ReceiveData, HostPoll,
         TxTimeout, ResumeSettled, ClearTimeout
<1>3. QueueLock'
  BY <1>1, <1>2 DEF QueueLock, queueVars
<1>4. CASE OnReset
  <2>1. spent' \in [stalls : Nat, suspends : Nat, resets : Nat]
    BY <1>1, <1>4 DEF TypeOK, OnReset
  <2>2. inFrame' \in Seq(KeyEvent) /\ deferred' \in Seq(KeyEvent)
    BY <1>4 DEF OnReset
  <2>3. TypeOK'
    BY <1>1, <1>4, <2>1, <2>2 DEF TypeOK, OnReset, queueVars, timerVars
  <2> QED
    BY <1>3, <2>3 DEF QueueInv
<1>5. CASE OnSuspend
  <2>1. spent' \in [stalls : Nat, suspends : Nat, resets : Nat]
    BY <1>1, <1>5 DEF TypeOK, OnSuspend
  <2>2. TypeOK'
    BY <1>1, <1>5, <2>1 DEF TypeOK, OnSuspend, queueVars, histVars
  <2> QED
    BY <1>3, <2>2 DEF QueueInv
<1>6. CASE OnResume \/ ReceiveData \/ HostPoll
  <2>1. CASE OnResume
    BY <1>1, <1>3, <2>1
       DEF QueueInv, TypeOK, OnResume, deviceVars, queueVars, timerVars, histVars
  <2>2. CASE ReceiveData
    BY <1>1, <1>3, <2>2
       DEF QueueInv, TypeOK, ReceiveData, deviceVars, queueVars, busVars, histVars
  <2>3. CASE HostPoll
    <3>1. UNCHANGED <<deviceVars, queueVars>> /\ host' = inBuf
      BY <2>3 DEF HostPoll
    <3>2. host' \subseteq KeyCode /\ inFrame' \in Seq(KeyEvent)
      BY <1>1, <2>3, <3>1 DEF TypeOK, HostPoll
    <3>3. TypeOK'
      BY <1>1, <2>3, <3>1, <3>2, UntouchedTypes DEF TypeOK, HostPoll, timerVars
    <3> QED
      BY <1>3, <3>3 DEF QueueInv
  <2> QED
    BY <1>6, <2>1, <2>2, <2>3
<1>7. posted \in Seq(PostedEvents)
      /\ \A event \in PostedEvents : Posting(posted, event) \in Seq(PostedEvents)
  BY <1>1, PostingType DEF TypeOK
<1>8. CASE TxTimeout
  <2>1. spent' \in [stalls : Nat, suspends : Nat, resets : Nat]
    BY <1>1, <1>8 DEF TypeOK, TxTimeout
  <2>2. posted' \in Seq(PostedEvents)
    BY <1>7, <1>8 DEF TxTimeout, PostedEvents
  <2>3. txArmed' = FALSE
        /\ UNCHANGED <<deviceVars, queueVars, settleArmed, clearArmed, usb, held,
                       busVars, histVars>>
    BY <1>8 DEF TxTimeout
  <2>4. TypeOK'
    BY <1>1, <2>1, <2>2, <2>3, UntouchedTypes DEF TypeOK, busVars, histVars
  <2> QED
    BY <1>3, <2>4 DEF QueueInv
<1>9. CASE ResumeSettled
  <2>1. posted' \in Seq(PostedEvents)
    BY <1>7, <1>9 DEF ResumeSettled, PostedEvents
  <2>2. TypeOK'
    BY <1>1, <1>9, <2>1 DEF TypeOK, ResumeSettled, queueVars, busVars, histVars
  <2> QED
    BY <1>3, <2>2 DEF QueueInv
<1>10. CASE ClearTimeout
  <2>1. posted' \in Seq(PostedEvents)
    BY <1>7, <1>10 DEF ClearTimeout, PostedEvents
  <2>2. clearArmed' = FALSE
        /\ UNCHANGED <<deviceVars, queueVars, txArmed, settleArmed, usb, held,
                       busVars, histVars, spent>>
    BY <1>10 DEF ClearTimeout
  <2>3. TypeOK'
    BY <1>1, <2>1, <2>2, UntouchedTypes DEF TypeOK, busVars, histVars
  <2> QED
    BY <1>3, <2>3 DEF QueueInv
<1> QED
  BY <1>4, <1>5, <1>6, <1>8, <1>9, <1>10 DEF BusStep, TimerStep

LEMMA QueueInvNext == QueueInv /\ [Next]_vars => QueueInv'
<1> SUFFICES ASSUME QueueInv, [Next]_vars PROVE QueueInv'
  OBVIOUS
<1>1. CASE Next
  BY <1>1, QueueInvMain, QueueInvUsb, QueueInvEnvironment DEF Next
<1>2. CASE UNCHANGED vars
  BY <1>2 DEF QueueInv, TypeOK, QueueLock, vars, deviceVars, queueVars, timerVars,
              busVars, histVars
<1> QED
  BY <1>1, <1>2

(* Every variable keeps its type, and an event is pending in push()        *)
(* exactly while main_thread is inside it.                                 *)
THEOREM TypeCorrect == Spec => []TypeOK
<1>1. QueueInv => TypeOK
  BY DEF QueueInv
<1> QED
  BY <1>1, QueueInvInit, QueueInvNext, PTL DEF Spec

(* The mutex m_not_full of usb_key_events.hpp is locked whenever the queue *)
(* is full and main_thread could try to push, and a push() that had to     *)
(* wait for it always finds room: no event is overwritten while USB is     *)
(* accessible.                                                             *)
THEOREM QueueLockInvariant == Spec => []QueueLock
<1>1. QueueInv => QueueLock
  BY DEF QueueInv
<1> QED
  BY <1>1, QueueInvInit, QueueInvNext, PTL DEF Spec

-----------------------------------------------------------------------------
(* USB is accessible, or about to become so, only on an active bus.        *)
THEOREM AccessibleInvariant == Spec => []AccessibleOnlyActive
<1>1. Init => AccessibleOnlyActive
  BY DEF Init, AccessibleOnlyActive
<1>2. AccessibleOnlyActive /\ [Next]_vars => AccessibleOnlyActive'
  <2> SUFFICES ASSUME AccessibleOnlyActive, [Next]_vars
               PROVE  AccessibleOnlyActive'
    OBVIOUS
  <2> USE DEF AccessibleOnlyActive, deviceVars, timerVars, busVars
  <2>1. CASE MainStep
    BY <2>1 DEF MainStep, ReportInaccessible, ReportNow, ReportLater, LockNotFull,
                PushGranted
  <2>2. CASE UsbStep
    BY <2>2 DEF UsbStep, HandleTxReady, HandleClearQueue, HandleTransferComplete,
                HandleAck, OnTransferComplete, DrainOne, DrainDone
  <2>3. CASE BusStep
    BY <2>3 DEF BusStep, OnReset, OnSuspend, OnResume, ReceiveData, HostPoll
  <2>4. CASE TimerStep
    BY <2>4 DEF TimerStep, TxTimeout, ResumeSettled, ClearTimeout
  <2>5. CASE UNCHANGED vars
    BY <2>5 DEF vars
  <2> QED
    BY <2>1, <2>2, <2>3, <2>4, <2>5 DEF Next
<1> QED
  BY <1>1, <1>2, PTL DEF Spec

-----------------------------------------------------------------------------
(* The counter m_report_updated.                                           *)

LEMMA KeyCodesFinite ==
  /\ IsFiniteSet(KeyCode) /\ Cardinality(KeyCode) \in Nat
  /\ \A keys \in SUBSET KeyCode :
       /\ Cardinality(keys) \in Nat
       /\ Cardinality(keys) <= Cardinality(KeyCode)
       /\ \A k \in keys : Cardinality(keys \ {k}) = Cardinality(keys) - 1
<1>1. IsFiniteSet(KeyCode)
  BY KeysAssumption, FS_Union DEF KeyCode
<1>2. ASSUME NEW keys \in SUBSET KeyCode
      PROVE  /\ IsFiniteSet(keys)
             /\ Cardinality(keys) <= Cardinality(KeyCode)
  BY <1>1, FS_Subset
<1>3. ASSUME NEW keys \in SUBSET KeyCode, NEW k \in keys
      PROVE  Cardinality(keys \ {k}) = Cardinality(keys) - 1
  BY <1>2, FS_RemoveElement
<1> QED
  BY <1>1, <1>2, <1>3, FS_CardinalityType

(* One event more in the report, if it counts.                             *)
LEMMA CounterTryReport ==
  ASSUME TypeOK, CounterFits, NEW e \in KeyEvent, CanTry(e), TryReport(e)
  PROVE  CounterFits'
<1>1. CASE ~ CanUpdate(report, e)
  BY <1>1 DEF TryReport, CounterFits
<1>2. CASE CanUpdate(report, e)
  <2>1. report' = Updated(report, e) /\ updated' = updated + 1 /\ updated \in Nat
    BY <1>2 DEF TryReport, TypeOK
  <2>2. report \subseteq KeyCode /\ report' \subseteq KeyCode
    BY <2>1, UpdatedType DEF TypeOK
  <2>3. CASE updated <= 1
    <3>1. /\ Cardinality(report') \in Nat
          /\ Cardinality(report') <= Cardinality(KeyCode)
          /\ Cardinality(KeyCode) \in Nat
      BY <2>2, KeyCodesFinite
    <3> QED
      BY <2>1, <2>3, <3>1 DEF CounterFits
  <2>4. CASE updated > 1
    <3>1. ~ e.press
      BY <2>1, <2>4 DEF CanTry
    <3>2. e.key \in report /\ report' = report \ {e.key}
      BY <1>2, <2>1, <3>1 DEF CanUpdate, Updated
    <3>3. /\ Cardinality(report') = Cardinality(report) - 1
          /\ Cardinality(report) \in Nat
          /\ Cardinality(KeyCode) \in Nat
      BY <2>2, <3>2, KeyCodesFinite
    <3> QED
      BY <2>1, <2>4, <3>3 DEF CounterFits
  <2> QED
    BY <2>1, <2>3, <2>4
<1> QED
  BY <1>1, <1>2

LEMMA CounterTransferComplete ==
  ASSUME CounterFits, NEW successful \in BOOLEAN, NEW events,
         OnTransferComplete(successful, events)
  PROVE  CounterFits'
<1>1. CASE ~ accessible
  BY <1>1 DEF OnTransferComplete, deviceVars, CounterFits
<1>2. CASE accessible
  <2>1. updated' = 1 \/ updated' = 0
    BY <1>2 DEF OnTransferComplete
  <2> QED
    BY <2>1 DEF CounterFits
<1> QED
  BY <1>1, <1>2

(* m_report_updated, a uint8_t, cannot wrap around to 0 and make a busy    *)
(* keyboard look idle: it stays below the number of keycodes plus 3.       *)
THEOREM CounterInvariant == Spec => []CounterFits
<1>1. Init => CounterFits
  BY DEF Init, CounterFits
<1>2. QueueInv /\ CounterFits /\ [Next]_vars => CounterFits'
  <2> SUFFICES ASSUME QueueInv, CounterFits, [Next]_vars PROVE CounterFits'
    OBVIOUS
  <2>0. TypeOK
    BY DEF QueueInv
  <2>1. ASSUME NEW e \in KeyEvent, ReportNow(e) PROVE CounterFits'
    BY <2>0, <2>1, CounterTryReport DEF ReportNow
  <2>2. CASE DrainOne
    <3>1. Head(queue) \in KeyEvent
      BY <2>0, <2>2, TailType DEF TypeOK, DrainOne
    <3> QED
      BY <2>0, <2>2, <3>1, CounterTryReport DEF DrainOne
  <2>3. CASE HandleAck \/ HandleTransferComplete
    BY <2>3, CounterTransferComplete DEF HandleAck, HandleTransferComplete
  <2>4. CASE OnReset
    BY <2>4 DEF OnReset, CounterFits
  <2>5. CASE UNCHANGED <<updated, report>>
    BY <2>5 DEF CounterFits
  <2> QED
    BY <2>1, <2>2, <2>3, <2>4, <2>5
       DEF Next, MainStep, UsbStep, BusStep, TimerStep, ReportInaccessible,
           ReportLater, LockNotFull, PushGranted, HandleTxReady,
           HandleClearQueue, DrainDone, OnSuspend, OnResume, ReceiveData,
           HostPoll, TxTimeout, ResumeSettled, ClearTimeout, vars, deviceVars
<1> QED
  BY <1>1, <1>2, QueueInvInit, QueueInvNext, PTL DEF Spec

-----------------------------------------------------------------------------
(* The queue is drained.                                                   *)

(* event_post() adds an event, and event_get() takes the first.            *)
LEMMA PostingHas ==
  ASSUME NEW s \in Seq(PostedEvents), NEW event \in PostedEvents
  PROVE  \A x : (\E i \in DOMAIN Posting(s, event) : Posting(s, event)[i] = x)
                <=> x = event \/ \E i \in DOMAIN s : s[i] = x
<1>1. CASE \E i \in DOMAIN s : s[i] = event
  BY <1>1 DEF Posting
<1>2. CASE ~ \E i \in DOMAIN s : s[i] = event
  <2> DEFINE t == Append(s, event)
  <2>1. /\ Len(s) \in Nat /\ DOMAIN s = 1 .. Len(s)
        /\ DOMAIN t = 1 .. Len(s) + 1
        /\ \A i \in 1 .. Len(s) : t[i] = s[i]
        /\ t[Len(s) + 1] = event
    BY AppendProperties, LenProperties
  <2>2. Posting(s, event) = t
    BY <1>2 DEF Posting
  <2> HIDE DEF t
  <2>3. ASSUME NEW x PROVE (\E i \in DOMAIN t : t[i] = x)
                           <=> x = event \/ \E i \in DOMAIN s : s[i] = x
    <3>1. ASSUME NEW i \in DOMAIN t, t[i] = x
          PROVE  x = event \/ \E j \in DOMAIN s : s[j] = x
      BY <2>1, <3>1
    <3>2. Len(s) + 1 \in DOMAIN t /\ \A j \in DOMAIN s : j \in DOMAIN t
      BY <2>1
    <3> QED
      BY <2>1, <3>1, <3>2
  <2> QED
    BY <2>2, <2>3
<1> QED
  BY <1>1, <1>2

LEMMA PostedHas ==
  ASSUME posted \in Seq(PostedEvents), NEW event \in PostedEvents,
         posted' = Posting(posted, event)
  PROVE  \A x : IsPosted(x)' <=> x = event \/ IsPosted(x)
<1> DEFINE t == Posting(posted, event)
<1>1. \A x : (\E i \in DOMAIN t : t[i] = x)
             <=> x = event \/ \E i \in DOMAIN posted : posted[i] = x
  BY PostingHas
<1>2. posted' = t
  OBVIOUS
<1> HIDE DEF t
<1> QED
  BY <1>1, <1>2 DEF IsPosted

LEMMA TailHas ==
  ASSUME NEW s \in Seq(PostedEvents), s # <<>>
  PROVE  \A x : /\ (\E i \in DOMAIN Tail(s) : Tail(s)[i] = x)
                   => \E i \in DOMAIN s : s[i] = x
                /\ (\E i \in DOMAIN s : s[i] = x) /\ x # Head(s)
                   => \E i \in DOMAIN Tail(s) : Tail(s)[i] = x
<1> DEFINE t == Tail(s)
<1>1. /\ t \in Seq(PostedEvents) /\ Len(t) = Len(s) - 1
      /\ \A i \in 1 .. Len(t) : t[i] = s[i + 1]
  BY HeadTailProperties
<1>2. /\ Len(s) \in Nat /\ DOMAIN s = 1 .. Len(s)
      /\ DOMAIN t = 1 .. Len(s) - 1
  BY <1>1, LenProperties
<1>3. Head(s) = s[1]
  OBVIOUS
<1> HIDE DEF t
<1>4. ASSUME NEW i \in DOMAIN t PROVE i + 1 \in DOMAIN s /\ t[i] = s[i + 1]
  BY <1>1, <1>2
<1>5. ASSUME NEW i \in DOMAIN s, s[i] # Head(s)
      PROVE  i - 1 \in DOMAIN t /\ t[i - 1] = s[i]
  <2>1. i # 1
    BY <1>3, <1>5
  <2>2. i - 1 \in 1 .. Len(t) /\ (i - 1) + 1 = i
    BY <1>1, <1>2, <2>1
  <2> QED
    BY <1>1, <1>2, <2>2
<1>6. ASSUME NEW x, NEW i \in DOMAIN t, t[i] = x PROVE \E j \in DOMAIN s : s[j] = x
  BY <1>4, <1>6
<1>7. ASSUME NEW x, NEW i \in DOMAIN s, s[i] = x, x # Head(s)
      PROVE  \E j \in DOMAIN t : t[j] = x
  BY <1>5, <1>7
<1> QED
  BY <1>6, <1>7 DEF t

(* A report is, or is about to be, on its way.                             *)
Flying ==
  \/ IsPosted("tx_ready") \/ IsPosted("transfer_complete")
  \/ txArmed \/ ready \/ acked

LEMMA InFlightIsFlying == InFlight <=> Flying \/ usb = "drain"
BY DEF InFlight, Flying

(* Every event taken from the queue changes the report.                    *)
Effective == DrainOne => report' # report

(* The strengthening, for a bus that is never suspended or reset.          *)
StrandInv ==
  /\ ~ suspended
  /\ ~ accessible =>
       /\ updated = 0
       /\ ~ IsPosted("tx_ready") /\ ~ txArmed /\ ~ ready /\ ~ acked
       /\ usb = "idle" /\ main = "run"
  /\ accessible /\ updated > 0 => Flying
  /\ MainMayPush => IsPosted("tx_ready") \/ ready
  /\ usb = "drain" /\ updated > 0 => IsPosted("tx_ready")
  /\ clearArmed => ~ accessible
  /\ IsPosted("clear_queue") => main = "run"
  /\ NeverStranded

LEMMA StrandInvInit == Init => StrandInv
BY DEF Init, StrandInv, IsPosted, MainMayPush, NeverStranded, Flying

(* What of the invariant a step can disturb that leaves alone what is under*)
(* way and the queue.                                                      *)
LEMMA StrandSame ==
  ASSUME StrandInv,
         UNCHANGED <<accessible, updated, usb, ready, acked, txArmed, posted,
                     suspended, clearArmed, queue, main, locked>>
  PROVE  StrandInv'
BY InFlightIsFlying
   DEF StrandInv, Flying, IsPosted, MainMayPush, NeverStranded, InFlight

LEMMA StrandMain ==
  ASSUME QueueInv, StrandInv, MainStep
  PROVE  StrandInv'
<1>1. TypeOK /\ QueueLock
  BY DEF QueueInv
<1>2. ASSUME NEW e \in KeyEvent, ReportInaccessible(e) PROVE StrandInv'
  <2>1. /\ ~ accessible /\ main = "run" /\ clearArmed' = TRUE
        /\ UNCHANGED <<accessible, updated, main, txArmed, posted, usb, ready,
                       acked, suspended>>
    BY <1>2 DEF ReportInaccessible, MayReport, deviceVars
  <2> QED
    BY <2>1 DEF StrandInv, IsPosted, MainMayPush, NeverStranded
<1>3. ASSUME NEW e \in KeyEvent, ReportNow(e) PROVE StrandInv'
  <2>1. /\ accessible /\ queue = <<>> /\ main = "run" /\ usb = "idle"
        /\ TryReport(e)
        /\ UNCHANGED <<accessible, queue, main, locked, txArmed, clearArmed, usb,
                       ready, acked, suspended>>
    BY <1>3 DEF ReportNow, MayReport, UsbQuiet, queueVars, timerVars, busVars
  <2>2. posted \in Seq(PostedEvents) /\ updated \in Nat
    BY <1>1 DEF TypeOK
  <2>3. \/ updated' = updated /\ posted' = posted
        \/ updated = 0 /\ posted' = Posting(posted, "tx_ready")
        \/ updated > 0 /\ posted' = posted
    BY <2>1, <2>2 DEF TryReport, Submit
  <2>4. /\ IsPosted("tx_ready") => IsPosted("tx_ready")'
        /\ IsPosted("transfer_complete") => IsPosted("transfer_complete")'
        /\ IsPosted("clear_queue")' => IsPosted("clear_queue")
        /\ posted' = Posting(posted, "tx_ready") => IsPosted("tx_ready")'
    <3>1. CASE posted' = posted
      <4>1. \A x : IsPosted(x)' <=> IsPosted(x)
        BY <3>1 DEF IsPosted
      <4>2. posted' = Posting(posted, "tx_ready") => IsPosted("tx_ready")'
        BY <2>2, PostedHas DEF PostedEvents
      <4> QED
        BY <4>1, <4>2
    <3>2. CASE posted' = Posting(posted, "tx_ready")
      BY <2>2, <3>2, PostedHas DEF PostedEvents
    <3> QED
      BY <2>3, <3>1, <3>2
  <2>5. Flying => Flying'
    BY <2>1, <2>4 DEF Flying
  <2>6. updated' > 0 => Flying'
    <3>1. CASE updated > 0
      BY <2>1, <2>5, <3>1 DEF StrandInv
    <3>2. CASE updated = 0
      BY <2>2, <2>3, <2>4, <3>2 DEF Flying
    <3> QED
      BY <2>2, <3>1, <3>2
  <2> QED
    BY <2>1, <2>4, <2>6 DEF StrandInv, MainMayPush, NeverStranded
<1>4. ASSUME NEW e \in KeyEvent, ReportLater(e) PROVE StrandInv'
  <2>1. /\ accessible /\ main = "run" /\ usb = "idle"
        /\ queue # <<>> \/ ~ CanTry(e)
        /\ UNCHANGED <<accessible, updated, txArmed, clearArmed, posted, usb,
                       ready, acked, suspended>>
    BY <1>4 DEF ReportLater, MayReport, UsbQuiet, deviceVars, timerVars, busVars
  <2>2. (main' = "locking" /\ locked') \/ main' = "run"
    BY <1>4, <2>1 DEF ReportLater
  <2>3. UsbQuiet /\ ~ IsPosted("clear_queue")
    BY <1>4 DEF ReportLater, MayReport, UsbQuiet, IsPosted
  <2>4. Flying
    <3>1. CASE queue # <<>>
      BY <2>1, <3>1, InFlightIsFlying DEF StrandInv, NeverStranded
    <3>2. CASE ~ CanTry(e)
      <4>1. updated > 0
        BY <1>1, <3>2 DEF CanTry, TypeOK
      <4> QED
        BY <2>1, <4>1 DEF StrandInv
    <3> QED
      BY <2>1, <3>1, <3>2
  <2>5. Flying'
    BY <2>1, <2>4 DEF Flying, IsPosted
  <2>6. InFlight'
    BY <2>5 DEF InFlight, Flying
  <2> QED
    BY <2>1, <2>2, <2>3, <2>5, <2>6
       DEF StrandInv, IsPosted, MainMayPush, NeverStranded
<1>5. CASE LockNotFull
  <2>1. /\ main = "locking" /\ main' = IF locked THEN "waiting" ELSE "granted"
        /\ UsbQuiet
        /\ UNCHANGED <<accessible, updated, queue, txArmed, clearArmed, posted,
                       usb, ready, acked, suspended>>
    BY <1>5 DEF LockNotFull, deviceVars, timerVars, busVars
  <2>2. ~ IsPosted("clear_queue")
    BY <2>1 DEF UsbQuiet, IsPosted
  <2>3. MainMayPush' => MainMayPush
    BY <2>1 DEF MainMayPush
  <2>4. accessible
    BY <2>1 DEF StrandInv
  <2>5. Flying' = Flying /\ InFlight' = InFlight
    BY <2>1 DEF Flying, InFlight, IsPosted
  <2> QED
    BY <2>1, <2>2, <2>3, <2>4, <2>5 DEF StrandInv, IsPosted, NeverStranded
<1>6. CASE PushGranted
  <2>1. /\ main = "granted" /\ main' = "run"
        /\ UNCHANGED <<accessible, updated, txArmed, clearArmed, posted,
                       usb, ready, acked, suspended>>
    BY <1>6 DEF PushGranted, deviceVars, timerVars, busVars
  <2>2. IsPosted("tx_ready") \/ ready
    BY <2>1 DEF StrandInv, MainMayPush
  <2>3. InFlight' /\ Flying'
    BY <2>1, <2>2 DEF InFlight, Flying, IsPosted
  <2>4. ~ MainMayPush'
    BY <2>1 DEF MainMayPush
  <2> QED
    BY <2>1, <2>3, <2>4 DEF StrandInv, IsPosted, NeverStranded
<1> QED
  BY <1>2, <1>3, <1>4, <1>5, <1>6 DEF MainStep

LEMMA StrandUsb ==
  ASSUME QueueInv, StrandInv, UsbStep, Effective
  PROVE  StrandInv'
<1>1. TypeOK /\ posted \in Seq(PostedEvents) /\ updated \in Nat
  BY DEF QueueInv, TypeOK
<1>2. CASE HandleTxReady
  <2>1. /\ posted # <<>> /\ Head(posted) = "tx_ready" /\ posted' = Tail(posted)
        /\ ready' = TRUE
        /\ usb = "idle"
        /\ UNCHANGED <<accessible, updated, queue, locked, main, clearArmed, usb,
                       acked, suspended>>
    BY <1>2 DEF HandleTxReady, Take, deviceVars, queueVars
  <2>2. /\ IsPosted("clear_queue")' => IsPosted("clear_queue")
        /\ IsPosted("tx_ready")
    BY <1>1, <2>1, TailHas DEF IsPosted
  <2>3. accessible
    BY <2>2 DEF StrandInv
  <2>4. Flying' /\ InFlight'
    BY <2>1 DEF Flying, InFlight
  <2> QED
    BY <2>1, <2>2, <2>3, <2>4 DEF StrandInv, MainMayPush, NeverStranded
<1>3. CASE HandleClearQueue
  <2>1. /\ posted # <<>> /\ Head(posted) = "clear_queue" /\ posted' = Tail(posted)
        /\ queue' = <<>>
        /\ UnlockNotFull
        /\ UNCHANGED <<accessible, updated, txArmed, clearArmed, usb, ready,
                       acked, suspended>>
    BY <1>3 DEF HandleClearQueue, Take, deviceVars, timerVars, busVars
  <2>2. IsPosted("clear_queue")
    BY <1>1, <2>1 DEF IsPosted
  <2>3. main = "run" /\ main' = "run"
    BY <2>1, <2>2 DEF StrandInv, UnlockNotFull
  <2>4. /\ IsPosted("tx_ready")' <=> IsPosted("tx_ready")
        /\ IsPosted("transfer_complete")' <=> IsPosted("transfer_complete")
    BY <1>1, <2>1, TailHas DEF IsPosted
  <2>5. Flying' <=> Flying
    BY <2>1, <2>4 DEF Flying
  <2>6. ~ MainMayPush'
    BY <2>3 DEF MainMayPush
  <2> QED
    BY <2>1, <2>3, <2>4, <2>5, <2>6 DEF StrandInv, NeverStranded
<1>4. CASE HandleTransferComplete
  <2>1. /\ posted # <<>> /\ Head(posted) = "transfer_complete"
        /\ OnTransferComplete(FALSE, Tail(posted))
        /\ UNCHANGED <<queue, locked, main, txArmed, clearArmed, ready, acked,
                       suspended>>
    BY <1>4 DEF HandleTransferComplete, Take, queueVars, timerVars, busVars
  <2>2. posted' = Tail(posted)
    BY <2>1 DEF OnTransferComplete
  <2>3. /\ IsPosted("tx_ready")' <=> IsPosted("tx_ready")
        /\ IsPosted("clear_queue")' <=> IsPosted("clear_queue")
    BY <1>1, <2>1, <2>2, TailHas DEF IsPosted
  <2>4. CASE accessible
    <3>1. accessible' /\ updated' = 0 /\ usb' = "drain"
      BY <2>1, <2>4 DEF OnTransferComplete
    <3>2. InFlight'
      BY <3>1 DEF InFlight
    <3> QED
      BY <2>1, <2>3, <2>4, <3>1, <3>2 DEF StrandInv, MainMayPush, NeverStranded
  <2>5. CASE ~ accessible
    <3>1. ~ accessible' /\ UNCHANGED <<updated, usb>>
      BY <2>1, <2>5 DEF OnTransferComplete, deviceVars
    <3> QED
      BY <2>1, <2>3, <2>5, <3>1 DEF StrandInv, MainMayPush, NeverStranded
  <2> QED
    BY <2>4, <2>5
<1>5. CASE HandleAck
  <2>1. /\ acked /\ acked' = FALSE /\ txArmed' = FALSE
        /\ OnTransferComplete(TRUE, posted)
        /\ UNCHANGED <<queue, locked, main, clearArmed, ready, suspended>>
    BY <1>5 DEF HandleAck, queueVars
  <2>2. accessible
    BY <2>1 DEF StrandInv
  <2>3. /\ accessible' /\ usb' = "drain"
        /\ \/ updated' = 1 /\ posted' = Posting(posted, "tx_ready")
           \/ updated' = 0 /\ posted' = posted
    BY <2>1, <2>2 DEF OnTransferComplete, Submit
  <2>4. /\ IsPosted("tx_ready") => IsPosted("tx_ready")'
        /\ IsPosted("clear_queue")' => IsPosted("clear_queue")
        /\ updated' > 0 => IsPosted("tx_ready")'
    <3>1. CASE updated' = 0 /\ posted' = posted
      BY <3>1 DEF IsPosted
    <3>2. CASE posted' = Posting(posted, "tx_ready")
      BY <1>1, <3>2, PostedHas DEF PostedEvents
    <3> QED
      BY <2>3, <3>1, <3>2
  <2>5. InFlight' /\ (IsPosted("tx_ready")' => Flying')
    BY <2>3 DEF InFlight, Flying
  <2> QED
    BY <2>1, <2>2, <2>3, <2>4, <2>5 DEF StrandInv, MainMayPush, NeverStranded
<1>6. CASE DrainOne
  <2>1. /\ usb = "drain" /\ TryReport(Head(queue)) /\ UnlockNotFull
        /\ report' # report
        /\ UNCHANGED <<accessible, txArmed, clearArmed, usb, ready, acked,
                       suspended>>
    BY <1>6 DEF DrainOne, timerVars, busVars, Effective
  <2>2. accessible
    BY <2>1 DEF StrandInv
  <2>3. /\ updated' = updated + 1
        /\ \/ updated = 0 /\ posted' = Posting(posted, "tx_ready")
           \/ updated > 0 /\ posted' = posted
    BY <1>1, <2>1 DEF TryReport, Submit
  <2>4. /\ IsPosted("tx_ready")'
        /\ IsPosted("clear_queue")' => IsPosted("clear_queue")
    <3>1. CASE updated > 0 /\ posted' = posted
      BY <2>1, <3>1 DEF IsPosted, StrandInv
    <3>2. CASE posted' = Posting(posted, "tx_ready")
      BY <1>1, <3>2, PostedHas DEF PostedEvents
    <3> QED
      BY <2>3, <3>1, <3>2
  <2>5. IsPosted("clear_queue")' => main' = "run"
    BY <2>1, <2>4 DEF StrandInv, UnlockNotFull
  <2>6. InFlight' /\ Flying'
    BY <2>1, <2>4 DEF InFlight, Flying
  <2> QED
    BY <2>1, <2>2, <2>4, <2>5, <2>6 DEF StrandInv, NeverStranded
<1>7. CASE DrainDone
  <2>1. /\ usb = "drain" /\ usb' = "idle"
        /\ queue # <<>> => ~ CanTry(Head(queue))
        /\ UNCHANGED <<accessible, updated, queue, locked, main, txArmed,
                       clearArmed, posted, ready, acked, suspended>>
    BY <1>7 DEF DrainDone, deviceVars, queueVars, timerVars, busVars
  <2>2. queue # <<>> => updated > 0
    BY <1>1, <2>1 DEF CanTry
  <2>3. updated > 0 => IsPosted("tx_ready")'
    BY <2>1 DEF StrandInv, IsPosted
  <2>4. accessible
    BY <2>1 DEF StrandInv
  <2>5. Flying' = Flying /\ (IsPosted("tx_ready")' => InFlight')
    BY <2>1 DEF Flying, IsPosted, InFlight
  <2> QED
    BY <2>1, <2>2, <2>3, <2>4, <2>5 DEF StrandInv, IsPosted, MainMayPush,
       NeverStranded
<1> QED
  BY <1>2, <1>3, <1>4, <1>5, <1>6, <1>7 DEF UsbStep

LEMMA StrandEnvironment ==
  ASSUME QueueInv, StrandInv, BusStep \/ TimerStep,
         Prompt, MaxSuspends = 0, MaxResets = 0
  PROVE  StrandInv'
<1>1. TypeOK /\ posted \in Seq(PostedEvents)
  BY DEF QueueInv, TypeOK
<1>2. ~ OnReset /\ ~ OnSuspend /\ ~ OnResume
  <2>1. spent.suspends \in Nat /\ spent.resets \in Nat
    BY <1>1 DEF TypeOK
  <2> QED
    BY <2>1 DEF OnReset, OnSuspend, OnResume, StrandInv
<1>3. CASE ReceiveData
  <2>1. UNCHANGED <<accessible, updated, usb, ready, acked, txArmed, posted,
                    suspended, clearArmed, queue, main, locked>>
    BY <1>3 DEF ReceiveData, deviceVars, queueVars, busVars
  <2> QED
    BY <2>1, StrandSame
<1>4. CASE HostPoll
  <2>1. /\ ready /\ acked' = TRUE /\ ~ MainMayPush
        /\ UNCHANGED <<accessible, updated, usb, txArmed, posted,
                       suspended, clearArmed, queue, main, locked>>
    BY <1>4 DEF HostPoll, deviceVars, queueVars, timerVars
  <2>2. accessible
    BY <2>1 DEF StrandInv
  <2>3. ~ MainMayPush' /\ Flying' /\ InFlight'
    BY <2>1 DEF MainMayPush, Flying, InFlight
  <2> QED
    BY <2>1, <2>2, <2>3 DEF StrandInv, IsPosted, NeverStranded
<1>5. CASE TxTimeout
  <2>1. /\ txArmed /\ posted' = Posting(posted, "transfer_complete")
        /\ UNCHANGED <<accessible, updated, usb, ready, acked,
                       suspended, clearArmed, queue, main, locked>>
    BY <1>5 DEF TxTimeout, deviceVars, queueVars, busVars
  <2>2. accessible
    BY <2>1 DEF StrandInv
  <2>3. /\ IsPosted("transfer_complete")'
        /\ IsPosted("tx_ready")' <=> IsPosted("tx_ready")
        /\ IsPosted("clear_queue")' <=> IsPosted("clear_queue")
    BY <1>1, <2>1, PostedHas DEF PostedEvents
  <2>4. Flying' /\ InFlight'
    BY <2>3 DEF Flying, InFlight
  <2> QED
    BY <2>1, <2>2, <2>3, <2>4 DEF StrandInv, MainMayPush, NeverStranded
<1>6. CASE ResumeSettled
  <2>1. /\ accessible' = TRUE /\ clearArmed' = FALSE
        /\ posted' = IF queue # <<>> THEN Posting(posted, "transfer_complete")
                                     ELSE posted
        /\ UNCHANGED <<updated, usb, ready, acked, txArmed, suspended, queue,
                       main, locked>>
    BY <1>6 DEF ResumeSettled, queueVars, busVars
  <2>2. /\ IsPosted("tx_ready")' <=> IsPosted("tx_ready")
        /\ IsPosted("clear_queue")' <=> IsPosted("clear_queue")
        /\ IsPosted("transfer_complete") => IsPosted("transfer_complete")'
        /\ queue # <<>> => IsPosted("transfer_complete")'
    <3>1. CASE queue = <<>>
      BY <2>1, <3>1 DEF IsPosted
    <3>2. CASE queue # <<>>
      BY <1>1, <2>1, <3>2, PostedHas DEF PostedEvents
    <3> QED
      BY <3>1, <3>2
  <2>3. Flying => Flying'
    BY <2>1, <2>2 DEF Flying
  <2>4. queue # <<>> => InFlight'
    BY <2>2 DEF InFlight
  <2>5. updated > 0 => Flying
    BY <1>1 DEF StrandInv, TypeOK
  <2> QED
    BY <2>1, <2>2, <2>3, <2>4, <2>5 DEF StrandInv, MainMayPush, NeverStranded
<1>7. CASE ClearTimeout
  <2>1. /\ clearArmed /\ clearArmed' = FALSE
        /\ posted' = Posting(posted, "clear_queue")
        /\ UNCHANGED <<accessible, updated, usb, ready, acked, txArmed,
                       suspended, queue, main, locked>>
    BY <1>7 DEF ClearTimeout, deviceVars, queueVars, busVars
  <2>2. ~ accessible /\ main = "run"
    BY <2>1 DEF StrandInv
  <2>3. IsPosted("tx_ready")' <=> IsPosted("tx_ready")
    BY <1>1, <2>1, PostedHas DEF PostedEvents
  <2> QED
    BY <2>1, <2>2, <2>3 DEF StrandInv, MainMayPush, NeverStranded
<1> QED
  BY <1>2, <1>3, <1>4, <1>5, <1>6, <1>7 DEF BusStep, TimerStep

(* Queued events are never left behind, however often the host stalls, on  *)
(* a bus that is neither suspended nor reset and as long as every event    *)
(* taken from the queue changes the report: draining it then always        *)
(* submits a report, which is still under way when a main_thread that was  *)
(* waiting for room gets to push() - before the host polls (Prompt).       *)
THEOREM NeverStrandedWhileEffective ==
  ASSUME Prompt, MaxSuspends = 0, MaxResets = 0
  PROVE  Spec /\ [][Effective]_vars => []NeverStranded
<1>1. StrandInv => NeverStranded
  BY DEF StrandInv
<1>2. QueueInv /\ StrandInv /\ [Next]_vars /\ [Effective]_vars => StrandInv'
  <2> SUFFICES ASSUME QueueInv, StrandInv, [Next]_vars, [Effective]_vars
               PROVE  StrandInv'
    OBVIOUS
  <2>1. CASE UNCHANGED vars
    <3>1. UNCHANGED <<accessible, updated, usb, ready, acked, txArmed, posted,
                      suspended, clearArmed, queue, main, locked>>
      BY <2>1 DEF vars, deviceVars, queueVars, timerVars, busVars
    <3> QED
      BY <3>1, StrandSame
  <2>2. CASE ~ UNCHANGED vars
    BY <2>2, StrandMain, StrandUsb, StrandEnvironment DEF Next
  <2> QED
    BY <2>1, <2>2
<1> QED
  BY <1>1, <1>2, StrandInvInit, QueueInvInit, QueueInvNext, PTL DEF Spec

-----------------------------------------------------------------------------
(* What a run of events adds up to: Effect, by its last event and by parts.*)

(* The key is down before the events and no event is about it, or the last *)
(* event about it is a press.                                              *)
EndsDown(down, es, k) ==
  \/ k \in down /\ \A j \in 1 .. Len(es) : es[j].key # k
  \/ \E i \in 1 .. Len(es) :
       es[i] = Press(k) /\ \A j \in i + 1 .. Len(es) : es[j].key # k

LEMMA EffectAt ==
  ASSUME NEW down, NEW es \in Seq(KeyEvent), NEW k \in KeyCode
  PROVE  k \in Effect(down, es) <=> EndsDown(down, es, k)
<1> DEFINE Last(i) == /\ IF i = 0 THEN k \in down ELSE es[i] = Press(k)
                      /\ \A j \in i + 1 .. Len(es) : es[j].key # k
<1>1. k \in Effect(down, es) <=> \E i \in 0 .. Len(es) : Last(i)
  BY DEF Effect
<1>2. Len(es) \in Nat
  OBVIOUS
<1>3. Last(0) <=> k \in down /\ \A j \in 1 .. Len(es) : es[j].key # k
  OBVIOUS
<1>4. \A i \in 1 .. Len(es) :
        Last(i) <=> es[i] = Press(k) /\ \A j \in i + 1 .. Len(es) : es[j].key # k
  BY <1>2
<1>5. (\E i \in 0 .. Len(es) : Last(i)) <=> Last(0) \/ \E i \in 1 .. Len(es) : Last(i)
  <2> HIDE DEF Last
  <2>1. 0 .. Len(es) = {0} \cup 1 .. Len(es)
    BY <1>2
  <2> QED
    BY <2>1
<1> HIDE DEF Last
<1> QED
  BY <1>1, <1>3, <1>4, <1>5 DEF EndsDown

LEMMA EffectEmpty ==
  ASSUME NEW down \in SUBSET KeyCode
  PROVE  Effect(down, <<>>) = down
<1> DEFINE es == <<>>
<1>1. es \in Seq(KeyEvent) /\ Len(es) = 0
  OBVIOUS
<1> HIDE DEF es
<1>2. ASSUME NEW k \in KeyCode PROVE k \in Effect(down, es) <=> k \in down
  <2>1. k \in Effect(down, es) <=> EndsDown(down, es, k)
    BY <1>1, EffectAt
  <2> QED
    BY <1>1, <2>1 DEF EndsDown
<1>3. Effect(down, es) \subseteq KeyCode
  BY DEF Effect
<1>4. Effect(down, es) = down
  BY <1>2, <1>3
<1> QED
  BY <1>4 DEF es

LEMMA EffectAppend ==
  ASSUME NEW down, NEW es \in Seq(KeyEvent), NEW e \in KeyEvent
  PROVE  Effect(down, Append(es, e)) = Updated(Effect(down, es), e)
<1> DEFINE t == Append(es, e)
           n == Len(es)
<1>1. /\ t \in Seq(KeyEvent) /\ n \in Nat /\ Len(t) = n + 1
      /\ \A i \in 1 .. n : t[i] = es[i]
      /\ t[n + 1] = e
  BY AppendProperties, LenProperties
<1>2. e.key \in KeyCode /\ e.press \in BOOLEAN
  BY DEF KeyEvent
<1>3. Effect(down, t) \subseteq KeyCode /\ Updated(Effect(down, es), e) \subseteq KeyCode
  BY <1>2 DEF Effect, Updated
<1> HIDE DEF t, n
<1>4. ASSUME NEW k \in KeyCode, k # e.key
      PROVE  k \in Effect(down, t) <=> k \in Effect(down, es)
  <2>1. e # Press(k)
    BY <1>4 DEF Press
  <2>2. \A i \in 1 .. n : (\A j \in i + 1 .. n + 1 : t[j].key # k)
                          <=> \A j \in i + 1 .. n : es[j].key # k
    <3>1. ASSUME NEW i \in 1 .. n, \A j \in i + 1 .. n : es[j].key # k,
                 NEW j \in i + 1 .. n + 1
          PROVE  t[j].key # k
      <4>1. CASE j = n + 1
        BY <1>1, <1>4, <4>1
      <4>2. CASE j # n + 1
        BY <1>1, <3>1, <4>2
      <4> QED
        BY <4>1, <4>2
    <3>2. ASSUME NEW i \in 1 .. n, \A j \in i + 1 .. n + 1 : t[j].key # k,
                 NEW j \in i + 1 .. n
          PROVE  es[j].key # k
      BY <1>1, <3>2
    <3> QED
      BY <3>1, <3>2
  <2>3. (\A j \in 1 .. n + 1 : t[j].key # k) <=> \A j \in 1 .. n : es[j].key # k
    <3>1. 1 .. n + 1 = 1 .. n \cup {n + 1}
      BY <1>1
    <3> QED
      BY <1>1, <1>4, <3>1
  <2>4. ASSUME NEW i \in 1 .. n + 1, t[i] = Press(k)
        PROVE  i \in 1 .. n /\ es[i] = Press(k)
    BY <1>1, <2>1, <2>4
  <2>5. \A i \in 1 .. n : i \in 1 .. n + 1 /\ t[i] = es[i]
    BY <1>1
  <2>6. k \in Effect(down, t) <=>
           \/ k \in down /\ \A j \in 1 .. n + 1 : t[j].key # k
           \/ \E i \in 1 .. n + 1 :
                t[i] = Press(k) /\ \A j \in i + 1 .. n + 1 : t[j].key # k
    BY <1>1, EffectAt DEF EndsDown
  <2>7. k \in Effect(down, es) <=>
           \/ k \in down /\ \A j \in 1 .. n : es[j].key # k
           \/ \E i \in 1 .. n :
                es[i] = Press(k) /\ \A j \in i + 1 .. n : es[j].key # k
    BY EffectAt DEF n, EndsDown
  <2> QED
    BY <2>2, <2>3, <2>4, <2>5, <2>6, <2>7
<1>5. e.key \in Effect(down, t) <=> e.press
  <2> DEFINE k == e.key
  <2>1. t[n + 1].key = k /\ n + 1 \in 1 .. n + 1
    BY <1>1
  <2>2. \A i \in 1 .. n : n + 1 \in i + 1 .. n + 1
    BY <1>1
  <2>3. k \in Effect(down, t) <=>
           \/ k \in down /\ \A j \in 1 .. n + 1 : t[j].key # k
           \/ \E i \in 1 .. n + 1 :
                t[i] = Press(k) /\ \A j \in i + 1 .. n + 1 : t[j].key # k
    BY <1>1, <1>2, EffectAt DEF EndsDown
  <2>4. \A i \in 1 .. n + 1 : i \in 1 .. n \/ i = n + 1
    BY <1>1
  <2>5. \A j \in (n + 1) + 1 .. n + 1 : FALSE
    BY <1>1
  <2>6. (e = Press(k)) <=> e.press
    BY DEF Press, KeyEvent
  <2> QED
    BY <1>1, <2>1, <2>2, <2>3, <2>4, <2>5, <2>6
<1>6. ASSUME NEW k \in KeyCode
      PROVE  k \in Updated(Effect(down, es), e)
             <=> IF k = e.key THEN e.press ELSE k \in Effect(down, es)
  BY <1>2 DEF Updated
<1>7. ASSUME NEW k \in KeyCode
      PROVE  k \in Effect(down, t) <=> k \in Updated(Effect(down, es), e)
  BY <1>4, <1>5, <1>6
<1>8. Effect(down, t) = Updated(Effect(down, es), e)
  BY <1>3, <1>7
<1> QED
  BY <1>8 DEF t

LEMMA EffectConcat ==
  ASSUME NEW down, NEW s \in Seq(KeyEvent), NEW t \in Seq(KeyEvent)
  PROVE  Effect(down, s \o t) = Effect(Effect(down, s), t)
<1> DEFINE c == s \o t
           n == Len(s)
           m == Len(t)
           mid == Effect(down, s)
<1>1. /\ c \in Seq(KeyEvent) /\ n \in Nat /\ m \in Nat /\ Len(c) = n + m
      /\ \A i \in 1 .. n + m : c[i] = IF i <= n THEN s[i] ELSE t[i - n]
  BY ConcatProperties, LenProperties
<1>2. Effect(down, c) \subseteq KeyCode /\ Effect(mid, t) \subseteq KeyCode
  BY DEF Effect
<1> HIDE DEF c
<1>3. /\ \A i \in 1 .. n : i \in 1 .. n + m /\ c[i] = s[i]
      /\ \A i \in 1 .. m : n + i \in 1 .. n + m /\ c[n + i] = t[i]
  <2>1. \A i \in 1 .. n : i \in 1 .. n + m /\ c[i] = s[i]
    BY <1>1
  <2>2. ASSUME NEW i \in 1 .. m PROVE n + i \in 1 .. n + m /\ c[n + i] = t[i]
    <3>1. n + i \in 1 .. n + m /\ ~ (n + i <= n) /\ (n + i) - n = i
      BY <1>1
    <3> QED
      BY <1>1, <3>1
  <2> QED
    BY <2>1, <2>2
<1>4. ASSUME NEW k \in KeyCode
      PROVE  k \in Effect(down, c) <=> k \in Effect(mid, t)
  <2> DEFINE After(i) == \A j \in i + 1 .. n + m : c[j].key # k
             AfterS(i) == \A j \in i + 1 .. n : s[j].key # k
             AfterT(i) == \A j \in i + 1 .. m : t[j].key # k
  <2>1. k \in Effect(down, c) <=>
          \/ k \in down /\ After(0)
          \/ \E i \in 1 .. n + m : c[i] = Press(k) /\ After(i)
    <3>1. k \in Effect(down, c) <=> EndsDown(down, c, k)
      BY <1>1, EffectAt
    <3>2. Len(c) = n + m
      BY <1>1
    <3> HIDE DEF n, m
    <3>3. EndsDown(down, c, k) <=>
           \/ k \in down /\ \A j \in 1 .. n + m : c[j].key # k
           \/ \E i \in 1 .. n + m :
                c[i] = Press(k) /\ \A j \in i + 1 .. n + m : c[j].key # k
      BY <3>2 DEF EndsDown
    <3> QED
      BY <3>1, <3>3
  <2>2. k \in mid <=> \/ k \in down /\ AfterS(0)
                      \/ \E i \in 1 .. n : s[i] = Press(k) /\ AfterS(i)
    BY EffectAt DEF EndsDown
  <2>3. k \in Effect(mid, t) <=>
          \/ k \in mid /\ AfterT(0)
          \/ \E i \in 1 .. m : t[i] = Press(k) /\ AfterT(i)
    BY EffectAt DEF EndsDown
  <2> HIDE DEF mid
  <2>4. ASSUME NEW i \in 0 .. n PROVE After(i) <=> AfterS(i) /\ AfterT(0)
    <3>1. ASSUME After(i), NEW j \in i + 1 .. n PROVE s[j].key # k
      BY <1>1, <1>3, <3>1
    <3>2. ASSUME After(i), NEW j \in 0 + 1 .. m PROVE t[j].key # k
      <4>1. n + j \in i + 1 .. n + m /\ c[n + j] = t[j]
        BY <1>1, <1>3
      <4> QED
        BY <3>2, <4>1
    <3>3. ASSUME AfterS(i), AfterT(0), NEW j \in i + 1 .. n + m PROVE c[j].key # k
      <4>1. CASE j <= n
        BY <1>1, <1>3, <3>3, <4>1
      <4>2. CASE ~ (j <= n)
        <5>1. j - n \in 0 + 1 .. m /\ c[j] = t[j - n]
          BY <1>1, <4>2
        <5> QED
          BY <3>3, <5>1
      <4> QED
        BY <4>1, <4>2
    <3> QED
      BY <3>1, <3>2, <3>3
  <2>5. ASSUME NEW i \in 1 .. m PROVE After(n + i) <=> AfterT(i)
    <3>1. ASSUME After(n + i), NEW j \in i + 1 .. m PROVE t[j].key # k
      <4>1. n + j \in (n + i) + 1 .. n + m /\ c[n + j] = t[j]
        BY <1>1, <1>3
      <4> QED
        BY <3>1, <4>1
    <3>2. ASSUME AfterT(i), NEW j \in (n + i) + 1 .. n + m PROVE c[j].key # k
      <4>1. j - n \in i + 1 .. m /\ c[j] = t[j - n]
        BY <1>1
      <4> QED
        BY <3>2, <4>1
    <3> QED
      BY <3>1, <3>2
  <2> HIDE DEF After, AfterS, AfterT
  <2>6. 0 \in 0 .. n /\ \A i \in 1 .. n : i \in 0 .. n
    BY <1>1
  <2>7. ASSUME NEW i \in 1 .. n + m
        PROVE  i \in 1 .. n \/ (i - n \in 1 .. m /\ n + (i - n) = i)
    BY <1>1
  <2>8. ASSUME NEW i \in 1 .. n + m, c[i] = Press(k), After(i)
        PROVE  \/ \E j \in 1 .. n : s[j] = Press(k) /\ AfterS(j) /\ AfterT(0)
               \/ \E j \in 1 .. m : t[j] = Press(k) /\ AfterT(j)
    <3>1. CASE i \in 1 .. n
      BY <1>3, <2>4, <2>6, <2>8, <3>1
    <3>2. CASE i - n \in 1 .. m /\ n + (i - n) = i
      <4>1. c[n + (i - n)] = t[i - n] /\ (After(n + (i - n)) <=> AfterT(i - n))
        BY <1>3, <2>5, <3>2
      <4> QED
        BY <2>8, <3>2, <4>1
    <3> QED
      BY <2>7, <3>1, <3>2
  <2>9. ASSUME NEW j \in 1 .. n, s[j] = Press(k), AfterS(j), AfterT(0)
        PROVE  \E i \in 1 .. n + m : c[i] = Press(k) /\ After(i)
    BY <1>3, <2>4, <2>6, <2>9
  <2>10. ASSUME NEW j \in 1 .. m, t[j] = Press(k), AfterT(j)
         PROVE  \E i \in 1 .. n + m : c[i] = Press(k) /\ After(i)
    <3>1. n + j \in 1 .. n + m /\ c[n + j] = Press(k) /\ After(n + j)
      BY <1>3, <2>5, <2>10
    <3> QED
      BY <3>1
  <2>11. After(0) <=> AfterS(0) /\ AfterT(0)
    BY <2>4, <2>6
  <2> QED
    BY <2>1, <2>2, <2>3, <2>8, <2>9, <2>10, <2>11
<1>5. Effect(down, c) = Effect(mid, t)
  BY <1>2, <1>4
<1> QED
  BY <1>5 DEF c

-----------------------------------------------------------------------------
(* The report, the buffer and the events behind them.                      *)

(* A sequence of two or three parts is cut at their seams.                 *)
LEMMA SplitAt ==
  ASSUME NEW S, NEW s \in Seq(S), NEW t \in Seq(S)
  PROVE  /\ SubSeq(s \o t, 1, Len(s)) = s
         /\ SubSeq(s \o t, Len(s) + 1, Len(s \o t)) = t
<1> DEFINE c == s \o t
           n == Len(s)
           m == Len(t)
           front == SubSeq(c, 1, n)
           back == SubSeq(c, n + 1, n + m)
<1>1. /\ c \in Seq(S) /\ n \in Nat /\ m \in Nat /\ Len(c) = n + m
      /\ \A i \in 1 .. n + m : c[i] = IF i <= n THEN s[i] ELSE t[i - n]
  BY ConcatProperties, LenProperties
<1> HIDE DEF c
<1>2. \A i \in 1 .. n + m : c[i] \in S
  BY <1>1, ElementOfSeq
<1>3. /\ front \in Seq(S) /\ Len(front) = n
      /\ \A i \in 1 .. n : front[i] = c[i]
  <2>1. \A i \in 1 .. n : c[i] \in S
    BY <1>1, <1>2
  <2>2. /\ front \in Seq(S) /\ Len(front) = IF 1 <= n THEN n - 1 + 1 ELSE 0
        /\ \A i \in 1 .. n - 1 + 1 : front[i] = c[1 + i - 1]
    BY <1>1, <2>1, SubSeqProperties
  <2> QED
    BY <1>1, <2>2
<1>4. /\ back \in Seq(S) /\ Len(back) = m
      /\ \A i \in 1 .. m : back[i] = c[n + i]
  <2>1. \A i \in n + 1 .. n + m : c[i] \in S
    BY <1>1, <1>2
  <2>2. n + 1 \in Int /\ n + m \in Int
    BY <1>1
  <2>3. /\ back \in Seq(S)
        /\ Len(back) = IF n + 1 <= n + m THEN (n + m) - (n + 1) + 1 ELSE 0
        /\ \A i \in 1 .. (n + m) - (n + 1) + 1 : back[i] = c[(n + 1) + i - 1]
    BY <2>1, <2>2, SubSeqProperties
  <2>4. (n + m) - (n + 1) + 1 = m /\ \A i \in 1 .. m : (n + 1) + i - 1 = n + i
    BY <1>1
  <2> HIDE DEF back, n, m
  <2>5. (IF n + 1 <= n + m THEN m ELSE 0) = m
    BY <1>1
  <2>6. Len(back) = m
    BY <2>3, <2>4, <2>5
  <2>7. ASSUME NEW i \in 1 .. m PROVE back[i] = c[n + i]
    BY <2>3, <2>4
  <2> QED
    BY <2>3, <2>6, <2>7
<1> HIDE DEF front, back
<1>5. front = s
  <2>1. \A i \in 1 .. n : front[i] = s[i]
    BY <1>1, <1>3
  <2>2. Len(front) = Len(s) /\ \A i \in 1 .. Len(front) : front[i] = s[i]
    BY <1>3, <2>1
  <2> QED
    BY <1>3, <2>2, SeqEqual
<1>6. back = t
  <2>1. ASSUME NEW i \in 1 .. m PROVE back[i] = t[i]
    <3>1. n + i \in 1 .. n + m /\ ~ (n + i <= n) /\ (n + i) - n = i
      BY <1>1
    <3> QED
      BY <1>1, <1>4, <3>1
  <2>2. Len(back) = Len(t) /\ \A i \in 1 .. Len(back) : back[i] = t[i]
    BY <1>4, <2>1
  <2> QED
    BY <1>4, <2>2, SeqEqual
<1>7. back = SubSeq(c, Len(s) + 1, Len(c))
  BY <1>1 DEF back
<1> QED
  BY <1>5, <1>6, <1>7 DEF front, c

LEMMA SplitAround ==
  ASSUME NEW S, NEW s \in Seq(S), NEW q \in Seq(S), NEW t \in Seq(S)
  PROVE  /\ s \o q \o t \in Seq(S)
         /\ Len(s) \in Nat /\ Len(q) \in Nat /\ Len(t) \in Nat
         /\ Len(s \o q \o t) = Len(s) + Len(q) + Len(t)
         /\ SubSeq(s \o q \o t, 1, Len(s)) = s
         /\ SubSeq(s \o q \o t, Len(s) + Len(q) + 1, Len(s \o q \o t)) = t
<1>1. s \o q \in Seq(S) /\ q \o t \in Seq(S) /\ Len(s \o q) = Len(s) + Len(q)
  BY ConcatProperties
<1>2. s \o q \o t = s \o (q \o t)
  BY ConcatAssociative
<1>3. s \o q \o t \in Seq(S) /\ Len(s \o q \o t) = Len(s \o q) + Len(t)
  BY <1>1, ConcatProperties
<1>4. SubSeq(s \o (q \o t), 1, Len(s)) = s
  BY <1>1, SplitAt
<1>5. SubSeq((s \o q) \o t, Len(s \o q) + 1, Len((s \o q) \o t)) = t
  BY <1>1, SplitAt
<1>6. Len(s) \in Nat /\ Len(q) \in Nat /\ Len(t) \in Nat
  BY LenProperties
<1> QED
  BY <1>1, <1>2, <1>3, <1>4, <1>5, <1>6

LEMMA FirstAndRest ==
  ASSUME NEW S, NEW s \in Seq(S), s # <<>>
  PROVE  /\ Head(s) \in S /\ Tail(s) \in Seq(S)
         /\ s = <<Head(s)>> \o Tail(s)
<1>1. Len(s) \in Nat /\ Len(s) > 0
  OBVIOUS
<1>2. SubSeq(s, 1, Len(s)) = s
  BY SubSeqFull
<1>3. 1 \in 1 .. Len(s) /\ Len(s) \in 1 .. Len(s)
  BY <1>1
<1>4. SubSeq(s, 1, Len(s)) = <<s[1]>> \o SubSeq(s, 2, Len(s))
  BY <1>3, SubSeqRecursiveFirst
<1>5. Tail(s) = SubSeq(s, 2, Len(s))
  BY TailIsSubSeq
<1>6. Head(s) = s[1]
  OBVIOUS
<1> QED
  BY <1>2, <1>4, <1>5, <1>6, TailType

(* The events that are in the report and that the host has not seen.       *)
Framed == inFrame \o deferred

(* The report is what the host has seen plus those events, and the buffer  *)
(* of the endpoint is what the host has seen plus the events of its frame. *)
FrameInv ==
  /\ report = Effect(host, Framed)
  /\ ready \/ IsPosted("tx_ready") => inBuf = Effect(host, inFrame)

LEMMA FrameInvInit == Init => FrameInv
<1> SUFFICES ASSUME Init PROVE FrameInv
  OBVIOUS
<1>1. report = {} /\ host = {} /\ ~ ready /\ ~ IsPosted("tx_ready")
  BY DEF Init, IsPosted
<1>2. Framed = <<>>
  BY DEF Init, Framed
<1>3. Effect({}, <<>>) = {}
  BY EffectEmpty
<1> QED
  BY <1>1, <1>2, <1>3 DEF FrameInv

LEMMA FramedType ==
  ASSUME TypeOK
  PROVE  Framed \in Seq(KeyEvent) /\ (deferred = <<>> => Framed = inFrame)
BY ConcatProperties, ConcatEmptySeq DEF TypeOK, Framed

(* An event taken into the report is the last of the framed ones.          *)
LEMMA TryReportFrames ==
  ASSUME TypeOK, TypeOK', FrameInv, NEW e \in KeyEvent, TryReport(e),
         UNCHANGED <<host, ready>>
  PROVE  /\ FrameInv'
         /\ Framed' = IF CanUpdate(report, e) THEN Append(Framed, e) ELSE Framed
         /\ IsPosted("clear_queue")' <=> IsPosted("clear_queue")
<1>1. CASE ~ CanUpdate(report, e)
  <2>1. UNCHANGED <<report, inBuf, inFrame, deferred, posted>>
    BY <1>1 DEF TryReport, histVars
  <2> QED
    BY <1>1, <2>1 DEF FrameInv, Framed, IsPosted
<1>2. CASE CanUpdate(report, e)
  <2>1. report' = Updated(report, e)
    BY <1>2 DEF TryReport
  <2>2. /\ inFrame \in Seq(KeyEvent) /\ deferred \in Seq(KeyEvent)
        /\ Framed \in Seq(KeyEvent) /\ posted \in Seq(PostedEvents)
    BY FramedType DEF TypeOK
  <2>3. Framed' = Append(Framed, e)
        /\ (updated = 0 => deferred' = <<>>)
    <3>1. CASE updated = 0
      <4>1. Submit(report', <<e>>, posted)
        BY <1>2, <3>1 DEF TryReport
      <4>2. inFrame' = Framed \o <<e>> /\ deferred' = <<>>
        BY <4>1 DEF Submit, Framed
      <4>3. Framed' = inFrame'
        BY <4>2, ConcatEmptySeq DEF Framed, TypeOK
      <4>4. Append(Framed, e) = Framed \o <<e>>
        BY <2>2, AppendIsConcat
      <4> QED
        BY <4>2, <4>3, <4>4
    <3>2. CASE updated # 0
      <4>1. deferred' = Append(deferred, e) /\ inFrame' = inFrame
        BY <1>2, <3>2 DEF TryReport
      <4>2. <<e>> \in Seq(KeyEvent)
        OBVIOUS
      <4>3. deferred' = deferred \o <<e>>
        BY <2>2, <4>1, AppendIsConcat
      <4>4. inFrame \o (deferred \o <<e>>) = (inFrame \o deferred) \o <<e>>
        BY <2>2, <4>2, ConcatAssociative
      <4>5. Append(Framed, e) = Framed \o <<e>>
        BY <2>2, AppendIsConcat
      <4> QED
        BY <3>2, <4>1, <4>3, <4>4, <4>5 DEF Framed
    <3> QED
      BY <3>1, <3>2
  <2>4. report' = Effect(host', Framed')
    <3>1. report = Effect(host, Framed) /\ host' = host
      BY DEF FrameInv
    <3>2. Effect(host, Append(Framed, e)) = Updated(Effect(host, Framed), e)
      BY <2>2, EffectAppend
    <3> QED
      BY <2>1, <2>3, <3>1, <3>2
  <2>5. /\ IsPosted("clear_queue")' <=> IsPosted("clear_queue")
        /\ ready' \/ IsPosted("tx_ready")' => inBuf' = Effect(host', inFrame')
    <3>1. CASE updated = 0
      <4>1. inBuf' = report' /\ posted' = Posting(posted, "tx_ready")
        BY <1>2, <3>1 DEF TryReport, Submit
      <4>2. IsPosted("clear_queue")' <=> IsPosted("clear_queue")
        BY <2>2, <4>1, PostedHas DEF PostedEvents
      <4>3. Framed' = inFrame'
        BY <2>3, <3>1, ConcatEmptySeq DEF Framed, TypeOK
      <4> QED
        BY <2>4, <4>1, <4>2, <4>3
    <3>2. CASE updated # 0
      <4>1. UNCHANGED <<inBuf, inFrame, posted>>
        BY <1>2, <3>2 DEF TryReport
      <4> QED
        BY <4>1 DEF IsPosted, FrameInv
    <3> QED
      BY <3>1, <3>2
  <2> QED
    BY <1>2, <2>3, <2>4, <2>5 DEF FrameInv
<1> QED
  BY <1>1, <1>2

(* on_transfer_complete() submits the report as it is.                     *)
LEMMA TransferCompleteFrames ==
  ASSUME TypeOK, TypeOK', FrameInv, NEW successful \in BOOLEAN,
         NEW events \in Seq(PostedEvents),
         OnTransferComplete(successful, events),
         \A x \in {"tx_ready", "clear_queue"} :
           (\E i \in DOMAIN events : events[i] = x) <=> IsPosted(x),
         UNCHANGED <<host, ready>>
  PROVE  /\ FrameInv'
         /\ Framed' = Framed
         /\ IsPosted("clear_queue")' <=> IsPosted("clear_queue")
<1>1. CASE accessible /\ successful /\ updated > 1
  <2>1. Submit(report, <<>>, events) /\ UNCHANGED report
    BY <1>1 DEF OnTransferComplete
  <2>2. Framed \in Seq(KeyEvent)
    BY FramedType
  <2>3. inFrame' = Framed /\ deferred' = <<>> /\ inBuf' = report
    BY <2>1, <2>2, ConcatEmptySeq DEF Submit, Framed
  <2>4. Framed' = Framed
    BY <2>2, <2>3, ConcatEmptySeq DEF Framed
  <2>5. posted' = Posting(events, "tx_ready")
    BY <2>1 DEF Submit
  <2>6. IsPosted("clear_queue")' <=> IsPosted("clear_queue")
    <3> DEFINE t == Posting(events, "tx_ready")
    <3>1. \A x : (\E i \in DOMAIN t : t[i] = x)
                 <=> x = "tx_ready" \/ \E i \in DOMAIN events : events[i] = x
      BY PostingHas DEF PostedEvents
    <3>2. posted' = t
      BY <2>5
    <3> HIDE DEF t
    <3>3. IsPosted("clear_queue")' <=> \E i \in DOMAIN t : t[i] = "clear_queue"
      BY <3>2 DEF IsPosted
    <3>4. IsPosted("clear_queue")' <=> \E i \in DOMAIN events : events[i] = "clear_queue"
      BY <3>1, <3>3
    <3> QED
      BY <3>4
  <2> QED
    BY <2>1, <2>3, <2>4, <2>6 DEF FrameInv
<1>2. CASE ~ (accessible /\ successful /\ updated > 1)
  <2>1. posted' = events /\ UNCHANGED <<inBuf, inFrame, deferred, report>>
    BY <1>2 DEF OnTransferComplete, deviceVars, histVars
  <2>2. Framed' = Framed
    BY <2>1 DEF Framed
  <2>3. \A x \in {"tx_ready", "clear_queue"} : IsPosted(x)' <=> IsPosted(x)
    BY <2>1 DEF IsPosted
  <2> QED
    BY <2>1, <2>2, <2>3 DEF FrameInv
<1> QED
  BY <1>1, <1>2

-----------------------------------------------------------------------------
(* The steps of the channel.                                               *)

LEMMA ChannelOperators ==
  /\ \A down, es : Channel!Effect(down, es) = Effect(down, es)
  /\ \A keys, e : Channel!CanUpdate(keys, e) = CanUpdate(keys, e)
  /\ Channel!KeyEvent = KeyEvent
<1>1. Channel!KeyCode = KeyCode /\ Channel!KeyEvent = KeyEvent
  BY DEF Channel!KeyCode, KeyCode, Channel!KeyEvent, KeyEvent
<1>2. ASSUME NEW down, NEW es PROVE Channel!Effect(down, es) = Effect(down, es)
  BY <1>1 DEF Channel!Effect, Effect, Channel!Press, Press
<1>3. ASSUME NEW keys, NEW e PROVE Channel!CanUpdate(keys, e) = CanUpdate(keys, e)
  BY DEF Channel!CanUpdate, CanUpdate, Channel!Cardinality, Cardinality
<1> QED
  BY <1>1, <1>2, <1>3

Open == accessible /\ ~ IsPosted("clear_queue")

LEMMA StepSwitch ==
  ASSUME UnderWay' = UnderWay, host' = host
  PROVE  [Channel!Next]_(Channel!vars)
<1>1. CASE Open' = Open
  BY <1>1 DEF Channel!vars, Open
<1>2. CASE Open' # Open
  <2>1. Open \in BOOLEAN /\ Open' \in BOOLEAN
    BY DEF Open
  <2>2. Open' = ~ Open
    BY <1>2, <2>1
  <2>3. Channel!Switch
    BY <2>2 DEF Channel!Switch, Open
  <2> QED
    BY <2>3 DEF Channel!Next
<1> QED
  BY <1>1, <1>2

LEMMA StepReport ==
  ASSUME NEW e \in KeyEvent, UnderWay' = Append(UnderWay, e), host' = host,
         Open' <=> Open
  PROVE  [Channel!Next]_(Channel!vars)
<1>1. Channel!Report(e)
  BY DEF Channel!Report, Open
<1> QED
  BY <1>1, ChannelOperators DEF Channel!Next

LEMMA StepDeliver ==
  ASSUME NEW n \in 1 .. Len(UnderWay),
         MaxStalls + MaxSuspends + MaxResets = 0
           => Channel!Faithful(SubSeq(UnderWay, 1, n)),
         host' = Effect(host, SubSeq(UnderWay, 1, n)),
         UnderWay' = SubSeq(UnderWay, n + 1, Len(UnderWay)),
         Open' <=> Open
  PROVE  [Channel!Next]_(Channel!vars)
<1>1. host' = Channel!Effect(host, SubSeq(UnderWay, 1, n))
  BY ChannelOperators
<1>2. Channel!Deliver(n)
  BY <1>1 DEF Channel!Deliver, Open
<1> QED
  BY <1>2 DEF Channel!Next

LEMMA StepSkip ==
  ASSUME NEW n \in 1 .. Len(UnderWay),
         ~ CanUpdate(Effect(host, SubSeq(UnderWay, 1, n - 1)), UnderWay[n]),
         UnderWay' = SubSeq(UnderWay, 1, n - 1)
                       \o SubSeq(UnderWay, n + 1, Len(UnderWay)),
         host' = host, Open' <=> Open
  PROVE  [Channel!Next]_(Channel!vars)
<1>1. ~ Channel!CanUpdate(Channel!Effect(host, SubSeq(UnderWay, 1, n - 1)),
                          UnderWay[n])
  BY ChannelOperators
<1>2. Channel!Skip(n)
  BY <1>1 DEF Channel!Skip, Open
<1> QED
  BY <1>2 DEF Channel!Next

LEMMA StepOverflow ==
  ASSUME NEW n \in 1 .. Len(UnderWay), NEW e \in KeyEvent, ~ Open,
         UnderWay' = SubSeq(UnderWay, 1, n - 1)
                       \o Append(SubSeq(UnderWay, n + 1, Len(UnderWay)), e),
         host' = host, ~ Open'
  PROVE  [Channel!Next]_(Channel!vars)
<1>1. Channel!Overflow(n, e)
  BY DEF Channel!Overflow, Open
<1>2. e \in Channel!KeyEvent
  BY ChannelOperators
<1> QED
  BY <1>1, <1>2 DEF Channel!Next

LEMMA StepExpire ==
  ASSUME NEW n \in 1 .. Len(UnderWay), NEW m \in 1 .. Len(UnderWay), ~ Open,
         UnderWay' = SubSeq(UnderWay, 1, n - 1)
                       \o SubSeq(UnderWay, m + 1, Len(UnderWay)),
         host' = host
  PROVE  [Channel!Next]_(Channel!vars)
<1>1. Channel!Expire(n, m)
  BY DEF Channel!Expire, Open
<1> QED
  BY <1>1 DEF Channel!Next

LEMMA StepReset ==
  ASSUME NEW n \in 0 .. Len(UnderWay),
         MaxStalls + MaxSuspends + MaxResets # 0,
         UnderWay' = SubSeq(UnderWay, n + 1, Len(UnderWay)),
         host' = {}, Open' <=> Open
  PROVE  [Channel!Next]_(Channel!vars)
<1>1. Channel!Reset(n)
  BY DEF Channel!Reset, Open
<1> QED
  BY <1>1 DEF Channel!Next

-----------------------------------------------------------------------------
(* Every step is one of the channel, or none, and keeps the events in step *)
(* with the report.                                                        *)

LEMMA UnderWayParts ==
  /\ UnderWay = Framed \o queue \o pushing
  /\ UnderWay' = Framed' \o queue' \o pushing'
BY DEF UnderWay, Framed

LEMMA WayFacts ==
  ASSUME TypeOK
  PROVE  /\ Framed \in Seq(KeyEvent) /\ queue \in Seq(KeyEvent)
         /\ pushing \in Seq(KeyEvent) /\ UnderWay \in Seq(KeyEvent)
         /\ Len(Framed) \in Nat /\ Len(queue) \in Nat /\ Len(pushing) \in Nat
         /\ Len(UnderWay) = Len(Framed) + Len(queue) + Len(pushing)
         /\ SubSeq(UnderWay, 1, Len(Framed)) = Framed
         /\ main = "run" => pushing = <<>>
<1>1. Framed \in Seq(KeyEvent) /\ queue \in Seq(KeyEvent) /\ pushing \in Seq(KeyEvent)
  BY FramedType DEF TypeOK
<1>2. UnderWay = Framed \o queue \o pushing
  BY UnderWayParts
<1>3. main = "run" => pushing = <<>>
  BY <1>1, EmptySeq DEF TypeOK
<1> QED
  BY <1>1, <1>2, <1>3, SplitAround

(* What is under way if the queue is not empty: its first event follows    *)
(* the framed ones.                                                        *)
LEMMA WayHead ==
  ASSUME TypeOK, queue # <<>>
  PROVE  /\ Len(Framed) + 1 \in 1 .. Len(UnderWay)
         /\ (Len(Framed) + 1) - 1 = Len(Framed)
         /\ UnderWay[Len(Framed) + 1] = Head(queue)
         /\ SubSeq(UnderWay, (Len(Framed) + 1) + 1, Len(UnderWay))
              = Tail(queue) \o pushing
         /\ UnderWay = Append(Framed, Head(queue)) \o Tail(queue) \o pushing
<1> DEFINE h == Head(queue)
           q == Tail(queue)
           r == q \o pushing
           n == Len(Framed)
           s == Append(Framed, h)
<1>1. /\ Framed \in Seq(KeyEvent) /\ pushing \in Seq(KeyEvent)
      /\ n \in Nat /\ UnderWay = (Framed \o queue) \o pushing
  BY WayFacts, UnderWayParts
<1>2. h \in KeyEvent /\ q \in Seq(KeyEvent) /\ queue = <<h>> \o q
  BY FirstAndRest DEF TypeOK
<1> HIDE DEF h, q
<1>3. <<h>> \in Seq(KeyEvent) /\ r \in Seq(KeyEvent)
  BY <1>1, <1>2, ConcatProperties
<1>4. /\ s = Framed \o <<h>> /\ s \in Seq(KeyEvent)
      /\ Len(s) = n + 1 /\ s[n + 1] = h
  BY <1>1, <1>2, AppendIsConcat, AppendProperties
<1> HIDE DEF s
<1>5. Framed \o queue = s \o q
  <2>1. Framed \o (<<h>> \o q) = (Framed \o <<h>>) \o q
    BY <1>1, <1>2, <1>3, ConcatAssociative
  <2> QED
    BY <1>2, <1>4, <2>1
<1>6. UnderWay = (s \o q) \o pushing
  BY <1>1, <1>5
<1>7. (s \o q) \o pushing = s \o r
  BY <1>1, <1>2, <1>4, ConcatAssociative
<1> HIDE DEF r
<1>8. UnderWay = s \o r
  BY <1>6, <1>7
<1>9. SubSeq(UnderWay, (n + 1) + 1, Len(UnderWay)) = r
  <2>1. SubSeq(s \o r, Len(s) + 1, Len(s \o r)) = r
    BY <1>3, <1>4, SplitAt
  <2> QED
    BY <1>4, <1>8, <2>1
<1>10. /\ Len(UnderWay) = n + 1 + Len(r) /\ Len(r) \in Nat
       /\ UnderWay[n + 1] = h
  <2>1. /\ Len(s \o r) = Len(s) + Len(r) /\ Len(r) \in Nat
        /\ \A i \in 1 .. Len(s) + Len(r) :
             (s \o r)[i] = IF i <= Len(s) THEN s[i] ELSE r[i - Len(s)]
    BY <1>3, <1>4, ConcatProperties
  <2>2. n + 1 \in 1 .. Len(s) + Len(r) /\ n + 1 <= Len(s)
    BY <1>1, <1>4, <2>1
  <2>3. (s \o r)[n + 1] = s[n + 1]
    BY <2>1, <2>2
  <2> QED
    BY <1>4, <1>8, <2>1, <2>3
<1>11. n + 1 \in 1 .. Len(UnderWay) /\ (n + 1) - 1 = n
  BY <1>1, <1>10
<1> QED
  BY <1>6, <1>9, <1>10, <1>11 DEF h, q, r, s

(* An event reported into the report or behind the queue.                  *)
LEMMA WayAppend ==
  ASSUME TypeOK, NEW e \in KeyEvent, pushing = <<>>,
         \/ /\ queue = <<>> /\ queue' = <<>> /\ pushing' = <<>>
            /\ Framed' = Append(Framed, e)
         \/ /\ Framed' = Framed /\ pushing' = <<>>
            /\ queue' = Append(queue, e)
         \/ Framed' = Framed /\ queue' = queue /\ pushing' = <<e>>
  PROVE  UnderWay' = Append(UnderWay, e)
<1> DEFINE s == Framed \o queue
<1>1. /\ Framed \in Seq(KeyEvent) /\ queue \in Seq(KeyEvent)
      /\ UnderWay = s \o pushing
      /\ UnderWay' = Framed' \o queue' \o pushing'
  BY WayFacts, UnderWayParts
<1>2. s \in Seq(KeyEvent) /\ <<e>> \in Seq(KeyEvent)
  BY <1>1, ConcatProperties
<1>3. UnderWay = s /\ Append(s, e) = s \o <<e>>
  BY <1>1, <1>2, ConcatEmptySeq, AppendIsConcat
<1>4. CASE /\ queue = <<>> /\ queue' = <<>> /\ pushing' = <<>>
           /\ Framed' = Append(Framed, e)
  <2>1. s = Framed
    BY <1>1, <1>4, ConcatEmptySeq
  <2>2. Append(Framed, e) \in Seq(KeyEvent)
    BY <1>1, AppendProperties
  <2>3. UnderWay' = Append(Framed, e)
    BY <1>1, <1>4, <2>2, ConcatEmptySeq
  <2> QED
    BY <1>3, <2>1, <2>3
<1>5. CASE /\ Framed' = Framed /\ pushing' = <<>>
           /\ queue' = Append(queue, e)
  <2>1. Append(queue, e) = queue \o <<e>>
    BY <1>1, AppendIsConcat
  <2>2. Framed \o (queue \o <<e>>) = s \o <<e>>
    BY <1>1, <1>2, ConcatAssociative
  <2>3. s \o <<e>> \in Seq(KeyEvent)
    BY <1>2, ConcatProperties
  <2>4. UnderWay' = s \o <<e>>
    BY <1>1, <1>5, <2>1, <2>2, <2>3, ConcatEmptySeq
  <2> QED
    BY <1>3, <2>4
<1>6. CASE Framed' = Framed /\ queue' = queue /\ pushing' = <<e>>
  <2>1. UnderWay' = s \o <<e>>
    BY <1>1, <1>6
  <2> QED
    BY <1>3, <2>1
<1> QED
  BY <1>4, <1>5, <1>6

(* push() behind its mutex, if there is room and if there is not.          *)
LEMMA EnqueueAppends ==
  ASSUME NEW e \in KeyEvent, queue \in Seq(KeyEvent), Enqueue(e)
  PROVE  /\ Len(queue) < QUEUE_SIZE => queue' = Append(queue, e)
         /\ Len(queue) = QUEUE_SIZE =>
              queue # <<>> /\ queue' = Append(Tail(queue), e)
<1> DEFINE q == Append(queue, e)
<1>1. q \in Seq(KeyEvent) /\ Len(q) = Len(queue) + 1 /\ Len(queue) \in Nat
  BY AppendProperties, LenProperties
<1>2. queue' = IF Len(q) > QUEUE_SIZE THEN Tail(q) ELSE q
  BY DEF Enqueue
<1>3. QUEUE_SIZE \in Nat /\ QUEUE_SIZE > 0
  BY UsbAssumption
<1>4. Tail(q) = IF queue = <<>> THEN <<>> ELSE Append(Tail(queue), e)
  BY HeadTailAppend
<1>5. queue = <<>> => Len(queue) = 0
  BY EmptySeq
<1> HIDE DEF q
<1>6. ASSUME Len(queue) < QUEUE_SIZE PROVE queue' = q
  BY <1>1, <1>2, <1>3, <1>6
<1>7. ASSUME Len(queue) = QUEUE_SIZE
      PROVE  queue # <<>> /\ queue' = Append(Tail(queue), e)
  BY <1>1, <1>2, <1>3, <1>4, <1>5, <1>7
<1> QED
  BY <1>6, <1>7 DEF q

LEMMA FramesSame ==
  ASSUME FrameInv, UNCHANGED <<report, host, inFrame, deferred>>,
         ready' => ready \/ IsPosted("tx_ready"),
         IsPosted("tx_ready")' => IsPosted("tx_ready"),
         UNCHANGED inBuf
  PROVE  FrameInv' /\ Framed' = Framed
BY DEF FrameInv, Framed

LEMMA ChannelMain ==
  ASSUME QueueInv, QueueInv', FrameInv, MainStep
  PROVE  FrameInv' /\ [Channel!Next]_(Channel!vars)
<1>1. TypeOK /\ TypeOK' /\ QueueLock /\ queue \in Seq(KeyEvent)
  BY DEF QueueInv, TypeOK
<1>2. ASSUME NEW e \in KeyEvent, ReportInaccessible(e)
      PROVE  FrameInv' /\ [Channel!Next]_(Channel!vars)
  <2>1. /\ main = "run" /\ ~ accessible /\ Enqueue(e)
        /\ UNCHANGED <<accessible, report, inBuf, host, inFrame, deferred, ready,
                       posted, main, pushing>>
    BY <1>2 DEF ReportInaccessible, MayReport, deviceVars, histVars
  <2>2. FrameInv' /\ Framed' = Framed
    BY <2>1, FramesSame DEF IsPosted
  <2>3. pushing = <<>> /\ pushing' = <<>>
    BY <1>1, <2>1, WayFacts
  <2>4. ~ Open /\ ~ Open'
    BY <2>1 DEF Open
  <2>5. CASE Len(queue) < QUEUE_SIZE
    <3>1. UnderWay' = Append(UnderWay, e)
      BY <1>1, <2>1, <2>2, <2>3, <2>5, EnqueueAppends, WayAppend
    <3> QED
      BY <2>1, <2>2, <2>4, <3>1, StepReport
  <2>6. CASE Len(queue) = QUEUE_SIZE
    <3>1. queue # <<>> /\ queue' = Append(Tail(queue), e)
      BY <1>1, <2>1, <2>6, EnqueueAppends
    <3>2. Tail(queue) \in Seq(KeyEvent) /\ Append(Tail(queue), e) \in Seq(KeyEvent)
      BY <1>1, <3>1, FirstAndRest, AppendProperties
    <3>3. Tail(queue) \o pushing = Tail(queue)
      BY <2>3, <3>2, ConcatEmptySeq
    <3>4. Framed \in Seq(KeyEvent)
          /\ Framed \o Append(Tail(queue), e) \in Seq(KeyEvent)
      BY <1>1, <3>2, WayFacts, ConcatProperties
    <3>5. UnderWay' = Framed \o Append(Tail(queue), e)
      BY <2>2, <2>3, <3>1, <3>4, UnderWayParts, ConcatEmptySeq
    <3> DEFINE n == Len(Framed) + 1
    <3>6. /\ n \in 1 .. Len(UnderWay)
          /\ SubSeq(UnderWay, 1, n - 1) = Framed
          /\ SubSeq(UnderWay, n + 1, Len(UnderWay)) = Tail(queue)
      BY <1>1, <3>1, <3>3, WayHead, WayFacts
    <3> HIDE DEF n
    <3> QED
      BY <2>1, <2>2, <2>4, <3>5, <3>6, StepOverflow
  <2>7. Len(queue) < QUEUE_SIZE \/ Len(queue) = QUEUE_SIZE
    BY <1>1, UsbAssumption DEF QueueLock
  <2> QED
    BY <2>5, <2>6, <2>7
<1>3. ASSUME NEW e \in KeyEvent, ReportNow(e)
      PROVE  FrameInv' /\ [Channel!Next]_(Channel!vars)
  <2>1. /\ main = "run" /\ queue = <<>> /\ TryReport(e)
        /\ UNCHANGED <<accessible, queue, pushing, host, ready>>
    BY <1>3 DEF ReportNow, MayReport, queueVars, busVars
  <2>2. /\ FrameInv'
        /\ Framed' = IF CanUpdate(report, e) THEN Append(Framed, e) ELSE Framed
        /\ IsPosted("clear_queue")' <=> IsPosted("clear_queue")
    BY <1>1, <2>1, TryReportFrames
  <2>3. Open' <=> Open
    BY <2>1, <2>2 DEF Open
  <2>4. pushing = <<>>
    BY <1>1, <2>1, WayFacts
  <2>5. CASE CanUpdate(report, e)
    <3>1. UnderWay' = Append(UnderWay, e)
      BY <1>1, <2>1, <2>2, <2>4, <2>5, WayAppend
    <3> QED
      BY <2>1, <2>2, <2>3, <3>1, StepReport
  <2>6. CASE ~ CanUpdate(report, e)
    <3>1. UnderWay' = UnderWay
      BY <2>1, <2>2, <2>6, UnderWayParts
    <3> QED
      BY <2>1, <2>2, <3>1, StepSwitch
  <2> QED
    BY <2>5, <2>6
<1>4. ASSUME NEW e \in KeyEvent, ReportLater(e)
      PROVE  FrameInv' /\ [Channel!Next]_(Channel!vars)
  <2>1. /\ main = "run"
        /\ UNCHANGED <<accessible, report, inBuf, host, inFrame, deferred, ready,
                       posted>>
    BY <1>4 DEF ReportLater, MayReport, deviceVars, histVars, busVars
  <2>2. FrameInv' /\ Framed' = Framed
    BY <2>1, FramesSame DEF IsPosted
  <2>3. pushing = <<>> /\ (Open' <=> Open)
    BY <1>1, <2>1, WayFacts DEF Open, IsPosted
  <2>4. UnderWay' = Append(UnderWay, e)
    <3>1. CASE locked
      <4>1. queue' = queue /\ pushing' = <<e>>
        BY <1>4, <3>1 DEF ReportLater
      <4> QED
        BY <1>1, <2>2, <2>3, <4>1, WayAppend
    <3>2. CASE ~ locked
      <4>1. Enqueue(e) /\ pushing' = pushing
        BY <1>4, <3>2 DEF ReportLater
      <4>2. Len(queue) < QUEUE_SIZE
        BY <1>1, <2>1, <3>2, UsbAssumption DEF QueueLock
      <4> QED
        BY <1>1, <2>2, <2>3, <4>1, <4>2, EnqueueAppends, WayAppend
    <3> QED
      BY <3>1, <3>2
  <2> QED
    BY <2>1, <2>2, <2>3, <2>4, StepReport
<1>5. CASE LockNotFull
  <2>1. UNCHANGED <<accessible, report, inBuf, host, inFrame, deferred, ready,
                    posted, queue, pushing>>
    BY <1>5 DEF LockNotFull, deviceVars, histVars, busVars
  <2>2. FrameInv' /\ Framed' = Framed
    BY <2>1, FramesSame DEF IsPosted
  <2> QED
    BY <2>1, <2>2, UnderWayParts, StepSwitch
<1>6. CASE PushGranted
  <2>1. /\ main = "granted" /\ Enqueue(pushing[1]) /\ pushing' = <<>>
        /\ UNCHANGED <<accessible, report, inBuf, host, inFrame, deferred, ready,
                       posted>>
    BY <1>6 DEF PushGranted, deviceVars, histVars, busVars
  <2>2. FrameInv' /\ Framed' = Framed
    BY <2>1, FramesSame DEF IsPosted
  <2>3. pushing \in Seq(KeyEvent) /\ Len(pushing) = 1
    BY <1>1, <2>1 DEF TypeOK
  <2>4. pushing[1] \in KeyEvent /\ pushing = <<pushing[1]>>
    BY <2>3
  <2>5. Len(queue) < QUEUE_SIZE
    BY <1>1, <2>1 DEF QueueLock
  <2>6. queue' = Append(queue, pushing[1])
    BY <1>1, <2>1, <2>4, <2>5, EnqueueAppends
  <2>7. UnderWay' = UnderWay
    <3> DEFINE e == pushing[1]
    <3>1. /\ Framed \in Seq(KeyEvent) /\ e \in KeyEvent /\ <<e>> \in Seq(KeyEvent)
          /\ pushing = <<e>> /\ queue' = Append(queue, e)
      BY <1>1, <2>4, <2>6, WayFacts
    <3> HIDE DEF e
    <3>2. Append(queue, e) = queue \o <<e>>
      BY <1>1, <3>1, AppendIsConcat
    <3>3. Framed \o (queue \o <<e>>) = (Framed \o queue) \o <<e>>
      BY <1>1, <3>1, ConcatAssociative
    <3>4. Framed \o (queue \o <<e>>) \in Seq(KeyEvent)
      BY <1>1, <3>1, ConcatProperties
    <3>5. UnderWay' = Framed \o (queue \o <<e>>)
      BY <2>1, <2>2, <3>1, <3>2, <3>4, UnderWayParts, ConcatEmptySeq
    <3>6. UnderWay = (Framed \o queue) \o <<e>>
      BY <3>1, UnderWayParts
    <3> QED
      BY <3>3, <3>5, <3>6
  <2> QED
    BY <2>1, <2>2, <2>7, StepSwitch
<1> QED
  BY <1>2, <1>3, <1>4, <1>5, <1>6 DEF MainStep

LEMMA ChannelUsb ==
  ASSUME QueueInv, QueueInv', FrameInv, UsbStep
  PROVE  FrameInv' /\ [Channel!Next]_(Channel!vars)
<1>1. /\ TypeOK /\ TypeOK' /\ queue \in Seq(KeyEvent)
      /\ posted \in Seq(PostedEvents)
  BY DEF QueueInv, TypeOK
<1>2. CASE HandleTxReady
  <2>1. /\ posted # <<>> /\ Head(posted) = "tx_ready" /\ posted' = Tail(posted)
        /\ UNCHANGED <<report, inBuf, host, inFrame, deferred, queue, pushing>>
    BY <1>2 DEF HandleTxReady, Take, deviceVars, queueVars, histVars
  <2>2. /\ IsPosted("tx_ready")' => IsPosted("tx_ready")
        /\ IsPosted("tx_ready")
    BY <1>1, <2>1, TailHas DEF IsPosted
  <2>3. FrameInv' /\ Framed' = Framed
    BY <2>1, <2>2, FramesSame
  <2> QED
    BY <2>1, <2>3, UnderWayParts, StepSwitch
<1>3. CASE HandleClearQueue
  <2>1. /\ posted # <<>> /\ Head(posted) = "clear_queue" /\ posted' = Tail(posted)
        /\ queue' = <<>>
        /\ UNCHANGED <<report, inBuf, host, inFrame, deferred, pushing, ready>>
    BY <1>3 DEF HandleClearQueue, Take, deviceVars, histVars, busVars
  <2>2. /\ IsPosted("tx_ready")' => IsPosted("tx_ready")
        /\ IsPosted("clear_queue")
    BY <1>1, <2>1, TailHas DEF IsPosted
  <2>3. FrameInv' /\ Framed' = Framed
    BY <2>1, <2>2, FramesSame
  <2>4. ~ Open
    BY <2>2 DEF Open
  <2>5. CASE queue = <<>>
    <3>1. UnderWay' = UnderWay
      BY <2>1, <2>3, <2>5, UnderWayParts
    <3> QED
      BY <2>1, <2>3, <3>1, StepSwitch
  <2>6. CASE queue # <<>>
    <3> DEFINE n == Len(Framed) + 1
               m == Len(Framed) + Len(queue)
    <3>1. /\ Framed \in Seq(KeyEvent) /\ pushing \in Seq(KeyEvent)
          /\ Len(Framed) \in Nat /\ Len(queue) \in Nat /\ Len(pushing) \in Nat
          /\ Len(UnderWay) = Len(Framed) + Len(queue) + Len(pushing)
          /\ UnderWay = Framed \o queue \o pushing
      BY <1>1, WayFacts, UnderWayParts
    <3>2. Len(queue) > 0
      BY <1>1, <2>6, <3>1, EmptySeq
    <3>3. n \in 1 .. Len(UnderWay) /\ m \in 1 .. Len(UnderWay) /\ n - 1 = Len(Framed)
      BY <3>1, <3>2
    <3>4. /\ SubSeq(UnderWay, 1, Len(Framed)) = Framed
          /\ SubSeq(UnderWay, m + 1, Len(UnderWay)) = pushing
      BY <1>1, <3>1, SplitAround
    <3>5. UnderWay' = Framed \o pushing
      BY <2>1, <2>3, <3>1, UnderWayParts, ConcatEmptySeq
    <3> HIDE DEF n, m
    <3> QED
      BY <2>1, <2>3, <2>4, <3>3, <3>4, <3>5, StepExpire
  <2> QED
    BY <2>5, <2>6
<1>4. CASE HandleTransferComplete
  <2>1. /\ posted # <<>> /\ Head(posted) = "transfer_complete"
        /\ OnTransferComplete(FALSE, Tail(posted))
        /\ UNCHANGED <<queue, pushing, host, ready>>
    BY <1>4 DEF HandleTransferComplete, Take, queueVars, busVars
  <2>2. /\ Tail(posted) \in Seq(PostedEvents)
        /\ \A x \in {"tx_ready", "clear_queue"} :
             (\E i \in DOMAIN Tail(posted) : Tail(posted)[i] = x) <=> IsPosted(x)
    BY <1>1, <2>1, TailHas, TailType DEF IsPosted
  <2>3. FrameInv' /\ Framed' = Framed
    BY <1>1, <2>1, <2>2, TransferCompleteFrames
  <2> QED
    BY <2>1, <2>3, UnderWayParts, StepSwitch
<1>5. CASE HandleAck
  <2>0. UNCHANGED <<queue, pushing, host, ready>>
    BY <1>5 DEF HandleAck, queueVars
  <2>1. /\ acked /\ acked' = FALSE /\ txArmed' = FALSE
        /\ OnTransferComplete(TRUE, posted)
        /\ UNCHANGED <<queue, locked, main, clearArmed, ready, suspended>>
    BY <1>5 DEF HandleAck, queueVars
  <2>2. \A x \in {"tx_ready", "clear_queue"} :
          (\E i \in DOMAIN posted : posted[i] = x) <=> IsPosted(x)
    BY DEF IsPosted
  <2>3. FrameInv' /\ Framed' = Framed
    BY <1>1, <2>0, <2>1, <2>2, TransferCompleteFrames
  <2> QED
    BY <2>0, <2>3, UnderWayParts, StepSwitch
<1>6. CASE DrainOne
  <2> DEFINE h == Head(queue)
  <2>1. /\ queue # <<>> /\ TryReport(h) /\ queue' = Tail(queue)
        /\ UNCHANGED <<accessible, pushing, host, ready>>
    BY <1>6 DEF DrainOne, busVars
  <2>2. h \in KeyEvent /\ Tail(queue) \in Seq(KeyEvent)
    BY <1>1, <2>1, FirstAndRest
  <2> HIDE DEF h
  <2>3. /\ FrameInv'
        /\ Framed' = IF CanUpdate(report, h) THEN Append(Framed, h) ELSE Framed
        /\ IsPosted("clear_queue")' <=> IsPosted("clear_queue")
    BY <1>1, <2>1, <2>2, TryReportFrames
  <2>4. Open' <=> Open
    BY <2>1, <2>3 DEF Open
  <2> DEFINE n == Len(Framed) + 1
  <2>5. /\ n \in 1 .. Len(UnderWay)
        /\ SubSeq(UnderWay, 1, n - 1) = Framed
        /\ UnderWay[n] = h
        /\ SubSeq(UnderWay, n + 1, Len(UnderWay)) = Tail(queue) \o pushing
        /\ UnderWay = Append(Framed, h) \o Tail(queue) \o pushing
        /\ Framed \in Seq(KeyEvent) /\ pushing \in Seq(KeyEvent)
    BY <1>1, <2>1, WayHead, WayFacts DEF h
  <2> HIDE DEF n
  <2>6. CASE CanUpdate(report, h)
    <3>1. UnderWay' = UnderWay
      BY <2>1, <2>3, <2>5, <2>6, UnderWayParts
    <3> QED
      BY <2>1, <2>3, <3>1, StepSwitch
  <2>7. CASE ~ CanUpdate(report, h)
    <3>1. UnderWay' = (Framed \o Tail(queue)) \o pushing
      BY <2>1, <2>3, <2>7, UnderWayParts
    <3>2. (Framed \o Tail(queue)) \o pushing = Framed \o (Tail(queue) \o pushing)
      <4>1. Framed \in Seq(KeyEvent) /\ pushing \in Seq(KeyEvent)
        BY <2>5
      <4> QED
        BY <2>2, <4>1, ConcatAssociative
    <3>3. ~ CanUpdate(Effect(host, Framed), h)
      BY <2>7 DEF FrameInv
    <3>4. UnderWay' = Framed \o (Tail(queue) \o pushing)
      BY <3>1, <3>2
    <3> QED
      BY <2>1, <2>3, <2>4, <2>5, <3>3, <3>4, StepSkip
  <2> QED
    BY <2>6, <2>7
<1>7. CASE DrainDone
  <2>1. UNCHANGED <<report, inBuf, host, inFrame, deferred, ready, posted, queue,
                    pushing>>
    BY <1>7 DEF DrainDone, deviceVars, queueVars, histVars, busVars
  <2>2. FrameInv' /\ Framed' = Framed
    BY <2>1, FramesSame DEF IsPosted
  <2> QED
    BY <2>1, <2>2, UnderWayParts, StepSwitch
<1> QED
  BY <1>2, <1>3, <1>4, <1>5, <1>6, <1>7 DEF UsbStep

LEMMA ChannelEnvironment ==
  ASSUME QueueInv, QueueInv', FrameInv, BusStep \/ TimerStep,
         MaxStalls + MaxSuspends + MaxResets = 0 => Channel!Faithful(inFrame)
  PROVE  FrameInv' /\ [Channel!Next]_(Channel!vars)
<1>1. /\ TypeOK /\ TypeOK' /\ queue \in Seq(KeyEvent)
      /\ posted \in Seq(PostedEvents) /\ host \in SUBSET KeyCode
      /\ inFrame \in Seq(KeyEvent) /\ deferred \in Seq(KeyEvent)
      /\ pushing \in Seq(KeyEvent)
  BY DEF QueueInv, TypeOK
<1>2. CASE OnReset
  <2>1. /\ posted = <<>> /\ posted' = posted /\ ready' = FALSE
        /\ report' = {} /\ host' = {} /\ inFrame' = <<>> /\ deferred' = <<>>
        /\ UNCHANGED <<accessible, queue, pushing>>
    BY <1>2 DEF OnReset, UsbQuiet, queueVars
  <2>2. Framed' = <<>>
    BY <2>1 DEF Framed
  <2>3. ~ IsPosted("tx_ready")' /\ (Open' <=> Open)
    BY <2>1 DEF IsPosted, Open
  <2>4. FrameInv'
    BY <2>1, <2>2, <2>3, EffectEmpty DEF FrameInv
  <2>5. MaxStalls + MaxSuspends + MaxResets # 0
    <3>1. spent.resets \in Nat /\ spent.resets < MaxResets
      BY <1>1, <1>2 DEF TypeOK, OnReset
    <3> QED
      BY <3>1, UsbAssumption
  <2> DEFINE r == queue \o pushing
             n == Len(Framed)
  <2>6. /\ Framed \in Seq(KeyEvent) /\ n \in Nat
        /\ UnderWay = Framed \o queue \o pushing
        /\ r \in Seq(KeyEvent)
    <3>1. r \in Seq(KeyEvent)
      BY <1>1, ConcatProperties
    <3> HIDE DEF r
    <3> QED
      BY <1>1, <3>1, WayFacts, UnderWayParts
  <2>7. UnderWay = Framed \o r
    <3>1. /\ Framed \in Seq(KeyEvent) /\ queue \in Seq(KeyEvent)
          /\ pushing \in Seq(KeyEvent)
      BY <1>1, <2>6
    <3>2. (Framed \o queue) \o pushing = Framed \o (queue \o pushing)
      BY <3>1, ConcatAssociative
    <3> QED
      BY <2>6, <3>2
  <2>8. UnderWay' = r
    BY <1>1, <2>1, <2>2, UnderWayParts, ConcatEmptySeq
  <2> HIDE DEF r
  <2>9. /\ SubSeq(UnderWay, n + 1, Len(UnderWay)) = r
        /\ Len(UnderWay) = n + Len(r) /\ Len(r) \in Nat
    <3>1. SubSeq(Framed \o r, Len(Framed) + 1, Len(Framed \o r)) = r
      BY <2>6, SplitAt
    <3>2. Len(Framed \o r) = Len(Framed) + Len(r) /\ Len(r) \in Nat
      BY <2>6, ConcatProperties, LenProperties
    <3> QED
      BY <2>7, <3>1, <3>2
  <2>10. n \in 0 .. Len(UnderWay)
    BY <2>6, <2>9
  <2> HIDE DEF n
  <2> QED
    BY <2>1, <2>3, <2>4, <2>5, <2>8, <2>9, <2>10, StepReset
<1>3. CASE OnSuspend \/ OnResume \/ ReceiveData
  <2>1. UNCHANGED <<report, inBuf, host, inFrame, deferred, ready, posted, queue,
                    pushing>>
    BY <1>3 DEF OnSuspend, OnResume, ReceiveData, deviceVars, queueVars,
                histVars, busVars
  <2>2. FrameInv' /\ Framed' = Framed
    BY <2>1, FramesSame DEF IsPosted
  <2> QED
    BY <2>1, <2>2, UnderWayParts, StepSwitch
<1>4. CASE HostPoll
  <2>1. /\ ready /\ ready' = FALSE /\ host' = inBuf /\ inFrame' = <<>>
        /\ UNCHANGED <<accessible, report, inBuf, deferred, posted, queue,
                       pushing>>
    BY <1>4 DEF HostPoll, deviceVars, queueVars
  <2>2. inBuf = Effect(host, inFrame) /\ report = Effect(host, Framed)
        /\ inBuf \in SUBSET KeyCode
    BY <1>1, <2>1 DEF FrameInv, TypeOK
  <2>3. Framed' = deferred
    BY <1>1, <2>1, ConcatEmptySeq DEF Framed
  <2>4. FrameInv'
    <3>1. report' = Effect(host', Framed')
      BY <1>1, <2>1, <2>2, <2>3, EffectConcat DEF Framed
    <3>2. inBuf' = Effect(host', inFrame')
      BY <2>1, <2>2, EffectEmpty
    <3> QED
      BY <3>1, <3>2 DEF FrameInv
  <2> DEFINE n == Len(inFrame)
             r == deferred \o queue \o pushing
  <2>5. r \in Seq(KeyEvent) /\ deferred \o queue \in Seq(KeyEvent)
    <3>1. deferred \o queue \in Seq(KeyEvent)
      BY <1>1, ConcatProperties
    <3> QED
      BY <1>1, <3>1, ConcatProperties
  <2>6. UnderWay = inFrame \o r
    <3>1. (inFrame \o deferred) \o queue = inFrame \o (deferred \o queue)
      BY <1>1, ConcatAssociative
    <3> DEFINE d == deferred \o queue
    <3>2. d \in Seq(KeyEvent) /\ r = d \o pushing
      BY <2>5
    <3>3. UnderWay = (inFrame \o d) \o pushing
      BY <3>1 DEF UnderWay
    <3> HIDE DEF d, r
    <3>4. (inFrame \o d) \o pushing = inFrame \o (d \o pushing)
      <4>1. /\ inFrame \in Seq(KeyEvent) /\ d \in Seq(KeyEvent)
            /\ pushing \in Seq(KeyEvent)
        BY <1>1, <3>2
      <4> QED
        BY <4>1, ConcatAssociative
    <3> QED
      BY <3>2, <3>3, <3>4
  <2>7. UnderWay' = r
    BY <2>1, <2>3, UnderWayParts
  <2>8. Open' <=> Open
    BY <2>1 DEF Open, IsPosted
  <2> HIDE DEF r
  <2>9. CASE inFrame = <<>>
    <3>1. UnderWay' = UnderWay
      BY <2>5, <2>6, <2>7, <2>9, ConcatEmptySeq
    <3>2. host' = host
      BY <1>1, <2>1, <2>2, <2>9, EffectEmpty
    <3> QED
      BY <2>4, <3>1, <3>2, StepSwitch
  <2>10. CASE inFrame # <<>>
    <3>1. /\ SubSeq(UnderWay, 1, n) = inFrame
          /\ SubSeq(UnderWay, n + 1, Len(UnderWay)) = r
          /\ Len(UnderWay) = n + Len(r) /\ Len(r) \in Nat
      <4>1. /\ SubSeq(inFrame \o r, 1, Len(inFrame)) = inFrame
            /\ SubSeq(inFrame \o r, Len(inFrame) + 1, Len(inFrame \o r)) = r
        BY <1>1, <2>5, SplitAt
      <4>2. Len(inFrame \o r) = Len(inFrame) + Len(r) /\ Len(r) \in Nat
        BY <1>1, <2>5, ConcatProperties, LenProperties
      <4> QED
        BY <2>6, <4>1, <4>2
    <3>2. n \in Nat \ {0}
      BY <1>1, <2>10, EmptySeq
    <3>3. n \in 1 .. Len(UnderWay)
      BY <3>1, <3>2
    <3> HIDE DEF n
    <3> QED
      BY <2>1, <2>2, <2>4, <2>7, <2>8, <3>1, <3>3, StepDeliver
  <2> QED
    BY <2>9, <2>10
<1>5. CASE TimerStep
  <2>1. /\ UNCHANGED <<report, inBuf, host, inFrame, deferred, ready, queue,
                       pushing>>
        /\ \/ posted' = posted
           \/ posted' = Posting(posted, "transfer_complete")
           \/ posted' = Posting(posted, "clear_queue")
    BY <1>5 DEF TimerStep, TxTimeout, ResumeSettled, ClearTimeout, deviceVars,
                queueVars, histVars, busVars
  <2>2. IsPosted("tx_ready")' => IsPosted("tx_ready")
    <3>1. CASE posted' = posted
      BY <3>1 DEF IsPosted
    <3>2. CASE posted' = Posting(posted, "transfer_complete")
      BY <1>1, <3>2, PostedHas DEF PostedEvents
    <3>3. CASE posted' = Posting(posted, "clear_queue")
      BY <1>1, <3>3, PostedHas DEF PostedEvents
    <3> QED
      BY <2>1, <3>1, <3>2, <3>3
  <2>3. FrameInv' /\ Framed' = Framed
    BY <2>1, <2>2, FramesSame
  <2> QED
    BY <2>1, <2>3, UnderWayParts, StepSwitch
<1> QED
  BY <1>2, <1>3, <1>4, <1>5 DEF BusStep

LEMMA ChannelStep ==
  ASSUME QueueInv, QueueInv', FrameInv, [Next]_vars,
         MaxStalls + MaxSuspends + MaxResets = 0 => Channel!Faithful(inFrame)
  PROVE  FrameInv' /\ [Channel!Next]_(Channel!vars)
<1>1. CASE UNCHANGED vars
  <2>1. UNCHANGED <<report, inBuf, host, inFrame, deferred, ready, posted, queue,
                    pushing>>
    BY <1>1 DEF vars, deviceVars, queueVars, histVars, busVars
  <2>2. FrameInv' /\ Framed' = Framed
    BY <2>1, FramesSame DEF IsPosted
  <2> QED
    BY <2>1, <2>2, UnderWayParts, StepSwitch
<1>2. CASE Next
  BY <1>2, ChannelMain, ChannelUsb, ChannelEnvironment DEF Next
<1> QED
  BY <1>1, <1>2

-----------------------------------------------------------------------------
(* A bus without stalls, suspends and resets: one transfer at a time.      *)

Calm == MaxStalls + MaxSuspends + MaxResets = 0

NoDoubles(s) == \A i, j \in DOMAIN s : s[i] = s[j] => i = j

LEMMA PostingNoDoubles ==
  ASSUME NEW s \in Seq(PostedEvents), NEW event \in PostedEvents, NoDoubles(s)
  PROVE  NoDoubles(Posting(s, event))
<1>1. CASE \E i \in DOMAIN s : s[i] = event
  BY <1>1 DEF Posting
<1>2. CASE ~ \E i \in DOMAIN s : s[i] = event
  <2> DEFINE t == Append(s, event)
  <2>1. /\ Len(s) \in Nat /\ DOMAIN s = 1 .. Len(s)
        /\ DOMAIN t = 1 .. Len(s) + 1
        /\ \A i \in 1 .. Len(s) : t[i] = s[i]
        /\ t[Len(s) + 1] = event
    BY AppendProperties, LenProperties
  <2>2. Posting(s, event) = t
    BY <1>2 DEF Posting
  <2> HIDE DEF t
  <2>3. NoDoubles(t)
    BY <1>2, <2>1 DEF NoDoubles
  <2> QED
    BY <2>2, <2>3
<1> QED
  BY <1>1, <1>2

LEMMA TailNoDoubles ==
  ASSUME NEW s \in Seq(PostedEvents), s # <<>>, NoDoubles(s)
  PROVE  /\ NoDoubles(Tail(s))
         /\ ~ \E i \in DOMAIN Tail(s) : Tail(s)[i] = Head(s)
<1> DEFINE t == Tail(s)
<1>1. /\ t \in Seq(PostedEvents) /\ Len(t) = Len(s) - 1
      /\ \A i \in 1 .. Len(t) : t[i] = s[i + 1]
  BY HeadTailProperties
<1>2. /\ Len(s) \in Nat /\ DOMAIN s = 1 .. Len(s)
      /\ DOMAIN t = 1 .. Len(s) - 1
  BY <1>1, LenProperties
<1>3. Head(s) = s[1]
  OBVIOUS
<1> HIDE DEF t
<1>4. ASSUME NEW i \in DOMAIN t PROVE i + 1 \in DOMAIN s /\ t[i] = s[i + 1] /\ 1 \in DOMAIN s
  BY <1>1, <1>2
<1>5. NoDoubles(t)
  BY <1>2, <1>4 DEF NoDoubles
<1>6. ASSUME NEW i \in DOMAIN t PROVE t[i] # Head(s)
  BY <1>2, <1>3, <1>4 DEF NoDoubles
<1> QED
  BY <1>5, <1>6 DEF t

(* The counter m_report_updated says whether a transfer is under way, and  *)
(* it is in one place: posted, in the endpoint, or acknowledged.           *)
CalmBus ==
  /\ ~ suspended
  /\ ~ accessible => updated = 0 /\ usb = "idle"
  /\ settleArmed => ~ accessible
  /\ txArmed => ready \/ acked
  /\ NoDoubles(posted)
  /\ updated > 0 <=> IsPosted("tx_ready") \/ ready \/ acked
  /\ ~ (ready /\ acked)
  /\ ~ (IsPosted("tx_ready") /\ (ready \/ acked))
  /\ IsPosted("transfer_complete") => updated = 0 /\ usb = "idle"

LEMMA CalmBusInit == Init => CalmBus
BY DEF Init, CalmBus, IsPosted, NoDoubles

LEMMA CalmBusSame ==
  ASSUME CalmBus, UNCHANGED <<suspended, accessible, updated, usb, settleArmed,
                              txArmed, posted, ready, acked>>
  PROVE  CalmBus'
BY DEF CalmBus, IsPosted

LEMMA CalmBusTry ==
  ASSUME TypeOK, CalmBus, NEW e \in KeyEvent, TryReport(e), accessible,
         usb = "drain" \/ posted = <<>>,
         UNCHANGED <<accessible, suspended, usb, settleArmed, txArmed, ready,
                     acked>>
  PROVE  CalmBus'
<1>1. CASE UNCHANGED <<updated, posted>>
  BY <1>1, CalmBusSame
<1>2. CASE updated' = updated + 1 /\ posted' = posted /\ updated # 0
  <2>1. updated \in Nat /\ \A x : IsPosted(x)' <=> IsPosted(x)
    BY <1>2 DEF TypeOK, IsPosted
  <2>2. ~ IsPosted("transfer_complete")
    BY <1>2 DEF CalmBus
  <2> QED
    BY <1>2, <2>1, <2>2 DEF CalmBus
<1>3. CASE updated' = 1 /\ posted' = Posting(posted, "tx_ready") /\ updated = 0
  <2>1. posted \in Seq(PostedEvents)
    BY DEF TypeOK
  <2>2. \A x : IsPosted(x)' <=> x = "tx_ready" \/ IsPosted(x)
    BY <1>3, <2>1, PostedHas DEF PostedEvents
  <2>3. NoDoubles(posted')
    BY <1>3, <2>1, PostingNoDoubles DEF PostedEvents, CalmBus
  <2>4. ~ IsPosted("transfer_complete")
    BY DEF CalmBus, IsPosted
  <2>5. IsPosted("tx_ready")' /\ ~ IsPosted("transfer_complete")'
    BY <2>2, <2>4
  <2> QED
    BY <1>3, <2>3, <2>5 DEF CalmBus
<1>4. updated \in Nat
  BY DEF TypeOK
<1> QED
  BY <1>1, <1>2, <1>3, <1>4 DEF TryReport, Submit

LEMMA CalmBusMain ==
  ASSUME TypeOK, CalmBus, MainStep
  PROVE  CalmBus'
<1>1. ASSUME NEW e \in KeyEvent, ReportInaccessible(e) PROVE CalmBus'
  BY <1>1, CalmBusSame DEF ReportInaccessible, deviceVars
<1>2. ASSUME NEW e \in KeyEvent, ReportNow(e) PROVE CalmBus'
  <2>1. /\ TryReport(e) /\ accessible /\ posted = <<>>
        /\ UNCHANGED <<accessible, suspended, usb, settleArmed, txArmed, ready,
                       acked>>
    BY <1>2 DEF ReportNow, MayReport, UsbQuiet, timerVars, busVars
  <2> QED
    BY <2>1, CalmBusTry
<1>3. ASSUME NEW e \in KeyEvent, ReportLater(e) PROVE CalmBus'
  BY <1>3, CalmBusSame DEF ReportLater, deviceVars, timerVars, busVars
<1>4. CASE LockNotFull \/ PushGranted
  BY <1>4, CalmBusSame DEF LockNotFull, PushGranted, deviceVars, timerVars, busVars
<1> QED
  BY <1>1, <1>2, <1>3, <1>4 DEF MainStep

LEMMA CalmBusUsb ==
  ASSUME TypeOK, CalmBus, UsbStep
  PROVE  CalmBus'
<1>1. posted \in Seq(PostedEvents) /\ updated \in Nat
  BY DEF TypeOK
<1>2. CASE HandleTxReady
  <2>1. /\ posted # <<>> /\ Head(posted) = "tx_ready" /\ posted' = Tail(posted)
        /\ ready' = TRUE /\ txArmed' = TRUE
        /\ UNCHANGED <<accessible, updated, settleArmed, usb, acked, suspended>>
    BY <1>2 DEF HandleTxReady, Take, deviceVars
  <2>2. /\ IsPosted("tx_ready") /\ ~ IsPosted("tx_ready")'
        /\ IsPosted("transfer_complete")' <=> IsPosted("transfer_complete")
        /\ NoDoubles(posted')
    BY <1>1, <2>1, TailHas, TailNoDoubles DEF IsPosted, CalmBus
  <2> QED
    BY <1>1, <2>1, <2>2 DEF CalmBus
<1>3. CASE HandleClearQueue
  <2>1. /\ posted # <<>> /\ Head(posted) = "clear_queue" /\ posted' = Tail(posted)
        /\ UNCHANGED <<accessible, updated, settleArmed, txArmed, usb, ready,
                       acked, suspended>>
    BY <1>3 DEF HandleClearQueue, Take, deviceVars, timerVars, busVars
  <2>2. /\ IsPosted("tx_ready")' <=> IsPosted("tx_ready")
        /\ IsPosted("transfer_complete")' <=> IsPosted("transfer_complete")
    <3> DEFINE t == Tail(posted)
    <3>1. \A x : /\ (\E i \in DOMAIN t : t[i] = x) => IsPosted(x)
                 /\ IsPosted(x) /\ x # Head(posted) => \E i \in DOMAIN t : t[i] = x
      BY <1>1, <2>1, TailHas DEF IsPosted
    <3>2. posted' = t
      BY <2>1
    <3> HIDE DEF t
    <3>3. \A x : IsPosted(x)' <=> \E i \in DOMAIN t : t[i] = x
      BY <3>2 DEF IsPosted
    <3>4. "tx_ready" # Head(posted) /\ "transfer_complete" # Head(posted)
      BY <2>1
    <3> QED
      BY <3>1, <3>3, <3>4
  <2>3. NoDoubles(posted')
    BY <1>1, <2>1, TailNoDoubles DEF CalmBus
  <2> QED
    BY <2>1, <2>2, <2>3 DEF CalmBus
<1>4. CASE HandleTransferComplete
  <2>1. /\ posted # <<>> /\ Head(posted) = "transfer_complete"
        /\ OnTransferComplete(FALSE, Tail(posted))
        /\ UNCHANGED <<settleArmed, txArmed, ready, acked, suspended>>
    BY <1>4 DEF HandleTransferComplete, Take, timerVars, busVars
  <2>2. posted' = Tail(posted) /\ UNCHANGED accessible
    BY <2>1 DEF OnTransferComplete, deviceVars
  <2>3. /\ IsPosted("tx_ready")' <=> IsPosted("tx_ready")
        /\ IsPosted("transfer_complete") /\ ~ IsPosted("transfer_complete")'
        /\ NoDoubles(posted')
    BY <1>1, <2>1, <2>2, TailHas, TailNoDoubles DEF IsPosted, CalmBus
  <2>4. updated = 0 /\ updated' = 0
    BY <2>1, <2>3 DEF OnTransferComplete, deviceVars, CalmBus
  <2>5. ~ accessible => usb' = usb
    BY <2>1 DEF OnTransferComplete
  <2> QED
    BY <2>1, <2>2, <2>3, <2>4, <2>5 DEF CalmBus
<1>5. CASE HandleAck
  <2>1. /\ acked /\ acked' = FALSE /\ txArmed' = FALSE
        /\ OnTransferComplete(TRUE, posted)
        /\ UNCHANGED <<settleArmed, ready, suspended>>
    BY <1>5 DEF HandleAck
  <2>2. /\ updated > 0 /\ accessible /\ ~ ready /\ ~ IsPosted("tx_ready")
        /\ ~ IsPosted("transfer_complete")
    BY <1>1, <2>1 DEF CalmBus
  <2>3. /\ accessible'
        /\ \/ updated' = 1 /\ posted' = Posting(posted, "tx_ready")
           \/ updated' = 0 /\ posted' = posted
    BY <2>1, <2>2 DEF OnTransferComplete, Submit
  <2>4. /\ NoDoubles(posted') /\ ~ IsPosted("transfer_complete")'
        /\ updated' > 0 <=> IsPosted("tx_ready")'
    <3>1. CASE updated' = 1 /\ posted' = Posting(posted, "tx_ready")
      BY <1>1, <2>2, <3>1, PostedHas, PostingNoDoubles DEF PostedEvents, CalmBus
    <3>2. CASE updated' = 0 /\ posted' = posted
      BY <2>2, <3>2 DEF IsPosted, CalmBus
    <3> QED
      BY <2>3, <3>1, <3>2
  <2>5. settleArmed' => ~ accessible'
    BY <2>1, <2>2 DEF CalmBus
  <2> QED
    BY <2>1, <2>2, <2>3, <2>4, <2>5 DEF CalmBus
<1>6. CASE DrainOne
  <2>1. /\ usb = "drain" /\ TryReport(Head(queue)) /\ queue # <<>>
        /\ UNCHANGED <<accessible, suspended, usb, settleArmed, txArmed, ready,
                       acked>>
    BY <1>6 DEF DrainOne, timerVars, busVars
  <2>2. accessible /\ Head(queue) \in KeyEvent
    BY <2>1, TailType DEF CalmBus, TypeOK
  <2> QED
    BY <2>1, <2>2, CalmBusTry
<1>7. CASE DrainDone
  <2>1. /\ usb = "drain" /\ usb' = "idle"
        /\ UNCHANGED <<accessible, updated, settleArmed, txArmed, ready, acked,
                       suspended, posted>>
    BY <1>7 DEF DrainDone, deviceVars, timerVars, busVars
  <2> QED
    BY <2>1 DEF CalmBus, IsPosted
<1> QED
  BY <1>2, <1>3, <1>4, <1>5, <1>6, <1>7 DEF UsbStep

LEMMA CalmNoFaults ==
  ASSUME Calm, TypeOK
  PROVE  MaxStalls = 0 /\ ~ OnReset /\ ~ OnSuspend
<1>1. MaxStalls = 0 /\ MaxSuspends = 0 /\ MaxResets = 0
  BY UsbAssumption DEF Calm
<1>2. spent.suspends \in Nat /\ spent.resets \in Nat
  BY DEF TypeOK
<1> QED
  BY <1>1, <1>2 DEF OnReset, OnSuspend

LEMMA CalmBusEnvironment ==
  ASSUME Calm, TypeOK, CalmBus, BusStep \/ TimerStep
  PROVE  CalmBus'
<1>1. posted \in Seq(PostedEvents) /\ updated \in Nat
  BY DEF TypeOK
<1>2. CASE OnResume
  BY <1>2 DEF OnResume, CalmBus
<1>3. CASE ReceiveData
  <2>1. /\ ~ accessible
        /\ UNCHANGED <<accessible, updated, txArmed, usb, ready, acked, suspended,
                       posted>>
    BY <1>3 DEF ReceiveData, deviceVars, busVars
  <2> QED
    BY <2>1 DEF CalmBus, IsPosted
<1>4. CASE HostPoll
  <2>1. /\ ready /\ ready' = FALSE /\ acked' = TRUE
        /\ UNCHANGED <<accessible, updated, txArmed, settleArmed, usb, suspended,
                       posted>>
    BY <1>4 DEF HostPoll, deviceVars, timerVars
  <2> QED
    BY <2>1 DEF CalmBus, IsPosted
<1>5. ~ TxTimeout
  <2>1. spent.stalls \in Nat /\ MaxStalls = 0
    BY CalmNoFaults DEF TypeOK
  <2> QED
    BY <2>1 DEF TxTimeout, CalmBus
<1>6. CASE ResumeSettled
  <2>1. /\ settleArmed /\ settleArmed' = FALSE /\ accessible' = TRUE
        /\ \/ posted' = posted
           \/ posted' = Posting(posted, "transfer_complete")
        /\ UNCHANGED <<updated, txArmed, usb, ready, acked, suspended>>
    BY <1>6 DEF ResumeSettled, busVars
  <2>2. updated = 0 /\ usb = "idle"
    BY <2>1 DEF CalmBus
  <2>3. NoDoubles(posted') /\ (IsPosted("tx_ready")' <=> IsPosted("tx_ready"))
    <3>1. CASE posted' = posted
      BY <3>1 DEF CalmBus, IsPosted
    <3>2. CASE posted' = Posting(posted, "transfer_complete")
      BY <1>1, <3>2, PostedHas, PostingNoDoubles DEF PostedEvents, CalmBus
    <3> QED
      BY <2>1, <3>1, <3>2
  <2> QED
    BY <2>1, <2>2, <2>3 DEF CalmBus
<1>7. CASE ClearTimeout
  <2>1. /\ posted' = Posting(posted, "clear_queue")
        /\ UNCHANGED <<accessible, updated, txArmed, settleArmed, usb, ready,
                       acked, suspended>>
    BY <1>7 DEF ClearTimeout, deviceVars, busVars
  <2>2. /\ NoDoubles(posted')
        /\ IsPosted("tx_ready")' <=> IsPosted("tx_ready")
        /\ IsPosted("transfer_complete")' <=> IsPosted("transfer_complete")
    BY <1>1, <2>1, PostedHas, PostingNoDoubles DEF PostedEvents, CalmBus
  <2> QED
    BY <2>1, <2>2 DEF CalmBus
<1> QED
  BY <1>2, <1>3, <1>4, <1>5, <1>6, <1>7, CalmNoFaults DEF BusStep, TimerStep

(* What may be in a frame that waits for the transfer before it: a press   *)
(* only as its first event, and then releases of other keys, each once and *)
(* none of a modifier behind a press.                                      *)
DeferredOK(ds, yet, keys) ==
  /\ \A i \in DOMAIN ds :
       IF ds[i].press THEN i = 1 /\ ds[i].key = yet
       ELSE /\ ds[i].key \notin keys
            /\ yet # KC_NO => ds[i].key # yet /\ ds[i].key \notin Mods
  /\ \A i, j \in DOMAIN ds : i # j => ds[i].key # ds[j].key
  /\ yet # KC_NO => yet \in keys

LEMMA DeferredEmpty ==
  ASSUME NEW keys
  PROVE  DeferredOK(<<>>, KC_NO, keys)
BY DEF DeferredOK

LEMMA DeferredFirst ==
  ASSUME NEW keys, NEW e \in KeyEvent
  PROVE  DeferredOK(<<e>>, IF e.press THEN e.key ELSE KC_NO, Updated(keys, e))
<1>1. e.key \in KeyCode /\ e.press \in BOOLEAN /\ e.key # KC_NO
  BY UsbAssumption DEF KeyEvent
<1>2. DOMAIN <<e>> = {1} /\ <<e>>[1] = e
  OBVIOUS
<1>3. CASE e.press
  <2>1. Updated(keys, e) = keys \cup {e.key}
    BY <1>3 DEF Updated
  <2> QED
    BY <1>1, <1>2, <1>3, <2>1 DEF DeferredOK
<1>4. CASE ~ e.press
  <2>1. Updated(keys, e) = keys \ {e.key}
    BY <1>4 DEF Updated
  <2> QED
    BY <1>1, <1>2, <1>4, <2>1 DEF DeferredOK
<1> QED
  BY <1>1, <1>3, <1>4

LEMMA DeferredNext ==
  ASSUME NEW ds \in Seq(KeyEvent), NEW yet, NEW keys, NEW e \in KeyEvent,
         DeferredOK(ds, yet, keys),
         ~ e.press, e.key \in keys, e.key # yet,
         yet = KC_NO \/ e.key \notin Mods
  PROVE  DeferredOK(Append(ds, e), yet, keys \ {e.key})
<1> DEFINE t == Append(ds, e)
           n == Len(ds)
           k == e.key
<1>1. /\ n \in Nat /\ DOMAIN ds = 1 .. n /\ DOMAIN t = 1 .. n + 1
      /\ \A i \in 1 .. n : t[i] = ds[i]
      /\ t[n + 1] = e
  BY AppendProperties, LenProperties
<1> HIDE DEF t, n
<1>2. ASSUME NEW i \in 1 .. n PROVE ds[i].key # k
  BY <1>1, <1>2 DEF DeferredOK
<1>3. ASSUME NEW i \in 1 .. n + 1
      PROVE  IF t[i].press THEN i = 1 /\ t[i].key = yet
             ELSE /\ t[i].key \notin keys \ {k}
                  /\ yet # KC_NO => t[i].key # yet /\ t[i].key \notin Mods
  <2>1. CASE i = n + 1
    BY <1>1, <2>1
  <2>2. CASE i # n + 1
    <3>1. i \in 1 .. n /\ t[i] = ds[i]
      BY <1>1, <2>2
    <3> QED
      BY <1>1, <3>1 DEF DeferredOK
  <2> QED
    BY <2>1, <2>2
<1>4. ASSUME NEW i \in 1 .. n + 1, NEW j \in 1 .. n + 1, i # j
      PROVE  t[i].key # t[j].key
  <2>1. CASE i \in 1 .. n /\ j \in 1 .. n
    BY <1>1, <1>4, <2>1 DEF DeferredOK
  <2>2. CASE i = n + 1 /\ j \in 1 .. n
    BY <1>1, <1>2, <2>2
  <2>3. CASE i \in 1 .. n /\ j = n + 1
    BY <1>1, <1>2, <2>3
  <2> QED
    BY <1>1, <1>4, <2>1, <2>2, <2>3
<1>5. yet # KC_NO => yet \in keys \ {k}
  BY DEF DeferredOK
<1>6. DeferredOK(t, yet, keys \ {k})
  BY <1>1, <1>3, <1>4, <1>5 DEF DeferredOK
<1> QED
  BY <1>6 DEF t

(* Such a frame obeys the rules of a frame that tells the host everything. *)
LEMMA DeferredFaithful ==
  ASSUME NEW ds \in Seq(KeyEvent), NEW yet, NEW keys, DeferredOK(ds, yet, keys)
  PROVE  Channel!Faithful(ds)
<1>1. DOMAIN ds = 1 .. Len(ds) /\ Len(ds) \in Nat
  BY LenProperties
<1>2. \A i \in DOMAIN ds : ds[i].key \in KeyCode /\ ds[i].press \in BOOLEAN
                           /\ ds[i].key # KC_NO
  <2>1. \A i \in DOMAIN ds : ds[i] \in KeyEvent
    BY <1>1, ElementOfSeq
  <2>2. \A e \in KeyEvent : e.key \in KeyCode /\ e.press \in BOOLEAN
                           /\ e.key # KC_NO
    BY UsbAssumption DEF KeyEvent
  <2> QED
    BY <2>1, <2>2
<1>3. ASSUME NEW i \in DOMAIN ds, NEW j \in DOMAIN ds, i # j
      PROVE  ~ (ds[i].press /\ ds[j].press) /\ ds[i].key # ds[j].key
  BY <1>3 DEF DeferredOK
<1>4. ASSUME NEW i \in DOMAIN ds, NEW j \in DOMAIN ds, i < j, ds[i].press,
             ds[j].key \in Mods
      PROVE  ds[j].press
  <2>1. ds[i].key = yet /\ yet # KC_NO
    BY <1>2, <1>4 DEF DeferredOK
  <2> QED
    BY <1>4, <2>1 DEF DeferredOK
<1> QED
  BY <1>3, <1>4 DEF Channel!Faithful

LEMMA FaithfulShort ==
  /\ Channel!Faithful(<<>>)
  /\ \A e : Channel!Faithful(<<e>>)
BY DEF Channel!Faithful

(* While nothing or one event is counted nothing waits for the next frame; *)
(* a frame the host has taken is empty; and what waits is a faithful frame.*)
CalmFrame ==
  /\ updated <= 1 => deferred = <<>> /\ pressYet = KC_NO
  /\ updated = 0 \/ acked => inFrame = <<>>
  /\ Channel!Faithful(inFrame)
  /\ DeferredOK(deferred, pressYet, report)

LEMMA CalmFrameInit == Init => CalmFrame
BY DeferredEmpty, FaithfulShort DEF Init, CalmFrame

LEMMA CalmFrameSame ==
  ASSUME CalmFrame,
         UNCHANGED <<updated, deferred, pressYet, acked, inFrame, report>>
  PROVE  CalmFrame'
BY DEF CalmFrame, Channel!Faithful

LEMMA CalmFrameTry ==
  ASSUME TypeOK, CalmBus, CalmFrame, NEW e \in KeyEvent, CanTry(e), TryReport(e),
         UNCHANGED acked
  PROVE  CalmFrame'
<1>1. updated \in Nat /\ deferred \in Seq(KeyEvent)
      /\ e.key \in KeyCode /\ e.press \in BOOLEAN
  BY DEF TypeOK, KeyEvent
<1>2. CASE ~ CanUpdate(report, e)
  <2>1. UNCHANGED <<updated, deferred, pressYet, inFrame, report>>
    BY <1>2 DEF TryReport, histVars
  <2> QED
    BY <2>1, CalmFrameSame
<1>3. CASE CanUpdate(report, e) /\ updated = 0
  <2>1. /\ updated' = 1 /\ pressYet' = pressYet
        /\ Submit(report', <<e>>, posted)
    BY <1>3 DEF TryReport
  <2>2. deferred = <<>> /\ pressYet = KC_NO /\ inFrame = <<>> /\ ~ acked
    BY <1>3 DEF CalmFrame, CalmBus
  <2>3. deferred' = <<>> /\ inFrame' = <<e>>
    <3>1. <<e>> \in Seq(KeyEvent) /\ <<>> \in Seq(KeyEvent)
      OBVIOUS
    <3> QED
      BY <2>1, <2>2, <3>1, ConcatEmptySeq DEF Submit
  <2>4. Channel!Faithful(<<e>>) /\ DeferredOK(<<>>, KC_NO, report')
    BY FaithfulShort, DeferredEmpty
  <2> QED
    BY <2>1, <2>2, <2>3, <2>4 DEF CalmFrame, Channel!Faithful
<1>4. CASE CanUpdate(report, e) /\ updated # 0
  <2>1. /\ updated' = updated + 1 /\ updated' > 1
        /\ report' = Updated(report, e)
        /\ pressYet' = IF e.press THEN e.key ELSE pressYet
        /\ deferred' = Append(deferred, e)
        /\ inFrame' = inFrame
    BY <1>1, <1>4 DEF TryReport
  <2>2. DeferredOK(deferred', pressYet', report')
    <3>1. CASE updated = 1
      <4>1. deferred = <<>> /\ pressYet = KC_NO
        BY <3>1 DEF CalmFrame
      <4>2. deferred' = <<e>> /\ pressYet' = IF e.press THEN e.key ELSE KC_NO
        BY <2>1, <4>1
      <4> QED
        BY <2>1, <4>2, DeferredFirst
    <3>2. CASE updated # 1
      <4>1. /\ ~ e.press /\ e.key # pressYet
            /\ pressYet = KC_NO \/ e.key \notin Mods
        BY <1>1, <1>4, <3>2 DEF CanTry
      <4>2. e.key \in report /\ report' = report \ {e.key} /\ pressYet' = pressYet
        BY <1>4, <2>1, <4>1 DEF CanUpdate, Updated
      <4>3. DeferredOK(deferred, pressYet, report)
        BY DEF CalmFrame
      <4>4. DeferredOK(Append(deferred, e), pressYet, report \ {e.key})
        BY <1>1, <4>1, <4>2, <4>3, DeferredNext
      <4> QED
        BY <2>1, <4>2, <4>4
    <3> QED
      BY <3>1, <3>2
  <2>3. acked' => inFrame' = <<>>
    BY <2>1 DEF CalmFrame
  <2>4. Channel!Faithful(inFrame')
    BY <2>1 DEF CalmFrame
  <2> QED
    BY <1>1, <2>1, <2>2, <2>3, <2>4 DEF CalmFrame, Channel!Faithful
<1> QED
  BY <1>2, <1>3, <1>4

LEMMA CalmFrameNext ==
  ASSUME Calm, TypeOK, CalmBus, CalmFrame, [Next]_vars
  PROVE  CalmFrame'
<1>1. /\ updated \in Nat /\ deferred \in Seq(KeyEvent)
      /\ queue \in Seq(KeyEvent) /\ posted \in Seq(PostedEvents)
  BY DEF TypeOK
<1>2. ASSUME NEW e \in KeyEvent, ReportNow(e) PROVE CalmFrame'
  BY <1>2, CalmFrameTry DEF ReportNow, busVars
<1>3. CASE DrainOne
  <2>1. /\ CanTry(Head(queue)) /\ TryReport(Head(queue)) /\ acked' = acked
        /\ Head(queue) \in KeyEvent
    BY <1>1, <1>3, TailType DEF DrainOne, busVars
  <2> QED
    BY <2>1, CalmFrameTry
<1>4. CASE HandleTransferComplete
  <2>1. /\ posted # <<>> /\ Head(posted) = "transfer_complete"
        /\ OnTransferComplete(FALSE, Tail(posted)) /\ acked' = acked
    BY <1>4 DEF HandleTransferComplete, Take, busVars
  <2>2. IsPosted("transfer_complete")
    BY <1>1, <2>1 DEF IsPosted
  <2>3. updated = 0 /\ deferred = <<>> /\ pressYet = KC_NO
    BY <2>2 DEF CalmBus, CalmFrame
  <2>4. UNCHANGED <<updated, deferred, pressYet, inFrame, report>>
    BY <2>1, <2>3 DEF OnTransferComplete, deviceVars, histVars
  <2> QED
    BY <2>1, <2>4, CalmFrameSame
<1>5. CASE HandleAck
  <2>1. /\ acked /\ acked' = FALSE /\ OnTransferComplete(TRUE, posted)
    BY <1>5 DEF HandleAck
  <2>2. accessible /\ updated > 0 /\ inFrame = <<>>
    BY <1>1, <2>1 DEF CalmBus, CalmFrame
  <2>3. pressYet' = KC_NO /\ report' = report
    BY <2>1, <2>2 DEF OnTransferComplete
  <2>4. DeferredOK(<<>>, KC_NO, report)
    BY DeferredEmpty
  <2>5. CASE updated > 1
    <3>1. Submit(report, <<>>, posted) /\ updated' = 1
      BY <2>1, <2>2, <2>5 DEF OnTransferComplete
    <3>2. deferred' = <<>> /\ inFrame' = deferred
      <4>1. <<>> \o deferred = deferred /\ deferred \o <<>> = deferred
        BY <1>1, ConcatEmptySeq
      <4> QED
        BY <2>2, <3>1, <4>1 DEF Submit
    <3>3. Channel!Faithful(deferred)
      BY <1>1, DeferredFaithful DEF CalmFrame
    <3> QED
      BY <2>1, <2>3, <2>4, <3>1, <3>2, <3>3 DEF CalmFrame, Channel!Faithful
  <2>6. CASE ~ (updated > 1)
    <3>1. updated' = 0 /\ UNCHANGED <<inFrame, deferred>>
      BY <2>1, <2>2, <2>6 DEF OnTransferComplete, histVars
    <3>2. deferred = <<>> /\ Channel!Faithful(<<>>)
      BY <1>1, <2>6, FaithfulShort DEF CalmFrame
    <3> QED
      BY <2>1, <2>2, <2>3, <2>4, <3>1, <3>2 DEF CalmFrame, Channel!Faithful
  <2> QED
    BY <2>5, <2>6
<1>6. CASE HostPoll
  <2>1. /\ ready /\ inFrame' = <<>>
        /\ UNCHANGED <<updated, deferred, pressYet, report>>
    BY <1>6 DEF HostPoll, deviceVars
  <2>2. Channel!Faithful(<<>>)
    BY FaithfulShort
  <2> QED
    BY <2>1, <2>2 DEF CalmFrame, Channel!Faithful
<1>7. CASE UNCHANGED <<updated, deferred, pressYet, acked, inFrame, report>>
  BY <1>7, CalmFrameSame
<1>8. ~ OnReset /\ ~ OnSuspend
  BY CalmNoFaults
<1>9. CASE MainStep
  <2>1. ASSUME NEW e \in KeyEvent, ReportInaccessible(e) \/ ReportLater(e)
        PROVE  CalmFrame'
    BY <1>7, <2>1
       DEF ReportInaccessible, ReportLater, deviceVars, histVars, busVars
  <2>2. CASE LockNotFull \/ PushGranted
    BY <1>7, <2>2 DEF LockNotFull, PushGranted, deviceVars, histVars, busVars
  <2> QED
    BY <1>2, <1>9, <2>1, <2>2 DEF MainStep
<1>10. CASE UsbStep
  <2>1. CASE HandleTxReady \/ HandleClearQueue \/ DrainDone
    BY <1>7, <2>1 DEF HandleTxReady, HandleClearQueue, DrainDone, deviceVars,
                      histVars, busVars
  <2> QED
    BY <1>3, <1>4, <1>5, <1>10, <2>1 DEF UsbStep
<1>11. CASE BusStep \/ TimerStep
  <2>1. CASE OnResume \/ ReceiveData \/ TimerStep
    BY <1>7, <2>1 DEF OnResume, ReceiveData, TimerStep, TxTimeout, ResumeSettled,
                      ClearTimeout, deviceVars, histVars, busVars
  <2> QED
    BY <1>6, <1>8, <1>11, <2>1 DEF BusStep
<1>12. CASE UNCHANGED vars
  BY <1>7, <1>12 DEF vars, deviceVars, histVars, busVars
<1> QED
  BY <1>9, <1>10, <1>11, <1>12 DEF Next

-----------------------------------------------------------------------------
(* The inductive invariant of the refinement.                              *)
ChannelInv ==
  /\ QueueInv
  /\ FrameInv
  /\ Calm => CalmBus /\ CalmFrame

LEMMA ChannelInvInit == Init => ChannelInv
BY QueueInvInit, FrameInvInit, CalmBusInit, CalmFrameInit DEF ChannelInv

LEMMA ChannelInvNext ==
  ChannelInv /\ [Next]_vars => ChannelInv' /\ [Channel!Next]_(Channel!vars)
<1> SUFFICES ASSUME ChannelInv, [Next]_vars
             PROVE  ChannelInv' /\ [Channel!Next]_(Channel!vars)
  OBVIOUS
<1>1. QueueInv /\ QueueInv' /\ FrameInv /\ TypeOK
  BY QueueInvNext DEF ChannelInv, QueueInv
<1>2. FrameInv' /\ [Channel!Next]_(Channel!vars)
  <2>1. MaxStalls + MaxSuspends + MaxResets = 0 => Channel!Faithful(inFrame)
    BY DEF ChannelInv, CalmFrame, Calm
  <2> QED
    BY <1>1, <2>1, ChannelStep
<1>3. ASSUME Calm PROVE CalmBus' /\ CalmFrame'
  <2>1. CalmBus /\ CalmFrame
    BY <1>3 DEF ChannelInv
  <2>2. CalmFrame'
    BY <1>1, <1>3, <2>1, CalmFrameNext
  <2>3. CASE UNCHANGED vars
    <3>1. UNCHANGED <<suspended, accessible, updated, usb, settleArmed, txArmed,
                      posted, ready, acked>>
      BY <2>3 DEF vars, deviceVars, timerVars, busVars
    <3> QED
      BY <2>1, <2>2, <3>1, CalmBusSame
  <2>4. CASE Next
    BY <1>1, <1>3, <2>1, <2>2, <2>4, CalmBusMain, CalmBusUsb, CalmBusEnvironment
       DEF Next
  <2> QED
    BY <2>3, <2>4
<1>4. Calm' <=> Calm
  BY DEF Calm
<1> QED
  BY <1>1, <1>2, <1>3, <1>4 DEF ChannelInv

(* The report algorithm implements the channel of key events, for any      *)
(* keys, any queue and any bus: events reach the host in the order they    *)
(* were reported, none is dropped while USB is accessible unless it        *)
(* changes nothing, and on a bus without stalls, suspends and resets no    *)
(* frame hides a key stroke from the host.                                 *)
THEOREM ChannelRefinement == Spec => ImplementsChannel
<1>1. Init => Channel!Init
  <2> SUFFICES ASSUME Init PROVE Channel!Init
    OBVIOUS
  <2>1. host = {} /\ ~ accessible
    BY DEF Init
  <2>2. inFrame = <<>> /\ deferred = <<>> /\ queue = <<>> /\ pushing = <<>>
    BY DEF Init
  <2>3. UnderWay = <<>>
    BY <2>2 DEF UnderWay
  <2> QED
    BY <2>1, <2>3 DEF Channel!Init
<1>2. Spec => Channel!Init /\ [][Channel!Next]_(Channel!vars)
  BY <1>1, ChannelInvInit, ChannelInvNext, PTL DEF Spec
<1> QED
  BY <1>2 DEF ImplementsChannel, Channel!Spec

(* On such a bus the host sees exactly the report once nothing is under    *)
(* way: no key press or release is left behind in the keyboard.            *)
THEOREM HostAgreesWhenCalm ==
  ASSUME MaxStalls = 0, MaxSuspends = 0, MaxResets = 0
  PROVE  Spec => []HostAgreesAtRest
<1>1. Calm
  BY DEF Calm
<1>2. ChannelInv => HostAgreesAtRest
  <2> SUFFICES ASSUME ChannelInv, ~ InFlight PROVE host = report
    BY DEF HostAgreesAtRest
  <2>1. CalmBus /\ CalmFrame /\ FrameInv /\ TypeOK
    BY <1>1 DEF ChannelInv, QueueInv
  <2>2. updated = 0
    <3>1. ~ IsPosted("tx_ready") /\ ~ ready /\ ~ acked /\ updated \in Nat
      BY <2>1 DEF InFlight, TypeOK
    <3> QED
      BY <2>1, <3>1 DEF CalmBus
  <2>3. inFrame = <<>> /\ deferred = <<>>
    BY <2>1, <2>2 DEF CalmFrame
  <2>4. Framed = <<>>
    BY <2>3 DEF Framed
  <2> QED
    BY <2>1, <2>4, EffectEmpty DEF FrameInv, TypeOK
<1> QED
  BY <1>2, ChannelInvInit, ChannelInvNext, PTL DEF Spec

=============================================================================
