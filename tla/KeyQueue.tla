----------------------------- MODULE KeyQueue -----------------------------
(***************************************************************************)
(* What the key event queue promises to matrix_thread and to the keymap,   *)
(* without ring buffer, indices or mutexes: a bounded first-in first-out   *)
(* queue with a cursor.  The events before the cursor have been looked at  *)
(* and deferred; the last of them may be taken out of turn.  Nothing is    *)
(* promised once the queue was declared to have room when it had none.     *)
(***************************************************************************)
EXTENDS Naturals, Sequences

CONSTANTS
  Event,   (* what is queued       *)
  Size     (* the queue's capacity *)

VARIABLES
  events,   (* what is in the queue, oldest first *)
  cursor,   (* how many of them are deferred      *)
  broken    (* the queue was given away when full *)

vars == <<events, cursor, broken>>

Init ==
  /\ events = <<>>
  /\ cursor = 0
  /\ broken = FALSE

Push(e) ==
  /\ Len(events) < Size
  /\ events' = Append(events, e)
  /\ UNCHANGED cursor

Pop ==
  /\ events # <<>>
  /\ events' = Tail(events)
  /\ cursor' = 0

Peek ==
  /\ cursor < Len(events)
  /\ cursor' = cursor + 1
  /\ UNCHANGED events

RemoveLast ==
  /\ cursor > 0
  /\ events' = SubSeq(events, 1, cursor - 1)
                 \o SubSeq(events, cursor + 1, Len(events))
  /\ cursor' = cursor - 1

Break == Len(events) = Size /\ broken'

Reset ==
  /\ events' = <<>>
  /\ cursor' = 0
  /\ ~ broken'

Next ==
  \/ /\ ~ broken
     /\ \/ (\E e \in Event : Push(e)) \/ Pop \/ Peek \/ RemoveLast
     /\ ~ broken'
  \/ Break
  \/ Reset
  \/ broken /\ broken'

Spec == Init /\ [][Next]_vars

=============================================================================
