---------------------------- MODULE KeyChannel ----------------------------
(***************************************************************************)
(* What the USB keyboard promises to the keymap and to the host, without   *)
(* timers, mutexes or events: a first-in first-out channel of key events.  *)
(* The host sees it in frames.  A frame is a prefix of the events still    *)
(* under way, and while the transport is well behaved (Strict) no frame    *)
(* loses information: at most one press, no key twice, and no modifier     *)
(* released after a press of the same frame.  Events are discarded only    *)
(* while the channel is closed, or when they change nothing.               *)
(***************************************************************************)
EXTENDS KeyReport

CONSTANT Strict  (* no stall, suspend or reset of the bus *)

VARIABLES
  chan,   (* events reported by the keymap and not yet seen by the host *)
  host,   (* the keys the host sees down                                *)
  open    (* events may not be discarded                                *)

vars == <<chan, host, open>>

Init ==
  /\ chan = <<>>
  /\ host = {}
  /\ open = FALSE

(* The three rules of a frame that tells the host everything.              *)
Faithful(frame) ==
  /\ \A i, j \in DOMAIN frame :
       i # j => /\ ~ (frame[i].press /\ frame[j].press)
                /\ frame[i].key # frame[j].key
  /\ \A i, j \in DOMAIN frame :
       /\ i < j
       /\ frame[i].press
       /\ frame[j].key \in Mods
       => frame[j].press

Report(e) ==
  /\ chan' = Append(chan, e)
  /\ UNCHANGED <<host, open>>

Deliver(n) ==
  LET frame == SubSeq(chan, 1, n) IN
  /\ Strict => Faithful(frame)
  /\ host' = Effect(host, frame)
  /\ chan' = SubSeq(chan, n + 1, Len(chan))
  /\ UNCHANGED open

(* Event n changes nothing once the ones before it have been applied.      *)
Skip(n) ==
  /\ ~ CanUpdate(Effect(host, SubSeq(chan, 1, n - 1)), chan[n])
  /\ chan' = SubSeq(chan, 1, n - 1) \o SubSeq(chan, n + 1, Len(chan))
  /\ UNCHANGED <<host, open>>

(* While closed, a new event may push out an older one...                  *)
Overflow(n, e) ==
  /\ ~ open
  /\ chan' = SubSeq(chan, 1, n - 1) \o Append(SubSeq(chan, n + 1, Len(chan)), e)
  /\ UNCHANGED <<host, open>>

(* ... and the events from n to m may expire.                              *)
Expire(n, m) ==
  /\ ~ open
  /\ chan' = SubSeq(chan, 1, n - 1) \o SubSeq(chan, m + 1, Len(chan))
  /\ open' \in BOOLEAN
  /\ UNCHANGED host

(* A bus reset releases every key on the host and forgets the n oldest     *)
(* events, the ones already worked into the report.                        *)
Reset(n) ==
  /\ ~ Strict
  /\ host' = {}
  /\ chan' = SubSeq(chan, n + 1, Len(chan))
  /\ UNCHANGED open

Switch ==
  /\ open' = ~ open
  /\ UNCHANGED <<chan, host>>

Next ==
  \/ \E e \in KeyEvent : Report(e)
  \/ \E n \in 1 .. Len(chan) : Deliver(n) \/ Skip(n)
  \/ \E n \in 1 .. Len(chan), e \in KeyEvent : Overflow(n, e)
  \/ \E n, m \in 1 .. Len(chan) : Expire(n, m)
  \/ \E n \in 0 .. Len(chan) : Reset(n)
  \/ Switch

Spec == Init /\ [][Next]_vars

=============================================================================
