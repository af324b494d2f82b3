---------------------------- MODULE KeymapProofs ----------------------------
(***************************************************************************)
(* What Keymap.tla promises of defer mode and of the keys, for any         *)
(* keymaps, nested in any way, and any number of keys.                     *)
(*                                                                         *)
(* A deferrer in the chain waits for its timer, or its end is on the stack *)
(* of calls.  Only the drop of the callback after a timeout could undo     *)
(* that, if the deferrer started again before.  It does not: what runs     *)
(* until then are calls of the deferrer that do not start it, and calls of *)
(* keymaps made before it, which do not know it.                           *)
(*                                                                         *)
(* The presses of a keymap and its releases balance: what it counts, and   *)
(* what the calls on the stack and the queue of events will press, is what *)
(* they will release, and what others keep pressed.  At rest nothing is on *)
(* the stack or in the queue.  Of the keymaps still counted take one that  *)
(* was made last: nothing keeps it pressed, so it is not counted.          *)
(*                                                                         *)
(* With keymaps that are Calm no assertion fails.  A deferrer that stops   *)
(* is in the chain, since the call that stops it is made while it is and   *)
(* is the very next; one that starts has the slot of the chain, since what *)
(* changes the slot puts it back before such a press comes to the top; and *)
(* a deferrer that is to be told of an event cannot stop before, since     *)
(* what is at work above it is of keymaps that do not end on that event.   *)
(***************************************************************************)
EXTENDS Keymap, SequenceTheorems, FiniteSetTheorems, TLAPS

(* The keymaps made before m.                                              *)
Below(m) == {c \in Maps : Made[c] < Made[m]}

(* What c_current_slot_index may be.                                       *)
Spots == Slots \cup {NoSlot}

(* The calls there are.                                                    *)
Frames ==
  ({"press", "release"} \X Maps)
  \cup ({"timeout", "unref"} \X Deferrers)
  \cup ({"let go", "forget"} \X Of("TapHold"))
  \cup ({"tap", "finish", "let off"} \X Of("TapSeq"))
  \cup {f \in {"decide"} \X Of("TapHold") \X Maps : f[3] \in Below(f[2])}
  \cup {f \in {"decided"} \X Of("TapHold") \X Maps \X Spots :
          f[3] \in Below(f[2])}
  \cup ({"danced"} \X Of("TapSeq") \X Spots)
  \cup ({"other"} \X Seq(Deferrers) \X Event)
  \cup {<<"remove last">>}

(* What the timeout of a deferrer calls of the deferrer itself.            *)
Late == {"timeout", "decide", "decided", "let off", "danced"}
(* What no keymap calls.                                                   *)
Outermost == {"other", "remove last", "unref"}

(* What may be at work while the timeout of m is handled.                  *)
NestedIn(m) ==
  {f \in Frames : /\ f[1] \notin Outermost
                  /\ \/ f[2] \in Below(m)
                     \/ f[2] = m /\ f[1] \in Late}

Fields ==
  /\ chosen \in [Of("TapHold") -> Maps \cup {NoMap}]
  /\ \A m \in Of("TapHold") : chosen[m] \in Below(m) \cup {NoMap}
  /\ step \in [Of("TapSeq") -> Nat]
  /\ mySlot \in [Deferrers -> Spots]
  /\ slot \in Spots
  /\ expected \subseteq Deferrers
  /\ running \subseteq Deferrers
  /\ posted \in Seq(Deferrers)
  /\ events \in Seq(Event)
  /\ peeked \in 0 .. Len(events)

(* Defer mode is on while there are deferrers, each in the chain once.     *)
Mode == peeking = (chain # <<>>)

Once == \A i, j \in 1 .. Len(chain) : chain[i] = chain[j] => i = j

(* A call that takes m out of the chain is still to come.                  *)
Ending(m) ==
  \E i \in 1 .. Len(calls) :
    calls[i][1] \in {"timeout", "decide"} /\ calls[i][2] = m

Waiting(m) == m \in expected /\ (m \in running \/ Contains(posted, m))

(* A deferrer waits, or is about to stop.                                  *)
Timed ==
  \A m \in Deferrers : Contains(chain, m) => Waiting(m) \/ Ending(m)

(* A callback is dropped at the very end, and until then only what belongs *)
(* to the timeout is at work ...                                           *)
Nested ==
  \A m \in Deferrers : \A i \in 1 .. Len(calls) :
    calls[i] = <<"unref", m>> =>
      /\ i = Len(calls)
      /\ \A j \in 1 .. i - 1 : calls[j] \in NestedIn(m)

(* ... so that the deferrer has stopped when it is.                        *)
Ended ==
  \A m \in Deferrers :
    Contains(calls, <<"unref", m>>) /\ Contains(chain, m) => Ending(m)

Sound ==
  /\ Fields
  /\ chain \in Seq(Deferrers)
  /\ calls \in Seq(Frames)
  /\ Mode
  /\ Once
  /\ Timed
  /\ Nested
  /\ Ended

KeymapInv == ~ failed => Sound

-----------------------------------------------------------------------------
(* The kinds of calls.                                                     *)

(* What the provers need to be told about tuples.                          *)

LEMMA FirstOfOne ==
  ASSUME NEW x
  PROVE  <<x>>[1] = x
OBVIOUS

LEMMA OneIsSeq ==
  ASSUME NEW S, NEW x \in S
  PROVE  <<x>> \in Seq(S)
OBVIOUS

LEMMA TwoIsSeq ==
  ASSUME NEW S, NEW x \in S, NEW y \in S
  PROVE  <<x, y>> \in Seq(S)
OBVIOUS

LEMMA FrameKinds ==
  ASSUME NEW f \in Frames
  PROVE  /\ f[1] \in {"press", "release"} => f[2] \in Maps
         /\ f[1] \in {"timeout", "unref"} => f[2] \in Deferrers
         /\ f[1] \in {"let go", "forget", "decide", "decided"} =>
              f[2] \in Of("TapHold")
         /\ f[1] \in {"tap", "finish", "let off", "danced"} =>
              f[2] \in Of("TapSeq")
         /\ f[1] \in {"decide", "decided"} => f[3] \in Below(f[2])
         /\ f[1] = "decided" => f[4] \in Spots
         /\ f[1] = "danced" => f[3] \in Spots
         /\ f[1] = "other" => f[2] \in Seq(Deferrers) /\ f[3] \in Event
<1>1. CASE f \in {"press", "release"} \X Maps
  BY <1>1
<1>2. CASE f \in {"timeout", "unref"} \X Deferrers
  BY <1>2
<1>3. CASE f \in {"let go", "forget"} \X Of("TapHold")
  BY <1>3
<1>4. CASE f \in {"tap", "finish", "let off"} \X Of("TapSeq")
  BY <1>4
<1>5. CASE f \in {g \in {"decide"} \X Of("TapHold") \X Maps :
                    g[3] \in Below(g[2])}
  BY <1>5
<1>6. CASE f \in {g \in {"decided"} \X Of("TapHold") \X Maps \X Spots :
                  g[3] \in Below(g[2])}
  BY <1>6
<1>7. CASE f \in {"danced"} \X Of("TapSeq") \X Spots
  BY <1>7
<1>8. CASE f \in {"other"} \X Seq(Deferrers) \X Event
  BY <1>8
<1>9. CASE f \in {<<"remove last">>}
  <2>0. f = <<"remove last">>
    BY <1>9
  <2>1. f[1] = "remove last"
    BY <2>0, FirstOfOne
  <2> QED
    BY <2>1
<1> QED
  BY <1>1, <1>2, <1>3, <1>4, <1>5, <1>6, <1>7, <1>8, <1>9 DEF Frames

LEMMA FrameMakes ==
  /\ \A m \in Maps : Press(m) \in Frames /\ Release(m) \in Frames
  /\ \A m \in Deferrers :
       <<"timeout", m>> \in Frames /\ <<"unref", m>> \in Frames
  /\ \A m \in Of("TapHold") :
       <<"let go", m>> \in Frames /\ <<"forget", m>> \in Frames
  /\ \A m \in Of("TapSeq") :
       /\ <<"tap", m>> \in Frames
       /\ <<"finish", m>> \in Frames
       /\ <<"let off", m>> \in Frames
  /\ \A m \in Of("TapHold") : \A c \in Below(m) : Decide(m, c) \in Frames
  /\ \A m \in Of("TapHold") : \A c \in Below(m) : \A s \in Spots :
       <<"decided", m, c, s>> \in Frames
  /\ \A m \in Of("TapSeq") : \A s \in Spots : <<"danced", m, s>> \in Frames
  /\ \A d \in Seq(Deferrers) : \A e \in Event : <<"other", d, e>> \in Frames
  /\ <<"remove last">> \in Frames
<1>1. \A m \in Of("TapHold") : \A c \in Below(m) : Decide(m, c) \in Frames
  BY DEF Frames, Decide, Below
<1>2. \A m \in Of("TapHold") : \A c \in Below(m) : \A s \in Spots :
        <<"decided", m, c, s>> \in Frames
  BY DEF Frames, Below
<1>3. \A m \in Maps : Press(m) \in Frames /\ Release(m) \in Frames
  BY DEF Frames, Press, Release
<1>4. \A m \in Deferrers :
        <<"timeout", m>> \in Frames /\ <<"unref", m>> \in Frames
  BY DEF Frames
<1>5. \A m \in Of("TapHold") :
        <<"let go", m>> \in Frames /\ <<"forget", m>> \in Frames
  BY DEF Frames
<1>6. \A m \in Of("TapSeq") : /\ <<"tap", m>> \in Frames
                              /\ <<"finish", m>> \in Frames
                              /\ <<"let off", m>> \in Frames
  BY DEF Frames
<1>7. \A m \in Of("TapSeq") : \A s \in Spots : <<"danced", m, s>> \in Frames
  BY DEF Frames
<1>8. \A d \in Seq(Deferrers) : \A e \in Event : <<"other", d, e>> \in Frames
  BY DEF Frames
<1>9. <<"remove last">> \in Frames
  BY DEF Frames
<1> QED
  BY <1>1, <1>2, <1>3, <1>4, <1>5, <1>6, <1>7, <1>8, <1>9

LEMMA DeferrersAreMaps ==
  /\ Deferrers \subseteq Maps
  /\ Of("TapHold") \subseteq Deferrers
  /\ Of("TapSeq") \subseteq Deferrers
  /\ Of("TapHold") \cap Of("TapSeq") = {}
  /\ Of("ModIf") \subseteq Maps
BY DEF Deferrers, Of

(* A keymap calls keymaps that were made before it.                        *)
LEMMA ChildrenAreBelow ==
  ASSUME NEW m \in Maps
  PROVE  /\ \A i \in DOMAIN Child[m] : Child[m][i] \in Below(m)
         /\ Class[m] = "ModIf" =>
              /\ Modifier(m) \in Below(m)
              /\ Modified(m) \in Below(m)
              /\ Original(m) \in Below(m)
         /\ Class[m] = "TapHold" => Tap(m) \in Below(m) /\ Hold(m) \in Below(m)
         /\ Class[m] = "OneShot" => Child[m][1] \in Below(m)
<1>1. Child[m] \in Seq(Maps)
  BY KeymapAssumption
<1>2. \A i \in DOMAIN Child[m] : Child[m][i] \in Below(m)
  BY <1>1, KeymapAssumption DEF Below
<1>3. DOMAIN Child[m] = 1 .. Len(Child[m]) /\ Len(Child[m]) \in Nat
  BY <1>1
<1>4. Len(Child[m]) >= Arguments(Class[m])
  BY KeymapAssumption
<1>5. CASE Class[m] = "ModIf"
  <2>1. Len(Child[m]) >= 3
    BY <1>4, <1>5 DEF Arguments
  <2> QED
    BY <2>1, <1>2, <1>3, <1>5 DEF Modifier, Modified, Original
<1>6. CASE Class[m] = "TapHold"
  <2>1. Len(Child[m]) >= 2
    BY <1>4, <1>6 DEF Arguments
  <2> QED
    BY <2>1, <1>2, <1>3, <1>6 DEF Tap, Hold
<1>7. CASE Class[m] = "OneShot"
  <2>1. Len(Child[m]) >= 1
    BY <1>4, <1>7 DEF Arguments
  <2> QED
    BY <2>1, <1>2, <1>3, <1>7
<1> QED
  BY <1>2, <1>5, <1>6, <1>7

-----------------------------------------------------------------------------
(* The stack of calls.                                                     *)

(* What the call on top may call: it begins no timeout, and nothing that   *)
(* may not be at work where it is.                                         *)
Allowed ==
  {f \in Frames : /\ f[1] # "unref"
                  /\ \A m \in Deferrers :
                       Top \in NestedIn(m) => f \in NestedIn(m)}

LEMMA BelowIsAllowed ==
  ASSUME Top \in Frames, Top[1] \notin Outermost,
         Self \in Maps, NEW c \in Below(Self)
  PROVE  Press(c) \in Allowed /\ Release(c) \in Allowed
<1>1. c \in Maps /\ Press(c) \in Frames /\ Release(c) \in Frames
  BY FrameMakes DEF Below
<1>2. ASSUME NEW m \in Deferrers, Top \in NestedIn(m) PROVE c \in Below(m)
  <2>1. Made[c] < Made[Self] /\ (Made[Self] < Made[m] \/ Self = m)
    BY <1>2 DEF NestedIn, Below, Self
  <2>2. Made[c] \in Nat /\ Made[Self] \in Nat /\ Made[m] \in Nat
    BY <1>1, KeymapAssumption, DeferrersAreMaps
  <2> QED
    BY <1>1, <2>1, <2>2 DEF Below
<1> QED
  BY <1>1, <1>2 DEF Allowed, NestedIn, Press, Release, Outermost

LEMMA OwnIsAllowed ==
  ASSUME Top \in Frames, Top[1] \notin Outermost,
         NEW f \in Frames, f[1] \notin Outermost, f[2] = Self,
         f[1] \in Late \/ Top[1] \notin Late
  PROVE  f \in Allowed
BY DEF Allowed, NestedIn, Self, Outermost

LEMMA OutermostAllows ==
  ASSUME Top[1] \in Outermost, NEW f \in Frames, f[1] # "unref"
  PROVE  f \in Allowed
BY DEF Allowed, NestedIn

LEMMA CallProperties ==
  ASSUME calls \in Seq(Frames), calls # <<>>,
         NEW list \in Seq(Frames), Call(list)
  PROVE  /\ calls' \in Seq(Frames)
         /\ Len(calls) \in Nat \ {0}
         /\ Len(calls') = Len(list) + Len(calls) - 1
         /\ Top = calls[1]
         /\ \A i \in 1 .. Len(list) : calls'[i] = list[i]
         /\ \A i \in Len(list) + 1 .. Len(calls') :
              calls'[i] = calls[i - Len(list) + 1]
<1>1. /\ Tail(calls) \in Seq(Frames)
      /\ Len(Tail(calls)) = Len(calls) - 1
      /\ \A i \in 1 .. Len(Tail(calls)) : Tail(calls)[i] = calls[i + 1]
  BY HeadTailProperties
<1>2. Len(calls) \in Nat /\ Len(calls) # 0 /\ Len(list) \in Nat
  BY EmptySeq
<1>3. /\ list \o Tail(calls) \in Seq(Frames)
      /\ Len(list \o Tail(calls)) = Len(list) + Len(Tail(calls))
      /\ \A i \in 1 .. Len(list) + Len(Tail(calls)) :
           (list \o Tail(calls))[i] =
             IF i <= Len(list) THEN list[i] ELSE Tail(calls)[i - Len(list)]
  BY <1>1, ConcatProperties
<1>4. calls' = list \o Tail(calls)
  BY DEF Call
<1>5. ASSUME NEW i \in Len(list) + 1 .. Len(calls')
      PROVE  calls'[i] = calls[i - Len(list) + 1]
  <2>1. i \in 1 .. Len(list) + Len(Tail(calls)) /\ ~ (i <= Len(list))
        /\ i - Len(list) \in 1 .. Len(Tail(calls))
    BY <1>1, <1>2, <1>3, <1>4, <1>5
  <2> QED
    BY <1>1, <1>2, <1>3, <1>4, <2>1
<1> QED
  BY <1>1, <1>2, <1>3, <1>4, <1>5 DEF Top

(* Ends(f, m): the call f takes m out of the chain.                        *)
Ends(f, m) == f[1] \in {"timeout", "decide"} /\ f[2] = m

LEMMA StackStep ==
  ASSUME calls \in Seq(Frames), calls # <<>>, Nested,
         NEW list \in Seq(Allowed), Call(list)
  PROVE  /\ calls' \in Seq(Frames)
         /\ Nested'
         /\ \A m \in Deferrers : Ending(m) => Ending(m)' \/ Ends(Top, m)
         /\ \A m \in Deferrers : \A i \in 1 .. Len(list) :
              Ends(list[i], m) => Ending(m)'
         /\ \A m \in Deferrers : Contains(calls', <<"unref", m>>) =>
              Contains(calls, <<"unref", m>>) /\ Top \in NestedIn(m)
<1>1. /\ list \in Seq(Frames)
      /\ Len(list) \in Nat
      /\ \A i \in 1 .. Len(list) : list[i] \in Allowed
  BY ElementOfSeq, SeqMonotonic DEF Allowed
<1>2. /\ calls' \in Seq(Frames)
      /\ Len(calls) \in Nat \ {0}
      /\ Len(calls') = Len(list) + Len(calls) - 1
      /\ Top = calls[1]
      /\ \A i \in 1 .. Len(list) : calls'[i] = list[i]
      /\ \A i \in Len(list) + 1 .. Len(calls') :
           calls'[i] = calls[i - Len(list) + 1]
  BY <1>1, CallProperties
<1>3. ASSUME NEW m \in Deferrers, NEW i \in 1 .. Len(calls'),
             calls'[i] = <<"unref", m>>
      PROVE  /\ i > Len(list)
             /\ i - Len(list) + 1 \in 2 .. Len(calls)
             /\ calls[i - Len(list) + 1] = <<"unref", m>>
             /\ i - Len(list) + 1 = Len(calls)
             /\ \A j \in 1 .. Len(calls) - 1 : calls[j] \in NestedIn(m)
  <2>1. i > Len(list)
    <3>1. SUFFICES ASSUME i <= Len(list) PROVE FALSE
      BY <1>1, <1>2
    <3>2. i \in 1 .. Len(list)
      BY <3>1, <1>1, <1>2
    <3>3. list[i] \in Allowed /\ list[i] = <<"unref", m>>
      BY <3>2, <1>1, <1>2, <1>3
    <3> QED
      BY <3>3 DEF Allowed
  <2>2. i - Len(list) + 1 \in 2 .. Len(calls)
    BY <2>1, <1>1, <1>2
  <2>3. calls[i - Len(list) + 1] = <<"unref", m>>
    BY <2>1, <1>1, <1>2, <1>3
  <2>4. i - Len(list) + 1 \in 1 .. Len(calls)
    BY <2>2
  <2>5. i - Len(list) + 1 = Len(calls)
    BY <2>3, <2>4 DEF Nested
  <2>6. \A j \in 1 .. (i - Len(list) + 1) - 1 : calls[j] \in NestedIn(m)
    BY <2>3, <2>4 DEF Nested
  <2> QED
    BY <2>1, <2>2, <2>3, <2>5, <2>6
<1>4. Nested'
  <2>1. SUFFICES ASSUME NEW m \in Deferrers, NEW i \in 1 .. Len(calls'),
                        calls'[i] = <<"unref", m>>
                 PROVE  /\ i = Len(calls')
                        /\ \A j \in 1 .. i - 1 : calls'[j] \in NestedIn(m)
    BY DEF Nested, NestedIn, Frames, Below, Late, Outermost, Deferrers, Of,
           Event, Spots, Slots
  <2>2. /\ i - Len(list) + 1 \in 2 .. Len(calls)
        /\ i - Len(list) + 1 = Len(calls)
        /\ \A j \in 1 .. Len(calls) - 1 : calls[j] \in NestedIn(m)
    BY <2>1, <1>3
  <2>3. Top \in NestedIn(m)
    BY <2>2, <1>2
  <2>4. ASSUME NEW j \in 1 .. i - 1 PROVE calls'[j] \in NestedIn(m)
    <3>1. CASE j <= Len(list)
      BY SMTT(20), <3>1, <2>3, <1>1, <1>2 DEF Allowed
    <3>2. CASE j > Len(list)
      <4>1. j \in Len(list) + 1 .. Len(calls')
            /\ j - Len(list) + 1 \in 1 .. Len(calls) - 1
        BY <3>2, <2>1, <2>2, <1>1, <1>2
      <4> QED
        BY <4>1, <2>2, <1>2
    <3> QED
      BY <3>1, <3>2, <1>1
  <2> QED
    BY <2>1, <2>2, <2>4, <1>1, <1>2
<1>5. ASSUME NEW m \in Deferrers, Ending(m), ~ Ends(Top, m) PROVE Ending(m)'
  <2>1. PICK i \in 1 .. Len(calls) : Ends(calls[i], m)
    BY <1>5 DEF Ending, Ends
  <2>2. i # 1
    BY <2>1, <1>2, <1>5
  <2>3. /\ i + Len(list) - 1 \in Len(list) + 1 .. Len(calls')
        /\ (i + Len(list) - 1) - Len(list) + 1 = i
    BY <2>2, <1>1, <1>2
  <2>4. calls'[i + Len(list) - 1] = calls[i]
    BY <2>3, <1>2
  <2>5. i + Len(list) - 1 \in 1 .. Len(calls')
    BY <2>3, <1>1
  <2> QED
    BY <2>1, <2>4, <2>5 DEF Ending, Ends
<1>6. ASSUME NEW m \in Deferrers, NEW i \in 1 .. Len(list), Ends(list[i], m)
      PROVE  Ending(m)'
  <2>1. i \in 1 .. Len(calls') /\ calls'[i] = list[i]
    BY <1>1, <1>2
  <2> QED
    BY <2>1, <1>6 DEF Ending, Ends
<1>7. ASSUME NEW m \in Deferrers, Contains(calls', <<"unref", m>>)
      PROVE  Contains(calls, <<"unref", m>>) /\ Top \in NestedIn(m)
  <2>1. PICK i \in 1 .. Len(calls') : calls'[i] = <<"unref", m>>
    BY <1>7 DEF Contains
  <2>2. /\ i - Len(list) + 1 \in 2 .. Len(calls)
        /\ calls[i - Len(list) + 1] = <<"unref", m>>
        /\ \A j \in 1 .. Len(calls) - 1 : calls[j] \in NestedIn(m)
    BY <2>1, <1>3
  <2> QED
    BY <2>2, <1>2 DEF Contains
<1> QED
  BY <1>2, <1>4, <1>5, <1>6, <1>7

(* A call that leaves the chain and the timers alone.                      *)
LEMMA QuietCall ==
  ASSUME calls \in Seq(Frames), calls # <<>>, Nested, Mode, Once, Timed, Ended,
         UNCHANGED <<chain, peeking, timerVars>>,
         NEW list \in Seq(Allowed), Call(list),
         \A m \in Deferrers :
           Ends(Top, m) => \E i \in 1 .. Len(list) : Ends(list[i], m)
  PROVE  /\ calls' \in Seq(Frames)
         /\ Mode' /\ Once' /\ Timed' /\ Nested' /\ Ended'
<1>1. /\ calls' \in Seq(Frames)
      /\ Nested'
      /\ \A m \in Deferrers : Ending(m) => Ending(m)'
      /\ \A m \in Deferrers : Contains(calls', <<"unref", m>>) =>
           Contains(calls, <<"unref", m>>)
  BY StackStep
<1>2. \A m \in Deferrers : Waiting(m)' = Waiting(m)
  BY DEF Waiting, timerVars, Contains
<1>3. \A m \in Deferrers : Contains(chain', m) = Contains(chain, m)
  BY DEF Contains
<1>4. Timed'
  BY <1>1, <1>2, <1>3 DEF Timed
<1>5. Ended'
  BY <1>1, <1>3 DEF Ended
<1> QED
  BY <1>1, <1>4, <1>5 DEF Mode, Once

-----------------------------------------------------------------------------
(* The chain of deferrers.                                                 *)

LEMMA UnlinkProperties ==
  ASSUME chain \in Seq(Deferrers), Once, NEW m, Contains(chain, m), Unlink(m)
  PROVE  /\ chain' \in Seq(Deferrers)
         /\ Once'
         /\ \A d : Contains(chain', d) => Contains(chain, d) /\ d # m
         /\ \A d : Contains(chain, d) /\ d # m => Contains(chain', d)
<1> DEFINE p == Place(m)
           n == Len(chain)
<1>1. n \in Nat /\ DOMAIN chain = 1 .. n
  OBVIOUS
<1>2. p \in 1 .. n /\ chain[p] = m
  <2>1. \E i \in DOMAIN chain : chain[i] = m
    BY <1>1 DEF Contains
  <2> QED
    BY <1>1, <2>1 DEF Place
<1>3. \A i \in 1 .. n : chain[i] \in Deferrers
  BY ElementOfSeq
<1> DEFINE before == SubSeq(chain, 1, p - 1)
           after == SubSeq(chain, p + 1, n)
<1>4. /\ before \in Seq(Deferrers)
      /\ Len(before) = p - 1
      /\ \A i \in 1 .. p - 1 : before[i] = chain[i]
  <2>1. /\ before \in Seq(Deferrers)
        /\ Len(before) = IF 1 <= p - 1 THEN (p - 1) - 1 + 1 ELSE 0
        /\ \A i \in 1 .. (p - 1) - 1 + 1 : before[i] = chain[1 + i - 1]
    <3>1. /\ 1 \in Int /\ p - 1 \in Int
          /\ \A i \in 1 .. p - 1 : chain[i] \in Deferrers
      BY <1>1, <1>2, <1>3
    <3> QED
      BY <3>1, SubSeqProperties
  <2> QED
    BY <2>1, <1>1, <1>2
<1>5. /\ after \in Seq(Deferrers)
      /\ Len(after) = n - p
      /\ \A i \in 1 .. n - p : after[i] = chain[p + i]
  <2>1. /\ after \in Seq(Deferrers)
        /\ Len(after) = IF p + 1 <= n THEN n - (p + 1) + 1 ELSE 0
        /\ \A i \in 1 .. n - (p + 1) + 1 : after[i] = chain[(p + 1) + i - 1]
    <3>1. /\ p + 1 \in Int /\ n \in Int
          /\ \A i \in p + 1 .. n : chain[i] \in Deferrers
      BY <1>1, <1>2, <1>3
    <3> QED
      BY <3>1, SubSeqProperties
  <2> QED
    BY <2>1, <1>1, <1>2
<1>6. chain' = before \o after
  BY DEF Unlink, RemoveAt
<1> HIDE DEF before, after, p, n
<1>7. /\ chain' \in Seq(Deferrers)
      /\ Len(chain') = n - 1
      /\ \A i \in 1 .. n - 1 :
           chain'[i] = IF i <= p - 1 THEN before[i] ELSE after[i - (p - 1)]
  <2>1. /\ before \o after \in Seq(Deferrers)
        /\ Len(before \o after) = Len(before) + Len(after)
        /\ \A i \in 1 .. Len(before) + Len(after) :
             (before \o after)[i] =
               IF i <= Len(before) THEN before[i] ELSE after[i - Len(before)]
    BY <1>4, <1>5, ConcatProperties
  <2> QED
    BY <2>1, <1>1, <1>2, <1>4, <1>5, <1>6
<1>8. \A i \in 1 .. n - 1 : chain'[i] = chain[IF i < p THEN i ELSE i + 1]
  BY <1>1, <1>2, <1>4, <1>5, <1>7
<1>9. \A i, j \in 1 .. n : chain[i] = chain[j] => i = j
  BY DEF Once, n
<1>10. Once'
  BY SMTT(20), <1>1, <1>2, <1>7, <1>8, <1>9 DEF Once
<1>11. ASSUME NEW d, Contains(chain', d) PROVE Contains(chain, d) /\ d # m
  <2>1. PICK i \in 1 .. n - 1 : chain'[i] = d
    BY <1>7, <1>11 DEF Contains
  <2> DEFINE k == IF i < p THEN i ELSE i + 1
  <2>2. k \in 1 .. n /\ k # p /\ chain[k] = d
    BY <2>1, <1>1, <1>2, <1>8
  <2>3. d # m
    BY <2>2, <1>2, <1>9
  <2> QED
    BY <2>2, <2>3 DEF Contains, n
<1>12. ASSUME NEW d, Contains(chain, d), d # m PROVE Contains(chain', d)
  <2>1. PICK k \in 1 .. n : chain[k] = d
    BY <1>1, <1>12 DEF Contains, n
  <2>2. k # p
    BY <2>1, <1>2, <1>12
  <2> DEFINE i == IF k < p THEN k ELSE k - 1
  <2>3. i \in 1 .. n - 1 /\ (IF i < p THEN i ELSE i + 1) = k
    BY <2>1, <2>2, <1>1, <1>2
  <2>4. chain'[i] = d
    BY <2>1, <2>3, <1>8
  <2> QED
    BY <2>3, <2>4, <1>7 DEF Contains
<1> QED
  BY <1>7, <1>10, <1>11, <1>12

LEMMA StopDeferProperties ==
  ASSUME chain \in Seq(Deferrers), Once, Mode, NEW m, StopDefer(m), ~ failed'
  PROVE  /\ chain' \in Seq(Deferrers)
         /\ Once'
         /\ Mode'
         /\ \A d : Contains(chain', d) => Contains(chain, d) /\ d # m
         /\ \A d : Contains(chain, d) /\ d # m => Contains(chain', d)
         /\ Contains(chain, m)
<1>1. Contains(chain, m) /\ Unlink(m)
  BY DEF StopDefer
<1>2. /\ chain' \in Seq(Deferrers)
      /\ Once'
      /\ \A d : Contains(chain', d) => Contains(chain, d) /\ d # m
      /\ \A d : Contains(chain, d) /\ d # m => Contains(chain', d)
  BY <1>1, UnlinkProperties
<1>3. chain # <<>>
  BY <1>1, EmptySeq DEF Contains
<1>4. Mode'
  BY <1>3 DEF Mode, StopDefer
<1> QED
  BY <1>1, <1>2, <1>4

LEMMA StartDeferProperties ==
  ASSUME chain \in Seq(Deferrers), Once, Mode, NEW m \in Deferrers,
         StartDefer(m), ~ failed'
  PROVE  /\ chain' \in Seq(Deferrers)
         /\ Once'
         /\ Mode'
         /\ \A d : Contains(chain', d) => Contains(chain, d) \/ d = m
         /\ \A d : Contains(chain, d) \/ d = m => Contains(chain', d)
         /\ ~ Contains(chain, m)
<1>1. CASE chain = <<>>
  <2>1. chain' = <<m>> /\ peeking' = TRUE
    BY <1>1 DEF StartDefer
  <2>2. chain' \in Seq(Deferrers) /\ Len(chain') = 1 /\ chain'[1] = m
    BY <2>1
  <2>3. Once'
    BY <2>2 DEF Once
  <2>4. Mode'
    BY <2>1 DEF Mode
  <2>5. \A d : Contains(chain', d) <=> d = m
    BY <2>2 DEF Contains
  <2>6. \A d : ~ Contains(chain, d)
    BY <1>1 DEF Contains
  <2> QED
    BY <2>2, <2>3, <2>4, <2>5, <2>6
<1>2. CASE chain # <<>>
  <2>1. chain' = Append(chain, m) /\ peeking' = peeking /\ ~ Contains(chain, m)
    BY <1>2 DEF StartDefer
  <2>2. /\ chain' \in Seq(Deferrers)
        /\ chain' # <<>>
        /\ Len(chain) \in Nat
        /\ Len(chain') = Len(chain) + 1
        /\ \A i \in 1 .. Len(chain) : chain'[i] = chain[i]
        /\ chain'[Len(chain) + 1] = m
    BY <2>1, AppendProperties
  <2>3. Once'
    BY <2>1, <2>2 DEF Once, Contains
  <2>4. Mode'
    BY <1>2, <2>1, <2>2 DEF Mode
  <2>5. \A d : Contains(chain', d) <=> Contains(chain, d) \/ d = m
    BY <2>2 DEF Contains
  <2> QED
    BY <2>1, <2>2, <2>3, <2>4, <2>5
<1> QED
  BY <1>1, <1>2

-----------------------------------------------------------------------------
(* The steps.                                                              *)

LEMMA TopCall ==
  ASSUME Sound, NEW op, Doing(op)
  PROVE  /\ ~ failed
         /\ calls # <<>>
         /\ Len(calls) \in Nat \ {0}
         /\ Top = calls[1]
         /\ Top \in Frames
         /\ Top[1] = op
<1>1. calls # <<>> /\ ~ failed /\ Top[1] = op
  BY DEF Doing
<1>2. Len(calls) \in Nat \ {0} /\ Head(calls) = calls[1]
  BY <1>1, EmptySeq DEF Sound
<1>3. calls[1] \in Frames
  BY <1>2, ElementOfSeq DEF Sound
<1> QED
  BY <1>1, <1>2, <1>3 DEF Top

(* A call that leaves the chain and the timers alone.                      *)
LEMMA QuietStep ==
  ASSUME Sound, calls # <<>>, Fields', UNCHANGED <<chain, peeking, timerVars>>,
         NEW list \in Seq(Allowed), Call(list),
         \A m \in Deferrers :
           Ends(Top, m) => \E i \in 1 .. Len(list) : Ends(list[i], m)
  PROVE  Sound'
<1>1. calls' \in Seq(Frames) /\ Mode' /\ Once' /\ Timed' /\ Nested' /\ Ended'
  BY QuietCall DEF Sound
<1>2. chain' \in Seq(Deferrers)
  BY DEF Sound
<1> QED
  BY <1>1, <1>2 DEF Sound

(* A call that moves d in the chain or starts or stops its timer.          *)
LEMMA ChainStep ==
  ASSUME Sound, calls # <<>>, Fields',
         chain' \in Seq(Deferrers), Mode', Once',
         NEW list \in Seq(Allowed), Call(list),
         NEW d \in Deferrers,
         \A m : Contains(chain', m) => Contains(chain, m) \/ m = d,
         \A m \in Deferrers \ {d} : Waiting(m) => Waiting(m)',
         \A m \in Deferrers \ {d} : ~ Ends(Top, m),
         Contains(chain', d) => Waiting(d)' \/ Ending(d)',
         Contains(chain', d) => Top \notin NestedIn(d) \/ Ending(d)'
  PROVE  Sound'
<1>1. /\ calls' \in Seq(Frames)
      /\ Nested'
      /\ \A m \in Deferrers : Ending(m) => Ending(m)' \/ Ends(Top, m)
      /\ \A m \in Deferrers : Contains(calls', <<"unref", m>>) =>
           Contains(calls, <<"unref", m>>) /\ Top \in NestedIn(m)
  BY StackStep DEF Sound
<1>2. ASSUME NEW m \in Deferrers, Contains(chain', m)
      PROVE  Waiting(m)' \/ Ending(m)'
  <2>1. CASE m = d
    BY <2>1, <1>2
  <2>2. CASE m # d
    <3>1. Waiting(m) \/ Ending(m)
      BY <1>2, <2>2 DEF Sound, Timed
    <3> QED
      BY <3>1, <2>2, <1>1
  <2> QED
    BY <2>1, <2>2
<1>3. ASSUME NEW m \in Deferrers, Contains(chain', m),
             Contains(calls', <<"unref", m>>)
      PROVE  Ending(m)'
  <2>1. CASE m = d
    BY <2>1, <1>1, <1>3
  <2>2. CASE m # d
    <3>1. Ending(m)
      BY <1>1, <1>3, <2>2 DEF Sound, Ended
    <3> QED
      BY <3>1, <2>2, <1>1
  <2> QED
    BY <2>1, <2>2
<1>4. Timed'
  BY <1>2 DEF Timed
<1>5. Ended'
  BY <1>3 DEF Ended
<1> QED
  BY <1>1, <1>4, <1>5 DEF Sound

LEMMA NotInItself ==
  ASSUME NEW f, NEW m \in Deferrers, f \in NestedIn(m), f[2] = m
  PROVE  f[1] \in Late
<1>1. Made[m] \in Nat
  BY DeferrersAreMaps, KeymapAssumption
<1> QED
  BY <1>1 DEF NestedIn, Below

LEMMA UnrefCall ==
  ASSUME NEW f \in Frames, f[1] = "unref"
  PROVE  f = <<"unref", f[2]>>
<1>1. f \in {"timeout", "unref"} \X Deferrers
  <2>1. f # <<"remove last">>
    <3>1. ASSUME f = <<"remove last">> PROVE f[1] = "remove last"
      BY <3>1, FirstOfOne
    <3> QED
      BY <3>1
  <2> QED
    BY <2>1 DEF Frames
<1> QED
  BY <1>1

LEMMA OthersWait ==
  ASSUME NEW d, StartTimer(d) \/ StopTimer(d)
  PROVE  \A m \in Deferrers \ {d} : Waiting(m) => Waiting(m)'
BY DEF StartTimer, StopTimer, Waiting, Contains

LEMMA TimerFields ==
  ASSUME Fields, NEW d \in Deferrers, StartTimer(d) \/ StopTimer(d)
  PROVE  /\ (expected \subseteq Deferrers)'
         /\ (running \subseteq Deferrers)'
         /\ (posted \in Seq(Deferrers))'
BY DEF Fields, StartTimer, StopTimer

LEMMA QuietFields ==
  ASSUME Fields,
         UNCHANGED <<chosen, step, mySlot, slot, timerVars, queueVars>>
  PROVE  Fields'
BY DEF Fields, timerVars, queueVars

LEMMA EndsAtTop ==
  ASSUME NEW m, Ends(Top, m)
  PROVE  Top[1] \in {"timeout", "decide"} /\ Self = m
BY DEF Ends, Self

(* The list of a call, as a value.                                         *)
LEMMA ListExists ==
  /\ Call(<<>>) => \E list \in Seq(Allowed) : list = <<>> /\ Call(list)
  /\ \A l : l \in Seq(Allowed) /\ Call(l) =>
       \E list \in Seq(Allowed) : list = l /\ Call(list)
<1>1. PICK e : e = <<>>
  OBVIOUS
<1>2. e \in Seq(Allowed)
  BY <1>1
<1> QED
  BY <1>1, <1>2 DEF Call

(* A press or a release that only counts, or calls keymaps made before.    *)
LEMMA PlainStep ==
  ASSUME Sound, NEW op \in {"press", "release"}, Doing(op), ~ failed',
         JustCounts \/ PseudoPress \/ LitSends \/ OneShotTaps \/ ModIfPress
           \/ ModIfRelease
  PROVE  Sound'
<1>1. /\ calls # <<>> /\ Top \in Frames /\ Top[1] = op
  BY TopCall
<1>2. Self \in Maps /\ Top[1] \notin Outermost
  BY <1>1, FrameKinds DEF Self, Outermost
<1>3. \A m \in Deferrers : ~ Ends(Top, m)
  BY <1>1 DEF Ends
<1>4. UNCHANGED <<chosen, step, mySlot, slot, timerVars, queueVars, chain,
                  peeking>>
  BY DEF JustCounts, PseudoPress, LitSends, OneShotTaps, ModIfPress,
         ModIfRelease, OnlyCalls, deferVars
<1>5. Fields'
  BY <1>4, QuietFields DEF Sound
<1>6. \A c \in Below(Self) : Press(c) \in Allowed /\ Release(c) \in Allowed
  BY <1>1, <1>2, BelowIsAllowed
<1>7. \E list \in Seq(Allowed) : Call(list)
  <2>1. CASE Call(<<>>)
    BY <2>1, ListExists
  <2>2. CASE OneShotTaps /\ ~ Call(<<>>)
    <3> DEFINE list == <<Press(Child[Self][1]), Release(Child[Self][1])>>
    <3>1. Class[Self] = "OneShot" /\ Call(list)
      BY <2>2 DEF OneShotTaps, Pressing
    <3>2. Child[Self][1] \in Below(Self)
      BY <1>2, <3>1, ChildrenAreBelow
    <3>3. list \in Seq(Allowed)
      BY <3>2, <1>6
    <3> QED
      BY <3>1, <3>3, ListExists
  <2>3. CASE ModIfPress
    <3>1. /\ Modifier(Self) \in Below(Self)
          /\ Modified(Self) \in Below(Self)
          /\ Original(Self) \in Below(Self)
      BY <1>2, <2>3, ChildrenAreBelow DEF ModIfPress, Pressing
    <3> DEFINE undo == IF Undoes(Self)
                       THEN <<Release(Modifier(Self))>> ELSE <<>>
               list == undo \o <<Press(Modified(Self))>>
    <3>2. CASE Call(list)
      <4>1. undo \in Seq(Allowed) /\ <<Press(Modified(Self))>> \in Seq(Allowed)
        BY <3>1, <1>6
      <4>2. list \in Seq(Allowed)
        BY <4>1, ConcatProperties
      <4> QED
        BY <3>2, <4>2, ListExists
    <3>3. CASE Call(<<Press(Original(Self))>>)
      <4>1. <<Press(Original(Self))>> \in Seq(Allowed)
        BY <3>1, <1>6
      <4> QED
        BY <3>3, <4>1, ListExists
    <3> QED
      BY <2>3, <3>2, <3>3 DEF ModIfPress
  <2>4. CASE ModIfRelease
    <3>1. /\ Modifier(Self) \in Below(Self)
          /\ Modified(Self) \in Below(Self)
          /\ Original(Self) \in Below(Self)
      BY <1>2, <2>4, ChildrenAreBelow DEF ModIfRelease, Releasing
    <3> DEFINE undo == IF Undoes(Self) THEN <<Press(Modifier(Self))>> ELSE <<>>
               list == <<Release(Modified(Self))>> \o undo
    <3>2. CASE Call(list)
      <4>1. /\ undo \in Seq(Allowed)
            /\ <<Release(Modified(Self))>> \in Seq(Allowed)
        BY <3>1, <1>6
      <4>2. list \in Seq(Allowed)
        BY <4>1, ConcatProperties
      <4> QED
        BY <3>2, <4>2, ListExists
    <3>3. CASE Call(<<Release(Original(Self))>>)
      <4>1. <<Release(Original(Self))>> \in Seq(Allowed)
        BY <3>1, <1>6
      <4> QED
        BY <3>3, <4>1, ListExists
    <3> QED
      BY <2>4, <3>2, <3>3 DEF ModIfRelease
  <2> QED
    BY <2>1, <2>2, <2>3, <2>4
       DEF JustCounts, PseudoPress, LitSends, OneShotTaps
<1> QED
  BY <1>1, <1>3, <1>4, <1>5, <1>7, QuietStep

LEMMA TapHoldPressStep ==
  ASSUME Sound, TapHoldPress, ~ failed'
  PROVE  Sound'
<1>1. /\ calls # <<>> /\ Top \in Frames /\ Top[1] = "press"
  BY TopCall DEF TapHoldPress, Pressing
<1>2. Self \in Of("TapHold") /\ Self \in Deferrers
  BY <1>1, FrameKinds DEF TapHoldPress, Pressing, Self, Of, Deferrers
<1>3. PICK d \in Deferrers : d = Self
  BY <1>2
<1>4. /\ StartTimer(d) /\ StartDefer(d) /\ Call(<<>>)
      /\ mySlot' = [mySlot EXCEPT ![d] = slot]
      /\ UNCHANGED <<chosen, step, slot, queueVars>>
  <2>1. /\ StartTimer(Self) /\ StartDefer(Self) /\ Call(<<>>)
        /\ mySlot' = [mySlot EXCEPT ![Self] = slot]
        /\ UNCHANGED <<chosen, step, slot, queueVars>>
    BY DEF TapHoldPress
  <2> QED
    BY <1>3, <2>1 DEF StartTimer, StartDefer
<1>5. Fields'
  <2>1. (expected \subseteq Deferrers)' /\ (running \subseteq Deferrers)'
        /\ (posted \in Seq(Deferrers))'
    BY <1>4, TimerFields DEF Sound
  <2>2. mySlot' \in [Deferrers -> Spots]
    BY <1>4 DEF Sound, Fields
  <2> QED
    BY <1>4, <2>1, <2>2 DEF Sound, Fields, queueVars
<1>6. /\ chain' \in Seq(Deferrers) /\ Once' /\ Mode'
      /\ \A m : Contains(chain', m) => Contains(chain, m) \/ m = d
  BY <1>4, StartDeferProperties DEF Sound
<1>7. \A m \in Deferrers \ {d} : Waiting(m) => Waiting(m)'
  BY <1>4, OthersWait
<1>8. \A m \in Deferrers : ~ Ends(Top, m)
  BY <1>1 DEF Ends
<1>9. Waiting(d)'
  BY <1>4 DEF StartTimer, Waiting
<1>10. Top \notin NestedIn(d)
  BY <1>1, <1>3, NotInItself DEF Late, Self
<1>11. <<>> \in Seq(Allowed)
  OBVIOUS
<1> QED
  BY <1>1, <1>4, <1>5, <1>6, <1>7, <1>8, <1>9, <1>10, <1>11, ChainStep

(* The other calls of a TapHold.                                           *)

LEMMA TapHoldReleaseStep ==
  ASSUME Sound, TapHoldRelease, ~ failed'
  PROVE  Sound'
<1>1. /\ calls # <<>> /\ Top \in Frames /\ Top[1] = "release"
  BY TopCall DEF TapHoldRelease, Releasing
<1>2. Self \in Of("TapHold") /\ Self \in Maps /\ Tap(Self) \in Below(Self)
  BY <1>1, FrameKinds, ChildrenAreBelow
     DEF TapHoldRelease, Releasing, Self, Of
<1> DEFINE first == IF chosen[Self] = NoMap THEN <<Decide(Self, Tap(Self))>>
                    ELSE <<>>
           last == <<<<"let go", Self>>>>
           list == first \o last
<1>3. Decide(Self, Tap(Self)) \in Allowed /\ <<"let go", Self>> \in Allowed
  <2>1. Decide(Self, Tap(Self)) \in Frames /\ <<"let go", Self>> \in Frames
    BY <1>2, FrameMakes
  <2> QED
    BY <1>1, <2>1, OwnIsAllowed DEF Decide, Outermost, Late
<1>4. list \in Seq(Allowed)
  <2>1. first \in Seq(Allowed)
    <3>1. <<Decide(Self, Tap(Self))>> \in Seq(Allowed)
      BY <1>3, OneIsSeq
    <3>2. <<>> \in Seq(Allowed)
      OBVIOUS
    <3> QED
      BY <3>1, <3>2, Zenon
  <2>2. last \in Seq(Allowed)
    BY <1>3, OneIsSeq
  <2> QED
    BY <2>1, <2>2, ConcatProperties
<1>5. \E l \in Seq(Allowed) : Call(l)
  BY <1>4, ListExists DEF TapHoldRelease
<1>6. Fields' /\ UNCHANGED <<chain, peeking, timerVars>>
  BY QuietFields DEF Sound, TapHoldRelease, OnlyCalls, deferVars
<1>7. \A m \in Deferrers : ~ Ends(Top, m)
  BY <1>1 DEF Ends
<1> QED
  BY <1>1, <1>5, <1>6, <1>7, QuietStep

LEMMA LetGoStep ==
  ASSUME Sound, LetGo, ~ failed'
  PROVE  Sound'
<1>1. /\ calls # <<>> /\ Top \in Frames /\ Top[1] = "let go"
  BY TopCall DEF LetGo
<1>2. Self \in Of("TapHold") /\ Self \in Maps
  BY <1>1, FrameKinds DEF Self, Of
<1>3. chosen[Self] \in Below(Self)
  BY <1>2 DEF LetGo, Sound, Fields
<1> DEFINE list == <<Release(chosen[Self]), <<"forget", Self>>>>
<1>4. Release(chosen[Self]) \in Allowed
  BY <1>1, <1>2, <1>3, BelowIsAllowed DEF Outermost
<1>5. <<"forget", Self>> \in Allowed
  <2>1. <<"forget", Self>> \in Frames
    BY <1>2, FrameMakes
  <2> QED
    BY <1>1, <2>1, OwnIsAllowed DEF Outermost, Late
<1>6. list \in Seq(Allowed)
  BY <1>4, <1>5
<1>7. \E l \in Seq(Allowed) : Call(l)
  BY <1>6, ListExists DEF LetGo
<1>8. Fields' /\ UNCHANGED <<chain, peeking, timerVars>>
  BY QuietFields DEF Sound, LetGo, OnlyCalls, deferVars
<1>9. \A m \in Deferrers : ~ Ends(Top, m)
  BY <1>1 DEF Ends
<1> QED
  BY <1>1, <1>7, <1>8, <1>9, QuietStep

LEMMA ChosenStep ==
  ASSUME Sound, Decided \/ Forget, ~ failed'
  PROVE  Sound'
<1>1. /\ calls # <<>> /\ Top \in Frames
      /\ Decided => Top[1] = "decided"
      /\ Forget => Top[1] = "forget"
  BY TopCall DEF Decided, Forget
<1>2. Self \in Of("TapHold")
  BY <1>1, FrameKinds DEF Self
<1>3. Fields'
  <2>1. CASE Decided
    <3>1. Top[3] \in Below(Self) /\ Top[4] \in Spots
      BY <1>1, <2>1, FrameKinds DEF Self
    <3>2. /\ chosen' = [chosen EXCEPT ![Self] = Top[3]]
          /\ slot' = Top[4]
          /\ UNCHANGED <<step, mySlot, timerVars, queueVars>>
      BY <2>1 DEF Decided
    <3>3. /\ chosen' \in [Of("TapHold") -> Maps \cup {NoMap}]
          /\ \A m \in Of("TapHold") : chosen'[m] \in Below(m) \cup {NoMap}
      BY <1>2, <3>1, <3>2 DEF Sound, Fields, Below
    <3> QED
      BY <3>1, <3>2, <3>3 DEF Sound, Fields, timerVars, queueVars
  <2>2. CASE Forget
    <3>1. /\ chosen' = [chosen EXCEPT ![Self] = NoMap]
          /\ UNCHANGED <<slot, step, mySlot, timerVars, queueVars>>
      BY <2>2 DEF Forget
    <3>2. /\ chosen' \in [Of("TapHold") -> Maps \cup {NoMap}]
          /\ \A m \in Of("TapHold") : chosen'[m] \in Below(m) \cup {NoMap}
      BY <1>2, <3>1 DEF Sound, Fields
    <3> QED
      BY <3>1, <3>2 DEF Sound, Fields, timerVars, queueVars
  <2> QED
    BY <2>1, <2>2
<1>4. /\ Call(<<>>)
      /\ UNCHANGED <<chain, peeking, timerVars>>
  BY DEF Decided, Forget, deferVars
<1>5. \A m \in Deferrers : ~ Ends(Top, m)
  BY <1>1 DEF Ends
<1>6. \E l \in Seq(Allowed) : Call(l)
  BY <1>4, ListExists
<1> QED
  BY <1>1, <1>3, <1>4, <1>5, <1>6, QuietStep

LEMMA TapHoldTimeoutStep ==
  ASSUME Sound, TapHoldTimeout, ~ failed'
  PROVE  Sound'
<1>1. /\ calls # <<>> /\ Top \in Frames /\ Top[1] = "timeout"
  BY TopCall DEF TapHoldTimeout
<1>2. Self \in Of("TapHold") /\ Self \in Maps /\ Hold(Self) \in Below(Self)
  BY <1>1, FrameKinds, ChildrenAreBelow, DeferrersAreMaps
     DEF TapHoldTimeout, Self, Of
<1> DEFINE list == <<Decide(Self, Hold(Self))>>
<1>3. Decide(Self, Hold(Self)) \in Allowed
  <2>1. Decide(Self, Hold(Self)) \in Frames
    BY <1>2, FrameMakes
  <2> QED
    BY <1>1, <2>1, OwnIsAllowed DEF Decide, Outermost, Late
<1>4. list \in Seq(Allowed)
  BY <1>3
<1>5. PICK l \in Seq(Allowed) : l = list /\ Call(l)
  BY <1>4, ListExists DEF TapHoldTimeout
<1>6. Fields' /\ UNCHANGED <<chain, peeking, timerVars>>
  BY QuietFields DEF Sound, TapHoldTimeout, OnlyCalls, deferVars
<1>7. ASSUME NEW m \in Deferrers, Ends(Top, m)
      PROVE  \E i \in 1 .. Len(l) : Ends(l[i], m)
  <2>1. Self = m
    BY <1>7 DEF Ends, Self
  <2>2. 1 \in 1 .. Len(l) /\ l[1] = Decide(Self, Hold(Self))
    BY <1>5
  <2>3. Ends(l[1], m)
    BY <2>1, <2>2 DEF Ends, Decide
  <2> QED
    BY <2>2, <2>3
<1> QED
  BY <1>1, <1>5, <1>6, <1>7, QuietStep

LEMMA HelpDecideStep ==
  ASSUME Sound, HelpDecide, ~ failed'
  PROVE  Sound'
<1>1. /\ calls # <<>> /\ Top \in Frames /\ Top[1] = "decide"
  BY TopCall DEF HelpDecide
<1>2. Self \in Of("TapHold") /\ Self \in Maps /\ Top[3] \in Below(Self)
  BY <1>1, FrameKinds, DeferrersAreMaps DEF Self
<1>3. PICK d \in Deferrers : d = Self
  BY <1>2, DeferrersAreMaps
<1>4. StopTimer(d) /\ StopDefer(d)
  <2>1. StopTimer(Self) /\ StopDefer(Self)
    BY DEF HelpDecide
  <2> QED
    BY <1>3, <2>1 DEF StopTimer, StopDefer, Unlink, Place
<1> DEFINE list == <<Press(Top[3]), <<"decided", Self, Top[3], slot>>>>
<1>5. Press(Top[3]) \in Allowed
  BY <1>1, <1>2, BelowIsAllowed DEF Outermost
<1>6. <<"decided", Self, Top[3], slot>> \in Allowed
  <2>1. <<"decided", Self, Top[3], slot>> \in Frames
    BY <1>2, FrameMakes DEF Sound, Fields
  <2> QED
    BY <1>1, <2>1, OwnIsAllowed DEF Outermost, Late
<1>7. list \in Seq(Allowed)
  BY <1>5, <1>6
<1>8. \E l \in Seq(Allowed) : Call(l)
  BY <1>7, ListExists DEF HelpDecide
<1>9. Fields'
  <2>1. (expected \subseteq Deferrers)' /\ (running \subseteq Deferrers)'
        /\ (posted \in Seq(Deferrers))'
    BY <1>4, TimerFields DEF Sound
  <2>2. slot' \in Spots
    BY <1>3 DEF HelpDecide, Sound, Fields
  <2> QED
    BY <2>1, <2>2 DEF HelpDecide, Sound, Fields, mapVars, queueVars
<1>10. /\ chain' \in Seq(Deferrers) /\ Once' /\ Mode'
       /\ \A m : Contains(chain', m) => Contains(chain, m) /\ m # d
  BY <1>4, StopDeferProperties DEF Sound
<1>11. \A m \in Deferrers \ {d} : Waiting(m) => Waiting(m)'
  BY <1>4, OthersWait
<1>12. \A m \in Deferrers \ {d} : ~ Ends(Top, m)
  BY <1>3 DEF Ends, Self
<1> QED
  BY <1>1, <1>8, <1>9, <1>10, <1>11, <1>12, ChainStep

(* The calls of a TapSeq.                                                  *)

LEMMA TappedIsBelow ==
  ASSUME NEW m \in Maps, Tapped(m) # NoMap
  PROVE  Tapped(m) \in Below(m) /\ Tapped(m) = Child[m][step[m]]
BY ChildrenAreBelow DEF Tapped

LEMMA TapSeqPressStep ==
  ASSUME Sound, TapSeqPress, ~ failed'
  PROVE  Sound'
<1>1. /\ calls # <<>> /\ Top \in Frames /\ Top[1] = "press"
  BY TopCall DEF TapSeqPress, Pressing
<1>2. Self \in Of("TapSeq") /\ Self \in Maps
  BY <1>1, FrameKinds DEF TapSeqPress, Pressing, Self, Of
<1>3. PICK d \in Deferrers : d = Self
  BY <1>2, DeferrersAreMaps
<1>4. /\ StartTimer(d)
      /\ step' = [step EXCEPT ![d] = @ + 1]
      /\ mySlot' = [mySlot EXCEPT ![d] = slot]
      /\ UNCHANGED <<chosen, slot, queueVars>>
  <2>1. /\ StartTimer(Self)
        /\ step' = [step EXCEPT ![Self] = @ + 1]
        /\ mySlot' = [mySlot EXCEPT ![Self] = slot]
        /\ UNCHANGED <<chosen, slot, queueVars>>
    BY DEF TapSeqPress
  <2> QED
    BY <1>3, <2>1 DEF StartTimer
<1>5. step'[d] = step[d] + 1 /\ step[d] \in Nat
  BY <1>2, <1>3, <1>4 DEF Sound, Fields
<1>6. Fields'
  <2>1. (expected \subseteq Deferrers)' /\ (running \subseteq Deferrers)'
        /\ (posted \in Seq(Deferrers))'
    BY <1>4, TimerFields DEF Sound
  <2>2. mySlot' \in [Deferrers -> Spots] /\ step' \in [Of("TapSeq") -> Nat]
    BY <1>2, <1>3, <1>4 DEF Sound, Fields
  <2> QED
    BY <1>4, <2>1, <2>2 DEF Sound, Fields, queueVars
<1>7. /\ chain' \in Seq(Deferrers) /\ Once' /\ Mode'
      /\ \A m : Contains(chain', m) => Contains(chain, m) \/ m = d
  <2>1. CASE StartDefer(Self)
    <3>1. StartDefer(d)
      BY <2>1, <1>3 DEF StartDefer
    <3> QED
      BY <3>1, StartDeferProperties DEF Sound
  <2>2. CASE UNCHANGED deferVars
    BY <2>2 DEF deferVars, Sound, Once, Mode, Contains
  <2> QED
    BY <2>1, <2>2 DEF TapSeqPress
<1>8. <<"tap", Self>> \in Allowed
  <2>1. <<"tap", Self>> \in Frames
    BY <1>2, FrameMakes
  <2> QED
    BY <1>1, <2>1, OwnIsAllowed DEF Outermost, Late
<1>9. \E l \in Seq(Allowed) : Call(l)
  <2>1. CASE Call(<<<<"tap", Self>>>>)
    <3>1. <<<<"tap", Self>>>> \in Seq(Allowed)
      BY <1>8, OneIsSeq
    <3> QED
      BY <2>1, <3>1, ListExists
  <2>2. CASE /\ step'[Self] \in 2 .. Len(Child[Self])
             /\ Call(<<Release(Tapped(Self)), <<"tap", Self>>>>)
    <3>1. Child[Self] \in Seq(Maps)
      BY <1>2, KeymapAssumption
    <3>2. step[Self] \in 1 .. Len(Child[Self])
      BY <2>2, <3>1, <1>3, <1>5
    <3>3. Tapped(Self) \in Below(Self)
      BY <1>2, <3>1, <3>2, ChildrenAreBelow DEF Tapped
    <3>4. Release(Tapped(Self)) \in Allowed
      BY <1>1, <1>2, <3>3, BelowIsAllowed DEF Outermost
    <3>5. <<Release(Tapped(Self)), <<"tap", Self>>>> \in Seq(Allowed)
      BY <3>4, <1>8
    <3> QED
      BY <2>2, <3>5, ListExists
  <2> QED
    BY <2>1, <2>2 DEF TapSeqPress
<1>10. \A m \in Deferrers \ {d} : Waiting(m) => Waiting(m)'
  BY <1>4, OthersWait
<1>11. \A m \in Deferrers : ~ Ends(Top, m)
  BY <1>1 DEF Ends
<1>12. Waiting(d)'
  BY <1>4 DEF StartTimer, Waiting
<1>13. Top \notin NestedIn(d)
  BY <1>1, <1>3, NotInItself DEF Late, Self
<1> QED
  BY <1>1, <1>6, <1>7, <1>9, <1>10, <1>11, <1>12, <1>13, ChainStep

LEMMA TapSeqTapsStep ==
  ASSUME Sound, TapSeqTaps, ~ failed'
  PROVE  Sound'
<1>1. /\ calls # <<>> /\ Top \in Frames /\ Top[1] = "tap"
  BY TopCall DEF TapSeqTaps
<1>2. Self \in Of("TapSeq") /\ Self \in Maps
  BY <1>1, FrameKinds, DeferrersAreMaps DEF Self
<1>3. Tapped(Self) \in Below(Self)
  BY <1>2, TappedIsBelow DEF TapSeqTaps
<1> DEFINE first == <<Press(Tapped(Self))>>
           rest == IF step[Self] = Len(Child[Self])
                   THEN <<<<"finish", Self>>>> ELSE <<>>
           list == first \o rest
<1>4. first \in Seq(Allowed)
  BY <1>1, <1>2, <1>3, BelowIsAllowed, OneIsSeq DEF Outermost
<1>5. rest \in Seq(Allowed)
  <2>1. <<"finish", Self>> \in Frames
    BY <1>2, FrameMakes
  <2>2. <<"finish", Self>> \in Allowed
    BY <1>1, <2>1, OwnIsAllowed DEF Outermost, Late
  <2>3. <<<<"finish", Self>>>> \in Seq(Allowed)
    BY <2>2, OneIsSeq
  <2>4. <<>> \in Seq(Allowed)
    OBVIOUS
  <2> QED
    BY <2>3, <2>4, Zenon
<1>6. list \in Seq(Allowed)
  BY <1>4, <1>5, ConcatProperties
<1>7. \E l \in Seq(Allowed) : Call(l)
  BY <1>6, ListExists DEF TapSeqTaps
<1>8. Fields' /\ UNCHANGED <<chain, peeking, timerVars>>
  BY QuietFields DEF Sound, TapSeqTaps, OnlyCalls, deferVars
<1>9. \A m \in Deferrers : ~ Ends(Top, m)
  BY <1>1 DEF Ends
<1> QED
  BY <1>1, <1>7, <1>8, <1>9, QuietStep

LEMMA FinishStep ==
  ASSUME Sound, Finish, ~ failed'
  PROVE  Sound'
<1>1. /\ calls # <<>> /\ Top \in Frames /\ Top[1] = "finish"
  BY TopCall DEF Finish
<1>2. Self \in Deferrers
  BY <1>1, FrameKinds, DeferrersAreMaps DEF Self
<1>3. PICK d \in Deferrers : d = Self
  BY <1>2
<1>4. StopTimer(d) /\ StopDefer(d)
  <2>1. StopTimer(Self) /\ StopDefer(Self)
    BY DEF Finish
  <2> QED
    BY <1>3, <2>1 DEF StopTimer, StopDefer, Unlink, Place
<1>5. \E l \in Seq(Allowed) : Call(l)
  BY ListExists DEF Finish
<1>6. Fields'
  <2>1. (expected \subseteq Deferrers)' /\ (running \subseteq Deferrers)'
        /\ (posted \in Seq(Deferrers))'
    BY <1>4, TimerFields DEF Sound
  <2> QED
    BY <2>1 DEF Finish, Sound, Fields, queueVars
<1>7. /\ chain' \in Seq(Deferrers) /\ Once' /\ Mode'
      /\ \A m : Contains(chain', m) => Contains(chain, m) /\ m # d
  BY <1>4, StopDeferProperties DEF Sound
<1>8. \A m \in Deferrers \ {d} : Waiting(m) => Waiting(m)'
  BY <1>4, OthersWait
<1>9. \A m \in Deferrers : ~ Ends(Top, m)
  BY <1>1 DEF Ends
<1> QED
  BY <1>1, <1>5, <1>6, <1>7, <1>8, <1>9, ChainStep

LEMMA EndDanceIsAllowed ==
  ASSUME Sound, Top \in Frames, Top[1] \in {"release", "timeout"},
         Self \in Of("TapSeq")
  PROVE  EndDance(Self) \in Seq(Allowed)
<1>1. <<"let off", Self>> \in Frames /\ <<"danced", Self, slot>> \in Frames
  BY FrameMakes DEF Sound, Fields
<1>2. <<"let off", Self>> \in Allowed /\ <<"danced", Self, slot>> \in Allowed
  BY <1>1, OwnIsAllowed DEF Outermost, Late
<1> QED
  BY <1>2, TwoIsSeq DEF EndDance

LEMMA TapSeqReleaseStep ==
  ASSUME Sound, TapSeqRelease, ~ failed'
  PROVE  Sound'
<1>1. /\ calls # <<>> /\ Top \in Frames /\ Top[1] = "release"
  BY TopCall DEF TapSeqRelease, Releasing
<1>2. Self \in Of("TapSeq")
  BY <1>1, FrameKinds DEF TapSeqRelease, Releasing, Self, Of
<1>3. \E l \in Seq(Allowed) : Call(l)
  <2>1. Call(EndDance(Self)) \/ Call(<<>>)
    BY DEF TapSeqRelease, Call
  <2> QED
    BY <1>1, <1>2, <2>1, EndDanceIsAllowed, ListExists
<1>4. Fields' /\ UNCHANGED <<chain, peeking, timerVars>>
  BY QuietFields DEF Sound, TapSeqRelease, OnlyCalls, deferVars
<1>5. \A m \in Deferrers : ~ Ends(Top, m)
  BY <1>1 DEF Ends
<1> QED
  BY <1>1, <1>3, <1>4, <1>5, QuietStep

LEMMA TapSeqLetsOffStep ==
  ASSUME Sound, TapSeqLetsOff, ~ failed'
  PROVE  Sound'
<1>1. /\ calls # <<>> /\ Top \in Frames /\ Top[1] = "let off"
  BY TopCall DEF TapSeqLetsOff
<1>2. Self \in Of("TapSeq") /\ Self \in Maps
  BY <1>1, FrameKinds, DeferrersAreMaps DEF Self
<1>3. Tapped(Self) \in Below(Self)
  BY <1>2, TappedIsBelow DEF TapSeqLetsOff
<1>4. <<Release(Tapped(Self))>> \in Seq(Allowed)
  BY <1>1, <1>2, <1>3, BelowIsAllowed, OneIsSeq DEF Outermost
<1>5. \E l \in Seq(Allowed) : Call(l)
  BY <1>4, ListExists DEF TapSeqLetsOff
<1>6. Fields' /\ UNCHANGED <<chain, peeking, timerVars>>
  BY QuietFields DEF Sound, TapSeqLetsOff, OnlyCalls, deferVars
<1>7. \A m \in Deferrers : ~ Ends(Top, m)
  BY <1>1 DEF Ends
<1> QED
  BY <1>1, <1>5, <1>6, <1>7, QuietStep

LEMMA DancedStep ==
  ASSUME Sound, Danced, ~ failed'
  PROVE  Sound'
<1>1. /\ calls # <<>> /\ Top \in Frames /\ Top[1] = "danced"
  BY TopCall DEF Danced
<1>2. Self \in Of("TapSeq") /\ Top[3] \in Spots
  BY <1>1, FrameKinds DEF Self
<1>3. Fields'
  BY <1>2 DEF Danced, Sound, Fields, timerVars, queueVars
<1>4. UNCHANGED <<chain, peeking, timerVars>> /\ Call(<<>>)
  BY DEF Danced, deferVars
<1>5. \A m \in Deferrers : ~ Ends(Top, m)
  BY <1>1 DEF Ends
<1>6. \E l \in Seq(Allowed) : Call(l)
  BY <1>4, ListExists
<1> QED
  BY <1>1, <1>3, <1>4, <1>5, <1>6, QuietStep

LEMMA TapDanceTimeoutStep ==
  ASSUME Sound, TapDanceTimeout, ~ failed'
  PROVE  Sound'
<1>1. /\ calls # <<>> /\ Top \in Frames /\ Top[1] = "timeout"
  BY TopCall DEF TapDanceTimeout
<1>2. Self \in Of("TapSeq") /\ Self \in Deferrers
  BY <1>1, FrameKinds, DeferrersAreMaps DEF TapDanceTimeout, Self, Of
<1>3. PICK d \in Deferrers : d = Self
  BY <1>2
<1>4. StopDefer(d)
  <2>1. StopDefer(Self)
    BY DEF TapDanceTimeout
  <2> QED
    BY <1>3, <2>1 DEF StopDefer, Unlink, Place
<1>5. \E l \in Seq(Allowed) : Call(l)
  <2>1. Call(EndDance(Self)) \/ Call(<<>>)
    BY DEF TapDanceTimeout
  <2> QED
    BY <1>1, <1>2, <2>1, EndDanceIsAllowed, ListExists
<1>6. Fields'
  <2>1. slot' \in Spots
    BY <1>3 DEF TapDanceTimeout, Sound, Fields
  <2> QED
    BY <2>1 DEF TapDanceTimeout, Sound, Fields, timerVars, queueVars
<1>7. /\ chain' \in Seq(Deferrers) /\ Once' /\ Mode'
      /\ \A m : Contains(chain', m) => Contains(chain, m) /\ m # d
  BY <1>4, StopDeferProperties DEF Sound
<1>8. \A m \in Deferrers \ {d} : Waiting(m) => Waiting(m)'
  BY DEF TapDanceTimeout, timerVars, Waiting, Contains
<1>9. \A m \in Deferrers \ {d} : ~ Ends(Top, m)
  BY <1>3 DEF Ends, Self
<1> QED
  BY <1>1, <1>5, <1>6, <1>7, <1>8, <1>9, ChainStep

(* The events.                                                             *)

LEMMA ExecuteIsFrame ==
  ASSUME NEW e \in Event
  PROVE  Execute(e) \in Frames /\ Execute(e)[1] \in {"press", "release"}
<1>1. Table[e.slot] \in Maps
  <2>1. e.slot \in DOMAIN Table
    BY DEF Event, Slots
  <2>2. Table \in Seq(Maps)
    BY KeymapAssumption
  <2> QED
    BY <2>1, <2>2
<1> QED
  BY <1>1, FrameMakes DEF Execute, Press, Release

LEMMA TellFacts ==
  ASSUME Sound, Telling
  PROVE  /\ calls # <<>> /\ Top \in Frames /\ Top[1] = "other"
         /\ Told \in Deferrers
         /\ TellTheRest \in Allowed
         /\ Execute(OtherEvent) \in Allowed
         /\ <<"remove last">> \in Allowed
<1>1. calls # <<>> /\ Top \in Frames /\ Top[1] = "other"
  BY TopCall DEF Telling
<1>2. Top[2] \in Seq(Deferrers) /\ Top[2] # <<>> /\ OtherEvent \in Event
  BY <1>1, FrameKinds DEF Telling, OtherEvent
<1>3. Told \in Deferrers /\ Tail(Top[2]) \in Seq(Deferrers)
  BY <1>2, HeadTailProperties DEF Told
<1>4. /\ TellTheRest \in Frames
      /\ TellTheRest[1] = "other"
  BY <1>2, <1>3, FrameMakes DEF TellTheRest
<1>5. /\ Execute(OtherEvent) \in Frames
      /\ Execute(OtherEvent)[1] # "unref"
  BY <1>2, ExecuteIsFrame
<1>6. <<"remove last">> \in Frames /\ <<"remove last">>[1] # "unref"
  BY FrameMakes, FirstOfOne
<1>7. Top[1] \in Outermost
  BY <1>1 DEF Outermost
<1> QED
  BY <1>1, <1>3, <1>4, <1>5, <1>6, <1>7, OutermostAllows

LEMMA AllToldStep ==
  ASSUME Sound, AllTold, ~ failed'
  PROVE  Sound'
<1>1. /\ calls # <<>> /\ Top[1] = "other"
  BY TopCall DEF AllTold
<1>2. \E l \in Seq(Allowed) : Call(l)
  BY ListExists DEF AllTold
<1>3. Fields' /\ UNCHANGED <<chain, peeking, timerVars>>
  BY QuietFields DEF Sound, AllTold, OnlyCalls, deferVars
<1>4. \A m \in Deferrers : ~ Ends(Top, m)
  BY <1>1 DEF Ends
<1> QED
  BY <1>1, <1>2, <1>3, <1>4, QuietStep

LEMMA TapHoldToldStep ==
  ASSUME Sound, TapHoldTold, ~ failed'
  PROVE  Sound'
<1>1. /\ calls # <<>> /\ Top \in Frames /\ Top[1] = "other"
      /\ Told \in Deferrers
      /\ TellTheRest \in Allowed
      /\ Execute(OtherEvent) \in Allowed
      /\ <<"remove last">> \in Allowed
  BY TellFacts DEF TapHoldTold
<1>2. /\ Decide(Told, Tap(Told)) \in Allowed
      /\ Decide(Told, Hold(Told)) \in Allowed
  <2>1. Told \in Of("TapHold") /\ Told \in Maps
    BY <1>1, DeferrersAreMaps DEF TapHoldTold, Of
  <2>2. Tap(Told) \in Below(Told) /\ Hold(Told) \in Below(Told)
    BY <2>1, ChildrenAreBelow DEF Of
  <2>3. /\ Decide(Told, Tap(Told)) \in Frames
        /\ Decide(Told, Hold(Told)) \in Frames
    BY <2>1, <2>2, FrameMakes
  <2>4. /\ Decide(Told, Tap(Told))[1] # "unref"
        /\ Decide(Told, Hold(Told))[1] # "unref"
    BY DEF Decide
  <2> QED
    BY <1>1, <2>3, <2>4, OutermostAllows DEF Outermost
<1>3. \E l \in Seq(Allowed) : Call(l)
  <2>1. \/ Call(<<Execute(OtherEvent), <<"remove last">>>>)
        \/ Call(<<Decide(Told, Hold(Told)), TellTheRest>>)
        \/ Call(<<Decide(Told, Tap(Told)), TellTheRest>>)
        \/ Call(<<TellTheRest>>)
    BY DEF TapHoldTold
  <2>2. /\ <<Execute(OtherEvent), <<"remove last">>>> \in Seq(Allowed)
        /\ <<Decide(Told, Hold(Told)), TellTheRest>> \in Seq(Allowed)
        /\ <<Decide(Told, Tap(Told)), TellTheRest>> \in Seq(Allowed)
        /\ <<TellTheRest>> \in Seq(Allowed)
    BY <1>1, <1>2, OneIsSeq, TwoIsSeq
  <2> QED
    BY <2>1, <2>2, ListExists
<1>4. Fields' /\ UNCHANGED <<chain, peeking, timerVars>>
  BY QuietFields DEF Sound, TapHoldTold, OnlyCalls, deferVars
<1>5. \A m \in Deferrers : ~ Ends(Top, m)
  BY <1>1 DEF Ends
<1> QED
  BY <1>1, <1>3, <1>4, <1>5, QuietStep

LEMMA TapDanceToldStep ==
  ASSUME Sound, TapDanceTold, ~ failed'
  PROVE  Sound'
<1>1. /\ calls # <<>> /\ Top \in Frames /\ Top[1] = "other"
      /\ Told \in Deferrers
      /\ TellTheRest \in Allowed
  BY TellFacts DEF TapDanceTold
<1>2. UNCHANGED <<mapVars, slot, deferVars, failed, queueVars>>
  BY DEF TapDanceTold
<1>3. \A m \in Deferrers : ~ Ends(Top, m)
  BY <1>1 DEF Ends
<1>4. CASE UNCHANGED timerVars /\ Call(<<TellTheRest>>)
  <2>1. <<TellTheRest>> \in Seq(Allowed)
    BY <1>1, OneIsSeq
  <2>2. \E l \in Seq(Allowed) : Call(l)
    BY <1>4, <2>1, ListExists
  <2>3. Fields' /\ UNCHANGED <<chain, peeking, timerVars>>
    BY <1>2, <1>4, QuietFields DEF Sound, mapVars, deferVars
  <2> QED
    BY <1>1, <1>3, <2>2, <2>3, QuietStep
<1>5. CASE StopTimer(Told) /\ Call(<<<<"timeout", Told>>, TellTheRest>>)
  <2>1. PICK d \in Deferrers : d = Told
    BY <1>1
  <2>2. StopTimer(d)
    BY <1>5, <2>1 DEF StopTimer
  <2> DEFINE list == <<<<"timeout", d>>, TellTheRest>>
  <2>3. <<"timeout", d>> \in Allowed
    <3>1. <<"timeout", d>> \in Frames
      BY FrameMakes
    <3> QED
      BY <1>1, <3>1, OutermostAllows DEF Outermost
  <2>4. list \in Seq(Allowed)
    BY <1>1, <2>3, TwoIsSeq
  <2>5. PICK l \in Seq(Allowed) : l = list /\ Call(l)
    BY <1>5, <2>1, <2>4, ListExists
  <2>6. Fields'
    BY <1>2, <2>2, TimerFields DEF Sound, Fields, mapVars, queueVars
  <2>7. chain' \in Seq(Deferrers) /\ Mode' /\ Once'
        /\ \A m : Contains(chain', m) => Contains(chain, m)
    BY <1>2 DEF Sound, Mode, Once, Contains, deferVars
  <2>8. \A m \in Deferrers \ {d} : Waiting(m) => Waiting(m)'
    BY <2>2, OthersWait
  <2>9. Ending(d)'
    <3>1. Len(l) = 2 /\ l[1] = <<"timeout", d>>
      BY <2>5
    <3>2. 1 \in 1 .. Len(l) /\ Ends(l[1], d)
      BY <3>1 DEF Ends
    <3> QED
      BY <1>1, <2>5, <3>2, StackStep DEF Sound
  <2> QED
    BY <1>1, <1>3, <2>5, <2>6, <2>7, <2>8, <2>9, ChainStep
<1> QED
  BY <1>4, <1>5 DEF TapDanceTold

LEMMA RemoveAtType ==
  ASSUME NEW S, NEW s \in Seq(S), NEW i \in 1 .. Len(s)
  PROVE  RemoveAt(s, i) \in Seq(S) /\ Len(RemoveAt(s, i)) = Len(s) - 1
<1>1. Len(s) \in Nat /\ \A j \in 1 .. Len(s) : s[j] \in S
  BY ElementOfSeq
<1> DEFINE before == SubSeq(s, 1, i - 1)
           after == SubSeq(s, i + 1, Len(s))
<1>2. before \in Seq(S) /\ Len(before) = i - 1
  <2>1. 1 \in Int /\ i - 1 \in Int /\ \A j \in 1 .. i - 1 : s[j] \in S
    BY <1>1
  <2>2. /\ before \in Seq(S)
        /\ Len(before) = IF 1 <= i - 1 THEN i - 1 - 1 + 1 ELSE 0
    BY <2>1, SubSeqProperties
  <2> QED
    BY <2>2, <1>1
<1>3. after \in Seq(S) /\ Len(after) = Len(s) - i
  <2>1. /\ i + 1 \in Int /\ Len(s) \in Int
        /\ \A j \in i + 1 .. Len(s) : s[j] \in S
    BY <1>1
  <2>2. after \in Seq(S)
        /\ Len(after) = IF i + 1 <= Len(s) THEN Len(s) - (i + 1) + 1 ELSE 0
    BY <2>1, SubSeqProperties
  <2> QED
    BY <2>2, <1>1
<1>4. /\ before \o after \in Seq(S)
      /\ Len(before \o after) = Len(before) + Len(after)
  BY <1>2, <1>3, ConcatProperties
<1>5. RemoveAt(s, i) = before \o after
  BY DEF RemoveAt
<1> HIDE DEF before, after
<1>6. (i - 1) + (Len(s) - i) = Len(s) - 1
  BY <1>1
<1> QED
  BY <1>2, <1>3, <1>4, <1>5, <1>6

LEMMA RemoveLastStep ==
  ASSUME Sound, RemoveLast, ~ failed'
  PROVE  Sound'
<1>1. calls # <<>> /\ Top[1] = "remove last"
  BY TopCall DEF RemoveLast
<1>2. UNCHANGED <<mapVars, slot, deferVars, timerVars>> /\ Call(<<>>)
  BY DEF RemoveLast
<1>3. events' \in Seq(Event) /\ peeked' \in 0 .. Len(events')
  <2>1. events \in Seq(Event) /\ peeked \in 0 .. Len(events)
    BY DEF Sound, Fields
  <2>2. CASE peeked = 0
    BY <2>1, <2>2 DEF RemoveLast, queueVars
  <2>3. CASE peeked # 0
    <3>1. peeked \in 1 .. Len(events) /\ Len(events) \in Nat
      BY <2>1, <2>3
    <3>2. events' = RemoveAt(events, peeked) /\ peeked' = peeked - 1
      BY <2>3 DEF RemoveLast
    <3>3. events' \in Seq(Event) /\ Len(events') = Len(events) - 1
      BY <2>1, <3>1, <3>2, RemoveAtType
    <3> QED
      BY <3>1, <3>2, <3>3
  <2> QED
    BY <2>2, <2>3
<1>4. Fields'
  BY <1>2, <1>3 DEF Sound, Fields, mapVars, timerVars
<1>5. UNCHANGED <<chain, peeking, timerVars>>
  BY <1>2 DEF deferVars
<1>6. \A m \in Deferrers : ~ Ends(Top, m)
  BY <1>1 DEF Ends
<1>7. \E l \in Seq(Allowed) : Call(l)
  BY <1>2, ListExists
<1> QED
  BY <1>1, <1>4, <1>5, <1>6, <1>7, QuietStep

LEMMA UnrefStep ==
  ASSUME Sound, Unref, ~ failed'
  PROVE  Sound'
<1>1. /\ calls # <<>> /\ Top \in Frames /\ Top[1] = "unref"
      /\ Len(calls) \in Nat \ {0} /\ Top = calls[1]
  BY TopCall DEF Unref
<1>2. Self \in Deferrers /\ Top = <<"unref", Self>>
  BY <1>1, FrameKinds, UnrefCall DEF Self
<1>3. PICK d \in Deferrers : d = Self
  BY <1>2
<1>4. Len(calls) = 1
  <2>1. 1 \in 1 .. Len(calls) /\ calls[1] = <<"unref", d>>
    BY <1>1, <1>2, <1>3
  <2> QED
    BY <2>1 DEF Sound, Nested
<1>5. ~ Ending(d)
  BY <1>1, <1>4 DEF Ending
<1>6. ~ Contains(chain, d)
  <2>1. Contains(calls, <<"unref", d>>)
    <3>1. 1 \in 1 .. Len(calls)
      BY <1>1
    <3>2. calls[1] = <<"unref", d>>
      BY <1>1, <1>2, <1>3
    <3> QED
      BY <3>1, <3>2 DEF Contains
  <2> QED
    BY <1>5, <2>1 DEF Sound, Ended
<1>7. /\ expected' = expected \ {d}
      /\ UNCHANGED <<mapVars, slot, deferVars, running, posted, queueVars>>
      /\ Call(<<>>)
  BY <1>3 DEF Unref
<1>8. Fields'
  BY <1>7 DEF Sound, Fields, mapVars, queueVars
<1>9. /\ chain' \in Seq(Deferrers) /\ Mode' /\ Once'
      /\ \A m : Contains(chain', m) => Contains(chain, m)
      /\ ~ Contains(chain', d)
  BY <1>6, <1>7 DEF Sound, Mode, Once, Contains, deferVars
<1>10. \A m \in Deferrers \ {d} : Waiting(m) => Waiting(m)'
  BY <1>7 DEF Waiting, Contains
<1>11. \A m \in Deferrers : ~ Ends(Top, m)
  BY <1>1 DEF Ends
<1>12. \E l \in Seq(Allowed) : Call(l)
  BY <1>7, ListExists
<1> QED
  BY <1>1, <1>8, <1>9, <1>10, <1>11, <1>12, ChainStep

(* Between two events every deferrer in the chain waits for its timer.     *)
LEMMA IdleWaits ==
  ASSUME Sound, Idle, NEW m \in Deferrers, Contains(chain, m)
  PROVE  Waiting(m)
<1>1. Len(calls) = 0
  BY DEF Idle
<1>2. ~ Ending(m)
  BY <1>1 DEF Ending
<1> QED
  BY <1>2 DEF Sound, Timed

LEMMA HandleKeyEventStep ==
  ASSUME Sound, HandleKeyEvent, ~ failed'
  PROVE  Sound'
<1>1. Idle /\ Available /\ Get /\ slot' = Got.slot
      /\ UNCHANGED <<mapVars, deferVars, timerVars>>
  BY DEF HandleKeyEvent
<1>2. /\ events \in Seq(Event) /\ Len(events) \in Nat
      /\ peeked \in 0 .. Len(events)
  BY DEF Sound, Fields
<1>3. Got \in Event
  <2>1. (IF peeking THEN peeked + 1 ELSE 1) \in 1 .. Len(events)
    BY <1>1, <1>2, EmptySeq DEF Available
  <2> QED
    BY <1>2, <2>1, ElementOfSeq DEF Got
<1>4. events' \in Seq(Event) /\ peeked' \in 0 .. Len(events')
  <2>1. CASE peeking
    BY <2>1, <1>1, <1>2 DEF Get, Available
  <2>2. CASE ~ peeking
    <3>1. events # <<>> /\ events' = Tail(events) /\ peeked' = 0
      BY <2>2, <1>1 DEF Get, Available
    <3>2. events' \in Seq(Event)
      BY <1>2, <3>1, HeadTailProperties
    <3> QED
      BY <3>1, <3>2
  <2> QED
    BY <2>1, <2>2
<1>5. slot' \in Spots
  BY <1>1, <1>3 DEF Event, Spots
<1>6. Fields'
  BY <1>1, <1>4, <1>5 DEF Sound, Fields, mapVars, timerVars
<1>7. chain' \in Seq(Deferrers) /\ Mode' /\ Once'
  BY <1>1 DEF Sound, Mode, Once, deferVars
<1>8. /\ calls' \in Seq(Frames)
      /\ \A i \in 1 .. Len(calls') : calls'[i][1] # "unref"
  <2> DEFINE run == Execute(Got)
             gone == <<"remove last">>
             told == <<"other", chain, Got>>
  <2>1. /\ run \in Frames /\ run[1] # "unref"
        /\ gone \in Frames /\ gone[1] # "unref"
        /\ told \in Frames /\ told[1] # "unref"
    <3>1. run \in Frames /\ run[1] # "unref"
      BY <1>3, ExecuteIsFrame
    <3>2. gone \in Frames /\ gone[1] # "unref"
      BY FrameMakes, FirstOfOne
    <3>3. told \in Frames
      BY <1>3, FrameMakes DEF Sound
    <3> QED
      BY <3>1, <3>2, <3>3
  <2>2. calls' = <<run>> \/ calls' = <<run, gone>> \/ calls' = <<told>>
    BY DEF HandleKeyEvent
  <2> HIDE DEF run, gone, told
  <2>3. CASE calls' = <<run>>
    BY <2>1, <2>3
  <2>4. CASE calls' = <<run, gone>>
    BY <2>1, <2>4
  <2>5. CASE calls' = <<told>>
    BY <2>1, <2>5
  <2> QED
    BY <2>2, <2>3, <2>4, <2>5
<1>9. Nested' /\ Ended'
  BY <1>8 DEF Nested, Ended, Contains
<1>10. Timed'
  <2>1. \A m \in Deferrers : Waiting(m)' = Waiting(m)
        /\ Contains(chain', m) = Contains(chain, m)
    BY <1>1 DEF Waiting, Contains, timerVars, deferVars
  <2> QED
    BY <1>1, <2>1, IdleWaits DEF Timed
<1> QED
  BY <1>6, <1>7, <1>8, <1>9, <1>10 DEF Sound

LEMMA HandleTimeoutStep ==
  ASSUME Sound, HandleTimeout, ~ failed'
  PROVE  Sound'
<1>1. /\ Idle /\ posted # <<>> /\ posted' = Tail(posted)
      /\ UNCHANGED <<mapVars, slot, deferVars, expected, running, queueVars>>
  BY DEF HandleTimeout
<1>2. posted \in Seq(Deferrers) /\ Len(posted) \in Nat \ {0}
  BY <1>1, EmptySeq DEF Sound, Fields
<1>3. PICK h \in Deferrers : h = Head(posted) /\ h = posted[1]
  BY <1>1, <1>2, HeadTailProperties, ElementOfSeq
<1>4. /\ posted' \in Seq(Deferrers)
      /\ Len(posted') = Len(posted) - 1
      /\ \A i \in 1 .. Len(posted') : posted'[i] = posted[i + 1]
  BY <1>1, <1>2, HeadTailProperties
<1>5. Fields'
  BY <1>1, <1>4 DEF Sound, Fields, mapVars, queueVars
<1>6. chain' \in Seq(Deferrers) /\ Mode' /\ Once'
      /\ \A m : Contains(chain', m) = Contains(chain, m)
  BY <1>1 DEF Sound, Mode, Once, Contains, deferVars
<1>7. \A m \in Deferrers \ {h} : Waiting(m) => Waiting(m)'
  <2>1. ASSUME NEW m \in Deferrers \ {h}, Contains(posted, m)
        PROVE  Contains(posted', m)
    <3>1. PICK i \in 1 .. Len(posted) : posted[i] = m
      BY <2>1 DEF Contains
    <3>2. i - 1 \in 1 .. Len(posted') /\ posted'[i - 1] = m
      BY <3>1, <2>1, <1>2, <1>3, <1>4
    <3> QED
      BY <3>2 DEF Contains
  <2> QED
    BY <2>1, <1>1 DEF Waiting
<1>8. CASE h \in expected
  <2> DEFINE late == <<"timeout", h>>
             unref == <<"unref", h>>
  <2>1. calls' = <<late, unref>>
    BY <1>3, <1>8 DEF HandleTimeout, IsExpected
  <2>2. late \in Frames /\ unref \in Frames
    BY FrameMakes
  <2>3. /\ calls' \in Seq(Frames)
        /\ Len(calls') = 2
        /\ calls'[1] = late
        /\ calls'[2] = unref
    BY <2>1, <2>2, TwoIsSeq
  <2>4. late \in NestedIn(h)
    BY <2>2 DEF NestedIn, Outermost, Late
  <2>5. \A m \in Deferrers : \A i \in 1 .. Len(calls') :
          calls'[i] = <<"unref", m>> => m = h /\ i = 2
    BY <2>3
  <2>6. Nested'
    BY <2>3, <2>4, <2>5 DEF Nested
  <2>7. Ending(h)'
    BY <2>3 DEF Ending
  <2>8. Ended'
    BY <2>5, <2>7 DEF Ended, Contains
  <2>9. Timed'
    BY <1>1, <1>6, <1>7, <2>7, IdleWaits DEF Timed
  <2> QED
    BY <1>5, <1>6, <2>3, <2>6, <2>8, <2>9 DEF Sound
<1>9. CASE h \notin expected
  <2>1. calls' = <<>>
    BY <1>3, <1>9 DEF HandleTimeout, IsExpected
  <2>2. ~ Contains(chain, h)
    BY <1>1, <1>9, IdleWaits DEF Waiting
  <2>3. calls' \in Seq(Frames) /\ Nested' /\ Ended'
    BY <2>1 DEF Nested, Ended, Contains
  <2>4. Timed'
    BY <1>1, <1>6, <1>7, <2>2, IdleWaits DEF Timed
  <2> QED
    BY <1>5, <1>6, <2>3, <2>4 DEF Sound
<1> QED
  BY <1>8, <1>9

LEMMA ExpireStep ==
  ASSUME Sound, NEW d \in Deferrers, Expire(d), ~ failed'
  PROVE  Sound'
<1>1. /\ running' = running \ {d}
      /\ posted' = IF Contains(posted, d) THEN posted ELSE Append(posted, d)
      /\ UNCHANGED <<mapVars, slot, deferVars, expected, calls, queueVars>>
  BY DEF Expire
<1>2. posted \in Seq(Deferrers)
  BY DEF Sound, Fields
<1>3. /\ posted' \in Seq(Deferrers)
      /\ Contains(posted', d)
      /\ \A m : Contains(posted, m) => Contains(posted', m)
  <2>1. CASE Contains(posted, d)
    BY <2>1, <1>1, <1>2
  <2>2. CASE ~ Contains(posted, d)
    <3>1. /\ posted' \in Seq(Deferrers)
          /\ Len(posted') = Len(posted) + 1
          /\ \A i \in 1 .. Len(posted) : posted'[i] = posted[i]
          /\ posted'[Len(posted) + 1] = d
          /\ Len(posted) \in Nat
      BY <2>2, <1>1, <1>2, AppendProperties
    <3> QED
      BY <3>1 DEF Contains
  <2> QED
    BY <2>1, <2>2
<1>4. Fields'
  BY <1>1, <1>3 DEF Sound, Fields, mapVars, queueVars
<1>5. \A m \in Deferrers : Waiting(m) => Waiting(m)'
  BY <1>1, <1>3 DEF Waiting
<1>6. /\ chain' \in Seq(Deferrers) /\ calls' \in Seq(Frames)
      /\ Mode' /\ Once' /\ Nested' /\ Ended'
  BY <1>1 DEF Sound, Mode, Once, Nested, Ended, Ending, Contains, deferVars
<1>7. Timed'
  <2>1. \A m \in Deferrers : Contains(chain', m) = Contains(chain, m)
        /\ Ending(m)' = Ending(m)
    BY <1>1 DEF Contains, Ending, deferVars
  <2> QED
    BY <1>5, <2>1 DEF Sound, Timed
<1> QED
  BY <1>4, <1>6, <1>7 DEF Sound

LEMMA KeyStep ==
  ASSUME Sound, NEW s \in Slots, KeyPress(s) \/ KeyRelease(s), ~ failed'
  PROVE  Sound'
<1>1. /\ UNCHANGED <<mapVars, slot, deferVars, timerVars, calls, peeked>>
      /\ \E e \in Event : events' = Append(events, e)
  BY DEF KeyPress, KeyRelease, Event
<1>2. events' \in Seq(Event) /\ peeked' \in 0 .. Len(events')
  <2>1. events \in Seq(Event) /\ peeked \in 0 .. Len(events)
    BY DEF Sound, Fields
  <2>2. events' \in Seq(Event) /\ Len(events') = Len(events) + 1
    BY <1>1, <2>1, AppendProperties
  <2> QED
    BY <1>1, <2>1, <2>2
<1>3. Fields'
  BY <1>1, <1>2 DEF Sound, Fields, mapVars, timerVars
<1>4. /\ chain' \in Seq(Deferrers) /\ calls' \in Seq(Frames)
      /\ Mode' /\ Once' /\ Nested' /\ Ended'
  BY <1>1 DEF Sound, Mode, Once, Nested, Ended, Ending, Contains, deferVars
<1>5. Timed'
  <2>1. \A m \in Deferrers : /\ Contains(chain', m) = Contains(chain, m)
                             /\ Ending(m)' = Ending(m)
                             /\ Waiting(m)' = Waiting(m)
    BY <1>1 DEF Contains, Ending, Waiting, deferVars, timerVars
  <2> QED
    BY <2>1 DEF Sound, Timed
<1> QED
  BY <1>3, <1>4, <1>5 DEF Sound

-----------------------------------------------------------------------------

LEMMA KeymapInit == Init => KeymapInv
<1> SUFFICES ASSUME Init PROVE Sound
  BY DEF KeymapInv
<1>1. chain = <<>> /\ calls = <<>> /\ peeking = FALSE
  BY DEF Init
<1>2. Fields
  <2>1. /\ chosen \in [Of("TapHold") -> Maps \cup {NoMap}]
        /\ \A m \in Of("TapHold") : chosen[m] \in Below(m) \cup {NoMap}
        /\ step \in [Of("TapSeq") -> Nat]
    BY DEF Init
  <2>2. mySlot \in [Deferrers -> Spots] /\ slot \in Spots
    BY DEF Init, Spots
  <2>3. /\ expected \subseteq Deferrers /\ running \subseteq Deferrers
        /\ posted \in Seq(Deferrers) /\ events \in Seq(Event)
    BY DEF Init
  <2>4. Len(events) = 0 /\ peeked = 0
    BY DEF Init
  <2> QED
    BY <2>1, <2>2, <2>3, <2>4 DEF Fields
<1>3. chain \in Seq(Deferrers) /\ calls \in Seq(Frames) /\ Mode
  <2>1. Mode
    BY <1>1 DEF Mode
  <2>2. chain \in Seq(Deferrers)
    BY <1>1
  <2>3. calls \in Seq(Frames)
    BY <1>1
  <2> QED
    BY <2>1, <2>2, <2>3
<1>4. Once /\ Timed /\ Nested /\ Ended
  BY <1>1 DEF Once, Timed, Nested, Ended, Contains
<1> QED
  BY <1>2, <1>3, <1>4 DEF Sound

LEMMA KeymapStep == KeymapInv /\ [Next]_vars => KeymapInv'
<1> SUFFICES ASSUME KeymapInv, [Next]_vars, ~ failed' PROVE Sound'
  BY DEF KeymapInv
<1>1. CASE UNCHANGED vars
  <2>1. ~ failed /\ Sound
    BY <1>1 DEF vars, KeymapInv
  <2>2. UNCHANGED <<chosen, step, mySlot, slot, timerVars, queueVars, chain,
                    peeking, calls>>
    BY <1>1 DEF vars, mapVars, deferVars
  <2>3. Fields'
    BY <2>1, <2>2, QuietFields DEF Sound
  <2> QED
    BY <2>1, <2>2, <2>3
       DEF Sound, Mode, Once, Timed, Nested, Ended, Waiting, Ending, Contains,
           timerVars
<1>2. CASE Next
  <2>1. ~ failed /\ Sound
    BY <1>2 DEF Next, JustCounts, PseudoPress, LitSends, OneShotTaps,
       ModIfPress, ModIfRelease, TapHoldPress, HelpDecide, Decided,
       TapHoldRelease, LetGo, Forget, TapHoldTimeout, TapSeqPress, TapSeqTaps,
       Finish, TapSeqLetsOff, TapSeqRelease, TapDanceTimeout, Danced, AllTold,
       TapHoldTold, TapDanceTold, HandleKeyEvent, RemoveLast, HandleTimeout,
       Unref, Expire, KeyPress, KeyRelease, Pressing, Releasing, Telling,
       Doing, Idle, KeymapInv
  <2>2. CASE JustCounts \/ PseudoPress \/ LitSends \/ OneShotTaps \/ ModIfPress
               \/ ModIfRelease
    <3>1. Doing("press") \/ Doing("release")
      BY <2>2 DEF JustCounts, PseudoPress, LitSends, OneShotTaps, ModIfPress,
                  ModIfRelease, Pressing, Releasing
    <3> QED
      BY <2>1, <2>2, <3>1, PlainStep
  <2>3. CASE TapHoldPress
    BY <2>1, <2>3, TapHoldPressStep
  <2>4. CASE HelpDecide
    BY <2>1, <2>4, HelpDecideStep
  <2>5. CASE Decided \/ Forget
    BY <2>1, <2>5, ChosenStep
  <2>6. CASE TapHoldRelease
    BY <2>1, <2>6, TapHoldReleaseStep
  <2>7. CASE LetGo
    BY <2>1, <2>7, LetGoStep
  <2>8. CASE TapHoldTimeout
    BY <2>1, <2>8, TapHoldTimeoutStep
  <2>9. CASE TapSeqPress
    BY <2>1, <2>9, TapSeqPressStep
  <2>10. CASE TapSeqTaps
    BY <2>1, <2>10, TapSeqTapsStep
  <2>11. CASE Finish
    BY <2>1, <2>11, FinishStep
  <2>12. CASE TapSeqLetsOff
    BY <2>1, <2>12, TapSeqLetsOffStep
  <2>13. CASE TapSeqRelease
    BY <2>1, <2>13, TapSeqReleaseStep
  <2>14. CASE TapDanceTimeout
    BY <2>1, <2>14, TapDanceTimeoutStep
  <2>15. CASE Danced
    BY <2>1, <2>15, DancedStep
  <2>16. CASE AllTold
    BY <2>1, <2>16, AllToldStep
  <2>17. CASE TapHoldTold
    BY <2>1, <2>17, TapHoldToldStep
  <2>18. CASE TapDanceTold
    BY <2>1, <2>18, TapDanceToldStep
  <2>19. CASE HandleKeyEvent
    BY <2>1, <2>19, HandleKeyEventStep
  <2>20. CASE RemoveLast
    BY <2>1, <2>20, RemoveLastStep
  <2>21. CASE HandleTimeout
    BY <2>1, <2>21, HandleTimeoutStep
  <2>22. CASE Unref
    BY <2>1, <2>22, UnrefStep
  <2>23. CASE \E m \in Deferrers : Expire(m)
    BY <2>1, <2>23, ExpireStep
  <2>24. CASE \E s \in Slots : KeyPress(s) \/ KeyRelease(s)
    BY <2>1, <2>24, KeyStep
  <2> QED
    BY <1>2, <2>2, <2>3, <2>4, <2>5, <2>6, <2>7, <2>8, <2>9, <2>10, <2>11,
       <2>12, <2>13, <2>14, <2>15, <2>16, <2>17, <2>18, <2>19, <2>20, <2>21,
       <2>22, <2>23, <2>24 DEF Next
<1> QED
  BY <1>1, <1>2

LEMMA KeymapHolds == Spec => []KeymapInv
<1> QED
  BY KeymapInit, KeymapStep, PTL DEF Spec

(* For any keymaps, nested in any way, and any keys and timeouts: between  *)
(* two events, defer mode is on exactly while there are deferrers, and     *)
(* each of them has a timer set or its timeout posted, with its callback,  *)
(* unless an assertion has stopped the keyboard.                           *)
THEOREM DeferrersWaitInvariant == Spec => []DeferrersWait
<1>1. KeymapInv => DeferrersWait
  <2> SUFFICES ASSUME KeymapInv, Idle PROVE
        /\ peeking = (chain # <<>>)
        /\ \A m \in Deferrers : Contains(chain, m) => Waiting(m)
    BY DEF DeferrersWait, Waiting
  <2>1. Sound
    BY DEF KeymapInv, Idle
  <2> QED
    BY <2>1, IdleWaits DEF Sound, Mode
<1> QED
  BY <1>1, KeymapHolds, PTL

-----------------------------------------------------------------------------
(* The balance of presses and releases.                                    *)

(* How often elements of X stand in s.                                     *)
Occurs(s, X) == Cardinality({i \in 1 .. Len(s) : s[i] \in X})

(* A condition as a number.                                                *)
Bit(b) == IF b THEN 1 ELSE 0

(* It is a number.                                                         *)
LEMMA OccursIsFinite ==
  ASSUME NEW S, NEW s \in Seq(S), NEW X
  PROVE  /\ IsFiniteSet({i \in 1 .. Len(s) : s[i] \in X})
         /\ Occurs(s, X) \in Nat
<1>1. Len(s) \in Nat
  OBVIOUS
<1>2. IsFiniteSet(1 .. Len(s))
  BY <1>1, FS_Interval
<1>3. {i \in 1 .. Len(s) : s[i] \in X} \in SUBSET (1 .. Len(s))
  OBVIOUS
<1>4. IsFiniteSet({i \in 1 .. Len(s) : s[i] \in X})
  BY <1>2, <1>3, FS_Subset
<1> QED
  BY <1>4, FS_CardinalityType DEF Occurs

(* Lemmas about how often elements of a set stand in a sequence.           *)
LEMMA OccursInConcat ==
  ASSUME NEW S, NEW s \in Seq(S), NEW t \in Seq(S), NEW X
  PROVE  Occurs(s \o t, X) = Occurs(s, X) + Occurs(t, X)
<1> DEFINE A == {i \in 1 .. Len(s) : s[i] \in X}
           B == {i \in 1 .. Len(t) : t[i] \in X}
           C == {i \in 1 .. Len(s \o t) : (s \o t)[i] \in X}
           D == {i \in Len(s) + 1 .. Len(s) + Len(t) : t[i - Len(s)] \in X}
           shift == [i \in B |-> i + Len(s)]
<1>1. /\ Len(s) \in Nat /\ Len(t) \in Nat
      /\ Len(s \o t) = Len(s) + Len(t)
      /\ \A i \in 1 .. Len(s) + Len(t) :
           (s \o t)[i] = IF i <= Len(s) THEN s[i] ELSE t[i - Len(s)]
  BY ConcatProperties
<1>2. IsFiniteSet(A) /\ IsFiniteSet(B)
  BY OccursIsFinite
<1>3. C = A \cup D /\ A \cap D = {}
  BY <1>1
<1>4. shift \in Bijection(B, D)
  <2>1. shift \in [B -> D]
    BY <1>1
  <2>2. IsInjective(shift)
    BY <1>1 DEF IsInjective
  <2>3. ASSUME NEW d \in D PROVE \E b \in B : shift[b] = d
    <3>1. d - Len(s) \in B /\ shift[d - Len(s)] = d
      BY <1>1
    <3> QED
      BY <3>1
  <2> QED
    BY <2>1, <2>2, <2>3 DEF Bijection, Injection, Surjection
<1>5. IsFiniteSet(D) /\ Cardinality(D) = Cardinality(B)
  BY <1>2, <1>4, FS_Bijection DEF ExistsBijection
<1>6. Cardinality(A \cup D) = Cardinality(A) + Cardinality(D)
                                - Cardinality(A \cap D)
  BY <1>2, <1>5, FS_Union
<1>7. Cardinality(A \cap D) = 0
  BY <1>3, FS_EmptySet
<1>8. Cardinality(A) \in Nat /\ Cardinality(B) \in Nat
  BY <1>2, FS_CardinalityType
<1> HIDE DEF A, B, C, D, shift
<1>9. Cardinality(C) = Cardinality(A) + Cardinality(B)
  BY <1>3, <1>5, <1>6, <1>7, <1>8
<1> QED
  BY <1>9 DEF Occurs, A, B, C

LEMMA OccursInNone ==
  ASSUME NEW X
  PROVE  Occurs(<<>>, X) = 0
<1>1. {i \in 1 .. Len(<<>>) : <<>>[i] \in X} = {}
  OBVIOUS
<1> QED
  BY <1>1, FS_EmptySet DEF Occurs

LEMMA OccursInOne ==
  ASSUME NEW x, NEW X
  PROVE  Occurs(<<x>>, X) = Bit(x \in X)
<1> DEFINE A == {i \in 1 .. Len(<<x>>) : <<x>>[i] \in X}
<1>1. CASE x \in X
  <2>1. A = {1}
    BY <1>1
  <2> QED
    BY <1>1, <2>1, FS_Singleton DEF Occurs, Bit
<1>2. CASE x \notin X
  <2>1. A = {}
    BY <1>2
  <2> QED
    BY <1>2, <2>1, FS_EmptySet DEF Occurs, Bit
<1> QED
  BY <1>1, <1>2

LEMMA OccursInTwo ==
  ASSUME NEW S, NEW x \in S, NEW y \in S, NEW X
  PROVE  Occurs(<<x, y>>, X) = Bit(x \in X) + Bit(y \in X)
<1>1. <<x>> \in Seq(S) /\ <<y>> \in Seq(S)
  BY OneIsSeq
<1>2. <<x, y>> = <<x>> \o <<y>>
  <2> DEFINE two == <<x, y>>
             one == <<x>> \o <<y>>
  <2>1. /\ one \in Seq(S)
        /\ Len(one) = Len(<<x>>) + Len(<<y>>)
        /\ \A i \in 1 .. Len(<<x>>) + Len(<<y>>) : one[i] =
             IF i <= Len(<<x>>) THEN <<x>>[i] ELSE <<y>>[i - Len(<<x>>)]
    BY <1>1, ConcatProperties
  <2>2. two \in Seq(S) /\ Len(two) = 2 /\ two[1] = x /\ two[2] = y
    BY TwoIsSeq
  <2> HIDE DEF two, one
  <2>3. Len(<<x>>) = 1 /\ <<x>>[1] = x /\ Len(<<y>>) = 1 /\ <<y>>[1] = y
    OBVIOUS
  <2>4. Len(one) = 2 /\ one[1] = x /\ one[2] = y
    BY <2>1, <2>3
  <2>5. \A i \in 1 .. Len(two) : two[i] = one[i]
    BY <2>2, <2>4
  <2>6. two = one
    BY <2>1, <2>2, <2>4, <2>5, SeqEqual
  <2> QED
    BY <2>6, Zenon DEF two, one
<1>3. Occurs(<<x>> \o <<y>>, X) = Occurs(<<x>>, X) + Occurs(<<y>>, X)
  BY <1>1, OccursInConcat
<1>4. Occurs(<<x>>, X) = Bit(x \in X) /\ Occurs(<<y>>, X) = Bit(y \in X)
  BY OccursInOne
<1> QED
  BY <1>2, <1>3, <1>4

(* Sets that say the same of the elements of s.                            *)
LEMMA OccursAlike ==
  ASSUME NEW S, NEW s \in Seq(S), NEW X, NEW Y,
         \A i \in 1 .. Len(s) : s[i] \in X <=> s[i] \in Y
  PROVE  Occurs(s, X) = Occurs(s, Y)
<1>1. {i \in 1 .. Len(s) : s[i] \in X} = {i \in 1 .. Len(s) : s[i] \in Y}
  OBVIOUS
<1> QED
  BY <1>1 DEF Occurs

LEMMA OccursInTail ==
  ASSUME NEW S, NEW s \in Seq(S), s # <<>>, NEW X
  PROVE  Occurs(s, X) = Bit(Head(s) \in X) + Occurs(Tail(s), X)
<1>1. Head(s) \in S /\ Tail(s) \in Seq(S) /\ s = <<Head(s)>> \o Tail(s)
  <2>1. /\ Head(s) \in S /\ Tail(s) \in Seq(S) /\ Len(Tail(s)) = Len(s) - 1
        /\ \A i \in 1 .. Len(Tail(s)) : Tail(s)[i] = s[i + 1]
    BY HeadTailProperties
  <2>2. <<Head(s)>> \in Seq(S) /\ Len(<<Head(s)>>) = 1
        /\ <<Head(s)>>[1] = Head(s) /\ Head(s) = s[1]
        /\ Len(s) \in Nat \ {0}
    BY <2>1, OneIsSeq, EmptySeq
  <2>3. /\ <<Head(s)>> \o Tail(s) \in Seq(S)
        /\ Len(<<Head(s)>> \o Tail(s)) = 1 + Len(Tail(s))
        /\ \A i \in 1 .. 1 + Len(Tail(s)) : (<<Head(s)>> \o Tail(s))[i] =
             IF i <= 1 THEN <<Head(s)>>[i] ELSE Tail(s)[i - 1]
    BY <2>1, <2>2, ConcatProperties
  <2>4. \A i \in 1 .. Len(s) : s[i] = (<<Head(s)>> \o Tail(s))[i]
    BY <2>1, <2>2, <2>3
  <2>5. Len(s) = Len(<<Head(s)>> \o Tail(s))
    BY <2>1, <2>2, <2>3
  <2> QED
    BY <2>1, <2>3, <2>4, <2>5, SeqEqual
<1>2. <<Head(s)>> \in Seq(S)
  BY <1>1, OneIsSeq
<1>3. Occurs(<<Head(s)>> \o Tail(s), X)
        = Occurs(<<Head(s)>>, X) + Occurs(Tail(s), X)
  BY <1>1, <1>2, OccursInConcat
<1>4. Occurs(<<Head(s)>>, X) = Bit(Head(s) \in X)
  BY OccursInOne
<1> QED
  BY <1>1, <1>3, <1>4

LEMMA OccursInAppend ==
  ASSUME NEW S, NEW s \in Seq(S), NEW x \in S, NEW X
  PROVE  Occurs(Append(s, x), X) = Occurs(s, X) + Bit(x \in X)
<1>1. <<x>> \in Seq(S) /\ Append(s, x) = s \o <<x>>
  BY OneIsSeq, AppendIsConcat
<1>2. Occurs(s \o <<x>>, X) = Occurs(s, X) + Occurs(<<x>>, X)
  BY <1>1, OccursInConcat
<1>3. Occurs(<<x>>, X) = Bit(x \in X)
  BY OccursInOne
<1> QED
  BY <1>1, <1>2, <1>3

LEMMA OccursInRemoveAt ==
  ASSUME NEW S, NEW s \in Seq(S), NEW n \in 1 .. Len(s), NEW X
  PROVE  Occurs(RemoveAt(s, n), X) = Occurs(s, X) - Bit(s[n] \in X)
<1> DEFINE before == SubSeq(s, 1, n - 1)
           after == SubSeq(s, n + 1, Len(s))
           upto == SubSeq(s, 1, n)
<1>1. Len(s) \in Nat /\ \A i \in 1 .. Len(s) : s[i] \in S
  BY ElementOfSeq
<1>2. before \in Seq(S) /\ after \in Seq(S) /\ upto \in Seq(S)
  <2>1. \A i \in 1 .. n - 1 : s[i] \in S
    BY <1>1
  <2>2. \A i \in n + 1 .. Len(s) : s[i] \in S
    BY <1>1
  <2>3. \A i \in 1 .. n : s[i] \in S
    BY <1>1
  <2>4. n \in Int /\ n - 1 \in Int /\ n + 1 \in Int /\ 1 \in Int
        /\ Len(s) \in Int
    BY <1>1
  <2>5. before \in Seq(S)
    BY <2>1, <2>4, SubSeqProperties
  <2>6. after \in Seq(S)
    BY <2>2, <2>4, SubSeqProperties
  <2>7. upto \in Seq(S)
    BY <2>3, <2>4, SubSeqProperties
  <2> QED
    BY <2>5, <2>6, <2>7
<1>3. upto = before \o <<s[n]>>
  <2>1. 1 \in 1 .. Len(s) /\ n \in 1 .. Len(s)
    BY <1>1
  <2> QED
    BY <2>1, SubSeqRecursiveSecond
<1>4. s = upto \o after
  <2>1. /\ 1 \in 1 .. Len(s) + 1
        /\ n \in 1 - 1 .. Len(s)
        /\ Len(s) \in n .. Len(s)
    BY <1>1
  <2>2. upto \o after = SubSeq(s, 1, Len(s))
    BY <2>1, ConcatAdjacentSubSeq
  <2> QED
    BY <2>2, SubSeqFull
<1>5. RemoveAt(s, n) = before \o after
  BY DEF RemoveAt
<1> HIDE DEF before, after, upto
<1>6. s[n] \in S /\ <<s[n]>> \in Seq(S)
  BY <1>1, OneIsSeq
<1>7. Occurs(s, X) = Occurs(upto, X) + Occurs(after, X)
  BY <1>2, <1>4, OccursInConcat
<1>8. Occurs(upto, X) = Occurs(before, X) + Bit(s[n] \in X)
  <2>1. Occurs(before \o <<s[n]>>, X) = Occurs(before, X) + Occurs(<<s[n]>>, X)
    BY <1>2, <1>6, OccursInConcat
  <2>2. Occurs(<<s[n]>>, X) = Bit(s[n] \in X)
    BY OccursInOne
  <2> QED
    BY <1>3, <2>1, <2>2
<1>9. Occurs(RemoveAt(s, n), X) = Occurs(before, X) + Occurs(after, X)
  BY <1>2, <1>5, OccursInConcat
<1>10. Occurs(before, X) \in Nat /\ Occurs(after, X) \in Nat
  BY <1>2, OccursIsFinite
<1> QED
  BY <1>7, <1>8, <1>9, <1>10 DEF Bit

(* A set that changes at one element only.                                 *)
LEMMA CountOfOne ==
  ASSUME NEW A, NEW B, IsFiniteSet(A), NEW x, A \ {x} = B \ {x}
  PROVE  /\ IsFiniteSet(B)
         /\ Cardinality(A) \in Nat
         /\ Cardinality(B) = Cardinality(A) - Bit(x \in A) + Bit(x \in B)
<1>1. /\ IsFiniteSet(A \ {x})
      /\ Cardinality(A \ {x}) =
           IF x \in A THEN Cardinality(A) - 1 ELSE Cardinality(A)
  BY FS_RemoveElement
<1>2. Cardinality(A) \in Nat
  BY FS_CardinalityType
<1>3. CASE x \in B
  <2>1. B = (A \ {x}) \cup {x} /\ x \notin A \ {x}
    BY <1>3
  <2>2. IsFiniteSet(B) /\ Cardinality(B) = Cardinality(A \ {x}) + 1
    BY <1>1, <2>1, FS_AddElement
  <2> QED
    BY <1>1, <1>2, <1>3, <2>2 DEF Bit
<1>4. CASE x \notin B
  <2>1. B = A \ {x}
    BY <1>4
  <2> QED
    BY <1>1, <1>2, <1>4, <2>1 DEF Bit
<1> QED
  BY <1>3, <1>4

-----------------------------------------------------------------------------
(* What is pressed and not released.                                       *)

(* The calls a deferrer leaves on the stack for itself.                    *)
Own == {"decided", "forget", "let go", "tap", "finish", "danced"}
(* The calls that are next when they are made.                             *)
First == {"timeout", "decide", "let off"}
(* What a deferrer does of its own above such a call.                      *)
Pairs == {<<"decide", "let go">>, <<"decided", "let go">>,
          <<"let off", "danced">>}

(* f may stand above g on the stack of calls.                              *)
Over(f, g) ==
  /\ f[1] \notin Outermost
  /\ g[1] \notin First
  /\ g[1] \in Own =>
       \/ f[2] \in Below(g[2])
       \/ f[2] = g[2] /\ <<f[1], g[1]>> \in Pairs

Stacked == \A i, j \in 1 .. Len(calls) : i < j => Over(calls[i], calls[j])

(* The event that is handled is the last that was peeked.                  *)
Handled ==
  \A i \in 1 .. Len(calls) :
    calls[i][1] \in {"other", "remove last"} =>
      /\ peeked >= 1
      /\ calls[i][1] = "other" => calls[i][3] = events[peeked]

Pressed(c) == {e \in Event : e.press /\ Table[e.slot] = c}
Released(c) == {e \in Event : ~ e.press /\ Table[e.slot] = c}

(* What the call f will add to the presses of c, or has added already of   *)
(* what is counted elsewhere.                                              *)
Raises(f, c) ==
  \/ f = Press(c)
  \/ f[1] = "forget" /\ chosen[f[2]] = c
  \/ f[1] \in {"tap", "danced"} /\ Tapped(f[2]) = c
  \/ f[1] = "remove last" /\ events[peeked] \in Released(c)

Lowers(f, c) ==
  \/ f = Release(c)
  \/ f[1] = "decided" /\ f[3] = c
  \/ f[1] = "let off" /\ Tapped(f[2]) = c
  \/ f[1] = "remove last" /\ events[peeked] \in Pressed(c)

Gains(c) == {f \in Frames : Raises(f, c)}
Dues(c) == {f \in Frames : Lowers(f, c)}

(* p has c pressed, and will release it.                                   *)
Keeps(p, c) ==
  \/ /\ Class[p] = "ModIf"
     /\ count[p] > 0
     /\ c = IF p \in modified THEN Modified(p) ELSE Original(p)
  \/ Class[p] = "TapHold" /\ chosen[p] = c
  \/ Class[p] = "TapSeq" /\ Tapped(p) = c

Keepers(c) == {p \in Maps : Keeps(p, c)}

(* The ModIfs that have released c, and will press it again.               *)
Undoers(c) == {p \in Maps : p \in modified /\ Undoes(p) /\ Modifier(p) = c}

Holders(c) == {s \in Slots : s \in down /\ Table[s] = c}

(* Every press of c is released once.                                      *)
Even(c) ==
  count[c] + Occurs(calls, Gains(c)) + Cardinality(Undoers(c))
           + Occurs(events, Pressed(c))
    = Occurs(calls, Dues(c)) + Cardinality(Keepers(c))
        + Cardinality(Holders(c)) + Occurs(events, Released(c))

Balance == \A c \in Maps : Even(c)

Counts ==
  /\ count \in [Maps -> Int]
  /\ modified \subseteq Of("ModIf")
  /\ finished \subseteq Of("TapSeq")
  /\ sent \subseteq Of("Lit")
  /\ down \subseteq Slots

(* A call of the kind k of m waits.                                        *)
On(k, m) == \E i \in 1 .. Len(calls) : calls[i][1] = k /\ calls[i][2] = m
Rest(k, m) == \E i \in 2 .. Len(calls) : calls[i][1] = k /\ calls[i][2] = m

(* A TapHold that has chosen, or will, is pressed or about to let go.      *)
Decision(m) ==
  /\ On("decided", m) => chosen[m] = NoMap
  /\ Contains(chain, m) => chosen[m] = NoMap /\ ~ On("decided", m)
  /\ On("forget", m) => chosen[m] # NoMap
  /\ chosen[m] # NoMap \/ Contains(chain, m) \/ On("decided", m) =>
       count[m] > 0 \/ On("let go", m) \/ On("forget", m)

(* So is a TapSeq that has begun, or its dance goes on.                    *)
Dance(m) ==
  /\ m \notin finished => Contains(chain, m)
  /\ step[m] > 0 => count[m] > 0 \/ m \notin finished \/ On("danced", m)
  /\ On("tap", m) \/ On("finish", m) => count[m] > 0

Decisions == \A m \in Of("TapHold") : Decision(m)
Dances == \A m \in Of("TapSeq") : Dance(m)
PressedOnly == \A m \in modified \cup sent : count[m] > 0

Tidy ==
  /\ Counts
  /\ Stacked
  /\ Handled
  /\ Balance
  /\ Decisions
  /\ Dances
  /\ PressedOnly

(* What waits before a call and after it.                                  *)
LEMMA CallsThatWait ==
  ASSUME calls \in Seq(Frames), calls # <<>>,
         NEW list \in Seq(Frames), Call(list)
  PROVE  /\ \A k, m : On(k, m) <=> (Top[1] = k /\ Self = m) \/ Rest(k, m)
         /\ \A k, m : On(k, m)' <=>
              \/ \E i \in 1 .. Len(list) : list[i][1] = k /\ list[i][2] = m
              \/ Rest(k, m)
<1>1. /\ Len(calls) \in Nat \ {0}
      /\ Len(list) \in Nat
      /\ Len(calls') = Len(list) + Len(calls) - 1
      /\ Top = calls[1]
      /\ \A i \in 1 .. Len(list) : calls'[i] = list[i]
      /\ \A i \in Len(list) + 1 .. Len(calls') :
           calls'[i] = calls[i - Len(list) + 1]
  BY CallProperties
<1>2. ASSUME NEW k, NEW m
      PROVE  On(k, m) <=> (Top[1] = k /\ Self = m) \/ Rest(k, m)
  BY <1>1 DEF On, Rest, Self
<1>3. ASSUME NEW k, NEW m, On(k, m)'
      PROVE  \/ \E i \in 1 .. Len(list) : list[i][1] = k /\ list[i][2] = m
             \/ Rest(k, m)
  <2>1. PICK i \in 1 .. Len(calls') : calls'[i][1] = k /\ calls'[i][2] = m
    BY <1>3 DEF On
  <2>2. CASE i <= Len(list)
    BY <2>1, <2>2, <1>1
  <2>3. CASE ~ (i <= Len(list))
    <3>1. /\ i \in Len(list) + 1 .. Len(calls')
          /\ i - Len(list) + 1 \in 2 .. Len(calls)
      BY <2>3, <1>1
    <3> QED
      BY <2>1, <3>1, <1>1 DEF Rest
  <2> QED
    BY <2>2, <2>3
<1>4. ASSUME NEW k, NEW m, NEW i \in 1 .. Len(list),
             list[i][1] = k, list[i][2] = m
      PROVE  On(k, m)'
  <2>1. i \in 1 .. Len(calls') /\ calls'[i] = list[i]
    BY <1>1
  <2> QED
    BY <1>4, <2>1 DEF On
<1>5. ASSUME NEW k, NEW m, Rest(k, m) PROVE On(k, m)'
  <2>1. PICK i \in 2 .. Len(calls) : calls[i][1] = k /\ calls[i][2] = m
    BY <1>5 DEF Rest
  <2>2. /\ i + Len(list) - 1 \in Len(list) + 1 .. Len(calls')
        /\ i + Len(list) - 1 \in 1 .. Len(calls')
        /\ (i + Len(list) - 1) - Len(list) + 1 = i
    BY <1>1
  <2>3. calls'[i + Len(list) - 1] = calls[i]
    BY <2>2, <1>1
  <2> QED
    BY <2>1, <2>2, <2>3 DEF On
<1> QED
  BY <1>2, <1>3, <1>4, <1>5

(* The calls of list may stand where the call on top did.                  *)
LEMMA StackedCall ==
  ASSUME calls \in Seq(Frames), calls # <<>>, Stacked,
         NEW list \in Seq(Frames), Call(list),
         \A g \in Frames : Over(Top, g) =>
           \A i \in 1 .. Len(list) : Over(list[i], g),
         Len(calls) = 1 \/ \A i \in 1 .. Len(list) : list[i][1] \notin Outermost,
         \A i, j \in 1 .. Len(list) : i < j => Over(list[i], list[j])
  PROVE  Stacked'
<1>1. /\ Len(calls) \in Nat \ {0}
      /\ Len(list) \in Nat
      /\ Len(calls') = Len(list) + Len(calls) - 1
      /\ Top = calls[1]
      /\ \A i \in 1 .. Len(list) : calls'[i] = list[i]
      /\ \A i \in Len(list) + 1 .. Len(calls') :
           calls'[i] = calls[i - Len(list) + 1]
      /\ \A i \in 1 .. Len(calls) : calls[i] \in Frames
  BY CallProperties, ElementOfSeq
<1> SUFFICES ASSUME NEW i \in 1 .. Len(calls'), NEW j \in 1 .. Len(calls'),
                    i < j
             PROVE  Over(calls'[i], calls'[j])
  BY DEF Stacked, Over, Outermost, First, Own, Below, Pairs
<1>2. CASE j <= Len(list)
  BY <1>1, <1>2
<1>3. CASE ~ (j <= Len(list))
  <2>1. /\ j \in Len(list) + 1 .. Len(calls')
        /\ j - Len(list) + 1 \in 2 .. Len(calls)
        /\ j - Len(list) + 1 \in 1 .. Len(calls)
        /\ 1 \in 1 .. Len(calls)
    BY <1>1, <1>3
  <2>2. calls'[j] = calls[j - Len(list) + 1] /\ calls'[j] \in Frames
    BY <1>1, <2>1
  <2>3. CASE i <= Len(list)
    <3>1. Over(Top, calls'[j])
      BY <1>1, <2>1, <2>2 DEF Stacked
    <3>2. calls'[i] = list[i] /\ i \in 1 .. Len(list)
      BY <1>1, <2>3
    <3> QED
      BY <2>2, <3>1, <3>2
  <2>4. CASE ~ (i <= Len(list))
    <3>1. /\ i \in Len(list) + 1 .. Len(calls')
          /\ i - Len(list) + 1 \in 1 .. Len(calls)
          /\ i - Len(list) + 1 < j - Len(list) + 1
      BY <1>1, <2>4
    <3> QED
      BY <1>1, <2>1, <2>2, <3>1 DEF Stacked
  <2> QED
    BY <2>3, <2>4
<1> QED
  BY <1>1, <1>2, <1>3

(* What a call says of the presses of c.                                   *)
LEMMA Effects ==
  ASSUME NEW f \in Frames, NEW c \in Maps
  PROVE  /\ f[1] = "press" => (Raises(f, c) <=> f[2] = c) /\ ~ Lowers(f, c)
         /\ f[1] = "release" => (Lowers(f, c) <=> f[2] = c) /\ ~ Raises(f, c)
         /\ f[1] \in {"timeout", "unref", "let go", "finish", "decide",
                      "other"} => ~ Raises(f, c) /\ ~ Lowers(f, c)
         /\ f[1] = "forget" =>
              (Raises(f, c) <=> chosen[f[2]] = c) /\ ~ Lowers(f, c)
         /\ f[1] \in {"tap", "danced"} =>
              (Raises(f, c) <=> Tapped(f[2]) = c) /\ ~ Lowers(f, c)
         /\ f[1] = "decided" => (Lowers(f, c) <=> f[3] = c) /\ ~ Raises(f, c)
         /\ f[1] = "let off" =>
              (Lowers(f, c) <=> Tapped(f[2]) = c) /\ ~ Raises(f, c)
         /\ f[1] = "remove last" =>
              /\ Raises(f, c) <=> events[peeked] \in Released(c)
              /\ Lowers(f, c) <=> events[peeked] \in Pressed(c)
<1>1. f[1] # "press" => f # Press(c)
  BY DEF Press
<1>2. f[1] # "release" => f # Release(c)
  BY DEF Release
<1>3. ASSUME f[1] \in {"press", "release"}
      PROVE  /\ f[1] = "press" => (f = Press(c) <=> f[2] = c)
             /\ f[1] = "release" => (f = Release(c) <=> f[2] = c)
  <2>1. f # <<"remove last">>
    <3>1. ASSUME f = <<"remove last">> PROVE f[1] = "remove last"
      BY <3>1, FirstOfOne
    <3> QED
      BY <3>1, <1>3
  <2>2. f \in {"press", "release"} \X Maps
    BY <1>3, <2>1 DEF Frames
  <2> QED
    BY <2>2 DEF Press, Release
<1>4. CASE f[1] \in {"press", "release"}
  BY <1>1, <1>2, <1>3, <1>4 DEF Raises, Lowers
<1>5. CASE f[1] \notin {"press", "release"}
  BY <1>1, <1>2, <1>5 DEF Raises, Lowers
<1> QED
  BY <1>4, <1>5

(* Of a press or a release, and of the calls of a deferrer.                *)
LEMMA KeyEffects ==
  ASSUME NEW f \in Frames, NEW c \in Maps
  PROVE  /\ f[1] = "press" => (Raises(f, c) <=> f[2] = c) /\ ~ Lowers(f, c)
         /\ f[1] = "release" => (Lowers(f, c) <=> f[2] = c) /\ ~ Raises(f, c)
BY Effects

LEMMA OwnEffects ==
  ASSUME NEW f \in Frames, NEW c \in Maps
  PROVE  /\ f[1] = "forget" =>
              (Raises(f, c) <=> chosen[f[2]] = c) /\ ~ Lowers(f, c)
         /\ f[1] \in {"tap", "danced"} =>
              (Raises(f, c) <=> Tapped(f[2]) = c) /\ ~ Lowers(f, c)
         /\ f[1] = "decided" => (Lowers(f, c) <=> f[3] = c) /\ ~ Raises(f, c)
         /\ f[1] = "let off" =>
              (Lowers(f, c) <=> Tapped(f[2]) = c) /\ ~ Raises(f, c)
BY Effects

(* No keymap was made before itself.                                       *)
LEMMA NotBelowItself ==
  ASSUME NEW m \in Maps
  PROVE  m \notin Below(m)
<1>1. Made[m] \in Nat
  BY KeymapAssumption
<1> QED
  BY <1>1 DEF Below

(* No call of its own waits for a keymap that is pressed or released, and  *)
(* no other for one that does something of its own.                        *)
LEMMA NothingWaits ==
  ASSUME Sound, Stacked, calls # <<>>, NEW k \in Own, NEW m \in Maps,
         Self = m, Rest(k, m)
  PROVE  <<Top[1], k>> \in Pairs
<1>1. PICK i \in 2 .. Len(calls) : calls[i][1] = k /\ calls[i][2] = m
  BY DEF Rest
<1>2. Len(calls) \in Nat \ {0} /\ Top = calls[1]
  BY EmptySeq DEF Sound, Top
<1>3. Over(Top, calls[i])
  <2>1. 1 \in 1 .. Len(calls) /\ i \in 1 .. Len(calls) /\ 1 < i
    BY <1>2
  <2> QED
    BY <1>2, <2>1 DEF Stacked
<1>4. m \notin Below(m)
  BY NotBelowItself
<1> QED
  BY <1>1, <1>3, <1>4 DEF Over, Self

(* The call on top, and those that wait.                                   *)
LEMMA TopAndRest ==
  ASSUME calls \in Seq(Frames), calls # <<>>
  PROVE  /\ Top \in Frames
         /\ Top = calls[1]
         /\ Len(calls) \in Nat \ {0}
         /\ Tail(calls) \in Seq(Frames)
         /\ \A i \in 1 .. Len(Tail(calls)) : Tail(calls)[i] \in Frames
         /\ Stacked => \A i \in 1 .. Len(Tail(calls)) :
              Over(Top, Tail(calls)[i])
<1>1. /\ Head(calls) \in Frames
      /\ Tail(calls) \in Seq(Frames)
      /\ Len(Tail(calls)) = Len(calls) - 1
      /\ \A i \in 1 .. Len(Tail(calls)) : Tail(calls)[i] = calls[i + 1]
  BY HeadTailProperties
<1>2. Len(calls) \in Nat \ {0} /\ Head(calls) = calls[1]
  BY EmptySeq
<1>3. ASSUME Stacked, NEW i \in 1 .. Len(Tail(calls))
      PROVE  Over(Top, Tail(calls)[i])
  <2>1. /\ 1 \in 1 .. Len(calls) /\ i + 1 \in 1 .. Len(calls) /\ 1 < i + 1
        /\ Tail(calls)[i] = calls[i + 1]
    BY <1>1, <1>2
  <2> QED
    BY <1>2, <1>3, <2>1 DEF Stacked, Top
<1> QED
  BY <1>1, <1>2, <1>3, ElementOfSeq DEF Top

(* No choice and no step of another keymap changes.                        *)
OnlySelf ==
  /\ UNCHANGED <<events, peeked>>
  /\ \A m \in Of("TapHold") : m # Self => chosen'[m] = chosen[m]
  /\ \A m \in Of("TapSeq") : m # Self => step'[m] = step[m]
  /\ Top[1] = "let off" => chosen' = chosen /\ step' = step

(* The rest of the stack says the same as before.                          *)
LEMMA Recount ==
  ASSUME Sound, Stacked, calls # <<>>, NEW c \in Maps,
         OnlySelf,
         NEW list \in Seq(Frames), Call(list)
  PROVE  /\ Occurs(calls', Gains(c)') =
              Occurs(list, Gains(c)') + Occurs(calls, Gains(c))
                - Bit(Raises(Top, c))
         /\ Occurs(calls', Dues(c)') =
              Occurs(list, Dues(c)') + Occurs(calls, Dues(c))
                - Bit(Lowers(Top, c))
<1>0. PICK rest : rest = Tail(calls)
  OBVIOUS
<1>1. /\ Top \in Frames /\ Top = Head(calls)
      /\ calls \in Seq(Frames)
      /\ rest \in Seq(Frames)
      /\ \A i \in 1 .. Len(rest) : rest[i] \in Frames /\ Over(Top, rest[i])
  BY <1>0, TopAndRest DEF Sound, Top
<1>2. ASSUME NEW g \in Frames, Over(Top, g)
      PROVE  /\ g \in Gains(c) <=> g \in Gains(c)'
             /\ g \in Dues(c) <=> g \in Dues(c)'
  <2>1. g[1] = "forget" => chosen'[g[2]] = chosen[g[2]]
    <3>1. SUFFICES ASSUME g[1] = "forget", g[2] = Self PROVE FALSE
      BY FrameKinds DEF OnlySelf
    <3>2. Self \in Maps
      BY <3>1, FrameKinds, DeferrersAreMaps
    <3> QED
      BY <3>1, <3>2, <1>2, NotBelowItself DEF Over, Own, Pairs, Self
  <2>2. g[1] \in {"tap", "danced"} => Tapped(g[2])' = Tapped(g[2])
    <3>1. CASE Top[1] = "let off"
      BY <3>1 DEF Tapped, OnlySelf
    <3>2. CASE Top[1] # "let off"
      <4>1. SUFFICES ASSUME g[1] \in {"tap", "danced"}, g[2] = Self PROVE FALSE
        BY FrameKinds DEF Tapped, OnlySelf
      <4>2. Self \in Maps
        BY <4>1, FrameKinds, DeferrersAreMaps
      <4> QED
        BY <3>2, <4>1, <4>2, <1>2, NotBelowItself DEF Over, Own, Pairs, Self
    <3> QED
      BY <3>1, <3>2
  <2>3. g[1] # "let off"
    BY <1>2 DEF Over, First
  <2>4. (g \in Gains(c))' <=> g \in Gains(c)
    BY <2>1, <2>2 DEF Gains, Raises, Released, OnlySelf
  <2>5. (g \in Dues(c))' <=> g \in Dues(c)
    BY <2>3 DEF Dues, Lowers, Pressed, OnlySelf
  <2> QED
    BY <2>4, <2>5
<1>3. ASSUME NEW i \in 1 .. Len(rest)
      PROVE  /\ rest[i] \in Gains(c) <=> rest[i] \in Gains(c)'
             /\ rest[i] \in Dues(c) <=> rest[i] \in Dues(c)'
  <2>1. PICK g \in Frames : g = rest[i]
    BY <1>1
  <2>2. Over(Top, g)
    BY <1>1, <2>1
  <2> QED
    BY <1>2, <2>1, <2>2
<1>4. /\ Occurs(rest, Gains(c)') = Occurs(rest, Gains(c))
      /\ Occurs(rest, Dues(c)') = Occurs(rest, Dues(c))
  <2>1. Occurs(rest, Gains(c)') = Occurs(rest, Gains(c))
    BY <1>1, <1>3, OccursAlike
  <2>2. Occurs(rest, Dues(c)') = Occurs(rest, Dues(c))
    BY <1>1, <1>3, OccursAlike
  <2> QED
    BY <2>1, <2>2
<1>5. /\ Occurs(calls, Gains(c)) =
           Bit(Raises(Top, c)) + Occurs(rest, Gains(c))
      /\ Occurs(calls, Dues(c)) =
           Bit(Lowers(Top, c)) + Occurs(rest, Dues(c))
  <2>1. /\ Occurs(calls, Gains(c)) =
             Bit(Top \in Gains(c)) + Occurs(rest, Gains(c))
        /\ Occurs(calls, Dues(c)) =
             Bit(Top \in Dues(c)) + Occurs(rest, Dues(c))
    BY <1>0, <1>1, OccursInTail
  <2>2. /\ Top \in Gains(c) <=> Raises(Top, c)
        /\ Top \in Dues(c) <=> Lowers(Top, c)
    BY <1>1 DEF Gains, Dues
  <2> QED
    BY <2>1, <2>2 DEF Bit
<1>6. /\ Occurs(list \o rest, Gains(c)') =
           Occurs(list, Gains(c)') + Occurs(rest, Gains(c)')
      /\ Occurs(list \o rest, Dues(c)') =
           Occurs(list, Dues(c)') + Occurs(rest, Dues(c)')
  BY <1>1, OccursInConcat
<1>7. calls' = list \o rest
  BY <1>0 DEF Call
<1>8. /\ Occurs(rest, Gains(c)) \in Nat
      /\ Occurs(rest, Dues(c)) \in Nat
      /\ Occurs(list, Gains(c)') \in Nat
      /\ Occurs(list, Dues(c)') \in Nat
  BY <1>1, OccursIsFinite
<1>9. /\ Occurs(calls', Gains(c)') =
           Occurs(list, Gains(c)') + Occurs(rest, Gains(c))
      /\ Occurs(calls', Dues(c)') =
           Occurs(list, Dues(c)') + Occurs(rest, Dues(c))
  BY <1>4, <1>6, <1>7
<1>10. Bit(Raises(Top, c)) \in Nat /\ Bit(Lowers(Top, c)) \in Nat
  BY DEF Bit
<1> QED
  BY <1>5, <1>8, <1>9, <1>10

(* There are finitely many keymaps and slots.                              *)
LEMMA FiniteSubsets ==
  /\ \A A : A \subseteq Maps => IsFiniteSet(A) /\ Cardinality(A) \in Nat
  /\ \A A : A \subseteq Slots => IsFiniteSet(A) /\ Cardinality(A) \in Nat
<1>1. IsFiniteSet(Maps)
  BY KeymapAssumption
<1>2. IsFiniteSet(Slots)
  <2>1. Slots = 1 .. Len(Table) /\ Len(Table) \in Int
    BY KeymapAssumption DEF Slots
  <2>2. 1 \in Int
    OBVIOUS
  <2> QED
    BY <2>1, <2>2, FS_Interval
<1>3. ASSUME NEW B, IsFiniteSet(B), NEW A, A \subseteq B
      PROVE  IsFiniteSet(A) /\ Cardinality(A) \in Nat
  BY <1>3, FS_Subset, FS_CardinalityType
<1> QED
  BY <1>1, <1>2, <1>3

LEMMA FiniteParts ==
  ASSUME NEW c \in Maps
  PROVE  /\ IsFiniteSet(Keepers(c)) /\ Cardinality(Keepers(c)) \in Nat
         /\ IsFiniteSet(Undoers(c)) /\ Cardinality(Undoers(c)) \in Nat
         /\ IsFiniteSet(Holders(c)) /\ Cardinality(Holders(c)) \in Nat
<1>1. /\ Keepers(c) \subseteq Maps
      /\ Undoers(c) \subseteq Maps
      /\ Holders(c) \subseteq Slots
  BY DEF Keepers, Undoers, Holders
<1> QED
  BY <1>1, FiniteSubsets

LEMMA FinitePartsNext ==
  ASSUME NEW c \in Maps
  PROVE  /\ Cardinality(Keepers(c)') \in Nat
         /\ Cardinality(Undoers(c)') \in Nat
         /\ Cardinality(Holders(c)') \in Nat
<1>1. /\ Keepers(c)' \subseteq Maps
      /\ Undoers(c)' \subseteq Maps
      /\ Holders(c)' \subseteq Slots
  BY DEF Keepers, Undoers, Holders
<1> QED
  BY <1>1, FiniteSubsets

(* The numbers of Even, for arithmetic.                                    *)
LEMMA EvenNumbers ==
  ASSUME Sound, Counts, NEW c \in Maps
  PROVE  \E n \in Int, g \in Nat, u \in Nat, p \in Nat, d \in Nat, k \in Nat,
            h \in Nat, r \in Nat :
           /\ count[c] = n
           /\ Occurs(calls, Gains(c)) = g
           /\ Cardinality(Undoers(c)) = u
           /\ Occurs(events, Pressed(c)) = p
           /\ Occurs(calls, Dues(c)) = d
           /\ Cardinality(Keepers(c)) = k
           /\ Cardinality(Holders(c)) = h
           /\ Occurs(events, Released(c)) = r
           /\ Even(c) <=> n + g + u + p = d + k + h + r
<1>1. PICK n \in Int : count[c] = n
  BY DEF Counts
<1>2. PICK g \in Nat : Occurs(calls, Gains(c)) = g
  BY OccursIsFinite DEF Sound
<1>3. PICK u \in Nat : Cardinality(Undoers(c)) = u
  BY FiniteParts
<1>4. PICK p \in Nat : Occurs(events, Pressed(c)) = p
  BY OccursIsFinite DEF Sound, Fields
<1>5. PICK d \in Nat : Occurs(calls, Dues(c)) = d
  BY OccursIsFinite DEF Sound
<1>6. PICK k \in Nat : Cardinality(Keepers(c)) = k
  BY FiniteParts
<1>7. PICK h \in Nat : Cardinality(Holders(c)) = h
  BY FiniteParts
<1>8. PICK r \in Nat : Occurs(events, Released(c)) = r
  BY OccursIsFinite DEF Sound, Fields
<1>9. Even(c) <=> n + g + u + p = d + k + h + r
  BY <1>1, <1>2, <1>3, <1>4, <1>5, <1>6, <1>7, <1>8 DEF Even
<1> QED
  BY <1>1, <1>2, <1>3, <1>4, <1>5, <1>6, <1>7, <1>8, <1>9

(* The same after a step.                                                  *)
LEMMA EvenNumbersNext ==
  ASSUME calls' \in Seq(Frames), events' \in Seq(Event), Counts',
         NEW c \in Maps
  PROVE  \E n \in Int, g \in Nat, u \in Nat, p \in Nat, d \in Nat, k \in Nat,
            h \in Nat, r \in Nat :
           /\ count'[c] = n
           /\ Occurs(calls', Gains(c)') = g
           /\ Cardinality(Undoers(c)') = u
           /\ Occurs(events', Pressed(c)') = p
           /\ Occurs(calls', Dues(c)') = d
           /\ Cardinality(Keepers(c)') = k
           /\ Cardinality(Holders(c)') = h
           /\ Occurs(events', Released(c)') = r
           /\ Even(c)' <=> n + g + u + p = d + k + h + r
<1>1. PICK n \in Int : count'[c] = n
  BY DEF Counts
<1>2. PICK g \in Nat : Occurs(calls', Gains(c)') = g
  BY OccursIsFinite
<1>3. PICK u \in Nat : Cardinality(Undoers(c)') = u
  BY FinitePartsNext
<1>4. PICK p \in Nat : Occurs(events', Pressed(c)') = p
  BY OccursIsFinite
<1>5. PICK d \in Nat : Occurs(calls', Dues(c)') = d
  BY OccursIsFinite
<1>6. PICK k \in Nat : Cardinality(Keepers(c)') = k
  BY FinitePartsNext
<1>7. PICK h \in Nat : Cardinality(Holders(c)') = h
  BY FinitePartsNext
<1>8. PICK r \in Nat : Occurs(events', Released(c)') = r
  BY OccursIsFinite
<1>9. Even(c)' <=>
        count'[c] + Occurs(calls', Gains(c)') + Cardinality(Undoers(c)')
                  + Occurs(events', Pressed(c)')
          = Occurs(calls', Dues(c)') + Cardinality(Keepers(c)')
              + Cardinality(Holders(c)') + Occurs(events', Released(c)')
  BY DEF Even, Occurs
<1>10. Even(c)' <=> n + g + u + p = d + k + h + r
  BY <1>1, <1>2, <1>3, <1>4, <1>5, <1>6, <1>7, <1>8, <1>9
<1> QED
  BY <1>1, <1>2, <1>3, <1>4, <1>5, <1>6, <1>7, <1>8, <1>10

(* A press that a call makes is released by another.                       *)
Fair(list) ==
  \A c \in Maps :
    count'[c] + Occurs(list, Gains(c)) + Bit(Lowers(Top, c))
      = count[c] + Occurs(list, Dues(c)) + Bit(Raises(Top, c))

ModIfsStay == \A m \in Of("ModIf") : count'[m] > 0 <=> count[m] > 0

(* A call that changes no keymap but for its count.                        *)
LEMMA EvenCall ==
  ASSUME Sound, Stacked, Balance, Counts, Counts', calls # <<>>,
         UNCHANGED <<chosen, step, modified, down, events, peeked>>,
         NEW list \in Seq(Frames), Call(list), ModIfsStay, Fair(list)
  PROVE  Balance'
<1> SUFFICES ASSUME NEW c \in Maps PROVE Even(c)'
  BY DEF Balance
<1>1. OnlySelf
  BY DEF OnlySelf
<1>2. /\ Gains(c)' = Gains(c)
      /\ Dues(c)' = Dues(c)
  BY DEF Gains, Dues, Raises, Lowers, Tapped
<1>3. /\ Keepers(c)' = Keepers(c)
      /\ Undoers(c)' = Undoers(c)
      /\ Holders(c)' = Holders(c)
  BY DEF Keepers, Undoers, Holders, Keeps, Tapped, Of, ModIfsStay
<1>4. /\ Occurs(calls', Gains(c)') =
           Occurs(list, Gains(c)) + Occurs(calls, Gains(c))
             - Bit(Raises(Top, c))
      /\ Occurs(calls', Dues(c)') =
           Occurs(list, Dues(c)) + Occurs(calls, Dues(c))
             - Bit(Lowers(Top, c))
  BY <1>1, <1>2, Recount
<1>5. /\ Occurs(list, Gains(c)) \in Nat /\ Occurs(list, Dues(c)) \in Nat
      /\ Bit(Raises(Top, c)) \in Nat /\ Bit(Lowers(Top, c)) \in Nat
  BY OccursIsFinite DEF Bit
<1>6. calls' \in Seq(Frames) /\ events' \in Seq(Event)
  BY CallProperties DEF Sound, Fields
<1>7. PICK n \in Int, g \in Nat, u \in Nat, p \in Nat, d \in Nat, k \in Nat,
           h \in Nat, r \in Nat :
        /\ count[c] = n
        /\ Occurs(calls, Gains(c)) = g
        /\ Cardinality(Undoers(c)) = u
        /\ Occurs(events, Pressed(c)) = p
        /\ Occurs(calls, Dues(c)) = d
        /\ Cardinality(Keepers(c)) = k
        /\ Cardinality(Holders(c)) = h
        /\ Occurs(events, Released(c)) = r
        /\ Even(c) <=> n + g + u + p = d + k + h + r
  BY EvenNumbers
<1>8. PICK n1 \in Int, g1 \in Nat, u1 \in Nat, p1 \in Nat, d1 \in Nat,
           k1 \in Nat, h1 \in Nat, r1 \in Nat :
        /\ count'[c] = n1
        /\ Occurs(calls', Gains(c)') = g1
        /\ Cardinality(Undoers(c)') = u1
        /\ Occurs(events', Pressed(c)') = p1
        /\ Occurs(calls', Dues(c)') = d1
        /\ Cardinality(Keepers(c)') = k1
        /\ Cardinality(Holders(c)') = h1
        /\ Occurs(events', Released(c)') = r1
        /\ Even(c)' <=> n1 + g1 + u1 + p1 = d1 + k1 + h1 + r1
  BY <1>6, EvenNumbersNext
<1>9. PICK lg \in Nat, ld \in Nat, tg \in Nat, td \in Nat :
        /\ Occurs(list, Gains(c)) = lg /\ Occurs(list, Dues(c)) = ld
        /\ Bit(Raises(Top, c)) = tg /\ Bit(Lowers(Top, c)) = td
  BY <1>5
<1>10. g1 = lg + g - tg /\ d1 = ld + d - td
  BY <1>4, <1>7, <1>8, <1>9
<1>11. n1 + lg + td = n + ld + tg
  BY <1>7, <1>8, <1>9 DEF Fair
<1>12. k1 = k /\ u1 = u /\ h1 = h /\ p1 = p /\ r1 = r
  BY <1>3, <1>7, <1>8 DEF Pressed, Released
<1>13. n + g + u + p = d + k + h + r
  BY <1>7 DEF Balance
<1>14. n1 + g1 + u1 + p1 = d1 + k1 + h1 + r1
  BY <1>10, <1>11, <1>12, <1>13
<1> QED
  BY <1>8, <1>14

(* What is the same of m when a call of another keymap is made.            *)
LEMMA OthersDecision ==
  ASSUME Sound, calls # <<>>, NEW list \in Seq(Frames), Call(list),
         NEW m \in Of("TapHold"), Decision(m),
         chosen'[m] = chosen[m], count[m] > 0 => count'[m] > 0,
         Contains(chain', m) => Contains(chain, m),
         Top[1] \in Own => Self # m,
         \A i \in 1 .. Len(list) : list[i][1] \in Own => list[i][2] # m
  PROVE  Decision(m)'
<1>1. \A k \in Own : On(k, m)' <=> On(k, m)
  BY CallsThatWait DEF Sound
<1>2. /\ On("decided", m)' <=> On("decided", m)
      /\ On("forget", m)' <=> On("forget", m)
      /\ On("let go", m)' <=> On("let go", m)
  BY <1>1 DEF Own
<1> QED
  BY <1>2 DEF Decision

LEMMA OthersDance ==
  ASSUME Sound, calls # <<>>, NEW list \in Seq(Frames), Call(list),
         NEW m \in Of("TapSeq"), Dance(m),
         step'[m] = step[m], count[m] > 0 => count'[m] > 0,
         m \in finished' <=> m \in finished,
         Contains(chain, m) => Contains(chain', m),
         Top[1] \in Own => Self # m,
         \A i \in 1 .. Len(list) : list[i][1] \in Own => list[i][2] # m
  PROVE  Dance(m)'
<1>1. \A k \in Own : On(k, m)' <=> On(k, m)
  BY CallsThatWait DEF Sound
<1>2. /\ On("danced", m)' <=> On("danced", m)
      /\ On("tap", m)' <=> On("tap", m)
      /\ On("finish", m)' <=> On("finish", m)
  BY <1>1 DEF Own
<1> QED
  BY <1>2 DEF Dance

-----------------------------------------------------------------------------
(* What a call does to the counts, and to what waits.                      *)

(* The count changes as the call on top says.                              *)
Paid ==
  \A c \in Maps :
    count'[c] + Bit(Lowers(Top, c)) = count[c] + Bit(Raises(Top, c))

CountsKept == \A m \in Maps : count[m] > 0 => count'[m] > 0

(* The first press of a keymap, and its last release.                      *)
LEMMA PressFacts ==
  ASSUME Sound, Counts, NEW class, Pressing(class)
  PROVE  /\ calls # <<>> /\ Top \in Frames /\ Top[1] = "press"
         /\ Self \in Of(class) /\ Self \in Maps
         /\ count' \in [Maps -> Int]
         /\ count[Self] = 0 /\ count'[Self] = 1
         /\ \A m \in Maps \ {Self} : count'[m] = count[m]
         /\ CountsKept
         /\ Paid
         /\ class # "ModIf" => ModIfsStay
<1>1. calls # <<>> /\ Top \in Frames /\ Top[1] = "press"
  BY TopCall DEF Pressing
<1>2. Self \in Of(class) /\ Self \in Maps
  BY <1>1, FrameKinds DEF Pressing, Self, Of
<1>3. /\ count' \in [Maps -> Int]
      /\ count[Self] = 0 /\ count'[Self] = 1
      /\ \A m \in Maps \ {Self} : count'[m] = count[m]
  <2>1. /\ count \in [Maps -> Int]
        /\ count' = [count EXCEPT ![Self] = count[Self] + 1]
        /\ count'[Self] = 1
    BY DEF Counts, Pressing
  <2>2. count[Self] \in Int /\ count'[Self] = count[Self] + 1
    BY <1>2, <2>1
  <2> QED
    BY <1>2, <2>1, <2>2
<1>4. CountsKept
  BY <1>3 DEF CountsKept
<1>5. Paid
  <2> SUFFICES ASSUME NEW c \in Maps
               PROVE  count'[c] + Bit(Lowers(Top, c))
                        = count[c] + Bit(Raises(Top, c))
    BY DEF Paid
  <2>1. (Raises(Top, c) <=> Self = c) /\ ~ Lowers(Top, c)
    BY <1>1, KeyEffects DEF Self
  <2>2. count[c] \in Int /\ count'[c] = IF c = Self THEN 1 ELSE count[c]
    BY <1>3 DEF Counts
  <2> QED
    BY <1>3, <2>1, <2>2 DEF Bit
<1>6. class # "ModIf" => ModIfsStay
  BY <1>2, <1>3 DEF ModIfsStay, Of
<1> QED
  BY <1>1, <1>2, <1>3, <1>4, <1>5, <1>6

LEMMA ReleaseFacts ==
  ASSUME Sound, Counts, NEW class, Releasing(class)
  PROVE  /\ calls # <<>> /\ Top \in Frames /\ Top[1] = "release"
         /\ Self \in Of(class) /\ Self \in Maps
         /\ count' \in [Maps -> Int]
         /\ count[Self] = 1 /\ count'[Self] = 0
         /\ \A m \in Maps \ {Self} : count'[m] = count[m]
         /\ Paid
         /\ class # "ModIf" => ModIfsStay
<1>1. calls # <<>> /\ Top \in Frames /\ Top[1] = "release"
  BY TopCall DEF Releasing
<1>2. Self \in Of(class) /\ Self \in Maps
  BY <1>1, FrameKinds DEF Releasing, Self, Of
<1>3. /\ count' \in [Maps -> Int]
      /\ count[Self] = 1 /\ count'[Self] = 0
      /\ \A m \in Maps \ {Self} : count'[m] = count[m]
  <2>1. /\ count \in [Maps -> Int]
        /\ count' = [count EXCEPT ![Self] = count[Self] - 1]
        /\ count'[Self] = 0
    BY DEF Counts, Releasing
  <2>2. count[Self] \in Int /\ count'[Self] = count[Self] - 1
    BY <1>2, <2>1
  <2> QED
    BY <1>2, <2>1, <2>2
<1>5. Paid
  <2> SUFFICES ASSUME NEW c \in Maps
               PROVE  count'[c] + Bit(Lowers(Top, c))
                        = count[c] + Bit(Raises(Top, c))
    BY DEF Paid
  <2>1. (Lowers(Top, c) <=> Self = c) /\ ~ Raises(Top, c)
    BY <1>1, KeyEffects DEF Self
  <2>2. count[c] \in Int /\ count'[c] = IF c = Self THEN 0 ELSE count[c]
    BY <1>3 DEF Counts
  <2> QED
    BY <1>3, <2>1, <2>2 DEF Bit
<1>6. class # "ModIf" => ModIfsStay
  BY <1>2, <1>3 DEF ModIfsStay, Of
<1> QED
  BY <1>1, <1>2, <1>3, <1>5, <1>6

(* Lists of calls that make up for what the call on top said.              *)
LEMMA FairNone ==
  ASSUME Counts, Counts', Paid
  PROVE  Fair(<<>>)
<1> SUFFICES ASSUME NEW c \in Maps
             PROVE  count'[c] + Occurs(<<>>, Gains(c)) + Bit(Lowers(Top, c))
                      = count[c] + Occurs(<<>>, Dues(c)) + Bit(Raises(Top, c))
  BY DEF Fair
<1>1. Occurs(<<>>, Gains(c)) = 0 /\ Occurs(<<>>, Dues(c)) = 0
  BY OccursInNone
<1>2. count[c] \in Int /\ count'[c] \in Int
  BY DEF Counts
<1> QED
  BY <1>1, <1>2 DEF Paid, Bit

LEMMA FairOne ==
  ASSUME Counts, Counts', NEW f \in Frames,
         \A c \in Maps :
           count'[c] + Bit(Raises(f, c)) + Bit(Lowers(Top, c))
             = count[c] + Bit(Lowers(f, c)) + Bit(Raises(Top, c))
  PROVE  Fair(<<f>>)
<1> SUFFICES ASSUME NEW c \in Maps
             PROVE  count'[c] + Occurs(<<f>>, Gains(c)) + Bit(Lowers(Top, c))
                      = count[c] + Occurs(<<f>>, Dues(c)) + Bit(Raises(Top, c))
  BY DEF Fair
<1>1. /\ Occurs(<<f>>, Gains(c)) = Bit(f \in Gains(c))
      /\ Occurs(<<f>>, Dues(c)) = Bit(f \in Dues(c))
  BY OccursInOne
<1>2. (f \in Gains(c) <=> Raises(f, c)) /\ (f \in Dues(c) <=> Lowers(f, c))
  BY DEF Gains, Dues
<1>3. /\ Occurs(<<f>>, Gains(c)) = Bit(Raises(f, c))
      /\ Occurs(<<f>>, Dues(c)) = Bit(Lowers(f, c))
  BY <1>1, <1>2 DEF Bit
<1> QED
  BY <1>3

LEMMA FairTwo ==
  ASSUME Counts, Counts', NEW f \in Frames, NEW g \in Frames,
         \A c \in Maps :
           count'[c] + (Bit(Raises(f, c)) + Bit(Raises(g, c)))
               + Bit(Lowers(Top, c))
             = count[c] + (Bit(Lowers(f, c)) + Bit(Lowers(g, c)))
                 + Bit(Raises(Top, c))
  PROVE  Fair(<<f, g>>)
<1> DEFINE list == <<f, g>>
<1> SUFFICES ASSUME NEW c \in Maps
             PROVE  count'[c] + Occurs(list, Gains(c)) + Bit(Lowers(Top, c))
                      = count[c] + Occurs(list, Dues(c)) + Bit(Raises(Top, c))
  BY DEF Fair
<1>1. /\ Occurs(list, Gains(c)) = Bit(f \in Gains(c)) + Bit(g \in Gains(c))
      /\ Occurs(list, Dues(c)) = Bit(f \in Dues(c)) + Bit(g \in Dues(c))
  BY OccursInTwo
<1>2. /\ (f \in Gains(c) <=> Raises(f, c)) /\ (f \in Dues(c) <=> Lowers(f, c))
      /\ (g \in Gains(c) <=> Raises(g, c)) /\ (g \in Dues(c) <=> Lowers(g, c))
  BY DEF Gains, Dues
<1> HIDE DEF list
<1>3. /\ Bit(f \in Gains(c)) = Bit(Raises(f, c))
      /\ Bit(f \in Dues(c)) = Bit(Lowers(f, c))
      /\ Bit(g \in Gains(c)) = Bit(Raises(g, c))
      /\ Bit(g \in Dues(c)) = Bit(Lowers(g, c))
  BY <1>2 DEF Bit
<1>4. /\ Occurs(list, Gains(c)) = Bit(Raises(f, c)) + Bit(Raises(g, c))
      /\ Occurs(list, Dues(c)) = Bit(Lowers(f, c)) + Bit(Lowers(g, c))
  BY <1>1, <1>3
<1> QED
  BY <1>4

(* Calls that cancel each other out.                                       *)
LEMMA FairPair ==
  ASSUME Counts, Counts', Paid, NEW f \in Frames, NEW g \in Frames,
         \A c \in Maps : /\ Raises(f, c) <=> Lowers(g, c)
                         /\ Lowers(f, c) <=> Raises(g, c)
  PROVE  Fair(<<f, g>>)
<1> SUFFICES ASSUME NEW c \in Maps
             PROVE  count'[c] + (Bit(Raises(f, c)) + Bit(Raises(g, c)))
                        + Bit(Lowers(Top, c))
                      = count[c] + (Bit(Lowers(f, c)) + Bit(Lowers(g, c)))
                          + Bit(Raises(Top, c))
  BY FairTwo
<1>1. count[c] \in Int /\ count'[c] \in Int
  BY DEF Counts
<1>2. count'[c] + Bit(Lowers(Top, c)) = count[c] + Bit(Raises(Top, c))
  BY DEF Paid
<1> QED
  BY <1>1, <1>2 DEF Bit

LEMMA FairNothing ==
  ASSUME Counts, Counts', Paid, NEW f \in Frames,
         \A c \in Maps : ~ Raises(f, c) /\ ~ Lowers(f, c)
  PROVE  Fair(<<f>>)
<1> SUFFICES ASSUME NEW c \in Maps
             PROVE  count'[c] + Bit(Raises(f, c)) + Bit(Lowers(Top, c))
                      = count[c] + Bit(Lowers(f, c)) + Bit(Raises(Top, c))
  BY FairOne
<1>1. count[c] \in Int /\ count'[c] \in Int
  BY DEF Counts
<1>2. count'[c] + Bit(Lowers(Top, c)) = count[c] + Bit(Raises(Top, c))
  BY DEF Paid
<1> QED
  BY <1>1, <1>2 DEF Bit

(* The calls that may stand where the call on top is.                      *)
Fits(f) ==
  \A g \in Frames : Over(Top, g) => Over(f, g)

Fitting(list) ==
  /\ \A i \in 1 .. Len(list) :
       /\ Fits(list[i])
       /\ list[i][1] \in Outermost => Top[1] \in Outermost
  /\ \A i, j \in 1 .. Len(list) : i < j => Over(list[i], list[j])

(* Below a call of the driver nothing waits.                               *)
LEMMA OutermostIsLast ==
  ASSUME Sound, Stacked, calls # <<>>, Top[1] \in Outermost
  PROVE  Len(calls) = 1
<1>1. Len(calls) \in Nat \ {0} /\ Top = calls[1]
  BY EmptySeq DEF Sound, Top
<1>2. CASE Len(calls) > 1
  <2>1. 1 \in 1 .. Len(calls) /\ 2 \in 1 .. Len(calls) /\ 1 < 2
    BY <1>1, <1>2
  <2>2. Over(Top, calls[2])
    BY <1>1, <2>1 DEF Stacked
  <2> QED
    BY <2>2 DEF Over
<1>3. Len(calls) \in Nat /\ Len(calls) # 0
  BY <1>1
<1> QED
  BY <1>2, <1>3

(* The order of the stack, kept.                                           *)
LEMMA StackedStep ==
  ASSUME Sound, Stacked, calls # <<>>,
         NEW list \in Seq(Frames), Call(list), Fitting(list)
  PROVE  Stacked'
<1>1. calls \in Seq(Frames)
  BY DEF Sound
<1>2. \A g \in Frames : Over(Top, g) =>
        \A i \in 1 .. Len(list) : Over(list[i], g)
  BY DEF Fitting, Fits
<1>3. Len(calls) = 1 \/ \A i \in 1 .. Len(list) : list[i][1] \notin Outermost
  BY OutermostIsLast DEF Fitting
<1>4. \A i, j \in 1 .. Len(list) : i < j => Over(list[i], list[j])
  BY DEF Fitting
<1> QED
  BY <1>1, <1>2, <1>3, <1>4, StackedCall

LEMMA BelowTwice ==
  ASSUME NEW m \in Maps, NEW b \in Below(m), NEW c \in Below(b)
  PROVE  c \in Below(m)
<1>1. Made[m] \in Nat /\ Made[b] \in Nat /\ Made[c] \in Nat
  BY KeymapAssumption DEF Below
<1> QED
  BY <1>1 DEF Below

LEMMA FrameOwner ==
  ASSUME NEW f \in Frames, f[1] \in Own
  PROVE  f[2] \in Maps
BY FrameKinds, DeferrersAreMaps DEF Own

(* A keymap that is called by the one on top, or by the driver.            *)
LEMMA CallsFit ==
  ASSUME Top \in Frames, NEW f \in Frames, f[1] \notin Outermost,
         \/ Top[1] \in Outermost
         \/ Self \in Maps /\ f[2] \in Below(Self)
         \/ /\ f[2] = Self
            /\ \A k \in Own : <<Top[1], k>> \in Pairs => <<f[1], k>> \in Pairs
  PROVE  Fits(f)
<1> SUFFICES ASSUME NEW g \in Frames, Over(Top, g) PROVE Over(f, g)
  BY DEF Fits
<1>1. g[1] \notin First /\ Top[1] \notin Outermost
  BY DEF Over
<1>2. ASSUME g[1] \in Own
      PROVE  f[2] \in Below(g[2]) \/ (f[2] = g[2] /\ <<f[1], g[1]>> \in Pairs)
  <2>1. g[2] \in Maps
    BY <1>2, FrameOwner
  <2>2. \/ Self \in Below(g[2])
        \/ Self = g[2] /\ <<Top[1], g[1]>> \in Pairs
    BY <1>2 DEF Over, Self
  <2>3. CASE Self \in Maps /\ f[2] \in Below(Self)
    BY <2>1, <2>2, <2>3, BelowTwice
  <2>4. CASE /\ f[2] = Self
             /\ \A k \in Own :
                  <<Top[1], k>> \in Pairs => <<f[1], k>> \in Pairs
    BY <1>2, <2>2, <2>4
  <2> QED
    BY <1>1, <2>3, <2>4
<1> QED
  BY <1>1, <1>2 DEF Over

(* Above a call of the driver anything may stand.                          *)
LEMMA OutermostFits ==
  ASSUME Top[1] \in Outermost, NEW f
  PROVE  Fits(f)
BY DEF Fits, Over

(* Lists that fit.                                                         *)
LEMMA FittingNone == Fitting(<<>>)
BY DEF Fitting

LEMMA FittingOne ==
  ASSUME NEW f \in Frames, Fits(f),
         f[1] \in Outermost => Top[1] \in Outermost
  PROVE  Fitting(<<f>>)
<1> DEFINE list == <<f>>
<1>1. Len(list) = 1 /\ list[1] = f
  OBVIOUS
<1> HIDE DEF list
<1>2. Fitting(list)
  BY <1>1 DEF Fitting
<1> QED
  BY <1>2 DEF list

LEMMA FittingTwo ==
  ASSUME NEW f \in Frames, NEW g \in Frames, Fits(f), Fits(g), Over(f, g),
         f[1] \in Outermost => Top[1] \in Outermost,
         g[1] \in Outermost => Top[1] \in Outermost
  PROVE  Fitting(<<f, g>>)
<1> DEFINE list == <<f, g>>
<1>1. Len(list) = 2 /\ list[1] = f /\ list[2] = g
  OBVIOUS
<1> HIDE DEF list
<1>2. Fitting(list)
  BY <1>1 DEF Fitting
<1> QED
  BY <1>2 DEF list

(* What is said of the event that is handled.                              *)
Tells(f) ==
  f[1] \in {"other", "remove last"} =>
    peeked >= 1 /\ (f[1] = "other" => f[3] = events[peeked])

(* The event that is handled, kept.                                        *)
LEMMA HandledStep ==
  ASSUME Sound, Handled, calls # <<>>, UNCHANGED <<events, peeked>>,
         NEW list \in Seq(Frames), Call(list),
         \A i \in 1 .. Len(list) : Tells(list[i])
  PROVE  Handled'
<1>1. /\ Len(calls) \in Nat \ {0}
      /\ Len(list) \in Nat
      /\ Len(calls') = Len(list) + Len(calls) - 1
      /\ \A i \in 1 .. Len(list) : calls'[i] = list[i]
      /\ \A i \in Len(list) + 1 .. Len(calls') :
           calls'[i] = calls[i - Len(list) + 1]
  BY CallProperties DEF Sound
<1>2. ASSUME NEW i \in 1 .. Len(calls') PROVE Tells(calls'[i])
  <2>1. CASE i <= Len(list)
    BY <1>1, <2>1
  <2>2. CASE ~ (i <= Len(list))
    <3>1. /\ i \in Len(list) + 1 .. Len(calls')
          /\ i - Len(list) + 1 \in 1 .. Len(calls)
      BY <1>1, <2>2
    <3>2. Tells(calls[i - Len(list) + 1])
      BY <3>1 DEF Handled, Tells
    <3> QED
      BY <1>1, <3>1, <3>2
  <2> QED
    BY <2>1, <2>2
<1> QED
  BY <1>2 DEF Handled, Tells

LEMMA TellsAtTop ==
  ASSUME Sound, Handled, calls # <<>>
  PROVE  Tells(Top)
<1>1. Len(calls) \in Nat \ {0} /\ Top = calls[1]
  BY EmptySeq DEF Sound, Top
<1>2. 1 \in 1 .. Len(calls)
  BY <1>1
<1> QED
  BY <1>1, <1>2 DEF Handled, Tells

-----------------------------------------------------------------------------
(* The lists of calls.                                                     *)

(* The list of calls by its elements.                                      *)
LEMMA NoneIsCalled ==
  ASSUME Call(<<>>)
  PROVE  \E list \in Seq(Frames) :
           /\ list = <<>> /\ Call(list)
           /\ \A i \in 1 .. Len(list) : FALSE
<1>1. PICK e : e = <<>>
  OBVIOUS
<1>2. e \in Seq(Frames) /\ Call(e) /\ \A i \in 1 .. Len(e) : FALSE
  BY <1>1 DEF Call
<1> QED
  BY <1>1, <1>2

LEMMA OneIsCalled ==
  ASSUME NEW f \in Frames, Call(<<f>>)
  PROVE  \E list \in Seq(Frames) :
           /\ list = <<f>> /\ Call(list)
           /\ \A i \in 1 .. Len(list) : list[i] = f
<1>1. PICK l : l = <<f>>
  OBVIOUS
<1>2. l \in Seq(Frames) /\ \A i \in 1 .. Len(l) : l[i] = f
  BY <1>1
<1>3. Call(l)
  BY <1>1 DEF Call
<1> QED
  BY <1>1, <1>2, <1>3

(* list is <<f, g>>, and is called.                                        *)
AreCalled(list, f, g) ==
  /\ list = <<f, g>> /\ Call(list)
  /\ \A i \in 1 .. Len(list) : list[i] = f \/ list[i] = g
  /\ \E i \in 1 .. Len(list) : list[i] = g

LEMMA TwoAreCalled ==
  ASSUME NEW f \in Frames, NEW g \in Frames, Call(<<f, g>>)
  PROVE  \E list \in Seq(Frames) : AreCalled(list, f, g)
<1>1. PICK l : l = <<f, g>>
  OBVIOUS
<1>2. l \in Seq(Frames) /\ Len(l) = 2 /\ l[1] = f /\ l[2] = g
  BY <1>1, TwoIsSeq
<1>3. Call(l)
  BY <1>1 DEF Call
<1>4. /\ \A i \in 1 .. Len(l) : l[i] = f \/ l[i] = g
      /\ \E i \in 1 .. Len(l) : l[i] = g
  BY <1>2
<1> QED
  BY <1>1, <1>2, <1>3, <1>4 DEF AreCalled

LEMMA Joined ==
  ASSUME NEW S, NEW x \in S, NEW y \in S
  PROVE  /\ <<>> \o <<x>> = <<x>> /\ <<x>> \o <<>> = <<x>>
         /\ <<x>> \o <<y>> = <<x, y>>
<1>1. <<x>> \in Seq(S) /\ <<y>> \in Seq(S)
  BY OneIsSeq
<1>0. <<>> \o <<x>> = <<x>> /\ <<x>> \o <<>> = <<x>>
  BY <1>1, ConcatEmptySeq
<1>2. <<x, y>> = <<x>> \o <<y>>
  <2> DEFINE two == <<x, y>>
             one == <<x>> \o <<y>>
  <2>1. /\ one \in Seq(S)
        /\ Len(one) = Len(<<x>>) + Len(<<y>>)
        /\ \A i \in 1 .. Len(<<x>>) + Len(<<y>>) : one[i] =
             IF i <= Len(<<x>>) THEN <<x>>[i] ELSE <<y>>[i - Len(<<x>>)]
    BY <1>1, ConcatProperties
  <2>2. two \in Seq(S) /\ Len(two) = 2 /\ two[1] = x /\ two[2] = y
    BY TwoIsSeq
  <2> HIDE DEF two, one
  <2>3. Len(<<x>>) = 1 /\ <<x>>[1] = x /\ Len(<<y>>) = 1 /\ <<y>>[1] = y
    OBVIOUS
  <2>4. Len(one) = 2 /\ one[1] = x /\ one[2] = y
    BY <2>1, <2>3
  <2>5. \A i \in 1 .. Len(two) : two[i] = one[i]
    BY <2>2, <2>4
  <2>6. two = one
    BY <2>1, <2>2, <2>4, <2>5, SeqEqual
  <2> QED
    BY <2>6, Zenon DEF two, one
<1> QED
  BY <1>0, <1>2, Zenon

-----------------------------------------------------------------------------
(* The deferrers that a step leaves alone.                                 *)

HoldsOwn == {"decided", "forget", "let go"}
SeqsOwn == {"tap", "finish", "danced"}

HoldStays(m) ==
  /\ chosen'[m] = chosen[m]
  /\ count[m] > 0 => count'[m] > 0
  /\ Contains(chain', m) => Contains(chain, m)

SeqStays(m) ==
  /\ step'[m] = step[m]
  /\ count[m] > 0 => count'[m] > 0
  /\ m \in finished' <=> m \in finished
  /\ Contains(chain, m) => Contains(chain', m)

(* A step keeps the decisions and dances of the keymaps it does not touch. *)
LEMMA DecisionsStay ==
  ASSUME Sound, Decisions, calls # <<>>,
         NEW list \in Seq(Frames), Call(list), NEW X,
         \A m \in Of("TapHold") : m \notin X => HoldStays(m),
         Top[1] \in HoldsOwn => Self \in X,
         \A i \in 1 .. Len(list) : list[i][1] \in HoldsOwn => list[i][2] \in X,
         \A m \in Of("TapHold") : m \in X => Decision(m)'
  PROVE  Decisions'
<1> SUFFICES ASSUME NEW m \in Of("TapHold"), m \notin X PROVE Decision(m)'
  BY DEF Decisions, Of
<1>1. /\ HoldStays(m) /\ Decision(m)
      /\ m \in Maps
  BY DeferrersAreMaps DEF Decisions
<1>2. \A f \in Frames : f[1] \in SeqsOwn => f[2] # m
  BY FrameKinds, DeferrersAreMaps DEF SeqsOwn
<1>3. Own = HoldsOwn \cup SeqsOwn
  BY DEF Own, HoldsOwn, SeqsOwn
<1>4. Top \in Frames /\ \A i \in 1 .. Len(list) : list[i] \in Frames
  BY TopAndRest, ElementOfSeq DEF Sound
<1>5. Top[1] \in Own => Self # m
  BY <1>2, <1>3, <1>4 DEF Self
<1>6. \A i \in 1 .. Len(list) : list[i][1] \in Own => list[i][2] # m
  BY <1>2, <1>3, <1>4
<1> QED
  BY <1>1, <1>5, <1>6, OthersDecision DEF HoldStays

LEMMA DancesStay ==
  ASSUME Sound, Dances, calls # <<>>,
         NEW list \in Seq(Frames), Call(list), NEW X,
         \A m \in Of("TapSeq") : m \notin X => SeqStays(m),
         Top[1] \in SeqsOwn => Self \in X,
         \A i \in 1 .. Len(list) : list[i][1] \in SeqsOwn => list[i][2] \in X,
         \A m \in Of("TapSeq") : m \in X => Dance(m)'
  PROVE  Dances'
<1> SUFFICES ASSUME NEW m \in Of("TapSeq"), m \notin X PROVE Dance(m)'
  BY DEF Dances, Of
<1>1. /\ SeqStays(m) /\ Dance(m)
      /\ m \in Maps
  BY DeferrersAreMaps DEF Dances
<1>2. \A f \in Frames : f[1] \in HoldsOwn => f[2] # m
  BY FrameKinds, DeferrersAreMaps DEF HoldsOwn
<1>3. Own = HoldsOwn \cup SeqsOwn
  BY DEF Own, HoldsOwn, SeqsOwn
<1>4. Top \in Frames /\ \A i \in 1 .. Len(list) : list[i] \in Frames
  BY TopAndRest, ElementOfSeq DEF Sound
<1>5. Top[1] \in Own => Self # m
  BY <1>2, <1>3, <1>4 DEF Self
<1>6. \A i \in 1 .. Len(list) : list[i][1] \in Own => list[i][2] # m
  BY <1>2, <1>3, <1>4
<1> QED
  BY <1>1, <1>5, <1>6, OthersDance DEF SeqStays

LEMMA DecisionsSame ==
  ASSUME Sound, Decisions, calls # <<>>, UNCHANGED <<chosen, chain>>,
         \A m \in Of("TapHold") : count[m] > 0 => count'[m] > 0,
         NEW list \in Seq(Frames), Call(list),
         Top[1] \notin HoldsOwn,
         \A i \in 1 .. Len(list) : list[i][1] \notin HoldsOwn
  PROVE  Decisions'
<1>1. \A m \in Of("TapHold") : HoldStays(m)
  BY DEF HoldStays
<1>2. PICK X : X = {}
  OBVIOUS
<1>3. /\ \A m \in Of("TapHold") : m \notin X => HoldStays(m)
      /\ Top[1] \in HoldsOwn => Self \in X
      /\ \A i \in 1 .. Len(list) : list[i][1] \in HoldsOwn => list[i][2] \in X
      /\ \A m \in Of("TapHold") : m \in X => Decision(m)'
  BY <1>1, <1>2
<1> QED
  BY <1>3, DecisionsStay

LEMMA DancesSame ==
  ASSUME Sound, Dances, calls # <<>>, UNCHANGED <<step, finished, chain>>,
         \A m \in Of("TapSeq") : count[m] > 0 => count'[m] > 0,
         NEW list \in Seq(Frames), Call(list),
         Top[1] \notin SeqsOwn,
         \A i \in 1 .. Len(list) : list[i][1] \notin SeqsOwn
  PROVE  Dances'
<1>1. \A m \in Of("TapSeq") : SeqStays(m)
  BY DEF SeqStays
<1>2. PICK X : X = {}
  OBVIOUS
<1>3. /\ \A m \in Of("TapSeq") : m \notin X => SeqStays(m)
      /\ Top[1] \in SeqsOwn => Self \in X
      /\ \A i \in 1 .. Len(list) : list[i][1] \in SeqsOwn => list[i][2] \in X
      /\ \A m \in Of("TapSeq") : m \in X => Dance(m)'
  BY <1>1, <1>2
<1> QED
  BY <1>3, DancesStay

-----------------------------------------------------------------------------
(* The steps, again.                                                       *)

(* A call that changes no more than counts.                                *)
LEMMA CallStep ==
  ASSUME Sound, Tidy, calls # <<>>, Counts',
         UNCHANGED <<chosen, step, modified, down, events, peeked>>,
         NEW list \in Seq(Frames), Call(list), Fitting(list),
         \A i \in 1 .. Len(list) : Tells(list[i]),
         ModIfsStay, Fair(list)
  PROVE  Stacked' /\ Handled' /\ Balance'
<1>1. Stacked'
  BY StackedStep DEF Tidy
<1>2. Handled'
  BY HandledStep DEF Tidy
<1>3. Balance'
  BY EvenCall DEF Tidy
<1> QED
  BY <1>1, <1>2, <1>3

(* A call that no deferrer decides, taps or ends by.                       *)
Plain(list) ==
  /\ Fitting(list)
  /\ Fair(list)
  /\ \A i \in 1 .. Len(list) : Tells(list[i]) /\ list[i][1] \notin Own

DeferrersKept == \A m \in Deferrers : count[m] > 0 => count'[m] > 0

LEMMA OtherCallStep ==
  ASSUME Sound, Tidy, calls # <<>>, Counts', PressedOnly',
         UNCHANGED <<chosen, step, modified, down, events, peeked, finished,
                     chain>>,
         NEW list \in Seq(Frames), Call(list), Plain(list),
         Top[1] \notin Own, ModIfsStay, DeferrersKept
  PROVE  Tidy'
<1>1. Stacked' /\ Handled' /\ Balance'
  BY CallStep DEF Plain
<1>2. /\ \A m \in Of("TapHold") : count[m] > 0 => count'[m] > 0
      /\ \A m \in Of("TapSeq") : count[m] > 0 => count'[m] > 0
  BY DeferrersAreMaps DEF DeferrersKept
<1>0. /\ Top[1] \notin HoldsOwn /\ Top[1] \notin SeqsOwn
      /\ \A i \in 1 .. Len(list) : list[i][1] \notin HoldsOwn
      /\ \A i \in 1 .. Len(list) : list[i][1] \notin SeqsOwn
  BY DEF Plain, Own, HoldsOwn, SeqsOwn
<1>3. Decisions'
  BY <1>0, <1>2, DecisionsSame DEF Tidy
<1>4. Dances'
  BY <1>0, <1>2, DancesSame DEF Tidy
<1> QED
  BY <1>1, <1>3, <1>4 DEF Tidy

(* What is modified or sent stays pressed.                                 *)
LEMMA PressedStay ==
  ASSUME Counts, PressedOnly, CountsKept,
         modified' \subseteq modified, sent' \subseteq sent
  PROVE  PressedOnly'
<1>1. modified \subseteq Maps /\ sent \subseteq Maps
  BY DEF Counts, Of
<1> QED
  BY <1>1 DEF PressedOnly, CountsKept

(* A press after the first, a release before the last.                     *)
LEMMA JustCountsTidy ==
  ASSUME Sound, Tidy, JustCounts
  PROVE  Tidy'
<1>1. Counts
  BY DEF Tidy
<1>2. /\ calls # <<>> /\ Top \in Frames /\ Self \in Maps
      /\ Top[1] \in {"press", "release"}
  BY TopCall, FrameKinds DEF JustCounts, Self
<1>3. /\ \A m \in Maps \ {Self} : count'[m] = count[m]
      /\ count' \in [Maps -> Int]
      /\ \/ Top[1] = "press" /\ count'[Self] = count[Self] + 1 /\ count'[Self] # 1
         \/ Top[1] = "release" /\ count'[Self] = count[Self] - 1
            /\ count'[Self] # 0
  BY <1>1, <1>2 DEF JustCounts, Doing, Counts
<1>4. \A m \in Maps : count[m] \in Int /\ count'[m] \in Int
  BY <1>1, <1>3 DEF Counts
<1>5. /\ Call(<<>>)
      /\ UNCHANGED <<modified, chosen, step, finished, chain, events, peeked,
                     sent, down>>
  BY DEF JustCounts, deferVars, queueVars, worldVars
<1>6. Counts'
  BY <1>1, <1>3, <1>5 DEF Counts
<1>7. CountsKept
  BY <1>3, <1>4 DEF CountsKept
<1>8. ModIfsStay
  BY <1>3, <1>4, DeferrersAreMaps DEF ModIfsStay
<1>9. Paid
  <2> SUFFICES ASSUME NEW c \in Maps
               PROVE  count'[c] + Bit(Lowers(Top, c))
                        = count[c] + Bit(Raises(Top, c))
    BY DEF Paid
  <2>1. /\ Top[1] = "press" => (Raises(Top, c) <=> Self = c) /\ ~ Lowers(Top, c)
        /\ Top[1] = "release" =>
             (Lowers(Top, c) <=> Self = c) /\ ~ Raises(Top, c)
    BY <1>2, KeyEffects DEF Self
  <2> QED
    BY <1>2, <1>3, <1>4, <2>1 DEF Bit
<1>10. PICK list \in Seq(Frames) :
         /\ list = <<>> /\ Call(list)
         /\ \A i \in 1 .. Len(list) : FALSE
  BY <1>5, NoneIsCalled
<1>11. Fitting(list) /\ Fair(list)
  BY <1>1, <1>6, <1>9, <1>10, FittingNone, FairNone
<1>12. PressedOnly'
  BY <1>1, <1>5, <1>7, PressedStay DEF Tidy
<1>13. DeferrersKept
  BY <1>7, DeferrersAreMaps DEF DeferrersKept, CountsKept
<1>14. Plain(list) /\ Top[1] \notin Own
  BY <1>2, <1>10, <1>11 DEF Plain, Own
<1> QED
  BY <1>2, <1>5, <1>6, <1>8, <1>10, <1>12, <1>13, <1>14, OtherCallStep

(* Pseudo and Lit do nothing but count.                                    *)
LEMMA PseudoTidy ==
  ASSUME Sound, Tidy, PseudoPress \/ LitSends
  PROVE  Tidy'
<1>1. Counts
  BY DEF Tidy
<1>2. PICK class \in {"Pseudo", "Lit"} : Pressing(class) \/ Releasing(class)
  BY DEF PseudoPress, LitSends
<1>3. /\ calls # <<>> /\ Top \in Frames /\ Top[1] \in {"press", "release"}
      /\ Self \in Of(class) /\ Self \in Maps
      /\ count' \in [Maps -> Int]
      /\ \A m \in Maps \ {Self} : count'[m] = count[m]
      /\ Paid
      /\ ModIfsStay
  BY <1>1, <1>2, PressFacts, ReleaseFacts
<1>4. /\ Call(<<>>)
      /\ UNCHANGED <<modified, chosen, step, finished, chain, events, peeked,
                     down>>
  BY DEF PseudoPress, LitSends, OnlyCalls, deferVars, queueVars, worldVars
<1>5. Class[Self] \in {"Pseudo", "Lit"}
  BY <1>3 DEF Of
<1>6. \A m \in Deferrers \cup modified : m # Self /\ m \in Maps
  BY <1>1, <1>5 DEF Deferrers, Of, Counts
<1>7. sent' \subseteq Of("Lit") /\ \A m \in sent' : count'[m] > 0
  <2>1. CASE PseudoPress
    <3>1. Class[Self] = "Pseudo" /\ sent' = sent
      BY <2>1 DEF PseudoPress, Pressing, Releasing, OnlyCalls
    <3>2. \A m \in sent : m # Self /\ m \in Maps /\ count[m] > 0
      BY <1>1, <3>1 DEF Counts, Of, Tidy, PressedOnly
    <3> QED
      BY <1>1, <1>3, <3>1, <3>2 DEF Counts
  <2>2. CASE Pressing("Lit") /\ sent' = sent \cup {Self}
    <3>1. Self \in Of("Lit") /\ count'[Self] = 1
      BY <1>1, <2>2, PressFacts
    <3>2. \A m \in sent : m \in Maps /\ count[m] > 0
      BY <1>1 DEF Counts, Of, Tidy, PressedOnly
    <3>3. \A m \in sent' : count'[m] > 0
      BY <1>3, <2>2, <3>1, <3>2
    <3> QED
      BY <1>1, <2>2, <3>1, <3>3 DEF Counts
  <2>3. CASE Releasing("Lit") /\ sent' = sent \ {Self}
    <3>1. \A m \in sent : m \in Maps /\ count[m] > 0
      BY <1>1 DEF Counts, Of, Tidy, PressedOnly
    <3> QED
      BY <1>1, <1>3, <2>3, <3>1 DEF Counts
  <2> QED
    BY <2>1, <2>2, <2>3 DEF LitSends
<1>8. Counts'
  BY <1>1, <1>3, <1>4, <1>7 DEF Counts
<1>9. PressedOnly'
  BY <1>3, <1>4, <1>6, <1>7 DEF PressedOnly, Tidy
<1>10. PICK list \in Seq(Frames) :
         /\ list = <<>> /\ Call(list)
         /\ \A i \in 1 .. Len(list) : FALSE
  BY <1>4, NoneIsCalled
<1>11. Fitting(list) /\ Fair(list)
  BY <1>1, <1>3, <1>8, <1>10, FittingNone, FairNone
<1>12. DeferrersKept
  BY <1>3, <1>6, DeferrersAreMaps DEF DeferrersKept
<1>13. Plain(list) /\ Top[1] \notin Own
  BY <1>3, <1>10, <1>11 DEF Plain, Own
<1> QED
  BY <1>3, <1>4, <1>8, <1>9, <1>10, <1>12, <1>13, OtherCallStep

(* OneShot presses and releases its keymap at once.                        *)
LEMMA OneShotTidy ==
  ASSUME Sound, Tidy, OneShotTaps
  PROVE  Tidy'
<1>1. Counts
  BY DEF Tidy
<1>2. Pressing("OneShot") \/ Releasing("OneShot")
  BY DEF OneShotTaps
<1>3. /\ calls # <<>> /\ Top \in Frames /\ Top[1] \in {"press", "release"}
      /\ Self \in Of("OneShot") /\ Self \in Maps
      /\ count' \in [Maps -> Int]
      /\ \A m \in Maps \ {Self} : count'[m] = count[m]
      /\ Paid
      /\ ModIfsStay
  BY <1>1, <1>2, PressFacts, ReleaseFacts
<1>4. UNCHANGED <<modified, chosen, step, finished, chain, events, peeked,
                  down, sent>>
  BY DEF OneShotTaps, OnlyCalls, deferVars, queueVars, worldVars
<1>5. Counts'
  BY <1>1, <1>3, <1>4 DEF Counts
<1>6. \A m \in Deferrers \cup modified \cup sent : m # Self /\ m \in Maps
  BY <1>1, <1>3 DEF Deferrers, Of, Counts
<1>7. PressedOnly'
  BY <1>3, <1>4, <1>6 DEF PressedOnly, Tidy
<1>8. DeferrersKept
  BY <1>3, <1>6, DeferrersAreMaps DEF DeferrersKept
<1>9. Top[1] \notin Own
  BY <1>3 DEF Own
<1>10. CASE Call(<<>>)
  <2>1. PICK list \in Seq(Frames) :
          /\ list = <<>> /\ Call(list)
         /\ \A i \in 1 .. Len(list) : FALSE
    BY <1>10, NoneIsCalled
  <2>2. Fitting(list) /\ Fair(list)
    BY <1>1, <1>3, <1>5, <2>1, FittingNone, FairNone
  <2>3. Plain(list)
    BY <2>1, <2>2 DEF Plain
  <2> QED
    BY <1>3, <1>4, <1>5, <1>7, <1>8, <1>9, <2>1, <2>3, OtherCallStep
<1>11. CASE ~ Call(<<>>)
  <2>1. PICK x : x = Child[Self][1]
    OBVIOUS
  <2>2. x \in Below(Self) /\ x \in Maps
    BY <1>3, <2>1, ChildrenAreBelow DEF Of, Below
  <2>3. Call(<<Press(x), Release(x)>>)
    BY <1>11, <2>1 DEF OneShotTaps
  <2>4. PICK f \in Frames, g \in Frames : f = Press(x) /\ g = Release(x)
    BY <2>2, FrameMakes
  <2>5. PICK list \in Seq(Frames) :
          /\ list = <<f, g>> /\ Call(list)
          /\ \A i \in 1 .. Len(list) : list[i] = f \/ list[i] = g
    <3>1. Call(<<f, g>>)
      BY <2>3, <2>4
    <3>2. \E list \in Seq(Frames) : AreCalled(list, f, g)
      BY <3>1, TwoAreCalled
    <3> QED
      BY <3>2 DEF AreCalled
  <2>6. f[1] = "press" /\ f[2] = x /\ g[1] = "release" /\ g[2] = x
    BY <2>4 DEF Press, Release
  <2>7. Fits(f) /\ Fits(g)
    BY <1>3, <2>2, <2>6, CallsFit DEF Outermost
  <2>8. Over(f, g)
    BY <2>6 DEF Over, Outermost, First, Own
  <2>9. Fitting(list)
    BY <2>5, <2>6, <2>7, <2>8, FittingTwo DEF Outermost
  <2>10. \A c \in Maps : /\ Raises(f, c) <=> Lowers(g, c)
                         /\ Lowers(f, c) <=> Raises(g, c)
    <3> SUFFICES ASSUME NEW c \in Maps
                 PROVE  /\ Raises(f, c) <=> Lowers(g, c)
                        /\ Lowers(f, c) <=> Raises(g, c)
      OBVIOUS
    <3>1. (Raises(f, c) <=> x = c) /\ ~ Lowers(f, c)
      BY <2>6, KeyEffects
    <3>2. (Lowers(g, c) <=> x = c) /\ ~ Raises(g, c)
      BY <2>6, KeyEffects
    <3> QED
      BY <3>1, <3>2
  <2>11. Fair(<<f, g>>)
    <3>1. Counts /\ Counts' /\ Paid
      BY <1>1, <1>3, <1>5
    <3> QED
      BY <3>1, <2>10, FairPair
  <2>12. Plain(list)
    <3>1. Fair(list)
      BY <2>5, <2>11
    <3>2. \A i \in 1 .. Len(list) : Tells(list[i]) /\ list[i][1] \notin Own
      BY <2>5, <2>6 DEF Tells, Own
    <3> QED
      BY <2>9, <3>1, <3>2 DEF Plain
  <2> QED
    BY <1>3, <1>4, <1>5, <1>7, <1>8, <1>9, <2>5, <2>12, OtherCallStep
<1> QED
  BY <1>10, <1>11

(* A call that does nothing but call.                                      *)
LEMMA JustCallsStep ==
  ASSUME Sound, Tidy, calls # <<>>,
         UNCHANGED <<count, modified, chosen, step, finished, chain, events,
                     peeked, sent, down>>,
         NEW list \in Seq(Frames), Call(list), Plain(list), Top[1] \notin Own
  PROVE  Tidy'
<1>1. Counts'
  BY DEF Tidy, Counts
<1>2. PressedOnly'
  BY DEF Tidy, PressedOnly
<1>3. ModIfsStay
  BY DEF ModIfsStay
<1>4. DeferrersKept
  BY DEF DeferrersKept
<1> QED
  BY <1>1, <1>2, <1>3, <1>4, OtherCallStep

Silent == {"timeout", "unref", "let go", "finish", "decide", "other"}

(* Calls that press and release nothing themselves.                        *)
LEMMA PaidBySilence ==
  ASSUME Counts, UNCHANGED count, Top \in Frames, Top[1] \in Silent
  PROVE  Paid
<1> SUFFICES ASSUME NEW c \in Maps
             PROVE  count'[c] + Bit(Lowers(Top, c))
                      = count[c] + Bit(Raises(Top, c))
  BY DEF Paid
<1>1. ~ Raises(Top, c) /\ ~ Lowers(Top, c)
  BY Effects DEF Silent
<1> QED
  BY <1>1 DEF Bit

LEMMA SilentOne ==
  ASSUME Counts, Counts', Paid, NEW f \in Frames, f[1] \in Silent
  PROVE  Fair(<<f>>)
<1>1. \A c \in Maps : ~ Raises(f, c) /\ ~ Lowers(f, c)
  BY Effects DEF Silent
<1> QED
  BY <1>1, FairNothing

LEMMA SilentTwo ==
  ASSUME Counts, Counts', Paid, NEW f \in Frames, f[1] \in Silent,
         NEW g \in Frames, g[1] \in Silent
  PROVE  Fair(<<f, g>>)
<1>1. \A c \in Maps : ~ Raises(f, c) /\ ~ Lowers(f, c)
  BY Effects DEF Silent
<1>2. \A c \in Maps : ~ Raises(g, c) /\ ~ Lowers(g, c)
  BY Effects DEF Silent
<1>3. \A c \in Maps : /\ Raises(f, c) <=> Lowers(g, c)
                      /\ Lowers(f, c) <=> Raises(g, c)
  BY <1>1, <1>2
<1> QED
  BY <1>3, FairPair

(* The end of an event, and of a timeout.                                  *)
LEMMA EndsQuietly ==
  ASSUME Sound, Tidy, AllTold \/ Unref
  PROVE  Tidy'
<1>1. /\ calls # <<>> /\ Top \in Frames /\ Top[1] \in {"other", "unref"}
  BY TopCall DEF AllTold, Unref
<1>2. /\ Call(<<>>)
      /\ UNCHANGED <<count, modified, chosen, step, finished, chain, events,
                     peeked, sent, down>>
  BY DEF AllTold, Unref, OnlyCalls, mapVars, deferVars, queueVars, worldVars
<1>3. Counts /\ Counts'
  BY <1>2 DEF Tidy, Counts
<1>4. PICK list \in Seq(Frames) :
        /\ list = <<>> /\ Call(list)
        /\ \A i \in 1 .. Len(list) : FALSE
  BY <1>2, NoneIsCalled
<1>5. Paid
  BY <1>1, <1>2, <1>3, PaidBySilence DEF Silent
<1>6. Fitting(list) /\ Fair(list)
  BY <1>3, <1>4, <1>5, FittingNone, FairNone
<1>7. Plain(list) /\ Top[1] \notin Own
  BY <1>1, <1>4, <1>6 DEF Plain, Own
<1> QED
  BY <1>1, <1>2, <1>4, <1>7, JustCallsStep

(* The timeout of a TapHold decides.                                       *)
LEMMA TapHoldTimeoutTidy ==
  ASSUME Sound, Tidy, TapHoldTimeout
  PROVE  Tidy'
<1>1. /\ calls # <<>> /\ Top \in Frames /\ Top[1] = "timeout"
  BY TopCall DEF TapHoldTimeout
<1>2. Self \in Of("TapHold") /\ Self \in Maps /\ Hold(Self) \in Below(Self)
  BY <1>1, FrameKinds, ChildrenAreBelow, DeferrersAreMaps
     DEF TapHoldTimeout, Self, Of
<1>3. UNCHANGED <<count, modified, chosen, step, finished, chain, events,
                  peeked, sent, down>>
  BY DEF TapHoldTimeout, OnlyCalls, deferVars, queueVars, worldVars
<1>4. Counts /\ Counts'
  BY <1>3 DEF Tidy, Counts
<1>5. PICK f \in Frames : f = Decide(Self, Hold(Self))
  BY <1>2, FrameMakes
<1>6. f[1] = "decide" /\ f[2] = Self
  BY <1>5 DEF Decide
<1>7. Call(<<f>>)
  BY <1>5 DEF TapHoldTimeout
<1>8. PICK list \in Seq(Frames) :
        /\ list = <<f>> /\ Call(list)
        /\ \A i \in 1 .. Len(list) : list[i] = f
  BY <1>7, OneIsCalled
<1>9. Fits(f)
  BY <1>1, <1>6, CallsFit DEF Outermost, Pairs
<1>10. Fitting(<<f>>)
  BY <1>6, <1>9, FittingOne DEF Outermost
<1>11. Paid
  BY <1>1, <1>3, <1>4, PaidBySilence DEF Silent
<1>12. Fair(<<f>>)
  BY <1>4, <1>6, <1>11, SilentOne DEF Silent
<1>13. \A i \in 1 .. Len(list) : Tells(list[i]) /\ list[i][1] \notin Own
  BY <1>6, <1>8 DEF Tells, Own
<1>14. Plain(list) /\ Top[1] \notin Own
  BY <1>1, <1>8, <1>10, <1>12, <1>13 DEF Plain, Own
<1> QED
  BY <1>1, <1>3, <1>8, <1>14, JustCallsStep

(* What is called when a deferrer is told of an event: f is its own.       *)
TellingCall(f) ==
  \/ Call(<<TellTheRest>>)
  \/ Call(<<f, TellTheRest>>)
  \/ Call(<<Execute(OtherEvent), <<"remove last">>>>)

(* The calls of the driver.                                                *)
LEMMA TellingCalls ==
  ASSUME Sound, Tidy, Telling,
         UNCHANGED <<count, modified, chosen, step, finished, chain, events,
                     peeked, sent, down>>,
         NEW f \in Frames, f[1] \in {"decide", "timeout"}, TellingCall(f)
  PROVE  Tidy'
<1>1. /\ calls # <<>> /\ Top \in Frames /\ Top[1] = "other"
      /\ TellTheRest \in Frames
  BY TellFacts DEF Allowed
<1>2. Top[1] \in Outermost /\ Top[1] \notin Own
  BY <1>1 DEF Outermost, Own
<1>3. Counts /\ Counts'
  BY DEF Tidy, Counts
<1>4. Paid
  BY <1>1, <1>3, PaidBySilence DEF Silent
<1>5. peeked >= 1 /\ OtherEvent = events[peeked] /\ OtherEvent \in Event
  <2>1. Tells(Top)
    BY <1>1, TellsAtTop DEF Tidy
  <2> QED
    BY <1>1, <2>1, FrameKinds DEF Tells, OtherEvent
<1>6. PICK r \in Frames : r = TellTheRest
  BY <1>1
<1>7. r[1] = "other" /\ r[3] = OtherEvent
  BY <1>6 DEF TellTheRest
<1>8. Tells(r) /\ Tells(f) /\ r[1] \notin Own /\ f[1] \notin Own
  BY <1>5, <1>7 DEF Tells, Own
<1>9. CASE Call(<<TellTheRest>>)
  <2>1. PICK list \in Seq(Frames) :
          /\ list = <<r>> /\ Call(list)
          /\ \A i \in 1 .. Len(list) : list[i] = r
    BY <1>6, <1>9, OneIsCalled
  <2>2. Fits(r)
    BY <1>2, OutermostFits
  <2>3. Fitting(<<r>>)
    BY <1>2, <2>2, FittingOne
  <2>4. Fair(<<r>>)
    BY <1>3, <1>4, <1>7, SilentOne DEF Silent
  <2>5. \A i \in 1 .. Len(list) : Tells(list[i]) /\ list[i][1] \notin Own
    BY <1>8, <2>1
  <2>6. Plain(list)
    BY <2>1, <2>3, <2>4, <2>5 DEF Plain
  <2> QED
    BY <1>1, <1>2, <2>1, <2>6, JustCallsStep
<1>10. CASE Call(<<f, TellTheRest>>)
  <2>1. PICK list \in Seq(Frames) :
          /\ list = <<f, r>> /\ Call(list)
          /\ \A i \in 1 .. Len(list) : list[i] = f \/ list[i] = r
    <3>1. Call(<<f, r>>)
      BY <1>6, <1>10
    <3>2. \E list \in Seq(Frames) : AreCalled(list, f, r)
      BY <3>1, TwoAreCalled
    <3> QED
      BY <3>2 DEF AreCalled
  <2>2. Fits(f) /\ Fits(r)
    BY <1>2, OutermostFits
  <2>3. Over(f, r)
    BY <1>7 DEF Over, Outermost, First, Own
  <2>4. Fitting(<<f, r>>)
    BY <1>2, <2>2, <2>3, FittingTwo
  <2>5. Fair(<<f, r>>)
    BY <1>3, <1>4, <1>7, SilentTwo DEF Silent
  <2>6. \A i \in 1 .. Len(list) : Tells(list[i]) /\ list[i][1] \notin Own
    BY <1>8, <2>1
  <2>7. Plain(list)
    BY <2>1, <2>4, <2>5, <2>6 DEF Plain
  <2> QED
    BY <1>1, <1>2, <2>1, <2>7, JustCallsStep
<1>11. CASE Call(<<Execute(OtherEvent), <<"remove last">>>>)
  <2>1. PICK x \in Frames : x = Execute(OtherEvent)
    BY <1>5, ExecuteIsFrame
  <2>2. PICK y \in Frames : y = <<"remove last">>
    BY FrameMakes
  <2>3. x[1] \in {"press", "release"} /\ y[1] = "remove last"
    BY <1>5, <2>1, <2>2, ExecuteIsFrame, FirstOfOne
  <2>4. PICK list \in Seq(Frames) :
          /\ list = <<x, y>> /\ Call(list)
          /\ \A i \in 1 .. Len(list) : list[i] = x \/ list[i] = y
    <3>1. Call(<<x, y>>)
      BY <1>11, <2>1, <2>2
    <3>2. \E list \in Seq(Frames) : AreCalled(list, x, y)
      BY <3>1, TwoAreCalled
    <3> QED
      BY <3>2 DEF AreCalled
  <2>5. Fits(x) /\ Fits(y)
    BY <1>2, OutermostFits
  <2>6. Over(x, y)
    BY <2>3 DEF Over, Outermost, First, Own
  <2>7. Fitting(<<x, y>>)
    BY <1>2, <2>5, <2>6, FittingTwo
  <2>8. ASSUME NEW c \in Maps
        PROVE  /\ Raises(x, c) <=> Lowers(y, c)
               /\ Lowers(x, c) <=> Raises(y, c)
    <3>1. /\ Raises(y, c) <=> OtherEvent \in Released(c)
          /\ Lowers(y, c) <=> OtherEvent \in Pressed(c)
      BY <1>5, <2>3, Effects
    <3>2. CASE OtherEvent.press
      <4>1. x = Press(Table[OtherEvent.slot])
        BY <2>1, <3>2 DEF Execute
      <4>2. x[1] = "press" /\ x[2] = Table[OtherEvent.slot]
        BY <4>1 DEF Press
      <4>3. (Raises(x, c) <=> Table[OtherEvent.slot] = c) /\ ~ Lowers(x, c)
        BY <4>2, KeyEffects
      <4> QED
        BY <1>5, <3>1, <3>2, <4>3 DEF Released, Pressed
    <3>3. CASE ~ OtherEvent.press
      <4>1. x = Release(Table[OtherEvent.slot])
        BY <2>1, <3>3 DEF Execute
      <4>2. x[1] = "release" /\ x[2] = Table[OtherEvent.slot]
        BY <4>1 DEF Release
      <4>3. (Lowers(x, c) <=> Table[OtherEvent.slot] = c) /\ ~ Raises(x, c)
        BY <4>2, KeyEffects
      <4> QED
        BY <1>5, <3>1, <3>3, <4>3 DEF Released, Pressed
    <3> QED
      BY <3>2, <3>3
  <2>9. Fair(<<x, y>>)
    BY <1>3, <1>4, <2>8, FairPair
  <2>10. \A i \in 1 .. Len(list) : Tells(list[i]) /\ list[i][1] \notin Own
    <3>1. Tells(x) /\ Tells(y) /\ x[1] \notin Own /\ y[1] \notin Own
      BY <1>5, <2>3 DEF Tells, Own
    <3> QED
      BY <2>4, <3>1
  <2>11. Plain(list)
    BY <2>4, <2>7, <2>9, <2>10 DEF Plain
  <2> QED
    BY <1>1, <1>2, <2>4, <2>11, JustCallsStep
<1> QED
  BY <1>9, <1>10, <1>11 DEF TellingCall

(* A TapHold is told of an event.                                          *)
LEMMA TapHoldToldTidy ==
  ASSUME Sound, Tidy, TapHoldTold
  PROVE  Tidy'
<1>1. Telling /\ Told \in Of("TapHold")
  BY TellFacts, DeferrersAreMaps DEF TapHoldTold, Of
<1>2. UNCHANGED <<count, modified, chosen, step, finished, chain, events,
                  peeked, sent, down>>
  BY DEF TapHoldTold, OnlyCalls, deferVars, queueVars, worldVars
<1>3. /\ Decide(Told, Tap(Told)) \in Frames
      /\ Decide(Told, Hold(Told)) \in Frames
  <2>1. Told \in Maps
    BY <1>1, DeferrersAreMaps
  <2>2. Tap(Told) \in Below(Told) /\ Hold(Told) \in Below(Told)
    BY <1>1, <2>1, ChildrenAreBelow DEF Of
  <2> QED
    BY <1>1, <2>2, FrameMakes
<1>4. /\ Decide(Told, Tap(Told))[1] = "decide"
      /\ Decide(Told, Hold(Told))[1] = "decide"
  BY DEF Decide
<1>5. \E f \in Frames : f[1] \in {"decide", "timeout"} /\ TellingCall(f)
  BY <1>3, <1>4 DEF TapHoldTold, TellingCall
<1> QED
  BY <1>1, <1>2, <1>5, TellingCalls

(* A TapSeq is told of an event.                                           *)
LEMMA TapDanceToldTidy ==
  ASSUME Sound, Tidy, TapDanceTold
  PROVE  Tidy'
<1>1. Telling /\ Told \in Deferrers
  BY TellFacts DEF TapDanceTold
<1>2. UNCHANGED <<count, modified, chosen, step, finished, chain, events,
                  peeked, sent, down>>
  BY DEF TapDanceTold, mapVars, deferVars, queueVars, worldVars
<1>3. <<"timeout", Told>> \in Frames /\ <<"timeout", Told>>[1] = "timeout"
  BY <1>1, FrameMakes
<1>4. \E f \in Frames : f[1] \in {"decide", "timeout"} /\ TellingCall(f)
  BY <1>3 DEF TapDanceTold, TellingCall
<1> QED
  BY <1>1, <1>2, <1>4, TellingCalls

(* A step of one deferrer leaves the others alone.                         *)
Spared(d) ==
  /\ \A m \in Of("TapHold") : m # d => HoldStays(m)
  /\ \A m \in Of("TapSeq") : m # d => SeqStays(m)

OwnCalls(list, d) ==
  \A i \in 1 .. Len(list) :
    Tells(list[i]) /\ (list[i][1] \in Own => list[i][2] = d)

(* A step of one deferrer, the others spared.                              *)
LEMMA SparedStep ==
  ASSUME Sound, Tidy, calls # <<>>, NEW list \in Seq(Frames), Call(list),
         NEW d, d = Self, Spared(d), OwnCalls(list, d),
         d \in Of("TapHold") => Decision(d)',
         d \in Of("TapSeq") => Dance(d)'
  PROVE  Decisions' /\ Dances'
<1>1. PICK X : X = {d}
  OBVIOUS
<1>2. /\ \A m \in Of("TapHold") : m \notin X => HoldStays(m)
      /\ Top[1] \in HoldsOwn => Self \in X
      /\ \A i \in 1 .. Len(list) : list[i][1] \in HoldsOwn => list[i][2] \in X
  BY <1>1 DEF Spared, OwnCalls, HoldsOwn, Own
<1>3. \A m \in Of("TapHold") : m \in X => Decision(m)'
  BY <1>1
<1>4. Decisions'
  BY <1>2, <1>3, DecisionsStay DEF Tidy
<1>5. /\ \A m \in Of("TapSeq") : m \notin X => SeqStays(m)
      /\ Top[1] \in SeqsOwn => Self \in X
      /\ \A i \in 1 .. Len(list) : list[i][1] \in SeqsOwn => list[i][2] \in X
  BY <1>1 DEF Spared, OwnCalls, SeqsOwn, Own
<1>6. \A m \in Of("TapSeq") : m \in X => Dance(m)'
  BY <1>1
<1>7. Dances'
  BY <1>5, <1>6, DancesStay DEF Tidy
<1> QED
  BY <1>4, <1>7

LEMMA DeferrerStep ==
  ASSUME Sound, Tidy, calls # <<>>, Counts', PressedOnly', ModIfsStay,
         UNCHANGED <<chosen, step, modified, down, events, peeked>>,
         NEW list \in Seq(Frames), Call(list), Fitting(list), Fair(list),
         NEW d, d = Self, Spared(d), OwnCalls(list, d),
         d \in Of("TapHold") => Decision(d)',
         d \in Of("TapSeq") => Dance(d)'
  PROVE  Tidy'
<1>1. Decisions' /\ Dances'
  BY SparedStep
<1>2. \A i \in 1 .. Len(list) : Tells(list[i])
  BY DEF OwnCalls
<1>3. Stacked' /\ Handled' /\ Balance'
  BY <1>2, CallStep
<1> QED
  BY <1>1, <1>3 DEF Tidy

(* The calls of d that wait.                                               *)
LEMMA OwnWaits ==
  ASSUME Sound, Stacked, calls # <<>>, NEW d \in Maps, d = Self,
         NEW list \in Seq(Frames), Call(list)
  PROVE  /\ \A k \in Own : <<Top[1], k>> \notin Pairs => ~ Rest(k, d)
         /\ \A k \in Own : On(k, d) <=> Top[1] = k \/ Rest(k, d)
         /\ \A k \in Own : On(k, d)' <=>
              \/ \E i \in 1 .. Len(list) : list[i][1] = k /\ list[i][2] = d
              \/ Rest(k, d)
<1>1. ASSUME NEW k \in Own, Rest(k, d) PROVE <<Top[1], k>> \in Pairs
  <2>1. Self = d
    OBVIOUS
  <2> QED
    BY <1>1, <2>1, NothingWaits
<1>2. /\ \A k \in Own : On(k, d) <=> (Top[1] = k /\ Self = d) \/ Rest(k, d)
      /\ \A k \in Own : On(k, d)' <=>
           \/ \E i \in 1 .. Len(list) : list[i][1] = k /\ list[i][2] = d
           \/ Rest(k, d)
  BY CallsThatWait DEF Sound
<1> QED
  BY <1>1, <1>2

(* A TapHold is pressed.                                                   *)
LEMMA TapHoldPressTidy ==
  ASSUME Sound, Tidy, TapHoldPress, ~ failed'
  PROVE  Tidy'
<1>1. Counts /\ Pressing("TapHold")
  BY DEF Tidy, TapHoldPress
<1>2. /\ calls # <<>> /\ Top \in Frames /\ Top[1] = "press"
      /\ Self \in Of("TapHold") /\ Self \in Maps
      /\ count' \in [Maps -> Int]
      /\ count'[Self] = 1
      /\ CountsKept /\ Paid /\ ModIfsStay
  BY <1>1, PressFacts
<1>3. PICK d \in Maps : d = Self /\ d \in Of("TapHold") /\ d \in Deferrers
  BY <1>2, DeferrersAreMaps
<1>4. StartDefer(d) /\ chosen[d] = NoMap
  <2>1. StartDefer(Self) /\ chosen[Self] = NoMap
    BY DEF TapHoldPress
  <2> QED
    BY <1>3, <2>1 DEF StartDefer
<1>5. /\ \A m : Contains(chain', m) <=> Contains(chain, m) \/ m = d
      /\ ~ Contains(chain, d)
  BY <1>3, <1>4, StartDeferProperties DEF Sound
<1>6. /\ Call(<<>>)
      /\ UNCHANGED <<modified, chosen, step, finished, events, peeked, down,
                     sent>>
  BY DEF TapHoldPress, queueVars, worldVars
<1>7. Counts'
  BY <1>1, <1>2, <1>6 DEF Counts
<1>8. PressedOnly'
  BY <1>1, <1>2, <1>6, PressedStay DEF Tidy
<1>9. PICK list \in Seq(Frames) :
        /\ list = <<>> /\ Call(list)
        /\ \A i \in 1 .. Len(list) : FALSE
  BY <1>6, NoneIsCalled
<1>10. Fitting(list) /\ Fair(list)
  BY <1>1, <1>2, <1>7, <1>9, FittingNone, FairNone
<1>11. Spared(d) /\ OwnCalls(list, d)
  BY <1>2, <1>3, <1>5, <1>6, <1>9, DeferrersAreMaps
     DEF Spared, HoldStays, SeqStays, CountsKept, OwnCalls
<1>12. \A k \in Own : ~ On(k, d)'
  BY <1>2, <1>3, <1>9, OwnWaits DEF Tidy, Pairs
<1>13. Decision(d)'
  <2>1. ~ On("decided", d)' /\ ~ On("forget", d)'
    BY <1>12 DEF Own
  <2>2. chosen'[d] = NoMap /\ count'[d] > 0
    BY <1>2, <1>3, <1>4, <1>6
  <2> QED
    BY <2>1, <2>2 DEF Decision
<1>14. d \notin Of("TapSeq")
  BY <1>3, DeferrersAreMaps
<1> QED
  BY <1>2, <1>3, <1>6, <1>7, <1>8, <1>9, <1>10, <1>11, <1>13, <1>14,
     DeferrerStep

(* A TapHold decides: it leaves the chain, and a call that will choose     *)
(* waits in its place.                                                     *)
LEMMA HelpDecideTidy ==
  ASSUME Sound, Tidy, HelpDecide, ~ failed'
  PROVE  Tidy'
<1>1. /\ calls # <<>> /\ Top \in Frames /\ Top[1] = "decide"
  BY TopCall DEF HelpDecide
<1>2. PICK d \in Maps, x \in Maps :
        /\ d = Self /\ d \in Of("TapHold") /\ d \in Deferrers
        /\ x = Top[3] /\ x \in Below(d)
  BY <1>1, FrameKinds, DeferrersAreMaps DEF Self, Below
<1>3. StopDefer(d)
  <2>1. StopDefer(Self)
    BY DEF HelpDecide
  <2> QED
    BY <1>2, <2>1 DEF StopDefer, Unlink, Place
<1>4. /\ \A m : Contains(chain', m) <=> Contains(chain, m) /\ m # d
      /\ Contains(chain, d)
  BY <1>3, StopDeferProperties DEF Sound
<1>5. /\ Call(<<Press(x), <<"decided", d, x, slot>>>>)
      /\ UNCHANGED <<count, modified, chosen, step, finished, events, peeked,
                     down, sent>>
  BY <1>2 DEF HelpDecide, mapVars, queueVars, worldVars
<1>6. Counts /\ Counts' /\ PressedOnly' /\ ModIfsStay
  BY <1>5 DEF Tidy, Counts, PressedOnly, ModIfsStay
<1>7. PICK f \in Frames, g \in Frames :
        f = Press(x) /\ g = <<"decided", d, x, slot>>
  BY <1>2, FrameMakes DEF Sound, Fields
<1>8. /\ f[1] = "press" /\ f[2] = x
      /\ g[1] = "decided" /\ g[2] = d /\ g[3] = x
  BY <1>7 DEF Press
<1>9. PICK list \in Seq(Frames) :
        /\ list = <<f, g>> /\ Call(list)
        /\ \A i \in 1 .. Len(list) : list[i] = f \/ list[i] = g
  <2>1. Call(<<f, g>>)
    BY <1>5, <1>7
  <2>2. \E list \in Seq(Frames) : AreCalled(list, f, g)
    BY <2>1, TwoAreCalled
  <2> QED
    BY <2>2 DEF AreCalled
<1>10. Fits(f) /\ Fits(g)
  <2>1. Fits(f)
    BY <1>1, <1>2, <1>8, CallsFit DEF Outermost
  <2>2. \A k \in Own : <<Top[1], k>> \in Pairs => <<g[1], k>> \in Pairs
    BY <1>1, <1>8 DEF Pairs, Own
  <2>3. Fits(g)
    BY <1>1, <1>2, <1>8, <2>2, CallsFit DEF Outermost
  <2> QED
    BY <2>1, <2>3
<1>11. Fitting(<<f, g>>)
  <2>1. Over(f, g)
    BY <1>2, <1>8 DEF Over, Outermost, First
  <2> QED
    BY <1>8, <1>10, <2>1, FittingTwo DEF Outermost
<1>12. Fair(<<f, g>>)
  <2>1. Paid
    BY <1>1, <1>5, <1>6, PaidBySilence DEF Silent
  <2>2. ASSUME NEW c \in Maps
        PROVE  /\ Raises(f, c) <=> Lowers(g, c)
               /\ Lowers(f, c) <=> Raises(g, c)
    <3>1. (Raises(f, c) <=> x = c) /\ ~ Lowers(f, c)
      BY <1>8, KeyEffects
    <3>2. (Lowers(g, c) <=> x = c) /\ ~ Raises(g, c)
      BY <1>8, OwnEffects
    <3> QED
      BY <3>1, <3>2
  <2> QED
    BY <1>6, <2>1, <2>2, FairPair
<1>13. OwnCalls(list, d)
  BY <1>8, <1>9 DEF OwnCalls, Tells, Own
<1>14. Spared(d)
  BY <1>2, <1>4, <1>5 DEF Spared, HoldStays, SeqStays
<1>15. Decision(d)'
  <2>1. Decision(d)
    BY <1>2 DEF Tidy, Decisions
  <2>2. chosen[d] = NoMap
    BY <1>4, <2>1 DEF Decision
  <2>3. /\ ~ Rest("forget", d)
        /\ On("forget", d) => Rest("forget", d)
        /\ On("forget", d)' => Rest("forget", d)
        /\ On("let go", d) => Rest("let go", d)
        /\ Rest("let go", d) => On("let go", d)'
    <3>1. \A i \in 1 .. Len(list) : list[i][1] # "forget"
      BY <1>8, <1>9
    <3>2. {"forget", "let go"} \subseteq Own
      BY DEF Own
    <3>3. <<Top[1], "forget">> \notin Pairs
      BY <1>1 DEF Pairs
    <3>4. /\ \A k \in Own : <<Top[1], k>> \notin Pairs => ~ Rest(k, d)
          /\ \A k \in Own : On(k, d) <=> Top[1] = k \/ Rest(k, d)
          /\ \A k \in Own : On(k, d)' <=>
               \/ \E i \in 1 .. Len(list) : list[i][1] = k /\ list[i][2] = d
               \/ Rest(k, d)
      <4>1. calls # <<>> /\ d = Self /\ Call(list) /\ Stacked
        BY <1>1, <1>2, <1>9 DEF Tidy
      <4> QED
        BY <4>1, OwnWaits
    <3> QED
      BY <1>1, <3>1, <3>2, <3>3, <3>4
  <2>4. ~ Contains(chain', d)
    BY <1>4
  <2> QED
    BY <1>4, <1>5, <2>1, <2>2, <2>3, <2>4 DEF Decision
<1>16. d \notin Of("TapSeq")
  BY <1>2, DeferrersAreMaps
<1>17. Fitting(list) /\ Fair(list)
  BY <1>9, <1>11, <1>12
<1> QED
  BY <1>1, <1>2, <1>5, <1>6, <1>9, <1>13, <1>14, <1>15, <1>16, <1>17,
     DeferrerStep

(* The calls of d, before and after.                                       *)
WaitsFor(d, list) ==
  /\ \A k \in Own : <<Top[1], k>> \notin Pairs => ~ Rest(k, d)
  /\ \A k \in Own : On(k, d) <=> Top[1] = k \/ Rest(k, d)
  /\ \A k \in Own : On(k, d)' <=>
       \/ \E i \in 1 .. Len(list) : list[i][1] = k /\ list[i][2] = d
       \/ Rest(k, d)

LEMMA WaitsForIt ==
  ASSUME Sound, Tidy, calls # <<>>, NEW d \in Maps, d = Self,
         NEW list \in Seq(Frames), Call(list)
  PROVE  WaitsFor(d, list)
BY OwnWaits DEF WaitsFor, Tidy

(* A TapHold is released.                                                  *)
LEMMA TapHoldReleaseTidy ==
  ASSUME Sound, Tidy, TapHoldRelease
  PROVE  Tidy'
<1>1. Counts /\ Releasing("TapHold")
  BY DEF Tidy, TapHoldRelease
<1>2. /\ calls # <<>> /\ Top \in Frames /\ Top[1] = "release"
      /\ Self \in Of("TapHold") /\ Self \in Maps
      /\ count' \in [Maps -> Int]
      /\ \A m \in Maps \ {Self} : count'[m] = count[m]
      /\ Paid /\ ModIfsStay
  BY <1>1, ReleaseFacts
<1>3. PICK d \in Maps : d = Self /\ d \in Of("TapHold") /\ d \in Deferrers
  BY <1>2, DeferrersAreMaps
<1>4. UNCHANGED <<modified, chosen, step, finished, chain, events, peeked,
                  down, sent>>
  BY DEF TapHoldRelease, OnlyCalls, deferVars, queueVars, worldVars
<1>5. Counts'
  BY <1>1, <1>2, <1>4 DEF Counts
<1>6. PressedOnly'
  <2>1. \A m \in modified \cup sent : m # Self /\ m \in Maps
    BY <1>1, <1>2 DEF Of, Counts
  <2> QED
    BY <1>2, <1>4, <2>1 DEF PressedOnly, Tidy
<1>7. PICK f \in Frames, g \in Frames :
        f = Decide(d, Tap(d)) /\ g = <<"let go", d>>
  <2>1. Tap(d) \in Below(d)
    BY <1>3, ChildrenAreBelow DEF Of
  <2> QED
    BY <1>3, <2>1, FrameMakes
<1>8. f[1] = "decide" /\ f[2] = d /\ g[1] = "let go" /\ g[2] = d
  BY <1>7 DEF Decide
<1>9. Call(<<f, g>>) \/ Call(<<g>>)
  <2>1. Call((IF chosen[d] = NoMap THEN <<f>> ELSE <<>>) \o <<g>>)
    BY <1>3, <1>7 DEF TapHoldRelease
  <2>2. <<f>> \o <<g>> = <<f, g>> /\ <<>> \o <<g>> = <<g>>
    BY Joined
  <2> QED
    BY <2>1, <2>2
<1>10. Fits(f) /\ Fits(g)
  <2>1. \A k \in Own : <<Top[1], k>> \notin Pairs
    BY <1>2 DEF Pairs
  <2> QED
    BY <1>2, <1>3, <1>8, <2>1, CallsFit DEF Outermost
<1>11. Fitting(<<f, g>>) /\ Fitting(<<g>>)
  <2>1. Over(f, g)
    BY <1>8 DEF Over, Outermost, First, Pairs
  <2>2. Fitting(<<f, g>>)
    BY <1>8, <1>10, <2>1, FittingTwo DEF Outermost
  <2>3. Fitting(<<g>>)
    BY <1>8, <1>10, FittingOne DEF Outermost
  <2> QED
    BY <2>2, <2>3
<1>12. Fair(<<f, g>>) /\ Fair(<<g>>)
  <2>1. Fair(<<f, g>>)
    BY <1>1, <1>2, <1>5, <1>8, SilentTwo DEF Silent
  <2>2. Fair(<<g>>)
    BY <1>1, <1>2, <1>5, <1>8, SilentOne DEF Silent
  <2> QED
    BY <2>1, <2>2
<1>13. PICK list \in Seq(Frames) :
         /\ Call(list) /\ Fitting(list) /\ Fair(list)
         /\ \A i \in 1 .. Len(list) : list[i] = f \/ list[i] = g
         /\ \E i \in 1 .. Len(list) : list[i] = g
  <2>1. CASE Call(<<f, g>>)
    <3>1. PICK l : l = <<f, g>>
      OBVIOUS
    <3>2. l \in Seq(Frames) /\ Len(l) = 2 /\ l[1] = f /\ l[2] = g
      BY <3>1, TwoIsSeq
    <3>3. Call(l) /\ Fitting(l) /\ Fair(l)
      BY <2>1, <3>1, <1>11, <1>12 DEF Call
    <3> QED
      BY <3>2, <3>3
  <2>2. CASE Call(<<g>>)
    <3>1. PICK l : l = <<g>>
      OBVIOUS
    <3>2. l \in Seq(Frames) /\ Len(l) = 1 /\ l[1] = g
      BY <3>1, OneIsSeq
    <3>3. Call(l) /\ Fitting(l) /\ Fair(l)
      BY <2>2, <3>1, <1>11, <1>12 DEF Call
    <3> QED
      BY <3>2, <3>3
  <2> QED
    BY <1>9, <2>1, <2>2
<1>14. OwnCalls(list, d)
  BY <1>8, <1>13 DEF OwnCalls, Tells, Own
<1>15. Spared(d)
  <2>1. \A m \in Deferrers : m # d => m \in Maps /\ count'[m] = count[m]
    BY <1>2, <1>3, DeferrersAreMaps
  <2> QED
    BY <1>4, <2>1, DeferrersAreMaps DEF Spared, HoldStays, SeqStays
<1>16. Decision(d)'
  <2>1. Decision(d)
    BY <1>3 DEF Tidy, Decisions
  <2>2. WaitsFor(d, list)
    BY <1>2, <1>3, <1>13, WaitsForIt
  <2>3. \A i \in 1 .. Len(list) : list[i][1] \in {"decide", "let go"}
    BY <1>8, <1>13
  <2>4. /\ {"decided", "forget", "let go"} \subseteq Own
        /\ \A k \in Own : <<Top[1], k>> \notin Pairs
    BY <1>2 DEF Own, Pairs
  <2>5. ~ On("decided", d)' /\ ~ On("forget", d)'
    BY <2>2, <2>3, <2>4 DEF WaitsFor
  <2>6. On("let go", d)'
    <3>1. \E i \in 1 .. Len(list) : list[i][1] = "let go" /\ list[i][2] = d
      BY <1>8, <1>13
    <3>2. "let go" \in Own
      BY DEF Own
    <3> QED
      BY <2>2, <3>1, <3>2 DEF WaitsFor
  <2> QED
    BY <1>4, <2>1, <2>5, <2>6 DEF Decision
<1>17. d \notin Of("TapSeq")
  BY <1>3, DeferrersAreMaps
<1> QED
  BY <1>2, <1>3, <1>4, <1>5, <1>6, <1>13, <1>14, <1>15, <1>16, <1>17,
     DeferrerStep

(* A TapHold releases what it chose, and forgets it after that.            *)
LEMMA LetGoTidy ==
  ASSUME Sound, Tidy, LetGo, ~ failed'
  PROVE  Tidy'
<1>1. /\ calls # <<>> /\ Top \in Frames /\ Top[1] = "let go"
  BY TopCall DEF LetGo
<1>2. PICK d \in Maps, x \in Maps :
        /\ d = Self /\ d \in Of("TapHold") /\ d \in Deferrers
        /\ x = chosen[d] /\ x \in Below(d) /\ x # NoMap
  <2>1. Self \in Of("TapHold") /\ Self \in Maps /\ Self \in Deferrers
    BY <1>1, FrameKinds, DeferrersAreMaps DEF Self
  <2>2. chosen[Self] \in Below(Self) /\ chosen[Self] # NoMap
    BY <2>1 DEF LetGo, Sound, Fields
  <2> QED
    BY <2>1, <2>2 DEF Below
<1>3. /\ Call(<<Release(x), <<"forget", d>>>>)
      /\ UNCHANGED <<count, modified, chosen, step, finished, chain, events,
                     peeked, down, sent>>
  BY <1>2 DEF LetGo, OnlyCalls, deferVars, queueVars, worldVars
<1>4. Counts /\ Counts' /\ PressedOnly' /\ ModIfsStay
  BY <1>3 DEF Tidy, Counts, PressedOnly, ModIfsStay
<1>5. PICK f \in Frames, g \in Frames :
        f = Release(x) /\ g = <<"forget", d>>
  BY <1>2, FrameMakes
<1>6. f[1] = "release" /\ f[2] = x /\ g[1] = "forget" /\ g[2] = d
  BY <1>5 DEF Release
<1>7. PICK list \in Seq(Frames) :
        /\ list = <<f, g>> /\ Call(list)
        /\ \A i \in 1 .. Len(list) : list[i] = f \/ list[i] = g
  <2>1. Call(<<f, g>>)
    BY <1>3, <1>5
  <2>2. \E list \in Seq(Frames) : AreCalled(list, f, g)
    BY <2>1, TwoAreCalled
  <2> QED
    BY <2>2 DEF AreCalled
<1>8. Fits(f) /\ Fits(g)
  <2>1. Fits(f)
    BY <1>1, <1>2, <1>6, CallsFit DEF Outermost
  <2>2. \A k \in Own : <<Top[1], k>> \notin Pairs
    BY <1>1 DEF Pairs
  <2>3. Fits(g)
    BY <1>1, <1>2, <1>6, <2>2, CallsFit DEF Outermost
  <2> QED
    BY <2>1, <2>3
<1>9. Fitting(<<f, g>>)
  <2>1. Over(f, g)
    BY <1>2, <1>6 DEF Over, Outermost, First
  <2> QED
    BY <1>6, <1>8, <2>1, FittingTwo DEF Outermost
<1>10. Fair(<<f, g>>)
  <2>1. Paid
    BY <1>1, <1>3, <1>4, PaidBySilence DEF Silent
  <2>2. ASSUME NEW c \in Maps
        PROVE  /\ Raises(f, c) <=> Lowers(g, c)
               /\ Lowers(f, c) <=> Raises(g, c)
    <3>1. (Lowers(f, c) <=> x = c) /\ ~ Raises(f, c)
      BY <1>6, KeyEffects
    <3>2. (Raises(g, c) <=> x = c) /\ ~ Lowers(g, c)
      BY <1>2, <1>6, OwnEffects
    <3> QED
      BY <3>1, <3>2
  <2> QED
    BY <1>4, <2>1, <2>2, FairPair
<1>11. OwnCalls(list, d)
  BY <1>6, <1>7 DEF OwnCalls, Tells, Own
<1>12. Spared(d)
  BY <1>3 DEF Spared, HoldStays, SeqStays
<1>13. Call(list) /\ Fitting(list) /\ Fair(list)
  BY <1>7, <1>9, <1>10
<1>14. Decision(d)'
  <2>1. Decision(d)
    BY <1>2 DEF Tidy, Decisions
  <2>2. WaitsFor(d, list)
    BY <1>1, <1>2, <1>13, WaitsForIt
  <2>3. \A i \in 1 .. Len(list) : list[i][1] # "decided"
    BY <1>6, <1>7
  <2>4. {"decided", "forget"} \subseteq Own /\ <<Top[1], "decided">> \notin Pairs
    BY <1>1 DEF Own, Pairs
  <2>5. ~ On("decided", d)'
    BY <2>2, <2>3, <2>4 DEF WaitsFor
  <2>6. On("forget", d)'
    <3>1. \E i \in 1 .. Len(list) : list[i][1] = "forget" /\ list[i][2] = d
      <4>1. Len(list) = 2 /\ list[2] = g
        BY <1>7
      <4> QED
        BY <1>6, <4>1
    <3> QED
      BY <2>2, <2>4, <3>1 DEF WaitsFor
  <2> QED
    BY <1>2, <1>3, <2>1, <2>5, <2>6 DEF Decision
<1>15. d \notin Of("TapSeq")
  BY <1>2, DeferrersAreMaps
<1> QED
  BY <1>1, <1>2, <1>3, <1>4, <1>11, <1>12, <1>13, <1>14, <1>15, DeferrerStep

(* The calls of a TapSeq.                                                  *)

(* A TapSeq presses the keymap of its step.                                *)
LEMMA TapSeqTapsTidy ==
  ASSUME Sound, Tidy, TapSeqTaps, ~ failed'
  PROVE  Tidy'
<1>1. /\ calls # <<>> /\ Top \in Frames /\ Top[1] = "tap"
  BY TopCall DEF TapSeqTaps
<1>2. PICK d \in Maps, x \in Maps :
        /\ d = Self /\ d \in Of("TapSeq")
        /\ x = Tapped(d) /\ x \in Below(d)
  <2>1. Self \in Of("TapSeq") /\ Self \in Maps
    BY <1>1, FrameKinds, DeferrersAreMaps DEF Self
  <2>2. PICK d \in Maps : d = Self
    BY <2>1
  <2>3. Tapped(Self) # NoMap
    BY DEF TapSeqTaps
  <2>4. Tapped(d) # NoMap
    BY <2>2, <2>3 DEF Tapped
  <2>5. Tapped(d) \in Below(d)
    BY <2>4, TappedIsBelow
  <2> QED
    BY <2>1, <2>2, <2>5 DEF Below
<1>3. UNCHANGED <<count, modified, chosen, step, finished, chain, events,
                  peeked, down, sent>>
  BY DEF TapSeqTaps, OnlyCalls, deferVars, queueVars, worldVars
<1>4. Counts /\ Counts' /\ PressedOnly' /\ ModIfsStay
  BY <1>3 DEF Tidy, Counts, PressedOnly, ModIfsStay
<1>5. PICK f \in Frames, g \in Frames :
        f = Press(x) /\ g = <<"finish", d>>
  BY <1>2, FrameMakes
<1>6. f[1] = "press" /\ f[2] = x /\ g[1] = "finish" /\ g[2] = d
  BY <1>5 DEF Press
<1>7. Call(<<f, g>>) \/ Call(<<f>>)
  <2>1. Call(<<Press(Tapped(Self))>>
               \o IF step[Self] = Len(Child[Self]) THEN <<<<"finish", Self>>>>
                  ELSE <<>>)
    BY DEF TapSeqTaps
  <2>2. Tapped(Self) = x
    BY <1>2 DEF Tapped
  <2>3. Call(<<f>> \o <<g>>) \/ Call(<<f>> \o <<>>)
    BY <1>2, <1>5, <2>1, <2>2
  <2>4. <<f>> \o <<g>> = <<f, g>> /\ <<f>> \o <<>> = <<f>>
    BY Joined
  <2> QED
    BY <2>3, <2>4
<1>8. Fits(f) /\ Fits(g)
  <2>1. Fits(f)
    BY <1>1, <1>2, <1>6, CallsFit DEF Outermost
  <2>2. \A k \in Own : <<Top[1], k>> \notin Pairs
    BY <1>1 DEF Pairs
  <2>3. Fits(g)
    BY <1>1, <1>2, <1>6, <2>2, CallsFit DEF Outermost
  <2> QED
    BY <2>1, <2>3
<1>9. Fitting(<<f, g>>) /\ Fitting(<<f>>)
  <2>1. Over(f, g)
    BY <1>2, <1>6 DEF Over, Outermost, First
  <2>2. Fitting(<<f, g>>)
    BY <1>6, <1>8, <2>1, FittingTwo DEF Outermost
  <2>3. Fitting(<<f>>)
    BY <1>6, <1>8, FittingOne DEF Outermost
  <2> QED
    BY <2>2, <2>3
<1>10. Fair(<<f, g>>) /\ Fair(<<f>>)
  <2>1. ASSUME NEW c \in Maps
        PROVE  /\ (Raises(f, c) <=> x = c) /\ ~ Lowers(f, c)
               /\ (Raises(Top, c) <=> x = c) /\ ~ Lowers(Top, c)
               /\ ~ Raises(g, c) /\ ~ Lowers(g, c)
    <3>1. (Raises(f, c) <=> x = c) /\ ~ Lowers(f, c)
      BY <1>6, KeyEffects
    <3>2. (Raises(Top, c) <=> Tapped(Top[2]) = c) /\ ~ Lowers(Top, c)
      BY <1>1, OwnEffects
    <3>3. Tapped(Top[2]) = x
      BY <1>2 DEF Self, Tapped
    <3>4. ~ Raises(g, c) /\ ~ Lowers(g, c)
      BY <1>6, Effects
    <3> QED
      BY <3>1, <3>2, <3>3, <3>4
  <2>2. Fair(<<f>>)
    <3>1. \A c \in Maps :
            count'[c] + Bit(Raises(f, c)) + Bit(Lowers(Top, c))
              = count[c] + Bit(Lowers(f, c)) + Bit(Raises(Top, c))
      BY <1>3, <1>4, <2>1 DEF Bit, Counts
    <3> QED
      BY <1>4, <3>1, FairOne
  <2>3. Fair(<<f, g>>)
    <3>1. \A c \in Maps :
            count'[c] + (Bit(Raises(f, c)) + Bit(Raises(g, c)))
                + Bit(Lowers(Top, c))
              = count[c] + (Bit(Lowers(f, c)) + Bit(Lowers(g, c)))
                  + Bit(Raises(Top, c))
      BY <1>3, <1>4, <2>1 DEF Bit, Counts
    <3> QED
      BY <1>4, <3>1, FairTwo
  <2> QED
    BY <2>2, <2>3
<1>11. PICK list \in Seq(Frames) :
         /\ Call(list) /\ Fitting(list) /\ Fair(list)
         /\ \A i \in 1 .. Len(list) : list[i] = f \/ list[i] = g
  <2>1. CASE Call(<<f, g>>)
    <3>1. PICK list \in Seq(Frames) :
            /\ list = <<f, g>> /\ Call(list)
            /\ \A i \in 1 .. Len(list) : list[i] = f \/ list[i] = g
      <4>1. \E list \in Seq(Frames) : AreCalled(list, f, g)
        BY <2>1, TwoAreCalled
      <4> QED
        BY <4>1 DEF AreCalled
    <3>2. Fitting(list) /\ Fair(list)
      BY <3>1, <1>9, <1>10
    <3> QED
      BY <3>1, <3>2
  <2>2. CASE Call(<<f>>)
    BY <2>2, <1>9, <1>10, OneIsCalled
  <2> QED
    BY <1>7, <2>1, <2>2
<1>12. OwnCalls(list, d)
  BY <1>6, <1>11 DEF OwnCalls, Tells, Own
<1>13. Spared(d)
  BY <1>3 DEF Spared, HoldStays, SeqStays
<1>14. Dance(d)'
  <2>1. Dance(d)
    BY <1>2 DEF Tidy, Dances
  <2>2. WaitsFor(d, list)
    BY <1>1, <1>2, <1>11, WaitsForIt
  <2>3. "tap" \in Own /\ "danced" \in Own
    BY DEF Own
  <2>4. On("tap", d)
    BY <1>1, <2>2, <2>3 DEF WaitsFor
  <2>5. count[d] > 0
    BY <2>1, <2>4 DEF Dance
  <2> QED
    BY <1>3, <2>1, <2>5 DEF Dance
<1>15. d \notin Of("TapHold")
  BY <1>2, DeferrersAreMaps
<1> QED
  BY <1>1, <1>2, <1>3, <1>4, <1>11, <1>12, <1>13, <1>14, <1>15, DeferrerStep

(* The last step ends a dance.                                             *)
LEMMA FinishTidy ==
  ASSUME Sound, Tidy, Finish, ~ failed'
  PROVE  Tidy'
<1>1. /\ calls # <<>> /\ Top \in Frames /\ Top[1] = "finish"
  BY TopCall DEF Finish
<1>2. PICK d \in Maps : d = Self /\ d \in Of("TapSeq")
  BY <1>1, FrameKinds, DeferrersAreMaps DEF Self
<1>3. StopDefer(d)
  <2>1. StopDefer(Self)
    BY DEF Finish
  <2> QED
    BY <1>2, <2>1 DEF StopDefer, Unlink, Place
<1>4. \A m : Contains(chain', m) <=> Contains(chain, m) /\ m # d
  BY <1>3, StopDeferProperties DEF Sound
<1>5. /\ Call(<<>>)
      /\ finished' = finished \cup {d}
      /\ UNCHANGED <<count, modified, chosen, step, events, peeked, down, sent>>
  BY <1>2 DEF Finish, queueVars, worldVars
<1>6. Counts /\ Counts' /\ PressedOnly' /\ ModIfsStay
  BY <1>2, <1>5 DEF Tidy, Counts, PressedOnly, ModIfsStay
<1>7. PICK list \in Seq(Frames) :
        /\ list = <<>> /\ Call(list)
        /\ \A i \in 1 .. Len(list) : FALSE
  BY <1>5, NoneIsCalled
<1>8. Paid
  BY <1>1, <1>5, <1>6, PaidBySilence DEF Silent
<1>9. Fitting(list) /\ Fair(list)
  BY <1>6, <1>7, <1>8, FittingNone, FairNone
<1>10. OwnCalls(list, d) /\ Spared(d)
  BY <1>4, <1>5, <1>7 DEF OwnCalls, Spared, HoldStays, SeqStays
<1>11. Dance(d)'
  <2>1. Dance(d)
    BY <1>2 DEF Tidy, Dances
  <2>2. WaitsFor(d, list)
    BY <1>1, <1>2, <1>7, WaitsForIt
  <2>3. On("finish", d)
    BY <1>1, <2>2 DEF WaitsFor, Own
  <2>4. count[d] > 0
    BY <2>1, <2>3 DEF Dance
  <2> QED
    BY <1>5, <2>4 DEF Dance
<1>12. d \notin Of("TapHold")
  BY <1>2, DeferrersAreMaps
<1> QED
  BY <1>1, <1>2, <1>5, <1>6, <1>7, <1>9, <1>10, <1>11, <1>12, DeferrerStep

(* A TapSeq releases the keymap of its step.                               *)
LEMMA TapSeqLetsOffTidy ==
  ASSUME Sound, Tidy, TapSeqLetsOff, ~ failed'
  PROVE  Tidy'
<1>1. /\ calls # <<>> /\ Top \in Frames /\ Top[1] = "let off"
  BY TopCall DEF TapSeqLetsOff
<1>2. PICK d \in Maps, x \in Maps :
        d = Self /\ x = Tapped(d) /\ x \in Below(d)
  <2>1. PICK d \in Maps : d = Self
    BY <1>1, FrameKinds, DeferrersAreMaps DEF Self
  <2>2. Tapped(Self) # NoMap
    BY DEF TapSeqLetsOff
  <2>3. Tapped(d) # NoMap
    BY <2>1, <2>2 DEF Tapped
  <2>4. Tapped(d) \in Below(d)
    BY <2>3, TappedIsBelow
  <2> QED
    BY <2>1, <2>4 DEF Below
<1>3. UNCHANGED <<count, modified, chosen, step, finished, chain, events,
                  peeked, down, sent>>
  BY DEF TapSeqLetsOff, OnlyCalls, deferVars, queueVars, worldVars
<1>4. Counts /\ Counts'
  BY <1>3 DEF Tidy, Counts
<1>5. PICK f \in Frames : f = Release(x)
  BY <1>2, FrameMakes
<1>6. f[1] = "release" /\ f[2] = x
  BY <1>5 DEF Release
<1>7. Call(<<f>>)
  <2>1. Tapped(Self) = x
    BY <1>2 DEF Tapped
  <2> QED
    BY <1>5, <2>1 DEF TapSeqLetsOff
<1>8. Fitting(<<f>>)
  <2>1. Fits(f)
    BY <1>1, <1>2, <1>6, CallsFit DEF Outermost
  <2> QED
    BY <1>6, <2>1, FittingOne DEF Outermost
<1>9. Fair(<<f>>)
  <2>1. ASSUME NEW c \in Maps
        PROVE  /\ (Lowers(f, c) <=> x = c) /\ ~ Raises(f, c)
               /\ (Lowers(Top, c) <=> x = c) /\ ~ Raises(Top, c)
    <3>1. (Lowers(f, c) <=> x = c) /\ ~ Raises(f, c)
      BY <1>6, KeyEffects
    <3>2. (Lowers(Top, c) <=> Tapped(Top[2]) = c) /\ ~ Raises(Top, c)
      BY <1>1, OwnEffects
    <3>3. Tapped(Top[2]) = x
      BY <1>2 DEF Self, Tapped
    <3> QED
      BY <3>1, <3>2, <3>3
  <2>2. \A c \in Maps :
          count'[c] + Bit(Raises(f, c)) + Bit(Lowers(Top, c))
            = count[c] + Bit(Lowers(f, c)) + Bit(Raises(Top, c))
    BY <1>3, <1>4, <2>1 DEF Bit, Counts
  <2> QED
    BY <1>4, <2>2, FairOne
<1>10. PICK list \in Seq(Frames) :
         /\ Call(list) /\ Fitting(list) /\ Fair(list)
         /\ \A i \in 1 .. Len(list) : list[i] = f
  BY <1>7, <1>8, <1>9, OneIsCalled
<1>11. Plain(list) /\ Top[1] \notin Own
  BY <1>1, <1>6, <1>10 DEF Plain, Tells, Own
<1> QED
  BY <1>1, <1>3, <1>10, <1>11, JustCallsStep

(* What ends a dance presses nothing that stays pressed.                   *)
LEMMA EndDanceCalls ==
  ASSUME Sound, Counts, Counts', Paid, Top \in Frames,
         NEW d \in Maps, d = Self, d \in Of("TapSeq"),
         Top[1] \in {"release", "timeout"}, Call(EndDance(d))
  PROVE  \E list \in Seq(Frames) :
           /\ Call(list) /\ Fitting(list) /\ Fair(list) /\ OwnCalls(list, d)
           /\ \A i \in 1 .. Len(list) : list[i][1] \in {"let off", "danced"}
           /\ \E i \in 1 .. Len(list) : list[i][1] = "danced" /\ list[i][2] = d
<1>1. PICK f \in Frames, g \in Frames :
        f = <<"let off", d>> /\ g = <<"danced", d, slot>>
  BY FrameMakes DEF Sound, Fields
<1>2. f[1] = "let off" /\ f[2] = d /\ g[1] = "danced" /\ g[2] = d
  BY <1>1
<1>3. PICK list \in Seq(Frames) :
        /\ list = <<f, g>> /\ Call(list)
        /\ \A i \in 1 .. Len(list) : list[i] = f \/ list[i] = g
        /\ \E i \in 1 .. Len(list) : list[i] = g
  <2>1. Call(<<f, g>>)
    BY <1>1 DEF EndDance
  <2>2. \E list \in Seq(Frames) : AreCalled(list, f, g)
    BY <2>1, TwoAreCalled
  <2> QED
    BY <2>2 DEF AreCalled
<1>4. Fits(f) /\ Fits(g)
  <2>1. \A k \in Own : <<Top[1], k>> \notin Pairs
    BY DEF Pairs
  <2> QED
    BY <1>2, <2>1, CallsFit DEF Outermost
<1>5. Fitting(<<f, g>>)
  <2>1. Over(f, g)
    BY <1>2 DEF Over, Outermost, First, Pairs
  <2> QED
    BY <1>2, <1>4, <2>1, FittingTwo DEF Outermost
<1>6. Fair(<<f, g>>)
  <2>1. ASSUME NEW c \in Maps
        PROVE  /\ Raises(f, c) <=> Lowers(g, c)
               /\ Lowers(f, c) <=> Raises(g, c)
    <3>1. (Lowers(f, c) <=> Tapped(d) = c) /\ ~ Raises(f, c)
      <4>1. (Lowers(f, c) <=> Tapped(f[2]) = c) /\ ~ Raises(f, c)
        BY <1>2, OwnEffects
      <4> QED
        BY <1>2, <4>1
    <3>2. (Raises(g, c) <=> Tapped(d) = c) /\ ~ Lowers(g, c)
      <4>1. (Raises(g, c) <=> Tapped(g[2]) = c) /\ ~ Lowers(g, c)
        BY <1>2, OwnEffects
      <4> QED
        BY <1>2, <4>1
    <3> QED
      BY <3>1, <3>2
  <2> QED
    BY <2>1, FairPair
<1>7. Fitting(list) /\ Fair(list)
  BY <1>3, <1>5, <1>6
<1>8. OwnCalls(list, d)
  BY <1>2, <1>3 DEF OwnCalls, Tells, Own
<1>9. \E i \in 1 .. Len(list) : list[i][1] = "danced" /\ list[i][2] = d
  <2>1. PICK i \in 1 .. Len(list) : list[i] = g
    BY <1>3
  <2> QED
    BY <1>2, <2>1
<1>10. \A i \in 1 .. Len(list) : list[i][1] \in {"let off", "danced"}
  BY <1>2, <1>3
<1> QED
  BY <1>3, <1>7, <1>8, <1>9, <1>10

(* A TapSeq is released.                                                   *)
LEMMA TapSeqReleaseTidy ==
  ASSUME Sound, Tidy, TapSeqRelease
  PROVE  Tidy'
<1>1. Counts /\ Releasing("TapSeq")
  BY DEF Tidy, TapSeqRelease
<1>2. /\ calls # <<>> /\ Top \in Frames /\ Top[1] = "release"
      /\ Self \in Of("TapSeq") /\ Self \in Maps
      /\ count' \in [Maps -> Int]
      /\ \A m \in Maps \ {Self} : count'[m] = count[m]
      /\ Paid /\ ModIfsStay
  BY <1>1, ReleaseFacts
<1>3. PICK d \in Maps : d = Self /\ d \in Of("TapSeq") /\ d \in Deferrers
  BY <1>2, DeferrersAreMaps
<1>4. UNCHANGED <<modified, chosen, step, finished, chain, events, peeked,
                  down, sent>>
  BY DEF TapSeqRelease, OnlyCalls, deferVars, queueVars, worldVars
<1>5. Counts'
  BY <1>1, <1>2, <1>4 DEF Counts
<1>6. PressedOnly'
  <2>1. \A m \in modified \cup sent : m # Self /\ m \in Maps
    BY <1>1, <1>2 DEF Of, Counts
  <2> QED
    BY <1>2, <1>4, <2>1 DEF PressedOnly, Tidy
<1>7. PICK list \in Seq(Frames) :
        /\ Call(list) /\ Fitting(list) /\ Fair(list) /\ OwnCalls(list, d)
        /\ \A i \in 1 .. Len(list) : list[i][1] \in {"let off", "danced"}
        /\ d \in finished =>
             \E i \in 1 .. Len(list) : list[i][1] = "danced" /\ list[i][2] = d
  <2>1. CASE d \in finished
    <3>1. Call(EndDance(d))
      BY <1>3, <2>1 DEF TapSeqRelease, EndDance
    <3> QED
      BY <1>1, <1>2, <1>3, <1>5, <3>1, EndDanceCalls
  <2>2. CASE d \notin finished
    <3>1. Call(<<>>)
      BY <1>3, <2>2 DEF TapSeqRelease
    <3>2. PICK list \in Seq(Frames) :
            /\ list = <<>> /\ Call(list)
            /\ \A i \in 1 .. Len(list) : FALSE
      BY <3>1, NoneIsCalled
    <3>3. Fitting(list) /\ Fair(list)
      BY <1>1, <1>2, <1>5, <3>2, FittingNone, FairNone
    <3>4. OwnCalls(list, d)
      BY <3>2 DEF OwnCalls
    <3> QED
      BY <2>2, <3>2, <3>3, <3>4
  <2> QED
    BY <2>1, <2>2
<1>8. Spared(d)
  <2>1. \A m \in Deferrers : m # d => m \in Maps /\ count'[m] = count[m]
    BY <1>2, <1>3, DeferrersAreMaps
  <2> QED
    BY <1>4, <2>1, DeferrersAreMaps DEF Spared, HoldStays, SeqStays
<1>9. Dance(d)'
  <2>1. Dance(d)
    BY <1>3 DEF Tidy, Dances
  <2>2. WaitsFor(d, list)
    BY <1>2, <1>3, <1>7, WaitsForIt
  <2>3. /\ {"tap", "finish", "danced"} \subseteq Own
        /\ \A k \in Own : <<Top[1], k>> \notin Pairs
    BY <1>2 DEF Own, Pairs
  <2>4. ~ On("tap", d)' /\ ~ On("finish", d)'
    BY <1>7, <2>2, <2>3 DEF WaitsFor
  <2>5. d \in finished => On("danced", d)'
    BY <1>7, <2>2, <2>3 DEF WaitsFor
  <2> QED
    BY <1>4, <2>1, <2>4, <2>5 DEF Dance
<1>10. d \notin Of("TapHold")
  BY <1>3, DeferrersAreMaps
<1> QED
  BY <1>2, <1>3, <1>4, <1>5, <1>6, <1>7, <1>8, <1>9, <1>10, DeferrerStep

(* The timeout of a TapSeq ends the dance.                                 *)
LEMMA TapDanceTimeoutTidy ==
  ASSUME Sound, Tidy, TapDanceTimeout, ~ failed'
  PROVE  Tidy'
<1>1. /\ calls # <<>> /\ Top \in Frames /\ Top[1] = "timeout"
  BY TopCall DEF TapDanceTimeout
<1>2. PICK d \in Maps : d = Self /\ d \in Of("TapSeq")
  BY <1>1, FrameKinds, DeferrersAreMaps DEF Self, Of, TapDanceTimeout
<1>3. StopDefer(d)
  <2>1. StopDefer(Self)
    BY DEF TapDanceTimeout
  <2> QED
    BY <1>2, <2>1 DEF StopDefer, Unlink, Place
<1>4. \A m : Contains(chain', m) <=> Contains(chain, m) /\ m # d
  BY <1>3, StopDeferProperties DEF Sound
<1>5. /\ finished' = finished \cup {d}
      /\ UNCHANGED <<count, modified, chosen, step, events, peeked, down, sent>>
  BY <1>2 DEF TapDanceTimeout, queueVars, worldVars
<1>6. Counts /\ Counts' /\ PressedOnly' /\ ModIfsStay
  BY <1>2, <1>5 DEF Tidy, Counts, PressedOnly, ModIfsStay
<1>7. Paid
  BY <1>1, <1>5, <1>6, PaidBySilence DEF Silent
<1>8. PICK list \in Seq(Frames) :
        /\ Call(list) /\ Fitting(list) /\ Fair(list) /\ OwnCalls(list, d)
        /\ \A i \in 1 .. Len(list) : list[i][1] \in {"let off", "danced"}
        /\ \/ count[d] > 0
           \/ \E i \in 1 .. Len(list) : list[i][1] = "danced" /\ list[i][2] = d
  <2>1. CASE ~ IsPressed(d)
    <3>1. Call(EndDance(d))
      BY <1>2, <2>1 DEF TapDanceTimeout, EndDance, IsPressed
    <3> QED
      BY <1>1, <1>2, <1>6, <1>7, <3>1, EndDanceCalls
  <2>2. CASE IsPressed(d)
    <3>1. Call(<<>>)
      BY <1>2, <2>2 DEF TapDanceTimeout, IsPressed
    <3>2. PICK list \in Seq(Frames) :
            /\ list = <<>> /\ Call(list)
            /\ \A i \in 1 .. Len(list) : FALSE
      BY <3>1, NoneIsCalled
    <3>3. Fitting(list) /\ Fair(list)
      BY <1>6, <1>7, <3>2, FittingNone, FairNone
    <3>4. OwnCalls(list, d)
      BY <3>2 DEF OwnCalls
    <3> QED
      BY <2>2, <3>2, <3>3, <3>4 DEF IsPressed
  <2> QED
    BY <2>1, <2>2
<1>9. Spared(d)
  BY <1>4, <1>5 DEF Spared, HoldStays, SeqStays
<1>10. Dance(d)'
  <2>1. WaitsFor(d, list)
    BY <1>1, <1>2, <1>8, WaitsForIt
  <2>2. /\ {"tap", "finish", "danced"} \subseteq Own
        /\ \A k \in Own : <<Top[1], k>> \notin Pairs
    BY <1>1 DEF Own, Pairs
  <2>3. ~ On("tap", d)' /\ ~ On("finish", d)'
    BY <1>8, <2>1, <2>2 DEF WaitsFor
  <2>4. count[d] > 0 \/ On("danced", d)'
    BY <1>8, <2>1, <2>2 DEF WaitsFor
  <2> QED
    BY <1>5, <2>3, <2>4 DEF Dance
<1>11. d \notin Of("TapHold")
  BY <1>2, DeferrersAreMaps
<1> QED
  BY <1>1, <1>2, <1>5, <1>6, <1>8, <1>9, <1>10, <1>11, DeferrerStep

(* The keymaps other than d keep and undo what they did.                   *)
OthersKeep(d) ==
  \A c \in Maps : /\ Keepers(c) \ {d} = Keepers(c)' \ {d}
                  /\ Undoers(c) \ {d} = Undoers(c)' \ {d}

(* The presses that a call and what d keeps after it make up for.          *)
FairFor(d, list) ==
  \A c \in Maps :
    count'[c] + Occurs(list, Gains(c)') + Bit(Lowers(Top, c))
              + Bit(d \in Undoers(c)') + Bit(d \in Keepers(c))
      = count[c] + Occurs(list, Dues(c)') + Bit(Raises(Top, c))
              + Bit(d \in Undoers(c)) + Bit(d \in Keepers(c)')

(* A step in which only d keeps or undoes something else than before.      *)
LEMMA EvenStep ==
  ASSUME Sound, Stacked, Balance, Counts, Counts', calls # <<>>,
         OnlySelf, UNCHANGED down,
         NEW list \in Seq(Frames), Call(list),
         NEW d, OthersKeep(d), FairFor(d, list)
  PROVE  Balance'
<1> SUFFICES ASSUME NEW c \in Maps PROVE Even(c)'
  BY DEF Balance
<1>1. /\ Occurs(calls', Gains(c)') =
           Occurs(list, Gains(c)') + Occurs(calls, Gains(c))
             - Bit(Raises(Top, c))
      /\ Occurs(calls', Dues(c)') =
           Occurs(list, Dues(c)') + Occurs(calls, Dues(c))
             - Bit(Lowers(Top, c))
  BY Recount
<1>2. /\ Occurs(list, Gains(c)') \in Nat /\ Occurs(list, Dues(c)') \in Nat
      /\ Bit(Raises(Top, c)) \in Nat /\ Bit(Lowers(Top, c)) \in Nat
      /\ Bit(d \in Keepers(c)) \in Nat /\ Bit(d \in Keepers(c)') \in Nat
      /\ Bit(d \in Undoers(c)) \in Nat /\ Bit(d \in Undoers(c)') \in Nat
  BY OccursIsFinite DEF Bit
<1>3. Cardinality(Keepers(c)') =
        Cardinality(Keepers(c)) - Bit(d \in Keepers(c)) + Bit(d \in Keepers(c)')
  <2>1. IsFiniteSet(Keepers(c)) /\ Keepers(c) \ {d} = Keepers(c)' \ {d}
    BY FiniteParts DEF OthersKeep
  <2> QED
    BY <2>1, CountOfOne
<1>4. Cardinality(Undoers(c)') =
        Cardinality(Undoers(c)) - Bit(d \in Undoers(c)) + Bit(d \in Undoers(c)')
  <2>1. IsFiniteSet(Undoers(c)) /\ Undoers(c) \ {d} = Undoers(c)' \ {d}
    BY FiniteParts DEF OthersKeep
  <2> QED
    BY <2>1, CountOfOne
<1>5. Holders(c)' = Holders(c)
  BY DEF Holders
<1>6. calls' \in Seq(Frames) /\ events' \in Seq(Event)
  BY CallProperties DEF Sound, Fields, OnlySelf
<1>7. PICK n \in Int, g \in Nat, u \in Nat, p \in Nat, w \in Nat, k \in Nat,
           h \in Nat, r \in Nat :
        /\ count[c] = n
        /\ Occurs(calls, Gains(c)) = g
        /\ Cardinality(Undoers(c)) = u
        /\ Occurs(events, Pressed(c)) = p
        /\ Occurs(calls, Dues(c)) = w
        /\ Cardinality(Keepers(c)) = k
        /\ Cardinality(Holders(c)) = h
        /\ Occurs(events, Released(c)) = r
        /\ Even(c) <=> n + g + u + p = w + k + h + r
  BY EvenNumbers
<1>8. PICK n1 \in Int, g1 \in Nat, u1 \in Nat, p1 \in Nat, w1 \in Nat,
           k1 \in Nat, h1 \in Nat, r1 \in Nat :
        /\ count'[c] = n1
        /\ Occurs(calls', Gains(c)') = g1
        /\ Cardinality(Undoers(c)') = u1
        /\ Occurs(events', Pressed(c)') = p1
        /\ Occurs(calls', Dues(c)') = w1
        /\ Cardinality(Keepers(c)') = k1
        /\ Cardinality(Holders(c)') = h1
        /\ Occurs(events', Released(c)') = r1
        /\ Even(c)' <=> n1 + g1 + u1 + p1 = w1 + k1 + h1 + r1
  BY <1>6, EvenNumbersNext
<1>9. PICK lg \in Nat, ld \in Nat, tg \in Nat, td \in Nat, dk \in Nat,
           dn \in Nat, du \in Nat, dv \in Nat :
        /\ Occurs(list, Gains(c)') = lg /\ Occurs(list, Dues(c)') = ld
        /\ Bit(Raises(Top, c)) = tg /\ Bit(Lowers(Top, c)) = td
        /\ Bit(d \in Keepers(c)) = dk /\ Bit(d \in Keepers(c)') = dn
        /\ Bit(d \in Undoers(c)) = du /\ Bit(d \in Undoers(c)') = dv
  BY <1>2
<1>10. g1 = lg + g - tg /\ w1 = ld + w - td
  BY <1>1, <1>7, <1>8, <1>9
<1>11. k1 = k - dk + dn
  BY <1>3, <1>7, <1>8, <1>9
<1>12. u1 = u - du + dv
  BY <1>4, <1>7, <1>8, <1>9
<1>13. n1 + lg + td + dv + dk = n + ld + tg + du + dn
  BY <1>7, <1>8, <1>9 DEF FairFor
<1>14. h1 = h /\ p1 = p /\ r1 = r
  BY <1>5, <1>7, <1>8 DEF Pressed, Released, OnlySelf
<1>15. n + g + u + p = w + k + h + r
  BY <1>7 DEF Balance
<1>16. n1 + g1 + u1 + p1 = w1 + k1 + h1 + r1
  BY <1>10, <1>11, <1>12, <1>13, <1>14, <1>15
<1> QED
  BY <1>8, <1>16

(* What the calls of a list say after the step.                            *)
LEMMA EffectsNext ==
  ASSUME NEW f \in Frames, NEW c \in Maps
  PROVE  /\ f[1] = "press" => (Raises(f, c)' <=> f[2] = c) /\ ~ Lowers(f, c)'
         /\ f[1] = "release" => (Lowers(f, c)' <=> f[2] = c) /\ ~ Raises(f, c)'
         /\ f[1] = "tap" =>
              (Raises(f, c)' <=> (Tapped(f[2]) = c)') /\ ~ Lowers(f, c)'
<1>1. f[1] # "press" => f # Press(c)
  BY DEF Press
<1>2. f[1] # "release" => f # Release(c)
  BY DEF Release
<1>3. ASSUME f[1] \in {"press", "release"}
      PROVE  /\ f[1] = "press" => (f = Press(c) <=> f[2] = c)
             /\ f[1] = "release" => (f = Release(c) <=> f[2] = c)
  <2>1. f # <<"remove last">>
    <3>1. ASSUME f = <<"remove last">> PROVE f[1] = "remove last"
      BY <3>1, FirstOfOne
    <3> QED
      BY <3>1, <1>3
  <2>2. f \in {"press", "release"} \X Maps
    BY <1>3, <2>1 DEF Frames
  <2> QED
    BY <2>2 DEF Press, Release
<1>4. CASE f[1] \in {"press", "release"}
  BY <1>1, <1>2, <1>3, <1>4 DEF Raises, Lowers
<1>5. CASE f[1] \notin {"press", "release"}
  BY <1>1, <1>2, <1>5 DEF Raises, Lowers, Tapped
<1> QED
  BY <1>4, <1>5

(* What a list of one or two calls says after the step.                    *)
LEMMA ListEffects ==
  ASSUME NEW f \in Frames, NEW g \in Frames, NEW c \in Maps
  PROVE  /\ Occurs(<<>>, Gains(c)') = 0 /\ Occurs(<<>>, Dues(c)') = 0
         /\ Occurs(<<f>>, Gains(c)') = Bit(Raises(f, c)')
         /\ Occurs(<<f>>, Dues(c)') = Bit(Lowers(f, c)')
         /\ Occurs(<<f, g>>, Gains(c)') =
              Bit(Raises(f, c)') + Bit(Raises(g, c)')
         /\ Occurs(<<f, g>>, Dues(c)') =
              Bit(Lowers(f, c)') + Bit(Lowers(g, c)')
<1>1. Occurs(<<>>, Gains(c)') = 0 /\ Occurs(<<>>, Dues(c)') = 0
  BY OccursInNone
<1>2. /\ Occurs(<<f>>, Gains(c)') = Bit(f \in Gains(c)')
      /\ Occurs(<<f>>, Dues(c)') = Bit(f \in Dues(c)')
  BY OccursInOne
<1>3. /\ Occurs(<<f, g>>, Gains(c)') =
           Bit(f \in Gains(c)') + Bit(g \in Gains(c)')
      /\ Occurs(<<f, g>>, Dues(c)') =
           Bit(f \in Dues(c)') + Bit(g \in Dues(c)')
  BY OccursInTwo
<1>4. /\ (f \in Gains(c)' <=> Raises(f, c)') /\ (g \in Gains(c)' <=> Raises(g, c)')
      /\ (f \in Dues(c)' <=> Lowers(f, c)') /\ (g \in Dues(c)' <=> Lowers(g, c)')
  BY DEF Gains, Dues
<1>5. /\ Bit(f \in Gains(c)') = Bit(Raises(f, c)')
      /\ Bit(g \in Gains(c)') = Bit(Raises(g, c)')
      /\ Bit(f \in Dues(c)') = Bit(Lowers(f, c)')
      /\ Bit(g \in Dues(c)') = Bit(Lowers(g, c)')
  BY <1>4 DEF Bit
<1>6. /\ Occurs(<<f>>, Gains(c)') = Bit(Raises(f, c)')
      /\ Occurs(<<f>>, Dues(c)') = Bit(Lowers(f, c)')
  BY <1>2, <1>5
<1>7. /\ Occurs(<<f, g>>, Gains(c)') =
           Bit(Raises(f, c)') + Bit(Raises(g, c)')
      /\ Occurs(<<f, g>>, Dues(c)') =
           Bit(Lowers(f, c)') + Bit(Lowers(g, c)')
  BY <1>3, <1>5
<1> QED
  BY <1>1, <1>6, <1>7, Zenon

(* When the others keep theirs.                                            *)
LEMMA OthersKeepTheirs ==
  ASSUME NEW d,
         \A m \in Of("ModIf") : m # d =>
           /\ count'[m] > 0 <=> count[m] > 0
           /\ m \in modified' <=> m \in modified,
         \A m \in Of("TapHold") : m # d => chosen'[m] = chosen[m],
         \A m \in Of("TapSeq") : m # d => step'[m] = step[m],
         modified \subseteq Of("ModIf"), modified' \subseteq Of("ModIf")
  PROVE  OthersKeep(d)
<1> SUFFICES ASSUME NEW c \in Maps
             PROVE  /\ Keepers(c) \ {d} = Keepers(c)' \ {d}
                    /\ Undoers(c) \ {d} = Undoers(c)' \ {d}
  BY DEF OthersKeep
<1>1. ASSUME NEW m \in Maps, m # d PROVE Keeps(m, c)' <=> Keeps(m, c)
  <2>1. CASE Class[m] = "ModIf"
    BY <1>1, <2>1 DEF Keeps, Of
  <2>2. CASE Class[m] = "TapHold"
    BY <1>1, <2>2 DEF Keeps, Of
  <2>3. CASE Class[m] = "TapSeq"
    BY <1>1, <2>3 DEF Keeps, Of, Tapped
  <2>4. CASE Class[m] \notin {"ModIf", "TapHold", "TapSeq"}
    BY <2>4 DEF Keeps
  <2> QED
    BY <2>1, <2>2, <2>3, <2>4
<1>2. Keepers(c) \ {d} = Keepers(c)' \ {d}
  BY <1>1 DEF Keepers
<1>3. Undoers(c) \ {d} = Undoers(c)' \ {d}
  BY DEF Undoers, Of
<1> QED
  BY <1>2, <1>3

(* What the calls of a list say: x is pressed and y released.              *)
Says(list, x, y) ==
  \A c \in Maps : /\ Occurs(list, Gains(c)') = Bit(c = x)
                  /\ Occurs(list, Dues(c)') = Bit(c = y)

KeysOnly(list) ==
  \A i \in 1 .. Len(list) : list[i][1] \in {"press", "release"}

(* The presses and releases of the keymaps of d.                           *)
LEMMA KidsCalled ==
  ASSUME Top \in Frames, Top[1] \in {"press", "release"},
         NEW d \in Maps, d = Self, NEW x \in Below(d), NEW y \in Below(d)
  PROVE  /\ Call(<<Press(x)>>) => \E list \in Seq(Frames) :
              /\ Call(list) /\ Fitting(list) /\ KeysOnly(list)
              /\ Says(list, x, NoMap)
         /\ Call(<<Release(y)>>) => \E list \in Seq(Frames) :
              /\ Call(list) /\ Fitting(list) /\ KeysOnly(list)
              /\ Says(list, NoMap, y)
         /\ Call(<<Release(y), Press(x)>>) => \E list \in Seq(Frames) :
              /\ Call(list) /\ Fitting(list) /\ KeysOnly(list)
              /\ Says(list, x, y)
<1>1. x \in Maps /\ y \in Maps /\ NoMap \notin Maps
  BY KeymapAssumption DEF Below
<1>2. PICK f \in Frames, g \in Frames : f = Press(x) /\ g = Release(y)
  BY <1>1, FrameMakes
<1>3. f[1] = "press" /\ f[2] = x /\ g[1] = "release" /\ g[2] = y
  BY <1>2 DEF Press, Release
<1>4. Fits(f) /\ Fits(g) /\ Over(g, f)
  BY <1>3, CallsFit DEF Outermost, Over, First, Own
<1>5. Fitting(<<f>>) /\ Fitting(<<g>>) /\ Fitting(<<g, f>>)
  BY <1>3, <1>4, FittingOne, FittingTwo DEF Outermost
<1>6. ASSUME NEW c \in Maps
      PROVE  /\ Occurs(<<f>>, Gains(c)') = Bit(c = x)
             /\ Occurs(<<f>>, Dues(c)') = 0
             /\ Occurs(<<g>>, Gains(c)') = 0
             /\ Occurs(<<g>>, Dues(c)') = Bit(c = y)
             /\ Occurs(<<g, f>>, Gains(c)') = Bit(c = x)
             /\ Occurs(<<g, f>>, Dues(c)') = Bit(c = y)
  <2>1. (Raises(f, c)' <=> x = c) /\ ~ Lowers(f, c)'
    BY <1>3, EffectsNext
  <2>2. (Lowers(g, c)' <=> y = c) /\ ~ Raises(g, c)'
    BY <1>3, EffectsNext
  <2>3. /\ Bit(Raises(f, c)') = Bit(c = x) /\ Bit(Lowers(f, c)') = 0
        /\ Bit(Raises(g, c)') = 0 /\ Bit(Lowers(g, c)') = Bit(c = y)
        /\ Bit(c = x) \in Nat /\ Bit(c = y) \in Nat
    BY <2>1, <2>2 DEF Bit
  <2>4. /\ Occurs(<<f>>, Gains(c)') = Bit(Raises(f, c)')
        /\ Occurs(<<f>>, Dues(c)') = Bit(Lowers(f, c)')
        /\ Occurs(<<g>>, Gains(c)') = Bit(Raises(g, c)')
        /\ Occurs(<<g>>, Dues(c)') = Bit(Lowers(g, c)')
    BY ListEffects
  <2>5. /\ Occurs(<<g, f>>, Gains(c)') =
             Bit(Raises(g, c)') + Bit(Raises(f, c)')
        /\ Occurs(<<g, f>>, Dues(c)') =
             Bit(Lowers(g, c)') + Bit(Lowers(f, c)')
    BY ListEffects
  <2>6. /\ Occurs(<<f>>, Gains(c)') = Bit(c = x)
        /\ Occurs(<<f>>, Dues(c)') = 0
        /\ Occurs(<<g>>, Gains(c)') = 0
        /\ Occurs(<<g>>, Dues(c)') = Bit(c = y)
    BY <2>3, <2>4
  <2>7. /\ Occurs(<<g, f>>, Gains(c)') = Bit(c = x)
        /\ Occurs(<<g, f>>, Dues(c)') = Bit(c = y)
    BY <2>3, <2>5
  <2> QED
    BY <2>6, <2>7, Zenon
<1>7. \A c \in Maps : Bit(c = NoMap) = 0
  BY <1>1 DEF Bit
<1>8. Says(<<f>>, x, NoMap) /\ Says(<<g>>, NoMap, y) /\ Says(<<g, f>>, x, y)
  <2>1. Says(<<f>>, x, NoMap)
    BY <1>6, <1>7 DEF Says
  <2>2. Says(<<g>>, NoMap, y)
    BY <1>6, <1>7 DEF Says
  <2>3. Says(<<g, f>>, x, y)
    BY <1>6 DEF Says
  <2> QED
    BY <2>1, <2>2, <2>3
<1>9. ASSUME Call(<<Press(x)>>)
      PROVE  \E list \in Seq(Frames) :
               /\ Call(list) /\ Fitting(list) /\ KeysOnly(list)
               /\ Says(list, x, NoMap)
  <2>1. Call(<<f>>)
    BY <1>2, <1>9
  <2>2. PICK list \in Seq(Frames) :
          /\ list = <<f>> /\ Call(list)
          /\ \A i \in 1 .. Len(list) : list[i] = f
    BY <2>1, OneIsCalled
  <2>3. Fitting(list) /\ Says(list, x, NoMap)
    BY <2>2, <1>5, <1>8
  <2>4. KeysOnly(list)
    BY <2>2, <1>3 DEF KeysOnly
  <2> QED
    BY <2>2, <2>3, <2>4
<1>10. ASSUME Call(<<Release(y)>>)
      PROVE  \E list \in Seq(Frames) :
               /\ Call(list) /\ Fitting(list) /\ KeysOnly(list)
               /\ Says(list, NoMap, y)
  <2>1. Call(<<g>>)
    BY <1>2, <1>10
  <2>2. PICK list \in Seq(Frames) :
          /\ list = <<g>> /\ Call(list)
          /\ \A i \in 1 .. Len(list) : list[i] = g
    BY <2>1, OneIsCalled
  <2>3. Fitting(list) /\ Says(list, NoMap, y)
    BY <2>2, <1>5, <1>8
  <2>4. KeysOnly(list)
    BY <2>2, <1>3 DEF KeysOnly
  <2> QED
    BY <2>2, <2>3, <2>4
<1>11. ASSUME Call(<<Release(y), Press(x)>>)
      PROVE  \E list \in Seq(Frames) :
               /\ Call(list) /\ Fitting(list) /\ KeysOnly(list)
               /\ Says(list, x, y)
  <2>1. Call(<<g, f>>)
    BY <1>2, <1>11
  <2>2. PICK list \in Seq(Frames) :
          /\ list = <<g, f>> /\ Call(list)
          /\ \A i \in 1 .. Len(list) : list[i] = g \/ list[i] = f
    <3>1. \E list \in Seq(Frames) : AreCalled(list, g, f)
      BY <2>1, TwoAreCalled
    <3> QED
      BY <3>1 DEF AreCalled
  <2>3. Fitting(list) /\ Says(list, x, y)
    BY <2>2, <1>5, <1>8
  <2>4. KeysOnly(list)
    BY <2>2, <1>3 DEF KeysOnly
  <2> QED
    BY <2>2, <2>3, <2>4
<1> QED
  BY <1>9, <1>10, <1>11

(* A ModIf keeps what it pressed and undoes what it released.              *)
LEMMA ModIfStep ==
  ASSUME Sound, Tidy, calls # <<>>, Counts', PressedOnly',
         NEW d \in Maps, d = Self, d \in Of("ModIf"),
         Top[1] \in {"press", "release"},
         UNCHANGED <<chosen, step, finished, chain, events, peeked, down>>,
         \A m \in Maps : m # d => count'[m] = count[m],
         \A m \in Maps : m # d => (m \in modified' <=> m \in modified),
         NEW list \in Seq(Frames), Call(list), Fitting(list), KeysOnly(list),
         FairFor(d, list)
  PROVE  Tidy'
<1>1. Stacked'
  BY StackedStep DEF Tidy
<1>2. Handled'
  <2>1. \A i \in 1 .. Len(list) : Tells(list[i])
    BY DEF KeysOnly, Tells
  <2> QED
    BY <2>1, HandledStep DEF Tidy
<1>3. OthersKeep(d)
  BY DeferrersAreMaps, OthersKeepTheirs DEF Tidy, Counts
<1>4. OnlySelf
  BY DEF OnlySelf
<1>5. Balance'
  BY <1>3, <1>4, EvenStep DEF Tidy
<1>6. \A m \in Deferrers : m \in Maps /\ m # d
  BY DeferrersAreMaps DEF Of, Deferrers
<1>7. /\ Top[1] \notin HoldsOwn /\ Top[1] \notin SeqsOwn
      /\ \A i \in 1 .. Len(list) : list[i][1] \notin HoldsOwn
      /\ \A i \in 1 .. Len(list) : list[i][1] \notin SeqsOwn
  BY DEF KeysOnly, HoldsOwn, SeqsOwn
<1>8. Decisions'
  <2>1. \A m \in Of("TapHold") : count[m] > 0 => count'[m] > 0
    BY <1>6, DeferrersAreMaps
  <2> QED
    BY <1>7, <2>1, DecisionsSame DEF Tidy
<1>9. Dances'
  <2>1. \A m \in Of("TapSeq") : count[m] > 0 => count'[m] > 0
    BY <1>6, DeferrersAreMaps
  <2> QED
    BY <1>7, <2>1, DancesSame DEF Tidy
<1> QED
  BY <1>1, <1>2, <1>5, <1>8, <1>9 DEF Tidy

(* A ModIf presses one of two keymaps.                                     *)
LEMMA ModIfPressTidy ==
  ASSUME Sound, Tidy, ModIfPress, ~ failed'
  PROVE  Tidy'
<1>1. Counts /\ Pressing("ModIf")
  BY DEF Tidy, ModIfPress
<1>2. /\ calls # <<>> /\ Top \in Frames /\ Top[1] = "press"
      /\ Self \in Of("ModIf") /\ Self \in Maps
      /\ count' \in [Maps -> Int]
      /\ count[Self] = 0 /\ count'[Self] = 1
      /\ \A m \in Maps \ {Self} : count'[m] = count[m]
      /\ CountsKept /\ Paid
  BY <1>1, PressFacts
<1>3. PICK d \in Maps : d = Self /\ d \in Of("ModIf")
  BY <1>2
<1>4. UNCHANGED <<chosen, step, finished, chain, events, peeked, down, sent>>
  BY DEF ModIfPress, OnlyCalls, deferVars, queueVars, worldVars
<1>5. d \notin modified
  BY <1>3 DEF ModIfPress
<1>6. /\ Modifier(d) \in Below(d) /\ Modified(d) \in Below(d)
      /\ Original(d) \in Below(d)
      /\ Below(d) \subseteq Maps /\ NoMap \notin Maps
  BY <1>3, ChildrenAreBelow, KeymapAssumption DEF Of, Below
<1>7. PICK list \in Seq(Frames), x \in Maps, y \in Maps \cup {NoMap} :
        /\ Call(list) /\ Fitting(list) /\ KeysOnly(list) /\ Says(list, x, y)
        /\ \/ /\ modified' = modified \cup {d}
              /\ x = Modified(d)
              /\ y = IF Undoes(d) THEN Modifier(d) ELSE NoMap
           \/ modified' = modified /\ x = Original(d) /\ y = NoMap
  <2>1. CASE modified' = modified \cup {Self}
             /\ Call((IF Undoes(Self) THEN <<Release(Modifier(Self))>> ELSE <<>>)
                     \o <<Press(Modified(Self))>>)
    <3>1. PICK f \in Frames, g \in Frames :
            f = Release(Modifier(d)) /\ g = Press(Modified(d))
      BY <1>6, FrameMakes
    <3>2. <<f>> \o <<g>> = <<f, g>> /\ <<>> \o <<g>> = <<g>>
      BY Joined
    <3>3. Call((IF Undoes(d) THEN <<f>> ELSE <<>>) \o <<g>>)
      BY <1>3, <2>1, <3>1
    <3>4. CASE Undoes(d)
      <4>1. Call(<<f, g>>)
        BY <3>2, <3>3, <3>4
      <4>2. Call(<<Release(Modifier(d)), Press(Modified(d))>>)
        BY <3>1, <4>1
      <4>3. \E list \in Seq(Frames) :
              /\ Call(list) /\ Fitting(list) /\ KeysOnly(list)
              /\ Says(list, Modified(d), Modifier(d))
        BY <1>2, <1>3, <1>6, <4>2, KidsCalled
      <4> QED
        BY <1>3, <1>6, <2>1, <3>4, <4>3
    <3>5. CASE ~ Undoes(d)
      <4>1. Call(<<g>>)
        BY <3>2, <3>3, <3>5
      <4>2. Call(<<Press(Modified(d))>>)
        BY <3>1, <4>1
      <4>3. \E list \in Seq(Frames) :
              /\ Call(list) /\ Fitting(list) /\ KeysOnly(list)
              /\ Says(list, Modified(d), NoMap)
        BY <1>2, <1>3, <1>6, <4>2, KidsCalled
      <4> QED
        BY <1>3, <1>6, <2>1, <3>5, <4>3
    <3> QED
      BY <3>4, <3>5
  <2>2. CASE modified' = modified /\ Call(<<Press(Original(Self))>>)
    <3>1. Call(<<Press(Original(d))>>)
      BY <1>3, <2>2
    <3>2. \E list \in Seq(Frames) :
            /\ Call(list) /\ Fitting(list) /\ KeysOnly(list)
            /\ Says(list, Original(d), NoMap)
      BY <1>2, <1>3, <1>6, <3>1, KidsCalled
    <3> QED
      BY <1>6, <2>2, <3>2
  <2> QED
    BY <2>1, <2>2 DEF ModIfPress
<1>8. Counts'
  BY <1>1, <1>2, <1>3, <1>4, <1>7 DEF Counts
<1>9. PressedOnly'
  <2>1. modified \subseteq Maps /\ sent \subseteq Maps
    BY <1>1 DEF Counts, Of
  <2> QED
    BY <1>2, <1>3, <1>4, <1>7, <2>1 DEF Tidy, PressedOnly, CountsKept
<1>10. \A m \in Maps : m # d =>
         count'[m] = count[m] /\ (m \in modified' <=> m \in modified)
  BY <1>2, <1>3, <1>7
<1>11. FairFor(d, list)
  <2> SUFFICES ASSUME NEW c \in Maps
               PROVE  count'[c] + Occurs(list, Gains(c)') + Bit(Lowers(Top, c))
                        + Bit(d \in Undoers(c)') + Bit(d \in Keepers(c))
                      = count[c] + Occurs(list, Dues(c)') + Bit(Raises(Top, c))
                        + Bit(d \in Undoers(c)) + Bit(d \in Keepers(c)')
    BY DEF FairFor
  <2>1. d \notin Keepers(c) /\ d \notin Undoers(c)
    BY <1>2, <1>3, <1>5 DEF Keepers, Keeps, Undoers, Of
  <2>2. d \in Keepers(c)' <=> c = x
    BY <1>2, <1>3, <1>5, <1>7 DEF Keepers, Keeps, Of
  <2>3. d \in Undoers(c)' <=> c = y
    BY <1>3, <1>5, <1>6, <1>7 DEF Undoers
  <2>4. Occurs(list, Gains(c)') = Bit(c = x) /\ Occurs(list, Dues(c)') = Bit(c = y)
    BY <1>7 DEF Says
  <2>5. /\ Bit(d \in Keepers(c)) = 0 /\ Bit(d \in Undoers(c)) = 0
        /\ Bit(d \in Keepers(c)') = Bit(c = x)
        /\ Bit(d \in Undoers(c)') = Bit(c = y)
    BY <2>1, <2>2, <2>3 DEF Bit
  <2>6. count'[c] + Bit(Lowers(Top, c)) = count[c] + Bit(Raises(Top, c))
    BY <1>2 DEF Paid
  <2>7. PICK n \in Int, n1 \in Int, a \in Nat, b \in Nat, l \in Nat, r \in Nat :
          /\ count[c] = n /\ count'[c] = n1
          /\ Bit(c = x) = a /\ Bit(c = y) = b
          /\ Bit(Lowers(Top, c)) = l /\ Bit(Raises(Top, c)) = r
    BY <1>1, <1>8 DEF Counts, Bit
  <2>8. n1 + a + l + b + 0 = n + b + r + 0 + a
    BY <2>6, <2>7
  <2> QED
    BY <2>4, <2>5, <2>7, <2>8
<1> QED
  BY <1>2, <1>3, <1>4, <1>7, <1>8, <1>9, <1>10, <1>11, ModIfStep

(* It releases that one.                                                   *)
LEMMA ModIfReleaseTidy ==
  ASSUME Sound, Tidy, ModIfRelease
  PROVE  Tidy'
<1>1. Counts /\ Releasing("ModIf")
  BY DEF Tidy, ModIfRelease
<1>2. /\ calls # <<>> /\ Top \in Frames /\ Top[1] = "release"
      /\ Self \in Of("ModIf") /\ Self \in Maps
      /\ count' \in [Maps -> Int]
      /\ count[Self] = 1 /\ count'[Self] = 0
      /\ \A m \in Maps \ {Self} : count'[m] = count[m]
      /\ Paid
  BY <1>1, ReleaseFacts
<1>3. PICK d \in Maps : d = Self /\ d \in Of("ModIf")
  BY <1>2
<1>4. /\ UNCHANGED <<chosen, step, finished, chain, events, peeked, down, sent>>
      /\ modified' = modified \ {d}
  BY <1>3 DEF ModIfRelease, OnlyCalls, deferVars, queueVars, worldVars
<1>5. /\ Modifier(d) \in Below(d) /\ Modified(d) \in Below(d)
      /\ Original(d) \in Below(d)
      /\ Below(d) \subseteq Maps /\ NoMap \notin Maps
  BY <1>3, ChildrenAreBelow, KeymapAssumption DEF Of, Below
<1>6. PICK list \in Seq(Frames), x \in Maps, y \in Maps \cup {NoMap} :
        /\ Call(list) /\ Fitting(list) /\ KeysOnly(list) /\ Says(list, y, x)
        /\ \/ /\ d \in modified
              /\ x = Modified(d)
              /\ y = IF Undoes(d) THEN Modifier(d) ELSE NoMap
           \/ d \notin modified /\ x = Original(d) /\ y = NoMap
  <2>1. CASE d \in modified
    <3>1. PICK f \in Frames, g \in Frames :
            f = Release(Modified(d)) /\ g = Press(Modifier(d))
      BY <1>5, FrameMakes
    <3>2. <<f>> \o <<g>> = <<f, g>> /\ <<f>> \o <<>> = <<f>>
      BY Joined
    <3>3. Call(<<f>> \o IF Undoes(d) THEN <<g>> ELSE <<>>)
      BY <1>3, <2>1, <3>1 DEF ModIfRelease, WasModified
    <3>4. CASE Undoes(d)
      <4>1. Call(<<f, g>>)
        BY <3>2, <3>3, <3>4
      <4>2. Call(<<Release(Modified(d)), Press(Modifier(d))>>)
        BY <3>1, <4>1
      <4>3. \E list \in Seq(Frames) :
              /\ Call(list) /\ Fitting(list) /\ KeysOnly(list)
              /\ Says(list, Modifier(d), Modified(d))
        BY <1>2, <1>3, <1>5, <4>2, KidsCalled
      <4> QED
        BY <1>5, <2>1, <3>4, <4>3
    <3>5. CASE ~ Undoes(d)
      <4>1. Call(<<f>>)
        BY <3>2, <3>3, <3>5
      <4>2. Call(<<Release(Modified(d))>>)
        BY <3>1, <4>1
      <4>3. \E list \in Seq(Frames) :
              /\ Call(list) /\ Fitting(list) /\ KeysOnly(list)
              /\ Says(list, NoMap, Modified(d))
        BY <1>2, <1>3, <1>5, <4>2, KidsCalled
      <4> QED
        BY <1>5, <2>1, <3>5, <4>3
    <3> QED
      BY <3>4, <3>5
  <2>2. CASE d \notin modified
    <3>1. Call(<<Release(Original(d))>>)
      BY <1>3, <2>2 DEF ModIfRelease, WasModified
    <3>2. \E list \in Seq(Frames) :
            /\ Call(list) /\ Fitting(list) /\ KeysOnly(list)
            /\ Says(list, NoMap, Original(d))
      BY <1>2, <1>3, <1>5, <3>1, KidsCalled
    <3> QED
      BY <1>5, <2>2, <3>2
  <2> QED
    BY <2>1, <2>2
<1>7. Counts'
  BY <1>1, <1>2, <1>4 DEF Counts
<1>8. PressedOnly'
  <2>1. \A m \in modified' \cup sent' : m \in Maps /\ m # d
    BY <1>1, <1>3, <1>4 DEF Counts, Of
  <2> QED
    BY <1>2, <1>3, <1>4, <2>1 DEF Tidy, PressedOnly
<1>9. \A m \in Maps : m # d =>
         count'[m] = count[m] /\ (m \in modified' <=> m \in modified)
  BY <1>2, <1>3, <1>4
<1>10. FairFor(d, list)
  <2> SUFFICES ASSUME NEW c \in Maps
               PROVE  count'[c] + Occurs(list, Gains(c)') + Bit(Lowers(Top, c))
                        + Bit(d \in Undoers(c)') + Bit(d \in Keepers(c))
                      = count[c] + Occurs(list, Dues(c)') + Bit(Raises(Top, c))
                        + Bit(d \in Undoers(c)) + Bit(d \in Keepers(c)')
    BY DEF FairFor
  <2>1. d \notin Keepers(c)' /\ d \notin Undoers(c)'
    BY <1>2, <1>3, <1>4 DEF Keepers, Keeps, Undoers, Of
  <2>2. d \in Keepers(c) <=> c = x
    BY <1>2, <1>3, <1>6 DEF Keepers, Keeps, Of
  <2>3. d \in Undoers(c) <=> c = y
    BY <1>3, <1>5, <1>6 DEF Undoers
  <2>4. Occurs(list, Gains(c)') = Bit(c = y) /\ Occurs(list, Dues(c)') = Bit(c = x)
    BY <1>6 DEF Says
  <2>5. /\ Bit(d \in Keepers(c)') = 0 /\ Bit(d \in Undoers(c)') = 0
        /\ Bit(d \in Keepers(c)) = Bit(c = x)
        /\ Bit(d \in Undoers(c)) = Bit(c = y)
    BY <2>1, <2>2, <2>3 DEF Bit
  <2>6. count'[c] + Bit(Lowers(Top, c)) = count[c] + Bit(Raises(Top, c))
    BY <1>2 DEF Paid
  <2>7. PICK n \in Int, n1 \in Int, a \in Nat, b \in Nat, l \in Nat, r \in Nat :
          /\ count[c] = n /\ count'[c] = n1
          /\ Bit(c = x) = a /\ Bit(c = y) = b
          /\ Bit(Lowers(Top, c)) = l /\ Bit(Raises(Top, c)) = r
    BY <1>1, <1>7 DEF Counts, Bit
  <2>8. n1 + l = n + r
    BY <2>6, <2>7
  <2>9. n1 + b + l + 0 + a = n + a + r + b + 0
    BY <2>8
  <2> QED
    BY <2>4, <2>5, <2>7, <2>9
<1> QED
  BY <1>2, <1>3, <1>4, <1>6, <1>7, <1>8, <1>9, <1>10, ModIfStep

(* What a deferrer keeps.                                                  *)
LEMMA HoldKeeps ==
  ASSUME Counts, Counts', NEW d \in Of("TapHold"), NEW c \in Maps
  PROVE  /\ d \in Keepers(c) <=> chosen[d] = c
         /\ d \in Keepers(c)' <=> chosen'[d] = c
         /\ Bit(d \in Undoers(c)) = 0 /\ Bit(d \in Undoers(c)') = 0
<1>1. d \in Maps /\ Class[d] = "TapHold"
  BY DEF Of
<1>2. d \notin Undoers(c) /\ d \notin Undoers(c)'
  BY <1>1 DEF Undoers, Counts, Of
<1> QED
  BY <1>1, <1>2 DEF Keepers, Keeps, Bit

LEMMA SeqKeeps ==
  ASSUME Counts, Counts', NEW d \in Of("TapSeq"), NEW c \in Maps
  PROVE  /\ d \in Keepers(c) <=> Tapped(d) = c
         /\ d \in Keepers(c)' <=> Tapped(d)' = c
         /\ Bit(d \in Undoers(c)) = 0 /\ Bit(d \in Undoers(c)') = 0
<1>1. d \in Maps /\ Class[d] = "TapSeq"
  BY DEF Of
<1>2. d \notin Undoers(c) /\ d \notin Undoers(c)'
  BY <1>1 DEF Undoers, Counts, Of
<1>3. d \in Keepers(c) <=> Tapped(d) = c
  BY <1>1 DEF Keepers, Keeps
<1>4. d \in Keepers(c)' <=> Tapped(d)' = c
  BY <1>1 DEF Keepers, Keeps
<1> QED
  BY <1>2, <1>3, <1>4 DEF Bit

(* A deferrer chooses, forgets or steps on.                                *)
LEMMA DeferrerKeepsStep ==
  ASSUME Sound, Tidy, calls # <<>>, Counts', PressedOnly',
         OnlySelf, UNCHANGED down, ModIfsStay, UNCHANGED modified,
         NEW list \in Seq(Frames), Call(list), Fitting(list),
         NEW d, d = Self, Spared(d), OwnCalls(list, d), FairFor(d, list),
         d \in Of("TapHold") => Decision(d)',
         d \in Of("TapSeq") => Dance(d)'
  PROVE  Tidy'
<1>1. Stacked'
  BY StackedStep DEF Tidy
<1>2. Handled'
  <2>1. UNCHANGED <<events, peeked>>
    BY DEF OnlySelf
  <2>2. \A i \in 1 .. Len(list) : Tells(list[i])
    BY DEF OwnCalls
  <2> QED
    BY <2>1, <2>2, HandledStep DEF Tidy
<1>3. Decisions' /\ Dances'
  BY SparedStep
<1>4. OthersKeep(d)
  <2>1. \A m \in Of("ModIf") : /\ count'[m] > 0 <=> count[m] > 0
                               /\ m \in modified' <=> m \in modified
    BY DEF ModIfsStay
  <2>2. /\ \A m \in Of("TapHold") : m # d => chosen'[m] = chosen[m]
        /\ \A m \in Of("TapSeq") : m # d => step'[m] = step[m]
    BY DEF OnlySelf
  <2>3. modified \subseteq Of("ModIf") /\ modified' \subseteq Of("ModIf")
    BY DEF Tidy, Counts
  <2> QED
    BY <2>1, <2>2, <2>3, OthersKeepTheirs
<1>5. Balance'
  BY <1>4, EvenStep DEF Tidy
<1> QED
  BY <1>1, <1>2, <1>3, <1>5 DEF Tidy

(* A TapHold remembers what it chose.                                      *)
LEMMA DecidedTidy ==
  ASSUME Sound, Tidy, Decided
  PROVE  Tidy'
<1>1. /\ calls # <<>> /\ Top \in Frames /\ Top[1] = "decided"
  BY TopCall DEF Decided
<1>2. PICK d \in Maps, x \in Maps :
        /\ d = Self /\ d \in Of("TapHold") /\ d \in Deferrers
        /\ x = Top[3] /\ NoMap \notin Maps
  BY <1>1, FrameKinds, DeferrersAreMaps, KeymapAssumption DEF Self, Below
<1>3. /\ Call(<<>>)
      /\ chosen' = [chosen EXCEPT ![d] = x]
      /\ UNCHANGED <<count, modified, step, finished, chain, events, peeked,
                     down, sent>>
  BY <1>2 DEF Decided, deferVars, queueVars, worldVars
<1>4. Counts /\ Counts' /\ PressedOnly' /\ ModIfsStay
  BY <1>3 DEF Tidy, Counts, PressedOnly, ModIfsStay
<1>5. PICK list \in Seq(Frames) :
        /\ list = <<>> /\ Call(list)
        /\ \A i \in 1 .. Len(list) : FALSE
  BY <1>3, NoneIsCalled
<1>6. Fitting(list)
  BY <1>5, FittingNone
<1>7. /\ chosen'[d] = x
      /\ \A m \in Of("TapHold") : m # d => chosen'[m] = chosen[m]
  BY <1>2, <1>3 DEF Sound, Fields
<1>8. OnlySelf /\ Spared(d) /\ OwnCalls(list, d)
  BY <1>1, <1>2, <1>3, <1>5, <1>7
     DEF OnlySelf, Spared, HoldStays, SeqStays, OwnCalls
<1>9. WaitsFor(d, list) /\ Decision(d)
  BY <1>1, <1>2, <1>5, WaitsForIt DEF Tidy, Decisions
<1>10. /\ On("decided", d)
       /\ ~ On("decided", d)' /\ ~ On("forget", d)' /\ ~ On("forget", d)
       /\ On("let go", d) => On("let go", d)'
  <2>1. /\ {"decided", "forget", "let go"} \subseteq Own
        /\ <<Top[1], "decided">> \notin Pairs
        /\ <<Top[1], "forget">> \notin Pairs
    BY <1>1 DEF Own, Pairs
  <2> QED
    BY <1>1, <1>5, <1>9, <2>1 DEF WaitsFor
<1>11. chosen[d] = NoMap
  BY <1>9, <1>10 DEF Decision
<1>12. Decision(d)'
  <2>1. ~ Contains(chain', d)
    BY <1>3, <1>9, <1>10 DEF Decision
  <2>2. count'[d] > 0 \/ On("let go", d)'
    BY <1>3, <1>9, <1>10 DEF Decision
  <2> QED
    BY <1>10, <2>1, <2>2 DEF Decision
<1>13. FairFor(d, list)
  <2> SUFFICES ASSUME NEW c \in Maps
               PROVE  count'[c] + Occurs(list, Gains(c)') + Bit(Lowers(Top, c))
                        + Bit(d \in Undoers(c)') + Bit(d \in Keepers(c))
                      = count[c] + Occurs(list, Dues(c)') + Bit(Raises(Top, c))
                        + Bit(d \in Undoers(c)) + Bit(d \in Keepers(c)')
    BY DEF FairFor
  <2>1. (Lowers(Top, c) <=> x = c) /\ ~ Raises(Top, c)
    BY <1>1, <1>2, OwnEffects
  <2>2. /\ d \notin Keepers(c)
        /\ d \in Keepers(c)' <=> x = c
        /\ Bit(d \in Undoers(c)) = 0 /\ Bit(d \in Undoers(c)') = 0
    BY <1>2, <1>4, <1>7, <1>11, HoldKeeps
  <2>3. /\ Bit(Raises(Top, c)) = 0 /\ Bit(Lowers(Top, c)) = Bit(x = c)
        /\ Bit(d \in Keepers(c)) = 0 /\ Bit(d \in Keepers(c)') = Bit(x = c)
    BY <2>1, <2>2 DEF Bit
  <2>4. Occurs(list, Gains(c)') = 0 /\ Occurs(list, Dues(c)') = 0
    BY <1>5, OccursInNone
  <2>5. PICK n \in Int, a \in Nat :
          count[c] = n /\ count'[c] = n /\ Bit(x = c) = a
    BY <1>3, <1>4 DEF Counts, Bit
  <2>6. n + 0 + a + 0 + 0 = n + 0 + 0 + 0 + a
    OBVIOUS
  <2> QED
    BY <2>2, <2>3, <2>4, <2>5, <2>6
<1>14. d \notin Of("TapSeq")
  BY <1>2, DeferrersAreMaps
<1> QED
  BY <1>1, <1>2, <1>3, <1>4, <1>5, <1>6, <1>8, <1>12, <1>13, <1>14,
     DeferrerKeepsStep

(* It forgets it.                                                          *)
LEMMA ForgetTidy ==
  ASSUME Sound, Tidy, Forget
  PROVE  Tidy'
<1>1. /\ calls # <<>> /\ Top \in Frames /\ Top[1] = "forget"
  BY TopCall DEF Forget
<1>2. PICK d \in Maps :
        /\ d = Self /\ d \in Of("TapHold") /\ d \in Deferrers
        /\ NoMap \notin Maps
  BY <1>1, FrameKinds, DeferrersAreMaps, KeymapAssumption DEF Self, Below
<1>3. /\ Call(<<>>)
      /\ chosen' = [chosen EXCEPT ![d] = NoMap]
      /\ UNCHANGED <<count, modified, step, finished, chain, events, peeked,
                     down, sent>>
  BY <1>2 DEF Forget, deferVars, queueVars, worldVars
<1>4. Counts /\ Counts' /\ PressedOnly' /\ ModIfsStay
  BY <1>3 DEF Tidy, Counts, PressedOnly, ModIfsStay
<1>5. PICK list \in Seq(Frames) :
        /\ list = <<>> /\ Call(list)
        /\ \A i \in 1 .. Len(list) : FALSE
  BY <1>3, NoneIsCalled
<1>6. Fitting(list)
  BY <1>5, FittingNone
<1>7. /\ chosen'[d] = NoMap
      /\ \A m \in Of("TapHold") : m # d => chosen'[m] = chosen[m]
  BY <1>2, <1>3 DEF Sound, Fields
<1>8. OnlySelf /\ Spared(d) /\ OwnCalls(list, d)
  BY <1>1, <1>2, <1>3, <1>5, <1>7
     DEF OnlySelf, Spared, HoldStays, SeqStays, OwnCalls
<1>9. WaitsFor(d, list) /\ Decision(d)
  BY <1>1, <1>2, <1>5, WaitsForIt DEF Tidy, Decisions
<1>10. /\ On("forget", d) /\ ~ On("forget", d)'
       /\ On("decided", d)' => On("decided", d)
  <2>1. /\ {"decided", "forget"} \subseteq Own
        /\ <<Top[1], "forget">> \notin Pairs
    BY <1>1 DEF Own, Pairs
  <2> QED
    BY <1>1, <1>5, <1>9, <2>1 DEF WaitsFor
<1>11. Decision(d)'
  <2>1. ~ Contains(chain', d) /\ ~ On("decided", d)'
    BY <1>3, <1>9, <1>10 DEF Decision
  <2> QED
    BY <1>7, <1>10, <2>1 DEF Decision
<1>12. FairFor(d, list)
  <2> SUFFICES ASSUME NEW c \in Maps
               PROVE  count'[c] + Occurs(list, Gains(c)') + Bit(Lowers(Top, c))
                        + Bit(d \in Undoers(c)') + Bit(d \in Keepers(c))
                      = count[c] + Occurs(list, Dues(c)') + Bit(Raises(Top, c))
                        + Bit(d \in Undoers(c)) + Bit(d \in Keepers(c)')
    BY DEF FairFor
  <2>1. (Raises(Top, c) <=> chosen[d] = c) /\ ~ Lowers(Top, c)
    <3>1. (Raises(Top, c) <=> chosen[Top[2]] = c) /\ ~ Lowers(Top, c)
      BY <1>1, OwnEffects
    <3> QED
      BY <1>2, <3>1 DEF Self
  <2>2. /\ d \notin Keepers(c)'
        /\ d \in Keepers(c) <=> chosen[d] = c
        /\ Bit(d \in Undoers(c)) = 0 /\ Bit(d \in Undoers(c)') = 0
    BY <1>2, <1>4, <1>7, HoldKeeps
  <2>3. /\ Bit(Lowers(Top, c)) = 0 /\ Bit(Raises(Top, c)) = Bit(chosen[d] = c)
        /\ Bit(d \in Keepers(c)') = 0
        /\ Bit(d \in Keepers(c)) = Bit(chosen[d] = c)
    BY <2>1, <2>2 DEF Bit
  <2>4. Occurs(list, Gains(c)') = 0 /\ Occurs(list, Dues(c)') = 0
    BY <1>5, OccursInNone
  <2>5. PICK n \in Int, a \in Nat :
          count[c] = n /\ count'[c] = n /\ Bit(chosen[d] = c) = a
    BY <1>3, <1>4 DEF Counts, Bit
  <2>6. n + 0 + 0 + 0 + a = n + 0 + a + 0 + 0
    OBVIOUS
  <2> QED
    BY <2>2, <2>3, <2>4, <2>5, <2>6
<1>13. d \notin Of("TapSeq")
  BY <1>2, DeferrersAreMaps
<1> QED
  BY <1>1, <1>2, <1>3, <1>4, <1>5, <1>6, <1>8, <1>11, <1>12, <1>13,
     DeferrerKeepsStep

(* A dance is over.                                                        *)
LEMMA DancedTidy ==
  ASSUME Sound, Tidy, Danced
  PROVE  Tidy'
<1>1. /\ calls # <<>> /\ Top \in Frames /\ Top[1] = "danced"
  BY TopCall DEF Danced
<1>2. PICK d \in Maps :
        /\ d = Self /\ d \in Of("TapSeq") /\ d \in Deferrers
        /\ NoMap \notin Maps
  BY <1>1, FrameKinds, DeferrersAreMaps, KeymapAssumption DEF Self, Below
<1>3. /\ Call(<<>>)
      /\ step' = [step EXCEPT ![d] = 0]
      /\ UNCHANGED <<count, modified, chosen, finished, chain, events, peeked,
                     down, sent>>
  BY <1>2 DEF Danced, deferVars, queueVars, worldVars
<1>4. Counts /\ Counts' /\ PressedOnly' /\ ModIfsStay
  BY <1>3 DEF Tidy, Counts, PressedOnly, ModIfsStay
<1>5. PICK list \in Seq(Frames) :
        /\ list = <<>> /\ Call(list)
        /\ \A i \in 1 .. Len(list) : FALSE
  BY <1>3, NoneIsCalled
<1>6. Fitting(list)
  BY <1>5, FittingNone
<1>7. /\ step'[d] = 0
      /\ \A m \in Of("TapSeq") : m # d => step'[m] = step[m]
  BY <1>2, <1>3 DEF Sound, Fields
<1>8. OnlySelf /\ Spared(d) /\ OwnCalls(list, d)
  BY <1>1, <1>2, <1>3, <1>5, <1>7
     DEF OnlySelf, Spared, HoldStays, SeqStays, OwnCalls
<1>9. WaitsFor(d, list) /\ Dance(d)
  BY <1>1, <1>2, <1>5, WaitsForIt DEF Tidy, Dances
<1>10. ~ On("tap", d)' /\ ~ On("finish", d)'
  <2>1. /\ {"tap", "finish"} \subseteq Own
        /\ <<Top[1], "tap">> \notin Pairs /\ <<Top[1], "finish">> \notin Pairs
    BY <1>1 DEF Own, Pairs
  <2> QED
    BY <1>5, <1>9, <2>1 DEF WaitsFor
<1>11. Dance(d)'
  <2>1. d \notin finished' => Contains(chain', d)
    BY <1>3, <1>9 DEF Dance
  <2> QED
    BY <1>7, <1>10, <2>1 DEF Dance
<1>12. FairFor(d, list)
  <2> SUFFICES ASSUME NEW c \in Maps
               PROVE  count'[c] + Occurs(list, Gains(c)') + Bit(Lowers(Top, c))
                        + Bit(d \in Undoers(c)') + Bit(d \in Keepers(c))
                      = count[c] + Occurs(list, Dues(c)') + Bit(Raises(Top, c))
                        + Bit(d \in Undoers(c)) + Bit(d \in Keepers(c)')
    BY DEF FairFor
  <2>1. (Raises(Top, c) <=> Tapped(d) = c) /\ ~ Lowers(Top, c)
    <3>1. (Raises(Top, c) <=> Tapped(Top[2]) = c) /\ ~ Lowers(Top, c)
      BY <1>1, OwnEffects
    <3> QED
      BY <1>2, <3>1 DEF Self
  <2>2. Tapped(d)' = NoMap
    <3>1. Child[d] \in Seq(Maps)
      BY <1>2, KeymapAssumption
    <3> QED
      BY <1>7, <3>1 DEF Tapped
  <2>3. /\ d \notin Keepers(c)'
        /\ d \in Keepers(c) <=> Tapped(d) = c
        /\ Bit(d \in Undoers(c)) = 0 /\ Bit(d \in Undoers(c)') = 0
    BY <1>2, <1>4, <2>2, SeqKeeps
  <2>4. /\ Bit(Lowers(Top, c)) = 0 /\ Bit(Raises(Top, c)) = Bit(Tapped(d) = c)
        /\ Bit(d \in Keepers(c)') = 0
        /\ Bit(d \in Keepers(c)) = Bit(Tapped(d) = c)
    BY <2>1, <2>3 DEF Bit
  <2>5. Occurs(list, Gains(c)') = 0 /\ Occurs(list, Dues(c)') = 0
    BY <1>5, OccursInNone
  <2>6. PICK n \in Int, a \in Nat :
          count[c] = n /\ count'[c] = n /\ Bit(Tapped(d) = c) = a
    BY <1>3, <1>4 DEF Counts, Bit
  <2>7. n + 0 + 0 + 0 + a = n + 0 + a + 0 + 0
    OBVIOUS
  <2> QED
    BY <2>3, <2>4, <2>5, <2>6, <2>7
<1>13. d \notin Of("TapHold")
  BY <1>2, DeferrersAreMaps
<1> QED
  BY <1>1, <1>2, <1>3, <1>4, <1>5, <1>6, <1>8, <1>11, <1>12, <1>13,
     DeferrerKeepsStep

(* A TapSeq steps on: it releases the keymap of the step before.           *)
LEMMA TapSeqPressTidy ==
  ASSUME Sound, Tidy, TapSeqPress, ~ failed'
  PROVE  Tidy'
<1>1. Counts /\ Pressing("TapSeq")
  BY DEF Tidy, TapSeqPress
<1>2. /\ calls # <<>> /\ Top \in Frames /\ Top[1] = "press"
      /\ Self \in Of("TapSeq") /\ Self \in Maps
      /\ count' \in [Maps -> Int]
      /\ count'[Self] = 1
      /\ \A m \in Maps \ {Self} : count'[m] = count[m]
      /\ CountsKept /\ Paid /\ ModIfsStay
  BY <1>1, PressFacts
<1>3. PICK d \in Maps : d = Self /\ d \in Of("TapSeq") /\ d \in Deferrers
  BY <1>2, DeferrersAreMaps
<1>4. /\ UNCHANGED <<modified, chosen, events, peeked, down, sent>>
      /\ step' = [step EXCEPT ![d] = @ + 1]
  BY <1>3 DEF TapSeqPress, queueVars, worldVars
<1>5. /\ step[d] \in Nat /\ step'[d] = step[d] + 1
      /\ \A m \in Of("TapSeq") : m # d => step'[m] = step[m]
  BY <1>3, <1>4 DEF Sound, Fields
<1>6. Child[d] \in Seq(Maps) /\ NoMap \notin Maps
  BY KeymapAssumption
<1>7. PICK list \in Seq(Frames) :
        /\ Call(list) /\ Fitting(list) /\ OwnCalls(list, d)
        /\ \A c \in Maps : /\ Occurs(list, Gains(c)') = Bit(Tapped(d)' = c)
                           /\ Occurs(list, Dues(c)') = Bit(Tapped(d) = c)
        /\ finished' \subseteq Of("TapSeq")
        /\ d \notin finished' => Contains(chain', d)
        /\ \A m : m # d => (m \in finished' <=> m \in finished)
        /\ \A m : m # d => (Contains(chain', m) <=> Contains(chain, m))
  <2>1. PICK f \in Frames : f = <<"tap", d>>
    BY <1>3, FrameMakes
  <2>2. f[1] = "tap" /\ f[2] = d
    BY <2>1
  <2>3. Fits(f)
    <3>1. \A k \in Own : <<Top[1], k>> \notin Pairs
      BY <1>2 DEF Pairs
    <3> QED
      BY <1>2, <1>3, <2>2, <3>1, CallsFit DEF Outermost
  <2>4. \A c \in Maps : (Raises(f, c)' <=> Tapped(d)' = c) /\ ~ Lowers(f, c)'
    <3>1. \A c \in Maps :
            (Raises(f, c)' <=> (Tapped(f[2]) = c)') /\ ~ Lowers(f, c)'
      BY <2>2, EffectsNext
    <3> QED
      BY <2>2, <3>1
  <2>5. CASE /\ step[d] = 0 /\ d \in finished
             /\ finished' = finished \ {d} /\ StartDefer(d)
             /\ Call(<<<<"tap", d>>>>)
    <3>1. \A m : Contains(chain', m) <=> Contains(chain, m) \/ m = d
      BY <1>3, <2>5, StartDeferProperties DEF Sound
    <3>2. Call(<<f>>)
      BY <2>1, <2>5
    <3>3. PICK list \in Seq(Frames) :
            /\ list = <<f>> /\ Call(list)
            /\ \A i \in 1 .. Len(list) : list[i] = f
      BY <3>2, OneIsCalled
    <3>4. Fitting(list)
      <4>1. Fitting(<<f>>)
        BY <2>2, <2>3, FittingOne DEF Outermost
      <4> QED
        BY <3>3, <4>1
    <3>5. OwnCalls(list, d)
      BY <2>2, <3>3 DEF OwnCalls, Tells, Own
    <3>6. Tapped(d) = NoMap
      BY <1>6, <2>5 DEF Tapped
    <3>7. \A c \in Maps : /\ Occurs(list, Gains(c)') = Bit(Tapped(d)' = c)
                          /\ Occurs(list, Dues(c)') = Bit(Tapped(d) = c)
      <4> SUFFICES ASSUME NEW c \in Maps
                   PROVE  /\ Occurs(list, Gains(c)') = Bit(Tapped(d)' = c)
                          /\ Occurs(list, Dues(c)') = Bit(Tapped(d) = c)
        OBVIOUS
      <4>1. /\ Occurs(<<f>>, Gains(c)') = Bit(Raises(f, c)')
            /\ Occurs(<<f>>, Dues(c)') = Bit(Lowers(f, c)')
        BY ListEffects
      <4>2. /\ Bit(Raises(f, c)') = Bit(Tapped(d)' = c)
            /\ Bit(Lowers(f, c)') = 0 /\ Bit(Tapped(d) = c) = 0
        BY <1>6, <2>4, <3>6 DEF Bit
      <4> QED
        BY <3>3, <4>1, <4>2
    <3>8. /\ finished' \subseteq Of("TapSeq")
          /\ d \notin finished' => Contains(chain', d)
          /\ \A m : m # d => (m \in finished' <=> m \in finished)
          /\ \A m : m # d => (Contains(chain', m) <=> Contains(chain, m))
      BY <1>1, <2>5, <3>1 DEF Counts
    <3> QED
      BY <3>3, <3>4, <3>5, <3>7, <3>8
  <2>6. CASE /\ step'[d] \in 2 .. Len(Child[d])
             /\ UNCHANGED <<finished, chain>>
             /\ Call(<<Release(Tapped(d)), <<"tap", d>>>>)
    <3>1. PICK y \in Maps : y = Tapped(d) /\ y \in Below(d)
      <4>1. step[d] \in DOMAIN Child[d]
        BY <1>5, <1>6, <2>6
      <4>2. Tapped(d) = Child[d][step[d]] /\ Child[d][step[d]] \in Maps
        BY <1>6, <4>1 DEF Tapped
      <4> QED
        BY <1>6, <4>2, TappedIsBelow
    <3>2. PICK g \in Frames : g = Release(y)
      BY FrameMakes
    <3>3. g[1] = "release" /\ g[2] = y
      BY <3>2 DEF Release
    <3>4. Call(<<g, f>>)
      BY <2>1, <2>6, <3>1, <3>2
    <3>5. PICK list \in Seq(Frames) :
            /\ list = <<g, f>> /\ Call(list)
            /\ \A i \in 1 .. Len(list) : list[i] = g \/ list[i] = f
      <4>1. \E list \in Seq(Frames) : AreCalled(list, g, f)
        BY <3>4, TwoAreCalled
      <4> QED
        BY <4>1 DEF AreCalled
    <3>6. Fitting(list)
      <4>1. Fits(g)
        BY <1>2, <1>3, <3>1, <3>3, CallsFit DEF Outermost
      <4>2. Over(g, f)
        BY <2>2, <3>1, <3>3 DEF Over, Outermost, First
      <4>3. Fitting(<<g, f>>)
        BY <2>2, <2>3, <3>3, <4>1, <4>2, FittingTwo DEF Outermost
      <4> QED
        BY <3>5, <4>3
    <3>7. OwnCalls(list, d)
      BY <2>2, <3>3, <3>5 DEF OwnCalls, Tells, Own
    <3>8. \A c \in Maps : /\ Occurs(list, Gains(c)') = Bit(Tapped(d)' = c)
                          /\ Occurs(list, Dues(c)') = Bit(Tapped(d) = c)
      <4> SUFFICES ASSUME NEW c \in Maps
                   PROVE  /\ Occurs(list, Gains(c)') = Bit(Tapped(d)' = c)
                          /\ Occurs(list, Dues(c)') = Bit(Tapped(d) = c)
        OBVIOUS
      <4>1. (Lowers(g, c)' <=> y = c) /\ ~ Raises(g, c)'
        BY <3>3, EffectsNext
      <4>2. /\ Occurs(<<g, f>>, Gains(c)') =
                 Bit(Raises(g, c)') + Bit(Raises(f, c)')
            /\ Occurs(<<g, f>>, Dues(c)') =
                 Bit(Lowers(g, c)') + Bit(Lowers(f, c)')
        BY ListEffects
      <4>3. /\ Bit(Raises(f, c)') = Bit(Tapped(d)' = c)
            /\ Bit(Lowers(f, c)') = 0 /\ Bit(Raises(g, c)') = 0
            /\ Bit(Lowers(g, c)') = Bit(Tapped(d) = c)
            /\ Bit(Tapped(d)' = c) \in Nat /\ Bit(Tapped(d) = c) \in Nat
        BY <2>4, <3>1, <4>1 DEF Bit
      <4>4. PICK a \in Nat, b \in Nat :
              Bit(Tapped(d)' = c) = a /\ Bit(Tapped(d) = c) = b
        BY <4>3
      <4>5. /\ Occurs(<<g, f>>, Gains(c)') = 0 + a
            /\ Occurs(<<g, f>>, Dues(c)') = b + 0
        BY <4>2, <4>3, <4>4
      <4> QED
        BY <3>5, <4>4, <4>5
    <3>9. /\ finished' \subseteq Of("TapSeq")
          /\ d \notin finished' => Contains(chain', d)
      <4>1. Dance(d)
        BY <1>3 DEF Tidy, Dances
      <4> QED
        BY <1>1, <2>6, <4>1 DEF Counts, Dance
    <3>10. /\ \A m : m # d => (m \in finished' <=> m \in finished)
           /\ \A m : m # d => (Contains(chain', m) <=> Contains(chain, m))
      BY <2>6
    <3> QED
      BY <3>5, <3>6, <3>7, <3>8, <3>9, <3>10
  <2>7. \/ /\ step'[d] = 1 /\ d \in finished
           /\ finished' = finished \ {d} /\ StartDefer(d)
           /\ Call(<<<<"tap", d>>>>)
        \/ /\ step'[d] \in 2 .. Len(Child[d])
           /\ UNCHANGED <<finished, chain>>
           /\ Call(<<Release(Tapped(d)), <<"tap", d>>>>)
    <3>1. \/ /\ step'[Self] = 1 /\ Self \in finished
             /\ finished' = finished \ {Self} /\ StartDefer(Self)
             /\ Call(<<<<"tap", Self>>>>)
          \/ /\ step'[Self] \in 2 .. Len(Child[Self])
             /\ UNCHANGED <<finished, chain>>
             /\ Call(<<Release(Tapped(Self)), <<"tap", Self>>>>)
      BY DEF TapSeqPress, deferVars
    <3>2. Tapped(Self) = Tapped(d) /\ (StartDefer(Self) => StartDefer(d))
      BY <1>3 DEF Tapped, StartDefer
    <3> QED
      BY <1>3, <3>1, <3>2
  <2>8. step'[d] = 1 => step[d] = 0
    BY <1>5
  <2> QED
    BY <2>5, <2>6, <2>7, <2>8
<1>8. Counts'
  BY <1>1, <1>2, <1>4, <1>7 DEF Counts
<1>9. PressedOnly'
  BY <1>1, <1>2, <1>4, PressedStay DEF Tidy
<1>10. Spared(d)
  BY <1>2, <1>4, <1>5, <1>7, DeferrersAreMaps
     DEF Spared, HoldStays, SeqStays, CountsKept
<1>11. OnlySelf
  BY <1>2, <1>3, <1>4, <1>5 DEF OnlySelf
<1>12. Dance(d)'
  <2>1. count'[d] > 0
    BY <1>2, <1>3
  <2> QED
    BY <1>7, <2>1 DEF Dance
<1>13. FairFor(d, list)
  <2> SUFFICES ASSUME NEW c \in Maps
               PROVE  count'[c] + Occurs(list, Gains(c)') + Bit(Lowers(Top, c))
                        + Bit(d \in Undoers(c)') + Bit(d \in Keepers(c))
                      = count[c] + Occurs(list, Dues(c)') + Bit(Raises(Top, c))
                        + Bit(d \in Undoers(c)) + Bit(d \in Keepers(c)')
    BY DEF FairFor
  <2>1. /\ d \in Keepers(c) <=> Tapped(d) = c
        /\ d \in Keepers(c)' <=> Tapped(d)' = c
        /\ Bit(d \in Undoers(c)) = 0 /\ Bit(d \in Undoers(c)') = 0
    BY <1>1, <1>3, <1>8, SeqKeeps
  <2>2. /\ Bit(d \in Keepers(c)) = Bit(Tapped(d) = c)
        /\ Bit(d \in Keepers(c)') = Bit(Tapped(d)' = c)
    BY <2>1 DEF Bit
  <2>3. count'[c] + Bit(Lowers(Top, c)) = count[c] + Bit(Raises(Top, c))
    BY <1>2 DEF Paid
  <2>4. PICK n \in Int, n1 \in Int, a \in Nat, b \in Nat, l \in Nat, r \in Nat :
          /\ count[c] = n /\ count'[c] = n1
          /\ Bit(Tapped(d)' = c) = a /\ Bit(Tapped(d) = c) = b
          /\ Bit(Lowers(Top, c)) = l /\ Bit(Raises(Top, c)) = r
    BY <1>1, <1>8 DEF Counts, Bit
  <2>5. n1 + l = n + r
    BY <2>3, <2>4
  <2>6. n1 + a + l + 0 + b = n + b + r + 0 + a
    BY <2>5
  <2>7. Occurs(list, Gains(c)') = a /\ Occurs(list, Dues(c)') = b
    BY <1>7, <2>4
  <2> QED
    BY <2>1, <2>2, <2>4, <2>6, <2>7
<1>14. d \notin Of("TapHold")
  BY <1>3, DeferrersAreMaps
<1> QED
  BY <1>2, <1>3, <1>4, <1>7, <1>8, <1>9, <1>10, <1>11, <1>12, <1>13, <1>14,
     DeferrerKeepsStep

(* The driver, the timers and the keys.                                    *)

(* The presses that a step of the driver or of the keys makes up for.      *)
Poised ==
  \A c \in Maps :
    Occurs(calls', Gains(c)') + Occurs(events', Pressed(c))
        + Occurs(calls, Dues(c)) + Cardinality(Holders(c))
        + Occurs(events, Released(c))
      = Occurs(calls, Gains(c)) + Occurs(events, Pressed(c))
          + Occurs(calls', Dues(c)') + Cardinality(Holders(c)')
          + Occurs(events', Released(c))

OwnStay == \A k \in Own : \A m : On(k, m)' <=> On(k, m)

(* A step that changes no keymap.                                          *)
LEMMA WorldStep ==
  ASSUME Sound, Tidy,
         UNCHANGED <<count, modified, chosen, step, finished, chain, sent>>,
         down' \subseteq Slots, calls' \in Seq(Frames), events' \in Seq(Event),
         Stacked', Handled', OwnStay, Poised
  PROVE  Tidy'
<1>1. Counts /\ Counts' /\ PressedOnly'
  BY DEF Tidy, Counts, PressedOnly
<1>2. /\ {"decided", "forget", "let go", "tap", "finish", "danced"} = Own
      /\ \A k \in Own : \A m : On(k, m)' <=> On(k, m)
  BY DEF Own, OwnStay
<1>3. Decisions'
  <2> SUFFICES ASSUME NEW m \in Of("TapHold") PROVE Decision(m)'
    BY DEF Decisions
  <2>1. Decision(m)
    BY DEF Tidy, Decisions
  <2>2. /\ On("decided", m)' <=> On("decided", m)
        /\ On("forget", m)' <=> On("forget", m)
        /\ On("let go", m)' <=> On("let go", m)
    BY <1>2
  <2> QED
    BY <2>1, <2>2 DEF Decision
<1>4. Dances'
  <2> SUFFICES ASSUME NEW m \in Of("TapSeq") PROVE Dance(m)'
    BY DEF Dances
  <2>1. Dance(m)
    BY DEF Tidy, Dances
  <2>2. /\ On("tap", m)' <=> On("tap", m)
        /\ On("finish", m)' <=> On("finish", m)
        /\ On("danced", m)' <=> On("danced", m)
    BY <1>2
  <2> QED
    BY <2>1, <2>2 DEF Dance
<1>5. Balance'
  <2> SUFFICES ASSUME NEW c \in Maps PROVE Even(c)'
    BY DEF Balance
  <2>1. Keepers(c)' = Keepers(c) /\ Undoers(c)' = Undoers(c)
    BY DEF Keepers, Keeps, Undoers, Tapped
  <2>2. PICK n \in Int, g \in Nat, u \in Nat, p \in Nat, d \in Nat, k \in Nat,
             h \in Nat, r \in Nat :
          /\ count[c] = n
          /\ Occurs(calls, Gains(c)) = g
          /\ Cardinality(Undoers(c)) = u
          /\ Occurs(events, Pressed(c)) = p
          /\ Occurs(calls, Dues(c)) = d
          /\ Cardinality(Keepers(c)) = k
          /\ Cardinality(Holders(c)) = h
          /\ Occurs(events, Released(c)) = r
          /\ Even(c) <=> n + g + u + p = d + k + h + r
    BY <1>1, EvenNumbers
  <2>3. PICK n1 \in Int, g1 \in Nat, u1 \in Nat, p1 \in Nat, d1 \in Nat,
             k1 \in Nat, h1 \in Nat, r1 \in Nat :
          /\ count'[c] = n1
          /\ Occurs(calls', Gains(c)') = g1
          /\ Cardinality(Undoers(c)') = u1
          /\ Occurs(events', Pressed(c)') = p1
          /\ Occurs(calls', Dues(c)') = d1
          /\ Cardinality(Keepers(c)') = k1
          /\ Cardinality(Holders(c)') = h1
          /\ Occurs(events', Released(c)') = r1
          /\ Even(c)' <=> n1 + g1 + u1 + p1 = d1 + k1 + h1 + r1
    BY <1>1, EvenNumbersNext
  <2>4. n1 = n /\ u1 = u /\ k1 = k
    BY <2>1, <2>2, <2>3
  <2>5. g1 + p1 + d + h + r = g + p + d1 + h1 + r1
    <3>1. /\ Occurs(events', Pressed(c)) = p1
          /\ Occurs(events', Released(c)) = r1
      BY <2>3 DEF Pressed, Released
    <3> QED
      BY <2>2, <2>3, <3>1 DEF Poised
  <2>6. n + g + u + p = d + k + h + r
    BY <2>2 DEF Tidy, Balance
  <2>7. n1 + g1 + u1 + p1 = d1 + k1 + h1 + r1
    BY <2>4, <2>5, <2>6
  <2> QED
    BY <2>3, <2>7
<1> QED
  BY <1>1, <1>3, <1>4, <1>5 DEF Tidy

(* Calls of other kinds press and release nothing.                         *)
LEMMA NotAKeyCall ==
  ASSUME NEW f, NEW c
  PROVE  /\ f[1] # "press" => f # Press(c)
         /\ f[1] # "release" => f # Release(c)
<1>1. f[1] # "press" => f # Press(c)
  BY DEF Press
<1>2. f[1] # "release" => f # Release(c)
  BY DEF Release
<1> QED
  BY <1>1, <1>2

(* What a call that is silent says after the step, and the driver's last.  *)
LEMMA SilentNext ==
  ASSUME NEW f \in Frames, f[1] \in Silent, NEW c \in Maps
  PROVE  ~ Raises(f, c)' /\ ~ Lowers(f, c)'
<1>1. f # Press(c) /\ f # Release(c)
  BY NotAKeyCall DEF Silent
<1> QED
  BY <1>1 DEF Raises, Lowers, Silent

(* What the end of a handled event says after the step.                    *)
LEMMA RemoveLastNext ==
  ASSUME NEW f \in Frames, f[1] = "remove last", NEW c \in Maps
  PROVE  /\ Raises(f, c)' <=> events'[peeked'] \in Released(c)
         /\ Lowers(f, c)' <=> events'[peeked'] \in Pressed(c)
<1>1. f # Press(c) /\ f # Release(c)
  BY NotAKeyCall
<1> QED
  BY <1>1 DEF Raises, Lowers, Released, Pressed

(* What the execution of an event says after the step.                     *)
LEMMA ExecuteNext ==
  ASSUME NEW e \in Event, NEW f, f = Execute(e), NEW c \in Maps
  PROVE  /\ f \in Frames /\ f[1] \in {"press", "release"}
         /\ Raises(f, c)' <=> e \in Pressed(c)
         /\ Lowers(f, c)' <=> e \in Released(c)
<1>1. f \in Frames /\ f[1] \in {"press", "release"}
  BY ExecuteIsFrame
<1>2. CASE e.press
  <2>1. f[1] = "press" /\ f[2] = Table[e.slot]
    BY <1>2 DEF Execute, Press
  <2>2. (Raises(f, c)' <=> f[2] = c) /\ ~ Lowers(f, c)'
    BY <1>1, <2>1, EffectsNext
  <2> QED
    BY <1>1, <1>2, <2>1, <2>2 DEF Pressed, Released
<1>3. CASE ~ e.press
  <2>1. f[1] = "release" /\ f[2] = Table[e.slot]
    BY <1>3 DEF Execute, Release
  <2>2. (Lowers(f, c)' <=> f[2] = c) /\ ~ Raises(f, c)'
    BY <1>1, <2>1, EffectsNext
  <2> QED
    BY <1>1, <1>3, <2>1, <2>2 DEF Pressed, Released
<1> QED
  BY <1>2, <1>3

(* The stack of calls that the driver makes.                               *)
LEMMA NoCalls ==
  ASSUME calls' = <<>>
  PROVE  /\ Stacked' /\ Handled' /\ calls' \in Seq(Frames)
         /\ \A k, m : ~ On(k, m)'
<1>1. Len(calls') = 0
  OBVIOUS
<1> QED
  BY <1>1 DEF Stacked, Handled, On

LEMMA OneCall ==
  ASSUME NEW f \in Frames, calls' = <<f>>, f[1] \notin Own, Tells(f)'
  PROVE  /\ Stacked' /\ Handled' /\ calls' \in Seq(Frames)
         /\ \A k \in Own : \A m : ~ On(k, m)'
<1>1. /\ calls' \in Seq(Frames) /\ Len(calls') = 1 /\ calls'[1] = f
  OBVIOUS
<1>2. \A i \in 1 .. Len(calls') : i = 1
  BY <1>1
<1>3. Stacked'
  BY <1>1 DEF Stacked
<1>4. Handled'
  BY <1>1, <1>2 DEF Handled, Tells
<1> QED
  BY <1>1, <1>2, <1>3, <1>4 DEF On

LEMMA TwoCalls ==
  ASSUME NEW f \in Frames, NEW g \in Frames, calls' = <<f, g>>,
         f[1] \notin Own, g[1] \notin Own, Tells(f)', Tells(g)', Over(f, g)
  PROVE  /\ Stacked' /\ Handled' /\ calls' \in Seq(Frames)
         /\ \A k \in Own : \A m : ~ On(k, m)'
<1>1. /\ calls' \in Seq(Frames) /\ Len(calls') = 2
      /\ calls'[1] = f /\ calls'[2] = g
  BY TwoIsSeq
<1>2. \A i \in 1 .. Len(calls') : i = 1 \/ i = 2
  BY <1>1
<1>3. Stacked'
  <2>1. \A i, j \in 1 .. Len(calls') : i < j => i = 1 /\ j = 2
    BY <1>1
  <2>2. Over(calls'[1], calls'[2])
    BY <1>1
  <2>3. \A i, j \in 1 .. Len(calls') : i < j => Over(calls'[i], calls'[j])
    BY <2>1, <2>2
  <2> QED
    BY <2>3 DEF Stacked
<1>4. Handled'
  <2>1. \A i \in 1 .. Len(calls') : calls'[i] = f \/ calls'[i] = g
    BY <1>1, <1>2
  <2>2. \A i \in 1 .. Len(calls') :
          calls'[i][1] \in {"other", "remove last"} =>
            /\ peeked' >= 1
            /\ calls'[i][1] = "other" => calls'[i][3] = events'[peeked']
    BY <2>1 DEF Tells
  <2> QED
    BY <2>2 DEF Handled
<1>5. \A k \in Own : \A m : ~ On(k, m)'
  <2>1. \A i \in 1 .. Len(calls') : calls'[i][1] \notin Own
    BY <1>1, <1>2
  <2> QED
    BY <2>1 DEF On
<1> QED
  BY <1>1, <1>3, <1>4, <1>5

(* Between two events nothing is called.                                   *)
LEMMA IdleFacts ==
  ASSUME Idle
  PROVE  /\ calls = <<>>
         /\ \A X : Occurs(calls, X) = 0
         /\ \A k, m : ~ On(k, m)
<1>1. calls = <<>> /\ Len(calls) = 0
  BY DEF Idle
<1> QED
  BY <1>1, OccursInNone DEF On

(* An event is taken from the queue, or peeked.                            *)
LEMMA HandleKeyEventTidy ==
  ASSUME Sound, Tidy, HandleKeyEvent
  PROVE  Tidy'
<1>1. /\ Idle /\ Available /\ Get
      /\ UNCHANGED <<count, modified, chosen, step, finished, chain, sent,
                     down>>
  BY DEF HandleKeyEvent, mapVars, deferVars, worldVars
<1>2. /\ events \in Seq(Event) /\ Len(events) \in Nat
      /\ peeked \in 0 .. Len(events)
      /\ peeking = (chain # <<>>)
  BY DEF Sound, Fields, Mode
<1>3. /\ \A X : Occurs(calls, X) = 0
      /\ \A k, m : ~ On(k, m)
  BY <1>1, IdleFacts
<1>4. PICK e \in Event, f \in Frames :
        /\ e = Got /\ f = Execute(e) /\ f[1] \in {"press", "release"}
  <2>1. Got \in Event
    <3>1. (IF peeking THEN peeked + 1 ELSE 1) \in 1 .. Len(events)
      BY <1>1, <1>2, EmptySeq DEF Available
    <3> QED
      BY <1>2, <3>1, ElementOfSeq DEF Got
  <2> QED
    BY <2>1, ExecuteIsFrame
<1>5. ASSUME NEW c \in Maps
      PROVE  /\ Bit(Raises(f, c)') = Bit(e \in Pressed(c))
             /\ Bit(Lowers(f, c)') = Bit(e \in Released(c))
             /\ Bit(e \in Pressed(c)) \in Nat /\ Bit(e \in Released(c)) \in Nat
  <2>1. (Raises(f, c)' <=> e \in Pressed(c))
    BY <1>4, ExecuteNext
  <2>2. (Lowers(f, c)' <=> e \in Released(c))
    BY <1>4, ExecuteNext
  <2> QED
    BY <2>1, <2>2 DEF Bit
<1>6. \A c \in Maps : Holders(c)' = Holders(c)
  BY <1>1 DEF Holders
<1>7. f[1] \notin Own /\ Tells(f)'
  BY <1>4 DEF Own, Tells
<1>8. CASE chain = <<>>
  <2>1. /\ events # <<>> /\ events' = Tail(events) /\ e = Head(events)
        /\ calls' = <<f>>
    <3>1. events # <<>> /\ events' = Tail(events) /\ e = events[1]
      BY <1>1, <1>2, <1>4, <1>8 DEF Available, Get, Got
    <3>2. Head(events) = events[1]
      BY <1>2, <3>1, EmptySeq
    <3>3. calls' = <<f>>
      BY <1>4, <1>8 DEF HandleKeyEvent
    <3> QED
      BY <3>1, <3>2, <3>3
  <2>2. events' \in Seq(Event)
    BY <1>2, <2>1, HeadTailProperties
  <2>3. /\ Stacked' /\ Handled' /\ calls' \in Seq(Frames)
        /\ \A k \in Own : \A m : ~ On(k, m)'
    BY <1>7, <2>1, OneCall
  <2>4. Poised
    <3> SUFFICES ASSUME NEW c \in Maps
                 PROVE  Occurs(calls', Gains(c)') + Occurs(events', Pressed(c))
                            + Occurs(calls, Dues(c)) + Cardinality(Holders(c))
                            + Occurs(events, Released(c))
                          = Occurs(calls, Gains(c)) + Occurs(events, Pressed(c))
                              + Occurs(calls', Dues(c)')
                              + Cardinality(Holders(c)')
                              + Occurs(events', Released(c))
      BY DEF Poised
    <3>1. /\ Occurs(events, Pressed(c)) =
               Bit(e \in Pressed(c)) + Occurs(events', Pressed(c))
          /\ Occurs(events, Released(c)) =
               Bit(e \in Released(c)) + Occurs(events', Released(c))
      BY <1>2, <2>1, OccursInTail
    <3>2. /\ Occurs(calls', Gains(c)') = Bit(e \in Pressed(c))
          /\ Occurs(calls', Dues(c)') = Bit(e \in Released(c))
      <4>1. /\ Occurs(<<f>>, Gains(c)') = Bit(Raises(f, c)')
            /\ Occurs(<<f>>, Dues(c)') = Bit(Lowers(f, c)')
        BY ListEffects
      <4> QED
        BY <1>5, <2>1, <4>1
    <3>3. PICK p \in Nat, r \in Nat, h \in Nat, a \in Nat, b \in Nat :
            /\ Occurs(events', Pressed(c)) = p
            /\ Occurs(events', Released(c)) = r
            /\ Cardinality(Holders(c)) = h
            /\ Bit(e \in Pressed(c)) = a /\ Bit(e \in Released(c)) = b
      BY <1>5, <2>2, OccursIsFinite, FiniteParts
    <3>4. a + p + 0 + h + (b + r) = 0 + (a + p) + b + h + r
      OBVIOUS
    <3> QED
      BY <1>3, <1>6, <3>1, <3>2, <3>3, <3>4
  <2>5. OwnStay
    BY <1>3, <2>3 DEF OwnStay
  <2>6. down' \subseteq Slots
    BY <1>1 DEF Tidy, Counts
  <2> QED
    BY <1>1, <2>2, <2>3, <2>4, <2>5, <2>6, WorldStep
<1>9. CASE chain # <<>>
  <2>1. /\ peeked < Len(events) /\ peeked' = peeked + 1 /\ events' = events
        /\ e = events[peeked + 1]
    BY <1>1, <1>2, <1>4, <1>9 DEF Available, Get, Got
  <2>2. /\ peeked' >= 1 /\ events'[peeked'] = e
    BY <1>2, <2>1
  <2>3. PICK g \in Frames : g = <<"remove last">> /\ g[1] = "remove last"
    BY FrameMakes, FirstOfOne
  <2>4. PICK t \in Frames :
          t = <<"other", chain, e>> /\ t[1] = "other" /\ t[3] = e
    BY FrameMakes DEF Sound
  <2>5. calls' = <<f, g>> \/ calls' = <<t>>
    BY <1>4, <1>9, <2>3, <2>4 DEF HandleKeyEvent
  <2>6. \A c \in Maps : /\ Occurs(events', Pressed(c)) = Occurs(events, Pressed(c))
                        /\ Occurs(events', Released(c)) = Occurs(events, Released(c))
    BY <2>1
  <2>7. /\ Stacked' /\ Handled' /\ calls' \in Seq(Frames)
        /\ \A k \in Own : \A m : ~ On(k, m)'
    <3>1. CASE calls' = <<f, g>>
      <4>1. Over(f, g)
        BY <1>4, <2>3 DEF Over, Outermost, First, Own
      <4>2. g[1] \notin Own /\ Tells(g)'
        BY <2>2, <2>3 DEF Own, Tells
      <4> QED
        BY <1>7, <3>1, <4>1, <4>2, TwoCalls
    <3>2. CASE calls' = <<t>>
      <4>1. t[1] \notin Own /\ Tells(t)'
        BY <2>2, <2>4 DEF Own, Tells
      <4> QED
        BY <3>2, <4>1, OneCall
    <3> QED
      BY <2>5, <3>1, <3>2
  <2>8. ASSUME NEW c \in Maps
        PROVE  Occurs(calls', Gains(c)') = Occurs(calls', Dues(c)')
               /\ Occurs(calls', Gains(c)') \in Nat
    <3>1. CASE calls' = <<f, g>>
      <4>1. /\ Raises(g, c)' <=> e \in Released(c)
            /\ Lowers(g, c)' <=> e \in Pressed(c)
        BY <2>2, <2>3, RemoveLastNext
      <4>2. /\ Bit(Raises(g, c)') = Bit(e \in Released(c))
            /\ Bit(Lowers(g, c)') = Bit(e \in Pressed(c))
        BY <4>1 DEF Bit
      <4>3. /\ Occurs(<<f, g>>, Gains(c)') =
                 Bit(Raises(f, c)') + Bit(Raises(g, c)')
            /\ Occurs(<<f, g>>, Dues(c)') =
                 Bit(Lowers(f, c)') + Bit(Lowers(g, c)')
        BY ListEffects
      <4>4. PICK a \in Nat, b \in Nat :
              Bit(e \in Pressed(c)) = a /\ Bit(e \in Released(c)) = b
        BY <1>5
      <4>5. /\ Occurs(<<f, g>>, Gains(c)') = a + b
            /\ Occurs(<<f, g>>, Dues(c)') = b + a
        BY <1>5, <4>2, <4>3, <4>4
      <4> QED
        BY <3>1, <4>5
    <3>2. CASE calls' = <<t>>
      <4>1. ~ Raises(t, c)' /\ ~ Lowers(t, c)'
        BY <2>4, SilentNext DEF Silent
      <4>2. /\ Occurs(<<t>>, Gains(c)') = Bit(Raises(t, c)')
            /\ Occurs(<<t>>, Dues(c)') = Bit(Lowers(t, c)')
        BY ListEffects
      <4> QED
        BY <3>2, <4>1, <4>2 DEF Bit
    <3> QED
      BY <2>5, <3>1, <3>2
  <2>9. Poised
    <3> SUFFICES ASSUME NEW c \in Maps
                 PROVE  Occurs(calls', Gains(c)') + Occurs(events', Pressed(c))
                            + Occurs(calls, Dues(c)) + Cardinality(Holders(c))
                            + Occurs(events, Released(c))
                          = Occurs(calls, Gains(c)) + Occurs(events, Pressed(c))
                              + Occurs(calls', Dues(c)')
                              + Cardinality(Holders(c)')
                              + Occurs(events', Released(c))
      BY DEF Poised
    <3>1. PICK p \in Nat, r \in Nat, h \in Nat, a \in Nat :
            /\ Occurs(events, Pressed(c)) = p
            /\ Occurs(events, Released(c)) = r
            /\ Cardinality(Holders(c)) = h
            /\ Occurs(calls', Gains(c)') = a
      BY <1>2, <2>8, OccursIsFinite, FiniteParts
    <3>2. a + p + 0 + h + r = 0 + p + a + h + r
      OBVIOUS
    <3>3. Cardinality(Holders(c)') = h
      BY <1>6, <3>1
    <3> QED
      BY <1>3, <2>6, <2>8, <3>1, <3>2, <3>3
  <2>10. OwnStay
    BY <1>3, <2>7 DEF OwnStay
  <2>11. down' \subseteq Slots /\ events' \in Seq(Event)
    BY <1>1, <1>2, <2>1 DEF Tidy, Counts
  <2> QED
    BY <1>1, <2>7, <2>9, <2>10, <2>11, WorldStep
<1> QED
  BY <1>8, <1>9

(* The event that was handled leaves the queue.                            *)
LEMMA RemoveLastTidy ==
  ASSUME Sound, Tidy, RemoveLast
  PROVE  Tidy'
<1>1. /\ calls # <<>> /\ Top \in Frames /\ Top[1] = "remove last"
      /\ Len(calls) \in Nat \ {0} /\ Top = calls[1]
  BY TopCall DEF RemoveLast
<1>2. /\ Call(<<>>)
      /\ UNCHANGED <<count, modified, chosen, step, finished, chain, sent,
                     down>>
  BY DEF RemoveLast, mapVars, deferVars, worldVars
<1>3. events \in Seq(Event) /\ Len(events) \in Nat /\ peeked \in 1 .. Len(events)
  <2>1. peeked >= 1
    BY <1>1, TellsAtTop DEF Tells, Tidy
  <2> QED
    BY <2>1 DEF Sound, Fields
<1>4. events' = RemoveAt(events, peeked) /\ events' \in Seq(Event)
  <2>1. events' = RemoveAt(events, peeked)
    <3>1. peeked # 0
      BY <1>3
    <3> QED
      BY <3>1 DEF RemoveLast
  <2> QED
    BY <1>3, <2>1, RemoveAtType
<1>5. Len(calls) = 1
  BY <1>1, OutermostIsLast DEF Tidy, Outermost
<1>6. Tail(calls) = <<>> /\ calls' = <<>>
  <2>1. Tail(calls) \in Seq(Frames) /\ Len(Tail(calls)) = Len(calls) - 1
    BY <1>1, HeadTailProperties DEF Sound
  <2>2. Tail(calls) = <<>>
    <3>1. Len(Tail(calls)) = 0
      BY <1>5, <2>1
    <3> QED
      BY <2>1, <3>1, EmptySeq
  <2> QED
    BY <1>2, <2>2 DEF Call
<1>7. /\ Stacked' /\ Handled' /\ calls' \in Seq(Frames)
      /\ \A k, m : ~ On(k, m)'
  BY <1>6, NoCalls
<1>8. OwnStay
  <2>1. \A k \in Own : \A m : ~ On(k, m)
    <3>1. \A i \in 1 .. Len(calls) : calls[i] = Top
      <4>1. \A i \in 1 .. Len(calls) : i = 1
        BY <1>5
      <4> QED
        BY <1>1, <4>1
    <3> QED
      BY <1>1, <3>1 DEF On, Own
  <2> QED
    BY <1>7, <2>1 DEF OwnStay
<1>9. Poised
  <2> SUFFICES ASSUME NEW c \in Maps
               PROVE  Occurs(calls', Gains(c)') + Occurs(events', Pressed(c))
                          + Occurs(calls, Dues(c)) + Cardinality(Holders(c))
                          + Occurs(events, Released(c))
                        = Occurs(calls, Gains(c)) + Occurs(events, Pressed(c))
                            + Occurs(calls', Dues(c)')
                            + Cardinality(Holders(c)')
                            + Occurs(events', Released(c))
    BY DEF Poised
  <2> DEFINE e == events[peeked]
  <2>1. /\ Occurs(events', Pressed(c)) =
             Occurs(events, Pressed(c)) - Bit(e \in Pressed(c))
        /\ Occurs(events', Released(c)) =
             Occurs(events, Released(c)) - Bit(e \in Released(c))
    BY <1>3, <1>4, OccursInRemoveAt
  <2>2. /\ Occurs(calls, Gains(c)) = Bit(e \in Released(c))
        /\ Occurs(calls, Dues(c)) = Bit(e \in Pressed(c))
    <3>1. \A X : Occurs(calls, X) = Bit(Head(calls) \in X) + Occurs(<<>>, X)
      BY <1>1, <1>6, OccursInTail DEF Sound
    <3>2. \A X : Bit(Head(calls) \in X) \in Nat /\ Occurs(<<>>, X) = 0
      BY OccursInNone DEF Bit
    <3>3. \A X : Occurs(calls, X) = Bit(Top \in X)
      <4> SUFFICES ASSUME NEW X PROVE Occurs(calls, X) = Bit(Top \in X)
        OBVIOUS
      <4>1. PICK n \in Nat : Bit(Head(calls) \in X) = n
        BY <3>2
      <4>2. Occurs(calls, X) = n + 0
        BY <3>1, <3>2, <4>1
      <4> QED
        BY <4>1, <4>2 DEF Top
    <3>4. (Raises(Top, c) <=> e \in Released(c))
          /\ (Lowers(Top, c) <=> e \in Pressed(c))
      BY <1>1, Effects
    <3>5. (Top \in Gains(c) <=> e \in Released(c))
          /\ (Top \in Dues(c) <=> e \in Pressed(c))
      BY <1>1, <3>4 DEF Gains, Dues
    <3>6. /\ Bit(Top \in Gains(c)) = Bit(e \in Released(c))
          /\ Bit(Top \in Dues(c)) = Bit(e \in Pressed(c))
      BY <3>5 DEF Bit
    <3> QED
      BY <3>3, <3>6
  <2>3. Occurs(calls', Gains(c)') = 0 /\ Occurs(calls', Dues(c)') = 0
    BY <1>6, OccursInNone
  <2>4. Holders(c)' = Holders(c)
    BY <1>2 DEF Holders
  <2>5. PICK p \in Nat, r \in Nat, h \in Nat, a \in Nat, b \in Nat :
          /\ Occurs(events, Pressed(c)) = p
          /\ Occurs(events, Released(c)) = r
          /\ Cardinality(Holders(c)) = h
          /\ Bit(e \in Pressed(c)) = a /\ Bit(e \in Released(c)) = b
    BY <1>3, OccursIsFinite, FiniteParts DEF Bit
  <2> HIDE DEF e
  <2>6. 0 + (p - a) + a + h + r = b + p + 0 + h + (r - b)
    OBVIOUS
  <2> QED
    BY <2>1, <2>2, <2>3, <2>4, <2>5, <2>6
<1>10. down' \subseteq Slots
  BY <1>2 DEF Tidy, Counts
<1> QED
  BY <1>2, <1>4, <1>7, <1>8, <1>9, <1>10, WorldStep

(* The keys and the calls as they were, or calls that are silent.          *)
LEMMA PoisedQuietly ==
  ASSUME Sound, calls = <<>>, UNCHANGED <<events, down>>,
         NEW f \in Frames, f[1] \in Silent,
         NEW g \in Frames, g[1] \in Silent,
         calls' = <<>> \/ calls' = <<f, g>>
  PROVE  Poised
<1> SUFFICES ASSUME NEW c \in Maps
             PROVE  Occurs(calls', Gains(c)') + Occurs(events', Pressed(c))
                        + Occurs(calls, Dues(c)) + Cardinality(Holders(c))
                        + Occurs(events, Released(c))
                      = Occurs(calls, Gains(c)) + Occurs(events, Pressed(c))
                          + Occurs(calls', Dues(c)')
                          + Cardinality(Holders(c)')
                          + Occurs(events', Released(c))
  BY DEF Poised
<1>1. Occurs(calls, Gains(c)) = 0 /\ Occurs(calls, Dues(c)) = 0
  BY OccursInNone
<1>2. Occurs(calls', Gains(c)') = 0 /\ Occurs(calls', Dues(c)') = 0
  <2>1. CASE calls' = <<>>
    BY <2>1, OccursInNone
  <2>2. CASE calls' = <<f, g>>
    <3>1. /\ ~ Raises(f, c)' /\ ~ Lowers(f, c)'
          /\ ~ Raises(g, c)' /\ ~ Lowers(g, c)'
      BY SilentNext
    <3>2. /\ Bit(Raises(f, c)') = 0 /\ Bit(Lowers(f, c)') = 0
          /\ Bit(Raises(g, c)') = 0 /\ Bit(Lowers(g, c)') = 0
      BY <3>1 DEF Bit
    <3>3. /\ Occurs(<<f, g>>, Gains(c)') =
               Bit(Raises(f, c)') + Bit(Raises(g, c)')
          /\ Occurs(<<f, g>>, Dues(c)') =
               Bit(Lowers(f, c)') + Bit(Lowers(g, c)')
      BY ListEffects
    <3> QED
      BY <2>2, <3>2, <3>3
  <2> QED
    BY <2>1, <2>2
<1>3. Holders(c)' = Holders(c)
  BY DEF Holders
<1>4. PICK p \in Nat, r \in Nat, h \in Nat :
        /\ Occurs(events, Pressed(c)) = p
        /\ Occurs(events, Released(c)) = r
        /\ Cardinality(Holders(c)) = h
  BY OccursIsFinite, FiniteParts DEF Sound, Fields
<1>5. 0 + p + 0 + h + r = 0 + p + 0 + h + r
  OBVIOUS
<1> QED
  BY <1>1, <1>2, <1>3, <1>4, <1>5

(* A timeout event is handled.                                             *)
LEMMA HandleTimeoutTidy ==
  ASSUME Sound, Tidy, HandleTimeout
  PROVE  Tidy'
<1>1. /\ Idle /\ posted # <<>>
      /\ UNCHANGED <<count, modified, chosen, step, finished, chain, sent,
                     down, events, peeked>>
  BY DEF HandleTimeout, mapVars, deferVars, worldVars, queueVars
<1>2. PICK h \in Deferrers : h = Head(posted)
  BY <1>1, HeadTailProperties DEF Sound, Fields
<1>3. PICK f \in Frames, g \in Frames : f = <<"timeout", h>> /\ g = <<"unref", h>>
  BY FrameMakes
<1>4. f[1] = "timeout" /\ g[1] = "unref"
  BY <1>3
<1>5. calls' = <<>> \/ calls' = <<f, g>>
  BY <1>2, <1>3 DEF HandleTimeout
<1>6. /\ calls = <<>>
      /\ \A k, m : ~ On(k, m)
  BY <1>1, IdleFacts
<1>7. /\ Stacked' /\ Handled' /\ calls' \in Seq(Frames)
      /\ \A k \in Own : \A m : ~ On(k, m)'
  <2>1. CASE calls' = <<>>
    BY <2>1, NoCalls
  <2>2. CASE calls' = <<f, g>>
    <3>1. /\ Over(f, g) /\ f[1] \notin Own /\ g[1] \notin Own
          /\ Tells(f)' /\ Tells(g)'
      BY <1>4 DEF Over, Outermost, First, Own, Tells
    <3> QED
      BY <2>2, <3>1, TwoCalls
  <2> QED
    BY <1>5, <2>1, <2>2
<1>8. OwnStay
  BY <1>6, <1>7 DEF OwnStay
<1>9. Poised
  BY <1>1, <1>4, <1>5, <1>6, PoisedQuietly DEF Silent
<1>10. down' \subseteq Slots /\ events' \in Seq(Event)
  BY <1>1 DEF Tidy, Counts, Sound, Fields
<1> QED
  BY <1>1, <1>7, <1>8, <1>9, <1>10, WorldStep

(* What only moves timers.                                                 *)
LEMMA NothingChangesTidy ==
  ASSUME Sound, Tidy,
         UNCHANGED <<count, modified, chosen, step, finished, chain, sent,
                     down, events, peeked, calls>>
  PROVE  Tidy'
<1>1. Stacked' /\ Handled' /\ OwnStay
  BY DEF Tidy, Stacked, Handled, OwnStay, On
<1>2. Poised
  <2> SUFFICES ASSUME NEW c \in Maps
               PROVE  Occurs(calls', Gains(c)') + Occurs(events', Pressed(c))
                          + Occurs(calls, Dues(c)) + Cardinality(Holders(c))
                          + Occurs(events, Released(c))
                        = Occurs(calls, Gains(c)) + Occurs(events, Pressed(c))
                            + Occurs(calls', Dues(c)')
                            + Cardinality(Holders(c)')
                            + Occurs(events', Released(c))
    BY DEF Poised
  <2>1. /\ Gains(c)' = Gains(c) /\ Dues(c)' = Dues(c)
        /\ Holders(c)' = Holders(c)
    BY DEF Gains, Dues, Raises, Lowers, Tapped, Holders, Pressed, Released
  <2>2. PICK p \in Nat, r \in Nat, h \in Nat, a \in Nat, b \in Nat :
          /\ Occurs(events, Pressed(c)) = p
          /\ Occurs(events, Released(c)) = r
          /\ Cardinality(Holders(c)) = h
          /\ Occurs(calls, Gains(c)) = a
          /\ Occurs(calls, Dues(c)) = b
    BY OccursIsFinite, FiniteParts DEF Sound, Fields
  <2>3. a + p + b + h + r = a + p + b + h + r
    OBVIOUS
  <2> QED
    BY <2>1, <2>2, <2>3
<1>3. down' \subseteq Slots /\ events' \in Seq(Event) /\ calls' \in Seq(Frames)
  BY DEF Tidy, Counts, Sound, Fields
<1> QED
  BY <1>1, <1>2, <1>3, WorldStep

(* A key goes down or up.                                                  *)
LEMMA KeyTidy ==
  ASSUME Sound, Tidy, NEW s \in Slots, KeyPress(s) \/ KeyRelease(s)
  PROVE  Tidy'
<1>1. /\ Idle
      /\ UNCHANGED <<count, modified, chosen, step, finished, chain, sent,
                     calls>>
  BY DEF KeyPress, KeyRelease, mapVars, deferVars
<1>2. /\ calls = <<>> /\ calls' = <<>>
      /\ \A X : Occurs(calls, X) = 0
      /\ \A k, m : ~ On(k, m)
  BY <1>1, IdleFacts
<1>3. /\ Stacked' /\ Handled' /\ calls' \in Seq(Frames)
      /\ \A k, m : ~ On(k, m)'
  BY <1>2, NoCalls
<1>4. OwnStay
  BY <1>2, <1>3 DEF OwnStay
<1>5. PICK e \in Event :
        /\ e.slot = s
        /\ events' = Append(events, e)
        /\ \/ e.press /\ s \notin down /\ down' = down \cup {s}
           \/ ~ e.press /\ s \in down /\ down' = down \ {s}
  <2>1. CASE KeyPress(s)
    <3> DEFINE e == [slot |-> s, press |-> TRUE]
    <3>1. e \in Event /\ e.slot = s /\ e.press
      BY DEF Event
    <3> QED
      BY <2>1, <3>1 DEF KeyPress
  <2>2. CASE KeyRelease(s)
    <3> DEFINE e == [slot |-> s, press |-> FALSE]
    <3>1. e \in Event /\ e.slot = s /\ ~ e.press
      BY DEF Event
    <3> QED
      BY <2>2, <3>1 DEF KeyRelease
  <2> QED
    BY <2>1, <2>2
<1>6. /\ down' \subseteq Slots /\ events' \in Seq(Event)
      /\ events \in Seq(Event)
  BY <1>5 DEF Tidy, Counts, Sound, Fields
<1>7. Poised
  <2> SUFFICES ASSUME NEW c \in Maps
               PROVE  Occurs(calls', Gains(c)') + Occurs(events', Pressed(c))
                          + Occurs(calls, Dues(c)) + Cardinality(Holders(c))
                          + Occurs(events, Released(c))
                        = Occurs(calls, Gains(c)) + Occurs(events, Pressed(c))
                            + Occurs(calls', Dues(c)')
                            + Cardinality(Holders(c)')
                            + Occurs(events', Released(c))
    BY DEF Poised
  <2>1. /\ Occurs(events', Pressed(c)) =
             Occurs(events, Pressed(c)) + Bit(e \in Pressed(c))
        /\ Occurs(events', Released(c)) =
             Occurs(events, Released(c)) + Bit(e \in Released(c))
    BY <1>5, <1>6, OccursInAppend
  <2>2. Cardinality(Holders(c)') =
          Cardinality(Holders(c)) - Bit(s \in Holders(c))
            + Bit(s \in Holders(c)')
    <3>1. Holders(c) \ {s} = Holders(c)' \ {s}
      BY <1>5 DEF Holders
    <3>2. IsFiniteSet(Holders(c))
      BY FiniteParts
    <3> QED
      BY <3>1, <3>2, CountOfOne
  <2>3. /\ Bit(s \in Holders(c)) = Bit(e \in Released(c))
        /\ Bit(s \in Holders(c)') = Bit(e \in Pressed(c))
    <3>1. s \in Holders(c) <=> e \in Released(c)
      BY <1>5 DEF Holders, Released
    <3>2. s \in Holders(c)' <=> e \in Pressed(c)
      BY <1>5 DEF Holders, Pressed
    <3> QED
      BY <3>1, <3>2 DEF Bit
  <2>4. Occurs(calls', Gains(c)') = 0 /\ Occurs(calls', Dues(c)') = 0
    BY <1>2, OccursInNone
  <2>5. PICK p \in Nat, r \in Nat, h \in Nat, a \in Nat, b \in Nat :
          /\ Occurs(events, Pressed(c)) = p
          /\ Occurs(events, Released(c)) = r
          /\ Cardinality(Holders(c)) = h
          /\ Bit(e \in Pressed(c)) = a /\ Bit(e \in Released(c)) = b
    BY <1>6, OccursIsFinite, FiniteParts DEF Bit
  <2>6. 0 + (p + a) + 0 + h + r = 0 + p + 0 + (h - b + a) + (r + b)
    OBVIOUS
  <2>7. /\ Occurs(events', Pressed(c)) = p + a
        /\ Occurs(events', Released(c)) = r + b
        /\ Cardinality(Holders(c)') = h - b + a
    BY <2>1, <2>2, <2>3, <2>5
  <2> QED
    BY <1>2, <2>4, <2>5, <2>6, <2>7
<1> QED
  BY <1>1, <1>3, <1>4, <1>6, <1>7, WorldStep

(* Tidy is an invariant, until an assertion fails.                         *)
LEMMA InitTidy == Init => Sound /\ Tidy
<1> SUFFICES ASSUME Init PROVE Sound /\ Tidy
  OBVIOUS
<1>1. Sound
  BY KeymapInit DEF KeymapInv, Init
<1>2. calls = <<>> /\ chain = <<>> /\ events = <<>> /\ down = {}
      /\ modified = {} /\ sent = {} /\ finished = Of("TapSeq")
  BY DEF Init
<1>3. /\ \A m \in Maps : count[m] = 0
      /\ \A m \in Of("TapHold") : chosen[m] = NoMap
      /\ \A m \in Of("TapSeq") : step[m] = 0
  BY DEF Init
<1>4. \A k, m : ~ On(k, m)
  <2>1. Len(calls) = 0
    BY <1>2
  <2> QED
    BY <2>1 DEF On
<1>5. \A m : ~ Contains(chain, m)
  <2>1. Len(chain) = 0
    BY <1>2
  <2> QED
    BY <2>1 DEF Contains
<1>6. Counts /\ PressedOnly
  BY <1>2 DEF Counts, PressedOnly, Init
<1>7. Stacked /\ Handled
  <2>1. Len(calls) = 0
    BY <1>2
  <2> QED
    BY <2>1 DEF Stacked, Handled
<1>8. Decisions
  BY <1>3, <1>4, <1>5 DEF Decisions, Decision
<1>9. Dances
  BY <1>2, <1>3, <1>4 DEF Dances, Dance
<1>10. Balance
  <2> SUFFICES ASSUME NEW c \in Maps PROVE Even(c)
    BY DEF Balance
  <2>1. Keepers(c) = {} /\ Undoers(c) = {} /\ Holders(c) = {}
    <3>1. NoMap \notin Maps
      BY KeymapAssumption
    <3>2. ASSUME NEW p \in Maps PROVE ~ Keeps(p, c)
      <4>1. Child[p] \in Seq(Maps)
        BY KeymapAssumption
      <4>2. Class[p] = "TapSeq" => Tapped(p) = NoMap
        BY <1>3, <4>1 DEF Tapped, Of
      <4>3. Class[p] = "TapHold" => chosen[p] = NoMap
        BY <1>3 DEF Of
      <4>4. ~ (count[p] > 0)
        BY <1>3
      <4> QED
        BY <3>1, <4>2, <4>3, <4>4 DEF Keeps
    <3> QED
      BY <1>2, <3>2 DEF Keepers, Undoers, Holders
  <2>2. /\ Cardinality(Keepers(c)) = 0
        /\ Cardinality(Undoers(c)) = 0
        /\ Cardinality(Holders(c)) = 0
    BY <2>1, FS_EmptySet
  <2>3. /\ Occurs(calls, Gains(c)) = 0 /\ Occurs(calls, Dues(c)) = 0
        /\ Occurs(events, Pressed(c)) = 0 /\ Occurs(events, Released(c)) = 0
    BY <1>2, OccursInNone
  <2>4. count[c] = 0 /\ 0 + 0 + 0 + 0 = 0 + 0 + 0 + 0
    BY <1>3
  <2> QED
    BY <2>2, <2>3, <2>4 DEF Even
<1> QED
  BY <1>1, <1>6, <1>7, <1>8, <1>9, <1>10 DEF Tidy

TidyInv == ~ failed => Sound /\ Tidy

LEMMA TidyStep == TidyInv /\ [Next]_vars => TidyInv'
<1> SUFFICES ASSUME TidyInv, [Next]_vars, ~ failed' PROVE Sound' /\ Tidy'
  BY DEF TidyInv
<1>1. ~ failed /\ Sound /\ Tidy
  <2>1. ~ failed
    <3>1. CASE UNCHANGED vars
      BY <3>1 DEF vars
    <3>2. CASE Next
      BY <3>2 DEF Next, JustCounts, PseudoPress, LitSends, OneShotTaps,
         ModIfPress, ModIfRelease, TapHoldPress, HelpDecide, Decided,
         TapHoldRelease, LetGo, Forget, TapHoldTimeout, TapSeqPress,
         TapSeqTaps, Finish, TapSeqLetsOff, TapSeqRelease, TapDanceTimeout,
         Danced, AllTold, TapHoldTold, TapDanceTold, HandleKeyEvent,
         RemoveLast, HandleTimeout, Unref, Expire, KeyPress, KeyRelease,
         Pressing, Releasing, Telling, Doing, Idle
    <3> QED
      BY <3>1, <3>2
  <2> QED
    BY <2>1 DEF TidyInv
<1>2. Sound'
  <2>1. KeymapInv'
    BY <1>1, KeymapStep DEF KeymapInv
  <2> QED
    BY <2>1 DEF KeymapInv
<1> SUFFICES Tidy'
  BY <1>2
<1>3. CASE UNCHANGED vars
  BY <1>1, <1>3, NothingChangesTidy
     DEF vars, mapVars, deferVars, queueVars, worldVars
<1>4. CASE JustCounts
  BY <1>1, <1>4, JustCountsTidy
<1>5. CASE PseudoPress \/ LitSends
  BY <1>1, <1>5, PseudoTidy
<1>6. CASE OneShotTaps
  BY <1>1, <1>6, OneShotTidy
<1>7. CASE ModIfPress
  BY <1>1, <1>7, ModIfPressTidy
<1>8. CASE ModIfRelease
  BY <1>1, <1>8, ModIfReleaseTidy
<1>9. CASE TapHoldPress
  BY <1>1, <1>9, TapHoldPressTidy
<1>10. CASE HelpDecide
  BY <1>1, <1>10, HelpDecideTidy
<1>11. CASE Decided
  BY <1>1, <1>11, DecidedTidy
<1>12. CASE TapHoldRelease
  BY <1>1, <1>12, TapHoldReleaseTidy
<1>13. CASE LetGo
  BY <1>1, <1>13, LetGoTidy
<1>14. CASE Forget
  BY <1>1, <1>14, ForgetTidy
<1>15. CASE TapHoldTimeout
  BY <1>1, <1>15, TapHoldTimeoutTidy
<1>16. CASE TapSeqPress
  BY <1>1, <1>16, TapSeqPressTidy
<1>17. CASE TapSeqTaps
  BY <1>1, <1>17, TapSeqTapsTidy
<1>18. CASE Finish
  BY <1>1, <1>18, FinishTidy
<1>19. CASE TapSeqLetsOff
  BY <1>1, <1>19, TapSeqLetsOffTidy
<1>20. CASE TapSeqRelease
  BY <1>1, <1>20, TapSeqReleaseTidy
<1>21. CASE TapDanceTimeout
  BY <1>1, <1>21, TapDanceTimeoutTidy
<1>22. CASE Danced
  BY <1>1, <1>22, DancedTidy
<1>23. CASE AllTold \/ Unref
  BY <1>1, <1>23, EndsQuietly
<1>24. CASE TapHoldTold
  BY <1>1, <1>24, TapHoldToldTidy
<1>25. CASE TapDanceTold
  BY <1>1, <1>25, TapDanceToldTidy
<1>26. CASE HandleKeyEvent
  BY <1>1, <1>26, HandleKeyEventTidy
<1>27. CASE RemoveLast
  BY <1>1, <1>27, RemoveLastTidy
<1>28. CASE HandleTimeout
  BY <1>1, <1>28, HandleTimeoutTidy
<1>29. CASE \E m \in Deferrers : Expire(m)
  BY <1>1, <1>29, NothingChangesTidy
     DEF Expire, mapVars, deferVars, queueVars, worldVars
<1>30. CASE \E s \in Slots : KeyPress(s) \/ KeyRelease(s)
  BY <1>1, <1>30, KeyTidy
<1> QED
  BY <1>3, <1>4, <1>5, <1>6, <1>7, <1>8, <1>9, <1>10, <1>11, <1>12, <1>13,
     <1>14, <1>15, <1>16, <1>17, <1>18, <1>19, <1>20, <1>21, <1>22, <1>23,
     <1>24, <1>25, <1>26, <1>27, <1>28, <1>29, <1>30 DEF Next

LEMMA TidyHolds == Spec => []TidyInv
<1>1. Init => TidyInv
  BY InitTidy DEF TidyInv
<1> QED
  BY <1>1, TidyStep, PTL DEF Spec

(* Among some keymaps, one that none of them was made after.               *)
LEMMA LastMade ==
  ASSUME NEW B, B \subseteq Maps, B # {}
  PROVE  \E x \in B : \A y \in B : ~ (Made[x] < Made[y])
<1> DEFINE After(m) == {y \in Maps : Made[m] < Made[y]}
           R == StrictSubsetOrdering(Maps)
           S == FiniteSubsetsOf(Maps)
           T == {After(m) : m \in B}
<1>1. IsWellFoundedOn(R, S)
  BY FS_StrictSubsetOrderingWellFounded
<1>2. S = SUBSET Maps
  <2>1. IsFiniteSet(Maps)
    BY KeymapAssumption
  <2> QED
    BY <2>1, FS_FiniteSubsetsOfFinite
<1>3. T \subseteq S /\ T # {}
  <2>1. \A m \in B : After(m) \in SUBSET Maps
    OBVIOUS
  <2>2. T \subseteq SUBSET Maps
    BY <2>1
  <2>3. PICK m \in B : TRUE
    OBVIOUS
  <2>4. After(m) \in T
    BY <2>3
  <2> QED
    BY <1>2, <2>2, <2>4
<1>4. PICK X \in T : \A Y \in T : ~ (<<Y, X>> \in R)
  <2> HIDE DEF R, S, T
  <2> QED
    BY <1>1, <1>3, WFMin
<1>5. PICK x \in B : X = After(x)
  BY <1>4
<1>6. ASSUME NEW y \in B, Made[x] < Made[y] PROVE FALSE
  <2>1. /\ \A m \in Maps : Made[m] \in Nat
        /\ x \in Maps /\ y \in Maps
    BY KeymapAssumption
  <2>2. After(y) \subseteq After(x)
    BY <1>6, <2>1
  <2>3. y \in After(x) /\ y \notin After(y)
    BY <1>6, <2>1
  <2>4. After(y) # After(x)
    BY <2>3
  <2>5. After(y) \in SUBSET Maps /\ After(x) \in SUBSET Maps
    OBVIOUS
  <2> HIDE DEF After
  <2>6. <<After(y), After(x)>> \in StrictSubsetOrdering(Maps)
    BY <2>2, <2>4, <2>5 DEF StrictSubsetOrdering
  <2> QED
    BY <1>4, <1>5, <2>6
<1> QED
  BY <1>6

(* At rest, what keeps or undoes a keymap is pressed and was made after it. *)
LEMMA AtRest ==
  ASSUME Sound, Tidy, Idle, events = <<>>, down = {}, running = {},
         posted = <<>>
  PROVE  /\ chain = <<>>
         /\ finished = Of("TapSeq")
         /\ \A m \in Of("TapHold") : chosen[m] # NoMap => count[m] > 0
         /\ \A m \in Of("TapSeq") : step[m] > 0 => count[m] > 0
         /\ \A m \in modified \cup sent : m \in Maps /\ count[m] > 0
         /\ \A c \in Maps : \A p \in Keepers(c) \cup Undoers(c) :
              p \in Maps /\ count[p] > 0 /\ Made[c] < Made[p]
         /\ \A c \in Maps : count[c] + Cardinality(Undoers(c)) =
                              Cardinality(Keepers(c))
<1>1. \A k, m : ~ On(k, m)
  BY IdleFacts
<1>2. chain = <<>>
  <2> SUFFICES ASSUME chain # <<>> PROVE FALSE
    OBVIOUS
  <2>1. Len(chain) \in Nat \ {0} /\ chain \in Seq(Deferrers)
    BY EmptySeq DEF Sound
  <2>2. 1 \in 1 .. Len(chain)
    BY <2>1
  <2>3. PICK m \in Deferrers : m = chain[1]
    BY <2>1, <2>2, ElementOfSeq
  <2>4. Contains(chain, m)
    BY <2>2, <2>3 DEF Contains
  <2>5. Waiting(m)
    BY <2>4, IdleWaits
  <2>6. Contains(posted, m)
    BY <2>5 DEF Waiting
  <2>7. Len(posted) = 0
    OBVIOUS
  <2> QED
    BY <2>6, <2>7 DEF Contains
<1>3. \A m : ~ Contains(chain, m)
  <2>1. Len(chain) = 0
    BY <1>2
  <2> QED
    BY <2>1 DEF Contains
<1>4. finished = Of("TapSeq")
  BY <1>3 DEF Tidy, Counts, Dances, Dance
<1>5. \A m \in Of("TapHold") : chosen[m] # NoMap => count[m] > 0
  BY <1>1 DEF Tidy, Decisions, Decision
<1>6. \A m \in Of("TapSeq") : step[m] > 0 => count[m] > 0
  BY <1>1, <1>4 DEF Tidy, Dances, Dance
<1>7. \A m \in modified \cup sent : m \in Maps /\ count[m] > 0
  BY DEF Tidy, PressedOnly, Counts, Of
<1>8. ASSUME NEW c \in Maps, NEW p \in Keepers(c) \cup Undoers(c)
      PROVE  p \in Maps /\ count[p] > 0 /\ c \in Below(p)
  <2>1. p \in Maps
    BY DEF Keepers, Undoers
  <2>2. NoMap \notin Maps
    BY KeymapAssumption
  <2>3. CASE p \in Undoers(c)
    <3>1. p \in modified /\ c = Modifier(p)
      BY <2>3 DEF Undoers
    <3>2. Class[p] = "ModIf"
      BY <3>1 DEF Tidy, Counts, Of
    <3> QED
      BY <1>7, <2>1, <3>1, <3>2, ChildrenAreBelow
  <2>4. CASE Keeps(p, c) /\ Class[p] = "ModIf"
    BY <2>1, <2>4, ChildrenAreBelow DEF Keeps
  <2>5. CASE Keeps(p, c) /\ Class[p] = "TapHold"
    <3>1. p \in Of("TapHold") /\ chosen[p] = c
      BY <2>1, <2>5 DEF Keeps, Of
    <3> QED
      BY <1>5, <2>1, <2>2, <3>1 DEF Sound, Fields
  <2>6. CASE Keeps(p, c) /\ Class[p] = "TapSeq"
    <3>1. p \in Of("TapSeq") /\ Tapped(p) = c
      BY <2>1, <2>6 DEF Keeps, Of
    <3>2. Tapped(p) # NoMap
      BY <2>2, <3>1
    <3>3. c \in Below(p)
      BY <2>1, <3>1, <3>2, TappedIsBelow
    <3>4. step[p] > 0
      <4>1. Child[p] \in Seq(Maps)
        BY <2>1, KeymapAssumption
      <4>2. step[p] \in DOMAIN Child[p]
        BY <3>2 DEF Tapped
      <4> QED
        BY <4>1, <4>2
    <3> QED
      BY <1>6, <2>1, <3>1, <3>3, <3>4
  <2>7. p \in Keepers(c) => Keeps(p, c)
    BY DEF Keepers
  <2> QED
    BY <2>3, <2>4, <2>5, <2>6, <2>7 DEF Keeps
<1>9. ASSUME NEW c \in Maps
      PROVE  count[c] + Cardinality(Undoers(c)) = Cardinality(Keepers(c))
  <2>1. PICK n \in Int, u \in Nat, k \in Nat :
          /\ count[c] = n
          /\ Cardinality(Undoers(c)) = u
          /\ Cardinality(Keepers(c)) = k
    BY FiniteParts DEF Tidy, Counts
  <2>2. Holders(c) = {}
    BY DEF Holders
  <2>3. /\ Occurs(calls, Gains(c)) = 0 /\ Occurs(calls, Dues(c)) = 0
        /\ Occurs(events, Pressed(c)) = 0 /\ Occurs(events, Released(c)) = 0
        /\ Cardinality(Holders(c)) = 0
    BY <2>2, IdleFacts, OccursInNone, FS_EmptySet
  <2>4. n + 0 + u + 0 = 0 + k + 0 + 0
    BY <2>1, <2>3 DEF Tidy, Balance, Even
  <2> QED
    BY <2>1, <2>4
<1>10. \A c \in Maps : \A p \in Keepers(c) \cup Undoers(c) :
         p \in Maps /\ count[p] > 0 /\ Made[c] < Made[p]
  BY <1>8 DEF Below
<1> QED
  BY <1>2, <1>4, <1>5, <1>6, <1>7, <1>9, <1>10

(* When the keys are up, the events are handled and no timer is set, no    *)
(* keymap believes it is pressed, no key is down at the host, and every    *)
(* TapHold and TapSeq can begin again, for any keymaps, nested in any way. *)
THEOREM RestIsCleanInvariant == Spec => []RestIsClean
<1>1. TidyInv => RestIsClean
  <2> SUFFICES ASSUME TidyInv, Idle, events = <<>>, down = {}, running = {},
                      posted = <<>>
               PROVE  /\ chain = <<>>
                      /\ sent = {}
                      /\ modified = {}
                      /\ \A m \in Maps : count[m] = 0
                      /\ \A m \in Of("TapHold") : chosen[m] = NoMap
                      /\ finished = Of("TapSeq")
                      /\ \A m \in Of("TapSeq") : step[m] = 0
    BY DEF RestIsClean
  <2>1. Sound /\ Tidy
    BY DEF TidyInv, Idle
  <2>2. /\ chain = <<>>
        /\ finished = Of("TapSeq")
        /\ \A m \in Of("TapHold") : chosen[m] # NoMap => count[m] > 0
        /\ \A m \in Of("TapSeq") : step[m] > 0 => count[m] > 0
        /\ \A m \in modified \cup sent : m \in Maps /\ count[m] > 0
        /\ \A c \in Maps : \A p \in Keepers(c) \cup Undoers(c) :
             p \in Maps /\ count[p] > 0 /\ Made[c] < Made[p]
        /\ \A c \in Maps : count[c] + Cardinality(Undoers(c)) =
                             Cardinality(Keepers(c))
    BY <2>1, AtRest
  <2>3. \A m \in Maps : count[m] = 0
    <3> SUFFICES ASSUME \E m \in Maps : count[m] # 0 PROVE FALSE
      OBVIOUS
    <3> DEFINE B == {m \in Maps : count[m] # 0}
    <3>1. B \subseteq Maps /\ B # {}
      OBVIOUS
    <3>2. PICK x \in B : \A y \in B : ~ (Made[x] < Made[y])
      <4> HIDE DEF B
      <4> QED
        BY <3>1, LastMade
    <3>3. Keepers(x) = {} /\ Undoers(x) = {}
      <4>1. ASSUME NEW p \in Keepers(x) \cup Undoers(x) PROVE FALSE
        <5>1. p \in Maps /\ count[p] > 0 /\ Made[x] < Made[p]
          BY <2>2
        <5>2. p \in B
          BY <5>1
        <5> QED
          BY <3>2, <5>1, <5>2
      <4> QED
        BY <4>1
    <3>4. count[x] + 0 = 0 /\ count[x] \in Int
      BY <2>1, <2>2, <3>3, FS_EmptySet DEF Tidy, Counts
    <3> QED
      BY <3>4
  <2>4. modified = {} /\ sent = {}
    BY <2>2, <2>3
  <2>5. \A m \in Of("TapHold") : chosen[m] = NoMap
    BY <2>2, <2>3 DEF Of
  <2>6. \A m \in Of("TapSeq") : step[m] = 0
    <3>1. \A m \in Of("TapSeq") : step[m] \in Nat /\ count[m] = 0
      BY <2>1, <2>3 DEF Of, Sound, Fields
    <3> QED
      BY <2>2, <3>1
  <2> QED
    BY <2>2, <2>3, <2>4, <2>5, <2>6
<1> QED
  BY <1>1, TidyHolds, PTL

-----------------------------------------------------------------------------
(* Keymaps that do not disturb one another.                                *)

(* What a TapHold that is pressed has, and one that lets go.               *)
Held(m) ==
  /\ count[m] > 0 =>
       Contains(chain, m) \/ chosen[m] # NoMap \/ On("decided", m)
  /\ On("let go", m) \/ On("forget", m) => ~ (count[m] > 0)
  /\ On("let go", m) =>
       chosen[m] # NoMap \/ On("decide", m) \/ On("decided", m)
  /\ chosen[m] \in Kids(m) \cup {NoMap}

(* Where a TapSeq is in its dance.                                         *)
Stepped(m) ==
  /\ Contains(chain, m) => m \notin finished
  /\ m \notin finished \/ count[m] > 0 => step[m] >= 1
  /\ step[m] <= Len(Child[m])
  /\ step[m] = Len(Child[m]) =>
       m \in finished \/ On("tap", m) \/ On("finish", m)
  /\ On("tap", m) \/ On("finish", m) => Contains(chain, m)
  /\ On("danced", m) => m \in finished /\ ~ (count[m] > 0)

(* A deferrer has a callback and a slot for as long as it is in the chain. *)
Ordered(m) ==
  /\ m \in Of("TapHold") => Held(m)
  /\ m \in Of("TapSeq") => Stepped(m)
  /\ m \in expected => Contains(chain, m) \/ On("unref", m)
  /\ Contains(chain, m) => mySlot[m] = chainSlot

(* What a call presumes that is next when it is made.                      *)
AtOnce(f) ==
  /\ f[1] \in {"timeout", "decide"} => Contains(chain, f[2])
  /\ f[1] = "timeout" /\ f[2] \in expected => On("unref", f[2])
  /\ f[1] = "let off" => step[f[2]] >= 1
  /\ f[1] \in {"decide", "decided"} => f[3] \in Kids(f[2])

(* The slot that f puts back is the chain's.                               *)
Restores(f) ==
  /\ f[1] = "decided" => f[4] = chainSlot
  /\ f[1] = "danced" => f[3] = chainSlot

(* A tap is made in the slot of the chain.                                 *)
TapsInPlace ==
  \A i \in 1 .. Len(calls) : calls[i][1] = "tap" =>
    /\ slot = chainSlot
    /\ \A j \in 1 .. i - 1 : Restores(calls[j])

(* A press or a release that no deferrer has a part in.                    *)
Harmless(f) == f[1] \in {"press", "release"} /\ f[2] \in Quiet

Aligned == chain = <<>> \/ slot = chainSlot

(* So is a press that may start a deferrer.                                *)
PressesInPlace ==
  \A i \in 1 .. Len(calls) :
    calls[i][1] = "press" /\ calls[i][2] \notin Quiet =>
      /\ Aligned
      /\ \A j \in 1 .. i - 1 : Harmless(calls[j])

(* The deferrers of the call g that are still to be told of its event.     *)
Listed(g, m) == \E a \in 1 .. Len(g[2]) : g[2][a] = m

(* f is at work because of what a deferrer did that was told before.       *)
Heeds(f, g) ==
  \/ f[2] \in Inner(g[3].press)
  \/ f[1] \in Late /\ f[2] \in Acting(g[3].press) /\ ~ Listed(g, f[2])

(* Those that may end are in the chain, each is told once.                 *)
Audience(g) ==
  /\ \A a, b \in 1 .. Len(g[2]) : g[2][a] = g[2][b] => a = b
  /\ \A m \in Acting(g[3].press) : Listed(g, m) => Contains(chain, m)

Heard ==
  \A i \in 1 .. Len(calls) : calls[i][1] = "other" =>
    /\ Audience(calls[i])
    /\ \A j \in 1 .. i - 1 : Heeds(calls[j], calls[i])

Prompt == \A i \in 1 .. Len(calls) : AtOnce(calls[i])

Settled ==
  /\ \A m \in Deferrers : Ordered(m)
  /\ Prompt
  /\ TapsInPlace
  /\ PressesInPlace
  /\ Heard

-----------------------------------------------------------------------------
(* What keymaps press.                                                     *)

LEMMA KidsFacts ==
  ASSUME NEW m \in Maps
  PROVE  /\ Kids(m) \subseteq Maps
         /\ Class[m] = "ModIf" =>
              /\ Modifier(m) \in Kids(m)
              /\ Modified(m) \in Kids(m)
              /\ Original(m) \in Kids(m)
         /\ Class[m] = "TapHold" => Tap(m) \in Kids(m) /\ Hold(m) \in Kids(m)
         /\ Class[m] = "OneShot" => Child[m][1] \in Kids(m)
         /\ Tapped(m) # NoMap => Tapped(m) \in Kids(m)
<1>1. /\ Child[m] \in Seq(Maps)
      /\ Len(Child[m]) >= Arguments(Class[m])
  BY KeymapAssumption
<1>2. DOMAIN Child[m] = 1 .. Len(Child[m]) /\ Len(Child[m]) \in Nat
  BY <1>1
<1>3. Kids(m) \subseteq Maps
  BY <1>1, ElementOfSeq DEF Kids
<1>4. \A i \in 1 .. Len(Child[m]) : Child[m][i] \in Kids(m)
  BY <1>2 DEF Kids
<1>5. ASSUME Class[m] = "ModIf"
      PROVE  /\ Modifier(m) \in Kids(m)
             /\ Modified(m) \in Kids(m)
             /\ Original(m) \in Kids(m)
  <2>1. Len(Child[m]) >= 3
    BY <1>1, <1>5 DEF Arguments
  <2> QED
    BY <1>2, <1>4, <2>1 DEF Modifier, Modified, Original
<1>6. ASSUME Class[m] = "TapHold"
      PROVE  Tap(m) \in Kids(m) /\ Hold(m) \in Kids(m)
  <2>1. Len(Child[m]) >= 2
    BY <1>1, <1>6 DEF Arguments
  <2> QED
    BY <1>2, <1>4, <2>1 DEF Tap, Hold
<1>7. ASSUME Class[m] = "OneShot" PROVE Child[m][1] \in Kids(m)
  <2>1. Len(Child[m]) >= 1
    BY <1>1, <1>7 DEF Arguments
  <2> QED
    BY <1>2, <1>4, <2>1
<1>8. Tapped(m) # NoMap => Tapped(m) \in Kids(m)
  BY <1>2, <1>4 DEF Tapped
<1> QED
  BY <1>3, <1>5, <1>6, <1>7, <1>8

LEMMA WithinFacts ==
  ASSUME NEW X \in SUBSET Maps
  PROVE  /\ Within(X) \subseteq Maps
         /\ X \subseteq Within(X)
         /\ \A c \in Within(X) : Kids(c) \subseteq Within(X)
<1>1. Within(X) \subseteq Maps /\ X \subseteq Within(X)
  BY DEF Within
<1>2. ASSUME NEW c \in Within(X), NEW k \in Kids(c) PROVE k \in Within(X)
  <2>1. c \in Maps /\ k \in Maps
    BY <1>1, KidsFacts
  <2>2. ASSUME NEW S \in SUBSET Maps, X \subseteq S, Closed(S) PROVE k \in S
    <3>1. c \in S
      BY <2>2 DEF Within
    <3> QED
      BY <2>2, <3>1 DEF Closed
  <2> QED
    BY <2>1, <2>2 DEF Within
<1> QED
  BY <1>1, <1>2

LEMMA InnerFacts ==
  ASSUME NEW press \in BOOLEAN
  PROVE  /\ Inner(press) \subseteq Maps
         /\ \A m \in Acting(press) : Kids(m) \subseteq Inner(press)
         /\ \A c \in Inner(press) : Kids(c) \subseteq Inner(press)
<1> DEFINE X == UNION {Kids(m) : m \in Acting(press)}
<1>1. X \subseteq Maps
  <2>1. Acting(press) \subseteq Maps
    BY DeferrersAreMaps DEF Acting
  <2> QED
    BY <2>1, KidsFacts
<1>2. \A m \in Acting(press) : Kids(m) \subseteq X
  OBVIOUS
<1>3. Inner(press) = Within(X)
  BY DEF Inner
<1> HIDE DEF X
<1>4. /\ Within(X) \subseteq Maps
      /\ X \subseteq Within(X)
      /\ \A c \in Within(X) : Kids(c) \subseteq Within(X)
  BY <1>1, WithinFacts
<1> QED
  BY <1>2, <1>3, <1>4

LEMMA QuietFacts ==
  ASSUME NEW m \in Quiet
  PROVE  /\ m \in Maps
         /\ m \notin Deferrers
         /\ Kids(m) \subseteq Quiet
<1>1. m \in Maps /\ Within({m}) \cap Deferrers = {}
  BY DEF Quiet
<1>2. {m} \in SUBSET Maps
  BY <1>1
<1>3. m \in Within({m}) /\ Kids(m) \subseteq Within({m})
  BY <1>2, WithinFacts
<1>4. ASSUME NEW k \in Kids(m) PROVE k \in Quiet
  <2>1. k \in Maps
    BY <1>1, KidsFacts
  <2>2. Within({k}) \subseteq Within({m})
    <3> SUFFICES ASSUME NEW c \in Within({k}) PROVE c \in Within({m})
      OBVIOUS
    <3>1. ASSUME NEW S \in SUBSET Maps, {m} \subseteq S, Closed(S)
          PROVE  c \in S
      <4>1. {k} \subseteq S
        BY <3>1 DEF Closed
      <4> QED
        BY <3>1, <4>1 DEF Within
    <3> QED
      BY <3>1 DEF Within
  <2> QED
    BY <1>1, <2>1, <2>2 DEF Quiet
<1> QED
  BY <1>1, <1>3, <1>4

-----------------------------------------------------------------------------
(* What a step leaves as it is.                                            *)

(* The calls that say something of the deferrer they are of.               *)
Mine == {"timeout", "unref", "decide"} \cup Own

(* The step leaves the deferrer m alone.                                   *)
Apart(m) ==
  /\ count'[m] > 0 <=> count[m] > 0
  /\ Contains(chain', m) <=> Contains(chain, m)
  /\ m \in expected' => m \in expected
  /\ m \in Of("TapHold") => chosen'[m] = chosen[m]
  /\ m \in Of("TapSeq") =>
       step'[m] = step[m] /\ (m \in finished' <=> m \in finished)
  /\ mySlot'[m] = mySlot[m]
  /\ Contains(chain', m) => chainSlot' = chainSlot

LEMMA OrderedApart ==
  ASSUME NEW m \in Deferrers, Ordered(m), Apart(m),
         \A k \in Mine : On(k, m)' <=> On(k, m)
  PROVE  Ordered(m)'
<1>1. /\ On("timeout", m)' <=> On("timeout", m)
      /\ On("unref", m)' <=> On("unref", m)
      /\ On("decide", m)' <=> On("decide", m)
      /\ On("decided", m)' <=> On("decided", m)
      /\ On("forget", m)' <=> On("forget", m)
      /\ On("let go", m)' <=> On("let go", m)
      /\ On("tap", m)' <=> On("tap", m)
      /\ On("finish", m)' <=> On("finish", m)
      /\ On("danced", m)' <=> On("danced", m)
  BY DEF Mine, Own
<1>2. m \in Of("TapHold") => Held(m)'
  BY <1>1 DEF Ordered, Apart, Held
<1>3. m \in Of("TapSeq") => Stepped(m)'
  BY <1>1 DEF Ordered, Apart, Stepped
<1> QED
  BY <1>1, <1>2, <1>3 DEF Ordered, Apart

LEMMA OrderedCall ==
  ASSUME Sound, calls # <<>>, NEW list \in Seq(Frames), Call(list),
         NEW m \in Deferrers, Ordered(m), Apart(m),
         Top[1] \in Mine => Self # m,
         \A i \in 1 .. Len(list) : list[i][1] \in Mine => list[i][2] # m
  PROVE  Ordered(m)'
<1>1. \A k \in Mine : On(k, m)' <=> On(k, m)
  BY CallsThatWait DEF Sound
<1> QED
  BY <1>1, OrderedApart

-----------------------------------------------------------------------------
(* The stack of calls.                                                     *)

Rests(list) ==
  \A i \in 1 .. Len(calls') :
    \/ /\ i \in 1 .. Len(list)
       /\ calls'[i] = list[i]
    \/ /\ i > Len(list)
       /\ i - Len(list) + 1 \in 2 .. Len(calls)
       /\ calls'[i] = calls[i - Len(list) + 1]

LEMMA StackAfter ==
  ASSUME Sound, calls # <<>>, NEW list \in Seq(Frames), Call(list)
  PROVE  /\ Rests(list)
         /\ Len(calls) \in Nat \ {0}
         /\ Len(list) \in Nat
         /\ Len(calls') \in Nat
         /\ Top = calls[1]
         /\ Top \in Frames
         /\ \A i \in 1 .. Len(calls) : calls[i] \in Frames
         /\ \A i \in 1 .. Len(list) : list[i] \in Frames
<1>1. /\ Len(calls) \in Nat \ {0}
      /\ Len(list) \in Nat
      /\ Len(calls') = Len(list) + Len(calls) - 1
      /\ Top = calls[1]
      /\ \A i \in 1 .. Len(list) : calls'[i] = list[i]
      /\ \A i \in Len(list) + 1 .. Len(calls') :
           calls'[i] = calls[i - Len(list) + 1]
      /\ \A i \in 1 .. Len(calls) : calls[i] \in Frames
      /\ \A i \in 1 .. Len(list) : list[i] \in Frames
  BY CallProperties, ElementOfSeq DEF Sound
<1>2. ASSUME NEW i \in 1 .. Len(calls'), i \notin 1 .. Len(list)
      PROVE  /\ i > Len(list)
             /\ i - Len(list) + 1 \in 2 .. Len(calls)
             /\ i \in Len(list) + 1 .. Len(calls')
  BY <1>1, <1>2
<1>3. Rests(list)
  BY <1>1, <1>2 DEF Rests
<1> QED
  BY <1>1, <1>3

(* Above a call that waits are calls of the list, and calls that waited    *)
(* above it.                                                               *)
LEMMA AboveAfter ==
  ASSUME Sound, calls # <<>>, NEW list \in Seq(Frames), Call(list),
         NEW i \in 1 .. Len(calls'), NEW j \in 1 .. i - 1
  PROVE  /\ i \in 1 .. Len(list) =>
              j \in 1 .. Len(list) /\ calls'[j] = list[j]
         /\ i > Len(list) =>
              \/ j \in 1 .. Len(list) /\ calls'[j] = list[j]
              \/ /\ j - Len(list) + 1 \in 2 .. (i - Len(list) + 1) - 1
                 /\ calls'[j] = calls[j - Len(list) + 1]
<1>1. /\ Rests(list)
      /\ Len(list) \in Nat /\ Len(calls') \in Nat
  BY StackAfter
<1>2. j \in 1 .. Len(calls')
  BY <1>1
<1>3. \/ j \in 1 .. Len(list) /\ calls'[j] = list[j]
      \/ j > Len(list) /\ calls'[j] = calls[j - Len(list) + 1]
  BY <1>1, <1>2 DEF Rests
<1> QED
  BY <1>1, <1>3

LEMMA PromptStep ==
  ASSUME Sound, Stacked, Prompt, calls # <<>>,
         NEW list \in Seq(Frames), Call(list),
         \A i \in 1 .. Len(list) : AtOnce(list[i])'
  PROVE  Prompt'
<1>1. /\ Rests(list)
      /\ Len(calls) \in Nat \ {0}
      /\ \A i \in 1 .. Len(calls) : calls[i] \in Frames
  BY StackAfter
<1>2. ASSUME NEW f, NEW k \in 2 .. Len(calls), f = calls[k] PROVE AtOnce(f)'
  <2>1. 1 \in 1 .. Len(calls) /\ k \in 1 .. Len(calls) /\ 1 < k
    BY <1>1
  <2>2. f[1] \notin First /\ AtOnce(f)
    BY <1>2, <2>1 DEF Stacked, Over, Prompt
  <2> QED
    BY <2>2 DEF AtOnce, First
<1>3. ASSUME NEW f, NEW i \in 1 .. Len(calls'), f = calls'[i]
      PROVE  AtOnce(f)'
  <2>1. CASE i \in 1 .. Len(list) /\ calls'[i] = list[i]
    BY <1>3, <2>1
  <2>2. CASE /\ i > Len(list)
             /\ i - Len(list) + 1 \in 2 .. Len(calls)
             /\ calls'[i] = calls[i - Len(list) + 1]
    BY <1>2, <1>3, <2>2
  <2> QED
    BY <1>1, <2>1, <2>2 DEF Rests
<1> QED
  BY <1>3 DEF Prompt, AtOnce

(* The same of the state after the step.                                   *)
RestoresNext(f) ==
  /\ f[1] = "decided" => f[4] = chainSlot'
  /\ f[1] = "danced" => f[3] = chainSlot'

(* What a step must do for the taps that wait, and those that are called.  *)
TapsKept(list) ==
  /\ (\E m : Rest("tap", m)) /\ slot = chainSlot /\ Restores(Top) =>
       /\ slot' = chainSlot' /\ chainSlot' = chainSlot
       /\ \A i \in 1 .. Len(list) : RestoresNext(list[i])
  /\ \A i \in 1 .. Len(list) : list[i][1] = "tap" =>
       /\ slot' = chainSlot'
       /\ \A j \in 1 .. i - 1 : RestoresNext(list[j])

LEMMA TapsStep ==
  ASSUME Sound, TapsInPlace, calls # <<>>,
         NEW list \in Seq(Frames), Call(list), TapsKept(list)
  PROVE  TapsInPlace'
<1>1. /\ Rests(list)
      /\ Len(calls) \in Nat \ {0} /\ Len(list) \in Nat
      /\ Top = calls[1]
  BY StackAfter
<1> SUFFICES ASSUME NEW i \in 1 .. Len(calls'), calls'[i][1] = "tap"
             PROVE  /\ slot' = chainSlot'
                    /\ \A j \in 1 .. i - 1 : RestoresNext(calls'[j])
  BY DEF TapsInPlace, Restores, RestoresNext
<1>2. CASE i \in 1 .. Len(list) /\ calls'[i] = list[i]
  <2>1. /\ slot' = chainSlot'
        /\ \A j \in 1 .. i - 1 : RestoresNext(list[j])
    BY <1>2 DEF TapsKept
  <2> QED
    BY <1>2, <2>1, AboveAfter
<1>3. CASE /\ i > Len(list)
           /\ i - Len(list) + 1 \in 2 .. Len(calls)
           /\ calls'[i] = calls[i - Len(list) + 1]
  <2>1. PICK k \in 2 .. Len(calls) : k = i - Len(list) + 1
    BY <1>3
  <2>2. calls[k][1] = "tap" /\ k \in 1 .. Len(calls)
    BY <1>1, <1>3, <2>1
  <2>3. slot = chainSlot /\ \A j \in 1 .. k - 1 : Restores(calls[j])
    BY <2>2 DEF TapsInPlace
  <2>4. Restores(Top) /\ \E m : Rest("tap", m)
    <3>1. 1 \in 1 .. k - 1
      BY <2>1
    <3> QED
      BY <1>1, <2>2, <2>3, <3>1 DEF Rest
  <2>5. /\ slot' = chainSlot' /\ chainSlot' = chainSlot
        /\ \A a \in 1 .. Len(list) : RestoresNext(list[a])
    BY <2>3, <2>4 DEF TapsKept
  <2>6. ASSUME NEW j \in 1 .. i - 1 PROVE RestoresNext(calls'[j])
    <3>1. CASE j \in 1 .. Len(list) /\ calls'[j] = list[j]
      BY <2>5, <3>1
    <3>2. CASE /\ j - Len(list) + 1 \in 2 .. k - 1
               /\ calls'[j] = calls[j - Len(list) + 1]
      <4>0. j - Len(list) + 1 \in 1 .. k - 1
        BY <1>1, <2>1, <3>2
      <4>1. PICK b \in 1 .. k - 1 : b = j - Len(list) + 1
        BY <4>0
      <4>2. Restores(calls[b])
        BY <2>3, <4>1
      <4> QED
        BY <2>5, <3>2, <4>1, <4>2 DEF Restores, RestoresNext
    <3> QED
      BY <1>3, <2>1, <3>1, <3>2, AboveAfter
  <2> QED
    BY <2>5, <2>6
<1> QED
  BY <1>1, <1>2, <1>3 DEF Rests

(* What it must do for the presses.                                        *)
PressesKept(list) ==
  /\ Harmless(Top) /\ Aligned =>
       Aligned' /\ \A i \in 1 .. Len(list) : Harmless(list[i])
  /\ \A i \in 1 .. Len(list) :
       list[i][1] = "press" /\ list[i][2] \notin Quiet =>
         Aligned' /\ \A j \in 1 .. i - 1 : Harmless(list[j])

LEMMA PressesStep ==
  ASSUME Sound, PressesInPlace, calls # <<>>,
         NEW list \in Seq(Frames), Call(list), PressesKept(list)
  PROVE  PressesInPlace'
<1>1. /\ Rests(list)
      /\ Len(calls) \in Nat \ {0} /\ Len(list) \in Nat
      /\ Top = calls[1]
  BY StackAfter
<1> SUFFICES ASSUME NEW i \in 1 .. Len(calls'),
                    calls'[i][1] = "press", calls'[i][2] \notin Quiet
             PROVE  Aligned' /\ \A j \in 1 .. i - 1 : Harmless(calls'[j])
  BY DEF PressesInPlace, Harmless
<1>2. CASE i \in 1 .. Len(list) /\ calls'[i] = list[i]
  <2>1. Aligned' /\ \A j \in 1 .. i - 1 : Harmless(list[j])
    BY <1>2 DEF PressesKept
  <2> QED
    BY <1>2, <2>1, AboveAfter
<1>3. CASE /\ i > Len(list)
           /\ i - Len(list) + 1 \in 2 .. Len(calls)
           /\ calls'[i] = calls[i - Len(list) + 1]
  <2>1. PICK k \in 2 .. Len(calls) : k = i - Len(list) + 1
    BY <1>3
  <2>2. calls[k][1] = "press" /\ calls[k][2] \notin Quiet
        /\ k \in 1 .. Len(calls)
    BY <1>1, <1>3, <2>1
  <2>3. Aligned /\ \A j \in 1 .. k - 1 : Harmless(calls[j])
    BY <2>2 DEF PressesInPlace
  <2>4. Harmless(Top)
    <3>1. 1 \in 1 .. k - 1
      BY <2>1
    <3> QED
      BY <1>1, <2>3, <3>1
  <2>5. Aligned' /\ \A a \in 1 .. Len(list) : Harmless(list[a])
    BY <2>3, <2>4 DEF PressesKept
  <2>6. ASSUME NEW j \in 1 .. i - 1 PROVE Harmless(calls'[j])
    <3>1. CASE j \in 1 .. Len(list) /\ calls'[j] = list[j]
      BY <2>5, <3>1
    <3>2. CASE /\ j - Len(list) + 1 \in 2 .. k - 1
               /\ calls'[j] = calls[j - Len(list) + 1]
      <4>0. j - Len(list) + 1 \in 1 .. k - 1
        BY <1>1, <2>1, <3>2
      <4>1. PICK b \in 1 .. k - 1 : b = j - Len(list) + 1
        BY <4>0
      <4>2. Harmless(calls[b])
        BY <2>3, <4>1
      <4> QED
        BY <3>2, <4>1, <4>2
    <3> QED
      BY <1>3, <2>1, <3>1, <3>2, AboveAfter
  <2> QED
    BY <2>5, <2>6
<1> QED
  BY <1>1, <1>2, <1>3 DEF Rests

(* What the call on top calls: children of its keymap, and more of its own. *)
Yields(f) ==
  /\ f[1] \notin Outermost
  /\ \/ f[1] \in {"press", "release"} /\ f[2] \in Kids(Self)
     \/ /\ f[1] \notin {"press", "release"}
        /\ f[2] = Self
        /\ Top[1] \in Late => f[1] \in Late

LEMMA HeardStep ==
  ASSUME Calm, Sound, Heard, calls # <<>>, Self \in Maps,
         NEW list \in Seq(Frames), Call(list),
         \A i \in 1 .. Len(list) : Yields(list[i]),
         \A m \in Deferrers : m # Self /\ Contains(chain, m) =>
           Contains(chain', m)
  PROVE  Heard'
<1>1. /\ Rests(list)
      /\ Len(calls) \in Nat \ {0} /\ Len(list) \in Nat
      /\ Top = calls[1]
      /\ \A i \in 1 .. Len(calls) : calls[i] \in Frames
  BY StackAfter
<1> SUFFICES ASSUME NEW i \in 1 .. Len(calls'), NEW g, g = calls'[i],
                    g[1] = "other"
             PROVE  /\ Audience(g)'
                    /\ \A j \in 1 .. i - 1 : Heeds(calls'[j], g)
  BY DEF Heard, Audience
<1>2. CASE i \in 1 .. Len(list) /\ calls'[i] = list[i]
  BY <1>2 DEF Yields, Outermost
<1>3. CASE /\ i > Len(list)
           /\ i - Len(list) + 1 \in 2 .. Len(calls)
           /\ calls'[i] = calls[i - Len(list) + 1]
  <2>1. PICK k \in 2 .. Len(calls) : k = i - Len(list) + 1
    BY <1>3
  <2>2. g = calls[k] /\ k \in 1 .. Len(calls) /\ 1 \in 1 .. k - 1
    BY <1>1, <1>3, <2>1
  <2>3. Audience(g) /\ \A j \in 1 .. k - 1 : Heeds(calls[j], g)
    BY <2>2 DEF Heard
  <2>4. PICK p \in BOOLEAN : p = g[3].press
    <3>1. g \in Frames
      BY <1>1, <2>2
    <3>2. g[3] \in Event
      BY <3>1, FrameKinds
    <3> QED
      BY <3>2 DEF Event
  <2>5. /\ Acting(p) \cap Inner(p) = {}
        /\ \A m \in Acting(p) : Kids(m) \subseteq Inner(p)
        /\ \A c \in Inner(p) : Kids(c) \subseteq Inner(p)
    BY InnerFacts DEF Calm
  <2>6. \/ Self \in Inner(p)
        \/ Top[1] \in Late /\ Self \in Acting(p) /\ ~ Listed(g, Self)
    <3>1. Heeds(Top, g)
      BY <1>1, <2>2, <2>3
    <3> QED
      BY <2>4, <3>1 DEF Heeds, Self
  <2>7. ASSUME NEW f, Yields(f) PROVE Heeds(f, g)
    <3>1. CASE f[2] \in Kids(Self)
      BY <2>4, <2>5, <2>6, <3>1 DEF Heeds
    <3>2. CASE f[2] = Self /\ (Top[1] \in Late => f[1] \in Late)
      BY <2>4, <2>6, <3>2 DEF Heeds
    <3> QED
      BY <2>7, <3>1, <3>2 DEF Yields
  <2>8. ASSUME NEW m \in Acting(p), Listed(g, m) PROVE Contains(chain', m)
    <3>1. m # Self /\ m \in Deferrers
      BY <2>5, <2>6, <2>8 DEF Acting
    <3>2. Contains(chain, m)
      BY <2>3, <2>4, <2>8 DEF Audience
    <3> QED
      BY <3>1, <3>2
  <2>9. Audience(g)'
    BY <2>3, <2>4, <2>8 DEF Audience, Listed
  <2>10. ASSUME NEW j \in 1 .. i - 1 PROVE Heeds(calls'[j], g)
    <3>1. CASE j \in 1 .. Len(list) /\ calls'[j] = list[j]
      BY <2>7, <3>1
    <3>2. CASE /\ j - Len(list) + 1 \in 2 .. k - 1
               /\ calls'[j] = calls[j - Len(list) + 1]
      <4>0. j - Len(list) + 1 \in 1 .. k - 1
        BY <1>1, <2>1, <3>2
      <4>1. PICK b \in 1 .. k - 1 : b = j - Len(list) + 1
        BY <4>0
      <4>2. Heeds(calls[b], g)
        BY <2>3, <4>1
      <4> QED
        BY <3>2, <4>1, <4>2
    <3> QED
      BY <1>3, <2>1, <3>1, <3>2, AboveAfter
  <2> QED
    BY <2>9, <2>10
<1> QED
  BY <1>1, <1>2, <1>3 DEF Rests

(* A step of a keymap.                                                     *)
LEMMA SettledCall ==
  ASSUME Calm, Sound, Stacked, Settled, calls # <<>>, Self \in Maps,
         NEW list \in Seq(Frames), Call(list),
         \A i \in 1 .. Len(list) : Yields(list[i]),
         \A i \in 1 .. Len(list) : AtOnce(list[i])',
         \A m \in Deferrers : m # Self => Apart(m),
         \A m \in Deferrers : m = Self => Ordered(m)',
         TapsKept(list), PressesKept(list)
  PROVE  Settled'
<1>1. ASSUME NEW m \in Deferrers PROVE Ordered(m)'
  <2>2. CASE m = Self
    BY <2>2
  <2>3. CASE m # Self
    <3>1. Apart(m) /\ Ordered(m)
      BY <2>3 DEF Settled
    <3>2. \A i \in 1 .. Len(list) : list[i][1] \in Mine => list[i][2] # m
      BY <2>3 DEF Yields, Mine, Own
    <3> QED
      BY <2>3, <3>1, <3>2, OrderedCall
  <2> QED
    BY <2>2, <2>3
<1>2. Prompt' /\ TapsInPlace' /\ PressesInPlace'
  BY PromptStep, TapsStep, PressesStep DEF Settled
<1>3. Heard'
  <2>1. \A m \in Deferrers : m # Self /\ Contains(chain, m) =>
          Contains(chain', m)
    BY DEF Apart
  <2> QED
    BY <2>1, HeardStep DEF Settled
<1> QED
  BY <1>1, <1>2, <1>3 DEF Settled

-----------------------------------------------------------------------------
(* The steps that only call other keymaps.                                 *)

(* A press or a release of children.                                       *)
CallsKids(list) ==
  \A i \in 1 .. Len(list) :
    /\ list[i][1] \in {"press", "release"}
    /\ list[i][2] \in Kids(Self)
    /\ list[i][1] = "press" /\ list[i][2] \notin Quiet =>
         Top[1] = "press" /\ \A j \in 1 .. i - 1 : Harmless(list[j])

NoDeferrer ==
  /\ UNCHANGED <<chosen, step, finished, mySlot, slot, chain, chainSlot,
                 expected>>
  /\ \A m \in Deferrers : count'[m] > 0 <=> count[m] > 0

(* The press of a keymap with deferrers inside has the slot of the chain.  *)
LEMMA PressAligned ==
  ASSUME Sound, Settled, calls # <<>>, Top[1] = "press", Self \notin Quiet
  PROVE  Aligned
<1>1. Len(calls) \in Nat \ {0} /\ Top = calls[1]
  BY EmptySeq DEF Sound, Top
<1>2. 1 \in 1 .. Len(calls)
  BY <1>1
<1> QED
  BY <1>1, <1>2 DEF Settled, PressesInPlace, Self

LEMMA KeysSettled ==
  ASSUME Calm, Sound, Stacked, Settled, calls # <<>>, Self \in Maps,
         Top[1] \in {"press", "release"},
         NEW list \in Seq(Frames), Call(list), CallsKids(list), NoDeferrer
  PROVE  Settled'
<1>1. \A i \in 1 .. Len(list) :
        /\ list[i][1] \in {"press", "release"}
        /\ list[i][2] \in Kids(Self)
  BY DEF CallsKids
<1>2. \A i \in 1 .. Len(list) : Yields(list[i])
  BY <1>1 DEF Yields, Outermost
<1>3. \A i \in 1 .. Len(list) : AtOnce(list[i])'
  BY <1>1 DEF AtOnce
<1>4. \A m \in Deferrers : Apart(m)
  BY DEF NoDeferrer, Apart, Contains
<1>5. \A m \in Deferrers : Ordered(m)'
  <2>1. \A i \in 1 .. Len(list) : list[i][1] \notin Mine
    BY <1>1 DEF Mine, Own
  <2>2. Top[1] \notin Mine
    BY DEF Mine, Own
  <2> QED
    BY <1>4, <2>1, <2>2, OrderedCall DEF Settled
<1>6. TapsKept(list)
  <2>1. \A i \in 1 .. Len(list) : RestoresNext(list[i])
    BY <1>1 DEF RestoresNext
  <2>2. \A i \in 1 .. Len(list) : list[i][1] # "tap"
    BY <1>1
  <2> QED
    BY <2>1, <2>2 DEF TapsKept, NoDeferrer
<1>7. PressesKept(list)
  <2>1. Aligned' <=> Aligned
    BY DEF Aligned, NoDeferrer
  <2>2. ASSUME Harmless(Top) PROVE \A i \in 1 .. Len(list) : Harmless(list[i])
    <3>1. Kids(Self) \subseteq Quiet
      BY <2>2, QuietFacts DEF Harmless, Self
    <3> QED
      BY <1>1, <3>1 DEF Harmless
  <2>3. ASSUME NEW i \in 1 .. Len(list),
               list[i][1] = "press", list[i][2] \notin Quiet
        PROVE  Aligned' /\ \A j \in 1 .. i - 1 : Harmless(list[j])
    <3>1. Self \notin Quiet
      BY <1>1, <2>3, QuietFacts
    <3>2. Top[1] = "press" /\ \A j \in 1 .. i - 1 : Harmless(list[j])
      BY <2>3 DEF CallsKids
    <3> QED
      BY <2>1, <3>1, <3>2, PressAligned
  <2> QED
    BY <2>1, <2>2, <2>3 DEF PressesKept
<1> QED
  BY <1>2, <1>3, <1>4, <1>5, <1>6, <1>7, SettledCall

LEMMA JustCountsSettled ==
  ASSUME Calm, Sound, Tidy, Settled, JustCounts
  PROVE  Settled'
<1>1. /\ calls # <<>> /\ Top \in Frames /\ Self \in Maps
      /\ Top[1] \in {"press", "release"}
  BY TopCall, FrameKinds DEF JustCounts, Self
<1>2. NoDeferrer
  <2>1. /\ \A m \in Maps \ {Self} : count'[m] = count[m]
        /\ \/ count'[Self] = count[Self] + 1 /\ count'[Self] # 1
           \/ count'[Self] = count[Self] - 1 /\ count'[Self] # 0
    BY <1>1 DEF JustCounts, Tidy, Counts
  <2>2. count[Self] \in Int
    BY <1>1 DEF Tidy, Counts
  <2>3. \A m \in Maps : count'[m] > 0 <=> count[m] > 0
    BY <2>1, <2>2
  <2> QED
    BY <2>3, DeferrersAreMaps DEF JustCounts, NoDeferrer, deferVars, timerVars
<1>3. PICK list \in Seq(Frames) :
        /\ list = <<>> /\ Call(list)
        /\ \A i \in 1 .. Len(list) : FALSE
  BY NoneIsCalled DEF JustCounts
<1>4. CallsKids(list)
  BY <1>3 DEF CallsKids
<1> QED
  BY <1>1, <1>2, <1>3, <1>4, KeysSettled DEF Tidy

(* A press or a release of a keymap that is no deferrer.                   *)
LEMMA OthersAreApart ==
  ASSUME Sound, Tidy, NEW class, class \notin {"TapHold", "TapSeq"},
         Pressing(class) \/ Releasing(class), OnlyCalls
           \/ UNCHANGED <<modified, chosen, step, finished, mySlot, slot,
                          deferVars, timerVars, failed, queueVars, worldVars>>
  PROVE  /\ calls # <<>> /\ Self \in Maps /\ Class[Self] = class
         /\ Top[1] \in {"press", "release"}
         /\ NoDeferrer
<1>1. /\ calls # <<>> /\ Self \in Of(class) /\ Self \in Maps
      /\ Top[1] \in {"press", "release"}
      /\ \A m \in Maps \ {Self} : count'[m] = count[m]
  BY PressFacts, ReleaseFacts DEF Tidy
<1>2. Self \notin Deferrers /\ Class[Self] = class
  BY <1>1 DEF Of, Deferrers
<1>3. \A m \in Deferrers : count'[m] = count[m]
  BY <1>1, <1>2, DeferrersAreMaps
<1> QED
  BY <1>1, <1>2, <1>3 DEF NoDeferrer, OnlyCalls, deferVars, timerVars

LEMMA PseudoSettled ==
  ASSUME Calm, Sound, Tidy, Settled, PseudoPress \/ LitSends
  PROVE  Settled'
<1>1. PICK class \in {"Pseudo", "Lit"} : Pressing(class) \/ Releasing(class)
  BY DEF PseudoPress, LitSends
<1>2. /\ calls # <<>> /\ Self \in Maps
      /\ Top[1] \in {"press", "release"}
      /\ NoDeferrer
  BY <1>1, OthersAreApart DEF PseudoPress, LitSends
<1>3. PICK list \in Seq(Frames) :
        /\ list = <<>> /\ Call(list)
        /\ \A i \in 1 .. Len(list) : FALSE
  BY NoneIsCalled DEF PseudoPress, LitSends
<1>4. CallsKids(list)
  BY <1>3 DEF CallsKids
<1> QED
  BY <1>2, <1>3, <1>4, KeysSettled DEF Tidy

(* The lists of calls, by their places.                                    *)
LEMMA OneInPlace ==
  ASSUME NEW f \in Frames, Call(<<f>>)
  PROVE  \E list \in Seq(Frames) : Call(list) /\ Len(list) = 1 /\ list[1] = f
<1>1. PICK l : l = <<f>>
  OBVIOUS
<1>2. l \in Seq(Frames) /\ Len(l) = 1 /\ l[1] = f
  BY <1>1
<1>3. Call(l)
  BY <1>1 DEF Call
<1> QED
  BY <1>2, <1>3

InOrder(list, f, g) ==
  /\ Call(list)
  /\ Len(list) = 2
  /\ list[1] = f
  /\ list[2] = g

LEMMA TwoInPlace ==
  ASSUME NEW f \in Frames, NEW g \in Frames, Call(<<f, g>>)
  PROVE  \E list \in Seq(Frames) : InOrder(list, f, g)
<1>1. PICK l : l = <<f, g>>
  OBVIOUS
<1>2. l \in Seq(Frames) /\ Len(l) = 2 /\ l[1] = f /\ l[2] = g
  BY <1>1, TwoIsSeq
<1>3. Call(l)
  BY <1>1 DEF Call
<1> QED
  BY <1>2, <1>3 DEF InOrder

(* The presses and releases of the keymaps that d calls.                   *)
LEMMA KidsInPlace ==
  ASSUME NEW d \in Maps, d = Self, NEW x \in Kids(d), NEW y \in Kids(d)
  PROVE  /\ Call(<<Release(y)>>) => \E list \in Seq(Frames) :
              Call(list) /\ CallsKids(list)
         /\ Top[1] = "press" /\ Call(<<Press(x)>>) => \E list \in Seq(Frames) :
              Call(list) /\ CallsKids(list)
         /\ Top[1] = "press" /\ Call(<<Press(x), Release(y)>>) =>
              \E list \in Seq(Frames) : Call(list) /\ CallsKids(list)
         /\ Top[1] = "press" /\ y \in Quiet /\ Call(<<Release(y), Press(x)>>) =>
              \E list \in Seq(Frames) : Call(list) /\ CallsKids(list)
         /\ x \in Quiet /\ Call(<<Release(y), Press(x)>>) =>
              \E list \in Seq(Frames) : Call(list) /\ CallsKids(list)
<1>1. x \in Maps /\ y \in Maps
  BY KidsFacts
<1>2. PICK f \in Frames, g \in Frames : f = Press(x) /\ g = Release(y)
  BY <1>1, FrameMakes
<1>3. f[1] = "press" /\ f[2] = x /\ g[1] = "release" /\ g[2] = y
  BY <1>2 DEF Press, Release
<1>4. ASSUME NEW l \in Seq(Frames), Len(l) = 1,
             l[1] = g \/ (Top[1] = "press" /\ l[1] = f)
      PROVE  CallsKids(l)
  BY <1>3, <1>4 DEF CallsKids
<1>5. ASSUME NEW l \in Seq(Frames), Len(l) = 2,
             \/ Top[1] = "press" /\ l[1] = f /\ l[2] = g
             \/ /\ l[1] = g /\ l[2] = f
                /\ x \in Quiet \/ (Top[1] = "press" /\ y \in Quiet)
      PROVE  CallsKids(l)
  <2>1. CASE Top[1] = "press" /\ l[1] = f /\ l[2] = g
    BY <1>3, <1>5, <2>1 DEF CallsKids
  <2>2. CASE /\ l[1] = g /\ l[2] = f
             /\ x \in Quiet \/ (Top[1] = "press" /\ y \in Quiet)
    <3>1. y \in Quiet => Harmless(l[1])
      BY <1>3, <2>2 DEF Harmless
    <3> QED
      BY <1>3, <1>5, <2>2, <3>1 DEF CallsKids
  <2> QED
    BY <1>5, <2>1, <2>2
<1>6. ASSUME Call(<<Release(y)>>)
      PROVE  \E list \in Seq(Frames) : Call(list) /\ CallsKids(list)
  <2>1. Call(<<g>>)
    BY <1>2, <1>6
  <2> QED
    BY <1>4, <2>1, OneInPlace
<1>7. ASSUME Top[1] = "press", Call(<<Press(x)>>)
      PROVE  \E list \in Seq(Frames) : Call(list) /\ CallsKids(list)
  <2>1. Call(<<f>>)
    BY <1>2, <1>7
  <2> QED
    BY <1>4, <1>7, <2>1, OneInPlace
<1>8. ASSUME Top[1] = "press", Call(<<Press(x), Release(y)>>)
      PROVE  \E list \in Seq(Frames) : Call(list) /\ CallsKids(list)
  <2>1. Call(<<f, g>>)
    BY <1>2, <1>8
  <2>2. PICK list \in Seq(Frames) : InOrder(list, f, g)
    BY <2>1, TwoInPlace
  <2> QED
    BY <1>5, <1>8, <2>2 DEF InOrder
<1>9. ASSUME x \in Quiet \/ (Top[1] = "press" /\ y \in Quiet),
             Call(<<Release(y), Press(x)>>)
      PROVE  \E list \in Seq(Frames) : Call(list) /\ CallsKids(list)
  <2>1. Call(<<g, f>>)
    BY <1>2, <1>9
  <2>2. PICK list \in Seq(Frames) : InOrder(list, g, f)
    BY <2>1, TwoInPlace
  <2> QED
    BY <1>5, <1>9, <2>2 DEF InOrder
<1> QED
  BY <1>6, <1>7, <1>8, <1>9

LEMMA OneShotSettled ==
  ASSUME Calm, Sound, Tidy, Settled, OneShotTaps
  PROVE  Settled'
<1>1. Pressing("OneShot") \/ Releasing("OneShot")
  BY DEF OneShotTaps
<1>2. /\ calls # <<>> /\ Self \in Maps /\ Class[Self] = "OneShot"
      /\ Top[1] \in {"press", "release"}
      /\ NoDeferrer
  BY <1>1, OthersAreApart DEF OneShotTaps
<1>3. \E list \in Seq(Frames) : Call(list) /\ CallsKids(list)
  <2>1. CASE Call(<<>>)
    <3>1. PICK list \in Seq(Frames) :
            /\ list = <<>> /\ Call(list)
            /\ \A i \in 1 .. Len(list) : FALSE
      BY <2>1, NoneIsCalled
    <3>2. CallsKids(list)
      BY <3>1 DEF CallsKids
    <3> QED
      BY <3>1, <3>2
  <2>2. CASE Pressing("OneShot")
             /\ Call(<<Press(Child[Self][1]), Release(Child[Self][1])>>)
    <3>1. PICK x \in Kids(Self) : x = Child[Self][1]
      BY <1>2, KidsFacts
    <3>2. Top[1] = "press" /\ Call(<<Press(x), Release(x)>>)
      BY <2>2, <3>1 DEF Pressing, Doing
    <3> QED
      BY <1>2, <3>1, <3>2, KidsInPlace
  <2> QED
    BY <2>1, <2>2 DEF OneShotTaps
<1> QED
  BY <1>2, <1>3, KeysSettled DEF Tidy

LEMMA ModIfSettled ==
  ASSUME Calm, Sound, Tidy, Settled, ModIfPress \/ ModIfRelease
  PROVE  Settled'
<1>1. Pressing("ModIf") \/ Releasing("ModIf")
  BY DEF ModIfPress, ModIfRelease
<1>2. /\ calls # <<>> /\ Self \in Maps /\ Class[Self] = "ModIf"
      /\ Top[1] \in {"press", "release"}
      /\ NoDeferrer
  BY <1>1, OthersAreApart DEF ModIfPress, ModIfRelease
<1>3. PICK c \in Kids(Self), x \in Kids(Self), y \in Kids(Self) :
        c = Modifier(Self) /\ x = Modified(Self) /\ y = Original(Self)
  BY <1>2, KidsFacts
<1>4. Undoes(Self) => c \in Quiet
  BY <1>2, <1>3 DEF Calm, Of
<1>5. PICK rc \in Frames, rx \in Frames, pc \in Frames, px \in Frames :
        rc = Release(c) /\ rx = Release(x) /\ pc = Press(c) /\ px = Press(x)
  <2>1. c \in Maps /\ x \in Maps
    BY <1>2, <1>3, KidsFacts
  <2> QED
    BY <2>1, FrameMakes
<1>6. /\ <<>> \o <<px>> = <<px>> /\ <<rc>> \o <<px>> = <<rc, px>>
      /\ <<rx>> \o <<>> = <<rx>> /\ <<rx>> \o <<pc>> = <<rx, pc>>
  BY Joined
<1>7. \E list \in Seq(Frames) : Call(list) /\ CallsKids(list)
  <2>1. CASE ModIfPress
    <3>1. Top[1] = "press"
      BY <2>1 DEF ModIfPress, Pressing, Doing
    <3>2. \/ Call((IF Undoes(Self) THEN <<rc>> ELSE <<>>) \o <<px>>)
          \/ Call(<<Press(y)>>)
      BY <2>1, <1>3, <1>5 DEF ModIfPress
    <3>3. \/ Undoes(Self) /\ Call(<<rc, px>>)
          \/ Call(<<px>>)
          \/ Call(<<Press(y)>>)
      <4>1. CASE Undoes(Self)
        BY <1>6, <3>2, <4>1
      <4>2. CASE ~ Undoes(Self)
        BY <1>6, <3>2, <4>2
      <4> QED
        BY <4>1, <4>2
    <3>4. \/ c \in Quiet /\ Call(<<Release(c), Press(x)>>)
          \/ Call(<<Press(x)>>)
          \/ Call(<<Press(y)>>)
      BY <1>4, <1>5, <3>3
    <3> QED
      BY <1>2, <3>1, <3>4, KidsInPlace
  <2>2. CASE ModIfRelease
    <3>2. \/ Call(<<rx>> \o IF Undoes(Self) THEN <<pc>> ELSE <<>>)
          \/ Call(<<Release(y)>>)
      BY <2>2, <1>3, <1>5 DEF ModIfRelease
    <3>3. \/ Undoes(Self) /\ Call(<<rx, pc>>)
          \/ Call(<<rx>>)
          \/ Call(<<Release(y)>>)
      <4>1. CASE Undoes(Self)
        BY <1>6, <3>2, <4>1
      <4>2. CASE ~ Undoes(Self)
        BY <1>6, <3>2, <4>2
      <4> QED
        BY <4>1, <4>2
    <3>4. \/ c \in Quiet /\ Call(<<Release(x), Press(c)>>)
          \/ Call(<<Release(x)>>)
          \/ Call(<<Release(y)>>)
      BY <1>4, <1>5, <3>3
    <3> QED
      BY <1>2, <3>4, KidsInPlace
  <2> QED
    BY <2>1, <2>2
<1> QED
  BY <1>2, <1>7, KeysSettled DEF Tidy

-----------------------------------------------------------------------------
(* The steps of a deferrer.                                                *)

(* What d may call, and in which order.                                    *)
Good(f) ==
  /\ Yields(f)
  /\ AtOnce(f)'
  /\ slot = chainSlot => Restores(f)
  /\ f[1] = "press" => Aligned'
  /\ f[1] = "tap" => slot' = chainSlot'

Leads(f, g) ==
  /\ g[1] # "press"
  /\ g[1] = "tap" => f[1] \in {"press", "release"}

(* A slot that was the chain's still is.                                   *)
SlotStays ==
  slot = chainSlot /\ chainSlot' = chainSlot /\ Restores(Top) =>
    slot' = chainSlot

LEMMA DeferrerSettled ==
  ASSUME Calm, Sound, Tidy, Settled, calls # <<>>,
         NEW d \in Deferrers, d = Self,
         \A m \in Deferrers : m # d => Apart(m),
         Ordered(d)', SlotStays, <<Top[1], "tap">> \notin Pairs,
         NEW list \in Seq(Frames), Call(list),
         \A i \in 1 .. Len(list) : Good(list[i]),
         \A i, j \in 1 .. Len(list) : i < j => Leads(list[i], list[j])
  PROVE  Settled'
<1>1. d \in Maps /\ ~ Harmless(Top)
  BY DeferrersAreMaps, QuietFacts DEF Harmless, Self
<1>2. /\ \A i \in 1 .. Len(calls) : calls[i] \in Frames
      /\ Len(calls) \in Nat \ {0}
      /\ Len(list) \in Nat
  BY StackAfter
<1>3. ASSUME NEW m, Rest("tap", m) PROVE chainSlot' = chainSlot
  <2>1. PICK i \in 2 .. Len(calls) : calls[i][1] = "tap" /\ calls[i][2] = m
    BY <1>3 DEF Rest
  <2>2. i \in 1 .. Len(calls) /\ calls[i] \in Frames
    BY <1>2, <2>1
  <2>3. m \in Of("TapSeq") /\ m \in Deferrers
    BY <2>1, <2>2, FrameKinds, DeferrersAreMaps
  <2>4. m # d
    <3>1. CASE m = d
      <4>1. "tap" \in Own /\ Self = d /\ Rest("tap", d)
        BY <1>3, <3>1 DEF Own
      <4>2. <<Top[1], "tap">> \in Pairs
        BY <1>1, <4>1, NothingWaits DEF Tidy
      <4> QED
        BY <4>2
    <3> QED
      BY <3>1
  <2>5. On("tap", m)
    BY <2>1, <2>2 DEF On
  <2>6. Contains(chain, m)
    BY <2>3, <2>5 DEF Settled, Ordered, Stepped
  <2> QED
    BY <2>3, <2>4, <2>6 DEF Apart
<1>4. TapsKept(list)
  <2>1. ASSUME NEW m, Rest("tap", m), slot = chainSlot, Restores(Top)
        PROVE  /\ slot' = chainSlot' /\ chainSlot' = chainSlot
               /\ \A i \in 1 .. Len(list) : RestoresNext(list[i])
    <3>1. chainSlot' = chainSlot /\ slot' = chainSlot
      BY <1>3, <2>1 DEF SlotStays
    <3>2. \A i \in 1 .. Len(list) : Restores(list[i])
      BY <2>1 DEF Good
    <3> QED
      BY <3>1, <3>2 DEF Restores, RestoresNext
  <2>2. ASSUME NEW i \in 1 .. Len(list), list[i][1] = "tap"
        PROVE  /\ slot' = chainSlot'
               /\ \A j \in 1 .. i - 1 : RestoresNext(list[j])
    <3>1. slot' = chainSlot'
      BY <2>2 DEF Good
    <3>2. ASSUME NEW j \in 1 .. i - 1 PROVE RestoresNext(list[j])
      <4>1. j \in 1 .. Len(list) /\ j < i
        BY <1>2
      <4>2. list[j][1] \in {"press", "release"}
        BY <2>2, <4>1 DEF Leads
      <4> QED
        BY <4>2 DEF RestoresNext
    <3> QED
      BY <3>1, <3>2
  <2> QED
    BY <2>1, <2>2 DEF TapsKept
<1>5. PressesKept(list)
  <2>1. ASSUME NEW i \in 1 .. Len(list), list[i][1] = "press"
        PROVE  Aligned' /\ \A j \in 1 .. i - 1 : FALSE
    <3>1. Aligned'
      BY <2>1 DEF Good
    <3>2. ASSUME NEW j \in 1 .. i - 1 PROVE FALSE
      <4>1. j \in 1 .. Len(list) /\ j < i
        BY <1>2
      <4> QED
        BY <2>1, <4>1 DEF Leads
    <3> QED
      BY <3>1, <3>2
  <2> QED
    BY <1>1, <2>1 DEF PressesKept
<1>6. /\ \A i \in 1 .. Len(list) : Yields(list[i])
      /\ \A i \in 1 .. Len(list) : AtOnce(list[i])'
  BY DEF Good
<1>7. \A m \in Deferrers : m = Self => Ordered(m)'
  OBVIOUS
<1> QED
  BY <1>1, <1>4, <1>5, <1>6, <1>7, SettledCall DEF Tidy

(* The calls of d after the step.                                          *)
OnAfter(d, K) ==
  /\ \A k \in Own : On(k, d)' => k \in K \/ Rest(k, d)
  /\ \A k \in Own : On(k, d) <=> Top[1] = k \/ Rest(k, d)
  /\ \A k \in Own : Rest(k, d) => On(k, d)'
  /\ \A k \in Own : <<Top[1], k>> \notin Pairs => ~ Rest(k, d)
  /\ \A k \in K : On(k, d)'
  /\ On("unref", d) /\ Top[1] # "unref" => On("unref", d)'
  /\ On("decide", d) => Top[1] = "decide"

LEMMA OnAfterCall ==
  ASSUME Sound, Tidy, calls # <<>>, NEW d \in Maps, d = Self,
         NEW list \in Seq(Frames), Call(list), NEW K,
         \A i \in 1 .. Len(list) : list[i][1] \in Own => list[i][1] \in K,
         \A k \in K : \E i \in 1 .. Len(list) :
           list[i][1] = k /\ list[i][2] = d
  PROVE  OnAfter(d, K)
<1>1. WaitsFor(d, list)
  BY WaitsForIt
<1>2. /\ \A k, m : On(k, m) <=> (Top[1] = k /\ Self = m) \/ Rest(k, m)
      /\ \A k, m : On(k, m)' <=>
           \/ \E i \in 1 .. Len(list) : list[i][1] = k /\ list[i][2] = m
           \/ Rest(k, m)
  BY CallsThatWait DEF Sound
<1>3. ~ Rest("decide", d)
  <2>1. SUFFICES ASSUME Rest("decide", d) PROVE FALSE
    OBVIOUS
  <2>2. PICK i \in 2 .. Len(calls) : calls[i][1] = "decide"
    BY <2>1 DEF Rest
  <2>3. 1 \in 1 .. Len(calls) /\ i \in 1 .. Len(calls) /\ 1 < i
    BY StackAfter
  <2>4. Over(calls[1], calls[i])
    BY <2>3 DEF Tidy, Stacked
  <2> QED
    BY <2>2, <2>4 DEF Over, First
<1> QED
  BY <1>1, <1>2, <1>3 DEF OnAfter, WaitsFor

(* The chain with one deferrer more, or less.                              *)
LEMMA StartApart ==
  ASSUME Sound, NEW d \in Deferrers, StartDefer(d), ~ failed'
  PROVE  /\ Contains(chain', d)
         /\ ~ Contains(chain, d)
         /\ chainSlot' = slot
         /\ \A m : m # d => (Contains(chain', m) <=> Contains(chain, m))
         /\ \A m : Contains(chain, m) => chainSlot' = chainSlot
<1>1. /\ \A m : Contains(chain', m) <=> Contains(chain, m) \/ m = d
      /\ ~ Contains(chain, d)
  BY StartDeferProperties DEF Sound
<1>2. chain # <<>> => chainSlot' = chainSlot
  BY DEF StartDefer
<1>3. \A m : Contains(chain, m) => chain # <<>>
  BY DEF Contains
<1>4. chainSlot' = slot
  BY DEF StartDefer
<1> QED
  BY <1>1, <1>2, <1>3, <1>4

LEMMA StopApart ==
  ASSUME Sound, NEW d \in Deferrers, StopDefer(d), ~ failed'
  PROVE  /\ Contains(chain, d)
         /\ ~ Contains(chain', d)
         /\ chain' = <<>> \/ chainSlot' = chainSlot
         /\ \A m : m # d => (Contains(chain', m) <=> Contains(chain, m))
         /\ \A m : Contains(chain', m) => chainSlot' = chainSlot
<1>1. /\ \A m : Contains(chain', m) <=> Contains(chain, m) /\ m # d
      /\ Contains(chain, d)
  BY StopDeferProperties DEF Sound
<1>2. chain' = <<>> \/ chainSlot' = chainSlot
  BY DEF StopDefer
<1>3. \A m : Contains(chain', m) => chain' # <<>>
  BY DEF Contains
<1> QED
  BY <1>1, <1>2, <1>3

(* A list of calls of d.                                                   *)
AllGood(list) ==
  /\ \A i \in 1 .. Len(list) : Good(list[i])
  /\ \A i, j \in 1 .. Len(list) : i < j => Leads(list[i], list[j])

Calling == \E list \in Seq(Frames) : Call(list) /\ AllGood(list)

LEMMA CallsNone ==
  ASSUME Sound, Tidy, calls # <<>>, NEW d \in Maps, d = Self, Call(<<>>)
  PROVE  OnAfter(d, {}) /\ Calling
<1>1. PICK list \in Seq(Frames) :
        /\ list = <<>> /\ Call(list)
        /\ \A i \in 1 .. Len(list) : FALSE
  BY NoneIsCalled
<1>2. OnAfter(d, {})
  <2>1. PICK K : K = {}
    OBVIOUS
  <2>2. OnAfter(d, K)
    BY <1>1, <2>1, OnAfterCall
  <2> QED
    BY <2>1, <2>2
<1> QED
  BY <1>1, <1>2 DEF Calling, AllGood

LEMMA CallsOne ==
  ASSUME Sound, Tidy, calls # <<>>, NEW d \in Maps, d = Self,
         NEW f \in Frames, Call(<<f>>), NEW K,
         f[1] \in Own => f[1] \in K,
         \A k \in K : k = f[1] /\ f[2] = d
  PROVE  OnAfter(d, K) /\ (Good(f) => Calling)
<1>1. PICK list \in Seq(Frames) : Call(list) /\ Len(list) = 1 /\ list[1] = f
  BY OneInPlace
<1>2. OnAfter(d, K)
  BY <1>1, OnAfterCall
<1> QED
  BY <1>1, <1>2 DEF Calling, AllGood

LEMMA CallsTwo ==
  ASSUME Sound, Tidy, calls # <<>>, NEW d \in Maps, d = Self,
         NEW f \in Frames, NEW g \in Frames, Call(<<f, g>>), NEW K,
         f[1] \in Own => f[1] \in K,
         g[1] \in Own => g[1] \in K,
         \A k \in K : (k = f[1] /\ f[2] = d) \/ (k = g[1] /\ g[2] = d)
  PROVE  OnAfter(d, K) /\ (Good(f) /\ Good(g) /\ Leads(f, g) => Calling)
<1>1. PICK list \in Seq(Frames) : InOrder(list, f, g)
  BY TwoInPlace
<1>2. /\ Call(list) /\ list[1] = f /\ list[2] = g
      /\ \A i : i \in 1 .. Len(list) <=> i = 1 \/ i = 2
  BY <1>1 DEF InOrder
<1>3. OnAfter(d, K)
  BY <1>2, OnAfterCall
<1>4. ASSUME Good(f), Good(g), Leads(f, g) PROVE AllGood(list)
  <2>1. \A i \in 1 .. Len(list) : Good(list[i])
    BY <1>2, <1>4
  <2>2. ASSUME NEW i \in 1 .. Len(list), NEW j \in 1 .. Len(list), i < j
        PROVE  Leads(list[i], list[j])
    <3>1. i = 1 /\ j = 2
      BY <1>2, <2>2
    <3> QED
      BY <1>2, <1>4, <3>1
  <2> QED
    BY <2>1, <2>2 DEF AllGood
<1> QED
  BY <1>2, <1>3, <1>4 DEF Calling

LEMMA DeferrerCalls ==
  ASSUME Calm, Sound, Tidy, Settled, calls # <<>>,
         NEW d \in Deferrers, d = Self,
         \A m \in Deferrers : m # d => Apart(m),
         Ordered(d)', SlotStays, <<Top[1], "tap">> \notin Pairs, Calling
  PROVE  Settled'
BY DeferrerSettled DEF Calling, AllGood

-----------------------------------------------------------------------------
(* The steps of a TapHold.                                                 *)

LEMMA TapHoldPressSettled ==
  ASSUME Calm, Sound, Tidy, Settled, TapHoldPress, ~ failed'
  PROVE  Settled'
<1>1. Counts /\ Pressing("TapHold")
  BY DEF Tidy, TapHoldPress
<1>2. /\ calls # <<>> /\ Top[1] = "press"
      /\ Self \in Of("TapHold") /\ Self \in Maps
      /\ count'[Self] = 1
      /\ \A m \in Maps \ {Self} : count'[m] = count[m]
  BY <1>1, PressFacts
<1>3. PICK d \in Maps : d = Self /\ d \in Of("TapHold") /\ d \in Deferrers
  BY <1>2, DeferrersAreMaps
<1>4. StartDefer(d) /\ chosen[d] = NoMap /\ Call(<<>>)
      /\ StartTimer(d) /\ mySlot' = [mySlot EXCEPT ![d] = slot]
      /\ UNCHANGED <<chosen, step, finished, slot>>
  <2>1. StartDefer(Self) /\ chosen[Self] = NoMap /\ Call(<<>>)
        /\ StartTimer(Self) /\ mySlot' = [mySlot EXCEPT ![Self] = slot]
        /\ UNCHANGED <<chosen, step, finished, slot>>
    BY DEF TapHoldPress
  <2> QED
    BY <1>3, <2>1 DEF StartDefer, StartTimer
<1>5. /\ Contains(chain', d)
      /\ chainSlot' = slot
      /\ \A m : m # d => (Contains(chain', m) <=> Contains(chain, m))
      /\ \A m : Contains(chain, m) => chainSlot' = chainSlot
  BY <1>3, <1>4, StartApart
<1>6. OnAfter(d, {}) /\ Calling
  BY <1>2, <1>3, <1>4, CallsNone
<1>7. mySlot'[d] = slot /\ \A m \in Deferrers : m # d => mySlot'[m] = mySlot[m]
  BY <1>3, <1>4 DEF Sound, Fields
<1>8. \A m \in Deferrers : m # d => Apart(m)
  BY <1>2, <1>3, <1>4, <1>5, <1>7, DeferrersAreMaps DEF Apart, StartTimer
<1>9. Ordered(d)'
  <2>1. ~ On("let go", d)' /\ ~ On("forget", d)'
    BY <1>2, <1>6 DEF OnAfter, Own, Pairs
  <2>2. Held(d)'
    BY <1>4, <1>5, <2>1 DEF Held
  <2>3. d \notin Of("TapSeq")
    BY <1>3, DeferrersAreMaps
  <2> QED
    BY <1>5, <1>7, <2>2, <2>3 DEF Ordered
<1>10. SlotStays /\ <<Top[1], "tap">> \notin Pairs
  BY <1>2, <1>4 DEF SlotStays, Pairs
<1> QED
  BY <1>2, <1>3, <1>6, <1>8, <1>9, <1>10, DeferrerCalls

LEMMA HelpDecideSettled ==
  ASSUME Calm, Sound, Tidy, Settled, HelpDecide, ~ failed'
  PROVE  Settled'
<1>1. /\ calls # <<>> /\ Top \in Frames /\ Top[1] = "decide"
      /\ Top = calls[1] /\ 1 \in 1 .. Len(calls)
  BY TopCall DEF HelpDecide
<1>2. PICK d \in Maps, x \in Maps :
        /\ d = Self /\ d \in Of("TapHold") /\ d \in Deferrers
        /\ x = Top[3] /\ x \in Below(d)
  BY <1>1, FrameKinds, DeferrersAreMaps DEF Self, Below
<1>3. x \in Kids(d)
  BY <1>1, <1>2 DEF Settled, Prompt, AtOnce, Self
<1>4. /\ StopDefer(d) /\ StopTimer(d) /\ slot' = mySlot[d]
      /\ Call(<<Press(x), <<"decided", d, x, slot>>>>)
      /\ UNCHANGED <<count, chosen, step, finished, mySlot>>
  <2>1. StopDefer(Self) /\ StopTimer(Self) /\ slot' = mySlot[Self]
        /\ Call(<<Press(Top[3]), <<"decided", Self, Top[3], slot>>>>)
        /\ UNCHANGED <<count, chosen, step, finished, mySlot>>
    BY DEF HelpDecide, mapVars
  <2> QED
    BY <1>2, <2>1 DEF StopDefer, StopTimer, Unlink, Place
<1>5. /\ Contains(chain, d)
      /\ ~ Contains(chain', d)
      /\ chain' = <<>> \/ chainSlot' = chainSlot
      /\ \A m : m # d => (Contains(chain', m) <=> Contains(chain, m))
      /\ \A m : Contains(chain', m) => chainSlot' = chainSlot
  BY <1>2, <1>4, StopApart
<1>6. mySlot[d] = chainSlot /\ Ordered(d) /\ Held(d)
  BY <1>2, <1>5 DEF Settled, Ordered
<1>7. PICK f \in Frames, g \in Frames :
        f = Press(x) /\ g = <<"decided", d, x, slot>>
  BY <1>2, FrameMakes DEF Sound, Fields
<1>8. /\ f[1] = "press" /\ f[2] = x
      /\ g[1] = "decided" /\ g[2] = d /\ g[3] = x /\ g[4] = slot
  BY <1>7 DEF Press
<1>9. Call(<<f, g>>)
  BY <1>4, <1>7
<1>10. OnAfter(d, {"decided"}) /\ (Good(f) /\ Good(g) /\ Leads(f, g) => Calling)
  <2>1. PICK K : K = {"decided"}
    OBVIOUS
  <2>2. /\ f[1] \in Own => f[1] \in K
        /\ g[1] \in Own => g[1] \in K
        /\ \A k \in K : (k = f[1] /\ f[2] = d) \/ (k = g[1] /\ g[2] = d)
    BY <1>8, <2>1 DEF Own
  <2>3. OnAfter(d, K) /\ (Good(f) /\ Good(g) /\ Leads(f, g) => Calling)
    BY <1>1, <1>2, <1>9, <2>2, CallsTwo
  <2> QED
    BY <2>1, <2>3
<1>11. Good(f)
  <2>1. Yields(f) /\ AtOnce(f)'
    BY <1>2, <1>3, <1>8 DEF Yields, Outermost, AtOnce
  <2>2. Aligned'
    BY <1>4, <1>5, <1>6 DEF Aligned
  <2> QED
    BY <1>8, <2>1, <2>2 DEF Good, Restores
<1>12. Good(g) /\ Leads(f, g)
  <2>1. Yields(g) /\ AtOnce(g)'
    BY <1>2, <1>3, <1>8 DEF Yields, Outermost, AtOnce, Late
  <2> QED
    BY <1>8, <2>1 DEF Good, Restores, Leads
<1>13. \A m \in Deferrers : m # d => Apart(m)
  BY <1>4, <1>5 DEF Apart, StopTimer
<1>14. Ordered(d)'
  <2>1. On("decided", d)' /\ ~ On("forget", d)'
        /\ (On("let go", d)' => On("let go", d))
    BY <1>1, <1>10 DEF OnAfter, Own, Pairs
  <2>2. Held(d)'
    BY <1>4, <1>6, <2>1 DEF Held
  <2>3. d \notin Of("TapSeq") /\ d \notin expected'
    BY <1>2, <1>4, DeferrersAreMaps DEF StopTimer
  <2> QED
    BY <1>5, <2>2, <2>3 DEF Ordered
<1>15. SlotStays /\ <<Top[1], "tap">> \notin Pairs
  BY <1>1, <1>4, <1>6 DEF SlotStays, Pairs
<1> QED
  BY <1>1, <1>2, <1>10, <1>11, <1>12, <1>13, <1>14, <1>15, DeferrerCalls

LEMMA DecidedSettled ==
  ASSUME Calm, Sound, Tidy, Settled, Decided
  PROVE  Settled'
<1>1. /\ calls # <<>> /\ Top \in Frames /\ Top[1] = "decided"
      /\ Top = calls[1] /\ 1 \in 1 .. Len(calls)
  BY TopCall DEF Decided
<1>2. PICK d \in Maps, x \in Maps :
        /\ d = Self /\ d \in Of("TapHold") /\ d \in Deferrers
        /\ x = Top[3]
  BY <1>1, FrameKinds, DeferrersAreMaps DEF Self, Below
<1>3. x \in Kids(d)
  BY <1>1, <1>2 DEF Settled, Prompt, AtOnce, Self
<1>4. /\ slot' = Top[4] /\ chosen' = [chosen EXCEPT ![d] = x]
      /\ Call(<<>>)
      /\ UNCHANGED <<count, step, finished, mySlot, chain, chainSlot, expected>>
  BY <1>2 DEF Decided, deferVars, timerVars
<1>5. OnAfter(d, {}) /\ Calling
  BY <1>1, <1>2, <1>4, CallsNone
<1>6. chosen'[d] = x /\ \A m \in Of("TapHold") : m # d => chosen'[m] = chosen[m]
  BY <1>2, <1>4 DEF Sound, Fields
<1>7. \A m \in Deferrers : m # d => Apart(m)
  BY <1>4, <1>6 DEF Apart, Contains
<1>8. Ordered(d)'
  <2>1. Ordered(d) /\ Held(d)
    BY <1>2 DEF Settled, Ordered
  <2>2. /\ ~ On("forget", d)' /\ (On("let go", d)' => On("let go", d))
        /\ (On("unref", d) => On("unref", d)')
    BY <1>1, <1>5 DEF OnAfter, Own, Pairs
  <2>3. x # NoMap
    BY <1>2, KeymapAssumption
  <2>4. Held(d)'
    BY <1>3, <1>4, <1>6, <2>1, <2>2, <2>3 DEF Held
  <2>5. d \notin Of("TapSeq")
    BY <1>2, DeferrersAreMaps
  <2> QED
    BY <1>4, <2>1, <2>2, <2>4, <2>5 DEF Ordered, Contains
<1>9. SlotStays /\ <<Top[1], "tap">> \notin Pairs
  BY <1>1, <1>4 DEF SlotStays, Restores, Pairs
<1> QED
  BY <1>1, <1>2, <1>5, <1>7, <1>8, <1>9, DeferrerCalls

LEMMA TapHoldReleaseSettled ==
  ASSUME Calm, Sound, Tidy, Settled, TapHoldRelease
  PROVE  Settled'
<1>1. Counts /\ Releasing("TapHold")
  BY DEF Tidy, TapHoldRelease
<1>2. /\ calls # <<>> /\ Top[1] = "release"
      /\ Self \in Of("TapHold") /\ Self \in Maps
      /\ count[Self] = 1 /\ count'[Self] = 0
      /\ \A m \in Maps \ {Self} : count'[m] = count[m]
  BY <1>1, ReleaseFacts
<1>3. PICK d \in Maps, x \in Maps :
        /\ d = Self /\ d \in Of("TapHold") /\ d \in Deferrers
        /\ x = Tap(d) /\ x \in Below(d) /\ x \in Kids(d)
  BY <1>2, DeferrersAreMaps, KidsFacts, ChildrenAreBelow DEF Of
<1>4. PICK f \in Frames, g \in Frames : f = Decide(d, x) /\ g = <<"let go", d>>
  BY <1>3, FrameMakes
<1>5. /\ f[1] = "decide" /\ f[2] = d /\ f[3] = x
      /\ g[1] = "let go" /\ g[2] = d
  BY <1>4 DEF Decide
<1>6. \/ chosen[d] = NoMap /\ Call(<<f, g>>)
      \/ chosen[d] # NoMap /\ Call(<<g>>)
  <2>1. Call((IF chosen[d] = NoMap THEN <<f>> ELSE <<>>) \o <<g>>)
    BY <1>3, <1>4 DEF TapHoldRelease
  <2>2. <<>> \o <<g>> = <<g>> /\ <<f>> \o <<g>> = <<f, g>>
    BY Joined
  <2> QED
    BY <2>1, <2>2
<1>7. UNCHANGED <<chosen, step, finished, mySlot, slot, chain, chainSlot,
                  expected>>
  BY DEF TapHoldRelease, OnlyCalls, deferVars, timerVars
<1>8. Ordered(d) /\ Held(d)
  BY <1>3 DEF Settled, Ordered
<1>9. Good(g)
  <2>1. Yields(g) /\ AtOnce(g)'
    BY <1>2, <1>3, <1>5 DEF Yields, Outermost, AtOnce, Late
  <2> QED
    BY <1>5, <2>1 DEF Good, Restores
<1>10. PICK K : K = {"let go"}
  OBVIOUS
<1>11. /\ g[1] \in Own => g[1] \in K
       /\ f[1] \in Own => f[1] \in K
       /\ \A k \in K : k = g[1] /\ g[2] = d
  BY <1>5, <1>10 DEF Own
<1>12. /\ OnAfter(d, K)
       /\ Calling
       /\ chosen[d] = NoMap => On("decide", d)'
  <2>1. CASE chosen[d] # NoMap /\ Call(<<g>>)
    <3>1. OnAfter(d, K) /\ Calling
      BY <1>2, <1>3, <1>9, <1>11, <2>1, CallsOne
    <3> QED
      BY <2>1, <3>1
  <2>2. CASE chosen[d] = NoMap /\ Call(<<f, g>>)
    <3>1. PICK L : L = {"decide", "let go"}
      OBVIOUS
    <3>2. /\ g[1] \in Own => g[1] \in L
          /\ f[1] \in Own => f[1] \in L
          /\ \A k \in L : (k = f[1] /\ f[2] = d) \/ (k = g[1] /\ g[2] = d)
      BY <1>5, <3>1 DEF Own
    <3>3. OnAfter(d, L) /\ (Good(f) /\ Good(g) /\ Leads(f, g) => Calling)
      BY <1>2, <1>3, <2>2, <3>2, CallsTwo
    <3>4. On("decide", d)' /\ OnAfter(d, K)
      BY <1>10, <3>1, <3>3 DEF OnAfter, Own
    <3>5. ~ On("decided", d)
      BY <1>2, <3>3 DEF OnAfter, Own, Pairs
    <3>6. Contains(chain', d)
      <4>1. count[d] > 0
        BY <1>2, <1>3
      <4>2. Contains(chain, d)
        BY <1>8, <2>2, <3>5, <4>1 DEF Held
      <4> QED
        BY <1>7, <4>2 DEF Contains
    <3>7. Good(f)
      <4>1. Yields(f)
        BY <1>2, <1>3, <1>5 DEF Yields, Outermost, Late
      <4>2. AtOnce(f)'
        BY <1>3, <1>5, <3>6 DEF AtOnce
      <4> QED
        BY <1>5, <4>1, <4>2 DEF Good, Restores
    <3>8. Leads(f, g)
      BY <1>5 DEF Leads
    <3> QED
      BY <1>9, <3>3, <3>4, <3>7, <3>8
  <2> QED
    BY <1>6, <2>1, <2>2
<1>13. \A m \in Deferrers : m # d => Apart(m)
  BY <1>2, <1>3, <1>7, DeferrersAreMaps DEF Apart, Contains
<1>14. Ordered(d)'
  <2>2. ~ (count'[d] > 0)
    BY <1>2, <1>3
  <2>3. Held(d)'
    BY <1>7, <1>8, <1>12, <2>2 DEF Held
  <2>4. On("unref", d) => On("unref", d)'
    BY <1>2, <1>12 DEF OnAfter
  <2>5. d \notin Of("TapSeq")
    BY <1>3, DeferrersAreMaps
  <2> QED
    BY <1>7, <1>8, <2>3, <2>4, <2>5 DEF Ordered, Contains
<1>15. SlotStays /\ <<Top[1], "tap">> \notin Pairs
  BY <1>2, <1>7 DEF SlotStays, Pairs
<1> QED
  BY <1>2, <1>3, <1>12, <1>13, <1>14, <1>15, DeferrerCalls

LEMMA LetGoSettled ==
  ASSUME Calm, Sound, Tidy, Settled, LetGo, ~ failed'
  PROVE  Settled'
<1>1. /\ calls # <<>> /\ Top \in Frames /\ Top[1] = "let go"
  BY TopCall DEF LetGo
<1>2. PICK d \in Maps : d = Self /\ d \in Of("TapHold") /\ d \in Deferrers
  BY <1>1, FrameKinds, DeferrersAreMaps DEF Self
<1>3. Ordered(d) /\ Held(d)
  BY <1>2 DEF Settled, Ordered
<1>4. PICK x \in Maps : x = chosen[d] /\ x \in Kids(d)
  BY <1>2, <1>3, KidsFacts DEF LetGo, Held
<1>5. /\ Call(<<Release(x), <<"forget", d>>>>)
      /\ UNCHANGED <<count, chosen, step, finished, mySlot, slot, chain,
                     chainSlot, expected>>
  BY <1>2, <1>4 DEF LetGo, OnlyCalls, deferVars, timerVars
<1>6. PICK f \in Frames, g \in Frames : f = Release(x) /\ g = <<"forget", d>>
  BY <1>2, FrameMakes
<1>7. /\ f[1] = "release" /\ f[2] = x
      /\ g[1] = "forget" /\ g[2] = d
  BY <1>6 DEF Release
<1>8. OnAfter(d, {"forget"}) /\ (Good(f) /\ Good(g) /\ Leads(f, g) => Calling)
  <2>1. PICK K : K = {"forget"}
    OBVIOUS
  <2>2. /\ f[1] \in Own => f[1] \in K
        /\ g[1] \in Own => g[1] \in K
        /\ \A k \in K : (k = f[1] /\ f[2] = d) \/ (k = g[1] /\ g[2] = d)
    BY <1>7, <2>1 DEF Own
  <2>3. Call(<<f, g>>)
    BY <1>5, <1>6
  <2>4. OnAfter(d, K) /\ (Good(f) /\ Good(g) /\ Leads(f, g) => Calling)
    BY <1>1, <1>2, <2>2, <2>3, CallsTwo
  <2> QED
    BY <2>1, <2>4
<1>9. Good(f) /\ Good(g) /\ Leads(f, g)
  BY <1>1, <1>2, <1>4, <1>7
     DEF Good, Yields, AtOnce, Restores, Leads, Outermost, Late
<1>10. \A m \in Deferrers : m # d => Apart(m)
  BY <1>5 DEF Apart, Contains
<1>11. Ordered(d)'
  <2>1. On("let go", d) /\ ~ On("let go", d)'
        /\ (On("unref", d) => On("unref", d)')
        /\ (On("decided", d) => On("decided", d)')
    BY <1>1, <1>2, <1>8 DEF OnAfter, Own, Pairs
  <2>2. Held(d)'
    BY <1>3, <1>5, <2>1 DEF Held, Contains
  <2>3. d \notin Of("TapSeq")
    BY <1>2, DeferrersAreMaps
  <2> QED
    BY <1>3, <1>5, <2>1, <2>2, <2>3 DEF Ordered, Contains
<1>12. SlotStays /\ <<Top[1], "tap">> \notin Pairs
  BY <1>1, <1>5 DEF SlotStays, Pairs
<1> QED
  BY <1>1, <1>2, <1>8, <1>9, <1>10, <1>11, <1>12, DeferrerCalls

LEMMA ForgetSettled ==
  ASSUME Calm, Sound, Tidy, Settled, Forget
  PROVE  Settled'
<1>1. /\ calls # <<>> /\ Top \in Frames /\ Top[1] = "forget"
  BY TopCall DEF Forget
<1>2. PICK d \in Maps : d = Self /\ d \in Of("TapHold") /\ d \in Deferrers
  BY <1>1, FrameKinds, DeferrersAreMaps DEF Self
<1>3. Ordered(d) /\ Held(d)
  BY <1>2 DEF Settled, Ordered
<1>4. /\ chosen' = [chosen EXCEPT ![d] = NoMap] /\ Call(<<>>)
      /\ UNCHANGED <<count, step, finished, mySlot, slot, chain, chainSlot,
                     expected>>
  BY <1>2 DEF Forget, deferVars, timerVars
<1>5. OnAfter(d, {}) /\ Calling
  BY <1>1, <1>2, <1>4, CallsNone
<1>6. chosen'[d] = NoMap
      /\ \A m \in Of("TapHold") : m # d => chosen'[m] = chosen[m]
  BY <1>2, <1>4 DEF Sound, Fields
<1>7. \A m \in Deferrers : m # d => Apart(m)
  BY <1>4, <1>6 DEF Apart, Contains
<1>8. Ordered(d)'
  <2>1. On("forget", d) /\ ~ On("let go", d)'
        /\ (On("unref", d) => On("unref", d)')
    BY <1>1, <1>2, <1>5 DEF OnAfter, Own, Pairs
  <2>2. ~ (count'[d] > 0)
    BY <1>3, <1>4, <2>1 DEF Held
  <2>3. Held(d)'
    BY <1>6, <2>1, <2>2 DEF Held
  <2>4. d \notin Of("TapSeq")
    BY <1>2, DeferrersAreMaps
  <2> QED
    BY <1>3, <1>4, <2>1, <2>3, <2>4 DEF Ordered, Contains
<1>9. SlotStays /\ <<Top[1], "tap">> \notin Pairs
  BY <1>1, <1>4 DEF SlotStays, Pairs
<1> QED
  BY <1>1, <1>2, <1>5, <1>7, <1>8, <1>9, DeferrerCalls

LEMMA TapHoldTimeoutSettled ==
  ASSUME Calm, Sound, Tidy, Settled, TapHoldTimeout
  PROVE  Settled'
<1>1. /\ calls # <<>> /\ Top \in Frames /\ Top[1] = "timeout"
      /\ Top = calls[1] /\ 1 \in 1 .. Len(calls)
  BY TopCall DEF TapHoldTimeout
<1>2. PICK d \in Maps, x \in Maps :
        /\ d = Self /\ d \in Of("TapHold") /\ d \in Deferrers
        /\ x = Hold(d) /\ x \in Below(d) /\ x \in Kids(d)
  <2>1. Self \in Deferrers /\ Class[Self] = "TapHold"
    BY <1>1, FrameKinds DEF TapHoldTimeout, Self
  <2> QED
    BY <2>1, DeferrersAreMaps, KidsFacts, ChildrenAreBelow DEF Of
<1>3. Ordered(d) /\ Held(d) /\ Contains(chain, d)
  BY <1>1, <1>2 DEF Settled, Ordered, Prompt, AtOnce, Self
<1>4. /\ Call(<<Decide(d, x)>>)
      /\ UNCHANGED <<count, chosen, step, finished, mySlot, slot, chain,
                     chainSlot, expected>>
  BY <1>2 DEF TapHoldTimeout, OnlyCalls, deferVars, timerVars
<1>5. PICK f \in Frames : f = Decide(d, x)
  BY <1>2, FrameMakes
<1>6. f[1] = "decide" /\ f[2] = d /\ f[3] = x
  BY <1>5 DEF Decide
<1>7. OnAfter(d, {}) /\ (Good(f) => Calling)
  <2>1. PICK K : K = {}
    OBVIOUS
  <2>2. /\ f[1] \in Own => f[1] \in K
        /\ \A k \in K : k = f[1] /\ f[2] = d
    BY <1>6, <2>1 DEF Own
  <2>3. OnAfter(d, K) /\ (Good(f) => Calling)
    BY <1>1, <1>2, <1>4, <1>5, <2>2, CallsOne
  <2> QED
    BY <2>1, <2>3
<1>8. Good(f)
  <2>1. AtOnce(f)'
    BY <1>2, <1>3, <1>4, <1>6 DEF AtOnce, Contains
  <2> QED
    BY <1>2, <1>6, <2>1 DEF Good, Yields, Restores, Outermost, Late
<1>9. \A m \in Deferrers : m # d => Apart(m)
  BY <1>4 DEF Apart, Contains
<1>10. Ordered(d)'
  <2>1. /\ On("let go", d)' <=> On("let go", d)
        /\ On("forget", d)' <=> On("forget", d)
        /\ On("decided", d)' <=> On("decided", d)
        /\ (On("unref", d) => On("unref", d)')
        /\ ~ On("decide", d)
    BY <1>1, <1>7 DEF OnAfter, Own
  <2>2. Held(d)'
    BY <1>3, <1>4, <2>1 DEF Held, Contains
  <2>3. d \notin Of("TapSeq")
    BY <1>2, DeferrersAreMaps
  <2> QED
    BY <1>3, <1>4, <2>1, <2>2, <2>3 DEF Ordered, Contains
<1>11. SlotStays /\ <<Top[1], "tap">> \notin Pairs
  BY <1>1, <1>4 DEF SlotStays, Pairs
<1> QED
  BY <1>1, <1>2, <1>7, <1>8, <1>9, <1>10, <1>11, DeferrerCalls

-----------------------------------------------------------------------------
(* The steps of a TapSeq.                                                  *)

LEMMA TapSeqPressSettled ==
  ASSUME Calm, Sound, Tidy, Settled, TapSeqPress, ~ failed'
  PROVE  Settled'
<1>1. Counts /\ Pressing("TapSeq")
  BY DEF Tidy, TapSeqPress
<1>2. /\ calls # <<>> /\ Top[1] = "press"
      /\ Self \in Of("TapSeq") /\ Self \in Maps
      /\ count'[Self] = 1
      /\ \A m \in Maps \ {Self} : count'[m] = count[m]
  BY <1>1, PressFacts
<1>3. PICK d \in Maps : d = Self /\ d \in Of("TapSeq") /\ d \in Deferrers
  BY <1>2, DeferrersAreMaps
<1>4. /\ UNCHANGED <<chosen, slot>>
      /\ step' = [step EXCEPT ![d] = @ + 1]
      /\ mySlot' = [mySlot EXCEPT ![d] = slot]
      /\ StartTimer(d)
  BY <1>3 DEF TapSeqPress, StartTimer
<1>5. /\ step[d] \in Nat /\ step'[d] = step[d] + 1
      /\ \A m \in Of("TapSeq") : m # d => step'[m] = step[m]
      /\ mySlot'[d] = slot
      /\ \A m \in Deferrers : m # d => mySlot'[m] = mySlot[m]
  BY <1>3, <1>4 DEF Sound, Fields
<1>6. Ordered(d) /\ Stepped(d) /\ Dance(d)
  BY <1>3 DEF Settled, Ordered, Tidy, Dances
<1>7. Aligned
  <2>1. Self \notin Quiet
    BY <1>3, QuietFacts
  <2> QED
    BY <1>2, <2>1, PressAligned
<1>8. Child[d] \in Seq(Maps) /\ Len(Child[d]) \in Nat \ {0}
  <2>1. Child[d] \in Seq(Maps)
    BY KeymapAssumption
  <2>2. Child[d] # <<>>
    BY <1>3 DEF Calm
  <2> QED
    BY <2>1, <2>2, EmptySeq
<1>9. PICK f \in Frames : f = <<"tap", d>>
  BY <1>3, FrameMakes
<1>10. f[1] = "tap" /\ f[2] = d
  BY <1>9
<1>11. ASSUME slot' = chainSlot' PROVE Good(f)
  <2>1. Yields(f) /\ AtOnce(f)'
    BY <1>2, <1>3, <1>10 DEF Yields, Outermost, AtOnce, Late
  <2> QED
    BY <1>10, <1>11, <2>1 DEF Good, Restores
<1>12. PICK K : K = {"tap"}
  OBVIOUS
<1>13. f[1] \in Own => f[1] \in K
  BY <1>10, <1>12
<1>14. /\ step'[d] \in 1 .. Len(Child[d])
       /\ d \notin finished'
       /\ \A m : m # d => (m \in finished' <=> m \in finished)
       /\ Contains(chain', d)
       /\ chainSlot' = slot
       /\ \A m : m # d => (Contains(chain', m) <=> Contains(chain, m))
       /\ \A m : Contains(chain, m) => chainSlot' = chainSlot
       /\ OnAfter(d, K)
       /\ Calling
  <2>1. CASE /\ step'[d] = 1 /\ finished' = finished \ {d}
             /\ StartDefer(d) /\ Call(<<<<"tap", d>>>>)
    <3>1. /\ Contains(chain', d)
          /\ chainSlot' = slot
          /\ \A m : m # d => (Contains(chain', m) <=> Contains(chain, m))
          /\ \A m : Contains(chain, m) => chainSlot' = chainSlot
      BY <1>3, <2>1, StartApart
    <3>2. \A k \in K : k = f[1] /\ f[2] = d
      BY <1>10, <1>12
    <3>3. Call(<<f>>)
      BY <1>9, <2>1
    <3>4. OnAfter(d, K) /\ (Good(f) => Calling)
      BY <1>2, <1>3, <1>13, <3>2, <3>3, CallsOne
    <3>5. Good(f)
      BY <1>4, <1>11, <3>1
    <3>6. /\ step'[d] \in 1 .. Len(Child[d])
          /\ d \notin finished'
          /\ \A m : m # d => (m \in finished' <=> m \in finished)
      BY <1>8, <2>1
    <3> QED
      BY <3>1, <3>4, <3>5, <3>6
  <2>2. CASE /\ step'[d] \in 2 .. Len(Child[d])
             /\ UNCHANGED <<finished, chain, chainSlot>>
             /\ Call(<<Release(Tapped(d)), <<"tap", d>>>>)
    <3>1. PICK y \in Kids(d) : y = Tapped(d)
      <4>1. step[d] \in DOMAIN Child[d]
        BY <1>5, <1>8, <2>2
      <4>2. Tapped(d) = Child[d][step[d]]
        BY <4>1 DEF Tapped
      <4> QED
        BY <4>1, <4>2 DEF Kids
    <3>2. PICK g \in Frames : g = Release(y)
      BY KidsFacts, FrameMakes
    <3>3. g[1] = "release" /\ g[2] = y
      BY <3>2 DEF Release
    <3>4. Call(<<g, f>>)
      BY <1>9, <2>2, <3>1, <3>2
    <3>5. /\ g[1] \in Own => g[1] \in K
          /\ \A k \in K : (k = g[1] /\ g[2] = d) \/ (k = f[1] /\ f[2] = d)
      BY <1>10, <1>12, <3>3 DEF Own
    <3>6. OnAfter(d, K) /\ (Good(g) /\ Good(f) /\ Leads(g, f) => Calling)
      BY <1>2, <1>3, <1>13, <3>4, <3>5, CallsTwo
    <3>7. d \notin finished /\ Contains(chain, d)
      <4>1. "danced" \in Own /\ <<Top[1], "danced">> \notin Pairs
        BY <1>2 DEF Own, Pairs
      <4>2. ~ On("danced", d)
        BY <1>2, <3>6, <4>1 DEF OnAfter
      <4>3. step[d] > 0 /\ ~ (count[d] > 0)
        <5>1. count[Self] = 0
          BY <1>1, PressFacts
        <5> QED
          BY <1>3, <1>5, <2>2, <5>1
      <4> QED
        BY <1>6, <4>2, <4>3 DEF Dance
    <3>8. chainSlot = slot
      <4>1. chain # <<>>
        BY <3>7 DEF Contains
      <4> QED
        BY <1>7, <4>1 DEF Aligned
    <3>9. Good(f)
      BY <1>4, <1>11, <2>2, <3>8
    <3>10. Good(g) /\ Leads(g, f)
      BY <1>2, <1>3, <1>10, <3>3
         DEF Good, Yields, AtOnce, Restores, Leads, Outermost
    <3>11. /\ step'[d] \in 1 .. Len(Child[d])
           /\ d \notin finished'
           /\ \A m : m # d => (m \in finished' <=> m \in finished)
      BY <1>8, <2>2, <3>7
    <3>12. \A m : Contains(chain', m) <=> Contains(chain, m)
      BY <2>2 DEF Contains
    <3> QED
      BY <2>2, <3>6, <3>7, <3>8, <3>9, <3>10, <3>11, <3>12
  <2>3. \/ /\ step'[d] = 1 /\ finished' = finished \ {d}
           /\ StartDefer(d) /\ Call(<<<<"tap", d>>>>)
        \/ /\ step'[d] \in 2 .. Len(Child[d])
           /\ UNCHANGED <<finished, chain, chainSlot>>
           /\ Call(<<Release(Tapped(d)), <<"tap", d>>>>)
    <3>1. \/ /\ step'[Self] = 1 /\ finished' = finished \ {Self}
             /\ StartDefer(Self) /\ Call(<<<<"tap", Self>>>>)
          \/ /\ step'[Self] \in 2 .. Len(Child[Self])
             /\ UNCHANGED <<finished, chain, chainSlot>>
             /\ Call(<<Release(Tapped(Self)), <<"tap", Self>>>>)
      BY DEF TapSeqPress, deferVars
    <3> QED
      BY <1>3, <3>1 DEF StartDefer, Tapped
  <2> QED
    BY <2>1, <2>2, <2>3
<1>15. \A m \in Deferrers : m # d => Apart(m)
  BY <1>2, <1>3, <1>4, <1>5, <1>14, DeferrersAreMaps DEF Apart, StartTimer
<1>16. Ordered(d)'
  <2>1. On("tap", d)' /\ ~ On("danced", d)'
    BY <1>2, <1>12, <1>14 DEF OnAfter, Own, Pairs
  <2>2. /\ step'[d] >= 1
        /\ step'[d] <= Len(Child[d])
    BY <1>8, <1>14
  <2>3. Stepped(d)'
    BY <1>14, <2>1, <2>2 DEF Stepped
  <2>4. d \notin Of("TapHold")
    BY <1>3, DeferrersAreMaps
  <2> QED
    BY <1>5, <1>14, <2>3, <2>4 DEF Ordered
<1>17. SlotStays /\ <<Top[1], "tap">> \notin Pairs
  BY <1>2, <1>4 DEF SlotStays, Pairs
<1> QED
  BY <1>2, <1>3, <1>14, <1>15, <1>16, <1>17, DeferrerCalls

LEMMA TapSeqTapsSettled ==
  ASSUME Calm, Sound, Tidy, Settled, TapSeqTaps, ~ failed'
  PROVE  Settled'
<1>1. /\ calls # <<>> /\ Top \in Frames /\ Top[1] = "tap"
  BY TopCall DEF TapSeqTaps
<1>2. PICK d \in Maps, x \in Maps :
        /\ d = Self /\ d \in Of("TapSeq") /\ d \in Deferrers
        /\ x = Tapped(d) /\ x \in Kids(d)
  <2>1. PICK d \in Maps : d = Self /\ d \in Of("TapSeq")
    BY <1>1, FrameKinds, DeferrersAreMaps DEF Self
  <2>2. Tapped(Self) # NoMap
    BY DEF TapSeqTaps
  <2>3. Tapped(d) # NoMap
    BY <2>1, <2>2 DEF Tapped
  <2> QED
    BY <2>1, <2>3, KidsFacts, DeferrersAreMaps
<1>3. UNCHANGED <<count, chosen, step, finished, mySlot, slot, chain,
                  chainSlot, expected>>
  BY DEF TapSeqTaps, OnlyCalls, deferVars, timerVars
<1>4. Ordered(d) /\ Stepped(d)
  BY <1>2 DEF Settled, Ordered
<1>5. slot = chainSlot
  <2>1. Len(calls) \in Nat \ {0} /\ Top = calls[1]
    BY <1>1, EmptySeq DEF Sound, Top
  <2>2. 1 \in 1 .. Len(calls)
    BY <2>1
  <2> QED
    BY <1>1, <2>1, <2>2 DEF Settled, TapsInPlace
<1>6. PICK f \in Frames, g \in Frames :
        f = Press(x) /\ g = <<"finish", d>>
  BY <1>2, KidsFacts, FrameMakes
<1>7. f[1] = "press" /\ f[2] = x /\ g[1] = "finish" /\ g[2] = d
  BY <1>6 DEF Press
<1>8. \/ Call(<<f, g>>)
      \/ step[d] # Len(Child[d]) /\ Call(<<f>>)
  <2>1. Call(<<Press(Tapped(Self))>>
               \o IF step[Self] = Len(Child[Self]) THEN <<<<"finish", Self>>>>
                  ELSE <<>>)
    BY DEF TapSeqTaps
  <2>2. Tapped(Self) = x
    BY <1>2 DEF Tapped
  <2>3. \/ Call(<<f>> \o <<g>>)
        \/ step[d] # Len(Child[d]) /\ Call(<<f>> \o <<>>)
    BY <1>2, <1>6, <2>1, <2>2
  <2>4. <<f>> \o <<g>> = <<f, g>> /\ <<f>> \o <<>> = <<f>>
    BY Joined
  <2> QED
    BY <2>3, <2>4
<1>9. Good(f) /\ Good(g) /\ Leads(f, g)
  <2>1. Aligned'
    BY <1>3, <1>5 DEF Aligned
  <2> QED
    BY <1>1, <1>2, <1>7, <2>1
       DEF Good, Yields, AtOnce, Restores, Leads, Outermost, Late
<1>10. PICK K :
         /\ OnAfter(d, K) /\ Calling /\ K \subseteq {"finish"}
         /\ step[d] = Len(Child[d]) => "finish" \in K
  <2>1. CASE Call(<<f, g>>)
    <3>1. PICK K : K = {"finish"}
      OBVIOUS
    <3>2. /\ f[1] \in Own => f[1] \in K
          /\ g[1] \in Own => g[1] \in K
          /\ \A k \in K : (k = f[1] /\ f[2] = d) \/ (k = g[1] /\ g[2] = d)
      BY <1>7, <3>1 DEF Own
    <3>3. OnAfter(d, K) /\ (Good(f) /\ Good(g) /\ Leads(f, g) => Calling)
      BY <1>1, <1>2, <2>1, <3>2, CallsTwo
    <3> QED
      BY <1>9, <3>1, <3>3
  <2>2. CASE step[d] # Len(Child[d]) /\ Call(<<f>>)
    <3>1. PICK K : K = {}
      OBVIOUS
    <3>2. /\ f[1] \in Own => f[1] \in K
          /\ \A k \in K : k = f[1] /\ f[2] = d
      BY <1>7, <3>1 DEF Own
    <3>3. OnAfter(d, K) /\ (Good(f) => Calling)
      BY <1>1, <1>2, <2>2, <3>2, CallsOne
    <3> QED
      BY <1>9, <2>2, <3>1, <3>3
  <2> QED
    BY <1>8, <2>1, <2>2
<1>11. \A m \in Deferrers : m # d => Apart(m)
  BY <1>3 DEF Apart, Contains
<1>12. Ordered(d)'
  <2>1. On("tap", d) /\ ~ On("danced", d)'
        /\ (On("unref", d) => On("unref", d)')
        /\ (step[d] = Len(Child[d]) => On("finish", d)')
    BY <1>1, <1>10 DEF OnAfter, Own, Pairs
  <2>2. Contains(chain, d)
    BY <1>4, <2>1 DEF Stepped
  <2>3. Contains(chain', d)
    BY <1>3, <2>2 DEF Contains
  <2>4. Stepped(d)'
    BY <1>3, <1>4, <2>1, <2>2, <2>3 DEF Stepped
  <2>5. d \notin Of("TapHold")
    BY <1>2, DeferrersAreMaps
  <2> QED
    BY <1>3, <1>4, <2>2, <2>3, <2>4, <2>5 DEF Ordered
<1>13. SlotStays /\ <<Top[1], "tap">> \notin Pairs
  BY <1>1, <1>3 DEF SlotStays, Pairs
<1> QED
  BY <1>1, <1>2, <1>10, <1>11, <1>12, <1>13, DeferrerCalls

LEMMA FinishSettled ==
  ASSUME Calm, Sound, Tidy, Settled, Finish, ~ failed'
  PROVE  Settled'
<1>1. /\ calls # <<>> /\ Top \in Frames /\ Top[1] = "finish"
  BY TopCall DEF Finish
<1>2. PICK d \in Maps : d = Self /\ d \in Of("TapSeq") /\ d \in Deferrers
  BY <1>1, FrameKinds, DeferrersAreMaps DEF Self
<1>3. /\ StopDefer(d) /\ StopTimer(d)
      /\ finished' = finished \cup {d} /\ Call(<<>>)
      /\ UNCHANGED <<count, chosen, step, mySlot, slot>>
  <2>1. /\ StopDefer(Self) /\ StopTimer(Self)
        /\ finished' = finished \cup {Self} /\ Call(<<>>)
        /\ UNCHANGED <<count, chosen, step, mySlot, slot>>
    BY DEF Finish
  <2> QED
    BY <1>2, <2>1 DEF StopDefer, StopTimer, Unlink, Place
<1>4. /\ ~ Contains(chain', d)
      /\ \A m : m # d => (Contains(chain', m) <=> Contains(chain, m))
      /\ \A m : Contains(chain', m) => chainSlot' = chainSlot
  BY <1>2, <1>3, StopApart
<1>5. OnAfter(d, {}) /\ Calling
  BY <1>1, <1>2, <1>3, CallsNone
<1>6. \A m \in Deferrers : m # d => Apart(m)
  BY <1>3, <1>4 DEF Apart, StopTimer
<1>7. Ordered(d)'
  <2>1. Ordered(d) /\ Stepped(d)
    BY <1>2 DEF Settled, Ordered
  <2>2. ~ On("tap", d)' /\ ~ On("finish", d)' /\ ~ On("danced", d)'
    BY <1>1, <1>5 DEF OnAfter, Own, Pairs
  <2>3. On("finish", d)
    BY <1>1, <1>5 DEF OnAfter, Own
  <2>4. step[d] >= 1
    BY <2>1, <2>3 DEF Stepped
  <2>5. d \in finished' /\ d \notin expected'
    BY <1>3 DEF StopTimer
  <2>6. Stepped(d)'
    BY <1>3, <1>4, <2>1, <2>2, <2>4, <2>5 DEF Stepped
  <2>7. d \notin Of("TapHold")
    BY <1>2, DeferrersAreMaps
  <2> QED
    BY <1>4, <2>5, <2>6, <2>7 DEF Ordered
<1>8. SlotStays /\ <<Top[1], "tap">> \notin Pairs
  BY <1>1, <1>3 DEF SlotStays, Pairs
<1> QED
  BY <1>1, <1>2, <1>5, <1>6, <1>7, <1>8, DeferrerCalls

LEMMA TapSeqLetsOffSettled ==
  ASSUME Calm, Sound, Tidy, Settled, TapSeqLetsOff, ~ failed'
  PROVE  Settled'
<1>1. /\ calls # <<>> /\ Top \in Frames /\ Top[1] = "let off"
  BY TopCall DEF TapSeqLetsOff
<1>2. PICK d \in Maps, x \in Maps :
        /\ d = Self /\ d \in Of("TapSeq") /\ d \in Deferrers
        /\ x = Tapped(d) /\ x \in Kids(d)
  <2>1. PICK d \in Maps : d = Self /\ d \in Of("TapSeq")
    BY <1>1, FrameKinds, DeferrersAreMaps DEF Self
  <2>2. Tapped(Self) # NoMap
    BY DEF TapSeqLetsOff
  <2>3. Tapped(d) # NoMap
    BY <2>1, <2>2 DEF Tapped
  <2> QED
    BY <2>1, <2>3, KidsFacts, DeferrersAreMaps
<1>3. UNCHANGED <<count, chosen, step, finished, mySlot, slot, chain,
                  chainSlot, expected>>
  BY DEF TapSeqLetsOff, OnlyCalls, deferVars, timerVars
<1>4. PICK f \in Frames : f = Release(x)
  BY <1>2, KidsFacts, FrameMakes
<1>5. f[1] = "release" /\ f[2] = x
  BY <1>4 DEF Release
<1>6. Call(<<f>>)
  <2>1. Tapped(Self) = x
    BY <1>2 DEF Tapped
  <2> QED
    BY <1>4, <2>1 DEF TapSeqLetsOff
<1>7. OnAfter(d, {}) /\ Calling
  <2>1. PICK K : K = {}
    OBVIOUS
  <2>2. /\ f[1] \in Own => f[1] \in K
        /\ \A k \in K : k = f[1] /\ f[2] = d
    BY <1>5, <2>1 DEF Own
  <2>3. OnAfter(d, K) /\ (Good(f) => Calling)
    BY <1>1, <1>2, <1>6, <2>2, CallsOne
  <2>4. Good(f)
    BY <1>2, <1>5 DEF Good, Yields, AtOnce, Restores, Outermost
  <2> QED
    BY <2>1, <2>3, <2>4
<1>8. \A m \in Deferrers : m # d => Apart(m)
  BY <1>3 DEF Apart, Contains
<1>9. Ordered(d)'
  <2>1. Ordered(d) /\ Stepped(d)
    BY <1>2 DEF Settled, Ordered
  <2>2. /\ On("tap", d)' <=> On("tap", d)
        /\ On("finish", d)' <=> On("finish", d)
        /\ On("danced", d)' <=> On("danced", d)
        /\ On("unref", d) => On("unref", d)'
    BY <1>1, <1>7 DEF OnAfter, Own
  <2>3. Stepped(d)'
    BY <1>3, <2>1, <2>2 DEF Stepped, Contains
  <2>4. d \notin Of("TapHold")
    BY <1>2, DeferrersAreMaps
  <2> QED
    BY <1>3, <2>1, <2>2, <2>3, <2>4 DEF Ordered, Contains
<1>10. SlotStays /\ <<Top[1], "tap">> \notin Pairs
  BY <1>1, <1>3 DEF SlotStays, Pairs
<1> QED
  BY <1>1, <1>2, <1>7, <1>8, <1>9, <1>10, DeferrerCalls

(* The end of a dance.                                                     *)
LEMMA EndDanceSettled ==
  ASSUME Sound, Tidy, calls # <<>>, NEW d \in Maps, d = Self,
         d \in Of("TapSeq"), Top[1] \in {"release", "timeout"},
         Call(EndDance(d)), step'[d] >= 1
  PROVE  OnAfter(d, {"danced"}) /\ Calling
<1>1. PICK f \in Frames, g \in Frames :
        f = <<"let off", d>> /\ g = <<"danced", d, slot>>
  BY FrameMakes DEF Sound, Fields
<1>2. /\ f[1] = "let off" /\ f[2] = d
      /\ g[1] = "danced" /\ g[2] = d /\ g[3] = slot
  BY <1>1
<1>3. PICK K : K = {"danced"}
  OBVIOUS
<1>4. /\ f[1] \in Own => f[1] \in K
      /\ g[1] \in Own => g[1] \in K
      /\ \A k \in K : (k = f[1] /\ f[2] = d) \/ (k = g[1] /\ g[2] = d)
  BY <1>2, <1>3 DEF Own
<1>5. Call(<<f, g>>)
  BY <1>1 DEF EndDance
<1>6. OnAfter(d, K) /\ (Good(f) /\ Good(g) /\ Leads(f, g) => Calling)
  BY <1>4, <1>5, CallsTwo
<1>7. Good(f)
  BY <1>2 DEF Good, Yields, AtOnce, Restores, Outermost, Late
<1>8. Good(g) /\ Leads(f, g)
  BY <1>2 DEF Good, Yields, AtOnce, Restores, Leads, Outermost, Late
<1> QED
  BY <1>3, <1>6, <1>7, <1>8

LEMMA TapSeqReleaseSettled ==
  ASSUME Calm, Sound, Tidy, Settled, TapSeqRelease
  PROVE  Settled'
<1>1. Counts /\ Releasing("TapSeq")
  BY DEF Tidy, TapSeqRelease
<1>2. /\ calls # <<>> /\ Top[1] = "release"
      /\ Self \in Of("TapSeq") /\ Self \in Maps
      /\ count[Self] = 1 /\ count'[Self] = 0
      /\ \A m \in Maps \ {Self} : count'[m] = count[m]
  BY <1>1, ReleaseFacts
<1>3. PICK d \in Maps : d = Self /\ d \in Of("TapSeq") /\ d \in Deferrers
  BY <1>2, DeferrersAreMaps
<1>4. UNCHANGED <<chosen, step, finished, mySlot, slot, chain, chainSlot,
                  expected>>
  BY DEF TapSeqRelease, OnlyCalls, deferVars, timerVars
<1>5. Ordered(d) /\ Stepped(d)
  BY <1>3 DEF Settled, Ordered
<1>6. step[d] >= 1 /\ ~ (count'[d] > 0)
  <2>1. count[d] > 0 /\ ~ (count'[d] > 0)
    BY <1>2, <1>3
  <2> QED
    BY <1>5, <2>1 DEF Stepped
<1>7. PICK K :
        /\ OnAfter(d, K) /\ Calling /\ K \subseteq {"danced"}
        /\ "danced" \in K => d \in finished
  <2>1. CASE d \in finished
    <3>1. Call(EndDance(d))
      BY <1>3, <2>1 DEF TapSeqRelease, EndDance
    <3>2. step'[d] >= 1
      BY <1>4, <1>6
    <3>3. OnAfter(d, {"danced"}) /\ Calling
      BY <1>2, <1>3, <3>1, <3>2, EndDanceSettled
    <3> QED
      BY <2>1, <3>3
  <2>2. CASE d \notin finished
    <3>1. Call(<<>>)
      BY <1>3, <2>2 DEF TapSeqRelease
    <3>2. OnAfter(d, {}) /\ Calling
      BY <1>2, <1>3, <3>1, CallsNone
    <3> QED
      BY <3>2
  <2> QED
    BY <2>1, <2>2
<1>8. \A m \in Deferrers : m # d => Apart(m)
  BY <1>2, <1>3, <1>4, DeferrersAreMaps DEF Apart, Contains
<1>9. Ordered(d)'
  <2>1. /\ On("tap", d)' => On("tap", d)
        /\ On("tap", d) => On("tap", d)'
        /\ On("finish", d)' <=> On("finish", d)
        /\ On("danced", d)' => d \in finished
        /\ On("unref", d) => On("unref", d)'
    BY <1>2, <1>7 DEF OnAfter, Own, Pairs
  <2>2. Stepped(d)'
    BY <1>4, <1>5, <1>6, <2>1 DEF Stepped, Contains
  <2>3. d \notin Of("TapHold")
    BY <1>3, DeferrersAreMaps
  <2> QED
    BY <1>4, <1>5, <2>1, <2>2, <2>3 DEF Ordered, Contains
<1>10. SlotStays /\ <<Top[1], "tap">> \notin Pairs
  BY <1>2, <1>4 DEF SlotStays, Pairs
<1> QED
  BY <1>2, <1>3, <1>7, <1>8, <1>9, <1>10, DeferrerCalls

LEMMA TapDanceTimeoutSettled ==
  ASSUME Calm, Sound, Tidy, Settled, TapDanceTimeout, ~ failed'
  PROVE  Settled'
<1>1. /\ calls # <<>> /\ Top \in Frames /\ Top[1] = "timeout"
      /\ Top = calls[1] /\ 1 \in 1 .. Len(calls)
  BY TopCall DEF TapDanceTimeout
<1>2. PICK d \in Maps : d = Self /\ d \in Of("TapSeq") /\ d \in Deferrers
  BY <1>1, FrameKinds, DeferrersAreMaps DEF Self, Of, TapDanceTimeout
<1>3. /\ StopDefer(d)
      /\ finished' = finished \cup {d}
      /\ UNCHANGED <<count, chosen, step, mySlot, expected>>
      /\ \/ count[d] > 0 /\ Call(<<>>) /\ slot' = slot
         \/ ~ (count[d] > 0) /\ Call(EndDance(d)) /\ slot' = mySlot[d]
  <2>1. /\ StopDefer(Self)
        /\ finished' = finished \cup {Self}
        /\ UNCHANGED <<count, chosen, step, mySlot, expected>>
        /\ \/ count[Self] > 0 /\ Call(<<>>) /\ slot' = slot
           \/ ~ (count[Self] > 0) /\ Call(EndDance(Self))
              /\ slot' = mySlot[Self]
    BY DEF TapDanceTimeout, IsPressed, timerVars
  <2>2. StopDefer(d)
    BY <1>2, <2>1 DEF StopDefer, Unlink, Place
  <2>3. EndDance(Self) = EndDance(d)
    BY <1>2 DEF EndDance
  <2> QED
    BY <1>2, <2>1, <2>2, <2>3
<1>4. /\ Contains(chain, d)
      /\ ~ Contains(chain', d)
      /\ \A m : m # d => (Contains(chain', m) <=> Contains(chain, m))
      /\ \A m : Contains(chain', m) => chainSlot' = chainSlot
  BY <1>2, <1>3, StopApart
<1>5. /\ Ordered(d) /\ Stepped(d) /\ mySlot[d] = chainSlot
      /\ step[d] >= 1
      /\ d \in expected => On("unref", d)
  <2>1. Ordered(d) /\ Stepped(d) /\ AtOnce(Top)
    BY <1>1, <1>2 DEF Settled, Ordered, Prompt
  <2> QED
    BY <1>1, <1>2, <1>4, <2>1 DEF Ordered, Stepped, AtOnce, Self
<1>6. PICK K :
        /\ OnAfter(d, K) /\ Calling /\ K \subseteq {"danced"}
        /\ "danced" \in K => ~ (count[d] > 0)
  <2>1. CASE ~ (count[d] > 0) /\ Call(EndDance(d))
    <3>1. step'[d] >= 1
      BY <1>3, <1>5
    <3>2. OnAfter(d, {"danced"}) /\ Calling
      BY <1>1, <1>2, <2>1, <3>1, EndDanceSettled
    <3> QED
      BY <2>1, <3>2
  <2>2. CASE Call(<<>>)
    <3>1. OnAfter(d, {}) /\ Calling
      BY <1>1, <1>2, <2>2, CallsNone
    <3> QED
      BY <3>1
  <2> QED
    BY <1>3, <2>1, <2>2
<1>7. \A m \in Deferrers : m # d => Apart(m)
  BY <1>3, <1>4 DEF Apart
<1>8. Ordered(d)'
  <2>1. /\ ~ On("tap", d)' /\ ~ On("finish", d)'
        /\ On("danced", d)' => ~ (count[d] > 0)
        /\ On("unref", d) => On("unref", d)'
    BY <1>1, <1>6 DEF OnAfter, Own, Pairs
  <2>2. d \in finished'
    BY <1>3
  <2>3. Stepped(d)'
    BY <1>3, <1>4, <1>5, <2>1, <2>2 DEF Stepped
  <2>4. d \notin Of("TapHold")
    BY <1>2, DeferrersAreMaps
  <2> QED
    BY <1>3, <1>4, <1>5, <2>1, <2>3, <2>4 DEF Ordered
<1>9. SlotStays /\ <<Top[1], "tap">> \notin Pairs
  BY <1>1, <1>3, <1>5 DEF SlotStays, Pairs
<1> QED
  BY <1>1, <1>2, <1>6, <1>7, <1>8, <1>9, DeferrerCalls

LEMMA DancedSettled ==
  ASSUME Calm, Sound, Tidy, Settled, Danced
  PROVE  Settled'
<1>1. /\ calls # <<>> /\ Top \in Frames /\ Top[1] = "danced"
  BY TopCall DEF Danced
<1>2. PICK d \in Maps : d = Self /\ d \in Of("TapSeq") /\ d \in Deferrers
  BY <1>1, FrameKinds, DeferrersAreMaps DEF Self
<1>3. /\ step' = [step EXCEPT ![d] = 0] /\ slot' = Top[3] /\ Call(<<>>)
      /\ UNCHANGED <<count, chosen, finished, mySlot, chain, chainSlot,
                     expected>>
  BY <1>2 DEF Danced, deferVars, timerVars
<1>4. OnAfter(d, {}) /\ Calling
  BY <1>1, <1>2, <1>3, CallsNone
<1>5. step'[d] = 0 /\ \A m \in Of("TapSeq") : m # d => step'[m] = step[m]
  BY <1>2, <1>3 DEF Sound, Fields
<1>6. \A m \in Deferrers : m # d => Apart(m)
  BY <1>3, <1>5 DEF Apart, Contains
<1>7. Ordered(d)'
  <2>1. Ordered(d) /\ Stepped(d)
    BY <1>2 DEF Settled, Ordered
  <2>2. /\ On("danced", d) /\ ~ On("danced", d)'
        /\ ~ On("tap", d)' /\ ~ On("finish", d)'
        /\ On("unref", d) => On("unref", d)'
    BY <1>1, <1>4 DEF OnAfter, Own, Pairs
  <2>3. d \in finished /\ ~ (count[d] > 0) /\ ~ Contains(chain, d)
    BY <2>1, <2>2 DEF Stepped
  <2>4. d \in finished' /\ ~ (count'[d] > 0) /\ ~ Contains(chain', d)
    BY <1>3, <2>3 DEF Contains
  <2>5. step'[d] <= Len(Child[d])
    <3>1. Child[d] \in Seq(Maps)
      BY KeymapAssumption
    <3>2. Len(Child[d]) \in Nat
      BY <3>1
    <3> QED
      BY <1>5, <3>2
  <2>6. Stepped(d)'
    BY <2>2, <2>4, <2>5 DEF Stepped
  <2>7. d \notin Of("TapHold")
    BY <1>2, DeferrersAreMaps
  <2> QED
    BY <1>3, <2>1, <2>2, <2>3, <2>4, <2>6, <2>7 DEF Ordered
<1>8. SlotStays /\ <<Top[1], "tap">> \notin Pairs
  BY <1>1, <1>3 DEF SlotStays, Restores, Pairs
<1> QED
  BY <1>1, <1>2, <1>4, <1>6, <1>7, <1>8, DeferrerCalls

-----------------------------------------------------------------------------
(* The driver's steps.                                                     *)

(* The calls are those of list, and no others.                             *)
Fresh(list) ==
  \A i \in 1 .. Len(calls') : i \in 1 .. Len(list) /\ calls'[i] = list[i]

(* What the driver may call.                                               *)
Announces(list) ==
  /\ \A i \in 1 .. Len(list) : list[i][1] \notin Own
  /\ \A i \in 1 .. Len(list) : AtOnce(list[i])'
  /\ \A i \in 1 .. Len(list) : list[i][1] = "press" => Aligned' /\ i = 1
  /\ \A i \in 1 .. Len(list) : list[i][1] = "other" =>
       /\ Audience(list[i])'
       /\ \A j \in 1 .. i - 1 : Heeds(list[j], list[i])

(* No call of its own waits for m.                                         *)
Unasked(m) ==
  /\ \A k \in Own : ~ On(k, m)
  /\ m \in expected' => ~ On("unref", m)

LEMMA OrderedFresh ==
  ASSUME NEW m \in Deferrers, Ordered(m), Apart(m), Unasked(m),
         \A k \in Own : ~ On(k, m)'
  PROVE  Ordered(m)'
<1>1. /\ ~ On("decided", m) /\ ~ On("decided", m)'
      /\ ~ On("forget", m)'
      /\ ~ On("let go", m)'
      /\ ~ On("tap", m) /\ ~ On("tap", m)'
      /\ ~ On("finish", m) /\ ~ On("finish", m)'
      /\ ~ On("danced", m)'
  BY DEF Own, Unasked
<1>2. m \in Of("TapHold") => Held(m)'
  BY <1>1 DEF Ordered, Apart, Held
<1>3. m \in Of("TapSeq") => Stepped(m)'
  BY <1>1 DEF Ordered, Apart, Stepped
<1>4. m \in expected' => Contains(chain', m)
  BY DEF Ordered, Apart, Unasked
<1>5. Contains(chain', m) => mySlot'[m] = chainSlot'
  BY DEF Ordered, Apart
<1> QED
  BY <1>2, <1>3, <1>4, <1>5 DEF Ordered

LEMMA FreshSettled ==
  ASSUME Settled, NEW list \in Seq(Frames), Fresh(list), Announces(list),
         \A m \in Deferrers : Apart(m) /\ Unasked(m)
  PROVE  Settled'
<1>1. \A k \in Own : \A m : ~ On(k, m)'
  BY DEF On, Fresh, Announces
<1>2. \A m \in Deferrers : Ordered(m)'
  BY <1>1, OrderedFresh DEF Settled
<1>3. Prompt'
  BY DEF Prompt, Fresh, Announces, AtOnce
<1>4. TapsInPlace'
  BY DEF TapsInPlace, Fresh, Announces, Own
<1>5. PressesInPlace'
  <2> SUFFICES ASSUME NEW i \in 1 .. Len(calls'), calls'[i][1] = "press"
               PROVE  Aligned' /\ \A j \in 1 .. i - 1 : Harmless(calls'[j])
    BY DEF PressesInPlace, Harmless
  <2>1. Aligned' /\ i = 1
    BY DEF Fresh, Announces
  <2> QED
    BY <2>1
<1>6. Heard'
  <2> SUFFICES ASSUME NEW i \in 1 .. Len(calls'), NEW g, g = calls'[i],
                      g[1] = "other"
               PROVE  /\ Audience(g)'
                      /\ \A j \in 1 .. i - 1 : Heeds(calls'[j], g)
    BY DEF Heard, Audience
  <2>1. /\ i \in 1 .. Len(list) /\ g = list[i]
        /\ Audience(g)'
        /\ \A j \in 1 .. i - 1 : Heeds(list[j], g)
    BY DEF Fresh, Announces, Audience
  <2>2. ASSUME NEW j \in 1 .. i - 1 PROVE calls'[j] = list[j]
    <3>1. Len(list) \in Nat
      OBVIOUS
    <3>2. j \in 1 .. Len(calls')
      <4>1. i \in Nat /\ j \in Nat /\ 1 <= j /\ j < i /\ i \in 1 .. Len(calls')
        BY <2>1, <3>1
      <4> QED
        BY <4>1
    <3> QED
      BY <3>2 DEF Fresh
  <2> QED
    BY <2>1, <2>2
<1> QED
  BY <1>2, <1>3, <1>4, <1>5, <1>6 DEF Settled

(* A list of one call, and of two.                                         *)
LEMMA AnnouncesOne ==
  ASSUME NEW list, NEW f, Len(list) = 1, list[1] = f,
         f[1] \notin Own, AtOnce(f)', f[1] = "press" => Aligned',
         f[1] = "other" => Audience(f)'
  PROVE  Announces(list)
<1>1. \A i \in 1 .. Len(list) : i = 1 /\ list[i] = f
  OBVIOUS
<1>2. \A i \in 1 .. Len(list) : 1 .. i - 1 = {}
  OBVIOUS
<1>3. \A i \in 1 .. Len(list) : AtOnce(list[i])'
  BY <1>1
<1>4. ASSUME NEW i \in 1 .. Len(list), list[i][1] = "other"
      PROVE  /\ Audience(list[i])'
             /\ \A j \in 1 .. i - 1 : Heeds(list[j], list[i])
  <2>1. list[i] = f
    BY <1>1
  <2> QED
    BY <1>2, <1>4, <2>1
<1> QED
  BY <1>1, <1>3, <1>4 DEF Announces

LEMMA PlacesOfTwo ==
  ASSUME NEW list, NEW f, NEW g, Len(list) = 2, list[1] = f, list[2] = g
  PROVE  \A i \in 1 .. Len(list) :
           \/ i = 1 /\ list[i] = f /\ 1 .. i - 1 = {}
           \/ i = 2 /\ list[i] = g /\ \A j \in 1 .. i - 1 : list[j] = f
<1> SUFFICES ASSUME NEW i \in 1 .. Len(list)
             PROVE  \/ i = 1 /\ list[i] = f /\ 1 .. i - 1 = {}
                    \/ i = 2 /\ list[i] = g /\ \A j \in 1 .. i - 1 : list[j] = f
  OBVIOUS
<1>1. i = 1 \/ i = 2
  OBVIOUS
<1>2. CASE i = 1
  <2>1. 1 .. i - 1 = {}
    BY <1>2
  <2> QED
    BY <1>2, <2>1
<1>3. CASE i = 2
  <2>1. \A j \in 1 .. i - 1 : j = 1
    BY <1>3
  <2> QED
    BY <1>3, <2>1
<1> QED
  BY <1>1, <1>2, <1>3

LEMMA AnnouncesTwo ==
  ASSUME NEW list, NEW f, NEW g, Len(list) = 2, list[1] = f, list[2] = g,
         f[1] \notin Own, g[1] \notin Own, AtOnce(f)', AtOnce(g)',
         f[1] = "press" => Aligned', g[1] # "press", f[1] # "other",
         g[1] = "other" => Audience(g)' /\ Heeds(f, g)
  PROVE  Announces(list)
<1>1. \A i \in 1 .. Len(list) :
        \/ i = 1 /\ list[i] = f /\ 1 .. i - 1 = {}
        \/ i = 2 /\ list[i] = g /\ \A j \in 1 .. i - 1 : list[j] = f
  BY PlacesOfTwo
<1>2. \A i \in 1 .. Len(list) : AtOnce(list[i])'
  <2> SUFFICES ASSUME NEW i \in 1 .. Len(list) PROVE AtOnce(list[i])'
    OBVIOUS
  <2>1. list[i] = f \/ list[i] = g
    BY <1>1
  <2> QED
    BY <2>1
<1>3. ASSUME NEW i \in 1 .. Len(list), list[i][1] = "other"
      PROVE  /\ Audience(list[i])'
             /\ \A j \in 1 .. i - 1 : Heeds(list[j], list[i])
  <2>1. list[i] = g /\ \A j \in 1 .. i - 1 : list[j] = f
    BY <1>1, <1>3
  <2>2. Audience(g)' /\ Heeds(f, g)
    BY <1>3, <2>1
  <2> QED
    BY <2>1, <2>2
<1>4. \A i \in 1 .. Len(list) : list[i][1] \notin Own
  BY <1>1
<1>5. \A i \in 1 .. Len(list) : list[i][1] = "press" => Aligned' /\ i = 1
  BY <1>1
<1> QED
  BY <1>2, <1>3, <1>4, <1>5 DEF Announces

(* A call of the driver is alone on the stack.                             *)
LEMMA Alone ==
  ASSUME Sound, Stacked, calls # <<>>, Top[1] \in Outermost,
         NEW list \in Seq(Frames), Call(list),
         \A m \in Deferrers : Top[1] = "unref" /\ Self = m => m \notin expected'
  PROVE  /\ Fresh(list)
         /\ \A m \in Deferrers : Unasked(m)
         /\ Top = calls[1] /\ 1 \in 1 .. Len(calls)
<1>1. Len(calls) = 1
  BY OutermostIsLast
<1>2. Rests(list) /\ Top = calls[1]
  BY StackAfter
<1>3. Fresh(list)
  BY <1>1, <1>2 DEF Rests, Fresh
<1>4. ASSUME NEW k, NEW m, On(k, m) PROVE Top[1] = k /\ Self = m
  BY <1>1, <1>2, <1>4 DEF On, Self
<1>5. Top[1] \notin Own
  BY DEF Own, Outermost
<1>6. \A m \in Deferrers : Unasked(m)
  BY <1>4, <1>5 DEF Unasked
<1> QED
  BY <1>1, <1>2, <1>3, <1>6

(* The driver's calls that only end.                                       *)
LEMMA DriverEndsSettled ==
  ASSUME Sound, Tidy, Settled, AllTold \/ RemoveLast \/ Unref
  PROVE  Settled'
<1>1. /\ calls # <<>> /\ Top[1] \in Outermost /\ Call(<<>>)
      /\ UNCHANGED <<count, chosen, step, finished, mySlot, slot, chain,
                     chainSlot>>
      /\ Top[1] = "unref" => expected' = expected \ {Self}
      /\ Top[1] # "unref" => UNCHANGED expected
  <2>1. CASE AllTold
    <3>1. calls # <<>> /\ Top[1] = "other"
      BY <2>1, TopCall DEF AllTold
    <3> QED
      BY <2>1, <3>1 DEF AllTold, OnlyCalls, Outermost, deferVars, timerVars
  <2>2. CASE RemoveLast
    <3>1. calls # <<>> /\ Top[1] = "remove last"
      BY <2>2, TopCall DEF RemoveLast
    <3> QED
      BY <2>2, <3>1
         DEF RemoveLast, Outermost, mapVars, deferVars, timerVars
  <2>3. CASE Unref
    <3>1. calls # <<>> /\ Top[1] = "unref"
      BY <2>3, TopCall DEF Unref
    <3> QED
      BY <2>3, <3>1 DEF Unref, Outermost, mapVars, deferVars
  <2> QED
    BY <2>1, <2>2, <2>3
<1>2. PICK list \in Seq(Frames) :
        /\ list = <<>> /\ Call(list)
        /\ \A i \in 1 .. Len(list) : FALSE
  BY <1>1, NoneIsCalled
<1>3. Announces(list)
  BY <1>2 DEF Announces
<1>4. \A m \in Deferrers : Apart(m)
  BY <1>1 DEF Apart, Contains
<1>5. Fresh(list) /\ \A m \in Deferrers : Unasked(m)
  BY <1>1, <1>2, Alone DEF Tidy
<1> QED
  BY <1>3, <1>4, <1>5, FreshSettled

(* A deferrer is told of an event, and the others after it.                *)
LEMMA ToldOnce ==
  ASSUME Sound, Settled, Telling
  PROVE  \E d \in Deferrers, r \in Frames :
           /\ d = Told /\ r = TellTheRest
           /\ r[1] = "other" /\ r[3] = OtherEvent
           /\ Audience(r)
           /\ ~ Listed(r, d)
           /\ d \in Acting(OtherEvent.press) => Contains(chain, d)
<1>1. /\ calls # <<>> /\ Top \in Frames /\ Top[1] = "other"
      /\ Top = calls[1] /\ 1 \in 1 .. Len(calls)
  <2>1. calls # <<>> /\ Top \in Frames /\ Top[1] = "other"
    BY TopCall DEF Telling
  <2>2. Len(calls) \in Nat \ {0} /\ Top = calls[1]
    BY <2>1, EmptySeq DEF Sound, Top
  <2> QED
    BY <2>1, <2>2
<1>2. Audience(Top)
  BY <1>1 DEF Settled, Heard
<1>3. PICK q \in Seq(Deferrers) : q = Top[2] /\ q # <<>>
  BY <1>1, FrameKinds DEF Telling
<1>4. PICK t \in Seq(Deferrers) : t = Tail(q)
  BY <1>3, HeadTailProperties
<1>5. /\ Len(q) \in Nat \ {0}
      /\ Len(t) = Len(q) - 1
      /\ \A i \in 1 .. Len(t) : t[i] = q[i + 1]
      /\ Head(q) = q[1]
  BY <1>3, <1>4, HeadTailProperties, EmptySeq
<1>6. PICK r \in Frames :
        r = TellTheRest /\ r[1] = "other" /\ r[2] = t /\ r[3] = OtherEvent
  <2>1. OtherEvent \in Event
    BY <1>1, FrameKinds DEF OtherEvent
  <2>2. <<"other", t, OtherEvent>> \in Frames
    BY <2>1, FrameMakes
  <2>3. TellTheRest = <<"other", t, OtherEvent>>
    BY <1>3, <1>4 DEF TellTheRest
  <2> QED
    BY <2>2, <2>3
<1>7. PICK d \in Deferrers : d = Told /\ d = q[1]
  <2>1. q[1] \in Deferrers
    BY <1>3, <1>5, ElementOfSeq
  <2> QED
    BY <1>3, <1>5, <2>1 DEF Told
<1>8. \A a, b \in 1 .. Len(q) : q[a] = q[b] => a = b
  BY <1>2, <1>3 DEF Audience
<1>9. ~ Listed(r, d)
  <2>1. ASSUME NEW a \in 1 .. Len(t), t[a] = d PROVE FALSE
    <3>1. a + 1 \in 1 .. Len(q) /\ 1 \in 1 .. Len(q) /\ q[a + 1] = q[1]
      BY <1>5, <1>7, <2>1
    <3>2. a + 1 = 1
      BY <1>8, <3>1
    <3> QED
      BY <2>1, <3>2
  <2> QED
    BY <1>6, <2>1 DEF Listed
<1>10. \A m : Listed(r, m) => Listed(Top, m)
  <2>1. ASSUME NEW a \in 1 .. Len(t) PROVE a + 1 \in 1 .. Len(q)
    BY <1>5
  <2> QED
    BY <1>3, <1>5, <1>6, <2>1 DEF Listed
<1>11. Listed(Top, d)
  <2>1. 1 \in 1 .. Len(q)
    BY <1>5
  <2> QED
    BY <1>3, <1>7, <2>1 DEF Listed
<1>12. Audience(r)
  <2>1. ASSUME NEW a \in 1 .. Len(t), NEW b \in 1 .. Len(t), t[a] = t[b]
        PROVE  a = b
    <3>1. a + 1 \in 1 .. Len(q) /\ b + 1 \in 1 .. Len(q)
          /\ q[a + 1] = q[b + 1]
      BY <1>5, <2>1
    <3>2. a + 1 = b + 1
      BY <1>8, <3>1
    <3> QED
      BY <1>5, <3>2
  <2>2. \A m \in Acting(r[3].press) : Listed(r, m) => Contains(chain, m)
    BY <1>2, <1>6, <1>10 DEF Audience, OtherEvent
  <2> QED
    BY <1>6, <2>1, <2>2 DEF Audience
<1>13. d \in Acting(OtherEvent.press) => Contains(chain, d)
  BY <1>2, <1>11 DEF Audience, OtherEvent
<1> QED
  BY <1>6, <1>7, <1>9, <1>12, <1>13

(* What is called then.                                                    *)
LEMMA TellsSettled ==
  ASSUME Sound, Tidy, Settled, Telling,
         UNCHANGED <<count, chosen, step, finished, mySlot, slot, chain,
                     chainSlot>>,
         expected' \subseteq expected,
         NEW f \in Frames, f[1] \in {"decide", "timeout"}, f[2] = Told,
         \/ Call(<<TellTheRest>>)
         \/ /\ f[2] \in Acting(OtherEvent.press)
            /\ AtOnce(f)'
            /\ Call(<<f, TellTheRest>>)
         \/ /\ ~ OtherEvent.press
            /\ Call(<<Execute(OtherEvent), <<"remove last">>>>)
  PROVE  Settled'
<1>1. /\ calls # <<>> /\ Top \in Frames /\ Top[1] = "other"
      /\ Top[1] \in Outermost
  BY TopCall DEF Telling, Outermost
<1>2. PICK d \in Deferrers, r \in Frames :
        /\ d = Told /\ r = TellTheRest
        /\ r[1] = "other" /\ r[3] = OtherEvent
        /\ Audience(r)
        /\ ~ Listed(r, d)
  BY ToldOnce
<1>3. Audience(r)'
  BY <1>2 DEF Audience, Listed, Contains
<1>4. AtOnce(r)' /\ r[1] \notin Own /\ f[1] \notin Own
  BY <1>2 DEF AtOnce, Own
<1>5. \E list \in Seq(Frames) : Call(list) /\ Announces(list)
  <2>1. CASE Call(<<TellTheRest>>)
    <3>1. PICK list \in Seq(Frames) :
            Call(list) /\ Len(list) = 1 /\ list[1] = r
      BY <1>2, <2>1, OneInPlace
    <3>2. r[1] # "press"
      BY <1>2
    <3>3. Announces(list)
      BY <1>3, <1>4, <3>1, <3>2, AnnouncesOne
    <3> QED
      BY <3>1, <3>3
  <2>2. CASE /\ f[2] \in Acting(OtherEvent.press)
             /\ AtOnce(f)'
             /\ Call(<<f, TellTheRest>>)
    <3>1. PICK list \in Seq(Frames) : InOrder(list, f, r)
      BY <1>2, <2>2, TwoInPlace
    <3>2. Heeds(f, r)
      BY <1>2, <2>2 DEF Heeds, Late
    <3>3. f[1] # "press" /\ f[1] # "other" /\ r[1] # "press"
      BY <1>2
    <3>4. Call(list) /\ Len(list) = 2 /\ list[1] = f /\ list[2] = r
      BY <3>1 DEF InOrder
    <3>5. Announces(list)
      BY <1>3, <1>4, <2>2, <3>2, <3>3, <3>4, AnnouncesTwo
    <3> QED
      BY <3>4, <3>5
  <2>3. CASE /\ ~ OtherEvent.press
             /\ Call(<<Execute(OtherEvent), <<"remove last">>>>)
    <3>1. PICK x \in Frames, y \in Frames :
            /\ x = Execute(OtherEvent) /\ y = <<"remove last">>
            /\ x[1] = "release" /\ y[1] = "remove last"
      <4>1. OtherEvent \in Event
        BY <1>1, FrameKinds DEF OtherEvent
      <4>2. Execute(OtherEvent)[1] = "release"
        BY <2>3 DEF Execute, Release
      <4> QED
        BY <4>1, <4>2, ExecuteIsFrame, FrameMakes, FirstOfOne
    <3>2. Call(<<x, y>>)
      BY <2>3, <3>1
    <3>3. PICK list \in Seq(Frames) : InOrder(list, x, y)
      BY <3>2, TwoInPlace
    <3>4. /\ Call(list) /\ Len(list) = 2 /\ list[1] = x /\ list[2] = y
          /\ x[1] \notin Own /\ y[1] \notin Own
      BY <3>1, <3>3 DEF InOrder, Own
    <3>5. AtOnce(x)' /\ AtOnce(y)'
      BY <3>1 DEF AtOnce
    <3>6. Announces(list)
      BY <3>1, <3>4, <3>5, AnnouncesTwo
    <3> QED
      BY <3>4, <3>6
  <2> QED
    BY <2>1, <2>2, <2>3
<1>6. PICK list \in Seq(Frames) : Call(list) /\ Announces(list)
  BY <1>5
<1>7. \A m \in Deferrers : Apart(m)
  BY DEF Apart, Contains
<1>8. Fresh(list) /\ \A m \in Deferrers : Unasked(m)
  BY <1>1, <1>6, Alone DEF Tidy
<1> QED
  BY <1>6, <1>7, <1>8, FreshSettled

LEMMA TapHoldToldSettled ==
  ASSUME Sound, Tidy, Settled, TapHoldTold
  PROVE  Settled'
<1>1. PICK d \in Deferrers :
        /\ d = Told
        /\ d \in Acting(OtherEvent.press) => Contains(chain, d)
  BY ToldOnce DEF TapHoldTold
<1>2. d \in Maps /\ d \in Of("TapHold") /\ Class[d] = "TapHold"
  BY <1>1, DeferrersAreMaps DEF TapHoldTold, Of
<1>3. UNCHANGED <<count, chosen, step, finished, mySlot, slot, chain,
                  chainSlot, expected>>
  BY DEF TapHoldTold, OnlyCalls, deferVars, timerVars
<1>4. PICK h \in Frames, t \in Frames :
        h = Decide(d, Hold(d)) /\ t = Decide(d, Tap(d))
  BY <1>2, ChildrenAreBelow, FrameMakes
<1>5. /\ h[1] = "decide" /\ h[2] = d /\ h[3] \in Kids(d)
      /\ t[1] = "decide" /\ t[2] = d /\ t[3] \in Kids(d)
  BY <1>2, <1>4, KidsFacts DEF Decide
<1>6. d \in Acting(OtherEvent.press) => AtOnce(h)' /\ AtOnce(t)'
  <2>1. d \in Acting(OtherEvent.press) => Contains(chain', d)
    BY <1>1, <1>3 DEF Contains
  <2> QED
    BY <1>5, <2>1 DEF AtOnce
<1>7. Holds(d, OtherEvent) \/ Taps(d, OtherEvent) =>
        d \in Acting(OtherEvent.press)
  BY <1>1, <1>2 DEF Holds, Taps, Acting
<1>8. \/ Holds(d, OtherEvent) /\ Call(<<h, TellTheRest>>)
      \/ Taps(d, OtherEvent) /\ Call(<<t, TellTheRest>>)
      \/ Call(<<TellTheRest>>)
      \/ /\ ~ OtherEvent.press
         /\ Call(<<Execute(OtherEvent), <<"remove last">>>>)
  BY <1>1, <1>4 DEF TapHoldTold, ReleasesAtOnce
<1>9. Telling
  BY DEF TapHoldTold
<1> QED
  BY <1>1, <1>3, <1>5, <1>6, <1>7, <1>8, <1>9, TellsSettled

LEMMA TapDanceToldSettled ==
  ASSUME Sound, Tidy, Settled, TapDanceTold
  PROVE  Settled'
<1>1. PICK d \in Deferrers :
        /\ d = Told
        /\ d \in Acting(OtherEvent.press) => Contains(chain, d)
  BY ToldOnce DEF TapDanceTold
<1>2. UNCHANGED <<count, chosen, step, finished, mySlot, slot, chain,
                  chainSlot>>
  BY DEF TapDanceTold, mapVars, deferVars
<1>3. PICK f \in Frames : f = <<"timeout", d>>
  BY FrameMakes
<1>4. f[1] = "timeout" /\ f[2] = d
  BY <1>3
<1>5. \/ /\ OtherEvent.press
         /\ expected' = expected \ {d} /\ Call(<<f, TellTheRest>>)
      \/ UNCHANGED expected /\ Call(<<TellTheRest>>)
  BY <1>1, <1>3 DEF TapDanceTold, StopTimer, timerVars
<1>6. Telling /\ Class[d] = "TapSeq"
  BY <1>1 DEF TapDanceTold
<1>7. OtherEvent.press => d \in Acting(OtherEvent.press)
  BY <1>6 DEF Acting
<1>8. CASE UNCHANGED expected /\ Call(<<TellTheRest>>)
  BY <1>1, <1>2, <1>4, <1>6, <1>8, TellsSettled
<1>9. CASE /\ OtherEvent.press
           /\ expected' = expected \ {d} /\ Call(<<f, TellTheRest>>)
  <2>1. Contains(chain', d)
    BY <1>1, <1>2, <1>7, <1>9 DEF Contains
  <2>2. AtOnce(f)'
    BY <1>4, <1>9, <2>1 DEF AtOnce
  <2> QED
    BY <1>1, <1>2, <1>4, <1>6, <1>7, <1>9, <2>2, TellsSettled
<1> QED
  BY <1>5, <1>8, <1>9

(* From a state in which nothing is called.                                *)
LEMMA IdleSettled ==
  ASSUME Settled, Idle, NEW list \in Seq(Frames), calls' = list,
         Announces(list), \A m \in Deferrers : Apart(m)
  PROVE  Settled'
<1>1. Fresh(list)
  BY DEF Fresh
<1>2. \A m \in Deferrers : Unasked(m)
  BY IdleFacts DEF Unasked
<1> QED
  BY <1>1, <1>2, FreshSettled

LEMMA HandleKeyEventSettled ==
  ASSUME Sound, Tidy, Settled, HandleKeyEvent
  PROVE  Settled'
<1>1. /\ Idle /\ Available
      /\ UNCHANGED <<count, chosen, step, finished, mySlot, chain, chainSlot,
                     expected>>
  BY DEF HandleKeyEvent, mapVars, deferVars, timerVars
<1>2. /\ events \in Seq(Event) /\ Len(events) \in Nat
      /\ peeked \in 0 .. Len(events)
  BY DEF Sound, Fields
<1>3. Got \in Event
  <2>1. (IF peeking THEN peeked + 1 ELSE 1) \in 1 .. Len(events)
    BY <1>1, <1>2, EmptySeq DEF Available
  <2> QED
    BY <1>2, <2>1, ElementOfSeq DEF Got
<1>4. PICK e \in Event, f \in Frames :
        /\ e = Got /\ f = Execute(e) /\ f[1] \in {"press", "release"}
  BY <1>3, ExecuteIsFrame
<1>5. slot' = e.slot
  BY <1>4 DEF HandleKeyEvent
<1>6. \A m \in Deferrers : Apart(m)
  BY <1>1 DEF Apart, Contains
<1>7. f[1] \notin Own /\ f[1] # "other" /\ AtOnce(f)'
  BY <1>4 DEF Own, AtOnce
<1>8. CASE chain = <<>>
  <2>1. PICK list : list = <<f>>
    OBVIOUS
  <2>2. list \in Seq(Frames) /\ Len(list) = 1 /\ list[1] = f
    BY <2>1
  <2>3. calls' = list
    BY <1>4, <1>8, <2>1 DEF HandleKeyEvent
  <2>4. Aligned'
    BY <1>1, <1>8 DEF Aligned
  <2>5. Announces(list)
    BY <1>7, <2>2, <2>4, AnnouncesOne
  <2> QED
    BY <1>1, <1>6, <2>2, <2>3, <2>5, IdleSettled
<1>9. CASE chain # <<>> /\ e.slot = chainSlot
  <2>1. PICK g \in Frames : g = <<"remove last">> /\ g[1] = "remove last"
    BY FrameMakes, FirstOfOne
  <2>2. PICK list : list = <<f, g>>
    OBVIOUS
  <2>3. list \in Seq(Frames) /\ Len(list) = 2 /\ list[1] = f /\ list[2] = g
    BY <2>2, TwoIsSeq
  <2>4. calls' = list
    BY <1>4, <1>9, <2>1, <2>2 DEF HandleKeyEvent
  <2>5. Aligned'
    BY <1>1, <1>5, <1>9 DEF Aligned
  <2>6. g[1] \notin Own /\ g[1] # "press" /\ g[1] # "other" /\ AtOnce(g)'
    BY <2>1 DEF Own, AtOnce
  <2>7. Announces(list)
    BY <1>7, <2>3, <2>5, <2>6, AnnouncesTwo
  <2> QED
    BY <1>1, <1>6, <2>3, <2>4, <2>7, IdleSettled
<1>10. CASE chain # <<>> /\ e.slot # chainSlot
  <2>1. PICK t \in Frames :
          t = <<"other", chain, e>> /\ t[1] = "other" /\ t[2] = chain
    BY FrameMakes DEF Sound
  <2>2. PICK list : list = <<t>>
    OBVIOUS
  <2>3. list \in Seq(Frames) /\ Len(list) = 1 /\ list[1] = t
    BY <2>2
  <2>4. calls' = list
    BY <1>4, <1>10, <2>1, <2>2 DEF HandleKeyEvent
  <2>5. t[1] \notin Own /\ t[1] # "press" /\ AtOnce(t)'
    BY <2>1 DEF Own, AtOnce
  <2>6. Audience(t)'
    <3>1. \A a, b \in 1 .. Len(t[2]) : t[2][a] = t[2][b] => a = b
      BY <2>1 DEF Sound, Once
    <3>2. \A m : Listed(t, m) => Contains(chain', m)
      BY <1>1, <2>1 DEF Listed, Contains
    <3> QED
      BY <3>1, <3>2 DEF Audience, Listed
  <2>7. Announces(list)
    BY <2>3, <2>5, <2>6, AnnouncesOne
  <2> QED
    BY <1>1, <1>6, <2>3, <2>4, <2>7, IdleSettled
<1> QED
  BY <1>8, <1>9, <1>10

LEMMA HandleTimeoutSettled ==
  ASSUME Sound, Settled, HandleTimeout
  PROVE  Settled'
<1>1. /\ Idle /\ posted # <<>>
      /\ UNCHANGED <<count, chosen, step, finished, mySlot, slot, chain,
                     chainSlot, expected>>
  BY DEF HandleTimeout, mapVars, deferVars
<1>2. PICK h \in Deferrers : h = Head(posted)
  BY <1>1, HeadTailProperties DEF Sound, Fields
<1>3. PICK f \in Frames, g \in Frames : f = <<"timeout", h>> /\ g = <<"unref", h>>
  BY FrameMakes
<1>4. /\ f[1] = "timeout" /\ f[2] = h /\ g[1] = "unref" /\ g[2] = h
      /\ f[1] \notin Own /\ g[1] \notin Own
  BY <1>3 DEF Own
<1>5. \A m \in Deferrers : Apart(m)
  BY <1>1 DEF Apart, Contains
<1>6. CASE h \notin expected
  <2>1. calls' = <<>>
    BY <1>2, <1>6 DEF HandleTimeout, IsExpected
  <2>2. PICK list : list = <<>>
    OBVIOUS
  <2>3. list \in Seq(Frames) /\ Len(list) = 0
    BY <2>2
  <2>4. Announces(list)
    BY <2>3 DEF Announces
  <2> QED
    BY <1>1, <1>5, <2>1, <2>2, <2>3, <2>4, IdleSettled
<1>7. CASE h \in expected
  <2>1. PICK list : list = <<f, g>>
    OBVIOUS
  <2>2. list \in Seq(Frames) /\ Len(list) = 2 /\ list[1] = f /\ list[2] = g
    BY <2>1, TwoIsSeq
  <2>3. calls' = list
    BY <1>2, <1>3, <1>7, <2>1 DEF HandleTimeout, IsExpected
  <2>4. Contains(chain', h)
    <3>1. Contains(chain, h)
      BY <1>1, <1>7, IdleFacts DEF Settled, Ordered
    <3> QED
      BY <1>1, <3>1 DEF Contains
  <2>5. On("unref", h)'
    <3>1. 2 \in 1 .. Len(list)
      BY <2>2
    <3>2. 2 \in 1 .. Len(calls') /\ calls'[2] = g
      BY <2>2, <2>3, <3>1
    <3> QED
      BY <1>4, <3>2 DEF On
  <2>6. AtOnce(f)' /\ AtOnce(g)'
    BY <1>4, <2>4, <2>5 DEF AtOnce
  <2>7. Announces(list)
    BY <1>4, <2>2, <2>6, AnnouncesTwo
  <2> QED
    BY <1>1, <1>5, <2>2, <2>3, <2>7, IdleSettled
<1> QED
  BY <1>6, <1>7

(* What only moves timers and keys.                                        *)
LEMMA NothingChangesSettled ==
  ASSUME Settled,
         UNCHANGED <<count, chosen, step, finished, mySlot, slot, chain,
                     chainSlot, expected, calls>>
  PROVE  Settled'
<1>1. \A m \in Deferrers : Ordered(m)'
  <2>1. \A m \in Deferrers : Apart(m)
    BY DEF Apart, Contains
  <2>2. \A k, m : On(k, m)' <=> On(k, m)
    BY DEF On
  <2> QED
    BY <2>1, <2>2, OrderedApart DEF Settled
<1>2. Prompt'
  BY DEF Settled, Prompt, AtOnce, On, Contains
<1>3. TapsInPlace' /\ PressesInPlace'
  BY DEF Settled, TapsInPlace, Restores, PressesInPlace, Aligned, Harmless
<1>4. Heard'
  <2> SUFFICES ASSUME NEW i \in 1 .. Len(calls), NEW g, g = calls[i],
                      g[1] = "other"
               PROVE  /\ Audience(g)'
                      /\ \A j \in 1 .. i - 1 : Heeds(calls[j], g)
    BY DEF Heard, Audience
  <2>1. Audience(g) /\ \A j \in 1 .. i - 1 : Heeds(calls[j], g)
    BY DEF Settled, Heard
  <2> QED
    BY <2>1 DEF Audience, Listed, Contains
<1> QED
  BY <1>1, <1>2, <1>3, <1>4 DEF Settled

LEMMA InitSettled ==
  ASSUME Calm, Init
  PROVE  Settled
<1>1. calls = <<>> /\ chain = <<>> /\ expected = {} /\ finished = Of("TapSeq")
  BY DEF Init
<1>2. Len(calls) = 0 /\ Len(chain) = 0
  BY <1>1
<1>3. /\ \A m \in Maps : count[m] = 0
      /\ \A m \in Of("TapHold") : chosen[m] = NoMap
      /\ \A m \in Of("TapSeq") : step[m] = 0
  BY DEF Init
<1>4. /\ \A k, m : ~ On(k, m)
      /\ \A m : ~ Contains(chain, m)
  BY <1>2 DEF On, Contains
<1>5. ASSUME NEW m \in Deferrers PROVE Ordered(m)
  <2>1. m \in Maps /\ count[m] = 0
    BY <1>3, DeferrersAreMaps
  <2>2. m \in Of("TapHold") => Held(m)
    <3>1. ~ (count[m] > 0)
      BY <2>1
    <3> QED
      BY <1>3, <1>4, <3>1 DEF Held
  <2>3. m \in Of("TapSeq") => Stepped(m)
    <3>1. Len(Child[m]) \in Nat
      BY <2>1, KeymapAssumption
    <3> QED
      BY <1>1, <1>3, <1>4, <2>1, <3>1 DEF Stepped
  <2> QED
    BY <1>1, <1>4, <2>2, <2>3 DEF Ordered
<1>6. Prompt /\ TapsInPlace /\ PressesInPlace /\ Heard
  BY <1>2 DEF Prompt, TapsInPlace, PressesInPlace, Heard
<1> QED
  BY <1>5, <1>6 DEF Settled

-----------------------------------------------------------------------------
(* No assertion fails.                                                     *)

(* What is called of m when a call of m is on top.                         *)
LEMMA OnWhenTop ==
  ASSUME Sound, Stacked, calls # <<>>, NEW d \in Maps, d = Self
  PROVE  /\ \A k \in Own : On(k, d) =>
              Top[1] = k \/ <<Top[1], k>> \in Pairs
         /\ On("decide", d) => Top[1] = "decide"
         /\ On(Top[1], d)
<1>1. /\ Len(calls) \in Nat \ {0} /\ Top = calls[1]
      /\ 1 \in 1 .. Len(calls)
  BY EmptySeq DEF Sound, Top
<1>2. ASSUME NEW k, On(k, d) PROVE Top[1] = k \/ Rest(k, d)
  BY <1>1, <1>2 DEF On, Rest
<1>3. \A k \in Own : Rest(k, d) => <<Top[1], k>> \in Pairs
  BY NothingWaits
<1>4. ~ Rest("decide", d)
  <2> SUFFICES ASSUME Rest("decide", d) PROVE FALSE
    OBVIOUS
  <2>1. PICK i \in 2 .. Len(calls) : calls[i][1] = "decide"
    BY DEF Rest
  <2>2. i \in 1 .. Len(calls) /\ 1 < i
    BY <1>1
  <2>3. Over(calls[1], calls[i])
    BY <1>1, <2>2 DEF Stacked
  <2> QED
    BY <2>1, <2>3 DEF Over, First
<1>5. On(Top[1], d)
  BY <1>1 DEF On, Self
<1> QED
  BY <1>2, <1>3, <1>4, <1>5

LEMMA TopIsFirst ==
  ASSUME Sound, calls # <<>>
  PROVE  Top = calls[1] /\ 1 \in 1 .. Len(calls)
<1>1. Len(calls) \in Nat \ {0} /\ Top = calls[1]
  BY EmptySeq DEF Sound, Top
<1> QED
  BY <1>1

(* A deferrer that begins is not in the chain, and the slot is the chain's. *)
LEMMA MayStart ==
  ASSUME Sound, Settled, ~ failed, calls # <<>>, Top[1] = "press",
         NEW d \in Deferrers, d = Self, ~ Contains(chain, d), StartDefer(d)
  PROVE  ~ failed'
<1>1. Aligned
  <2>1. Self \notin Quiet
    BY QuietFacts
  <2> QED
    BY <2>1, PressAligned
<1> QED
  BY <1>1 DEF StartDefer, Aligned

LEMMA TapHoldPressHolds ==
  ASSUME Sound, Tidy, Settled, ~ failed, TapHoldPress
  PROVE  ~ failed'
<1>1. Counts /\ Pressing("TapHold")
  BY DEF Tidy, TapHoldPress
<1>2. /\ calls # <<>> /\ Top[1] = "press"
      /\ Self \in Of("TapHold") /\ Self \in Maps
      /\ count[Self] = 0
  BY <1>1, PressFacts
<1>3. PICK d \in Maps : d = Self /\ d \in Of("TapHold") /\ d \in Deferrers
  BY <1>2, DeferrersAreMaps
<1>4. ~ On("let go", d) /\ ~ On("forget", d)
  BY <1>2, <1>3, OnWhenTop DEF Own, Pairs, Tidy
<1>5. ~ (count[d] > 0) /\ Decision(d)
  <2>1. Decision(d)
    BY <1>3 DEF Tidy, Decisions
  <2> QED
    BY <1>2, <1>3, <2>1
<1>6. chosen[d] = NoMap /\ ~ Contains(chain, d)
  BY <1>4, <1>5 DEF Decision
<1>7. StartDefer(d)
  <2>1. StartDefer(Self)
    BY <1>3, <1>6 DEF TapHoldPress
  <2> QED
    BY <1>3, <2>1 DEF StartDefer
<1> QED
  BY <1>2, <1>3, <1>6, <1>7, MayStart

LEMMA ModIfPressHolds ==
  ASSUME Sound, Tidy, ModIfPress
  PROVE  ~ failed'
<1>1. Counts /\ Pressing("ModIf")
  BY DEF Tidy, ModIfPress
<1>2. count[Self] = 0
  BY <1>1, PressFacts
<1>3. Self \notin modified
  <2>1. Self \in modified => count[Self] > 0
    BY DEF Tidy, PressedOnly
  <2> QED
    BY <1>2, <2>1
<1> QED
  BY <1>3 DEF ModIfPress

(* The tap of a step that there is.                                        *)
LEMMA TappedIsMap ==
  ASSUME Sound, NEW d \in Of("TapSeq"), step[d] >= 1, step[d] <= Len(Child[d])
  PROVE  Tapped(d) # NoMap
<1>1. d \in Maps /\ Child[d] \in Seq(Maps) /\ NoMap \notin Maps
  BY DeferrersAreMaps, KeymapAssumption
<1>2. step[d] \in 1 .. Len(Child[d])
  BY <1>1 DEF Sound, Fields
<1>3. Child[d][step[d]] \in Maps /\ step[d] \in DOMAIN Child[d]
  BY <1>1, <1>2, ElementOfSeq
<1> QED
  BY <1>1, <1>3 DEF Tapped

LEMMA TapSeqPressHolds ==
  ASSUME Calm, Sound, Tidy, Settled, ~ failed, TapSeqPress
  PROVE  ~ failed'
<1>1. Counts /\ Pressing("TapSeq")
  BY DEF Tidy, TapSeqPress
<1>2. /\ calls # <<>> /\ Top[1] = "press"
      /\ Self \in Of("TapSeq") /\ Self \in Maps
      /\ count[Self] = 0
  BY <1>1, PressFacts
<1>3. PICK d \in Maps : d = Self /\ d \in Of("TapSeq") /\ d \in Deferrers
  BY <1>2, DeferrersAreMaps
<1>4. ~ On("tap", d) /\ ~ On("finish", d) /\ ~ On("danced", d)
  BY <1>2, <1>3, OnWhenTop DEF Own, Pairs, Tidy
<1>5. Stepped(d) /\ Dance(d) /\ ~ (count[d] > 0)
  <2>1. Stepped(d) /\ Dance(d)
    BY <1>3 DEF Settled, Ordered, Tidy, Dances
  <2> QED
    BY <1>2, <1>3, <2>1
<1>6. Len(Child[d]) \in Nat \ {0}
  <2>1. Child[d] \in Seq(Maps)
    BY KeymapAssumption
  <2>2. Child[d] # <<>>
    BY <1>3 DEF Calm
  <2> QED
    BY <2>1, <2>2, EmptySeq
<1>7. step[d] \in Nat /\ step'[d] = step[d] + 1
  <2>1. step' = [step EXCEPT ![d] = @ + 1]
    BY <1>3 DEF TapSeqPress
  <2> QED
    BY <1>3, <2>1 DEF Sound, Fields
<1>8. d \notin finished => step'[d] # 1
  <2>1. d \notin finished => step[d] >= 1
    BY <1>5 DEF Stepped
  <2> QED
    BY <1>7, <2>1
<1>9. ~ (step'[d] > Len(Child[d]))
  <2>1. step[d] <= Len(Child[d])
    BY <1>5 DEF Stepped
  <2>2. step[d] > 0 => d \notin finished
    BY <1>4, <1>5 DEF Dance
  <2>3. step[d] = Len(Child[d]) => d \in finished
    BY <1>4, <1>5 DEF Stepped
  <2> QED
    BY <1>6, <1>7, <2>1, <2>2, <2>3
<1>10. d \in finished => ~ Contains(chain, d)
  BY <1>5 DEF Stepped
<1>11. \/ d \in finished /\ StartDefer(d)
       \/ UNCHANGED failed
  <2>1. \/ Self \in finished /\ StartDefer(Self)
        \/ UNCHANGED failed
    BY <1>3, <1>8, <1>9 DEF TapSeqPress
  <2> QED
    BY <1>3, <2>1 DEF StartDefer
<1> QED
  BY <1>2, <1>3, <1>10, <1>11, MayStart

(* A deferrer that stops is in the chain.                                  *)
LEMMA StopsHold ==
  ASSUME Sound, Tidy, Settled, HelpDecide \/ TapDanceTimeout \/ Finish
  PROVE  ~ failed'
<1>1. /\ calls # <<>> /\ Top \in Frames
      /\ Top[1] \in {"decide", "timeout", "finish"}
      /\ Top = calls[1] /\ 1 \in 1 .. Len(calls)
  <2>1. PICK op \in {"decide", "timeout", "finish"} : Doing(op)
    BY DEF HelpDecide, TapDanceTimeout, Finish
  <2>2. calls # <<>> /\ Top \in Frames /\ Top[1] = op
    BY <2>1, TopCall
  <2> QED
    BY <2>2, TopIsFirst
<1>2. PICK d \in Maps : d = Self /\ d \in Deferrers
  BY <1>1, FrameKinds, DeferrersAreMaps DEF Self
<1>3. Contains(chain, d)
  <2>1. CASE Top[1] \in {"decide", "timeout"}
    BY <1>1, <1>2, <2>1 DEF Settled, Prompt, AtOnce, Self
  <2>2. CASE Top[1] = "finish"
    <3>1. On("finish", d)
      BY <1>1, <1>2, <2>2, OnWhenTop DEF Tidy
    <3>2. d \in Of("TapSeq")
      BY <1>1, <1>2, <2>2, FrameKinds DEF Self
    <3> QED
      BY <1>2, <3>1, <3>2 DEF Settled, Ordered, Stepped
  <2> QED
    BY <1>1, <2>1, <2>2
<1>4. failed' = ~ Contains(chain, Self)
  BY DEF HelpDecide, TapDanceTimeout, Finish, StopDefer
<1> QED
  BY <1>2, <1>3, <1>4

LEMMA LetGoHolds ==
  ASSUME Sound, Tidy, Settled, LetGo
  PROVE  ~ failed'
<1>1. /\ calls # <<>> /\ Top \in Frames /\ Top[1] = "let go"
  BY TopCall DEF LetGo
<1>2. PICK d \in Maps : d = Self /\ d \in Of("TapHold") /\ d \in Deferrers
  BY <1>1, FrameKinds, DeferrersAreMaps DEF Self
<1>3. On("let go", d) /\ ~ On("decided", d) /\ ~ On("decide", d)
  BY <1>1, <1>2, OnWhenTop DEF Own, Pairs, Tidy
<1>4. Held(d)
  BY <1>2 DEF Settled, Ordered
<1>5. chosen[d] # NoMap
  BY <1>3, <1>4 DEF Held
<1> QED
  BY <1>2, <1>5 DEF LetGo

LEMMA TapsHold ==
  ASSUME Sound, Tidy, Settled, TapSeqTaps \/ TapSeqLetsOff
  PROVE  ~ failed'
<1>1. /\ calls # <<>> /\ Top \in Frames /\ Top[1] \in {"tap", "let off"}
      /\ Top = calls[1] /\ 1 \in 1 .. Len(calls)
  <2>1. PICK op \in {"tap", "let off"} : Doing(op)
    BY DEF TapSeqTaps, TapSeqLetsOff
  <2>2. calls # <<>> /\ Top \in Frames /\ Top[1] = op
    BY <2>1, TopCall
  <2> QED
    BY <2>2, TopIsFirst
<1>2. PICK d \in Maps : d = Self /\ d \in Of("TapSeq") /\ d \in Deferrers
  BY <1>1, FrameKinds, DeferrersAreMaps DEF Self
<1>3. Stepped(d)
  BY <1>2 DEF Settled, Ordered
<1>4. step[d] >= 1
  <2>1. CASE Top[1] = "tap"
    <3>1. On("tap", d)
      BY <1>1, <1>2, <2>1, OnWhenTop DEF Tidy
    <3> QED
      BY <1>3, <3>1 DEF Stepped
  <2>2. CASE Top[1] = "let off"
    BY <1>1, <1>2, <2>2 DEF Settled, Prompt, AtOnce, Self
  <2> QED
    BY <1>1, <2>1, <2>2
<1>5. step[d] <= Len(Child[d])
  BY <1>3 DEF Stepped
<1>6. Tapped(d) # NoMap
  BY <1>2, <1>4, <1>5, TappedIsMap
<1>7. failed' = (Tapped(Self) = NoMap)
  BY DEF TapSeqTaps, TapSeqLetsOff
<1> QED
  BY <1>2, <1>6, <1>7

LEMMA NothingFails ==
  ASSUME Calm, Sound, Tidy, Settled, ~ failed, [Next]_vars
  PROVE  ~ failed'
<1>1. CASE TapHoldPress
  BY <1>1, TapHoldPressHolds
<1>2. CASE ModIfPress
  BY <1>2, ModIfPressHolds
<1>3. CASE TapSeqPress
  BY <1>3, TapSeqPressHolds
<1>4. CASE HelpDecide \/ TapDanceTimeout \/ Finish
  BY <1>4, StopsHold
<1>5. CASE LetGo
  BY <1>5, LetGoHolds
<1>6. CASE TapSeqTaps \/ TapSeqLetsOff
  BY <1>6, TapsHold
<1>7. CASE \/ UNCHANGED vars
           \/ JustCounts \/ PseudoPress \/ LitSends \/ OneShotTaps
           \/ ModIfRelease \/ Decided \/ TapHoldRelease \/ Forget
           \/ TapHoldTimeout \/ TapSeqRelease \/ Danced \/ AllTold
           \/ TapHoldTold \/ TapDanceTold \/ HandleKeyEvent \/ RemoveLast
           \/ HandleTimeout \/ Unref
           \/ \E m \in Deferrers : Expire(m)
           \/ \E s \in Slots : KeyPress(s) \/ KeyRelease(s)
  <2>1. UNCHANGED failed
    BY <1>7 DEF vars, JustCounts, PseudoPress, LitSends, OneShotTaps,
       ModIfRelease, Decided, TapHoldRelease, Forget, TapHoldTimeout,
       TapSeqRelease, Danced, AllTold, TapHoldTold, TapDanceTold,
       HandleKeyEvent, RemoveLast, HandleTimeout, Unref, Expire, KeyPress,
       KeyRelease
  <2> QED
    BY <2>1
<1> QED
  BY <1>1, <1>2, <1>3, <1>4, <1>5, <1>6, <1>7 DEF Next

(* Settled is an invariant, with what it rests on.                         *)
SettledInv == ~ failed /\ Sound /\ Tidy /\ Settled

LEMMA SettledStep ==
  ASSUME Calm, SettledInv, [Next]_vars
  PROVE  SettledInv'
<1>1. Sound /\ Tidy /\ Settled /\ ~ failed
  BY DEF SettledInv
<1>2. ~ failed'
  BY <1>1, NothingFails
<1>3. Sound' /\ Tidy'
  <2>1. TidyInv'
    BY <1>1, TidyStep DEF TidyInv
  <2> QED
    BY <1>2, <2>1 DEF TidyInv
<1> SUFFICES Settled'
  BY <1>2, <1>3 DEF SettledInv
<1>4. CASE UNCHANGED vars
  BY <1>1, <1>4, NothingChangesSettled DEF vars, mapVars, deferVars, timerVars
<1>5. CASE JustCounts
  BY <1>1, <1>5, JustCountsSettled
<1>6. CASE PseudoPress \/ LitSends
  BY <1>1, <1>6, PseudoSettled
<1>7. CASE OneShotTaps
  BY <1>1, <1>7, OneShotSettled
<1>8. CASE ModIfPress \/ ModIfRelease
  BY <1>1, <1>8, ModIfSettled
<1>9. CASE TapHoldPress
  BY <1>1, <1>2, <1>9, TapHoldPressSettled
<1>10. CASE HelpDecide
  BY <1>1, <1>2, <1>10, HelpDecideSettled
<1>11. CASE Decided
  BY <1>1, <1>11, DecidedSettled
<1>12. CASE TapHoldRelease
  BY <1>1, <1>12, TapHoldReleaseSettled
<1>13. CASE LetGo
  BY <1>1, <1>2, <1>13, LetGoSettled
<1>14. CASE Forget
  BY <1>1, <1>14, ForgetSettled
<1>15. CASE TapHoldTimeout
  BY <1>1, <1>15, TapHoldTimeoutSettled
<1>16. CASE TapSeqPress
  BY <1>1, <1>2, <1>16, TapSeqPressSettled
<1>17. CASE TapSeqTaps
  BY <1>1, <1>2, <1>17, TapSeqTapsSettled
<1>18. CASE Finish
  BY <1>1, <1>2, <1>18, FinishSettled
<1>19. CASE TapSeqLetsOff
  BY <1>1, <1>2, <1>19, TapSeqLetsOffSettled
<1>20. CASE TapSeqRelease
  BY <1>1, <1>20, TapSeqReleaseSettled
<1>21. CASE TapDanceTimeout
  BY <1>1, <1>2, <1>21, TapDanceTimeoutSettled
<1>22. CASE Danced
  BY <1>1, <1>22, DancedSettled
<1>23. CASE AllTold \/ RemoveLast \/ Unref
  BY <1>1, <1>23, DriverEndsSettled
<1>24. CASE TapHoldTold
  BY <1>1, <1>24, TapHoldToldSettled
<1>25. CASE TapDanceTold
  BY <1>1, <1>25, TapDanceToldSettled
<1>26. CASE HandleKeyEvent
  BY <1>1, <1>26, HandleKeyEventSettled
<1>27. CASE HandleTimeout
  BY <1>1, <1>27, HandleTimeoutSettled
<1>28. CASE \E m \in Deferrers : Expire(m)
  BY <1>1, <1>28, NothingChangesSettled
     DEF Expire, mapVars, deferVars
<1>29. CASE \E s \in Slots : KeyPress(s) \/ KeyRelease(s)
  BY <1>1, <1>29, NothingChangesSettled
     DEF KeyPress, KeyRelease, mapVars, deferVars, timerVars
<1> QED
  BY <1>4, <1>5, <1>6, <1>7, <1>8, <1>9, <1>10, <1>11, <1>12, <1>13, <1>14,
     <1>15, <1>16, <1>17, <1>18, <1>19, <1>20, <1>21, <1>22, <1>23, <1>24,
     <1>25, <1>26, <1>27, <1>28, <1>29 DEF Next

(* No assertion of class.lua fails and no method is called on nil, with    *)
(* any keymaps that do not disturb one another (Calm): a deferrer that     *)
(* stops is in the chain, one that starts is not and has the slot of the   *)
(* chain, and none is pressed in the middle of what its last press began.  *)
THEOREM NeverAssertsWhenCalm ==
  ASSUME Calm
  PROVE  Spec => []NeverAsserts
<1>1. Init => SettledInv
  BY InitTidy, InitSettled DEF SettledInv, Init
<1>2. SettledInv /\ [Next]_vars => SettledInv'
  BY SettledStep
<1>3. SettledInv => NeverAsserts
  BY DEF SettledInv, NeverAsserts
<1> QED
  BY <1>1, <1>2, <1>3, PTL DEF Spec

(* The variables that nothing else is said of.                             *)
Typed ==
  /\ chainSlot \in Spots
  /\ taps \in 0 .. MaxTaps
  /\ failed \in BOOLEAN

LEMMA TypedStep ==
  ASSUME Sound, Typed, [Next]_vars
  PROVE  Typed'
<1>1. slot \in Spots /\ NoSlot \in Spots
  BY DEF Sound, Fields, Spots
<1>2. ASSUME TapHoldPress \/ TapSeqPress PROVE Typed'
  <2>1. taps' = taps
    BY <1>2 DEF TapHoldPress, TapSeqPress, worldVars
  <2>2. chainSlot' \in {slot, chainSlot}
    BY <1>2 DEF TapHoldPress, TapSeqPress, StartDefer, deferVars
  <2>3. failed' \in BOOLEAN
    BY <1>2 DEF TapHoldPress, TapSeqPress, StartDefer, Typed
  <2> QED
    BY <1>1, <2>1, <2>2, <2>3 DEF Typed
<1>3. ASSUME HelpDecide \/ TapDanceTimeout \/ Finish PROVE Typed'
  <2>1. taps' = taps
    BY <1>3 DEF HelpDecide, TapDanceTimeout, Finish, worldVars
  <2>2. chainSlot' \in {NoSlot, chainSlot}
    BY <1>3 DEF HelpDecide, TapDanceTimeout, Finish, StopDefer
  <2>3. failed' \in BOOLEAN
    BY <1>3 DEF HelpDecide, TapDanceTimeout, Finish, StopDefer
  <2> QED
    BY <1>1, <2>1, <2>2, <2>3 DEF Typed
<1>4. ASSUME ModIfPress \/ LetGo \/ TapSeqTaps \/ TapSeqLetsOff PROVE Typed'
  <2>1. taps' = taps /\ chainSlot' = chainSlot
    BY <1>4 DEF ModIfPress, LetGo, TapSeqTaps, TapSeqLetsOff, OnlyCalls,
       worldVars, deferVars
  <2>2. \/ failed' = (Self \in modified)
        \/ failed' = (chosen[Self] = NoMap)
        \/ failed' = (Tapped(Self) = NoMap)
    BY <1>4, Zenon DEF ModIfPress, LetGo, TapSeqTaps, TapSeqLetsOff
  <2>3. /\ (Self \in modified) \in BOOLEAN
        /\ (chosen[Self] = NoMap) \in BOOLEAN
        /\ (Tapped(Self) = NoMap) \in BOOLEAN
    OBVIOUS
  <2>4. failed' \in BOOLEAN
    BY <2>2, <2>3, Zenon
  <2> QED
    BY <2>1, <2>4 DEF Typed
<1>5. ASSUME \E s \in Slots : KeyPress(s) PROVE Typed'
  <2>1. /\ taps' = taps + 1 /\ taps < MaxTaps
        /\ UNCHANGED <<chainSlot, failed>>
    BY <1>5 DEF KeyPress, deferVars
  <2>2. taps' \in 0 .. MaxTaps
    BY <2>1, KeymapAssumption DEF Typed
  <2> QED
    BY <2>1, <2>2 DEF Typed
<1>6. CASE \/ UNCHANGED vars
           \/ JustCounts \/ PseudoPress \/ LitSends \/ OneShotTaps
           \/ ModIfRelease \/ Decided \/ TapHoldRelease \/ Forget
           \/ TapHoldTimeout \/ TapSeqRelease \/ Danced \/ AllTold
           \/ TapHoldTold \/ TapDanceTold \/ HandleKeyEvent \/ RemoveLast
           \/ HandleTimeout \/ Unref
           \/ \E m \in Deferrers : Expire(m)
           \/ \E s \in Slots : KeyRelease(s)
  <2>1. UNCHANGED <<chainSlot, taps, failed>>
    BY <1>6 DEF vars, JustCounts, PseudoPress, LitSends, OneShotTaps,
       ModIfRelease, Decided, TapHoldRelease, Forget, TapHoldTimeout,
       TapSeqRelease, Danced, AllTold, TapHoldTold, TapDanceTold,
       HandleKeyEvent, RemoveLast, HandleTimeout, Unref, Expire, KeyRelease,
       OnlyCalls, deferVars, worldVars
  <2> QED
    BY <2>1 DEF Typed
<1> QED
  BY <1>2, <1>3, <1>4, <1>5, <1>6 DEF Next

(* Every variable has its type, with keymaps that are Calm; without, a     *)
(* TapSeq that is pressed too often takes a step that it does not have.    *)
THEOREM TypeCorrect ==
  ASSUME Calm
  PROVE  Spec => []TypeOK
<1>1. Init => SettledInv /\ Typed
  <2>1. Init => SettledInv
    BY InitTidy, InitSettled DEF SettledInv, Init
  <2>2. Init => Typed
    <3>1. 0 \in 0 .. MaxTaps
      BY KeymapAssumption
    <3>2. Init => chainSlot = NoSlot /\ taps = 0 /\ failed = FALSE
      BY DEF Init
    <3> QED
      BY <3>1, <3>2 DEF Typed, Spots
  <2> QED
    BY <2>1, <2>2
<1>2. SettledInv /\ Typed /\ [Next]_vars => SettledInv' /\ Typed'
  BY SettledStep, TypedStep DEF SettledInv
<1>3. SettledInv /\ Typed => TypeOK
  <2> SUFFICES ASSUME SettledInv, Typed PROVE TypeOK
    OBVIOUS
  <2>1. /\ Sound /\ Counts
        /\ \A m \in Of("TapSeq") : step[m] <= Len(Child[m])
    BY DeferrersAreMaps DEF SettledInv, Tidy, Settled, Ordered, Stepped
  <2>2. peeking \in BOOLEAN
    BY <2>1 DEF Sound, Mode
  <2> QED
    BY <2>1, <2>2 DEF TypeOK, Sound, Fields, Counts, Typed, Spots
<1> QED
  BY <1>1, <1>2, <1>3, PTL DEF Spec
=============================================================================
