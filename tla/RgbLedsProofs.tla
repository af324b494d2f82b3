--------------------------- MODULE RgbLedsProofs ---------------------------
(***************************************************************************)
(* Proofs about RgbLeds for any number of chips, any size of the registers *)
(* and any current: the chips have the current that rgb_gcr tells, they    *)
(* come up step by step and are dark when they should be, and no write of  *)
(* the colours lands in the wrong page.                                    *)
(*                                                                         *)
(* The argument rests on what each thread has yet to do when it changes    *)
(* the current: two threads may do so, and they never do it at once.       *)
(***************************************************************************)
EXTENDS RgbLeds, SequenceTheorems, TLAPS

-----------------------------------------------------------------------------
(* The calls a thread may have yet to make.                                *)

\* disable(), or lowering to 0, from the last call to the first.
Rest(t) ==
  IF t = "hub" THEN <<EnableIrq>> ELSE <<EnableIrq, Become("dfu")>>
LockCalls(t) ==
  IF t = "hub" THEN <<SetSsdLock(TRUE), EnableIrq>>
  ELSE <<SetSsdLock(TRUE), EnableIrq, Become("dfu")>>
DimCalls(t) ==
  IF t = "hub" THEN <<SetGcr(0), SetSsdLock(TRUE), EnableIrq>>
  ELSE <<SetGcr(0), SetSsdLock(TRUE), EnableIrq, Become("dfu")>>

\* The other changes of the current.
RampCalls(gcr) == <<SetGcr(gcr), EnableIrq>>
LightCalls     == <<SetSsdLock(FALSE), SetGcr(1), EnableIrq>>

\* Calls of main_thread that leave the current alone, and those that lead to DFU mode.
CalmCalls == {<<>>, <<RefreshColors>>, <<Become("normal")>>, <<Become("dfu")>>}
BusyCalls == {Rest("main"), LockCalls("main"), DimCalls("main")}
Entering  == {<<Become("dfu")>>} \cup BusyCalls

HasMode(calls) == \E i \in DOMAIN calls : calls[i].to = "mode"

\* What a call says.
LEMMA Fields ==
  /\ \A gcr : SetGcr(gcr).to = "gcr" /\ SetGcr(gcr).value = gcr
  /\ SetSsdLock(TRUE).to = "ssd" /\ SetSsdLock(TRUE).value = 0
  /\ SetSsdLock(FALSE).to = "ssd" /\ SetSsdLock(FALSE).value = 1
  /\ RefreshColors.to = "pwm" /\ EnableIrq.to = "irq"
  /\ \A m : Become(m).to = "mode" /\ Become(m).value = m
BY DEF Call, SetGcr, SetSsdLock, RefreshColors, EnableIrq, Become

LEMMA Singles ==
  ASSUME NEW x
  PROVE  <<x>> # <<>> /\ Head(<<x>>) = x /\ Tail(<<x>>) = <<>>
OBVIOUS

LEMMA Pairs ==
  ASSUME NEW x, NEW y
  PROVE  <<x, y>> # <<>> /\ Head(<<x, y>>) = x /\ Tail(<<x, y>>) = <<y>>
OBVIOUS

LEMMA Triples ==
  ASSUME NEW x, NEW y, NEW z
  PROVE  <<x, y, z>> # <<>> /\ Head(<<x, y, z>>) = x /\ Tail(<<x, y, z>>) = <<y, z>>
OBVIOUS

LEMMA Quadruples ==
  ASSUME NEW w, NEW x, NEW y, NEW z
  PROVE  <<w, x, y, z>> # <<>> /\ Head(<<w, x, y, z>>) = w
         /\ Tail(<<w, x, y, z>>) = <<x, y, z>>
OBVIOUS

\* The first of them, and what is left after it.
LEMMA RestShape ==
  /\ \A t \in Threads : Rest(t) # <<>> /\ Head(Rest(t)) = EnableIrq
  /\ Tail(Rest("hub")) = <<>> /\ Tail(Rest("main")) = <<Become("dfu")>>
BY Singles, Pairs DEF Rest, Threads

LEMMA LockShape ==
  ASSUME NEW t \in Threads
  PROVE  LockCalls(t) # <<>> /\ Head(LockCalls(t)) = SetSsdLock(TRUE)
         /\ Tail(LockCalls(t)) = Rest(t)
BY Pairs, Triples DEF LockCalls, Rest, Threads

LEMMA DimShape ==
  ASSUME NEW t \in Threads
  PROVE  DimCalls(t) # <<>> /\ Head(DimCalls(t)) = SetGcr(0)
         /\ Tail(DimCalls(t)) = LockCalls(t)
BY Triples, Quadruples DEF DimCalls, LockCalls, Threads

LEMMA RampShape ==
  ASSUME NEW gcr
  PROVE  RampCalls(gcr) # <<>> /\ Head(RampCalls(gcr)) = SetGcr(gcr)
         /\ Tail(RampCalls(gcr)) = Rest("hub")
BY Pairs DEF RampCalls, Rest

LEMMA LightShape ==
  /\ LightCalls # <<>> /\ Head(LightCalls) = SetSsdLock(FALSE)
  /\ Tail(LightCalls) = RampCalls(1)
BY Triples DEF LightCalls, RampCalls

LEMMA CalmShape ==
  ASSUME NEW calls \in CalmCalls, calls # <<>>
  PROVE  /\ Tail(calls) = <<>>
         /\ \/ calls = <<RefreshColors>> /\ Head(calls) = RefreshColors
            \/ \E m \in {"normal", "dfu"} :
                 calls = <<Become(m)>> /\ Head(calls) = Become(m)
<1>1. CASE calls = <<RefreshColors>>
  BY <1>1, Singles
<1>2. CASE calls = <<Become("normal")>>
  BY <1>2, Singles
<1>3. CASE calls = <<Become("dfu")>>
  BY <1>3, Singles
<1> QED
  BY <1>1, <1>2, <1>3 DEF CalmCalls

LEMMA CalmHead ==
  ASSUME NEW calls \in CalmCalls, calls # <<>>
  PROVE  Head(calls).to \in {"pwm", "mode"}
BY CalmShape, Fields

LEMMA BusyShape ==
  ASSUME NEW calls \in BusyCalls
  PROVE  /\ calls # <<>> /\ Head(calls).to \in {"irq", "ssd", "gcr"}
         /\ calls \notin CalmCalls
<1>1. calls # <<>> /\ Head(calls).to \in {"irq", "ssd", "gcr"}
  <2>1. CASE calls = Rest("main")
    BY <2>1, RestShape, Fields DEF Threads
  <2>2. CASE calls = LockCalls("main")
    BY <2>2, LockShape, Fields DEF Threads
  <2>3. CASE calls = DimCalls("main")
    BY <2>3, DimShape, Fields DEF Threads
  <2> QED
    BY <2>1, <2>2, <2>3 DEF BusyCalls
<1>2. ASSUME calls \in CalmCalls PROVE FALSE
  <2>1. Head(calls).to \in {"pwm", "mode"}
    BY <1>1, <1>2, CalmHead
  <2> QED
    BY <1>1, <2>1
<1> QED
  BY <1>1, <1>2

\* A change of mode is among them.
LEMMA ModeCalls ==
  /\ ~HasMode(<<>>) /\ ~HasMode(<<RefreshColors>>)
  /\ \A m : HasMode(<<Become(m)>>)
  /\ \A calls \in Entering : HasMode(calls)
<1>1. ~HasMode(<<>>) /\ ~HasMode(<<RefreshColors>>)
  BY Fields DEF HasMode
<1>2. \A m : HasMode(<<Become(m)>>)
  BY Fields DEF HasMode
<1>3. HasMode(Rest("main"))
  <2>1. Rest("main")[2] = Become("dfu") /\ 2 \in DOMAIN Rest("main")
    BY DEF Rest
  <2> QED
    BY <2>1, Fields DEF HasMode
<1>4. HasMode(LockCalls("main"))
  <2>1. LockCalls("main")[3] = Become("dfu") /\ 3 \in DOMAIN LockCalls("main")
    BY DEF LockCalls
  <2> QED
    BY <2>1, Fields DEF HasMode
<1>5. HasMode(DimCalls("main"))
  <2>1. DimCalls("main")[4] = Become("dfu") /\ 4 \in DOMAIN DimCalls("main")
    BY DEF DimCalls
  <2> QED
    BY <2>1, Fields DEF HasMode
<1> QED
  BY <1>1, <1>2, <1>3, <1>4, <1>5 DEF Entering, BusyCalls

\* The calls a handler appends.
LEMMA JoinOne ==
  ASSUME NEW a, NEW b
  PROVE  <<a>> \o <<b>> = <<a, b>>
<1> DEFINE S == {a, b}
           j == <<a>> \o <<b>>
           w == <<a, b>>
<1>1. w \in Seq(S) /\ Len(w) = 2 /\ w[1] = a /\ w[2] = b
  OBVIOUS
<1>2. j \in Seq(S) /\ Len(j) = 2 /\ j[1] = a /\ j[2] = b
  OBVIOUS
<1> HIDE DEF j, w, S
<1>3. \A i \in 1 .. Len(j) : j[i] = w[i]
  BY <1>1, <1>2
<1>4. j = w
  BY <1>1, <1>2, <1>3, SeqEqual
<1> QED
  BY <1>4 DEF j, w

LEMMA JoinTwo ==
  ASSUME NEW a, NEW b, NEW c
  PROVE  <<a, b>> \o <<c>> = <<a, b, c>>
<1> DEFINE S == {a, b, c}
           j == <<a, b>> \o <<c>>
           w == <<a, b, c>>
<1>1. w \in Seq(S) /\ Len(w) = 3 /\ w[1] = a /\ w[2] = b /\ w[3] = c
  OBVIOUS
<1>2. j \in Seq(S) /\ Len(j) = 3 /\ j[1] = a /\ j[2] = b /\ j[3] = c
  OBVIOUS
<1> HIDE DEF j, w, S
<1>3. \A i \in 1 .. Len(j) : j[i] = w[i]
  BY <1>1, <1>2
<1>4. j = w
  BY <1>1, <1>2, <1>3, SeqEqual
<1> QED
  BY <1>4 DEF j, w

LEMMA JoinThree ==
  ASSUME NEW a, NEW b, NEW c, NEW d
  PROVE  <<a, b, c>> \o <<d>> = <<a, b, c, d>>
<1> DEFINE S == {a, b, c, d}
           j == <<a, b, c>> \o <<d>>
           w == <<a, b, c, d>>
<1>1. w \in Seq(S) /\ Len(w) = 4 /\ w[1] = a /\ w[2] = b /\ w[3] = c /\ w[4] = d
  OBVIOUS
<1>2. j \in Seq(S) /\ Len(j) = 4 /\ j[1] = a /\ j[2] = b /\ j[3] = c /\ j[4] = d
  OBVIOUS
<1> HIDE DEF j, w, S
<1>3. \A i \in 1 .. Len(j) : j[i] = w[i]
  BY <1>1, <1>2
<1>4. j = w
  BY <1>1, <1>2, <1>3, SeqEqual
<1> QED
  BY <1>4 DEF j, w

LEMMA JoinNone ==
  ASSUME NEW a, NEW b, NEW c
  PROVE  <<a, b, c>> \o <<>> = <<a, b, c>>
BY ConcatEmptySeq, <<a, b, c>> \in Seq({a, b, c})

-----------------------------------------------------------------------------
(* The invariant.                                                          *)

CallSet ==
  [to : {"gcr"}, value : 0 .. TopGcr] \cup [to : {"ssd"}, value : {0, 1}]
    \cup {RefreshColors, EnableIrq, Become("normal"), Become("dfu")}

Typed ==
  /\ todo \in [Threads -> Seq(CallSet)]
  /\ signals \subseteq {"suspend", "resume"}
  /\ current \in 0 .. TopGcr
  /\ bus \in Threads \cup {None} /\ next \in 0 .. DriverCount
  /\ page \in [Drivers -> Pages] /\ selected \in [Drivers -> Pages]
  /\ pwm \in [Drivers -> [Registers -> Nat]]
  /\ dirty \in [Drivers -> SUBSET Registers]
  /\ regs \in [Drivers -> [Pages -> [Registers -> Nat]]]

\* The software knows the pages, and who has the bus needs it.
Bus ==
  /\ page = selected
  /\ \A t \in Threads : bus = t => ~Idle(t) /\ Calling(t).to \in OnBus

\* At most one event is queued, and none while the ADC converts.
Events ==
  /\ queue \in {<<>>, <<"measure">>, <<"lower">>, <<"raise">>}
  /\ converting => queue = <<>>
  /\ queue = <<"raise">> => current < MaxGcr

Toggles ==
  /\ mode \in {"normal", "dfu"}
  /\ todo["main"] = <<Become("normal")>> => mode = "dfu"
  /\ todo["main"] \in Entering => mode = "normal"

\* While main_thread turns the LEDs off, the hub thread does not change the current.
Undisturbed ==
  todo["main"] \in BusyCalls =>
    /\ Idle("hub") /\ queue \in {<<>>, <<"measure">>} /\ irq = FALSE
    /\ signals # {} \/ enabled => hurried
    /\ signals # {} => ~enabled
    /\ ~({"suspend", "resume"} \subseteq signals)

Gcr(d)     == regs[d]["function"][GlobalCurrent]
Past(t, d) == bus = t /\ d < next
Alone(t)   == IF t = "hub" THEN todo["main"] \in CalmCalls ELSE todo["hub"] = <<>>

\* The chips, by what the threads are at.
Fits(d) ==
  /\ Gcr(d) = current
  /\ current = 0 => ShutDown(d)
  /\ ShutDown(d) => current = 0 \/ wrapped

Settled ==
  /\ todo["hub"] \in {<<>>, Rest("hub")}
  /\ todo["main"] \in CalmCalls \cup {Rest("main")}
  /\ \A d \in Drivers : Fits(d)

Ramping ==
  /\ todo["hub"] = RampCalls(current) /\ current # 0 /\ Alone("hub")
  /\ \A d \in Drivers :
       /\ ShutDown(d) => wrapped
       /\ Past("hub", d) => Gcr(d) = current
       /\ ShutDown(d) \/ current <= Gcr(d) + 1

Lighting ==
  /\ todo["hub"] = LightCalls /\ current = 1 /\ Alone("hub")
  /\ \A d \in Drivers : Gcr(d) = 0 /\ (Past("hub", d) => ~ShutDown(d))

Dimming(t) ==
  /\ todo[t] = DimCalls(t) /\ current = 0 /\ Alone(t)
  /\ \A d \in Drivers : Past(t, d) => Gcr(d) = 0

Locking(t) ==
  /\ todo[t] = LockCalls(t) /\ current = 0 /\ Alone(t)
  /\ \A d \in Drivers : Gcr(d) = 0 /\ (Past(t, d) => ShutDown(d))

Chips ==
  \/ Settled \/ Ramping \/ Lighting
  \/ \E t \in Threads : Dimming(t) \/ Locking(t)

\* When the LEDs are off, as far as no signal arrives during a toggle and DFU mode ends on
\* an active bus.
Course ==
  /\ mode = "dfu" /\ ~Toggling => ~enabled
  /\ mode = "dfu" /\ Toggling => active /\ signals = {}
  /\ mode = "normal" /\ Toggling => ~enabled /\ signals = {}
  /\ mode = "normal" /\ ~active => ~enabled

Dark ==
  /\ ~enabled => current = 0
  /\ ~raced => Course

LedsInv == Typed /\ Bus /\ Events /\ Toggles /\ Undisturbed /\ Chips /\ Dark

LEMMA Sizes ==
  /\ DriverCount \in Nat /\ TopGcr \in Nat /\ TopGcr # 0 /\ MaxGcr \in Nat
  /\ MaxGcr <= TopGcr /\ GlobalCurrent \in Registers /\ Configuration \in Registers
  /\ GlobalCurrent # Configuration
<1>1. /\ DriverCount \in Nat /\ TopGcr \in Nat /\ TopGcr # 0 /\ MaxGcr \in Nat
      /\ MaxGcr <= TopGcr /\ CsLines \in Nat /\ CsLines >= 1 /\ Rows \in Nat /\ Rows >= 3
  BY LedsAssumption
<1>2. CsLines * Rows >= 3 /\ CsLines * Rows \in Nat
  <2>1. (CsLines - 1) * Rows >= 0 /\ (CsLines - 1) * Rows = CsLines * Rows - Rows
    BY <1>1
  <2> QED
    BY <1>1, <2>1
<1> QED
  BY <1>1, <1>2 DEF Registers, GlobalCurrent, Configuration

-----------------------------------------------------------------------------
(* The first state, and what follows from the invariant.                   *)

LEMMA LedsInvInit == Init => LedsInv
<1> SUFFICES ASSUME Init PROVE LedsInv
  OBVIOUS
<1>1. \A t \in Threads : todo[t] = <<>>
  BY DEF Init
<1>2. Typed
  <2>1. todo \in [Threads -> Seq(CallSet)]
    BY DEF Init
  <2>2. page \in [Drivers -> Pages] /\ selected \in [Drivers -> Pages]
    BY DEF Init, Pages
  <2>3. regs \in [Drivers -> [Pages -> [Registers -> Nat]]]
    BY DEF Init
  <2> QED
    BY <2>1, <2>2, <2>3, Sizes DEF Init, Typed
<1>3. Bus
  BY DEF Init, Bus, None, Threads
<1>4. Events
  BY DEF Init, Events
<1>5. todo["main"] \notin Entering /\ todo["main"] # <<Become("normal")>> /\ ~Toggling
  BY <1>1, ModeCalls DEF Threads, Toggling, HasMode
<1>6. Toggles /\ Undisturbed
  BY <1>5 DEF Init, Toggles, Undisturbed, Entering
<1>7. Chips
  <2>1. \A d \in Drivers : Gcr(d) = 0 /\ ShutDown(d)
    BY Sizes DEF Init, Gcr, ShutDown, Pages
  <2> QED
    BY <1>1, <2>1 DEF Init, Chips, Settled, Fits, CalmCalls, Threads
<1>8. Dark
  BY <1>5 DEF Init, Dark, Course
<1> QED
  BY <1>2, <1>3, <1>4, <1>6, <1>7, <1>8 DEF LedsInv

LEMMA MainKinds == Chips => todo["main"] \in CalmCalls \cup BusyCalls
BY DEF Chips, Settled, Ramping, Lighting, Dimming, Locking, Alone, BusyCalls, Threads

LEMMA WhenSettled ==
  ASSUME Chips, todo["hub"] = <<>>, todo["main"] \in CalmCalls
  PROVE  Settled
<1>1. ~Ramping /\ ~Lighting
  BY RampShape, LightShape DEF Ramping, Lighting
<1>2. ~Dimming("hub") /\ ~Locking("hub")
  BY DimShape, LockShape DEF Dimming, Locking, Threads
<1>3. ~Dimming("main") /\ ~Locking("main")
  BY BusyShape DEF Dimming, Locking, BusyCalls
<1> QED
  BY <1>1, <1>2, <1>3 DEF Chips, Threads

\* When main_thread begins something, the hub thread has nothing to do.
LEMMA WhenFree ==
  ASSUME LedsInv, MainFree
  PROVE  /\ todo["hub"] = <<>> /\ todo["main"] = <<>>
         /\ queue = <<>> /\ signals = {} /\ Settled
<1>1. todo["main"] = <<>> /\ ~HubRuns
  BY DEF MainFree, Runs, Idle
<1>2. bus # "main"
  BY <1>1 DEF LedsInv, Bus, Idle, Threads
<1>3. todo["hub"] = <<>> /\ queue = <<>> /\ signals = {}
  BY <1>1, <1>2 DEF HubRuns, Idle
<1> QED
  BY <1>1, <1>3, WhenSettled DEF LedsInv, CalmCalls

\* When the hub thread begins something that main_thread does not exclude.
LEMMA HubFree ==
  ASSUME LedsInv, todo["hub"] = <<>>, todo["main"] \notin BusyCalls
  PROVE  Settled /\ Alone("hub")
BY MainKinds, WhenSettled DEF LedsInv, Alone

-----------------------------------------------------------------------------
(* Steps that leave the chips alone.                                       *)

LEMMA ChipsSteady ==
  ASSUME Chips, UNCHANGED <<current, wrapped>>,
         \A d \in Drivers : Gcr(d)' = Gcr(d) /\ (ShutDown(d)' <=> ShutDown(d)),
         todo'["hub"] = todo["hub"],
         \/ todo'["main"] = todo["main"]
         \/ todo["main"] \in CalmCalls /\ todo'["main"] \in CalmCalls,
         \A t \in Threads, d \in Drivers : Past(t, d)' => Past(t, d)
  PROVE  Chips'
<1>1. \A d \in Drivers : (Fits(d)' <=> Fits(d)) /\ Gcr(d)' = Gcr(d)
                         /\ (ShutDown(d)' <=> ShutDown(d))
  BY DEF Fits
<1>2. Alone("hub") => Alone("hub")'
  BY DEF Alone
<1>3. CASE Settled
  BY <1>1, <1>3 DEF Settled, Chips
<1>4. CASE Ramping
  <2>1. Ramping'
    BY <1>1, <1>2, <1>4 DEF Ramping, Threads
  <2> QED
    BY <2>1 DEF Chips
<1>5. CASE Lighting
  <2>1. Lighting'
    BY <1>1, <1>2, <1>5 DEF Lighting, Threads
  <2> QED
    BY <2>1 DEF Chips
<1>6. ASSUME NEW t \in Threads, Dimming(t)
      PROVE  Dimming(t)'
  <2>1. todo'[t] = todo[t] /\ Alone(t)'
    BY <1>6, BusyShape DEF Dimming, Alone, BusyCalls, Threads
  <2> QED
    BY <1>1, <1>6, <2>1 DEF Dimming
<1>7. ASSUME NEW t \in Threads, Locking(t)
      PROVE  Locking(t)'
  <2>1. todo'[t] = todo[t] /\ Alone(t)'
    BY <1>7, BusyShape DEF Locking, Alone, BusyCalls, Threads
  <2> QED
    BY <1>1, <1>7, <2>1 DEF Locking
<1> QED
  BY <1>3, <1>4, <1>5, <1>6, <1>7 DEF Chips

LEMMA ChipsKept ==
  ASSUME Chips, UNCHANGED <<current, regs, wrapped>>,
         todo'["hub"] = todo["hub"],
         \/ todo'["main"] = todo["main"]
         \/ todo["main"] \in CalmCalls /\ todo'["main"] \in CalmCalls,
         \A t \in Threads, d \in Drivers : Past(t, d)' => Past(t, d)
  PROVE  Chips'
<1>1. \A d \in Drivers : Gcr(d)' = Gcr(d) /\ (ShutDown(d)' <=> ShutDown(d))
  BY DEF Gcr, ShutDown
<1> QED
  BY <1>1, ChipsSteady

LEMMA BusKept ==
  ASSUME Bus, UNCHANGED <<page, selected, bus>>,
         \A t \in Threads : bus = t => todo'[t] = todo[t]
  PROVE  Bus'
BY DEF Bus, Idle, Calling

\* Steps that leave all that Course speaks of.
LEMMA DarkKept ==
  ASSUME Dark, UNCHANGED <<mode, active, enabled>>, Toggling' <=> Toggling,
         signals' = signals, raced' = raced, current' = current
  PROVE  Dark'
BY DEF Dark, Course

LEMMA AcquireKeeps ==
  ASSUME LedsInv, NEW t \in Threads, AcquireBus(t)
  PROVE  LedsInv'
<1> USE DEF AcquireBus, threadVars, gcrVars, levelVars, chipVars, colorVars, raceVars, LedsInv
<1>1. Typed'
  BY Sizes DEF Typed
<1>2. Bus'
  BY DEF Bus, Calls, Idle, Calling
<1>3. Events' /\ Toggles' /\ Undisturbed'
  BY DEF Events, Toggles, Undisturbed, Idle
<1>4. Chips'
  <2>1. \A u \in Threads, d \in Drivers : ~Past(u, d)'
    BY Sizes DEF Past, Drivers
  <2> QED
    BY <2>1, ChipsKept
<1>5. Dark'
  BY DarkKept DEF Toggling
<1> QED
  BY <1>1, <1>2, <1>3, <1>4, <1>5

LEMMA SupplyKeeps ==
  ASSUME LedsInv, Supply
  PROVE  LedsInv'
<1> USE DEF Supply, threadVars, busVars, levelVars, chipVars, colorVars, raceVars, LedsInv
<1>1. Typed'
  BY DEF Typed
<1>2. Bus'
  BY BusKept
<1>3. Events' /\ Toggles' /\ Undisturbed'
  BY DEF Events, Toggles, Undisturbed, Idle
<1>4. Chips'
  BY ChipsKept DEF Past
<1>5. Dark'
  BY DarkKept DEF Toggling
<1> QED
  BY <1>1, <1>2, <1>3, <1>4, <1>5

LEMMA SignalKeeps ==
  ASSUME LedsInv, NEW f \in {"suspend", "resume"}, Signal(f)
  PROVE  LedsInv'
<1> USE DEF Signal, gcrVars, busVars, levelVars, chipVars, colorVars, LedsInv
<1>1. Typed'
  BY DEF Typed
<1>2. Bus'
  BY BusKept
<1>3. Events' /\ Toggles'
  BY DEF Events, Toggles
<1>4. Undisturbed'
  <2> SUFFICES ASSUME todo["main"] \in BusyCalls
               PROVE  Undisturbed'
    BY DEF Undisturbed
  <2>1. Toggling
    BY ModeCalls DEF Entering, Toggling, HasMode
  <2>2. hurried' = TRUE /\ signals = {} /\ ~enabled
    BY <2>1 DEF Undisturbed
  <2> QED
    BY <2>2 DEF Undisturbed, Idle
<1>5. Chips'
  BY ChipsKept DEF Past
<1>6. Dark'
  <2>1. Toggling' = Toggling
    BY DEF Toggling
  <2>2. CASE Toggling
    BY <2>2 DEF Dark
  <2>3. CASE ~Toggling
    BY <2>1, <2>3 DEF Dark, Course
  <2> QED
    BY <2>2, <2>3
<1> QED
  BY <1>1, <1>2, <1>3, <1>4, <1>5, <1>6

LEMMA TickKeeps ==
  ASSUME LedsInv, Tick
  PROVE  LedsInv'
<1> USE DEF Tick, threadVars, gcrVars, busVars, levelVars, chipVars, colorVars, raceVars, LedsInv
<1>1. Typed'
  BY DEF Typed
<1>2. Bus'
  BY BusKept
<1>3. Events'
  BY DEF Events
<1>4. Toggles'
  BY DEF Toggles
<1>5. Undisturbed'
  BY DEF Undisturbed, Idle
<1>6. Chips'
  BY ChipsKept DEF Past
<1>7. Dark'
  BY DarkKept DEF Toggling
<1> QED
  BY <1>1, <1>2, <1>3, <1>4, <1>5, <1>6, <1>7

LEMMA ReportKeeps ==
  ASSUME LedsInv, Report
  PROVE  LedsInv'
<1> USE DEF Report, threadVars, busVars, levelVars, chipVars, colorVars, raceVars, LedsInv
<1>1. Typed'
  BY DEF Typed
<1>2. Bus'
  BY BusKept
<1>3. Events'
  <2>1. queue = <<>>
    BY DEF Events
  <2>2. \A e : Posting(e) = <<e>>
    BY <2>1 DEF Posting
  <2>3. queue' \in {<<>>, <<"lower">>, <<"raise">>} /\ (queue' = <<"raise">> => current < MaxGcr)
    <3>1. <<"raise">> # <<>> /\ <<"raise">> # <<"lower">>
      OBVIOUS
    <3> QED
      BY <2>1, <2>2, <3>1
  <2> QED
    BY <2>3 DEF Events
<1>4. Toggles'
  BY DEF Toggles
<1>5. Undisturbed'
  BY DEF Undisturbed
<1>6. Chips'
  BY ChipsKept DEF Past
<1>7. Dark'
  BY DarkKept DEF Toggling
<1> QED
  BY <1>1, <1>2, <1>3, <1>4, <1>5, <1>6, <1>7

LEMMA MeasureKeeps ==
  ASSUME LedsInv, Measure
  PROVE  LedsInv'
<1> USE DEF Measure, Getting, threadVars, busVars, levelVars, chipVars, colorVars, raceVars, LedsInv
<1>1. Typed'
  BY DEF Typed
<1>2. Bus'
  BY BusKept
<1>3. Events'
  BY Singles DEF Events
<1>4. Toggles'
  BY DEF Toggles
<1>5. Undisturbed'
  <2>1. queue' = <<>>
    BY Singles DEF Events
  <2> QED
    BY <2>1 DEF Undisturbed, Idle
<1>6. Chips'
  BY ChipsKept DEF Past
<1>7. Dark'
  BY DarkKept DEF Toggling
<1> QED
  BY <1>1, <1>2, <1>3, <1>4, <1>5, <1>6, <1>7

-----------------------------------------------------------------------------
(* The steps of main_thread that leave the chips alone.                    *)

LEMMA SetColorKeeps ==
  ASSUME LedsInv, NEW d \in Drivers, NEW g \in Registers, NEW c \in Colors,
         g + 2 * CsLines \in Registers, SetColor(d, g, c)
  PROVE  LedsInv'
<1> USE DEF SetColor, threadVars, gcrVars, busVars, levelVars, chipVars, raceVars, LedsInv
<1>1. Typed'
  <2> DEFINE led == LedRegisters(g)
             lit == [r \in Registers |->
                       IF \E i \in 1 .. 3 : led[i] = r
                       THEN c[CHOOSE i \in 1 .. 3 : led[i] = r] ELSE pwm[d][r]]
  <2>1. pwm' = [pwm EXCEPT ![d] = lit] /\ dirty' = [dirty EXCEPT ![d] =
                  @ \cup {r \in Registers : lit[r] # pwm[d][r]}]
    OBVIOUS
  <2>2. lit \in [Registers -> Nat]
    <3>1. c \in [1 .. 3 -> Nat]
      BY LedsAssumption
    <3>2. pwm[d] \in [Registers -> Nat]
      BY DEF Typed
    <3> QED
      BY <3>1, <3>2
  <2> HIDE DEF lit
  <2>3. pwm' \in [Drivers -> [Registers -> Nat]]
    BY <2>1, <2>2 DEF Typed
  <2>4. dirty' \in [Drivers -> SUBSET Registers]
    BY <2>1 DEF Typed
  <2> QED
    BY <2>3, <2>4 DEF Typed
<1>2. Bus'
  BY BusKept
<1>3. Events' /\ Toggles' /\ Undisturbed'
  BY DEF Events, Toggles, Undisturbed, Idle
<1>4. Chips'
  BY ChipsKept DEF Past
<1>5. Dark'
  BY DarkKept DEF Toggling
<1> QED
  BY <1>1, <1>2, <1>3, <1>4, <1>5

LEMMA RefreshKeeps ==
  ASSUME LedsInv, Refresh
  PROVE  LedsInv'
<1> USE DEF Refresh, threadVars, gcrVars, busVars, levelVars, chipVars, colorVars, raceVars, LedsInv
<1>1. todo["main"] = <<>> /\ todo'["main"] = <<RefreshColors>> /\ todo'["hub"] = todo["hub"]
  BY WhenFree DEF Typed, Threads
<1>2. todo'["main"] \notin Entering /\ todo'["main"] # <<Become("normal")>>
      /\ ~Toggling /\ ~Toggling'
  BY <1>1, ModeCalls DEF Toggling, HasMode
<1>3. Typed'
  <2>1. <<RefreshColors>> \in Seq(CallSet)
    BY DEF CallSet
  <2> QED
    BY <2>1 DEF Typed
<1>4. Bus'
  BY <1>1, BusKept DEF Bus, Idle, Threads
<1>5. Events' /\ Toggles' /\ Undisturbed'
  BY <1>2 DEF Events, Toggles, Undisturbed, Entering
<1>6. Chips'
  BY <1>1, ChipsKept DEF Past, CalmCalls
<1>7. Dark'
  BY <1>2, DarkKept
<1> QED
  BY <1>3, <1>4, <1>5, <1>6, <1>7

LEMMA LeaveDfuKeeps ==
  ASSUME LedsInv, LeaveDfu
  PROVE  LedsInv'
<1> USE DEF LeaveDfu, threadVars, busVars, chipVars, colorVars, LedsInv
<1>1. /\ todo["main"] = <<>> /\ todo'["main"] = <<Become("normal")>>
      /\ todo'["hub"] = <<>> /\ todo["hub"] = <<>> /\ signals = {} /\ queue = <<>>
  BY WhenFree DEF Typed, Threads
<1>2. Toggling'
  BY <1>1, ModeCalls DEF Toggling, HasMode
<1>3. Typed'
  <2>1. <<Become("normal")>> \in Seq(CallSet)
    BY DEF CallSet
  <2> QED
    BY <2>1 DEF Typed
<1>4. Bus'
  BY <1>1, BusKept DEF Bus, Idle, Threads
<1>5. <<Become("normal")>> \notin Entering
  <2>1. Become("normal") # Become("dfu")
    BY Fields
  <2>2. <<Become("normal")>> # <<Become("dfu")>>
    BY <2>1, Singles
  <2>3. <<Become("normal")>> \notin BusyCalls
    BY BusyShape DEF CalmCalls
  <2> QED
    BY <2>2, <2>3 DEF Entering
<1>6. Events' /\ Toggles' /\ Undisturbed'
  BY <1>1, <1>5 DEF Events, Toggles, Undisturbed, Entering
<1>7. Chips'
  BY <1>1, ChipsKept DEF Past, CalmCalls
<1>8. Dark'
  BY <1>1, <1>2 DEF Dark, Course
<1> QED
  BY <1>3, <1>4, <1>6, <1>7, <1>8

LEMMA ChangeModeKeeps ==
  ASSUME LedsInv, ChangeMode
  PROVE  LedsInv'
<1> USE DEF ChangeMode, gcrVars, levelVars, busVars, chipVars, colorVars, raceVars, LedsInv
<1>1. todo["main"] # <<>> /\ Head(todo["main"]).to = "mode"
  BY DEF Calls, Idle, Calling
<1>2. todo["main"] \in CalmCalls
  BY <1>1, MainKinds, BusyShape
<1>3. PICK m \in {"normal", "dfu"} :
        todo["main"] = <<Become(m)>> /\ Head(todo["main"]) = Become(m)
  BY <1>1, <1>2, CalmShape, Fields
<1>4. todo'["main"] = <<>> /\ todo'["hub"] = todo["hub"] /\ mode' = m
  BY <1>1, <1>2, <1>3, CalmShape, Fields DEF Typed, Threads, Calling
<1>5. Toggling /\ ~Toggling' /\ mode # m
  <2>1. Toggling /\ ~Toggling'
    BY <1>3, <1>4, ModeCalls DEF Toggling, HasMode
  <2>2. m = "normal" => mode = "dfu"
    BY <1>3 DEF Toggles
  <2>3. m = "dfu" => mode = "normal"
    BY <1>3 DEF Toggles, Entering
  <2> QED
    BY <2>1, <2>2, <2>3
<1>6. Typed'
  BY <1>1 DEF Typed, Threads
<1>7. Bus'
  <2>1. bus # "main"
    BY <1>1 DEF Bus, OnBus, Calling, Threads
  <2> QED
    BY <1>4, <2>1, BusKept DEF Threads
<1>8. Events' /\ Toggles' /\ Undisturbed'
  <2>1. <<>> \notin Entering /\ <<>> # <<Become("normal")>>
    BY ModeCalls
  <2> QED
    BY <1>4, <2>1 DEF Events, Toggles, Undisturbed, Entering
<1>9. Chips'
  BY <1>2, <1>4, ChipsKept DEF Past, CalmCalls
<1>10. Dark'
  BY <1>4, <1>5 DEF Dark, Course, Toggles
<1> QED
  BY <1>6, <1>7, <1>8, <1>9, <1>10

-----------------------------------------------------------------------------
(* A thread goes on to its next call.                                      *)

LEMMA TailTyped ==
  ASSUME Typed, NEW t \in Threads, todo[t] # <<>>,
         todo' = [todo EXCEPT ![t] = Tail(@)]
  PROVE  /\ todo' \in [Threads -> Seq(CallSet)]
         /\ todo'[t] = Tail(todo[t])
         /\ \A u \in Threads \ {t} : todo'[u] = todo[u]
BY DEF Typed

\* What main_thread has left of what it is doing.
LEMMA MainTail ==
  ASSUME Chips, todo["main"] # <<>>, Head(todo["main"]).to # "mode",
         todo'["main"] = Tail(todo["main"])
  PROVE  /\ \/ todo["main"] = <<RefreshColors>> /\ todo'["main"] = <<>>
            \/ todo["main"] \in BusyCalls /\ todo'["main"] \in Entering
         /\ Toggling' <=> Toggling
<1>1. CASE todo["main"] \in CalmCalls
  <2>1. todo["main"] = <<RefreshColors>> /\ todo'["main"] = <<>>
    BY <1>1, CalmShape, Fields
  <2> QED
    BY <2>1, ModeCalls DEF Toggling, HasMode
<1>2. CASE todo["main"] \in BusyCalls
  <2>1. todo'["main"] \in Entering
    BY <1>2, RestShape, LockShape, DimShape DEF BusyCalls, Entering, Threads
  <2>2. Toggling /\ Toggling'
    BY <1>2, <2>1, ModeCalls DEF Toggling, HasMode, Entering
  <2> QED
    BY <1>2, <2>1, <2>2
<1> QED
  BY <1>1, <1>2, MainKinds

\* What such a step keeps.
LEMMA TailKeeps ==
  ASSUME LedsInv, NEW t \in Threads, todo[t] # <<>>,
         todo'[t] = Tail(todo[t]), \A u \in Threads \ {t} : todo'[u] = todo[u],
         t = "main" => Head(todo[t]).to # "mode",
         UNCHANGED <<mode, active, signals, queue, enabled, current, converting, raceVars>>,
         irq' = irq \/ todo'["main"] \notin BusyCalls
  PROVE  Events' /\ Toggles' /\ Undisturbed' /\ Dark'
<1> USE DEF LedsInv, raceVars
<1>1. CASE t = "main"
  <2>1. todo'["hub"] = todo["hub"]
    BY <1>1 DEF Threads
  <2>2. /\ \/ todo["main"] = <<RefreshColors>> /\ todo'["main"] = <<>>
           \/ todo["main"] \in BusyCalls /\ todo'["main"] \in Entering
        /\ Toggling' <=> Toggling
    BY <1>1, MainTail
  <2>3. todo'["main"] # <<Become("normal")>>
    <3>1. <<Become("normal")>> \notin Entering
      <4>1. Become("normal") # Become("dfu")
        BY Fields
      <4>2. <<Become("normal")>> # <<Become("dfu")>>
        BY <4>1, Singles
      <4>3. <<Become("normal")>> \notin BusyCalls
        BY BusyShape DEF CalmCalls
      <4> QED
        BY <4>2, <4>3 DEF Entering
    <3> QED
      BY <2>2, <3>1, Singles
  <2>4. todo'["main"] \in Entering => todo["main"] \in BusyCalls
    BY <2>2, ModeCalls
  <2>5. Events' /\ Toggles'
    BY <2>3, <2>4 DEF Events, Toggles, Entering
  <2>6. Undisturbed'
    BY <2>1, <2>4 DEF Undisturbed, Idle, Entering
  <2> QED
    BY <2>2, <2>5, <2>6, DarkKept
<1>2. CASE t = "hub"
  <2>1. todo'["main"] = todo["main"] /\ todo["main"] \notin BusyCalls
    BY <1>2 DEF Undisturbed, Idle, Threads
  <2>2. Toggling' <=> Toggling
    BY <2>1 DEF Toggling
  <2>3. Events' /\ Toggles' /\ Undisturbed'
    BY <2>1 DEF Events, Toggles, Undisturbed
  <2> QED
    BY <2>2, <2>3, DarkKept
<1> QED
  BY <1>1, <1>2 DEF Threads

LEMMA ReleaseKeeps ==
  ASSUME LedsInv, NEW t \in Threads, ReleaseBus(t)
  PROVE  LedsInv'
<1> USE DEF ReleaseBus, threadVars, gcrVars, levelVars, chipVars, colorVars, raceVars, LedsInv
<1>1. todo[t] # <<>> /\ Head(todo[t]).to \in OnBus
  BY DEF Calls, Idle, Calling
<1>2. /\ todo' \in [Threads -> Seq(CallSet)]
      /\ todo'[t] = Tail(todo[t])
      /\ \A u \in Threads \ {t} : todo'[u] = todo[u]
  BY <1>1, TailTyped
<1>3. Typed'
  BY <1>2 DEF Typed
<1>4. Bus'
  BY DEF Bus, None, Threads
<1>5. Events' /\ Toggles' /\ Undisturbed' /\ Dark'
  BY <1>1, <1>2, TailKeeps DEF OnBus
<1>6. \A d \in Drivers : Past(t, d)
  BY Sizes DEF Past, Drivers
<1>7. \A u \in Threads, d \in Drivers : ~Past(u, d)'
  BY DEF Past, None, Threads
<1>8. \A d \in Drivers : (Fits(d)' <=> Fits(d)) /\ Gcr(d)' = Gcr(d)
                         /\ (ShutDown(d)' <=> ShutDown(d))
  BY DEF Fits, Gcr, ShutDown
<1>9. Chips'
  <2>1. CASE t = "main" /\ todo["main"] \in CalmCalls
    <3>1. todo'["main"] \in CalmCalls /\ todo'["hub"] = todo["hub"]
      BY <1>1, <1>2, <2>1, CalmShape DEF CalmCalls, Threads
    <3> QED
      BY <1>7, <2>1, <3>1, ChipsKept
  <2>2. CASE t = "main" /\ todo["main"] \notin CalmCalls
    <3>1. todo'["hub"] = todo["hub"]
      BY <1>2, <2>2 DEF Threads
    <3>2. ~Settled /\ ~Ramping /\ ~Lighting /\ ~Dimming("hub") /\ ~Locking("hub")
      BY <1>1, <2>2, RestShape, Fields
         DEF Settled, Ramping, Lighting, Dimming, Locking, Alone, OnBus, Threads
    <3>3. CASE Dimming("main")
      <4>1. Locking("main")'
        BY <1>2, <1>6, <1>7, <1>8, <2>2, <3>1, <3>3, DimShape DEF Dimming, Locking, Alone
      <4> QED
        BY <4>1 DEF Chips, Threads
    <3>4. CASE Locking("main")
      <4>1. Settled'
        BY <1>2, <1>6, <1>7, <1>8, <2>2, <3>1, <3>4, LockShape
           DEF Locking, Alone, Settled, Fits
      <4> QED
        BY <4>1 DEF Chips
    <3> QED
      BY <3>2, <3>3, <3>4 DEF Chips, Threads
  <2>3. CASE t = "hub"
    <3>1. todo'["main"] = todo["main"] /\ Alone("hub")' = Alone("hub")
      BY <1>2, <2>3 DEF Threads, Alone
    <3>2. ~Settled /\ ~Dimming("main") /\ ~Locking("main")
      BY <1>1, <2>3, RestShape, Fields DEF Settled, Dimming, Locking, Alone, OnBus, Threads
    <3>3. CASE Ramping
      <4>1. Settled'
        BY <1>2, <1>6, <1>8, <2>3, <3>1, <3>3, RampShape DEF Ramping, Settled, Fits, Alone
      <4> QED
        BY <4>1 DEF Chips
    <3>4. CASE Lighting
      <4>1. Ramping'
        BY <1>2, <1>6, <1>7, <1>8, <2>3, <3>1, <3>4, LightShape DEF Ramping, Lighting, Threads
      <4> QED
        BY <4>1 DEF Chips
    <3>5. CASE Dimming("hub")
      <4>1. Locking("hub")'
        BY <1>2, <1>6, <1>7, <1>8, <2>3, <3>1, <3>5, DimShape DEF Dimming, Locking
      <4> QED
        BY <4>1 DEF Chips, Threads
    <3>6. CASE Locking("hub")
      <4>1. Settled'
        BY <1>2, <1>6, <1>7, <1>8, <2>3, <3>1, <3>6, LockShape
           DEF Locking, Alone, Settled, Fits
      <4> QED
        BY <4>1 DEF Chips
    <3> QED
      BY <3>2, <3>3, <3>4, <3>5, <3>6 DEF Chips, Threads
  <2> QED
    BY <2>1, <2>2, <2>3 DEF Threads
<1> QED
  BY <1>3, <1>4, <1>5, <1>9

LEMMA UnlockKeeps ==
  ASSUME LedsInv, NEW t \in Threads, UnlockAdc(t)
  PROVE  LedsInv'
<1> USE DEF UnlockAdc, threadVars, levelVars, busVars, chipVars, colorVars, raceVars, LedsInv
<1>1. todo[t] # <<>> /\ Head(todo[t]).to = "irq"
  BY DEF Calls, Idle, Calling
<1>2. /\ todo' \in [Threads -> Seq(CallSet)]
      /\ todo'[t] = Tail(todo[t])
      /\ \A u \in Threads \ {t} : todo'[u] = todo[u]
  BY <1>1, TailTyped
<1>3. todo[t] = Rest(t) /\ Settled
  <2>1. ASSUME t = "hub" PROVE Settled
    <3>1. ~Ramping /\ ~Lighting
      <4>1. ASSUME Ramping PROVE FALSE
        <5>1. Head(todo["hub"]) = SetGcr(current)
          BY <4>1, RampShape DEF Ramping
        <5> QED
          BY <1>1, <2>1, <5>1, Fields
      <4>2. ~Lighting
        BY <1>1, <2>1, LightShape, Fields DEF Lighting
      <4> QED
        BY <4>1, <4>2
    <3>2. ~Dimming("hub") /\ ~Locking("hub")
      BY <1>1, <2>1, DimShape, LockShape, Fields DEF Dimming, Locking, Threads
    <3>3. ~Dimming("main") /\ ~Locking("main")
      BY <1>1, <2>1 DEF Dimming, Locking, Alone
    <3> QED
      BY <3>1, <3>2, <3>3 DEF Chips, Threads
  <2>2. ASSUME t = "main" PROVE Settled
    <3>1. todo["main"] \notin CalmCalls
      BY <1>1, <2>2, CalmHead
    <3>2. ~Ramping /\ ~Lighting /\ ~Dimming("hub") /\ ~Locking("hub")
      BY <3>1 DEF Ramping, Lighting, Dimming, Locking, Alone
    <3>3. ~Dimming("main") /\ ~Locking("main")
      BY <1>1, <2>2, DimShape, LockShape, Fields DEF Dimming, Locking, Threads
    <3> QED
      BY <3>2, <3>3 DEF Chips, Threads
  <2>3. Settled
    BY <2>1, <2>2 DEF Threads
  <2> QED
    BY <1>1, <2>3, CalmHead DEF Settled, Threads
<1>4. Typed'
  BY <1>2 DEF Typed
<1>5. Bus'
  <2>1. bus # t
    BY <1>1 DEF Bus, OnBus, Calling
  <2> QED
    BY <1>2, <2>1, BusKept
<1>6. todo'["main"] \notin BusyCalls
  <2>1. CASE t = "main"
    BY <1>2, <1>3, <2>1, RestShape, BusyShape DEF CalmCalls
  <2>2. CASE t = "hub"
    BY <1>1, <1>2, <2>2 DEF Undisturbed, Idle, Threads
  <2> QED
    BY <2>1, <2>2 DEF Threads
<1>7. Events' /\ Toggles' /\ Undisturbed' /\ Dark'
  BY <1>1, <1>2, <1>6, TailKeeps
<1>8. Chips'
  <2>1. \A d \in Drivers : Fits(d)'
    BY <1>3 DEF Settled, Fits, Gcr, ShutDown
  <2>2. Settled'
    BY <1>2, <1>3, <2>1, RestShape DEF Settled, CalmCalls, Threads
  <2> QED
    BY <2>2 DEF Chips
<1> QED
  BY <1>4, <1>5, <1>7, <1>8

-----------------------------------------------------------------------------
(* A thread begins to change the current.                                  *)

LEMMA SeqOfFour ==
  ASSUME NEW S, NEW w \in S, NEW x \in S, NEW y \in S, NEW z \in S
  PROVE  /\ <<w, x>> \in Seq(S) /\ <<w, x, y>> \in Seq(S)
         /\ <<w, x, y, z>> \in Seq(S)
OBVIOUS

LEMMA Changes ==
  ASSUME LedsInv, NEW gcr, NEW wraps, NEW calls, Change(gcr, wraps, calls)
  PROVE  /\ irq' = FALSE /\ current' = gcr /\ wrapped' = (wraps \/ (wrapped /\ gcr # 0))
         /\ todo'["hub"] = calls \o <<EnableIrq>> /\ todo'["main"] = todo["main"]
         /\ UNCHANGED <<enabled, converting>>
         /\ calls \o <<EnableIrq>> \in Seq(CallSet) => todo' \in [Threads -> Seq(CallSet)]
BY DEF LedsInv, Typed, Change, Threads

\* disable(), by the thread that is idle, while the other leaves the current alone.
LEMMA DisableKeeps ==
  ASSUME LedsInv, NEW t \in Threads, enabled, todo[t] = <<>>, Settled, Alone(t),
         Disable(t, IF t = "hub" THEN <<>> ELSE <<Become("dfu")>>),
         UNCHANGED <<busVars, regs>>
  PROVE  /\ irq' = FALSE /\ enabled' = FALSE /\ current' = 0
         /\ todo' \in [Threads -> Seq(CallSet)]
         /\ todo'[t] = DimCalls(t)
         /\ \A u \in Threads \ {t} : todo'[u] = todo[u]
         /\ Chips'
<1> USE DEF LedsInv
<1>1. /\ irq' = FALSE /\ enabled' = FALSE /\ current' = 0 /\ wrapped' = FALSE
      /\ todo' = [todo EXCEPT ![t] = DimCalls(t)]
  <2> DEFINE after == IF t = "hub" THEN <<>> ELSE <<Become("dfu")>>
             calls == <<SetGcr(0), SetSsdLock(TRUE), EnableIrq>> \o after
  <2>1. irq' = FALSE /\ enabled' = FALSE /\ current' = 0 /\ wrapped' = FALSE
        /\ todo' = [todo EXCEPT ![t] = calls]
    BY DEF Disable
  <2>2. calls = DimCalls(t)
    <3>1. CASE t = "hub"
      <4>1. after = <<>>
        BY <3>1
      <4> HIDE DEF after
      <4> QED
        BY <3>1, <4>1, JoinNone DEF DimCalls
    <3>2. CASE t = "main"
      <4>1. after = <<Become("dfu")>>
        BY <3>2
      <4> HIDE DEF after
      <4> QED
        BY <3>2, <4>1, JoinThree DEF DimCalls
    <3> QED
      BY <3>1, <3>2 DEF Threads
  <2> HIDE DEF calls
  <2> QED
    BY <2>1, <2>2
<1>2. DimCalls(t) \in Seq(CallSet)
  <2>1. /\ SetGcr(0) \in CallSet /\ SetSsdLock(TRUE) \in CallSet
        /\ EnableIrq \in CallSet /\ Become("dfu") \in CallSet
    BY Sizes DEF CallSet, SetGcr, SetSsdLock, Call
  <2>2. /\ <<SetGcr(0), SetSsdLock(TRUE), EnableIrq>> \in Seq(CallSet)
        /\ <<SetGcr(0), SetSsdLock(TRUE), EnableIrq, Become("dfu")>> \in Seq(CallSet)
    BY <2>1, SeqOfFour
  <2> QED
    BY <2>2 DEF DimCalls
<1>3. /\ todo' \in [Threads -> Seq(CallSet)] /\ todo'[t] = DimCalls(t)
      /\ \A u \in Threads \ {t} : todo'[u] = todo[u]
  BY <1>1, <1>2 DEF Typed
<1>4. Dimming(t)'
  <2>1. Alone(t)'
    BY <1>3 DEF Alone, Threads
  <2>2. bus' # t
    BY DEF Bus, Idle, busVars
  <2> QED
    BY <1>1, <1>3, <2>1, <2>2 DEF Dimming, Past
<1> QED
  BY <1>1, <1>3, <1>4 DEF Chips

LEMMA SuspendKeeps ==
  ASSUME LedsInv, Suspend
  PROVE  LedsInv'
<1> USE DEF Suspend, Handling, busVars, chipVars, colorVars, raceVars
<1>1. todo["hub"] = <<>> /\ signals # {} /\ signals' = signals \ {"suspend"} /\ "suspend" \in signals
  BY DEF Idle
<1>2. CASE active /\ mode = "normal" /\ enabled
  <2>1. todo["main"] \notin BusyCalls
    BY <1>1, <1>2 DEF LedsInv, Undisturbed
  <2>2. Settled /\ Alone("hub")
    BY <1>1, <2>1, HubFree
  <2>3. /\ irq' = FALSE /\ enabled' = FALSE /\ current' = 0
        /\ todo' \in [Threads -> Seq(CallSet)]
        /\ todo'["hub"] = DimCalls("hub")
        /\ \A u \in Threads \ {"hub"} : todo'[u] = todo[u]
        /\ Chips'
    BY <1>1, <1>2, <2>2, DisableKeeps DEF Threads
  <2>4. Typed'
    BY <2>3, Sizes DEF LedsInv, Typed
  <2>5. Bus'
    BY <1>1, <2>3, BusKept DEF LedsInv, Bus, Idle
  <2>6. todo'["main"] = todo["main"]
    BY <2>3 DEF Threads
  <2>7. Events'
    <3>1. queue = <<"raise">> => 0 < MaxGcr
      BY Sizes DEF LedsInv, Typed, Events
    <3> QED
      BY <2>3, <3>1 DEF LedsInv, Events
  <2>8. Toggles' /\ Undisturbed'
    BY <2>1, <2>6 DEF LedsInv, Toggles, Undisturbed
  <2>9. Dark'
    BY <1>2, <2>3, <2>6 DEF LedsInv, Dark, Course, Toggling
  <2> QED
    BY <2>3, <2>4, <2>5, <2>7, <2>8, <2>9 DEF LedsInv
<1>3. CASE ~(active /\ mode = "normal" /\ enabled)
  <2> USE DEF LedsInv
  <2>1. UNCHANGED <<irq, levelVars>> /\ todo'["hub"] = todo["hub"] /\ todo'["main"] = todo["main"]
        /\ todo' \in [Threads -> Seq(CallSet)]
    <3>1. <<>> \in Seq(CallSet)
      OBVIOUS
    <3> QED
      BY <1>1, <1>3, <3>1 DEF Disable, Typed, Threads
  <2>2. Typed'
    BY <2>1 DEF Typed, levelVars
  <2>3. Bus'
    BY <2>1, BusKept DEF Threads
  <2>4. Events' /\ Toggles'
    BY <2>1 DEF Events, Toggles, levelVars
  <2>5. Undisturbed'
    BY <1>1, <2>1 DEF Undisturbed, Idle, levelVars
  <2>6. Chips'
    BY <2>1, ChipsKept DEF Past, levelVars
  <2>7. Dark'
    BY <1>1, <1>3, <2>1 DEF Dark, Course, Toggling, levelVars
  <2> QED
    BY <2>2, <2>3, <2>4, <2>5, <2>6, <2>7
<1> QED
  BY <1>2, <1>3

LEMMA ResumeKeeps ==
  ASSUME LedsInv, Resume
  PROVE  LedsInv'
<1> USE DEF Resume, Handling, busVars, chipVars, colorVars, raceVars, LedsInv
<1>1. Typed'
  BY DEF Typed
<1>2. Bus'
  BY BusKept
<1>3. Events' /\ Toggles'
  BY DEF Events, Toggles
<1>4. Undisturbed'
  <2> SUFFICES ASSUME todo["main"] \in BusyCalls
               PROVE  Undisturbed'
    BY DEF Undisturbed
  <2>1. signals' = {} /\ hurried
    BY DEF Undisturbed, Typed
  <2> QED
    BY <2>1 DEF Undisturbed, Idle
<1>5. Chips'
  BY ChipsKept DEF Past
<1>6. Dark'
  BY DEF Dark, Course, Toggling, Toggles
<1> QED
  BY <1>1, <1>2, <1>3, <1>4, <1>5, <1>6

LEMMA EnterDfuKeeps ==
  ASSUME LedsInv, EnterDfu
  PROVE  LedsInv'
<1> USE DEF EnterDfu, threadVars, busVars, chipVars, colorVars
<1>1. /\ todo["hub"] = <<>> /\ todo["main"] = <<>>
      /\ queue = <<>> /\ signals = {} /\ Settled
  BY WhenFree
<1>2. CASE enabled
  <2>1. /\ irq' = FALSE /\ enabled' = FALSE /\ current' = 0
        /\ todo' \in [Threads -> Seq(CallSet)]
        /\ todo'["main"] = DimCalls("main")
        /\ \A u \in Threads \ {"main"} : todo'[u] = todo[u]
        /\ Chips'
    BY <1>1, <1>2, DisableKeeps DEF Threads, Alone
  <2>2. todo'["hub"] = todo["hub"]
    BY <2>1 DEF Threads
  <2>3. todo'["main"] \in Entering /\ todo'["main"] # <<Become("normal")>> /\ Toggling'
    BY <2>1, ModeCalls, BusyShape DEF Entering, BusyCalls, CalmCalls, Toggling, HasMode
  <2>4. Typed'
    BY <2>1, Sizes DEF LedsInv, Typed
  <2>5. Bus'
    BY <1>1, <2>1, BusKept DEF LedsInv, Bus, Idle
  <2>6. Events' /\ Toggles' /\ Undisturbed'
    BY <1>1, <2>1, <2>2, <2>3 DEF LedsInv, Events, Toggles, Undisturbed, Idle
  <2>7. Dark'
    BY <1>1, <2>1, <2>3 DEF Dark, Course
  <2> QED
    BY <2>1, <2>4, <2>5, <2>6, <2>7 DEF LedsInv
<1>3. CASE ~enabled
  <2>1. /\ todo' = [todo EXCEPT !["main"] = <<Become("dfu")>>]
        /\ UNCHANGED <<irq, levelVars>>
    BY <1>3 DEF Disable
  <2>2. /\ todo'["hub"] = todo["hub"] /\ todo'["main"] = <<Become("dfu")>>
        /\ todo' \in [Threads -> Seq(CallSet)]
    <3>1. <<Become("dfu")>> \in Seq(CallSet)
      BY DEF CallSet
    <3> QED
      BY <2>1, <3>1 DEF LedsInv, Typed, Threads
  <2>3. <<Become("dfu")>> \notin BusyCalls /\ <<Become("dfu")>> # <<Become("normal")>>
    <3>1. Become("normal") # Become("dfu")
      BY Fields
    <3> QED
      BY <3>1, Singles, BusyShape DEF CalmCalls
  <2>4. Toggling'
    BY <2>2, ModeCalls DEF Toggling, HasMode
  <2>5. Typed'
    BY <2>1, <2>2 DEF LedsInv, Typed, levelVars
  <2>6. Bus'
    BY <1>1, <2>2, BusKept DEF LedsInv, Bus, Idle, Threads
  <2>7. Events' /\ Toggles' /\ Undisturbed'
    BY <1>1, <2>1, <2>2, <2>3 DEF LedsInv, Events, Toggles, Undisturbed, Idle, levelVars
  <2>8. Chips'
    BY <1>1, <2>1, <2>2, ChipsKept DEF LedsInv, Past, CalmCalls, levelVars
  <2>9. Dark'
    BY <1>1, <1>3, <2>1, <2>4 DEF LedsInv, Dark, Course, levelVars
  <2> QED
    BY <2>5, <2>6, <2>7, <2>8, <2>9 DEF LedsInv
<1> QED
  BY <1>2, <1>3

\* The handlers of the events.
LEMMA RampKeeps ==
  ASSUME LedsInv, todo["hub"] = <<>>, todo["main"] \notin BusyCalls, queue' = <<>>,
         NEW gcr \in 0 .. TopGcr, gcr # 0, NEW wraps \in BOOLEAN,
         wraps \/ \A d \in Drivers : gcr <= Gcr(d) + 1,
         wraps => current = 0, current = 0 => wraps,
         enabled, Change(gcr, wraps, <<SetGcr(gcr)>>),
         UNCHANGED <<threadVars, low, busVars, chipVars, colorVars, raceVars>>
  PROVE  LedsInv'
<1> USE DEF threadVars, busVars, chipVars, colorVars, raceVars
<1>1. Settled /\ Alone("hub")
  BY HubFree
<1>2. <<SetGcr(gcr)>> \o <<EnableIrq>> = RampCalls(gcr)
  BY JoinOne DEF RampCalls
<1>3. RampCalls(gcr) \in Seq(CallSet)
  <2>1. SetGcr(gcr) \in CallSet /\ EnableIrq \in CallSet
    BY DEF CallSet, SetGcr, Call
  <2> QED
    BY <2>1, SeqOfFour DEF RampCalls
<1>4. /\ irq' = FALSE /\ current' = gcr /\ wrapped' = (wraps \/ (wrapped /\ gcr # 0))
      /\ todo'["hub"] = RampCalls(gcr) /\ todo'["main"] = todo["main"]
      /\ UNCHANGED <<enabled, converting>>
      /\ todo' \in [Threads -> Seq(CallSet)]
  BY <1>2, <1>3, Changes
<1>5. Typed'
  BY <1>4 DEF LedsInv, Typed
<1>6. Bus'
  BY <1>4, BusKept DEF LedsInv, Bus, Idle, Threads
<1>7. Events'
  BY DEF Events
<1>8. Toggles' /\ Undisturbed' /\ Dark'
  BY <1>4 DEF LedsInv, Toggles, Undisturbed, Dark, Course, Toggling
<1>9. Chips'
  <2>1. Alone("hub")'
    BY <1>1, <1>4 DEF Alone
  <2>2. bus' # "hub"
    BY DEF LedsInv, Bus, Idle, Threads
  <2>3. ASSUME NEW d \in Drivers
        PROVE  /\ ShutDown(d)' => wrapped'
               /\ ~Past("hub", d)'
               /\ ShutDown(d)' \/ current' <= Gcr(d)' + 1
    <3>1. Gcr(d)' = Gcr(d) /\ (ShutDown(d)' <=> ShutDown(d)) /\ Fits(d)
      BY <1>1 DEF Gcr, ShutDown, Settled
    <3>2. ~Past("hub", d)'
      BY <2>2 DEF Past
    <3> QED
      BY <1>4, <3>1, <3>2 DEF Fits
  <2>4. Ramping'
    BY <1>4, <2>1, <2>3 DEF Ramping
  <2> QED
    BY <2>4 DEF Chips
<1> QED
  BY <1>5, <1>6, <1>7, <1>8, <1>9 DEF LedsInv

LEMMA EventIgnored ==
  ASSUME LedsInv, queue' = <<>>, UNCHANGED <<todo, levelVars, converting, irq>>,
         UNCHANGED <<threadVars, low, busVars, chipVars, colorVars, raceVars>>
  PROVE  LedsInv'
<1> USE DEF threadVars, levelVars, busVars, chipVars, colorVars, raceVars, LedsInv
<1>1. Typed'
  BY DEF Typed
<1>2. Bus'
  BY BusKept
<1>3. Events' /\ Toggles' /\ Undisturbed'
  BY DEF Events, Toggles, Undisturbed, Idle
<1>4. Chips'
  BY ChipsKept DEF Past
<1>5. Dark'
  BY DarkKept DEF Toggling
<1> QED
  BY <1>1, <1>2, <1>3, <1>4, <1>5

LEMMA LowerKeeps ==
  ASSUME LedsInv, Lower
  PROVE  LedsInv'
<1>1. /\ todo["hub"] = <<>> /\ queue = <<"lower">> /\ queue' = <<>>
      /\ UNCHANGED <<threadVars, low, busVars, chipVars, colorVars, raceVars>>
  <2>1. queue # <<>> /\ Head(queue) = "lower" /\ queue' = Tail(queue)
    BY DEF Lower, Getting
  <2>2. queue = <<"lower">> /\ Tail(queue) = <<>>
    BY <2>1, Singles DEF LedsInv, Events
  <2> QED
    BY <2>1, <2>2 DEF Lower, Getting, Idle
<1>2. todo["main"] \notin BusyCalls
  BY <1>1, Singles DEF LedsInv, Undisturbed
<1>3. Settled /\ Alone("hub")
  BY <1>1, <1>2, HubFree
<1>4. CASE enabled
  <2> DEFINE gcr == (current - 1) % (TopGcr + 1)
  <2>1. current \in 0 .. TopGcr /\ gcr \in 0 .. TopGcr
        /\ gcr = IF current = 0 THEN TopGcr ELSE current - 1
    <3>1. current \in 0 .. TopGcr
      BY DEF LedsInv, Typed
    <3>2. CASE current = 0
      <4>1. (TopGcr - (TopGcr + 1)) % (TopGcr + 1) = TopGcr
        BY Sizes
      <4> QED
        BY <3>2, <4>1, Sizes
    <3>3. CASE current # 0
      BY <3>1, <3>3, Sizes
    <3> QED
      BY <3>1, <3>2, <3>3
  <2>2. Change(gcr, current = 0, IF gcr = 0 THEN <<SetGcr(gcr), SetSsdLock(TRUE)>>
                                 ELSE <<SetGcr(gcr)>>)
    BY <1>4 DEF Lower
  <2> HIDE DEF gcr
  <2>3. CASE gcr # 0
    <3>1. Change(gcr, current = 0, <<SetGcr(gcr)>>)
      BY <2>2, <2>3
    <3>2. current # 0 => \A d \in Drivers : gcr <= Gcr(d) + 1
      BY <1>3, <2>1 DEF Settled, Fits
    <3> QED
      BY <1>1, <1>2, <1>4, <2>1, <2>3, <3>1, <3>2, RampKeeps
  <2>4. CASE gcr = 0
    <3>1. Change(0, current = 0, <<SetGcr(0), SetSsdLock(TRUE)>>)
      BY <2>2, <2>4
    <3>2. <<SetGcr(0), SetSsdLock(TRUE)>> \o <<EnableIrq>> = DimCalls("hub")
      BY JoinTwo DEF DimCalls
    <3>3. DimCalls("hub") \in Seq(CallSet)
      <4>1. SetGcr(0) \in CallSet /\ SetSsdLock(TRUE) \in CallSet /\ EnableIrq \in CallSet
        BY Sizes DEF CallSet, SetGcr, SetSsdLock, Call
      <4> QED
        BY <4>1, SeqOfFour DEF DimCalls
    <3>4. /\ irq' = FALSE /\ current' = 0
          /\ todo'["hub"] = DimCalls("hub") /\ todo'["main"] = todo["main"]
          /\ UNCHANGED <<enabled, converting>>
          /\ todo' \in [Threads -> Seq(CallSet)]
      BY <3>1, <3>2, <3>3, Changes
    <3>5. Typed'
      BY <1>1, <3>4, Sizes DEF LedsInv, Typed, threadVars, busVars, chipVars, colorVars
    <3>6. Bus'
      BY <1>1, <3>4, BusKept DEF LedsInv, Bus, Idle, Threads, busVars, chipVars
    <3>7. Events'
      BY <1>1, <3>4 DEF Events
    <3>8. Toggles' /\ Undisturbed' /\ Dark'
      BY <1>1, <1>2, <3>4
         DEF LedsInv, Toggles, Undisturbed, Dark, Course, Toggling, threadVars, raceVars
    <3>9. Dimming("hub")'
      <4>1. Alone("hub")'
        BY <1>3, <3>4 DEF Alone
      <4>2. bus' # "hub"
        BY <1>1 DEF LedsInv, Bus, Idle, Threads, busVars
      <4> QED
        BY <3>4, <4>1, <4>2 DEF Dimming, Past
    <3> QED
      BY <3>5, <3>6, <3>7, <3>8, <3>9 DEF LedsInv, Chips, Threads
  <2> QED
    BY <2>3, <2>4
<1>5. CASE ~enabled
  BY <1>1, <1>5, EventIgnored DEF Lower
<1> QED
  BY <1>4, <1>5

LEMMA RaiseKeeps ==
  ASSUME LedsInv, Raise
  PROVE  LedsInv'
<1>1. /\ todo["hub"] = <<>> /\ queue = <<"raise">> /\ queue' = <<>>
      /\ UNCHANGED <<threadVars, low, busVars, chipVars, colorVars, raceVars>>
  <2>1. queue # <<>> /\ Head(queue) = "raise" /\ queue' = Tail(queue)
    BY DEF Raise, Getting
  <2>2. queue = <<"raise">> /\ Tail(queue) = <<>>
    BY <2>1, Singles DEF LedsInv, Events
  <2> QED
    BY <2>1, <2>2 DEF Raise, Getting, Idle
<1>2. todo["main"] \notin BusyCalls
  BY <1>1, Singles DEF LedsInv, Undisturbed
<1>3. Settled /\ Alone("hub")
  BY <1>1, <1>2, HubFree
<1>4. CASE enabled
  <2> DEFINE gcr == (current + 1) % (TopGcr + 1)
  <2>1. current \in 0 .. TopGcr /\ gcr \in 0 .. TopGcr /\ gcr = current + 1
    <3>1. current \in 0 .. TopGcr /\ current < MaxGcr
      BY <1>1 DEF LedsInv, Typed, Events
    <3> QED
      BY <3>1, Sizes
  <2>2. Change(gcr, FALSE, IF current = 0 THEN <<SetSsdLock(FALSE), SetGcr(gcr)>>
                           ELSE <<SetGcr(gcr)>>)
    BY <1>4 DEF Raise
  <2> HIDE DEF gcr
  <2>3. CASE current # 0
    <3>1. Change(gcr, FALSE, <<SetGcr(gcr)>>)
      BY <2>2, <2>3
    <3>2. \A d \in Drivers : gcr <= Gcr(d) + 1
      BY <1>3, <2>1 DEF Settled, Fits
    <3>3. gcr # 0
      BY <2>1
    <3> QED
      BY <1>1, <1>2, <1>4, <2>1, <2>3, <3>1, <3>2, <3>3, RampKeeps
  <2>4. CASE current = 0
    <3>1. Change(1, FALSE, <<SetSsdLock(FALSE), SetGcr(1)>>)
      <4>1. gcr = 1
        BY <2>1, <2>4
      <4> QED
        BY <2>2, <2>4, <4>1
    <3>2. <<SetSsdLock(FALSE), SetGcr(1)>> \o <<EnableIrq>> = LightCalls
      BY JoinTwo DEF LightCalls
    <3>3. LightCalls \in Seq(CallSet)
      <4>1. SetGcr(1) \in CallSet /\ SetSsdLock(FALSE) \in CallSet /\ EnableIrq \in CallSet
        BY Sizes DEF CallSet, SetGcr, SetSsdLock, Call
      <4> QED
        BY <4>1, SeqOfFour DEF LightCalls
    <3>4. /\ irq' = FALSE /\ current' = 1
          /\ todo'["hub"] = LightCalls /\ todo'["main"] = todo["main"]
          /\ UNCHANGED <<enabled, converting>>
          /\ todo' \in [Threads -> Seq(CallSet)]
      BY <3>1, <3>2, <3>3, Changes
    <3>5. Typed'
      BY <1>1, <3>4, Sizes DEF LedsInv, Typed, threadVars, busVars, chipVars, colorVars
    <3>6. Bus'
      BY <1>1, <3>4, BusKept DEF LedsInv, Bus, Idle, Threads, busVars, chipVars
    <3>7. Events'
      BY <1>1, <3>4 DEF Events
    <3>8. Toggles' /\ Undisturbed' /\ Dark'
      BY <1>1, <1>2, <1>4, <3>4
         DEF LedsInv, Toggles, Undisturbed, Dark, Course, Toggling, threadVars, raceVars
    <3>9. Lighting'
      <4>1. Alone("hub")'
        BY <1>3, <3>4 DEF Alone
      <4>2. bus' # "hub"
        BY <1>1 DEF LedsInv, Bus, Idle, Threads, busVars
      <4>3. \A d \in Drivers : Gcr(d)' = 0
        BY <1>1, <1>3, <2>4 DEF Settled, Fits, Gcr, chipVars
      <4> QED
        BY <3>4, <4>1, <4>2, <4>3 DEF Lighting, Past
    <3> QED
      BY <3>5, <3>6, <3>7, <3>8, <3>9 DEF LedsInv, Chips
  <2> QED
    BY <2>3, <2>4
<1>5. CASE ~enabled
  BY <1>1, <1>5, EventIgnored DEF Raise
<1> QED
  BY <1>4, <1>5

-----------------------------------------------------------------------------
(* A chip is written to.                                                   *)

\* The write lands in the page it is meant for.
LEMMA WriteLands ==
  ASSUME LedsInv, NEW t \in Threads, WriteChip(t)
  PROVE  LET p == PageOf(Calling(t)) IN
         /\ next \in Drivers /\ next' = next + 1 /\ p \in Pages
         /\ selected' = [selected EXCEPT ![next] = p] /\ page' = selected'
         /\ regs' = [regs EXCEPT ![next][p] =
                       [r \in Registers |-> IF r \in DOMAIN Data(Calling(t), next)
                                            THEN Data(Calling(t), next)[r] ELSE @[r]]]
<1> DEFINE p == PageOf(Calling(t))
<1>1. next \in Drivers /\ next' = next + 1
  BY Sizes DEF WriteChip, Writes, LedsInv, Typed, Drivers
<1>2. p \in Pages
  BY DEF PageOf, Pages
<1>3. page = selected
  BY DEF LedsInv, Bus
<1>4. Selects(next, p) = p
  BY <1>3 DEF Selects
<1>5. /\ page' = [page EXCEPT ![next] = p]
      /\ Stores(next, p, Data(Calling(t), next))
  BY <1>4 DEF WriteChip, Writes
<1> HIDE DEF p
<1> QED
  BY <1>1, <1>2, <1>3, <1>5 DEF Stores, p

LEMMA CallTyped ==
  ASSUME LedsInv, NEW t \in Threads, ~Idle(t)
  PROVE  Calling(t).to \in {"gcr", "ssd"} => Calling(t).value \in Nat
<1>1. Calling(t) \in CallSet
  BY DEF LedsInv, Typed, Idle, Calling
<1> QED
  BY <1>1, Fields, Sizes DEF CallSet

LEMMA DataTyped ==
  ASSUME LedsInv, NEW t \in Threads, NEW d \in Drivers, NEW r \in Registers,
         ~Idle(t), Calling(t).to \in OnBus, r \in DOMAIN Data(Calling(t), d)
  PROVE  Data(Calling(t), d)[r] \in Nat
<1>1. CASE Calling(t).to = "pwm"
  BY <1>1 DEF Data, LedsInv, Typed
<1>2. CASE Calling(t).to # "pwm"
  BY <1>2, CallTyped DEF Data, OnBus
<1> QED
  BY <1>1, <1>2

LEMMA WriteTyped ==
  ASSUME LedsInv, NEW t \in Threads, WriteChip(t)
  PROVE  Typed'
<1> DEFINE p == PageOf(Calling(t))
           data == Data(Calling(t), next)
           row == [r \in Registers |-> IF r \in DOMAIN data THEN data[r] ELSE regs[next][p][r]]
<1>1. /\ next \in Drivers /\ next' = next + 1 /\ p \in Pages
      /\ selected' = [selected EXCEPT ![next] = p] /\ page' = selected'
      /\ regs' = [regs EXCEPT ![next][p] = row]
  BY WriteLands DEF LedsInv, Typed
<1>2. ~Idle(t) /\ Calling(t).to \in OnBus
  BY DEF WriteChip, Writes, Calls
<1>3. row \in [Registers -> Nat]
  <2>1. regs[next][p] \in [Registers -> Nat]
    BY <1>1 DEF LedsInv, Typed
  <2>2. \A r \in Registers : r \in DOMAIN data => data[r] \in Nat
    BY <1>1, <1>2, DataTyped
  <2> HIDE DEF data, p
  <2> QED
    BY <2>1, <2>2
<1> HIDE DEF row, p, data
<1>4. regs' \in [Drivers -> [Pages -> [Registers -> Nat]]]
  BY <1>1, <1>3 DEF LedsInv, Typed
<1>5. dirty' \in [Drivers -> SUBSET Registers]
  BY <1>1 DEF WriteChip, Writes, LedsInv, Typed
<1>6. next' \in 0 .. DriverCount
  BY <1>1, Sizes DEF Drivers
<1>7. page' \in [Drivers -> Pages] /\ selected' \in [Drivers -> Pages]
  BY <1>1 DEF LedsInv, Typed
<1>8. UNCHANGED <<todo, signals, current, bus, pwm>>
  BY DEF WriteChip, Writes, threadVars, gcrVars, levelVars
<1> QED
  BY <1>4, <1>5, <1>6, <1>7, <1>8 DEF LedsInv, Typed

\* What it does to the current and to the shutdown bit of a chip.
LEMMA WriteEffect ==
  ASSUME LedsInv, NEW t \in Threads, WriteChip(t), NEW d \in Drivers
  PROVE  /\ Gcr(d)' = IF d = next /\ Calling(t).to = "gcr" THEN Calling(t).value ELSE Gcr(d)
         /\ ShutDown(d)' <=> IF d = next /\ Calling(t).to = "ssd"
                             THEN Calling(t).value = 0 ELSE ShutDown(d)
         /\ Past(t, d)' <=> Past(t, d) \/ d = next
         /\ \A u \in Threads \ {t} : ~Past(u, d)'
<1> DEFINE p == PageOf(Calling(t))
           data == Data(Calling(t), next)
           row == [r \in Registers |-> IF r \in DOMAIN data THEN data[r] ELSE regs[next][p][r]]
<1>1. /\ next \in Drivers /\ next' = next + 1 /\ p \in Pages
      /\ regs' = [regs EXCEPT ![next][p] = row]
  BY WriteLands DEF LedsInv, Typed
<1>2. Calling(t).to \in OnBus /\ bus = t /\ bus' = t
  BY DEF WriteChip, Writes, Calls
<1>3. (Past(t, d)' <=> Past(t, d) \/ d = next) /\ \A u \in Threads \ {t} : ~Past(u, d)'
  BY <1>1, <1>2, Sizes DEF Past, Drivers
<1>4. "function" \in Pages /\ GlobalCurrent \in Registers /\ Configuration \in Registers
      /\ GlobalCurrent # Configuration
  BY Sizes DEF Pages
<1>5. regs'[d]["function"] = IF d = next /\ p = "function" THEN row ELSE regs[d]["function"]
  <2> HIDE DEF row, p
  <2> QED
    BY <1>1, <1>4 DEF LedsInv, Typed
<1>6. CASE d # next
  BY <1>3, <1>5, <1>6 DEF Gcr, ShutDown
<1>7. CASE d = next /\ Calling(t).to = "pwm"
  BY <1>3, <1>5, <1>7 DEF PageOf, Gcr, ShutDown
<1>8. CASE d = next /\ Calling(t).to = "gcr"
  <2>1. p = "function" /\ data = [r \in {GlobalCurrent} |-> Calling(t).value]
    BY <1>8 DEF PageOf, Data
  <2>2. regs'[d]["function"] = row
    BY <1>5, <1>8, <2>1
  <2>3. row[GlobalCurrent] = Calling(t).value /\ row[Configuration] = regs[d]["function"][Configuration]
    BY <1>4, <1>8, <2>1
  <2> QED
    BY <1>3, <1>8, <2>2, <2>3 DEF Gcr, ShutDown
<1>9. CASE d = next /\ Calling(t).to = "ssd"
  <2>1. p = "function" /\ data = [r \in {Configuration} |-> Calling(t).value]
    BY <1>9 DEF PageOf, Data
  <2>2. regs'[d]["function"] = row
    BY <1>5, <1>9, <2>1
  <2>3. row[Configuration] = Calling(t).value /\ row[GlobalCurrent] = regs[d]["function"][GlobalCurrent]
    BY <1>4, <1>9, <2>1
  <2> QED
    BY <1>3, <1>9, <2>2, <2>3 DEF Gcr, ShutDown
<1> QED
  BY <1>2, <1>6, <1>7, <1>8, <1>9 DEF OnBus

\* The chips and their current, in one step of the bus.
Steady(d) == Gcr(d)' = Gcr(d) /\ (ShutDown(d)' <=> ShutDown(d))
Soft(d)   == Lit(d)' <= Lit(d) + 1

LEMMA SteadyIsSoft ==
  ASSUME Typed, NEW d \in Drivers, Steady(d)
  PROVE  Soft(d)
<1>1. Gcr(d) \in Nat
  BY Sizes DEF Typed, Gcr, Pages
<1> QED
  BY <1>1 DEF Steady, Soft, Lit, Gcr

LEMMA WriteChips ==
  ASSUME LedsInv, NEW t \in Threads, WriteChip(t)
  PROVE  Chips' /\ \A d \in Drivers : Soft(d)
<1> DEFINE call == Calling(t)
<1>1. ~Idle(t) /\ call.to \in OnBus /\ call = Head(todo[t]) /\ todo[t] # <<>>
  BY DEF WriteChip, Writes, Calls, Idle, Calling
<1>2. UNCHANGED <<todo, current, wrapped>>
  BY DEF WriteChip, Writes, gcrVars, levelVars
<1>3. \A d \in Drivers :
        /\ Gcr(d)' = IF d = next /\ call.to = "gcr" THEN call.value ELSE Gcr(d)
        /\ ShutDown(d)' <=> IF d = next /\ call.to = "ssd" THEN call.value = 0 ELSE ShutDown(d)
        /\ Past(t, d)' <=> Past(t, d) \/ d = next
        /\ \A u \in Threads \ {t} : ~Past(u, d)'
  BY WriteEffect
<1>4. \A d \in Drivers : Gcr(d) \in Nat /\ current \in Nat
  BY Sizes DEF LedsInv, Typed, Gcr, Pages
<1> HIDE DEF call
<1>6. CASE t = "main" /\ todo["main"] \in CalmCalls
  <2>1. call.to = "pwm"
    BY <1>1, <1>6, CalmHead DEF OnBus
  <2>2. \A d \in Drivers : Steady(d)
    BY <1>3, <2>1 DEF Steady
  <2>3. \A d \in Drivers : Soft(d)
    BY <2>2, SteadyIsSoft DEF LedsInv
  <2>4. CASE Settled
    <3>1. Settled'
      BY <1>2, <2>2, <2>4 DEF Settled, Fits, Steady
    <3> QED
      BY <2>3, <3>1 DEF Chips
  <2>5. CASE Ramping
    <3>1. Ramping'
      BY <1>2, <1>3, <1>6, <2>2, <2>5 DEF Ramping, Steady, Alone, Threads
    <3> QED
      BY <2>3, <3>1 DEF Chips
  <2>6. CASE Lighting
    <3>1. Lighting'
      BY <1>2, <1>3, <1>6, <2>2, <2>6 DEF Lighting, Steady, Alone, Threads
    <3> QED
      BY <2>3, <3>1 DEF Chips
  <2>7. CASE Dimming("hub")
    <3>1. Dimming("hub")'
      BY <1>2, <1>3, <1>6, <2>7 DEF Dimming, Alone, Threads
    <3> QED
      BY <2>3, <3>1 DEF Chips, Threads
  <2>8. CASE Locking("hub")
    <3>1. Locking("hub")'
      BY <1>2, <1>3, <1>6, <2>2, <2>8 DEF Locking, Steady, Alone, Threads
    <3> QED
      BY <2>3, <3>1 DEF Chips, Threads
  <2>9. ~Dimming("main") /\ ~Locking("main")
    BY <1>6, BusyShape DEF Dimming, Locking, BusyCalls
  <2> QED
    BY <2>4, <2>5, <2>6, <2>7, <2>8, <2>9 DEF LedsInv, Chips, Threads
<1>7. CASE t = "hub" \/ todo["main"] \notin CalmCalls
  <2>1. ~Settled
    BY <1>1, <1>7, RestShape, Fields DEF Settled, OnBus, Threads
  <2>2. t = "hub" => ~Dimming("main") /\ ~Locking("main")
    BY <1>1 DEF Dimming, Locking, Alone
  <2>3. t = "main" => ~Ramping /\ ~Lighting /\ ~Dimming("hub") /\ ~Locking("hub")
    BY <1>7 DEF Ramping, Lighting, Dimming, Locking, Alone
  <2>4. CASE t = "hub" /\ Ramping
    <3>1. call.to = "gcr" /\ call.value = current
      BY <1>1, <2>4, RampShape, Fields DEF Ramping
    <3>2. Ramping'
      BY <1>2, <1>3, <1>4, <2>4, <3>1 DEF Ramping, Alone
    <3>3. \A d \in Drivers : Soft(d)
      <4> TAKE d \in Drivers
      <4>1. CASE d = next
        <5>1. Gcr(d)' = current /\ (ShutDown(d)' <=> ShutDown(d))
          BY <1>3, <3>1, <4>1
        <5>2. ShutDown(d) \/ current <= Gcr(d) + 1
          BY <2>4 DEF Ramping
        <5> QED
          BY <1>4, <5>1, <5>2 DEF Soft, Lit, Gcr
      <4>2. CASE d # next
        BY <1>3, <4>2, SteadyIsSoft DEF Steady, LedsInv
      <4> QED
        BY <4>1, <4>2
    <3> QED
      BY <3>2, <3>3 DEF Chips
  <2>5. CASE t = "hub" /\ Lighting
    <3>1. call.to = "ssd" /\ call.value = 1
      BY <1>1, <2>5, LightShape, Fields DEF Lighting
    <3>2. Lighting'
      BY <1>2, <1>3, <2>5, <3>1 DEF Lighting, Alone
    <3>3. \A d \in Drivers : Soft(d)
      <4> TAKE d \in Drivers
      <4>1. Gcr(d)' = 0 /\ Gcr(d) = 0
        BY <1>3, <2>5, <3>1 DEF Lighting
      <4> QED
        BY <4>1 DEF Soft, Lit, Gcr
    <3> QED
      BY <3>2, <3>3 DEF Chips
  <2>6. CASE Dimming(t)
    <3>1. call.to = "gcr" /\ call.value = 0
      BY <1>1, <2>6, DimShape, Fields DEF Dimming
    <3>2. Dimming(t)'
      BY <1>2, <1>3, <2>6, <3>1 DEF Dimming, Alone
    <3>3. \A d \in Drivers : Soft(d)
      <4> TAKE d \in Drivers
      <4>1. CASE d = next
        <5>1. Gcr(d)' = 0
          BY <1>3, <3>1, <4>1
        <5> QED
          BY <1>4, <5>1 DEF Soft, Lit, Gcr
      <4>2. CASE d # next
        BY <1>3, <4>2, SteadyIsSoft DEF Steady, LedsInv
      <4> QED
        BY <4>1, <4>2
    <3> QED
      BY <3>2, <3>3 DEF Chips
  <2>7. CASE Locking(t)
    <3>1. call.to = "ssd" /\ call.value = 0
      BY <1>1, <2>7, LockShape, Fields DEF Locking
    <3>2. Locking(t)'
      BY <1>2, <1>3, <2>7, <3>1 DEF Locking, Alone
    <3>3. \A d \in Drivers : Soft(d)
      <4> TAKE d \in Drivers
      <4>1. Gcr(d)' = 0 /\ Gcr(d) = 0
        BY <1>3, <2>7, <3>1 DEF Locking
      <4> QED
        BY <4>1 DEF Soft, Lit, Gcr
    <3> QED
      BY <3>2, <3>3 DEF Chips
  <2> QED
    BY <2>1, <2>2, <2>3, <2>4, <2>5, <2>6, <2>7 DEF LedsInv, Chips, Threads
<1> QED
  BY <1>6, <1>7 DEF Threads

LEMMA WriteKeeps ==
  ASSUME LedsInv, NEW t \in Threads, WriteChip(t)
  PROVE  LedsInv'
<1>1. Typed'
  BY WriteTyped
<1>2. UNCHANGED <<threadVars, queue, todo, gcrVars, bus, raceVars>>
  BY DEF WriteChip, Writes
<1> USE DEF threadVars, gcrVars, levelVars, raceVars
<1>3. Bus'
  BY <1>2, WriteLands DEF LedsInv, Bus, Idle, Calling
<1>4. Events' /\ Toggles' /\ Undisturbed'
  BY <1>2 DEF LedsInv, Events, Toggles, Undisturbed, Idle
<1>5. Chips'
  BY WriteChips
<1>6. Dark'
  BY <1>2, DarkKept DEF LedsInv, Toggling
<1> QED
  BY <1>1, <1>3, <1>4, <1>5, <1>6 DEF LedsInv

-----------------------------------------------------------------------------
(* The theorems.                                                           *)

\* The actions, one by one.
LEMMA Actions ==
  ASSUME Next
  PROVE  \/ \E t \in Threads : AcquireBus(t) \/ ReleaseBus(t) \/ WriteChip(t) \/ UnlockAdc(t)
         \/ Measure \/ Lower \/ Raise \/ Suspend \/ Resume
         \/ ChangeMode \/ EnterDfu \/ LeaveDfu \/ Refresh
         \/ \E d \in Drivers, g \in Registers, c \in Colors :
              g + 2 * CsLines \in Registers /\ SetColor(d, g, c)
         \/ Tick \/ Report \/ Supply \/ \E f \in {"suspend", "resume"} : Signal(f)
<1>1. CASE Hub
  BY <1>1 DEF Hub, Goes, Threads
<1>2. CASE Main
  BY <1>2 DEF Main, Goes, Threads
<1>3. CASE Environment
  BY <1>3 DEF Environment
<1> QED
  BY <1>1, <1>2, <1>3 DEF Next

LEMMA LedsInvNext == LedsInv /\ [Next]_vars => LedsInv'
<1> SUFFICES ASSUME LedsInv, [Next]_vars PROVE LedsInv'
  OBVIOUS
<1>1. CASE UNCHANGED vars
  <2> USE <1>1 DEF vars, threadVars, gcrVars, levelVars, busVars, chipVars, colorVars,
                   raceVars, LedsInv
  <2>1. Typed'
    BY DEF Typed
  <2>2. Bus'
    BY BusKept
  <2>3. Events' /\ Toggles' /\ Undisturbed'
    BY DEF Events, Toggles, Undisturbed, Idle
  <2>4. Chips'
    BY ChipsKept DEF Past
  <2>5. Dark'
    BY DarkKept DEF Toggling
  <2> QED
    BY <2>1, <2>2, <2>3, <2>4, <2>5
<1>2. CASE Next
  BY <1>2, Actions, AcquireKeeps, ReleaseKeeps, WriteKeeps, UnlockKeeps, MeasureKeeps,
     LowerKeeps, RaiseKeeps, SuspendKeeps, ResumeKeeps, ChangeModeKeeps, EnterDfuKeeps,
     LeaveDfuKeeps, RefreshKeeps, SetColorKeeps, TickKeeps, ReportKeeps, SupplyKeeps, SignalKeeps
<1> QED
  BY <1>1, <1>2

LEMMA LedsInvHolds == Spec => []LedsInv
BY LedsInvInit, LedsInvNext, PTL DEF Spec

(* rgb_gcr.hpp:17: whenever no thread is in the middle of a change, every  *)
(* chip has the current m_current_gcr tells and is shut down exactly while *)
(* that is 0, except from a wrap of the uint8_t on.                        *)
THEOREM SsdFollowsGcrInvariant == Spec => []SsdFollowsGcr
<1>1. LedsInv => SsdFollowsGcr
  <2> SUFFICES ASSUME LedsInv, Quiet PROVE \A d \in Drivers : Fits(d)
    BY DEF SsdFollowsGcr, Fits, Gcr
  <2>1. todo["hub"] = <<>> /\ todo["main"] = <<>>
    BY DEF Quiet, Idle, Threads
  <2> QED
    BY <2>1, WhenSettled DEF LedsInv, CalmCalls, Settled
<1> QED
  BY <1>1, LedsInvHolds, PTL

(* config.hpp:57: the LEDs are dark while the bus is suspended and in DFU  *)
(* mode, unless a signal of the bus arrived in the middle of a toggle.     *)
THEOREM DarkInvariant == Spec => []DarkWhenOff
<1>1. LedsInv => DarkWhenOff
  <2> SUFFICES ASSUME LedsInv, Quiet, signals = {}, ~raced, mode = "dfu" \/ ~active,
                      NEW d \in Drivers
               PROVE  Lit(d) = 0
    BY DEF DarkWhenOff
  <2>1. todo["hub"] = <<>> /\ todo["main"] = <<>>
    BY DEF Quiet, Idle, Threads
  <2>2. Fits(d)
    BY <2>1, WhenSettled DEF LedsInv, CalmCalls, Settled
  <2>3. ~Toggling
    BY <2>1, ModeCalls DEF Toggling, HasMode
  <2>4. current = 0
    BY <2>3 DEF LedsInv, Dark, Course, Toggles
  <2> QED
    BY <2>2, <2>4 DEF Fits, Lit
<1> QED
  BY <1>1, LedsInvHolds, PTL

(* config.hpp:64: no LED is ever fed with more than one unit more at once, *)
(* not even when the current wraps to its largest value.                   *)
THEOREM SoftStartHolds == Spec => SoftStart
<1>1. LedsInv /\ [Next]_vars => [\A d \in Drivers : Lit(d)' <= Lit(d) + 1]_vars
  <2> SUFFICES ASSUME LedsInv, Next, NEW d \in Drivers
               PROVE  Soft(d)
    BY DEF Soft
  <2>1. CASE \E t \in Threads : WriteChip(t)
    BY <2>1, WriteChips
  <2>2. CASE \A t \in Threads : ~WriteChip(t)
    <3>1. regs' = regs
      BY <2>2, Actions
         DEF AcquireBus, ReleaseBus, UnlockAdc, Measure, Lower, Raise, Getting, Suspend, Resume,
             Handling, ChangeMode, EnterDfu, LeaveDfu, Refresh, SetColor, Tick, Report,
             Supply, Signal, chipVars
    <3> QED
      BY <3>1, SteadyIsSoft DEF Steady, Gcr, ShutDown, LedsInv
  <2> QED
    BY <2>1, <2>2
<1> QED
  BY <1>1, LedsInvHolds, PTL DEF Spec, SoftStart

(* Every marked register is in a block.  This is what a run checks of the  *)
(* algorithm for all marks on small chips (BlocksAreRuns): it is computed  *)
(* by folds, about which nothing can be proved here.                       *)
Covers == \A flags \in SUBSET Registers : flags \subseteq Covered(flags)

LEMMA ColorsNext ==
  ASSUME Covers, LedsInv, ColorsShown, [Next]_vars
  PROVE  ColorsShown'
<1>1. CASE \E t \in Threads : WriteChip(t)
  <2> PICK t \in Threads : WriteChip(t)
    BY <1>1
  <2> DEFINE p == PageOf(Calling(t))
             data == Data(Calling(t), next)
             row == [r \in Registers |-> IF r \in DOMAIN data THEN data[r] ELSE regs[next][p][r]]
  <2>1. /\ next \in Drivers /\ p \in Pages
        /\ regs' = [regs EXCEPT ![next][p] = row]
    BY WriteLands DEF LedsInv, Typed
  <2>2. pwm' = pwm /\ dirty' = IF p = "pwm" THEN [dirty EXCEPT ![next] = {}] ELSE dirty
    BY DEF WriteChip, Writes
  <2> SUFFICES ASSUME NEW d \in Drivers, NEW r \in Registers \ dirty'[d]
               PROVE  regs'[d]["pwm"][r] = pwm[d][r]
    BY <2>2 DEF ColorsShown
  <2>3. CASE d # next \/ p # "pwm"
    <3>1. regs'[d]["pwm"] = regs[d]["pwm"]
      <4> HIDE DEF row, p
      <4> QED
        BY <2>1, <2>3 DEF LedsInv, Typed
    <3>2. dirty'[d] = dirty[d]
      BY <2>1, <2>2, <2>3 DEF LedsInv, Typed
    <3> QED
      BY <3>1, <3>2 DEF ColorsShown
  <2>4. CASE d = next /\ p = "pwm"
    <3>1. data = [s \in Covered(dirty[d]) |-> pwm[d][s]]
      BY <2>4 DEF PageOf, Data
    <3>2. regs'[d]["pwm"] = row
      <4> HIDE DEF row, p
      <4> QED
        BY <2>1, <2>4 DEF LedsInv, Typed
    <3>3. CASE r \in Covered(dirty[d])
      BY <2>4, <3>1, <3>2, <3>3
    <3>4. CASE r \notin Covered(dirty[d])
      <4>1. r \notin dirty[d]
        BY <3>4 DEF Covers, LedsInv, Typed
      <4>2. row[r] = regs[d]["pwm"][r]
        BY <2>4, <3>1, <3>4
      <4> QED
        BY <3>2, <4>1, <4>2 DEF ColorsShown
    <3> QED
      BY <3>3, <3>4
  <2> QED
    BY <2>3, <2>4
<1>2. CASE \E d \in Drivers, g \in Registers, c \in Colors : SetColor(d, g, c)
  <2> PICK d \in Drivers, g \in Registers, c \in Colors : SetColor(d, g, c)
    BY <1>2
  <2> DEFINE led == LedRegisters(g)
             lit == [r \in Registers |->
                       IF \E i \in 1 .. 3 : led[i] = r
                       THEN c[CHOOSE i \in 1 .. 3 : led[i] = r] ELSE pwm[d][r]]
  <2>1. /\ regs' = regs /\ pwm' = [pwm EXCEPT ![d] = lit]
        /\ dirty' = [dirty EXCEPT ![d] = @ \cup {r \in Registers : lit[r] # pwm[d][r]}]
    BY DEF SetColor, chipVars
  <2> HIDE DEF lit
  <2> SUFFICES ASSUME NEW e \in Drivers, NEW r \in Registers \ dirty'[e]
               PROVE  regs[e]["pwm"][r] = pwm'[e][r]
    BY <2>1 DEF ColorsShown
  <2>2. r \notin dirty[e] /\ pwm'[e][r] = pwm[e][r]
    BY <2>1 DEF LedsInv, Typed
  <2> QED
    BY <2>2 DEF ColorsShown
<1>3. CASE UNCHANGED <<regs, pwm, dirty>>
  BY <1>3 DEF ColorsShown
<1>4. ASSUME \A t \in Threads : ~WriteChip(t),
             \A d \in Drivers, g \in Registers, c \in Colors : ~SetColor(d, g, c)
      PROVE  UNCHANGED <<regs, pwm, dirty>>
  <2>1. CASE Next
    BY <1>4, <2>1, Actions
       DEF AcquireBus, ReleaseBus, UnlockAdc, Measure, Lower, Raise, Getting, Suspend, Resume,
           Handling, ChangeMode, EnterDfu, LeaveDfu, Refresh, Tick, Report,
           Supply, Signal, chipVars, colorVars
  <2>2. CASE UNCHANGED vars
    BY <2>2 DEF vars, chipVars, colorVars
  <2> QED
    BY <2>1, <2>2
<1> QED
  BY <1>1, <1>2, <1>3, <1>4

(* The chips show every colour that is not marked for the next refresh,    *)
(* however the transfers of the two threads alternate: none lands in the   *)
(* wrong page, and no mark is lost.                                        *)
THEOREM ColorsInvariant ==
  ASSUME Covers
  PROVE  Spec => []ColorsShown
<1>1. Init => ColorsShown
  BY DEF Init, ColorsShown, Pages
<1>2. LedsInv /\ ColorsShown /\ [Next]_vars => ColorsShown'
  BY ColorsNext
<1> QED
  BY <1>1, <1>2, LedsInvHolds, PTL DEF Spec

=============================================================================
