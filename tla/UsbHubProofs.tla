--------------------------- MODULE UsbHubProofs ---------------------------
(***************************************************************************)
(* Proofs about UsbHub: what holds between two handlers, derived from what *)
(* holds between any two steps of a transition; and that a thread that has *)
(* settled agrees with the bus and with the LEDs.                          *)
(***************************************************************************)
EXTENDS UsbHub, TLAPS

---------------------------------------------------------------------------
(* The inductive invariant. *)

\* What may follow begin() of a state within the same handler.
Targets == States \ {"determine_host"}
Follow  == [perform_switchover |-> "usb_suspend", set_panic |-> "extra_disabled",
            set_manual |-> "extra_enabled"]

\* What can be left of a handler.
Shape(t) ==
  \/ t = <<>>
  \/ \E s \in Targets : t = <<"end", s>> \/ t = <<s>>
  \/ \E x \in {"perform_switchover", "set_panic", "set_manual"} :
       t = <<"end", Follow[x], x>> \/ t = <<Follow[x], x>> \/ t = <<x>>
  \/ t = <<"swap">>

\* end() of the old state is done and begin() of the new one is not.
Between(t) == t # <<>> /\ Head(t) \in States

Typed ==
  /\ state \in States /\ host \in Ports
  /\ periodic \subseteq Ports /\ vbus \subseteq Ports /\ mux \in Ports
  /\ Shape(todo)

\* v_host lags behind the port selected exactly while a switchover is half done, ...
HalfDone == mux # host <=> todo = <<"swap">>

\* ... which no state is that asks about v_extra in its interrupt.
HalfDoneUnasked == todo = <<"swap">> => state \in {"determine_host", "usb_suspend"}

\* perform_switchover() is called on the state that transition_to() returned.
SwitchoverSuspended ==
  todo # <<>> /\ Head(todo) = "perform_switchover" => state = "usb_suspend"

MeasuredBetween ==
  Between(todo) => host \notin periodic /\ extra \in periodic

MeasuredWithin ==
  ~Between(todo) /\ state # "determine_host" =>
    /\ host \notin periodic
    /\ extra \in periodic <=> state \in Extra

PoweredWithin ==
  ~Between(todo) =>
    /\ state = "extra_enabled" => extra \in vbus
    /\ state = "extra_disabled" => extra \notin vbus

HubInv ==
  /\ Typed /\ HalfDone /\ HalfDoneUnasked /\ SwitchoverSuspended
  /\ MeasuredBetween /\ MeasuredWithin /\ PoweredWithin

\* What HubInv is about.
hubVars == <<state, host, todo, periodic, mux, vbus>>

---------------------------------------------------------------------------
(* Lemmas. *)

\* The two ports are each other's opposite.
LEMMA OtherPort ==
  ASSUME NEW p \in Ports
  PROVE  Other(p) \in Ports /\ Other(p) # p /\ Other(Other(p)) = p
<1>1. \A q \in Ports : \E r \in Ports : r # q
  BY DEF Ports
<1>2. \A q \in Ports : Other(q) \in Ports /\ Other(q) # q
  BY <1>1 DEF Other
<1> QED
  BY <1>2 DEF Ports

\* Every handler leaves a sequence of the expected shape, with end() first.
LEMMA NewShape ==
  /\ Shape(<<>>)
  /\ \A s \in Targets : LET t == TransitionTo(s) IN
       Shape(t) /\ t # <<>> /\ Head(t) = "end"
  /\ \A x \in {"perform_switchover", "set_panic", "set_manual"} :
       LET t == TransitionThen(Follow[x], x) IN
       Shape(t) /\ t # <<>> /\ Head(t) = "end"
<1>1. Shape(<<>>)
  BY DEF Shape
<1>2. ASSUME NEW s \in Targets
      PROVE  LET t == TransitionTo(s) IN Shape(t) /\ t # <<>> /\ Head(t) = "end"
  BY DEF TransitionTo, Shape
<1>3. ASSUME NEW x \in {"perform_switchover", "set_panic", "set_manual"}
      PROVE  LET t == TransitionThen(Follow[x], x) IN
             Shape(t) /\ t # <<>> /\ Head(t) = "end"
  BY DEF TransitionThen, Shape
<1> QED
  BY <1>1, <1>2, <1>3

\* What a step of a handler leaves of it.
LEMMA RestOfShape ==
  ASSUME NEW t, Shape(t), t # <<>>
  PROVE  /\ Shape(Tail(t))
         /\ Head(t) = "end" => Between(Tail(t))
         /\ Head(t) # "end" => ~Between(Tail(t))
         /\ Tail(t) # <<>> /\ Head(Tail(t)) = "perform_switchover"
              => Head(t) = "usb_suspend"
         /\ Tail(t) # <<"swap">>
         /\ \A x \in {"perform_switchover", "swap"} : Head(t) = x => t = <<x>>
<1>1. CASE \E s \in Targets : t = <<"end", s>> \/ t = <<s>>
  <2>1. PICK s \in Targets : t = <<"end", s>> \/ t = <<s>>
    BY <1>1
  <2>2. CASE t = <<"end", s>>
    <3>1. Head(t) = "end" /\ Tail(t) = <<s>> /\ Head(Tail(t)) = s
      BY <2>2
    <3>2. Tail(t) # <<"swap">>
      BY <3>1 DEF Targets, States
    <3> QED
      BY <3>1, <3>2 DEF Shape, Between, Targets, States
  <2>3. CASE t = <<s>>
    <3>1. Head(t) = s /\ Tail(t) = <<>>
      BY <2>3
    <3> QED
      BY <3>1 DEF Shape, Between, Targets, States
  <2> QED
    BY <2>1, <2>2, <2>3
<1>2. CASE \E x \in {"perform_switchover", "set_panic", "set_manual"} :
             t = <<"end", Follow[x], x>> \/ t = <<Follow[x], x>> \/ t = <<x>>
  <2>1. PICK x \in {"perform_switchover", "set_panic", "set_manual"} :
             t = <<"end", Follow[x], x>> \/ t = <<Follow[x], x>> \/ t = <<x>>
    BY <1>2
  <2>2. Follow[x] \in Targets /\ x \notin States /\ x # "end" /\ x # "swap"
        /\ Follow[x] \notin {"end", "swap", "perform_switchover"}
        /\ (x = "perform_switchover" => Follow[x] = "usb_suspend")
    BY DEF Follow, Targets, States
  <2>3. CASE t = <<"end", Follow[x], x>>
    <3>1. Head(t) = "end" /\ Tail(t) = <<Follow[x], x>> /\ Head(Tail(t)) = Follow[x]
      BY <2>3
    <3> QED
      BY <3>1, <2>2 DEF Shape, Between, Targets, States
  <2>4. CASE t = <<Follow[x], x>>
    <3>1. Head(t) = Follow[x] /\ Tail(t) = <<x>> /\ Head(Tail(t)) = x
      BY <2>4
    <3> QED
      BY <3>1, <2>2 DEF Shape, Between, Targets, States
  <2>5. CASE t = <<x>>
    <3>1. Head(t) = x /\ Tail(t) = <<>>
      BY <2>5
    <3> QED
      BY <3>1, <2>2 DEF Shape, Between, Targets, States
  <2> QED
    BY <2>1, <2>3, <2>4, <2>5
<1>3. CASE t = <<"swap">>
  <2>1. Head(t) = "swap" /\ Tail(t) = <<>>
    BY <1>3
  <2> QED
    BY <1>3, <2>1 DEF Shape, Between, States
<1> QED
  BY <1>1, <1>2, <1>3 DEF Shape

---------------------------------------------------------------------------
(* The steps. *)

\* Steps that touch nothing HubInv speaks of.
LEMMA KeepsHubInv ==
  HubInv /\ UNCHANGED hubVars => HubInv'
BY DEF HubInv, hubVars, Typed, HalfDone, HalfDoneUnasked, SwitchoverSuspended,
       MeasuredBetween, MeasuredWithin, PoweredWithin, Between, Shape, extra

\* Handlers that at most start a transition.
LEMMA StartsTransition ==
  ASSUME HubInv, todo = <<>>, UNCHANGED <<state, host, periodic, mux, vbus>>,
         Shape(todo'), todo' # <<>> => Head(todo') = "end"
  PROVE  HubInv'
<1>1. ~Between(todo) /\ ~Between(todo')
  BY DEF Between, States
<1>2. SwitchoverSuspended'
  BY DEF SwitchoverSuspended
<1>3. HalfDone' /\ HalfDoneUnasked'
  <2>1. todo' # <<"swap">> /\ todo # <<"swap">>
    OBVIOUS
  <2> QED
    BY <2>1 DEF HubInv, HalfDone, HalfDoneUnasked
<1> QED
  BY <1>1, <1>2, <1>3 DEF HubInv, Typed, MeasuredBetween, MeasuredWithin, PoweredWithin,
                          extra

LEMMA HandlerKeepsHubInv ==
  HubInv /\ (Wait \/ Handler) => HubInv'
<1> SUFFICES ASSUME HubInv, Wait \/ Handler
             PROVE  HubInv'
  OBVIOUS
<1>1. CASE Wait \/ DrainDone \/ StartMeasure
  <2>1. UNCHANGED hubVars
    BY <1>1 DEF Wait, DrainDone, StartMeasure, hubVars, stateVars, boardVars,
                adcVars, Getting, Taking
  <2> QED
    BY <2>1, KeepsHubInv
<1>2. CASE HandlePosted
  BY <1>2, NewShape, StartsTransition
     DEF HandlePosted, Getting, IsNext, Targets, States, stateVars, boardVars, adcVars
<1>3. CASE ProcessUsbSuspend
  <2>1. /\ todo = <<>> /\ UNCHANGED <<state, host, periodic, mux, vbus>>
        /\ \/ todo' = <<>>
           \/ todo' = TransitionTo("usb_suspend")
           \/ todo' = TransitionThen(Follow.perform_switchover, "perform_switchover")
    BY <1>3 DEF ProcessUsbSuspend, Taking, IsNext, Follow, stateVars, boardVars
  <2> QED
    BY <2>1, NewShape, StartsTransition DEF Targets, States
<1>4. CASE ProcessUsbResume
  BY <1>4, NewShape, StartsTransition
     DEF ProcessUsbResume, Taking, IsNext, Targets, States, stateVars, boardVars
<1>5. CASE ProcessSwitchover
  <2>1. /\ todo = <<>> /\ UNCHANGED <<state, host, periodic, mux, vbus>>
        /\ \/ todo' = <<>>
           \/ todo' = TransitionThen(Follow.perform_switchover, "perform_switchover")
    BY <1>5 DEF ProcessSwitchover, Taking, IsNext, Follow, stateVars, boardVars
  <2> QED
    BY <2>1, NewShape, StartsTransition
<1>6. CASE ProcessManual
  <2>1. /\ todo = <<>> /\ UNCHANGED <<state, host, periodic, mux, vbus>>
        /\ \/ todo' = <<>>
           \/ todo' = TransitionThen(Follow.set_manual, "set_manual")
    BY <1>6 DEF ProcessManual, Taking, IsNext, Follow, adcVars, boardVars
  <2> QED
    BY <2>1, NewShape, StartsTransition
<1>7. CASE ProcessAutomatic
  BY <1>7, NewShape, StartsTransition
     DEF ProcessAutomatic, Taking, IsNext, Targets, States, adcVars, boardVars
<1>8. CASE TimeoutDetermine
  <2>1. todo = <<>> /\ UNCHANGED <<state, host, vbus>> /\ state = "determine_host"
    BY <1>8 DEF TimeoutDetermine, Taking, IsNext, stateVars
  <2>2. CASE result[host] = "host"
    <3>1. UNCHANGED hubVars
      BY <1>8, <2>1, <2>2 DEF TimeoutDetermine, hubVars
    <3> QED
      BY <3>1, KeepsHubInv
  <2>3. CASE result[host] # "host"
    <3>1. mux' = extra /\ periodic' \subseteq periodic /\ todo' = <<"swap">>
      BY <1>8, <2>3 DEF TimeoutDetermine
    <3>2. extra \in Ports /\ extra # host
      BY OtherPort DEF HubInv, Typed, extra
    <3>3. Shape(todo') /\ ~Between(todo') /\ Head(todo') = "swap"
      BY <3>1 DEF Shape, Between, States
    <3> QED
      BY <2>1, <3>1, <3>2, <3>3 DEF HubInv, Typed, HalfDone, HalfDoneUnasked,
         SwitchoverSuspended, MeasuredBetween, MeasuredWithin, PoweredWithin
  <2> QED
    BY <2>2, <2>3
<1>9. CASE TimeoutSuspend
  <2>1. UNCHANGED hubVars
    BY <1>9 DEF TimeoutSuspend, Taking, hubVars, stateVars, boardVars
  <2> QED
    BY <2>1, KeepsHubInv
<1>10. CASE TimeoutExtra
  <2>1. /\ todo = <<>> /\ UNCHANGED <<state, host, periodic, mux, vbus>>
        /\ \/ todo' = <<>>
           \/ todo' = TransitionThen(Follow.set_panic, "set_panic")
    BY <1>10 DEF TimeoutExtra, Taking, IsNext, Follow, adcVars, stateVars, boardVars
  <2> QED
    BY <2>1, NewShape, StartsTransition
<1> QED
  BY <1>1, <1>2, <1>3, <1>4, <1>5, <1>6, <1>7, <1>8, <1>9, <1>10 DEF Handler

\* A step of a transition leaves the rest of it.
LEMMA RestOfTransition ==
  ASSUME HubInv, NEW op, Doing(op)
  PROVE  /\ Shape(todo')
         /\ op = "end" => Between(todo')
         /\ op # "end" => ~Between(todo')
         /\ todo' # <<>> /\ Head(todo') = "perform_switchover" => op = "usb_suspend"
         /\ todo' # <<"swap">>
         /\ todo = <<"swap">> <=> op = "swap"
BY RestOfShape DEF HubInv, Typed, Doing

LEMMA TransitionKeepsHubInv ==
  HubInv /\ Transition => HubInv'
<1> SUFFICES ASSUME HubInv, Transition
             PROVE  HubInv'
  OBVIOUS
<1>1. host \in Ports /\ extra \in Ports /\ extra # host /\ Other(extra) = host
  BY OtherPort DEF HubInv, Typed, extra
<1> USE DEF HubInv, Typed, HalfDone, HalfDoneUnasked, SwitchoverSuspended,
            MeasuredBetween, MeasuredWithin, PoweredWithin
<1>2. CASE EndDetermine
  <2>1. Shape(todo') /\ Between(todo') /\ ~(todo' # <<>> /\ Head(todo') = "perform_switchover")
        /\ todo' # <<"swap">> /\ todo # <<"swap">>
    BY <1>2, RestOfTransition DEF EndDetermine
  <2>2. UNCHANGED <<state, host, mux, vbus, extra>> /\ periodic' = (periodic \ {host}) \cup {extra}
    BY <1>2 DEF EndDetermine, boardVars, extra
  <2> QED
    BY <1>1, <2>1, <2>2
<1>3. CASE EndSuspend
  <2>1. Shape(todo') /\ Between(todo') /\ ~(todo' # <<>> /\ Head(todo') = "perform_switchover")
        /\ todo' # <<"swap">> /\ todo # <<"swap">>
    BY <1>3, RestOfTransition DEF EndSuspend
  <2>2. UNCHANGED <<state, host, mux, vbus, extra>> /\ periodic' = periodic \cup {extra}
    BY <1>3 DEF EndSuspend, boardVars, extra
  <2>3. host \notin periodic
    BY <1>3 DEF EndSuspend, Doing, Between, States
  <2> QED
    BY <1>1, <2>1, <2>2, <2>3
<1>4. CASE EndDisabled \/ EndEnabled
  <2>1. Shape(todo') /\ Between(todo') /\ ~(todo' # <<>> /\ Head(todo') = "perform_switchover")
        /\ todo' # <<"swap">> /\ todo # <<"swap">>
    BY <1>4, RestOfTransition DEF EndDisabled, EndEnabled
  <2>2. UNCHANGED <<state, host, mux, periodic, extra>> /\ vbus' \subseteq vbus
    BY <1>4 DEF EndDisabled, EndEnabled, boardVars, extra
  <2>3. host \notin periodic /\ extra \in periodic
    BY <1>4 DEF EndDisabled, EndEnabled, Doing, Between, States, Extra
  <2> QED
    BY <1>1, <2>1, <2>2, <2>3
<1>5. CASE BeginSuspend
  <2>1. Shape(todo') /\ ~Between(todo') /\ todo' # <<"swap">> /\ todo # <<"swap">>
    BY <1>5, RestOfTransition DEF BeginSuspend
  <2>2. UNCHANGED <<host, mux, vbus, extra>> /\ periodic' = periodic \ {extra}
        /\ state' = "usb_suspend"
    BY <1>5 DEF BeginSuspend, extra
  <2>3. host \notin periodic
    BY <1>5 DEF BeginSuspend, Doing, Between, States
  <2> QED
    BY <1>1, <2>1, <2>2, <2>3 DEF States, Extra
<1>6. CASE BeginDisabled
  <2>1. Shape(todo') /\ ~Between(todo') /\ ~(todo' # <<>> /\ Head(todo') = "perform_switchover")
        /\ todo' # <<"swap">> /\ todo # <<"swap">>
    BY <1>6, RestOfTransition DEF BeginDisabled
  <2>2. UNCHANGED <<host, mux, periodic, extra>> /\ vbus' = vbus \ {extra}
        /\ state' = "extra_disabled"
    BY <1>6 DEF BeginDisabled, extra
  <2>3. host \notin periodic /\ extra \in periodic
    BY <1>6 DEF BeginDisabled, Doing, Between, States
  <2> QED
    BY <1>1, <2>1, <2>2, <2>3 DEF States, Extra
<1>7. CASE BeginEnabled
  <2>1. Shape(todo') /\ ~Between(todo') /\ ~(todo' # <<>> /\ Head(todo') = "perform_switchover")
        /\ todo' # <<"swap">> /\ todo # <<"swap">>
    BY <1>7, RestOfTransition DEF BeginEnabled
  <2>2. UNCHANGED <<host, mux, periodic, extra>> /\ vbus' = vbus \cup {extra}
        /\ state' = "extra_enabled"
    BY <1>7 DEF BeginEnabled, extra
  <2>3. host \notin periodic /\ extra \in periodic
    BY <1>7 DEF BeginEnabled, Doing, Between, States
  <2> QED
    BY <1>1, <2>1, <2>2, <2>3 DEF States, Extra
<1>8. CASE PerformSwitchover
  <2>1. todo = <<"perform_switchover">>
    BY <1>8, RestOfShape DEF PerformSwitchover
  <2>2. todo' = <<"swap">>
    BY <1>8, <2>1 DEF PerformSwitchover
  <2>3. Shape(todo') /\ ~Between(todo') /\ ~Between(todo) /\ Head(todo') = "swap"
    BY <2>1, <2>2 DEF Shape, Between, States
  <2>4. state = "usb_suspend" /\ UNCHANGED <<state, host, periodic, vbus, extra>> /\ mux' = extra
    BY <1>8, <2>1 DEF PerformSwitchover, stateVars, adcVars, extra
  <2> QED
    BY <1>1, <2>1, <2>2, <2>3, <2>4 DEF Extra
<1>10. CASE SwapHost
  <2>1. Shape(todo') /\ ~Between(todo') /\ ~(todo' # <<>> /\ Head(todo') = "perform_switchover")
        /\ todo' # <<"swap">> /\ todo = <<"swap">>
    BY <1>10, RestOfTransition DEF SwapHost
  <2>2. UNCHANGED <<state, vbus, mux>> /\ host' = extra /\ extra' = host
        /\ (state # "determine_host" => periodic' = periodic)
        /\ periodic' \subseteq periodic \cup {extra}
    BY <1>1, <1>10 DEF SwapHost, boardVars, extra
  <2>3. mux = extra /\ ~Between(todo) /\ state \in {"determine_host", "usb_suspend"}
    BY <1>1, <2>1 DEF Between, States, Ports
  <2> QED
    BY <1>1, <2>1, <2>2, <2>3 DEF Extra
<1>9. CASE SetPanicDisabled \/ SetManual
  <2>1. Shape(todo') /\ ~Between(todo') /\ ~(todo' # <<>> /\ Head(todo') = "perform_switchover")
        /\ todo' # <<"swap">> /\ todo # <<"swap">>
    BY <1>9, RestOfTransition DEF SetPanicDisabled, SetManual
  <2>2. UNCHANGED <<state, host, periodic, mux, vbus, extra>>
    BY <1>9 DEF SetPanicDisabled, SetManual, boardVars, extra
  <2>3. ~Between(todo)
    BY <1>9 DEF SetPanicDisabled, SetManual, Doing, Between, States
  <2> QED
    BY <2>1, <2>2, <2>3
<1> QED
  BY <1>2, <1>3, <1>4, <1>5, <1>6, <1>7, <1>8, <1>9, <1>10 DEF Transition

LEMMA ReportKeepsHubInv ==
  ASSUME HubInv, NEW p \in Ports, ReportCon(p)
  PROVE  HubInv'
<1>1. UNCHANGED <<state, host, todo, mux, vbus, extra>>
  BY DEF ReportCon, boardVars, extra
<1>2. CASE periodic' = periodic
  <2>1. UNCHANGED hubVars
    BY <1>1, <1>2 DEF hubVars
  <2> QED
    BY <2>1, KeepsHubInv
<1>3. CASE state = "determine_host" /\ periodic' = periodic \ {host}
  <2>1. extra # host
    BY OtherPort DEF HubInv, Typed, extra
  <2> QED
    BY <1>1, <1>3, <2>1 DEF HubInv, Typed, HalfDone, HalfDoneUnasked,
       SwitchoverSuspended, MeasuredBetween, MeasuredWithin, PoweredWithin, Between
<1> QED
  BY <1>2, <1>3 DEF ReportCon

\* The other interrupts, and the environment.
LEMMA OthersKeepHubVars ==
  ASSUME \/ Report5V
         \/ \E p \in Ports : Tick(p)
         \/ \E t \in {"retry", "blink", "cut"} : Expire(t)
         \/ Environment
  PROVE  UNCHANGED hubVars
<1> USE DEF hubVars, threadVars, stateVars, adcVars, boardVars
<1>1. CASE Report5V \/ \E p \in Ports : Tick(p)
  BY <1>1 DEF Report5V, Tick
<1>2. CASE \E t \in {"retry", "blink", "cut"} : Expire(t)
  BY <1>2 DEF Expire
<1>3. CASE BusResume \/ BusSuspend \/ \E f \in Requests : Request(f)
  BY <1>3 DEF BusResume, BusSuspend, Request, Signal
<1>4. CASE \E p \in Ports, what \in {"none", "device", "host"} : Replug(p, what)
  BY <1>4 DEF Replug
<1>5. CASE \E v \in {"low", "ok"} : Supply(v)
  BY <1>5 DEF Supply
<1> QED
  BY <1>1, <1>2, <1>3, <1>4, <1>5 DEF Environment

---------------------------------------------------------------------------
(* Theorems. *)

LEMMA InitHubInv ==
  Init => HubInv
<1> SUFFICES ASSUME Init
             PROVE  HubInv
  OBVIOUS
<1>1. Shape(todo)
  BY DEF Init, Shape
<1> QED
  BY <1>1 DEF Init, HubInv, Typed, HalfDone, HalfDoneUnasked, SwitchoverSuspended,
     MeasuredBetween, MeasuredWithin, PoweredWithin, Between, States, Ports

LEMMA NextHubInv ==
  HubInv /\ [Next]_vars => HubInv'
<1>1. HubInv /\ UNCHANGED vars => HubInv'
  BY KeepsHubInv DEF vars, hubVars, stateVars, threadVars, adcVars, boardVars
<1>2. HubInv /\ Thread => HubInv'
  BY HandlerKeepsHubInv, TransitionKeepsHubInv DEF Thread
<1>3. HubInv /\ (Interrupt \/ Environment) => HubInv'
  BY ReportKeepsHubInv, OthersKeepHubVars, KeepsHubInv DEF Interrupt, Adc
<1> QED
  BY <1>1, <1>2, <1>3 DEF Next

LEMMA HubInvariant ==
  Spec => []HubInv
BY InitHubInv, NextHubInv, PTL DEF Spec

\* usbhub_states.cpp: a switchover selects the port and swaps v_host and v_extra in two
\* steps, in states whose interrupt does not ask whether a device is connected to v_extra;
\* wherever the code does ask, v_extra is not the port selected as host (the assertion of
\* adc.cpp:116).
THEOREM NeverAssertsInvariant ==
  Spec => []NeverAsserts
<1>1. HubInv => NeverAsserts
  <2> SUFFICES ASSUME HubInv, todo = <<>> \/ state \in Extra
               PROVE  mux # extra
    BY DEF NeverAsserts
  <2>1. todo # <<"swap">>
    BY DEF HubInv, HalfDoneUnasked, Extra
  <2>2. mux = host /\ extra # host
    BY <2>1, OtherPort DEF HubInv, HalfDone, Typed, extra
  <2> QED
    BY <2>2
<1> QED
  BY <1>1, HubInvariant, PTL

\* usbhub_states.cpp: after any number of transitions and switchovers, the extra port is
\* powered in state_extra_enabled and not in state_extra_disabled, and the measuring
\* timers that run are those the present state needs.
THEOREM SetUpForStateInvariant ==
  Spec => []SetUpForState
<1>1. HubInv => SetUpForState
  BY DEF HubInv, PoweredWithin, MeasuredWithin, SetUpForState, Between
<1> QED
  BY <1>1, HubInvariant, PTL

\* usbhub_states.cpp: perform_switchover() and the retry timer are all that selects
\* a host port, and neither does so while a host is connected.
THEOREM HostStays ==
  Spec => HostStaysWhileActive
<1>1. HubInv /\ [Next]_vars =>
        [mux' # mux => state \in {"determine_host", "usb_suspend"}]_vars
  <2> SUFFICES ASSUME HubInv, [Next]_vars, mux' # mux
               PROVE  state \in {"determine_host", "usb_suspend"}
    OBVIOUS
  <2>1. CASE UNCHANGED vars
    BY <2>1 DEF vars, boardVars
  <2>2. CASE Wait \/ Handler
    BY <2>2 DEF Wait, Handler, DrainDone, StartMeasure, HandlePosted, ProcessUsbSuspend,
       ProcessUsbResume, ProcessSwitchover, ProcessManual, ProcessAutomatic,
       TimeoutDetermine, TimeoutSuspend, TimeoutExtra, boardVars
  <2>3. CASE Transition
    <3>1. CASE PerformSwitchover
      BY <3>1 DEF PerformSwitchover, HubInv, SwitchoverSuspended
    <3>2. CASE ~PerformSwitchover
      BY <2>3, <3>2 DEF Transition, EndDetermine, EndSuspend, EndDisabled, EndEnabled,
         BeginSuspend, BeginDisabled, BeginEnabled, SwapHost, SetPanicDisabled, SetManual,
         boardVars
    <3> QED
      BY <3>1, <3>2
  <2>4. CASE Adc
    BY <2>4 DEF Adc, ReportCon, boardVars
  <2>5. CASE (Interrupt /\ ~Adc) \/ Environment
    BY <2>5, OthersKeepHubVars DEF Interrupt, hubVars
  <2> QED
    BY <2>1, <2>2, <2>3, <2>4, <2>5 DEF Next, Thread, Interrupt
<1> QED
  BY <1>1, HubInvariant, PTL DEF Spec, HostStaysWhileActive

---------------------------------------------------------------------------
(* Type correctness. *)

\* The event queue holds events, and none twice.
Queue(q) ==
  /\ q \in Seq(Event)
  /\ \A i, j \in DOMAIN q : q[i] = q[j] => i = j

LEMMA QueueOps ==
  ASSUME Queue(events)
  PROVE  /\ events # <<>> => Queue(Tail(events))
         /\ \A e \in Event : Queue(Posting(e))
         /\ \A e \in Event : ~IsPosted(e) => Queue(Append(events, e))
<1>1. ASSUME events # <<>>
      PROVE  Queue(Tail(events))
  <2>1. /\ Tail(events) \in Seq(Event) /\ Len(Tail(events)) = Len(events) - 1
        /\ \A i \in 1..Len(Tail(events)) : Tail(events)[i] = events[i + 1]
    BY <1>1 DEF Queue
  <2>2. \A i \in DOMAIN Tail(events) : i \in Nat /\ i + 1 \in DOMAIN events
    BY <1>1, <2>1 DEF Queue
  <2> QED
    BY <2>1, <2>2 DEF Queue
<1>2. ASSUME NEW e \in Event, ~IsPosted(e)
      PROVE  Queue(Append(events, e))
  <2>1. /\ Append(events, e) \in Seq(Event)
        /\ Len(Append(events, e)) = Len(events) + 1
        /\ \A i \in 1..Len(events) : Append(events, e)[i] = events[i]
        /\ Append(events, e)[Len(events) + 1] = e
    BY DEF Queue
  <2>2. \A i \in 1..Len(events) : events[i] # e
    BY <1>2 DEF IsPosted, Queue
  <2> QED
    BY <2>1, <2>2 DEF Queue
<1> QED
  BY <1>1, <1>2 DEF Posting

LEMMA FlagNames ==
  DOMAIN Rank = {"event", "suspend", "resume", "switchover", "manual",
                 "automatic", "timeout"}
<1>1. DOMAIN Order = 1..7
  BY DEF Order
<1> QED
  BY <1>1 DEF Order, Rank

LEMMA ShapeType ==
  ASSUME NEW t, Shape(t)
  PROVE  t \in Seq(Op)
<1>1. "end" \in Op /\ \A s \in Targets : s \in Op
  BY DEF Op, Targets
<1>2. \A x \in {"perform_switchover", "set_panic", "set_manual"} :
        x \in Op /\ Follow[x] \in Op
  BY DEF Op, Follow, States
<1>3. \A a, b, c \in Op :
        <<>> \in Seq(Op) /\ <<a>> \in Seq(Op) /\ <<a, b>> \in Seq(Op) /\ <<a, b, c>> \in Seq(Op)
  OBVIOUS
<1>4. CASE \E s \in Targets : t = <<"end", s>> \/ t = <<s>>
  BY <1>1, <1>3, <1>4
<1>5. CASE \E x \in {"perform_switchover", "set_panic", "set_manual"} :
             t = <<"end", Follow[x], x>> \/ t = <<Follow[x], x>> \/ t = <<x>>
  <2>1. PICK x \in {"perform_switchover", "set_panic", "set_manual"} :
             t = <<"end", Follow[x], x>> \/ t = <<Follow[x], x>> \/ t = <<x>>
    BY <1>5
  <2>2. PICK f : f = Follow[x]
    OBVIOUS
  <2>3. f \in Op /\ x \in Op /\ (t = <<"end", f, x>> \/ t = <<f, x>> \/ t = <<x>>)
    BY <1>2, <2>1, <2>2
  <2> QED
    BY <1>1, <1>3, <2>3
<1>6. CASE t = <<>> \/ t = <<"swap">>
  BY <1>3, <1>6 DEF Op
<1> QED
  BY <1>4, <1>5, <1>6 DEF Shape

\* What TypeOK says of the variables HubInv leaves out, the queue aside.
Simple ==
  /\ automatic \in BOOLEAN /\ panic \in BOOLEAN /\ manual \in BOOLEAN
  /\ flags \subseteq (DOMAIN Rank) \ {"event"} /\ batch \subseteq DOMAIN Rank
  /\ timers \subseteq {"retry", "blink", "cut"}
  /\ inflight \in Ports \cup {None}
  /\ result \in [Ports -> {"none", "device", "host"}]
  /\ rgb \in BOOLEAN
  /\ plug \in [Ports -> {"none", "device", "host"}] /\ supply \in {"low", "ok"}
  /\ bus \in Ports \cup {None} /\ raced \in BOOLEAN
  /\ spent \in [{"resume", "replug", "dip", "request"} -> Nat]

LEMMA TypeParts ==
  HubInv /\ Simple /\ Queue(events) => TypeOK
BY ShapeType DEF HubInv, Typed, Simple, Queue, TypeOK

LEMMA QueueStep ==
  ASSUME Queue(events), [Next]_vars
  PROVE  Queue(events')
<1>1. CASE UNCHANGED vars
  BY <1>1 DEF vars, threadVars
<1>2. CASE StartMeasure \/ HandlePosted
  BY <1>2, QueueOps DEF StartMeasure, HandlePosted, Getting
<1>3. CASE \E p \in Ports : Tick(p)
  BY <1>3, QueueOps DEF Tick, Event
<1>4. CASE Adc
  BY <1>4, QueueOps DEF Adc, ReportCon, Event
<1>5. CASE events' = events
  BY <1>5
<1>6. CASE Wait \/ (Handler /\ ~(StartMeasure \/ HandlePosted)) \/ Transition
  BY <1>5, <1>6 DEF Wait, Handler, DrainDone, ProcessUsbSuspend, ProcessUsbResume,
     ProcessSwitchover, ProcessManual, ProcessAutomatic, TimeoutDetermine,
     TimeoutSuspend, TimeoutExtra, Transition, EndDetermine, EndSuspend, EndDisabled,
     EndEnabled, BeginSuspend, BeginDisabled, BeginEnabled, PerformSwitchover, SwapHost,
     SetPanicDisabled, SetManual, Doing
<1>7. CASE Report5V \/ (\E t \in {"retry", "blink", "cut"} : Expire(t)) \/ Environment
  BY <1>5, <1>7 DEF Report5V, Expire, Environment, BusResume, BusSuspend, Request,
     Signal, Replug, Supply, threadVars
<1> QED
  BY <1>1, <1>2, <1>3, <1>4, <1>6, <1>7 DEF Next, Thread, Interrupt

LEMMA SimpleStep ==
  ASSUME HubInv, Simple, [Next]_vars
  PROVE  Simple'
<1> host \in Ports /\ mux \in Ports /\ extra \in Ports /\ state \in States
  BY OtherPort DEF HubInv, Typed, extra
<1> USE DEF Simple
<1>1. CASE UNCHANGED vars
  BY <1>1 DEF vars, threadVars, stateVars, adcVars, boardVars, envVars
<1>2. CASE Wait \/ DrainDone
  BY <1>2, FlagNames DEF Wait, DrainDone, Taking, stateVars, adcVars, boardVars, envVars
<1>3. CASE StartMeasure \/ HandlePosted
  BY <1>3 DEF StartMeasure, HandlePosted, stateVars, adcVars, boardVars, envVars
<1>4. CASE ProcessUsbSuspend \/ ProcessUsbResume \/ ProcessSwitchover
  BY <1>4 DEF ProcessUsbSuspend, ProcessUsbResume, ProcessSwitchover, SyncMeasure,
     Taking, stateVars, boardVars, envVars
<1>5. CASE ProcessManual \/ ProcessAutomatic
  BY <1>5 DEF ProcessManual, ProcessAutomatic, Taking, adcVars, boardVars, envVars
<1>6. CASE TimeoutDetermine \/ TimeoutSuspend \/ TimeoutExtra
  BY <1>6 DEF TimeoutDetermine, TimeoutSuspend, TimeoutExtra, Taking, adcVars,
     stateVars, boardVars, envVars
<1>7. CASE Transition
  <2>1. UNCHANGED <<flags, batch, inflight, envVars>>
    BY <1>7 DEF Transition, Doing, EndDetermine, EndSuspend, EndDisabled, EndEnabled,
       BeginSuspend, BeginDisabled, BeginEnabled, PerformSwitchover, SwapHost,
       SetPanicDisabled, SetManual, adcVars, stateVars
  <2>2. timers' \subseteq {"retry", "blink", "cut"} /\ rgb' \in BOOLEAN
    BY <1>7 DEF Transition, EndDetermine, EndSuspend, EndDisabled, EndEnabled,
       BeginSuspend, BeginDisabled, BeginEnabled, PerformSwitchover, SwapHost,
       SetPanicDisabled, SetManual, boardVars, adcVars
  <2>3. automatic' \in BOOLEAN /\ panic' \in BOOLEAN /\ manual' \in BOOLEAN
    BY <1>7 DEF Transition, EndDetermine, EndSuspend, EndDisabled, EndEnabled,
       BeginSuspend, BeginDisabled, BeginEnabled, PerformSwitchover, SwapHost,
       SetPanicDisabled, SetManual, adcVars, stateVars
  <2>4. result' \in [Ports -> {"none", "device", "host"}]
    BY <1>7 DEF Transition, EndDetermine, EndSuspend, EndDisabled, EndEnabled,
       BeginSuspend, BeginDisabled, BeginEnabled, PerformSwitchover, SwapHost,
       SetPanicDisabled, SetManual, SyncMeasure, adcVars
  <2> QED
    BY <2>1, <2>2, <2>3, <2>4 DEF envVars
<1>8. CASE Adc
  BY <1>8 DEF Adc, ReportCon, boardVars
<1>9. CASE Report5V \/ (\E p \in Ports : Tick(p))
           \/ (\E t \in {"retry", "blink", "cut"} : Expire(t))
  BY <1>9, FlagNames DEF Report5V, Tick, Expire, stateVars, threadVars, adcVars,
     boardVars, envVars
<1>10. CASE Environment
  <2>1. UNCHANGED <<batch, timers, inflight, result, automatic, panic, manual, rgb>>
    BY <1>10 DEF Environment, BusResume, BusSuspend, Request, Signal, Replug, Supply,
       stateVars, threadVars, adcVars, boardVars
  <2>2. flags' \subseteq (DOMAIN Rank) \ {"event"}
    BY <1>10, FlagNames, HubAssumption DEF Environment, BusResume, BusSuspend, Request,
       Signal, Replug, Supply, threadVars
  <2>3. plug' \in [Ports -> {"none", "device", "host"}] /\ supply' \in {"low", "ok"}
        /\ bus' \in Ports \cup {None}
    BY <1>10 DEF Environment, BusResume, BusSuspend, Request, Replug, Supply
  <2>4. raced' = raced \/ raced' = (raced \/ ~Settled) \/ raced' = (raced \/ ~Dealt)
    BY <1>10 DEF Environment, BusResume, BusSuspend, Request, Signal, Replug, Supply
  <2>5. raced' \in BOOLEAN
    BY <2>4
  <2>6. spent' = spent \/ \E what \in {"resume", "replug", "dip", "request"} : Spend(what)
    BY <1>10 DEF Environment, BusResume, BusSuspend, Request, Replug, Supply
  <2>7. spent' \in [{"resume", "replug", "dip", "request"} -> Nat]
    BY <2>6 DEF Spend
  <2> QED
    BY <2>1, <2>2, <2>3, <2>5, <2>7
<1> QED
  BY <1>1, <1>2, <1>3, <1>4, <1>5, <1>6, <1>7, <1>8, <1>9, <1>10
     DEF Next, Thread, Handler, Interrupt, Environment

LEMMA InitTypes ==
  Init => Simple /\ Queue(events)
<1> SUFFICES ASSUME Init
             PROVE  Simple /\ Queue(events)
  OBVIOUS
<1>1. Queue(events)
  BY DEF Init, Queue
<1>2. spent \in [{"resume", "replug", "dip", "request"} -> Nat]
  BY HubAssumption DEF Init
<1>3. inflight \in Ports \cup {None} /\ bus \in Ports \cup {None}
  BY DEF Init
<1> QED
  BY <1>1, <1>2, <1>3 DEF Init, Simple

\* Every reachable state of the hub thread is well typed; in particular an event
\* that several interrupts post is queued at most once.
THEOREM TypeCorrect ==
  Spec => []TypeOK
<1>1. HubInv /\ Simple /\ Queue(events) /\ [Next]_vars => (Simple /\ Queue(events))'
  BY SimpleStep, QueueStep
<1> QED
  BY <1>1, InitTypes, HubInvariant, TypeParts, PTL DEF Spec

---------------------------------------------------------------------------
(* The states agree with the bus. *)

Signals == {"suspend", "resume", "switchover", "manual", "automatic"}

\* The signals that are not handled yet, and the reports.
Pending  == (flags \cup batch) \cap Signals
In(q, e) == \E i \in DOMAIN q : q[i] = e
Reported == IsPosted("connected") \/ IsPosted("disconnected")

\* What is left of a transition to s, without and with a call that follows it.
Toward(t, s) == t = <<"end", s>> \/ t = <<s>>
WithCall(t, x) == t = <<"end", Follow[x], x>> \/ t = <<Follow[x], x>> \/ t = <<x>>

\* A transition leads to where the bus and the extra port want it.
Course ==
  /\ Toward(todo, "usb_suspend") => bus # mux
  /\ WithCall(todo, "perform_switchover") => bus # extra
  /\ Toward(todo, "extra_disabled") =>
       bus = mux /\ plug[extra] # "device" /\ result[extra] # "device"
  /\ Toward(todo, "extra_enabled") =>
       bus = mux /\ plug[extra] = "device" /\ result[extra] = "device"
  /\ WithCall(todo, "set_panic") \/ WithCall(todo, "set_manual") => bus = mux
  /\ todo = <<"set_panic">> => state = "extra_disabled"
  /\ todo = <<"set_manual">> => state = "extra_enabled"
  /\ todo = <<"swap">> => bus # mux /\ (state = "determine_host" => bus = None)

\* Between two handlers the state is that of the bus before the signal that is
\* pending, if there is one; and what was measured of the extra port is posted.
AtRest ==
  todo = <<>> =>
    /\ Pending \cap {"suspend", "resume"} = {} => (state \in Extra <=> bus = mux)
    /\ "suspend" \in Pending => bus = None
    /\ "resume" \in Pending => bus = mux /\ state \notin Extra
    /\ "switchover" \in Pending => bus # extra
    /\ state = "determine_host" /\ "resume" \notin Pending => bus = None
    /\ ~Reported =>
         /\ state = "extra_disabled" => result[extra] # "device" \/ panic
         /\ state = "extra_enabled" => result[extra] = "device" \/ manual

\* A signal comes alone, and is handled before a timeout that came after it.
Alone ==
  Pending # {} =>
    /\ todo = <<>> /\ ~Reported
    /\ \A f, g \in Pending : f = g
    /\ Pending \cap flags # {} => batch = {}
    /\ state \in Extra => result[extra] = plug[extra]

\* A report is handled in the state that posted it, or in the one that is the
\* outcome anyway.
Timely ==
  /\ IsPosted("connected") =>
       /\ state = "extra_disabled" /\ todo = <<>>
       /\ plug[extra] = "device" /\ result[extra] = "device"
       /\ bus = mux /\ Pending = {}
  /\ IsPosted("disconnected") =>
       /\ state \in Extra /\ (todo = <<>> \/ WithCall(todo, "set_panic"))
       /\ plug[extra] # "device" /\ result[extra] = plug[extra]
       /\ bus = mux /\ Pending = {}

Lit == rgb <=> state \in Extra

Unraced == Course /\ AtRest /\ Alone /\ Timely

AgreeInv == Lit /\ (~raced => Unraced)

\* What the steps need of the types.
Known ==
  /\ host \in Ports /\ extra \in Ports /\ extra # host /\ mux \in Ports
  /\ Other(extra) = host
  /\ todo # <<"swap">> => mux = host
  /\ todo = <<"swap">> => mux = extra /\ state \notin Extra
  /\ Shape(todo) /\ Queue(events)
  /\ state \in States /\ bus \in Ports \cup {None} /\ raced \in BOOLEAN
  /\ panic \in BOOLEAN /\ manual \in BOOLEAN /\ rgb \in BOOLEAN
  /\ result \in [Ports -> {"none", "device", "host"}]
  /\ plug \in [Ports -> {"none", "device", "host"}]
  /\ todo # <<>> /\ Head(todo) = "perform_switchover" => state = "usb_suspend"

LEMMA KnownTypes ==
  HubInv /\ Simple /\ Queue(events) => Known
<1> SUFFICES ASSUME HubInv, Simple, Queue(events)
             PROVE  Known
  OBVIOUS
<1>1. host \in Ports /\ extra \in Ports /\ extra # host /\ Other(extra) = host
  BY OtherPort DEF HubInv, Typed, extra
<1>2. todo = <<"swap">> => mux = extra /\ state \notin Extra
  BY <1>1 DEF HubInv, Typed, HalfDone, HalfDoneUnasked, Extra, Ports
<1>3. Typed /\ Simple /\ SwitchoverSuspended /\ (todo # <<"swap">> => mux = host)
  BY DEF HubInv, HalfDone
<1> QED
  BY <1>1, <1>2, <1>3 DEF Typed, SwitchoverSuspended, Simple, Known

LEMMA PostedOps ==
  ASSUME Queue(events)
  PROVE  /\ \A e, x : In(Append(events, e), x) <=> IsPosted(x) \/ x = e
         /\ events # <<>> =>
              \A x : In(Tail(events), x) <=> IsPosted(x) /\ x # Head(events)
         /\ \A e, x : In(Posting(e), x) <=> IsPosted(x) \/ x = e
<1>1. events \in Seq(Event) /\ Len(events) \in Nat
      /\ DOMAIN events = 1 .. Len(events)
      /\ \A i, j \in DOMAIN events : events[i] = events[j] => i = j
  BY DEF Queue
<1>2. ASSUME NEW e, NEW x
      PROVE  In(Append(events, e), x) <=> IsPosted(x) \/ x = e
  <2>1. /\ DOMAIN Append(events, e) = 1 .. Len(events) + 1
        /\ \A i \in 1 .. Len(events) : Append(events, e)[i] = events[i]
        /\ Append(events, e)[Len(events) + 1] = e
    BY <1>1
  <2>2. \A i \in 1 .. Len(events) + 1 : i \in 1 .. Len(events) \/ i = Len(events) + 1
    BY <1>1
  <2>3. 1 .. Len(events) \subseteq 1 .. Len(events) + 1
        /\ Len(events) + 1 \in 1 .. Len(events) + 1
    BY <1>1
  <2> DEFINE q == Append(events, e)
             l == Len(events) + 1
  <2>4. /\ DOMAIN q = 1 .. l /\ q[l] = e
        /\ \A i \in 1 .. Len(events) : q[i] = events[i]
        /\ \A i \in 1 .. l : i \in 1 .. Len(events) \/ i = l
        /\ 1 .. Len(events) \subseteq 1 .. l /\ l \in 1 .. l
    BY <2>1, <2>2, <2>3
  <2> HIDE DEF q, l
  <2>5. In(q, x) <=> IsPosted(x) \/ x = e
    BY <1>1, <2>4, Zenon DEF In, IsPosted
  <2> QED
    BY <2>5 DEF q
<1>3. ASSUME events # <<>>, NEW x
      PROVE  In(Tail(events), x) <=> IsPosted(x) /\ x # Head(events)
  <2>1. /\ DOMAIN Tail(events) = 1 .. Len(events) - 1
        /\ \A i \in 1 .. Len(events) - 1 : Tail(events)[i] = events[i + 1]
        /\ Head(events) = events[1] /\ 1 \in DOMAIN events
    BY <1>1, <1>3
  <2>2. ASSUME In(Tail(events), x)
        PROVE  IsPosted(x) /\ x # Head(events)
    <3>1. PICK i \in 1 .. Len(events) - 1 : Tail(events)[i] = x
      BY <2>1, <2>2 DEF In
    <3>2. i + 1 \in DOMAIN events /\ i + 1 # 1 /\ events[i + 1] = x
      BY <1>1, <2>1, <3>1
    <3> QED
      BY <1>1, <2>1, <3>2 DEF IsPosted
  <2>3. ASSUME IsPosted(x), x # Head(events)
        PROVE  In(Tail(events), x)
    <3>1. PICK i \in DOMAIN events : events[i] = x
      BY <2>3 DEF IsPosted
    <3>2. i # 1 /\ i \in 1 .. Len(events)
      BY <1>1, <2>1, <2>3, <3>1
    <3>3. i - 1 \in 1 .. Len(events) - 1 /\ (i - 1) + 1 = i
      BY <1>1, <3>2
    <3> QED
      BY <2>1, <3>1, <3>3 DEF In
  <2> QED
    BY <2>2, <2>3
<1>4. ASSUME NEW e, NEW x
      PROVE  In(Posting(e), x) <=> IsPosted(x) \/ x = e
  <2>1. CASE IsPosted(e)
    BY <2>1 DEF Posting, In, IsPosted
  <2>2. CASE ~IsPosted(e)
    BY <1>2, <2>2 DEF Posting
  <2> QED
    BY <2>1, <2>2
<1> QED
  BY <1>2, <1>3, <1>4

\* The steps of a transition keep its course.
LEMMA TailOfCourse ==
  ASSUME NEW t, Shape(t), t # <<>>
  PROVE  /\ \A s \in Targets : Toward(Tail(t), s) => Toward(t, s)
         /\ \A x \in {"perform_switchover", "set_panic", "set_manual"} :
              /\ WithCall(Tail(t), x) => WithCall(t, x)
              /\ WithCall(t, x) /\ Tail(t) # <<>> => WithCall(Tail(t), x)
              /\ Tail(t) = <<x>> => Head(t) = Follow[x]
         /\ Tail(t) = <<>> =>
              \/ Head(t) \in Targets /\ Toward(t, Head(t))
              \/ /\ Head(t) \in {"perform_switchover", "set_panic", "set_manual"}
                 /\ t = <<Head(t)>> /\ WithCall(t, Head(t))
              \/ t = <<"swap">>
         /\ Tail(t) # <<"swap">>
<1> DEFINE Calls == {"perform_switchover", "set_panic", "set_manual"}
<1>1. \A x \in Calls : Follow[x] \in Targets /\ Follow[x] \notin Calls
                       /\ Follow[x] # "end" /\ x # "end" /\ x \notin Targets
  BY DEF Follow, Targets, States
<1>2. ASSUME NEW r \in Targets, t = <<"end", r>> \/ t = <<r>>
      PROVE  /\ \A s \in Targets : Toward(Tail(t), s) => Toward(t, s)
             /\ \A x \in Calls :
                  /\ WithCall(Tail(t), x) => WithCall(t, x)
                  /\ WithCall(t, x) /\ Tail(t) # <<>> => WithCall(Tail(t), x)
                  /\ Tail(t) = <<x>> => Head(t) = Follow[x]
             /\ Tail(t) = <<>> =>
                  \/ Head(t) \in Targets /\ Toward(t, Head(t))
                  \/ Head(t) \in Calls /\ t = <<Head(t)>> /\ WithCall(t, Head(t))
  <2>1. CASE t = <<"end", r>>
    <3>1. Tail(t) = <<r>> /\ r # "end"
      BY <2>1 DEF Targets, States
    <3> QED
      BY <1>1, <2>1, <3>1 DEF Toward, WithCall
  <2>2. CASE t = <<r>>
    <3>1. Tail(t) = <<>> /\ Head(t) = r
      BY <2>2
    <3> QED
      BY <2>2, <3>1 DEF Toward, WithCall
  <2> QED
    BY <1>2, <2>1, <2>2
<1>3. ASSUME NEW y \in Calls,
             t = <<"end", Follow[y], y>> \/ t = <<Follow[y], y>> \/ t = <<y>>
      PROVE  /\ \A s \in Targets : Toward(Tail(t), s) => Toward(t, s)
             /\ \A x \in Calls :
                  /\ WithCall(Tail(t), x) => WithCall(t, x)
                  /\ WithCall(t, x) /\ Tail(t) # <<>> => WithCall(Tail(t), x)
                  /\ Tail(t) = <<x>> => Head(t) = Follow[x]
             /\ Tail(t) = <<>> =>
                  \/ Head(t) \in Targets /\ Toward(t, Head(t))
                  \/ Head(t) \in Calls /\ t = <<Head(t)>> /\ WithCall(t, Head(t))
  <2>1. PICK f : f = Follow[y]
    OBVIOUS
  <2>2. f \in Targets /\ f \notin Calls /\ f # "end" /\ y \notin Targets /\ y # "end"
    BY <1>1, <2>1
  <2>3. CASE t = <<"end", f, y>>
    <3>1. Tail(t) = <<f, y>>
      BY <2>3
    <3> QED
      BY <1>1, <2>1, <2>2, <2>3, <3>1 DEF Toward, WithCall
  <2>4. CASE t = <<f, y>>
    <3>1. Tail(t) = <<y>> /\ Head(t) = f
      BY <2>4
    <3> QED
      BY <1>1, <2>1, <2>2, <2>4, <3>1 DEF Toward, WithCall
  <2>5. CASE t = <<y>>
    <3>1. Tail(t) = <<>> /\ Head(t) = y
      BY <2>5
    <3> QED
      BY <2>5, <3>1 DEF Toward, WithCall
  <2> QED
    BY <1>3, <2>1, <2>3, <2>4, <2>5
<1>4. CASE t = <<"swap">>
  <2>1. Tail(t) = <<>>
    BY <1>4
  <2> QED
    BY <1>4, <2>1 DEF Toward, WithCall
<1>5. Tail(t) # <<"swap">>
  BY RestOfShape
<1> QED
  BY <1>2, <1>3, <1>4, <1>5 DEF Shape

\* And a new transition has one.
LEMMA NewCourse ==
  /\ \A s \in Targets : LET t == TransitionTo(s) IN
       /\ t # <<>> /\ t # <<"swap">>
       /\ \A r \in Targets : Toward(t, r) => r = s
       /\ \A x \in {"perform_switchover", "set_panic", "set_manual"} :
            ~WithCall(t, x) /\ t # <<x>>
  /\ \A y \in {"perform_switchover", "set_panic", "set_manual"} :
       LET t == TransitionThen(Follow[y], y) IN
       /\ t # <<>> /\ t # <<"swap">>
       /\ \A r \in Targets : ~Toward(t, r)
       /\ \A x \in {"perform_switchover", "set_panic", "set_manual"} :
            (WithCall(t, x) => x = y) /\ t # <<x>>
<1> DEFINE Calls == {"perform_switchover", "set_panic", "set_manual"}
<1>1. \A x \in Calls : Follow[x] \in Targets /\ Follow[x] \notin Calls
                       /\ Follow[x] # "end" /\ x # "end" /\ x \notin Targets
  BY DEF Follow, Targets, States
<1>2. ASSUME NEW s \in Targets
      PROVE  LET t == TransitionTo(s) IN
             /\ t # <<>> /\ t # <<"swap">>
             /\ \A r \in Targets : Toward(t, r) => r = s
             /\ \A x \in Calls : ~WithCall(t, x) /\ t # <<x>>
  <2>1. s # "end"
    BY DEF Targets, States
  <2> QED
    BY <1>1, <2>1 DEF TransitionTo, Toward, WithCall
<1>3. ASSUME NEW y \in Calls
      PROVE  LET t == TransitionThen(Follow[y], y) IN
             /\ t # <<>> /\ t # <<"swap">>
             /\ \A r \in Targets : ~Toward(t, r)
             /\ \A x \in Calls : (WithCall(t, x) => x = y) /\ t # <<x>>
  <2>1. PICK f : f = Follow[y]
    OBVIOUS
  <2>2. f # "end"
    BY <1>1, <2>1
  <2> QED
    BY <1>1, <2>1, <2>2 DEF TransitionThen, Toward, WithCall
<1> QED
  BY <1>2, <1>3

LEMMA Ranks ==
  \A f \in Signals : Rank["timeout"] \in Nat /\ Rank[f] \in Nat /\ Rank[f] < Rank["timeout"]
<1>1. DOMAIN Order = 1 .. 7
  BY DEF Order
<1>2. \A f \in DOMAIN Rank : Rank[f] = CHOOSE i \in 1 .. 7 : Order[i] = f
  BY <1>1 DEF Rank
<1>3. \A f \in DOMAIN Rank : \E i \in 1 .. 7 : Order[i] = f
  BY <1>1 DEF Rank
<1>4. \A f \in DOMAIN Rank : Rank[f] \in 1 .. 7 /\ Order[Rank[f]] = f
  BY <1>2, <1>3
<1>5. Order[7] = "timeout" /\ \A i \in 1 .. 6 : Order[i] # "timeout"
  BY DEF Order
<1>6. "timeout" \in DOMAIN Rank /\ "timeout" \notin Signals /\ Signals \subseteq DOMAIN Rank
  BY FlagNames DEF Signals
<1>7. Rank["timeout"] = 7
  BY <1>4, <1>5, <1>6
<1>8. ASSUME NEW f \in Signals
      PROVE  Rank[f] \in Nat /\ Rank[f] < 7
  <2>1. Rank[f] \in 1 .. 7 /\ Rank[f] # 7
    BY <1>4, <1>5, <1>6
  <2> QED
    BY <2>1
<1> QED
  BY <1>7, <1>8

\* A signal that is taken was the only one, and a timeout comes after it.
LEMMA TakesSignal ==
  ASSUME Unraced, NEW f \in Signals, Taking(f), UNCHANGED flags
  PROVE  Pending = {f} /\ Pending' = {} /\ todo = <<>> /\ ~Reported
<1>1. f \in batch /\ f \in Pending /\ batch' = batch \ {f}
  BY DEF Taking, IsNext, Pending
<1>2. Pending = {f} /\ Pending \cap flags = {} /\ todo = <<>> /\ ~Reported
  BY <1>1 DEF Unraced, Alone
<1>3. Pending' = {}
  BY <1>1, <1>2 DEF Pending
<1> QED
  BY <1>2, <1>3

LEMMA TakesTimeout ==
  ASSUME Unraced, Taking("timeout"), UNCHANGED flags
  PROVE  Pending = {} /\ Pending' = {} /\ todo = <<>>
<1>1. "timeout" \in batch /\ batch' = batch \ {"timeout"} /\ todo = <<>>
      /\ \A g \in batch : Rank["timeout"] <= Rank[g]
  BY DEF Taking, IsNext
<1>2. ASSUME NEW f \in Pending PROVE FALSE
  <2>1. f \in Signals /\ (f \in flags \/ f \in batch)
    BY DEF Pending
  <2>2. f \notin flags
    BY <1>1, <2>1 DEF Unraced, Alone
  <2>3. Rank["timeout"] <= Rank[f]
    BY <1>1, <2>1, <2>2
  <2> QED
    BY <2>1, <2>3, Ranks
<1>3. Pending' \subseteq Pending
  BY <1>1 DEF Pending
<1> QED
  BY <1>1, <1>2, <1>3

\* Steps that change nothing of what AgreeInv is about, as to take the flags.
LEMMA CalmAgree ==
  ASSUME AgreeInv,
         UNCHANGED <<state, panic, todo, result, mux, host, plug, bus, rgb>>,
         manual' = manual,
         raced' = raced,
         Pending' = Pending, Pending \cap flags' # {} => batch' = {},
         IsPosted("connected")' <=> IsPosted("connected"),
         IsPosted("disconnected")' <=> IsPosted("disconnected")
  PROVE  AgreeInv'
<1>1. extra' = extra /\ (Reported' <=> Reported)
  BY DEF extra, Reported
<1>2. Lit'
  BY DEF AgreeInv, Lit
<1>3. ASSUME ~raced PROVE Unraced'
  <2>1. Course'
    BY <1>1, <1>3 DEF AgreeInv, Unraced, Course, Toward, WithCall
  <2>2. AtRest'
    BY <1>1, <1>3 DEF AgreeInv, Unraced, AtRest
  <2>3. Alone'
    BY <1>1, <1>3 DEF AgreeInv, Unraced, Alone
  <2>4. Timely'
    BY <1>1, <1>3 DEF AgreeInv, Unraced, Timely, WithCall
  <2> QED
    BY <2>1, <2>2, <2>3, <2>4 DEF Unraced
<1> QED
  BY <1>2, <1>3 DEF AgreeInv

\* A handler that starts a transition.
LEMMA StartAgree ==
  ASSUME AgreeInv, UNCHANGED <<state, rgb>>,
         ~raced' => todo' # <<>> /\ Pending' = {} /\ ~Reported' /\ Course'
  PROVE  AgreeInv'
<1>1. Lit'
  BY DEF AgreeInv, Lit
<1>2. ASSUME ~raced' PROVE Unraced'
  BY <1>2 DEF Unraced, AtRest, Alone, Timely, Reported
<1> QED
  BY <1>1, <1>2 DEF AgreeInv

\* And one that ends without.
LEMMA RestAgree ==
  ASSUME AgreeInv, UNCHANGED <<state, rgb>>,
         ~raced' => todo' = <<>> /\ Pending' = {} /\ ~Reported' /\ AtRest'
  PROVE  AgreeInv'
<1>1. Lit'
  BY DEF AgreeInv, Lit
<1>2. ASSUME ~raced' PROVE Unraced'
  BY <1>2 DEF Unraced, Course, Toward, WithCall, Alone, Timely, Reported
<1> QED
  BY <1>1, <1>2 DEF AgreeInv

LEMMA WaitAgree ==
  ASSUME Known, AgreeInv, Wait \/ DrainDone \/ StartMeasure \/ TimeoutSuspend
  PROVE  AgreeInv'
<1>1. CASE Wait
  <2>1. Pending' = Pending /\ Pending \cap flags' = {}
    BY <1>1 DEF Wait, Pending, Signals
  <2> QED
    BY <1>1, <2>1, CalmAgree DEF Wait, stateVars, adcVars, boardVars, envVars, IsPosted
<1>2. CASE DrainDone \/ TimeoutSuspend
  <2>1. Pending' = Pending /\ flags' = flags /\ (batch = {} => batch' = {})
    BY <1>2 DEF DrainDone, TimeoutSuspend, Taking, Pending, Signals
  <2>2. Pending \cap flags # {} /\ ~raced => batch = {}
    BY DEF AgreeInv, Unraced, Alone
  <2>3. batch # {} /\ batch' \subseteq batch
    BY <1>2 DEF DrainDone, TimeoutSuspend, Taking, IsNext
  <2>4. CASE ~raced
    <3>1. Pending \cap flags' = {}
      BY <2>1, <2>2, <2>3, <2>4
    <3> QED
      BY <1>2, <2>1, <3>1, CalmAgree
         DEF DrainDone, TimeoutSuspend, stateVars, adcVars, boardVars, envVars, IsPosted
  <2>5. CASE raced
    <3>1. UNCHANGED <<state, rgb, raced>>
      BY <1>2 DEF DrainDone, TimeoutSuspend, stateVars, boardVars, envVars
    <3> QED
      BY <2>5, <3>1 DEF AgreeInv, Lit
  <2> QED
    BY <2>4, <2>5
<1>3. CASE StartMeasure
  <2>1. PICK p \in Ports : Getting(p)
    BY <1>3 DEF StartMeasure
  <2>2. events # <<>> /\ events' = Tail(events) /\ Head(events) = p
        /\ p # "connected" /\ p # "disconnected"
    BY <2>1 DEF Getting, Ports
  <2>3. \A x : IsPosted(x)' <=> In(Tail(events), x)
    BY <2>2 DEF IsPosted, In
  <2>4. /\ IsPosted("connected")' <=> IsPosted("connected")
        /\ IsPosted("disconnected")' <=> IsPosted("disconnected")
    BY <2>2, <2>3, PostedOps DEF Known
  <2>5. UNCHANGED <<flags, batch, todo, result, state, host, automatic, panic,
                    manual, mux, rgb, plug, bus, raced>>
    BY <1>3 DEF StartMeasure, stateVars, boardVars, envVars
  <2>6. Pending' = Pending
    BY <2>5 DEF Pending
  <2>7. CASE ~raced
    <3>1. Pending \cap flags' # {} => batch' = {}
      BY <2>5, <2>7 DEF AgreeInv, Unraced, Alone
    <3> QED
      BY <2>4, <2>5, <2>6, <3>1, CalmAgree
  <2>8. CASE raced
    BY <2>5, <2>8 DEF AgreeInv, Lit
  <2> QED
    BY <2>7, <2>8
<1> QED
  BY <1>1, <1>2, <1>3

\* What the handlers of the signals leave alone.
LEMMA SignalFrame ==
  ASSUME ProcessUsbSuspend \/ ProcessUsbResume \/ ProcessSwitchover
         \/ ProcessManual \/ ProcessAutomatic
  PROVE  /\ UNCHANGED <<flags, events, state, panic, host, mux, rgb, plug, bus, raced>>
         /\ extra' = extra /\ (Reported' <=> Reported)
<1>1. UNCHANGED <<flags, events, state, panic, host, mux, rgb, plug, bus, raced>>
  BY DEF ProcessUsbSuspend, ProcessUsbResume, ProcessSwitchover, ProcessManual,
         ProcessAutomatic, stateVars, adcVars, boardVars, envVars
<1> QED
  BY <1>1 DEF extra, Reported, IsPosted

\* A signal of the bus starts the transition the bus asks for.
LEMMA SuspendAgree ==
  ASSUME Known, AgreeInv, ProcessUsbSuspend
  PROVE  AgreeInv'
<1> USE SignalFrame
<1>1. CASE raced
  BY <1>1 DEF AgreeInv, Lit
<1>2. CASE ~raced
  <2>1. Taking("suspend") /\ "suspend" \in Signals
    BY DEF ProcessUsbSuspend, Signals
  <2>2. Pending = {"suspend"} /\ Pending' = {} /\ todo = <<>> /\ ~Reported'
    BY <1>2, <2>1, TakesSignal DEF AgreeInv
  <2>3. bus = None /\ bus # mux /\ bus # extra
    BY <1>2, <2>2 DEF AgreeInv, Unraced, AtRest, Known, Ports, None
  <2>4. CASE state \in Extra
    <3>1. todo' = TransitionTo("usb_suspend")
          \/ todo' = TransitionThen("usb_suspend", "perform_switchover")
      BY <2>4 DEF ProcessUsbSuspend
    <3>2. "usb_suspend" \in Targets /\ Follow["perform_switchover"] = "usb_suspend"
      BY DEF Targets, States, Follow
    <3>3. /\ todo' # <<>> /\ todo' # <<"swap">>
          /\ \A r \in Targets : Toward(todo', r) => r = "usb_suspend"
          /\ \A x \in {"perform_switchover", "set_panic", "set_manual"} :
               (WithCall(todo', x) => x = "perform_switchover") /\ todo' # <<x>>
      BY <3>1, <3>2, NewCourse, Zenon
    <3>4. Course'
      BY <2>3, <3>3 DEF Course, Targets, States
    <3> QED
      BY <2>2, <3>3, <3>4, StartAgree
  <2>5. CASE state \notin Extra
    <3>1. todo' = <<>> /\ result' = result
      BY <2>2, <2>5 DEF ProcessUsbSuspend
    <3>2. AtRest'
      BY <2>2, <2>3, <2>5, <3>1 DEF AtRest, Extra
    <3> QED
      BY <2>2, <3>1, <3>2, RestAgree
  <2> QED
    BY <2>4, <2>5
<1> QED
  BY <1>1, <1>2

LEMMA ResumeAgree ==
  ASSUME Known, AgreeInv, ProcessUsbResume
  PROVE  AgreeInv'
<1> USE SignalFrame
<1>1. CASE raced
  BY <1>1 DEF AgreeInv, Lit
<1>2. CASE ~raced
  <2>1. Taking("resume") /\ "resume" \in Signals
    BY DEF ProcessUsbResume, Signals
  <2>2. Pending = {"resume"} /\ Pending' = {} /\ todo = <<>> /\ ~Reported'
    BY <1>2, <2>1, TakesSignal DEF AgreeInv
  <2>3. bus = mux /\ state \notin Extra
    BY <1>2, <2>2 DEF AgreeInv, Unraced, AtRest
  <2>4. result' = [result EXCEPT ![extra] = plug[extra]]
        /\ todo' = TransitionTo(IF result'[extra] = "device"
                                THEN "extra_enabled" ELSE "extra_disabled")
    BY <2>3 DEF ProcessUsbResume, SyncMeasure
  <2>5. result'[extra] = plug[extra]
    BY <2>4 DEF Known
  <2>6. PICK s \in {"extra_enabled", "extra_disabled"} :
          s = (IF result'[extra] = "device" THEN "extra_enabled" ELSE "extra_disabled")
    OBVIOUS
  <2>7. todo' = TransitionTo(s) /\ s \in Targets
        /\ (s = "extra_enabled" <=> plug[extra] = "device")
    BY <2>4, <2>5, <2>6 DEF Targets, States
  <2>8. /\ todo' # <<>> /\ todo' # <<"swap">>
        /\ \A r \in Targets : Toward(todo', r) => r = s
        /\ \A x \in {"perform_switchover", "set_panic", "set_manual"} :
             ~WithCall(todo', x) /\ todo' # <<x>>
    BY <2>7, NewCourse, Zenon
  <2>9. \A r \in {"usb_suspend", "extra_disabled", "extra_enabled"} : r \in Targets
    BY DEF Targets, States
  <2>10. Course'
    BY <2>3, <2>5, <2>7, <2>8, <2>9 DEF Course
  <2> QED
    BY <2>2, <2>8, <2>10, StartAgree
<1> QED
  BY <1>1, <1>2

\* A switchover does nothing while a device is plugged into the extra port, ...
LEMMA SwitchoverAgree ==
  ASSUME Known, AgreeInv, ProcessSwitchover
  PROVE  AgreeInv'
<1> USE SignalFrame
<1>1. CASE raced
  BY <1>1 DEF AgreeInv, Lit
<1>2. CASE ~raced
  <2>1. Taking("switchover") /\ "switchover" \in Signals /\ manual' = manual
    BY DEF ProcessSwitchover, Signals, stateVars
  <2>2. Pending = {"switchover"} /\ Pending' = {} /\ todo = <<>> /\ ~Reported
        /\ ~Reported'
    BY <1>2, <2>1, TakesSignal DEF AgreeInv
  <2>3. /\ bus # extra
        /\ state \in Extra <=> bus = mux
        /\ state = "determine_host" => bus = None
        /\ state = "extra_disabled" => result[extra] # "device" \/ panic
        /\ state = "extra_enabled" => result[extra] = "device" \/ manual
    BY <1>2, <2>2 DEF AgreeInv, Unraced, AtRest
  <2>4. result' = [result EXCEPT ![extra] = plug[extra]]
        /\ todo' = IF result'[extra] = "device" THEN <<>>
                   ELSE TransitionThen("usb_suspend", "perform_switchover")
    BY DEF ProcessSwitchover, SyncMeasure
  <2>5. result'[extra] = plug[extra]
        /\ (state \in Extra => result[extra] = plug[extra])
    BY <1>2, <2>2, <2>4 DEF Known, AgreeInv, Unraced, Alone
  <2>6. CASE result'[extra] = "device"
    <3>1. todo' = <<>>
      BY <2>4, <2>6
    <3>2. AtRest'
      BY <2>1, <2>2, <2>3, <2>5, <3>1 DEF AtRest, Extra
    <3> QED
      BY <2>2, <3>1, <3>2, RestAgree
  <2>7. CASE result'[extra] # "device"
    <3>1. todo' = TransitionThen("usb_suspend", "perform_switchover")
      BY <2>4, <2>7
    <3>2. "usb_suspend" \in Targets /\ Follow["perform_switchover"] = "usb_suspend"
      BY DEF Targets, States, Follow
    <3>3. /\ todo' # <<>> /\ todo' # <<"swap">>
          /\ \A r \in Targets : ~Toward(todo', r)
          /\ \A x \in {"perform_switchover", "set_panic", "set_manual"} :
               (WithCall(todo', x) => x = "perform_switchover") /\ todo' # <<x>>
      BY <3>1, <3>2, NewCourse, Zenon
    <3>4. Course'
      BY <2>3, <3>3 DEF Course, Targets, States
    <3> QED
      BY <2>2, <3>3, <3>4, StartAgree
  <2> QED
    BY <2>6, <2>7
<1> QED
  BY <1>1, <1>2

\* ... and the requests about the extra port leave the connection alone.
LEMMA ManualAgree ==
  ASSUME Known, AgreeInv, ProcessManual
  PROVE  AgreeInv'
<1> USE SignalFrame
<1>1. CASE raced
  BY <1>1 DEF AgreeInv, Lit
<1>2. CASE ~raced
  <2>1. Taking("manual") /\ "manual" \in Signals /\ result' = result
        /\ manual' = (manual \/ state = "extra_enabled")
    BY DEF ProcessManual, Signals, adcVars
  <2>2. Pending = {"manual"} /\ Pending' = {} /\ todo = <<>> /\ ~Reported
        /\ ~Reported'
    BY <1>2, <2>1, TakesSignal DEF AgreeInv
  <2>3. /\ state \in Extra <=> bus = mux
        /\ state = "determine_host" => bus = None
        /\ state = "extra_disabled" => result[extra] # "device" \/ panic
    BY <1>2, <2>2 DEF AgreeInv, Unraced, AtRest
  <2>4. CASE state = "extra_disabled"
    <3>1. todo' = TransitionThen("extra_enabled", "set_manual")
      BY <2>4 DEF ProcessManual
    <3>2. "extra_enabled" \in Targets /\ Follow["set_manual"] = "extra_enabled"
      BY DEF Targets, States, Follow
    <3>3. /\ todo' # <<>> /\ todo' # <<"swap">>
          /\ \A r \in Targets : ~Toward(todo', r)
          /\ \A x \in {"perform_switchover", "set_panic", "set_manual"} :
               (WithCall(todo', x) => x = "set_manual") /\ todo' # <<x>>
      BY <3>1, <3>2, NewCourse, Zenon
    <3>4. Course'
      BY <2>3, <2>4, <3>3 DEF Course, Targets, States, Extra
    <3> QED
      BY <2>2, <3>3, <3>4, StartAgree
  <2>5. CASE state # "extra_disabled"
    <3>1. todo' = <<>>
      BY <2>5 DEF ProcessManual
    <3>2. state = "extra_enabled" => manual'
      BY <2>1
    <3>3. AtRest'
      BY <2>1, <2>2, <2>3, <2>5, <3>1, <3>2 DEF AtRest
    <3> QED
      BY <2>2, <3>1, <3>3, RestAgree
  <2> QED
    BY <2>4, <2>5
<1> QED
  BY <1>1, <1>2

LEMMA AutomaticAgree ==
  ASSUME Known, AgreeInv, ProcessAutomatic
  PROVE  AgreeInv'
<1> USE SignalFrame
<1>1. CASE raced
  BY <1>1 DEF AgreeInv, Lit
<1>2. CASE ~raced
  <2>1. Taking("automatic") /\ "automatic" \in Signals /\ result' = result
        /\ todo' = IF state = "extra_enabled" /\ manual /\ result[extra] # "device"
                   THEN TransitionTo("extra_disabled") ELSE <<>>
    BY DEF ProcessAutomatic, Signals, adcVars
  <2>2. Pending = {"automatic"} /\ Pending' = {} /\ todo = <<>> /\ ~Reported
        /\ ~Reported'
    BY <1>2, <2>1, TakesSignal DEF AgreeInv
  <2>3. /\ state \in Extra <=> bus = mux
        /\ state = "determine_host" => bus = None
        /\ state = "extra_disabled" => result[extra] # "device" \/ panic
        /\ state = "extra_enabled" => result[extra] = "device" \/ manual
        /\ state \in Extra => result[extra] = plug[extra]
    BY <1>2, <2>2 DEF AgreeInv, Unraced, AtRest, Alone
  <2>4. CASE state = "extra_enabled" /\ manual /\ result[extra] # "device"
    <3>1. todo' = TransitionTo("extra_disabled") /\ "extra_disabled" \in Targets
      BY <2>1, <2>4 DEF Targets, States
    <3>2. /\ todo' # <<>> /\ todo' # <<"swap">>
          /\ \A r \in Targets : Toward(todo', r) => r = "extra_disabled"
          /\ \A x \in {"perform_switchover", "set_panic", "set_manual"} :
               ~WithCall(todo', x) /\ todo' # <<x>>
      BY <3>1, NewCourse, Zenon
    <3>3. Course'
      BY <2>1, <2>3, <2>4, <3>2 DEF Course, Targets, States, Extra
    <3> QED
      BY <2>2, <3>2, <3>3, StartAgree
  <2>5. CASE ~(state = "extra_enabled" /\ manual /\ result[extra] # "device")
    <3>1. todo' = <<>>
      BY <2>1, <2>5
    <3>2. state = "extra_enabled" => result[extra] = "device"
      BY <2>3, <2>5
    <3>3. AtRest'
      BY <2>1, <2>2, <2>3, <3>1, <3>2 DEF AtRest
    <3> QED
      BY <2>2, <3>1, <3>3, RestAgree
  <2> QED
    BY <2>4, <2>5
<1> QED
  BY <1>1, <1>2

\* A posted transition is the one the plug asks for.
LEMMA PostedAgree ==
  ASSUME Known, AgreeInv, HandlePosted
  PROVE  AgreeInv'
<1>1. UNCHANGED <<flags, batch, state, host, mux, plug, bus, raced, rgb, result>>
      /\ extra' = extra /\ Pending' = Pending
  BY DEF HandlePosted, stateVars, adcVars, boardVars, envVars, extra, Pending
<1>2. CASE raced
  BY <1>1, <1>2 DEF AgreeInv, Lit
<1>3. CASE ~raced
  <2>1. PICK e \in {"connected", "disconnected"} :
          /\ Getting(e)
          /\ todo' = TransitionTo(IF e = "connected" THEN "extra_enabled"
                                  ELSE "extra_disabled")
    BY DEF HandlePosted
  <2>2. events # <<>> /\ Head(events) = e /\ events' = Tail(events)
    BY <2>1 DEF Getting
  <2>3. \A x : IsPosted(x)' <=> In(Tail(events), x)
    BY <2>2 DEF IsPosted, In
  <2>4. \A x : In(Tail(events), x) <=> IsPosted(x) /\ x # e
    BY <2>2, PostedOps DEF Known
  <2>5. IsPosted(e)
    <3>1. 1 \in DOMAIN events /\ events[1] = e
      BY <2>2 DEF Known, Queue
    <3> QED
      BY <3>1 DEF IsPosted
  <2>6. Timely
    BY <1>3 DEF AgreeInv, Unraced
  <2>7. /\ bus = mux /\ Pending = {} /\ result[extra] = plug[extra]
        /\ e = "connected" <=> plug[extra] = "device"
    BY <2>5, <2>6 DEF Timely
  <2>8. ~Reported'
    <3>1. ~(IsPosted("connected") /\ IsPosted("disconnected"))
      BY <2>6 DEF Timely
    <3> QED
      BY <2>1, <2>3, <2>4, <2>5, <3>1 DEF Reported
  <2>9. PICK s \in {"extra_enabled", "extra_disabled"} :
          s = (IF e = "connected" THEN "extra_enabled" ELSE "extra_disabled")
    OBVIOUS
  <2>10. todo' = TransitionTo(s) /\ s \in Targets
         /\ (s = "extra_enabled" <=> plug[extra] = "device")
    BY <2>1, <2>7, <2>9 DEF Targets, States
  <2>11. /\ todo' # <<>> /\ todo' # <<"swap">>
         /\ \A r \in Targets : Toward(todo', r) => r = s
         /\ \A x \in {"perform_switchover", "set_panic", "set_manual"} :
              ~WithCall(todo', x) /\ todo' # <<x>>
    BY <2>10, NewCourse, Zenon
  <2>12. \A r \in {"usb_suspend", "extra_disabled", "extra_enabled"} : r \in Targets
    BY DEF Targets, States
  <2>13. Course'
    BY <1>1, <2>7, <2>10, <2>11, <2>12 DEF Course
  <2> QED
    BY <1>1, <2>7, <2>8, <2>11, <2>13, StartAgree
<1> QED
  BY <1>2, <1>3

\* A timeout swaps the ports while no host is known, or cuts the extra port off.
LEMMA TimeoutAgree ==
  ASSUME Known, AgreeInv, TimeoutDetermine \/ TimeoutExtra
  PROVE  AgreeInv'
<1>1. UNCHANGED <<flags, events, state, plug, bus, raced, rgb, result, panic, manual>>
      /\ Taking("timeout") /\ UNCHANGED flags
  BY DEF TimeoutDetermine, TimeoutExtra, stateVars, adcVars, boardVars, envVars
<1>2. /\ IsPosted("connected")' <=> IsPosted("connected")
      /\ IsPosted("disconnected")' <=> IsPosted("disconnected")
  BY <1>1 DEF IsPosted
<1>3. CASE raced
  BY <1>1, <1>3 DEF AgreeInv, Lit
<1>4. CASE ~raced
  <2>1. Pending = {} /\ Pending' = {} /\ todo = <<>> /\ Unraced
    BY <1>1, <1>4, TakesTimeout DEF AgreeInv
  <2>2. CASE TimeoutDetermine
    <3>1. state = "determine_host" /\ host' = host
      BY <2>2 DEF TimeoutDetermine, stateVars
    <3>2. bus = None /\ bus' = None
      BY <1>1, <2>1, <3>1 DEF Unraced, AtRest
    <3>3. ~IsPosted("connected")' /\ ~IsPosted("disconnected")'
      BY <1>2, <2>1, <3>1 DEF Unraced, Timely, Extra
    <3>4. CASE UNCHANGED <<mux, todo>>
      BY <1>1, <1>2, <2>1, <3>1, <3>4, CalmAgree
    <3>5. CASE mux' = extra /\ todo' = <<"swap">>
      <4>1. bus' # mux'
        BY <3>2, <3>5 DEF Known, Ports, None
      <4>2. Course'
        BY <3>2, <3>5, <4>1 DEF Course, Toward, WithCall, Targets, States, Follow
      <4>3. ~Reported'
        BY <3>3 DEF Reported
      <4> QED
        BY <1>1, <2>1, <3>5, <4>2, <4>3, StartAgree
    <3> QED
      BY <2>2, <3>4, <3>5 DEF TimeoutDetermine
  <2>3. CASE TimeoutExtra /\ state = "extra_enabled"
    <3>1. UNCHANGED <<host, mux>> /\ extra' = extra
      BY <2>3 DEF TimeoutExtra, stateVars, boardVars, extra
    <3>2. todo' = TransitionThen("extra_disabled", "set_panic")
      BY <2>3 DEF TimeoutExtra
    <3>3. "extra_disabled" \in Targets /\ Follow["set_panic"] = "extra_disabled"
      BY DEF Targets, States, Follow
    <3>4. /\ todo' # <<>> /\ todo' # <<"swap">> /\ WithCall(todo', "set_panic")
          /\ \A r \in Targets : ~Toward(todo', r)
          /\ \A x \in {"perform_switchover", "set_panic", "set_manual"} :
               (WithCall(todo', x) => x = "set_panic") /\ todo' # <<x>>
      <4>1. WithCall(todo', "set_panic")
        BY <3>2, <3>3 DEF WithCall, TransitionThen
      <4> QED
        BY <3>2, <3>3, <4>1, NewCourse, Zenon
    <3>5. bus = mux
      BY <2>1, <2>3 DEF Unraced, AtRest, Extra
    <3>6. Course'
      BY <1>1, <3>1, <3>4, <3>5 DEF Course, Targets, States
    <3>7. Timely'
      BY <1>1, <1>2, <2>1, <2>3, <3>1, <3>4, <3>5 DEF Unraced, Timely
    <3>8. AtRest' /\ Alone'
      BY <2>1, <3>4 DEF AtRest, Alone
    <3> QED
      BY <1>1, <3>6, <3>7, <3>8 DEF AgreeInv, Lit, Unraced
  <2>4. CASE TimeoutExtra /\ state # "extra_enabled"
    <3>1. UNCHANGED <<host, mux>> /\ todo' = todo
      BY <2>1, <2>4 DEF TimeoutExtra, stateVars, boardVars
    <3> QED
      BY <1>1, <1>2, <2>1, <3>1, CalmAgree
  <2> QED
    BY <2>2, <2>3, <2>4
<1> QED
  BY <1>3, <1>4

\* Within a transition no signal waits, and a report only for the cut.
LEMMA Within ==
  ASSUME Known, AgreeInv, ~raced, NEW op, Doing(op)
  PROVE  /\ Course /\ todo # <<>> /\ Head(todo) = op /\ todo' = Tail(todo)
         /\ Pending' = {} /\ raced' = raced /\ plug' = plug /\ bus' = bus
         /\ ~IsPosted("connected")'
         /\ IsPosted("disconnected")' =>
              /\ state \in Extra /\ WithCall(todo, "set_panic")
              /\ plug[extra] # "device" /\ result[extra] = plug[extra]
              /\ bus = mux
<1>1. todo # <<>> /\ Head(todo) = op /\ todo' = Tail(todo)
      /\ UNCHANGED <<flags, batch, events, raced, plug, bus>>
  BY DEF Doing, envVars
<1>2. Pending = {} /\ Pending' = {}
  BY <1>1 DEF AgreeInv, Unraced, Alone, Pending
<1>3. \A x : IsPosted(x)' <=> IsPosted(x)
  BY <1>1 DEF IsPosted
<1> QED
  BY <1>1, <1>2, <1>3 DEF AgreeInv, Unraced, Timely

LEMMA EndAgree ==
  ASSUME Known, AgreeInv, EndDetermine \/ EndSuspend \/ EndDisabled \/ EndEnabled
  PROVE  AgreeInv'
<1>1. Doing("end") /\ UNCHANGED <<state, host, mux, rgb, raced>> /\ extra' = extra
      /\ (result' = result \/ result' = [result EXCEPT ![host] = plug[host]])
  BY DEF EndDetermine, EndSuspend, EndDisabled, EndEnabled, SyncMeasure, boardVars,
         Doing, envVars, extra
<1>2. result'[extra] = result[extra]
  BY <1>1 DEF Known
<1>3. CASE raced
  BY <1>1, <1>3 DEF AgreeInv, Lit
<1>4. CASE ~raced
  <2>1. /\ Course /\ todo # <<>> /\ Head(todo) = "end" /\ todo' = Tail(todo)
        /\ Pending' = {} /\ plug' = plug /\ bus' = bus
        /\ ~IsPosted("connected")'
        /\ IsPosted("disconnected")' =>
             /\ state \in Extra /\ WithCall(todo, "set_panic")
             /\ plug[extra] # "device" /\ result[extra] = plug[extra]
             /\ bus = mux
    BY <1>1, <1>4, Within
  <2>2. Shape(todo) /\ todo' # <<>> /\ todo' # <<"swap">>
    BY <2>1, RestOfShape DEF Known, Between
  <2>3. /\ \A s \in Targets : Toward(todo', s) => Toward(todo, s)
        /\ \A x \in {"perform_switchover", "set_panic", "set_manual"} :
             /\ WithCall(todo', x) => WithCall(todo, x)
             /\ WithCall(todo, x) => WithCall(todo', x)
             /\ todo' = <<x>> => Follow[x] = "end"
    BY <2>1, <2>2, TailOfCourse
  <2>4. \A x \in {"perform_switchover", "set_panic", "set_manual"} : Follow[x] # "end"
    BY DEF Follow
  <2>5. Course'
    BY <1>1, <1>2, <2>1, <2>2, <2>3, <2>4 DEF Course, Targets, States
  <2>6. Timely'
    BY <1>1, <1>2, <2>1, <2>3 DEF Timely
  <2>7. AtRest' /\ Alone'
    BY <2>1, <2>2 DEF AtRest, Alone
  <2> QED
    BY <1>1, <2>5, <2>6, <2>7 DEF AgreeInv, Unraced, Lit
<1> QED
  BY <1>3, <1>4

LEMMA BeginAgree ==
  ASSUME Known, AgreeInv, BeginSuspend \/ BeginDisabled \/ BeginEnabled
  PROVE  AgreeInv'
<1>1. PICK s \in Targets : Doing(s) /\ state' = s /\ (rgb' <=> s \in Extra)
  <2>1. CASE BeginSuspend
    BY <2>1 DEF BeginSuspend, Targets, States, Extra
  <2>2. CASE BeginDisabled
    BY <2>2 DEF BeginDisabled, Targets, States, Extra
  <2>3. CASE BeginEnabled
    BY <2>3 DEF BeginEnabled, Targets, States, Extra
  <2> QED
    BY <2>1, <2>2, <2>3
<1>2. UNCHANGED <<host, mux, result, raced>> /\ extra' = extra
  BY DEF BeginSuspend, BeginDisabled, BeginEnabled, Doing, envVars, extra
<1>3. Lit'
  BY <1>1 DEF Lit
<1>4. CASE raced
  BY <1>2, <1>3, <1>4 DEF AgreeInv
<1>5. CASE ~raced
  <2>1. /\ Course /\ todo # <<>> /\ Head(todo) = s /\ todo' = Tail(todo)
        /\ Pending' = {} /\ plug' = plug /\ bus' = bus
        /\ ~IsPosted("connected")'
        /\ IsPosted("disconnected")' =>
             /\ state \in Extra /\ WithCall(todo, "set_panic")
             /\ plug[extra] # "device" /\ result[extra] = plug[extra]
             /\ bus = mux
    BY <1>1, <1>5, Within
  <2>2. /\ \A r \in Targets : Toward(todo', r) => Toward(todo, r)
        /\ \A x \in {"perform_switchover", "set_panic", "set_manual"} :
             /\ WithCall(todo', x) => WithCall(todo, x)
             /\ WithCall(todo, x) /\ todo' # <<>> => WithCall(todo', x)
             /\ todo' = <<x>> => s = Follow[x]
        /\ todo' = <<>> =>
             \/ s \in Targets /\ Toward(todo, s)
             \/ s \in {"perform_switchover", "set_panic", "set_manual", "swap"}
        /\ todo' # <<"swap">>
    <3>1. todo = <<"swap">> => s = "swap"
      BY <2>1
    <3> QED
      BY <2>1, <3>1, TailOfCourse DEF Known
  <2>3. s \notin {"perform_switchover", "set_panic", "set_manual", "swap"}
        /\ s # "end" /\ s # "determine_host"
    BY DEF Targets, States
  <2>4. Course'
    BY <1>1, <1>2, <2>1, <2>2 DEF Course, Targets, States, Follow
  <2>5. IsPosted("disconnected")' => s = "extra_disabled"
    <3>1. WithCall(todo, "set_panic") =>
            \/ Head(todo) = "end" \/ Head(todo) = Follow["set_panic"]
            \/ Head(todo) = "set_panic"
      BY DEF WithCall
    <3> QED
      BY <2>1, <2>3, <3>1 DEF Follow
  <2>6. Timely'
    BY <1>1, <1>2, <2>1, <2>2, <2>5 DEF Timely, Extra
  <2>7. ASSUME todo' = <<>> PROVE AtRest'
    <3>1. Toward(todo, s)
      BY <2>2, <2>3, <2>7
    <3>2. /\ s = "usb_suspend" => bus # mux
          /\ s = "extra_disabled" => bus = mux /\ result[extra] # "device"
          /\ s = "extra_enabled" => bus = mux /\ result[extra] = "device"
      BY <2>1, <3>1 DEF Course
    <3>3. s \in {"usb_suspend", "extra_disabled", "extra_enabled"}
      BY DEF Targets, States
    <3> QED
      BY <1>1, <1>2, <2>1, <3>2, <3>3 DEF AtRest, Extra
  <2>8. AtRest'
    BY <2>7 DEF AtRest
  <2>9. Alone'
    BY <2>1 DEF Alone
  <2> QED
    BY <1>3, <2>4, <2>6, <2>8, <2>9 DEF AgreeInv, Unraced
<1> QED
  BY <1>4, <1>5

\* A switchover keeps the bus that is down from becoming the one of the port selected,
\* through both of its steps.
LEMMA SelectAgree ==
  ASSUME Known, AgreeInv, PerformSwitchover
  PROVE  AgreeInv'
<1>1. UNCHANGED <<flags, batch, events, state, host, rgb, plug, bus, raced>>
  BY DEF PerformSwitchover, stateVars, envVars
<1>2. todo = <<"perform_switchover">>
  BY RestOfShape DEF PerformSwitchover, Known
<1>3. todo' = <<"swap">> /\ mux' = extra
  BY <1>2 DEF PerformSwitchover
<1>4. CASE raced
  BY <1>1, <1>4 DEF AgreeInv, Lit
<1>5. CASE ~raced
  <2>1. Pending' = {} /\ ~Reported'
    <3>1. Pending = {} /\ ~IsPosted("connected")
      BY <1>2, <1>5 DEF AgreeInv, Unraced, Alone, Timely
    <3>2. ~WithCall(todo, "set_panic")
      BY <1>2 DEF WithCall, Follow
    <3>3. ~IsPosted("disconnected")
      BY <1>2, <1>5, <3>2 DEF AgreeInv, Unraced, Timely
    <3> QED
      BY <1>1, <3>1, <3>3 DEF Pending, Reported, IsPosted
  <2>2. WithCall(todo, "perform_switchover") /\ state = "usb_suspend"
    BY <1>2 DEF WithCall, Known
  <2>3. bus # extra
    BY <1>5, <2>2 DEF AgreeInv, Unraced, Course
  <2>4. Course'
    BY <1>1, <1>3, <2>2, <2>3 DEF Course, Toward, WithCall, Targets, States, Follow
  <2> QED
    BY <1>1, <1>3, <2>1, <2>4, StartAgree
<1> QED
  BY <1>4, <1>5

LEMMA SwapAgree ==
  ASSUME Known, AgreeInv, SwapHost
  PROVE  AgreeInv'
<1>1. Doing("swap") /\ UNCHANGED <<state, rgb, mux, raced>>
  BY DEF SwapHost, Doing, boardVars, envVars
<1>2. CASE raced
  BY <1>1, <1>2 DEF AgreeInv, Lit
<1>3. CASE ~raced
  <2>1. /\ Course /\ todo # <<>> /\ Head(todo) = "swap" /\ todo' = Tail(todo)
        /\ Pending' = {} /\ plug' = plug /\ bus' = bus
        /\ ~IsPosted("connected")' /\ (IsPosted("disconnected")' => state \in Extra)
    BY <1>1, <1>3, Within
  <2>2. todo = <<"swap">> /\ todo' = <<>>
    <3>1. todo = <<"swap">>
      BY <2>1, RestOfShape DEF Known
    <3> QED
      BY <2>1, <3>1
  <2>3. state \notin Extra /\ bus # mux /\ (state = "determine_host" => bus = None)
    BY <2>1, <2>2 DEF Known, Course
  <2>4. ~Reported'
    BY <2>1, <2>3 DEF Reported
  <2>5. AtRest'
    BY <1>1, <2>1, <2>3 DEF AtRest, Extra
  <2> QED
    BY <1>1, <2>1, <2>2, <2>4, <2>5, RestAgree
<1> QED
  BY <1>2, <1>3

\* The other calls that end a handler.
LEMMA CallAgree ==
  ASSUME Known, AgreeInv, SetPanicDisabled \/ SetManual
  PROVE  AgreeInv'
<1>1. PICK x \in {"set_panic", "set_manual"} : Doing(x)
  BY DEF SetPanicDisabled, SetManual
<1>2. UNCHANGED <<state, rgb, result, raced>>
  BY DEF SetPanicDisabled, SetManual, Doing, boardVars, envVars
<1>3. CASE raced
  BY <1>2, <1>3 DEF AgreeInv, Lit
<1>4. CASE ~raced
  <2>1. /\ Course /\ todo # <<>> /\ Head(todo) = x /\ todo' = Tail(todo)
        /\ Pending' = {} /\ plug' = plug /\ bus' = bus
        /\ ~IsPosted("connected")'
        /\ IsPosted("disconnected")' =>
             /\ state \in Extra /\ WithCall(todo, "set_panic")
             /\ plug[extra] # "device" /\ result[extra] = plug[extra]
             /\ bus = mux
    BY <1>1, <1>4, Within
  <2>2. todo = <<x>> /\ todo' = <<>> /\ WithCall(todo, x)
    <3>1. x \notin Targets /\ x # "end"
          /\ \A y \in {"perform_switchover", "set_panic", "set_manual"} : Follow[y] # x
      BY DEF Targets, States, Follow
    <3>2. CASE \E s \in Targets : todo = <<"end", s>> \/ todo = <<s>>
      BY <2>1, <3>1, <3>2
    <3>3. CASE \E y \in {"perform_switchover", "set_panic", "set_manual"} :
                 todo = <<"end", Follow[y], y>> \/ todo = <<Follow[y], y>> \/ todo = <<y>>
      <4>1. PICK y \in {"perform_switchover", "set_panic", "set_manual"} :
                 todo = <<"end", Follow[y], y>> \/ todo = <<Follow[y], y>> \/ todo = <<y>>
        BY <3>3
      <4>2. todo = <<y>> /\ y = x
        BY <2>1, <3>1, <4>1
      <4> QED
        BY <2>1, <4>2 DEF WithCall
    <3>4. CASE todo = <<"swap">>
      BY <2>1, <3>4
    <3> QED
      BY <2>1, <3>2, <3>3, <3>4 DEF Known, Shape
  <2>3. Alone' /\ Course'
    BY <2>1, <2>2 DEF Alone, Course, Toward, WithCall
  <2>4. CASE SetPanicDisabled
    <3>1. x = "set_panic" /\ UNCHANGED <<mux, host, manual>> /\ extra' = extra
      BY <2>1, <2>4 DEF SetPanicDisabled, Doing, boardVars, extra
    <3>2. panic'
      BY <2>4 DEF SetPanicDisabled
    <3>3. state = "extra_disabled" /\ bus = mux
      BY <2>1, <2>2, <3>1 DEF Course
    <3>4. AtRest'
      BY <1>2, <2>1, <3>1, <3>2, <3>3 DEF AtRest, Extra
    <3>5. Timely'
      BY <1>2, <2>1, <2>2, <3>1 DEF Timely
    <3> QED
      BY <1>2, <2>3, <3>4, <3>5 DEF AgreeInv, Lit, Unraced
  <2>5. CASE SetManual
    <3>1. x = "set_manual" /\ UNCHANGED <<mux, host, panic>> /\ extra' = extra
      BY <2>1, <2>5 DEF SetManual, Doing, boardVars, extra
    <3>2. manual'
      BY <2>5 DEF SetManual
    <3>3. state = "extra_enabled" /\ bus = mux
      BY <2>1, <2>2, <3>1 DEF Course
    <3>4. AtRest'
      BY <1>2, <2>1, <3>1, <3>2, <3>3 DEF AtRest, Extra
    <3>5. Timely'
      BY <1>2, <2>1, <2>2, <3>1 DEF Timely
    <3> QED
      BY <1>2, <2>3, <3>4, <3>5 DEF AgreeInv, Lit, Unraced
  <2> QED
    BY <2>4, <2>5
<1> QED
  BY <1>3, <1>4

\* A report posts the transition that the plug asks for, and only to a thread
\* that no signal waits for.
LEMMA ReportAgree ==
  ASSUME Known, AgreeInv, NEW p \in Ports, ReportCon(p)
  PROVE  AgreeInv'
<1> DEFINE r == result'[extra]
<1>1. /\ UNCHANGED <<flags, batch, todo, state, host, manual, mux, rgb, plug, bus>>
      /\ extra' = extra /\ Pending' = Pending
  BY DEF ReportCon, boardVars, extra, Pending
<1>2. /\ p = extra => r = plug[extra]
      /\ p # extra => r = result[extra]
  BY DEF ReportCon, Known
<1>3. Lit'
  BY <1>1 DEF AgreeInv, Lit
<1>4. CASE raced'
  BY <1>3, <1>4 DEF AgreeInv
<1>5. CASE ~raced'
  <2>1. Unraced /\ (events' = events \/ todo = <<>>)
    BY <1>5 DEF ReportCon, AgreeInv
  <2>2. (panic' <=> panic /\ ~(state = "extra_disabled" /\ r # "device"))
    BY DEF ReportCon, Known
  <2>3. \/ state = "extra_disabled" /\ r = "device" /\ ~panic
           /\ events' = Posting("connected")
        \/ state = "extra_enabled" /\ r # "device" /\ ~manual
           /\ events' = Posting("disconnected")
        \/ /\ ~(state = "extra_disabled" /\ r = "device" /\ ~panic)
           /\ ~(state = "extra_enabled" /\ r # "device" /\ ~manual)
           /\ events' = events
    <3>1. events' =
            IF state = "extra_disabled" /\ r = "device" /\ ~panic
            THEN Posting("connected")
            ELSE IF state = "extra_enabled" /\ r # "device" /\ ~manual
                 THEN Posting("disconnected") ELSE events
      BY DEF ReportCon
    <3> HIDE DEF r
    <3> QED
      BY <3>1
  <2>4. \A x : IsPosted(x)' <=> In(events', x)
    BY DEF IsPosted, In
  <2>5. \A x : IsPosted(x) <=> In(events, x)
    BY DEF IsPosted, In
  <2>6. \A e, x : In(Posting(e), x) <=> IsPosted(x) \/ x = e
    BY PostedOps DEF Known
  <2> HIDE DEF r
  <2>7. \/ /\ state = "extra_disabled" /\ r = "device" /\ ~panic
           /\ IsPosted("connected")'
           /\ IsPosted("disconnected")' <=> IsPosted("disconnected")
        \/ /\ state = "extra_enabled" /\ r # "device" /\ ~manual
           /\ IsPosted("disconnected")'
           /\ IsPosted("connected")' <=> IsPosted("connected")
        \/ /\ ~(state = "extra_disabled" /\ r = "device" /\ ~panic)
           /\ ~(state = "extra_enabled" /\ r # "device" /\ ~manual)
           /\ IsPosted("connected")' <=> IsPosted("connected")
           /\ IsPosted("disconnected")' <=> IsPosted("disconnected")
    BY <2>3, <2>4, <2>5, <2>6
  <2>8. Pending # {} =>
          /\ ~(state = "extra_disabled" /\ r = "device" /\ ~panic)
          /\ ~(state = "extra_enabled" /\ r # "device" /\ ~manual)
    BY <1>2, <2>1 DEF Unraced, Alone, AtRest, Extra
  <2>9. Course'
    BY <1>1, <1>2, <2>1 DEF Unraced, Course, Toward, WithCall, r
  <2>10. Alone'
    BY <1>1, <1>2, <2>1, <2>7, <2>8 DEF Unraced, Alone, Reported, r
  <2>11. AtRest'
    BY <1>1, <2>1, <2>2, <2>7 DEF Unraced, AtRest, Reported, Extra, r
  <2>12. (\E x \in {"connected", "disconnected"} : IsPosted(x)' /\ ~IsPosted(x)) =>
           todo = <<>>
    BY <2>1, <2>4, <2>5
  <2>13. Timely'
    <3>1. ASSUME IsPosted("connected")', ~IsPosted("connected")
          PROVE  /\ state = "extra_disabled" /\ todo = <<>> /\ bus = mux /\ Pending = {}
                 /\ plug[extra] = "device" /\ r = "device"
      <4>1. state = "extra_disabled" /\ r = "device" /\ ~panic /\ todo = <<>>
        BY <2>7, <2>12, <3>1
      <4>2. Pending = {} /\ bus = mux
        BY <2>1, <2>8, <4>1 DEF Unraced, AtRest, Extra
      <4>3. p # extra => FALSE
        BY <1>2, <2>1, <3>1, <4>1 DEF Unraced, AtRest, Reported, Timely
      <4> QED
        BY <1>2, <4>1, <4>2, <4>3
    <3>2. ASSUME IsPosted("disconnected")', ~IsPosted("disconnected")
          PROVE  /\ state = "extra_enabled" /\ todo = <<>> /\ bus = mux /\ Pending = {}
                 /\ plug[extra] # "device" /\ r = plug[extra]
      <4>1. state = "extra_enabled" /\ r # "device" /\ ~manual /\ todo = <<>>
        BY <2>7, <2>12, <3>2
      <4>2. Pending = {} /\ bus = mux
        BY <2>1, <2>8, <4>1 DEF Unraced, AtRest, Extra
      <4>3. p # extra => FALSE
        BY <1>2, <2>1, <3>2, <4>1 DEF Unraced, AtRest, Reported, Timely
      <4> QED
        BY <1>2, <4>1, <4>2, <4>3
    <3>3. IsPosted("connected") =>
            /\ state = "extra_disabled" /\ todo = <<>> /\ bus = mux /\ Pending = {}
            /\ plug[extra] = "device" /\ r = "device"
      BY <1>2, <2>1 DEF Unraced, Timely
    <3>4. IsPosted("disconnected") =>
            /\ state \in Extra /\ (todo = <<>> \/ WithCall(todo, "set_panic"))
            /\ bus = mux /\ Pending = {}
            /\ plug[extra] # "device" /\ r = plug[extra]
      BY <1>2, <2>1 DEF Unraced, Timely
    <3> QED
      BY <1>1, <3>1, <3>2, <3>3, <3>4 DEF Timely, Extra, r
  <2> QED
    BY <1>3, <2>9, <2>10, <2>11, <2>13 DEF AgreeInv, Unraced
<1> QED
  BY <1>4, <1>5

\* The other interrupts and the supply post no transition and raise no signal.
LEMMA InterruptAgree ==
  ASSUME Known, AgreeInv,
         \/ Report5V
         \/ \E p \in Ports : Tick(p)
         \/ \E t \in {"retry", "blink", "cut"} : Expire(t)
         \/ \E v \in {"low", "ok"} : Supply(v)
  PROVE  AgreeInv'
<1>1. /\ UNCHANGED <<state, panic, todo, result, mux, host, plug, bus, rgb, manual,
                     raced, batch>>
      /\ flags' \in {flags, flags \cup {"timeout"}}
      /\ events' = events \/ \E p \in Ports : events' = Append(events, p)
  <2>1. CASE Report5V
    BY <2>1 DEF Report5V, stateVars, threadVars, boardVars, envVars
  <2>2. ASSUME NEW p \in Ports, Tick(p)
        PROVE  /\ UNCHANGED <<state, panic, todo, result, mux, host, plug, bus, rgb,
                              manual, raced, batch, flags>>
               /\ events' = Append(events, p)
    BY <2>2 DEF Tick, stateVars, adcVars, boardVars, envVars
  <2>3. ASSUME NEW t \in {"retry", "blink", "cut"}, Expire(t)
        PROVE  /\ UNCHANGED <<state, panic, todo, result, mux, host, plug, bus, rgb,
                              manual, raced, batch, events>>
               /\ flags' = flags \cup {"timeout"}
    BY <2>3 DEF Expire, stateVars, boardVars, envVars
  <2>4. ASSUME NEW v \in {"low", "ok"}, Supply(v)
        PROVE  UNCHANGED <<state, panic, todo, result, mux, host, plug, bus, rgb,
                           manual, raced, batch, events, flags>>
    BY <2>4 DEF Supply, stateVars, threadVars, adcVars, boardVars
  <2> QED
    BY <2>1, <2>2, <2>3, <2>4
<1>2. Pending' = Pending /\ Pending \cap flags' = Pending \cap flags
  BY <1>1 DEF Pending, Signals
<1>3. /\ IsPosted("connected")' <=> IsPosted("connected")
      /\ IsPosted("disconnected")' <=> IsPosted("disconnected")
  <2>1. CASE events' = events
    BY <2>1 DEF IsPosted
  <2>2. CASE \E p \in Ports : events' = Append(events, p)
    <3>1. PICK p \in Ports : events' = Append(events, p)
      BY <2>2
    <3>2. \A x : IsPosted(x)' <=> In(Append(events, p), x)
      BY <3>1 DEF IsPosted, In
    <3>3. \A x : In(Append(events, p), x) <=> IsPosted(x) \/ x = p
      BY PostedOps DEF Known
    <3>4. p # "connected" /\ p # "disconnected"
      BY DEF Ports
    <3> QED
      BY <3>2, <3>3, <3>4
  <2> QED
    BY <1>1, <2>1, <2>2
<1>4. CASE ~raced
  <2>1. Pending \cap flags' # {} => batch' = {}
    BY <1>1, <1>2, <1>4 DEF AgreeInv, Unraced, Alone
  <2> QED
    BY <1>1, <1>2, <1>3, <2>1, CalmAgree
<1>5. CASE raced
  BY <1>1, <1>5 DEF AgreeInv, Lit
<1> QED
  BY <1>4, <1>5

\* Bus, users and plugs come to a thread that has dealt with everything.
LEMMA EnvironmentAgree ==
  ASSUME Known, AgreeInv,
         \/ BusResume \/ BusSuspend
         \/ \E f \in Requests : Request(f)
         \/ \E p \in Ports, what \in {"none", "device", "host"} : Replug(p, what)
  PROVE  AgreeInv'
<1>1. /\ UNCHANGED <<state, panic, todo, result, mux, host, rgb, manual, batch, events>>
      /\ extra' = extra /\ (Reported' <=> Reported)
  BY DEF BusResume, BusSuspend, Request, Signal, Replug, stateVars, threadVars,
         adcVars, boardVars, extra, Reported, IsPosted
<1>2. Lit'
  BY <1>1 DEF AgreeInv, Lit
<1>3. ~raced' => ~raced /\ Dealt /\ (BusSuspend \/ bus \in {None, mux})
  BY DEF BusResume, BusSuspend, Request, Replug, Settled, Known
<1>4. CASE raced'
  BY <1>2, <1>4 DEF AgreeInv
<1>5. CASE ~raced'
  <2>1. /\ todo = <<>> /\ batch = {} /\ flags = {} /\ ~Reported /\ Pending = {}
        /\ state \in Extra => result[extra] = plug[extra]
    BY <1>3, <1>5 DEF Dealt, Reported, Pending
  <2>2. /\ state \in Extra <=> bus = mux
        /\ state = "determine_host" => bus = None
        /\ state = "extra_disabled" => result[extra] # "device" \/ panic
        /\ state = "extra_enabled" => result[extra] = "device" \/ manual
    BY <1>3, <1>5, <2>1 DEF AgreeInv, Unraced, AtRest
  <2>3. ASSUME NEW f \in Signals, flags' = flags \cup {f}
        PROVE  Pending' = {f}
    BY <1>1, <2>1, <2>3 DEF Pending
  <2>4. ASSUME NEW f \in Signals, Pending' = {f}, plug' = plug, AtRest'
        PROVE  AgreeInv'
    <3>1. Alone'
      BY <1>1, <2>1, <2>4 DEF Alone
    <3>2. Course' /\ Timely'
      BY <1>1, <2>1 DEF Course, Timely, Toward, WithCall, Reported
    <3> QED
      BY <1>2, <2>4, <3>1, <3>2 DEF AgreeInv, Unraced
  <2>5. CASE BusResume
    <3>1. bus = None /\ bus' = mux /\ plug' = plug /\ "resume" \in Signals
          /\ Pending' = {"resume"}
      BY <2>3, <2>5 DEF BusResume, Signal, Signals
    <3>2. state \notin Extra
      BY <2>2, <3>1 DEF Known, Ports, None
    <3>3. AtRest'
      BY <1>1, <2>1, <3>1, <3>2 DEF AtRest, Extra
    <3> QED
      BY <2>4, <3>1, <3>3
  <2>6. CASE BusSuspend
    <3>1. bus' = None /\ plug' = plug /\ "suspend" \in Signals
          /\ Pending' = {"suspend"}
      BY <2>3, <2>6 DEF BusSuspend, Signal, Signals
    <3>2. AtRest'
      BY <1>1, <2>1, <2>2, <3>1 DEF AtRest
    <3> QED
      BY <2>4, <3>1, <3>2
  <2>7. ASSUME NEW f \in Requests, Request(f)
        PROVE  AgreeInv'
    <3>1. f \in {"switchover", "manual", "automatic"} /\ f \in Signals
          /\ bus' = bus /\ plug' = plug /\ flags' = flags \cup {f}
      BY <2>7, HubAssumption DEF Request, Signal, Signals
    <3>2. Pending' = {f}
      BY <2>3, <3>1
    <3>3. bus # extra
      <4>1. ~BusSuspend
        BY <1>1, <2>7, <3>1, <3>2 DEF BusSuspend
      <4> QED
        BY <1>3, <1>5, <2>1, <4>1 DEF Known, Ports, None
    <3>4. AtRest'
      BY <1>1, <2>1, <2>2, <3>1, <3>2, <3>3 DEF AtRest
    <3> QED
      BY <2>4, <3>1, <3>2, <3>4
  <2>8. ASSUME NEW p \in Ports, NEW what \in {"none", "device", "host"}, Replug(p, what)
        PROVE  AgreeInv'
    <3>1. bus' = bus /\ flags' = flags
      BY <2>8 DEF Replug, threadVars
    <3>2. Pending' = {}
      BY <1>1, <2>1, <3>1 DEF Pending
    <3>3. AtRest'
      BY <1>1, <2>1, <2>2, <3>1, <3>2 DEF AtRest
    <3> QED
      BY <1>1, <2>1, <3>2, <3>3, RestAgree
  <2> QED
    BY <2>5, <2>6, <2>7, <2>8
<1> QED
  BY <1>4, <1>5

LEMMA InitAgree ==
  Init => AgreeInv
<1> SUFFICES ASSUME Init
             PROVE  AgreeInv
  OBVIOUS
<1>1. todo = <<>> /\ Pending = {} /\ ~Reported /\ Lit
  BY DEF Init, Pending, Reported, IsPosted, Lit, Extra
<1>2. mux \in Ports /\ bus # mux
  BY DEF Init, Ports, None
<1>3. Course /\ Alone /\ Timely
  BY <1>1 DEF Course, Alone, Timely, Toward, WithCall, Reported
<1>4. AtRest
  BY <1>1, <1>2 DEF Init, AtRest, Extra
<1> QED
  BY <1>1, <1>3, <1>4 DEF AgreeInv, Unraced

LEMMA AgreeStep ==
  Known /\ AgreeInv /\ [Next]_vars => AgreeInv'
<1> SUFFICES ASSUME Known, AgreeInv, [Next]_vars
             PROVE  AgreeInv'
  OBVIOUS
<1>1. CASE Handler
  BY <1>1, WaitAgree, PostedAgree, SuspendAgree, ResumeAgree, SwitchoverAgree,
     ManualAgree, AutomaticAgree, TimeoutAgree DEF Handler
<1>2. CASE Transition
  BY <1>2, EndAgree, BeginAgree, SelectAgree, SwapAgree, CallAgree DEF Transition
<1>3. CASE Wait
  BY <1>3, WaitAgree
<1>4. CASE Interrupt
  BY <1>4, ReportAgree, InterruptAgree DEF Interrupt, Adc
<1>5. CASE Environment
  BY <1>5, EnvironmentAgree, InterruptAgree DEF Environment
<1>6. CASE UNCHANGED vars
  <2>1. UNCHANGED <<flags, batch, todo, events, state, host, panic, manual, result,
                    mux, rgb, plug, bus, raced>>
    BY <1>6 DEF vars, stateVars, threadVars, adcVars, boardVars, envVars
  <2>2. Pending' = Pending /\ (\A x : IsPosted(x)' <=> IsPosted(x))
    BY <2>1 DEF Pending, IsPosted
  <2>3. CASE raced
    BY <2>1, <2>3 DEF AgreeInv, Lit
  <2>4. CASE ~raced
    <3>1. Pending \cap flags' # {} => batch' = {}
      BY <2>1, <2>4 DEF AgreeInv, Unraced, Alone
    <3> QED
      BY <2>1, <2>2, <3>1, CalmAgree
  <2> QED
    BY <2>3, <2>4
<1> QED
  BY <1>1, <1>2, <1>3, <1>4, <1>5, <1>6 DEF Next, Thread

\* AgreesUnlessRaced: whatever the plugs, the hosts and the users do, and in
\* whatever order the interrupts come, the transitions of usbhub_states.cpp leave
\* the thread in the state of the bus and the LEDs in that of the thread, as long
\* as each signal finds it done with the one before.
THEOREM AgreesInvariant == Spec => []AgreesUnlessRaced
<1>1. Init => HubInv /\ Simple /\ Queue(events) /\ AgreeInv
  <2> QED
    BY InitHubInv, InitTypes, InitAgree
<1>2. HubInv /\ Simple /\ Queue(events) /\ AgreeInv /\ [Next]_vars
        => (HubInv /\ Simple /\ Queue(events) /\ AgreeInv)'
  BY NextHubInv, SimpleStep, QueueStep, KnownTypes, AgreeStep
<1>3. HubInv /\ Simple /\ Queue(events) /\ AgreeInv => AgreesUnlessRaced
  <2> SUFFICES ASSUME Known, AgreeInv, Settled, ~raced
               PROVE  (state \in Extra <=> bus = mux) /\ (rgb <=> state \in Extra)
    BY KnownTypes DEF AgreesUnlessRaced
  <2>1. Pending = {} /\ todo = <<>>
    BY DEF Settled, Dealt, Pending
  <2> QED
    BY <2>1 DEF AgreeInv, Lit, Unraced, AtRest
<1> QED
  BY <1>1, <1>2, <1>3, PTL DEF Spec

===========================================================================
