------------------------------ MODULE UsbHub ------------------------------
(***************************************************************************)
(* The hub thread: usbhub/usbhub_states.cpp, the loop that drives it       *)
(* (usbhub/usbhub_thread.cpp) and the ADC it measures with                 *)
(* (usbhub/adc.cpp, board-dropalt/adc_get.c).                              *)
(*                                                                         *)
(* The keyboard has two ports.  One leads to the host, the other may feed  *)
(* an extra device.  The thread waits for flags, takes all that are set,   *)
(* runs the posted events and then the handlers of the other flags one     *)
(* after another, each in the state its predecessors left behind.  A       *)
(* transition is end() of the old state, the change of pstate and begin()  *)
(* of the new one; interrupts (a tick of a measuring timer, the result of  *)
(* a measurement, a timeout) come between any two of its steps.  The model *)
(* is of the normal mode, in which the LEDs follow the state.              *)
(***************************************************************************)
EXTENDS Naturals, Sequences

CONSTANTS
  KeepCharging,  (* KEEP_CHARGING_EXTRA_DEVICE_DURING_SUSPEND            *)
  MaxResumes,    (* times a host resumes the bus                         *)
  MaxChanges,    (* times anything else happens: something is plugged in *)
                 (* or out, the 5 V level drops, a user asks for it      *)
  Requests       (* what users ask for: "switchover", "manual" and       *)
                 (* "automatic" (the last two have no caller yet)        *)

ASSUME HubAssumption ==
  /\ KeepCharging \in BOOLEAN
  /\ MaxResumes \in Nat
  /\ MaxChanges \in Nat
  /\ Requests \subseteq {"switchover", "manual", "automatic"}

VARIABLES
  \* usbhub_state and its four singletons.
  state,      (* pstate                                                  *)
  host,       (* v_host, the ADC line of the host port                   *)
  automatic,  (* automatic_switchover_enabled                            *)
  panic,      (* state_extra_disabled::m_panic_disabled                  *)
  manual,     (* state_extra_enabled::m_enabled_manually                 *)
  \* The thread.
  flags,      (* thread flags set, FLAG_EVENT aside                      *)
  batch,      (* flags taken by the last wait and not yet handled        *)
  todo,       (* what is left to do of the present handler               *)
  events,     (* the event queue, without doubles                        *)
  \* Timers and measurements.
  timers,     (* timers set among retry_timer, blink_timer and           *)
              (* extra_cutting_timer                                     *)
  periodic,   (* lines whose m_schedule_timer is set                     *)
  inflight,   (* the line ADC0 is converting                             *)
  result,     (* m_result of the two v_con, as the thresholds read it    *)
  \* The hardware.
  mux,        (* the port selected as host (S_UP, SRC_x)                 *)
  vbus,       (* ports fed with 5 V (E_VBUS_x)                           *)
  rgb,        (* rgb_gcr::is_enabled()                                   *)
  \* The environment.
  plug,       (* what is plugged into each port                          *)
  supply,     (* the 5 V level                                           *)
  bus,        (* the port whose host keeps the bus active, or none       *)
  spent,      (* how often the environment has done each of its things   *)
  raced       (* history: did something reach an unsettled thread?       *)

threadVars == <<flags, batch, todo, events>>
stateVars  == <<state, host, automatic, panic, manual>>
adcVars    == <<timers, periodic, inflight, result>>
boardVars  == <<mux, vbus, rgb>>
envVars    == <<plug, supply, bus, spent, raced>>
vars == <<stateVars, threadVars, adcVars, boardVars, envVars>>

Ports  == {"port1", "port2"}
None   == "none"
States == {"determine_host", "usb_suspend", "extra_disabled", "extra_enabled"}
Extra  == {"extra_disabled", "extra_enabled"}

\* The order in which the loop looks at the flags it took.
Order == <<"event", "suspend", "resume", "switchover", "manual", "automatic",
           "timeout">>
Rank  == [f \in {Order[i] : i \in DOMAIN Order} |->
            CHOOSE i \in DOMAIN Order : Order[i] = f]

\* What a thread may have left to do: "end" of the present state, the name of
\* the state to begin, what follows a transition, and the swap of v_host and
\* v_extra once the other port is selected.
Op == States \cup {"end", "perform_switchover", "set_panic", "set_manual", "swap"}

\* A port in the queue stands for the m_event_periodic_measure of its line; the
\* other two are the transitions posted by isr_process_v_con_report().
Event == Ports \cup {"connected", "disconnected"}

Other(p) == CHOOSE q \in Ports : q # p

\* v_extra.
extra == Other(host)

\* transition_to(), and a call on the state it returns.
TransitionTo(s)      == <<"end", s>>
TransitionThen(s, x) == <<"end", s, x>>

IsPosted(e) == \E i \in DOMAIN events : events[i] = e

Posting(e)  == IF IsPosted(e) THEN events ELSE Append(events, e)

---------------------------------------------------------------------------
\* The thread has just run begin() of state_determine_host.  Port 1 stands for the
\* port it tries first, last_host_port.
Init ==
  /\ state = "determine_host" /\ host = "port1"
  /\ automatic = FALSE /\ panic = FALSE /\ manual = FALSE
  /\ flags = {} /\ batch = {} /\ todo = <<>> /\ events = <<>>
  /\ timers = {"retry"} /\ periodic = {host} /\ inflight = None
  /\ result = [p \in Ports |-> "none"]
  /\ mux = host /\ vbus = {} /\ rgb = FALSE
  /\ plug \in [Ports -> {"none", "device", "host"}]
  /\ \E p \in Ports : plug[p] = "host"
  /\ supply = "ok" /\ bus = None /\ raced = FALSE
  /\ spent = [resume |-> 0, replug |-> 0, dip |-> 0, request |-> 0]

---------------------------------------------------------------------------
\* _thread_entry(): wait, and take every flag that is set.
Wait ==
  /\ todo = <<>> /\ batch = {}
  /\ flags # {} \/ events # <<>>
  /\ batch' = flags \cup (IF events = <<>> THEN {} ELSE {"event"})
  /\ flags' = {}
  /\ UNCHANGED <<todo, events, stateVars, adcVars, boardVars, envVars>>

\* Is f the next flag of the batch to be handled?
IsNext(f) ==
  /\ todo = <<>>
  /\ f \in batch
  /\ \A g \in batch : Rank[f] <= Rank[g]

Taking(f) ==
  /\ IsNext(f)
  /\ batch' = batch \ {f}

\* The queue is empty: event_get() returned nullptr.
DrainDone ==
  /\ Taking("event")
  /\ events = <<>>
  /\ UNCHANGED <<flags, todo, events, stateVars, adcVars, boardVars, envVars>>

\* event_get() of e.
Getting(e) ==
  /\ IsNext("event")
  /\ events # <<>> /\ Head(events) = e
  /\ events' = Tail(events)

\* _hdlr_periodic_measure(): async_measure() waits for the ADC, then starts it.
StartMeasure ==
  /\ inflight = None
  /\ \E p \in Ports : Getting(p) /\ inflight' = p
  /\ UNCHANGED <<flags, batch, todo, timers, periodic, result,
                 stateVars, boardVars, envVars>>

\* The events posted by isr_process_v_con_report().  Nothing ties them to the
\* state in which they were posted.
HandlePosted ==
  /\ \/ Getting("connected") /\ todo' = TransitionTo("extra_enabled")
     \/ Getting("disconnected") /\ todo' = TransitionTo("extra_disabled")
  /\ UNCHANGED <<flags, batch, stateVars, adcVars, boardVars, envVars>>

---------------------------------------------------------------------------
\* The handlers of the flags.

\* sync_measure() of a port: waits for the ADC, and then for the result.
SyncMeasure(p) ==
  /\ inflight = None
  /\ result' = [result EXCEPT ![p] = plug[p]]

(* Faulty: no automatic switchover upon cable break.                       *)
ProcessUsbSuspendStays ==
  /\ Taking("suspend")
  /\ todo' = IF state \in Extra THEN TransitionTo("usb_suspend") ELSE <<>>
  /\ UNCHANGED <<flags, events, adcVars, stateVars, boardVars, envVars>>

ProcessUsbSuspend ==
  /\ Taking("suspend")
  /\ \/ /\ state \in Extra /\ automatic
        /\ SyncMeasure(host)
        /\ todo' = IF result'[host] = "host" THEN TransitionTo("usb_suspend")
                   ELSE TransitionThen("usb_suspend", "perform_switchover")
     \/ /\ state \in Extra /\ ~automatic
        /\ todo' = TransitionTo("usb_suspend")
        /\ UNCHANGED result
     \/ /\ state \notin Extra
        /\ UNCHANGED <<todo, result>>
  /\ UNCHANGED <<flags, events, timers, periodic, inflight,
                 stateVars, boardVars, envVars>>

(* Faulty: state_usb_suspend does not handle the flag.                     *)
ProcessUsbResumeAtBoot ==
  /\ Taking("resume")
  /\ \/ /\ state = "determine_host"
        /\ SyncMeasure(extra)
        /\ todo' = TransitionTo(IF result'[extra] = "device"
                                THEN "extra_enabled" ELSE "extra_disabled")
     \/ /\ state # "determine_host"
        /\ UNCHANGED <<todo, result>>
  /\ UNCHANGED <<flags, events, timers, periodic, inflight,
                 stateVars, boardVars, envVars>>

ProcessUsbResume ==
  /\ Taking("resume")
  /\ \/ /\ state \notin Extra
        /\ SyncMeasure(extra)
        /\ todo' = TransitionTo(IF result'[extra] = "device"
                                THEN "extra_enabled" ELSE "extra_disabled")
     \/ /\ state \in Extra
        /\ UNCHANGED <<todo, result>>
  /\ UNCHANGED <<flags, events, timers, periodic, inflight,
                 stateVars, boardVars, envVars>>

(* Faulty: the port is switched over before the state is left.             *)
ProcessSwitchoverFirst ==
  /\ Taking("switchover")
  /\ SyncMeasure(extra)
  /\ todo' = IF result'[extra] = "device" THEN <<>>
             ELSE <<"perform_switchover", "end", "usb_suspend">>
  /\ UNCHANGED <<flags, events, timers, periodic, inflight,
                 stateVars, boardVars, envVars>>

\* process_usbport_switchover(), the same in every state.
ProcessSwitchover ==
  /\ Taking("switchover")
  /\ SyncMeasure(extra)
  /\ todo' = IF result'[extra] = "device" THEN <<>>
             ELSE TransitionThen("usb_suspend", "perform_switchover")
  /\ UNCHANGED <<flags, events, timers, periodic, inflight,
                 stateVars, boardVars, envVars>>

ProcessManual ==
  /\ Taking("manual")
  /\ manual' = (manual \/ state = "extra_enabled")
  /\ todo' = IF state = "extra_disabled"
             THEN TransitionThen("extra_enabled", "set_manual") ELSE <<>>
  /\ UNCHANGED <<flags, events, state, host, automatic, panic,
                 adcVars, boardVars, envVars>>

ProcessAutomatic ==
  /\ Taking("automatic")
  /\ manual' = (manual /\ state # "extra_enabled")
  /\ todo' = IF state = "extra_enabled" /\ manual /\ result[extra] # "device"
             THEN TransitionTo("extra_disabled") ELSE <<>>
  /\ UNCHANGED <<flags, events, state, host, automatic, panic,
                 adcVars, boardVars, envVars>>

\* state_determine_host tries the other port unless a host was measured.  While
\* usbhub_select_host_port() sleeps, v_host is still the port it was.
TimeoutDetermine ==
  /\ Taking("timeout")
  /\ state = "determine_host"
  /\ timers' = timers \cup {"retry"}
  /\ IF result[host] = "host" THEN UNCHANGED <<mux, periodic, todo>>
     ELSE /\ mux' = extra
          /\ periodic' = periodic \ {host}
          /\ todo' = <<"swap">>
  /\ UNCHANGED <<flags, events, inflight, result, stateVars, vbus, rgb, envVars>>

TimeoutSuspend ==
  /\ Taking("timeout")
  /\ state = "usb_suspend"
  /\ timers' = timers \cup {"blink"}
  /\ UNCHANGED <<flags, todo, events, periodic, inflight, result,
                 stateVars, boardVars, envVars>>

TimeoutExtra ==
  /\ Taking("timeout")
  /\ state \in Extra
  /\ todo' = IF state = "extra_enabled"
             THEN TransitionThen("extra_disabled", "set_panic") ELSE <<>>
  /\ UNCHANGED <<flags, events, adcVars, stateVars, boardVars, envVars>>

---------------------------------------------------------------------------
\* The steps of a transition.

Doing(op) ==
  /\ todo # <<>> /\ Head(todo) = op
  /\ todo' = Tail(todo)
  /\ UNCHANGED <<flags, batch, events, inflight, envVars>>

EndDetermine ==
  /\ Doing("end") /\ state = "determine_host"
  /\ timers' = timers \ {"retry"}
  /\ periodic' = (periodic \ {host}) \cup {extra}
  /\ automatic' = (result[host] = "host")
  /\ UNCHANGED <<result, state, host, panic, manual, boardVars>>

(* Faulty: v_extra is not scheduled again.                                 *)
EndSuspendUnmonitored ==
  /\ Doing("end") /\ state = "usb_suspend"
  /\ SyncMeasure(host)
  /\ timers' = timers \ {"blink"}
  /\ automatic' = (result'[host] = "host")
  /\ UNCHANGED <<periodic, state, host, panic, manual, boardVars>>

EndSuspend ==
  /\ Doing("end") /\ state = "usb_suspend"
  /\ SyncMeasure(host)
  /\ timers' = timers \ {"blink"}
  /\ periodic' = periodic \cup {extra}
  /\ automatic' = (result'[host] = "host")
  /\ UNCHANGED <<state, host, panic, manual, boardVars>>

EndDisabled ==
  /\ Doing("end") /\ state = "extra_disabled"
  /\ panic' = FALSE
  /\ UNCHANGED <<timers, periodic, result, state, host, automatic, manual, boardVars>>

EndEnabled ==
  /\ Doing("end") /\ state = "extra_enabled"
  /\ timers' = timers \ {"cut"}
  /\ manual' = FALSE
  /\ vbus' = IF KeepCharging THEN vbus ELSE vbus \ {extra}
  /\ UNCHANGED <<periodic, result, state, host, automatic, panic, mux, rgb>>

BeginSuspend ==
  /\ Doing("usb_suspend")
  /\ state' = "usb_suspend"
  /\ rgb' = FALSE
  /\ timers' = timers \cup {"blink"}
  /\ periodic' = periodic \ {extra}
  /\ UNCHANGED <<result, host, automatic, panic, manual, mux, vbus>>

BeginDisabled ==
  /\ Doing("extra_disabled")
  /\ state' = "extra_disabled"
  /\ vbus' = vbus \ {extra}
  /\ rgb' = TRUE
  /\ UNCHANGED <<timers, periodic, result, host, automatic, panic, manual, mux>>

BeginEnabled ==
  /\ Doing("extra_enabled")
  /\ state' = "extra_enabled"
  /\ vbus' = vbus \cup {extra}
  /\ rgb' = TRUE
  /\ UNCHANGED <<timers, periodic, result, host, automatic, panic, manual, mux>>

\* usbhub_select_host_port() of v_extra, ...
PerformSwitchover ==
  /\ todo # <<>> /\ Head(todo) = "perform_switchover"
  /\ mux' = extra
  /\ todo' = <<"swap">> \o Tail(todo)
  /\ UNCHANGED <<flags, batch, events, adcVars, stateVars, vbus, rgb, envVars>>

\* ... and the std::swap() that follows it, here and in process_timeout() of
\* state_determine_host, which then measures its new v_host.
SwapHost ==
  /\ Doing("swap")
  /\ host' = extra
  /\ periodic' = IF state = "determine_host" THEN periodic \cup {extra} ELSE periodic
  /\ UNCHANGED <<timers, result, state, automatic, panic, manual, boardVars>>

SetPanicDisabled ==
  /\ Doing("set_panic")
  /\ panic' = TRUE
  /\ UNCHANGED <<timers, periodic, result, state, host, automatic, manual, boardVars>>

\* process_extra_enable_manually() of the state just begun.
SetManual ==
  /\ Doing("set_manual")
  /\ manual' = TRUE
  /\ UNCHANGED <<timers, periodic, result, state, host, automatic, panic, boardVars>>

---------------------------------------------------------------------------
\* Interrupts.

(* Faulty: the timer is not set again.                                     *)
TickOnce(p) ==
  /\ p \in periodic /\ ~IsPosted(p)
  /\ events' = Append(events, p)
  /\ periodic' = periodic \ {p}
  /\ UNCHANGED <<flags, batch, todo, timers, inflight, result,
                 stateVars, boardVars, envVars>>

\* _tmo_periodic_measure(): the timer is set again, the event posted.
Tick(p) ==
  /\ p \in periodic /\ ~IsPosted(p)
  /\ events' = Append(events, p)
  /\ UNCHANGED <<flags, batch, todo, stateVars, adcVars, boardVars, envVars>>

\* isr_process_v_con_report() of pstate, after a result for p.
ReportCon(p) ==
  /\ inflight = p
  /\ inflight' = None
  /\ result' = [result EXCEPT ![p] = plug[p]]
  /\ periodic' = IF state = "determine_host" /\ result'[host] = "host"
                 THEN periodic \ {host} ELSE periodic
  /\ panic' = (panic /\ ~(state = "extra_disabled" /\ result'[extra] # "device"))
  /\ events' =
       IF state = "extra_disabled" /\ result'[extra] = "device" /\ ~panic
       THEN Posting("connected")
       ELSE IF state = "extra_enabled" /\ result'[extra] # "device" /\ ~manual
            THEN Posting("disconnected") ELSE events
  /\ raced' = (raced \/ (events' # events /\ todo # <<>>))
  /\ UNCHANGED <<flags, batch, todo, timers, state, host, automatic, manual,
                 boardVars, plug, supply, bus, spent>>

(* Faulty: a report of a low level while the timer runs removes it.        *)
Report5VRemoves ==
  /\ timers' = IF state = "extra_enabled" /\ supply = "low" /\ "cut" \notin timers
               THEN timers \cup {"cut"} ELSE timers \ {"cut"}
  /\ UNCHANGED <<periodic, inflight, result, stateVars, threadVars, boardVars, envVars>>

\* isr_process_v_5v_report(): the grace timer runs while the level is low.  The
\* line is measured throughout; here a report may come at any time.
Report5V ==
  /\ timers' = IF state # "extra_enabled" THEN timers
               ELSE IF supply = "low" THEN timers \cup {"cut"} ELSE timers \ {"cut"}
  /\ UNCHANGED <<periodic, inflight, result, stateVars, threadVars, boardVars, envVars>>

\* A timer set with ztimer_set_timeout_flag() expires.  All three share the flag.
\* The retry timer takes 200 measuring periods: neither a measurement nor the swap
\* is late for it.
Expire(t) ==
  /\ t \in timers
  /\ t = "retry" => todo # <<"swap">> /\ (host \in periodic => result[host] = plug[host])
  /\ timers' = timers \ {t}
  /\ flags' = flags \cup {"timeout"}
  /\ UNCHANGED <<batch, todo, events, periodic, inflight, result,
                 stateVars, boardVars, envVars>>

---------------------------------------------------------------------------
\* The environment: the bus and its hosts, the user, the power supply.

\* The thread has dealt with everything it knows.
Dealt ==
  /\ todo = <<>> /\ batch = {} /\ flags = {}
  /\ ~IsPosted("connected") /\ ~IsPosted("disconnected")
  /\ state \in Extra => result[extra] = plug[extra]

\* And the bus has dealt with a switchover.
Settled == Dealt /\ bus \in {None, mux}

May(what) ==
  IF what = "resume" THEN spent.resume < MaxResumes
  ELSE spent.replug + spent.dip + spent.request < MaxChanges

Spend(what) ==
  /\ May(what)
  /\ spent' = [spent EXCEPT ![what] = @ + 1]

\* Signals reach the thread as flags.
Signal(f) ==
  /\ flags' = flags \cup {f}
  /\ UNCHANGED <<batch, todo, events, stateVars, adcVars, boardVars>>

\* on_resume(): the selected host, if there is one, wakes or enumerates the bus.
BusResume ==
  /\ bus = None /\ plug[mux] = "host"
  /\ Spend("resume")
  /\ bus' = mux
  /\ Signal("resume")
  /\ raced' = (raced \/ ~Settled)
  /\ UNCHANGED <<plug, supply>>

\* on_suspend(): the host suspends the bus, or is no longer connected to it since
\* its cable broke or another host was selected.
BusSuspend ==
  /\ bus # None
  /\ bus' = None
  /\ Signal("suspend")
  /\ raced' = (raced \/ ~Dealt)
  /\ UNCHANGED <<plug, supply, spent>>

\* request_usbport_switchover() and the two requests about the extra port.
Request(f) ==
  /\ Spend("request")
  /\ Signal(f)
  /\ raced' = (raced \/ ~Settled)
  /\ UNCHANGED <<plug, supply, bus>>

\* The keyboard lives from the host or hosts plugged in.
Replug(p, what) ==
  /\ what # plug[p]
  /\ plug' = [plug EXCEPT ![p] = what]
  /\ \E q \in Ports : plug'[q] = "host"
  /\ Spend("replug")
  /\ raced' = (raced \/ ~Settled)
  /\ UNCHANGED <<supply, bus, stateVars, threadVars, adcVars, boardVars>>

Supply(v) ==
  /\ supply # v
  /\ supply' = v
  /\ IF v = "low" THEN Spend("dip") ELSE UNCHANGED spent
  /\ UNCHANGED <<plug, bus, raced, stateVars, threadVars, adcVars, boardVars>>

---------------------------------------------------------------------------
Handler ==
  \/ DrainDone \/ StartMeasure \/ HandlePosted
  \/ ProcessUsbSuspend \/ ProcessUsbResume \/ ProcessSwitchover
  \/ ProcessManual \/ ProcessAutomatic
  \/ TimeoutDetermine \/ TimeoutSuspend \/ TimeoutExtra

Transition ==
  \/ EndDetermine \/ EndSuspend \/ EndDisabled \/ EndEnabled
  \/ BeginSuspend \/ BeginDisabled \/ BeginEnabled
  \/ PerformSwitchover \/ SwapHost \/ SetPanicDisabled \/ SetManual

Thread == Wait \/ Handler \/ Transition

Adc == \E p \in Ports : ReportCon(p)

Interrupt ==
  \/ Adc \/ Report5V
  \/ \E p \in Ports : Tick(p)
  \/ \E t \in {"retry", "blink", "cut"} : Expire(t)

Environment ==
  \/ BusResume \/ BusSuspend
  \/ \E f \in Requests : Request(f)
  \/ \E p \in Ports, what \in {"none", "device", "host"} : Replug(p, what)
  \/ \E v \in {"low", "ok"} : Supply(v)

Next == Thread \/ Interrupt \/ Environment

Spec == Init /\ [][Next]_vars

\* The thread runs, conversions end, periodic timers tick and the grace timer
\* expires; a bus that lost its host is suspended.  Users, hosts and the power
\* supply owe nothing.  A drain of the queue takes less than the 5 ms between two
\* ticks, so that it comes to an end.
FairSpec ==
  /\ Spec
  /\ WF_vars(Thread) /\ SF_vars(DrainDone) /\ []<>(events = <<>>)
  /\ WF_vars(Adc) /\ WF_vars(Report5V)
  /\ \A p \in Ports : WF_vars(Tick(p))
  /\ WF_vars(Expire("cut"))
  /\ WF_vars(BusSuspend /\ (bus # mux \/ plug[bus] # "host"))

---------------------------------------------------------------------------
(* Properties. *)

\* Types.  The queue never holds an event twice: event_post() checks, and both
\* the timers and the ADC post from interrupts.
TypeOK ==
  /\ state \in States /\ host \in Ports
  /\ automatic \in BOOLEAN /\ panic \in BOOLEAN /\ manual \in BOOLEAN
  /\ flags \subseteq (DOMAIN Rank) \ {"event"} /\ batch \subseteq DOMAIN Rank
  /\ todo \in Seq(Op) /\ events \in Seq(Event)
  /\ \A i, j \in DOMAIN events : events[i] = events[j] => i = j
  /\ timers \subseteq {"retry", "blink", "cut"} /\ periodic \subseteq Ports
  /\ inflight \in Ports \cup {None}
  /\ result \in [Ports -> {"none", "device", "host"}]
  /\ mux \in Ports /\ vbus \subseteq Ports /\ rgb \in BOOLEAN
  /\ plug \in [Ports -> {"none", "device", "host"}] /\ supply \in {"low", "ok"}
  /\ bus \in Ports \cup {None} /\ raced \in BOOLEAN
  /\ spent \in [{"resume", "replug", "dip", "request"} -> Nat]

\* v_extra is not the port selected as host wherever is_device_connected() is asked of
\* it, so that the assertion of adc.cpp:116 never fails: at the start of a handler, and at
\* any moment by the interrupt of state_extra_disabled or state_extra_enabled, which must
\* therefore not find a switchover half done, the other port selected and v_host and
\* v_extra not yet swapped.
NeverAsserts ==
  todo = <<>> \/ state \in Extra => mux # extra

\* Between two handlers the hardware is set up for the state, whatever sequence of
\* transitions and switchovers led there: the extra port is fed in state_extra_enabled and
\* not in state_extra_disabled; v_extra is measured exactly in the two states that act on
\* it, and v_host never outside state_determine_host, so that no measuring timer is left
\* running on the wrong port.
SetUpForState ==
  todo = <<>> =>
    /\ state = "extra_enabled" => extra \in vbus
    /\ state = "extra_disabled" => extra \notin vbus
    /\ state # "determine_host" =>
         /\ host \notin periodic
         /\ extra \in periodic <=> state \in Extra

\* Once it has settled, the thread is in one of the two active states exactly
\* while the selected host keeps the bus active, and the LEDs are on exactly
\* then; unless a signal, a plug or a report that posts a transition came before
\* it had dealt with what came earlier.
AgreesUnlessRaced ==
  Settled /\ ~raced =>
    /\ state \in Extra <=> bus = mux
    /\ rgb <=> state \in Extra

\* The host port changes while it is sought or while the hub considers the bus
\* down, never under an active connection.
HostStaysWhileActive ==
  [][mux' # mux => state \in {"determine_host", "usb_suspend"}]_vars

\* When the cable to the host breaks for good while the connection is up, the
\* port of the other host is selected, unless the broken port cannot be measured.
CableBreakSwitches ==
  /\ Settled /\ state \in Extra /\ bus = mux /\ automatic
  /\ plug[mux] # "host" /\ ~May("replug")
  ~> plug[mux] = "host"

\* While the connection is up, the extra port is in the end fed exactly when a
\* device is plugged into it, unless it was cut off or is enabled manually.
ExtraFollows ==
  state \in Extra /\ ~May("replug")
  ~> \/ state \notin Extra \/ panic \/ manual
     \/ extra \in vbus <=> plug[extra] = "device"

\* An extra device that keeps the 5 V level low is cut off, or the bus suspended.
OverloadIsCut ==
  state = "extra_enabled" /\ supply = "low"
  ~> supply = "ok" \/ extra \notin vbus \/ state = "usb_suspend"

\* The extra port is cut off in panic only after the 5 V level was low
\* (config.hpp:47: "When v_5v stays at low level for this period we cut off the
\* extra device").
PanicOnlyAfterDip == panic => spent.dip > 0

===========================================================================
