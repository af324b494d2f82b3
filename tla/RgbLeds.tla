------------------------------ MODULE RgbLeds ------------------------------
(***************************************************************************)
(* The RGB LEDs: their global current (usbhub/rgb_gcr.cpp), the            *)
(* measurements of the 5 V level that drive it (usbhub/adc.cpp,            *)
(* board-dropalt/adc_get.c), and the LED drivers on the I2C bus            *)
(* (board-dropalt/is31fl3733.c).                                           *)
(*                                                                         *)
(* Two threads talk to the drivers.  The hub thread raises and lowers the  *)
(* current one by one, on events that the ADC interrupt posts, and turns   *)
(* the LEDs on and off with the bus.  main_thread colours them and turns   *)
(* them off for DFU mode; it has the lower priority and may be interrupted *)
(* between any two transfers.  Every register of a driver lies in a page,  *)
(* and the driver software remembers which page the chip has selected.     *)
(***************************************************************************)
EXTENDS Integers, Sequences, FiniteSets, SequencesExt

CONSTANTS
  DriverCount,   (* DRIVER_COUNT, the number of chips                      *)
  TopGcr,        (* the largest uint8_t                                    *)
  MaxGcr,        (* RGB_LED_GCR_MAX, the current to be reached             *)
  CsLines,       (* CS_LINE_COUNT, registers in a row                      *)
  Rows,          (* SW_LINE_COUNT                                          *)
  Word,          (* flags in a word of need_update                         *)
  Colors,        (* the colours Lua sets, as triples g, r, b               *)
  MaxSets        (* times Lua sets a colour                                *)

ASSUME LedsAssumption ==
  /\ DriverCount \in Nat \ {0}
  /\ TopGcr \in Nat \ {0} /\ MaxGcr \in 0 .. TopGcr
  /\ CsLines \in Nat \ {0} /\ Rows \in Nat /\ Rows >= 3
  /\ Word \in Nat \ {0} /\ (CsLines * Rows) % Word = 0
  /\ Colors \subseteq [1 .. 3 -> Nat]
  /\ MaxSets \in Nat

VARIABLES
  \* The threads.
  mode,        (* main_thread::m_active_mode: "normal" or "dfu"            *)
  active,      (* is the hub thread in one of its states for an active bus? *)
  signals,     (* FLAG_USB_SUSPEND and FLAG_USB_RESUME of the hub thread   *)
  queue,       (* its events, as far as they are about the current         *)
  todo,        (* the calls each thread has yet to make                    *)
  \* rgb_gcr and the ADC.
  enabled,     (* m_enabled                                                *)
  current,     (* m_current_gcr                                            *)
  low,         (* adc::v_5v.level() < MID                                  *)
  converting,  (* ADC0 converts the 5 V level                              *)
  irq,         (* is ADC0_IRQ enabled?                                     *)
  \* The driver of the chips.
  bus,         (* the thread that has acquired the I2C bus                 *)
  next,        (* the chip it writes to next                               *)
  page,        (* g_command_register                                       *)
  pwm,         (* g_pwm_registers                                          *)
  dirty,       (* g_pwm_registers_need_update                              *)
  selected,    (* the page selected in each chip                           *)
  regs,        (* the registers of each chip, page by page                 *)
  \* The environment.
  sets,        (* colours set so far                                       *)
  hurried,     (* did a signal arrive during the present toggle?           *)
  raced,       (* history: did one arrive during any toggle, or did DFU    *)
               (* mode end on a suspended bus?                             *)
  wrapped      (* history: was the current lowered at 0, and not at 0 since? *)

threadVars == <<mode, active, signals>>
levelVars  == <<enabled, current, wrapped>>
gcrVars    == <<levelVars, low, converting, irq>>
colorVars  == <<pwm, dirty, sets>>
busVars    == <<bus, next>>
chipVars   == <<page, selected, regs>>
raceVars   == <<hurried, raced>>
vars == <<threadVars, queue, todo, gcrVars, busVars, chipVars, colorVars, raceVars>>

Threads   == {"hub", "main"}
None      == "none"
Drivers   == 0 .. DriverCount - 1
Registers == 0 .. CsLines * Rows - 1
Pages     == {"control", "pwm", "function"}

---------------------------------------------------------------------------
\* The calls of the driver software, and two more: the destructor of adc::lock_guard and
\* main_thread's change of mode.
Call(to, value) == [to |-> to, value |-> value]

SetGcr(gcr)        == Call("gcr", gcr)
SetSsdLock(enable) == Call("ssd", IF enable THEN 0 ELSE 1)
RefreshColors      == Call("pwm", None)
EnableIrq          == Call("irq", None)
Become(m)          == Call("mode", m)

OnBus == {"gcr", "ssd", "pwm"}

\* The registers of page "function".  An SSD bit of 0 shuts the chip down.
Configuration == 0
GlobalCurrent == 1

\* One round of the inner loop of _is31_write_pwm_registers(): skip the zeros, begin a
\* new block behind them, and count the ones.  s.flags are the flags left of the
\* word that begins at register s.word, s.bits the flags shifted out of it.
Round(s) ==
  LET first  == CHOOSE b \in s.flags : \A c \in s.flags : b <= c
      behind == CHOOSE b \in first + 1 .. Word :
                  b \notin s.flags /\ \A c \in first .. b - 1 : c \in s.flags
      isNew  == first > s.bits \/ s.needsNew
  IN [s EXCEPT !.flags  = @ \ (first .. behind - 1),
               !.bits   = behind,
               !.start  = IF isNew THEN s.word + first ELSE @,
               !.count  = (IF isNew THEN 0 ELSE @) + (behind - first),
               !.blocks = IF isNew /\ s.count > 0
                          THEN Append(@, <<s.start, s.count>>) ELSE @]

\* The outer loop: one word of flags.
ProcessWord(flags, s, w) ==
  LET word == [s EXCEPT !.flags = {b \in 0 .. Word - 1 : w * Word + b \in flags},
                        !.word = w * Word, !.bits = 0]
      done == FoldLeft(LAMBDA t, n : IF t.flags = {} THEN t ELSE Round(t),
                       word, [n \in 1 .. Word |-> n])
  IN [done EXCEPT !.needsNew = done.bits < Word]

\* The blocks it writes, each with its first register and its length.
Blocks(flags) ==
  LET s    == [flags |-> {}, word |-> 0, bits |-> 0, start |-> 0, count |-> 0,
               needsNew |-> TRUE, blocks |-> <<>>]
      last == FoldLeft(LAMBDA t, w : ProcessWord(flags, t, w - 1), s,
                       [w \in 1 .. (CsLines * Rows) \div Word |-> w])
  IN IF last.count > 0 THEN Append(last.blocks, <<last.start, last.count>>)
     ELSE last.blocks

\* The registers they cover.
Covered(flags) == UNION {b[1] .. b[1] + b[2] - 1 : b \in Range(Blocks(flags))}

---------------------------------------------------------------------------
\* After is31_init() and is31_enable_all_leds() the chips are shut down, without current
\* and black, every LED is enabled, and the last page selected is "control".
Init ==
  /\ mode \in {"normal", "dfu"} /\ active = FALSE /\ signals = {}
  /\ queue = <<>> /\ todo = [t \in Threads |-> <<>>]
  /\ enabled = FALSE /\ current = 0
  /\ low \in BOOLEAN /\ converting = FALSE /\ irq = TRUE
  /\ bus = None /\ next = 0 /\ page = [d \in Drivers |-> "control"]
  /\ pwm = [d \in Drivers |-> [r \in Registers |-> 0]]
  /\ dirty = [d \in Drivers |-> {}]
  /\ selected = page
  /\ regs = [d \in Drivers |-> [p \in Pages |-> [r \in Registers |-> 0]]]
  /\ sets = 0 /\ hurried = FALSE /\ raced = FALSE /\ wrapped = FALSE

---------------------------------------------------------------------------
\* The threads, one step at a time.

Idle(t) == todo[t] = <<>>

\* The next call of a busy thread.
Calling(t) == Head(todo[t])

\* Can the hub thread go on?  It waits for flags, or for the bus.
HubRuns ==
  IF Idle("hub") THEN queue # <<>> \/ signals # {}
  ELSE Calling("hub").to \in OnBus => bus # "main"

\* main_thread has the lower priority.
Runs(t) == t = "main" => ~HubRuns

\* main_thread is between its two modes.
Toggling == \E i \in DOMAIN todo["main"] : todo["main"][i].to = "mode"

\* Thread t makes one of the calls in kind.
Calls(t, kind) == Runs(t) /\ ~Idle(t) /\ Calling(t).to \in kind

\* i2c_acquire().
AcquireBus(t) ==
  /\ Calls(t, OnBus) /\ bus = None
  /\ bus' = t /\ next' = 0
  /\ UNCHANGED <<threadVars, queue, todo, gcrVars, chipVars, colorVars, raceVars>>

\* i2c_release().
ReleaseBus(t) ==
  /\ Calls(t, OnBus) /\ bus = t /\ next = DriverCount
  /\ bus' = None
  /\ todo' = [todo EXCEPT ![t] = Tail(@)]
  /\ UNCHANGED <<threadVars, queue, gcrVars, next, chipVars, colorVars, raceVars>>

\* The page a call writes to, and what it writes to chip d.
PageOf(call)  == IF call.to = "pwm" THEN "pwm" ELSE "function"
Data(call, d) ==
  IF call.to = "pwm" THEN [r \in Covered(dirty[d]) |-> pwm[d][r]]
  ELSE [r \in {IF call.to = "gcr" THEN GlobalCurrent ELSE Configuration} |-> call.value]

\* _is31_set_command_register(): page p is selected unless it is believed to be.
Selects(d, p) == IF page[d] = p THEN selected[d] ELSE p

\* What chip d makes of a write: it changes registers of the page selected.
Stores(d, p, data) ==
  /\ selected' = [selected EXCEPT ![d] = p]
  /\ regs' = [regs EXCEPT ![d][p] =
                [r \in Registers |-> IF r \in DOMAIN data THEN data[r] ELSE @[r]]]

\* The body of the loops in is31_set_gcr(), is31_set_ssd_lock() and is31_refresh_colors(),
\* as far as it is about the chip.
Writes(t) ==
  /\ Calls(t, OnBus) /\ bus = t /\ next < DriverCount
  /\ next' = next + 1
  /\ LET p == PageOf(Calling(t))
     IN /\ Stores(next, Selects(next, p), Data(Calling(t), next))
        /\ dirty' = IF p = "pwm" THEN [dirty EXCEPT ![next] = {}] ELSE dirty
  /\ UNCHANGED <<threadVars, queue, todo, gcrVars, bus, pwm, sets, raceVars>>

(* Faulty: the page selected is remembered once for all chips.            *)
WriteChipSharesPage(t) ==
  /\ Writes(t)
  /\ page' = [d \in Drivers |-> PageOf(Calling(t))]

\* The whole body.
WriteChip(t) ==
  /\ Writes(t)
  /\ page' = [page EXCEPT ![next] = PageOf(Calling(t))]

\* NVIC_EnableIRQ(), whoever disabled it.
UnlockAdc(t) ==
  /\ Calls(t, {"irq"})
  /\ irq' = TRUE
  /\ todo' = [todo EXCEPT ![t] = Tail(@)]
  /\ UNCHANGED <<threadVars, queue, levelVars, low, converting,
                 busVars, chipVars, colorVars, raceVars>>

---------------------------------------------------------------------------
\* rgb_gcr.

\* disable(), with what its caller does afterwards.
Disable(t, after) ==
  IF enabled
  THEN /\ irq' = FALSE
       /\ enabled' = FALSE /\ current' = 0 /\ wrapped' = FALSE
       /\ todo' = [todo EXCEPT ![t] =
                     <<SetGcr(0), SetSsdLock(TRUE), EnableIrq>> \o after]
  ELSE /\ todo' = [todo EXCEPT ![t] = after]
       /\ UNCHANGED <<irq, levelVars>>

Posting(e) == IF \E i \in DOMAIN queue : queue[i] = e THEN queue ELSE Append(queue, e)

\* ADC0_ISR() and isr_process_v_5v_report().
Report ==
  /\ converting /\ irq
  /\ converting' = FALSE
  /\ queue' = IF ~enabled THEN queue
              ELSE IF current > MaxGcr \/ low THEN Posting("lower")
              ELSE IF current < MaxGcr THEN Posting("raise") ELSE queue
  /\ UNCHANGED <<threadVars, todo, levelVars, low, irq, busVars, chipVars,
                 colorVars, raceVars>>

\* _tmo_periodic_measure(), every RGB_GCR_CHANGE_PERIOD_MS.  By then the hub thread has
\* dealt with the last measurement.
Tick ==
  /\ Idle("hub") /\ queue = <<>> /\ ~converting
  /\ queue' = <<"measure">>
  /\ UNCHANGED <<threadVars, todo, gcrVars, busVars, chipVars, colorVars, raceVars>>

\* event_get() of e.
Getting(e) ==
  /\ Idle("hub")
  /\ queue # <<>> /\ Head(queue) = e
  /\ queue' = Tail(queue)
  /\ UNCHANGED <<threadVars, low, busVars, chipVars, colorVars, raceVars>>

\* async_measure() of the 5 V level.
Measure ==
  /\ Getting("measure")
  /\ converting' = TRUE
  /\ UNCHANGED <<todo, levelVars, irq>>

\* Change the current under a lock_guard.
Change(gcr, wraps, calls) ==
  /\ irq' = FALSE
  /\ current' = gcr
  /\ wrapped' = (wraps \/ (wrapped /\ gcr # 0))
  /\ todo' = [todo EXCEPT !["hub"] = calls \o <<EnableIrq>>]
  /\ UNCHANGED <<enabled, converting>>

(* Faulty: the chips are not shut down at 0.                               *)
LowerStaysOn ==
  /\ Getting("lower")
  /\ IF enabled
     THEN LET gcr == (current - 1) % (TopGcr + 1) IN Change(gcr, current = 0, <<SetGcr(gcr)>>)
     ELSE UNCHANGED <<todo, levelVars, converting, irq>>

\* The handler that lowers the current, in uint8_t.
Lower ==
  /\ Getting("lower")
  /\ IF enabled
     THEN LET gcr == (current - 1) % (TopGcr + 1)
          IN Change(gcr, current = 0, IF gcr = 0 THEN <<SetGcr(gcr), SetSsdLock(TRUE)>>
                                 ELSE <<SetGcr(gcr)>>)
     ELSE UNCHANGED <<todo, levelVars, converting, irq>>

(* Faulty: the chips stay shut down.                                       *)
RaiseStaysOff ==
  /\ Getting("raise")
  /\ IF enabled
     THEN LET gcr == (current + 1) % (TopGcr + 1) IN Change(gcr, FALSE, <<SetGcr(gcr)>>)
     ELSE UNCHANGED <<todo, levelVars, converting, irq>>

\* The handler that raises the current.
Raise ==
  /\ Getting("raise")
  /\ IF enabled
     THEN LET gcr == (current + 1) % (TopGcr + 1)
          IN Change(gcr, FALSE, IF current = 0 THEN <<SetSsdLock(FALSE), SetGcr(gcr)>>
                                     ELSE <<SetGcr(gcr)>>)
     ELSE UNCHANGED <<todo, levelVars, converting, irq>>

---------------------------------------------------------------------------
\* The hub thread turns the LEDs on and off with the bus, in normal mode.

Handling(f) ==
  /\ Idle("hub")
  /\ f \in signals /\ (f = "resume" => "suspend" \notin signals)
  /\ signals' = signals \ {f}
  /\ UNCHANGED <<mode, queue, low, converting, busVars, chipVars, colorVars, raceVars>>

(* Faulty: the LEDs are turned off in DFU mode instead.                    *)
SuspendInDfu ==
  /\ Handling("suspend")
  /\ active' = FALSE
  /\ IF active /\ mode = "dfu" THEN Disable("hub", <<>>)
     ELSE UNCHANGED <<todo, irq, levelVars>>

\* state_usb_suspend::begin().
Suspend ==
  /\ Handling("suspend")
  /\ active' = FALSE
  /\ IF active /\ mode = "normal" THEN Disable("hub", <<>>)
     ELSE UNCHANGED <<todo, irq, levelVars>>

\* begin() of state_extra_disabled and state_extra_enabled.  One also begins when a device
\* is plugged in or out while the bus is active.
Resume ==
  /\ Handling("resume")
  /\ active' = TRUE
  /\ enabled' = (enabled \/ mode = "normal")
  /\ UNCHANGED <<todo, irq, current, wrapped>>

---------------------------------------------------------------------------
\* main_thread: the mode toggle and what Lua does to the colours.

MainFree == Idle("main") /\ Runs("main")

\* The end of normal_mode().
EnterDfu ==
  /\ MainFree /\ mode = "normal"
  /\ Disable("main", <<Become("dfu")>>)
  /\ hurried' = FALSE
  /\ UNCHANGED <<threadVars, queue, low, converting, busVars, chipVars, colorVars, raced>>

\* The end of dfu_mode(), which enables the LEDs without asking whether the bus is
\* still active.
LeaveDfu ==
  /\ MainFree /\ mode = "dfu"
  /\ enabled' = TRUE
  /\ todo' = [todo EXCEPT !["main"] = <<Become("normal")>>]
  /\ hurried' = FALSE
  /\ raced' = (raced \/ ~active)
  /\ UNCHANGED <<threadVars, queue, current, wrapped, low, converting, irq, busVars, chipVars,
                 colorVars>>

\* _thread_entry() stores the mode that the last one returned.
ChangeMode ==
  /\ Calls("main", {"mode"})
  /\ mode' = Calling("main").value
  /\ todo' = [todo EXCEPT !["main"] = Tail(@)]
  /\ UNCHANGED <<active, signals, queue, gcrVars, busVars, chipVars, colorVars, raceVars>>

\* The registers of the LED whose green one is g, in the order g, r, b.
LedRegisters(g) == <<g, g + CsLines, g + 2 * CsLines>>

\* is31_set_color(), by fw.led_set_rgb() or fw.led_set_hsv().
SetColor(d, g, c) ==
  /\ MainFree /\ mode = "normal" /\ sets < MaxSets
  /\ LET led == LedRegisters(g)
         lit == [r \in Registers |->
                   IF \E i \in 1 .. 3 : led[i] = r
                   THEN c[CHOOSE i \in 1 .. 3 : led[i] = r] ELSE pwm[d][r]]
     IN /\ pwm' = [pwm EXCEPT ![d] = lit]
        /\ dirty' = [dirty EXCEPT ![d] = @ \cup {r \in Registers : lit[r] # pwm[d][r]}]
  /\ sets' = sets + 1
  /\ UNCHANGED <<threadVars, queue, todo, gcrVars, busVars, chipVars, raceVars>>

\* fw.led_refresh().
Refresh ==
  /\ MainFree /\ mode = "normal"
  /\ todo' = [todo EXCEPT !["main"] = <<RefreshColors>>]
  /\ UNCHANGED <<threadVars, queue, gcrVars, busVars, chipVars, colorVars, raceVars>>

---------------------------------------------------------------------------
\* The environment.

\* A bus is suspended or resumed at least 3 ms after it was before, in which time
\* main_thread completes a toggle that one signal has interrupted.
Signal(f) ==
  /\ f \notin signals
  /\ ~(Toggling /\ hurried)
  /\ signals' = signals \cup {f}
  /\ hurried' = Toggling
  /\ raced' = (raced \/ Toggling)
  /\ UNCHANGED <<mode, active, queue, todo, gcrVars, busVars, chipVars, colorVars>>

Supply ==
  /\ low' = ~low
  /\ UNCHANGED <<threadVars, queue, todo, levelVars, converting, irq,
                 busVars, chipVars, colorVars, raceVars>>

Goes(t) ==
  AcquireBus(t) \/ ReleaseBus(t) \/ WriteChip(t) \/ UnlockAdc(t)

Hub == Goes("hub") \/ Measure \/ Lower \/ Raise \/ Suspend \/ Resume

Main ==
  \/ Goes("main") \/ ChangeMode \/ EnterDfu \/ LeaveDfu \/ Refresh
  \/ \E d \in Drivers, g \in {r \in Registers : r + 2 * CsLines \in Registers},
        c \in Colors : SetColor(d, g, c)

Environment == Tick \/ Report \/ Supply \/ \E f \in {"suspend", "resume"} : Signal(f)

Next == Hub \/ Main \/ Environment

Spec == Init /\ [][Next]_vars

---------------------------------------------------------------------------
(* Properties. *)

ShutDown(d) == regs[d]["function"][Configuration] = 0

Lit(d) == IF ShutDown(d) THEN 0 ELSE regs[d]["function"][GlobalCurrent]

\* No call is going on.
Quiet == \A t \in Threads : Idle(t)

\* The chips show every colour that is not marked for the next refresh: no write has landed
\* in the wrong page, and no block has missed or moved a register.
ColorsShown ==
  \A d \in Drivers : \A r \in Registers \ dirty[d] : regs[d]["pwm"][r] = pwm[d][r]

\* The LEDs are dark while the bus is suspended (config.hpp:57) and in DFU mode, unless a
\* signal of the bus arrived in the middle of a toggle or DFU mode ended on a suspended bus.
DarkWhenOff ==
  Quiet /\ signals = {} /\ ~raced /\ (mode = "dfu" \/ ~active)
  => \A d \in Drivers : Lit(d) = 0

\* The LEDs come up step by step (config.hpp:64): whatever the voltage and the bus do,
\* and even when the current wraps, no LED is suddenly fed with more than one unit more.
SoftStart == [][\A d \in Drivers : Lit(d)' <= Lit(d) + 1]_vars

\* The chips have the current that m_current_gcr tells, and are shut down exactly while it
\* is 0 (rgb_gcr.hpp:17: "Note that SSD is automatically controlled depending on whether
\* GCR is zero or not"), except from a wrap on until it is 0 again.
SsdFollowsGcr ==
  Quiet => \A d \in Drivers :
             /\ regs[d]["function"][GlobalCurrent] = current
             /\ current = 0 => ShutDown(d)
             /\ ShutDown(d) => current = 0 \/ wrapped

============================================================================
