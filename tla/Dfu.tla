-------------------------------- MODULE Dfu --------------------------------
(***************************************************************************)
(* DFU: the control requests of usb/usb_dfu.cpp, the two modes of          *)
(* main_thread (main_thread.cpp) with the boot that picks one, and         *)
(* matrix_thread's enable() and disable() (matrix_thread.cpp).             *)
(*                                                                         *)
(* The flash bank that is not running holds the keymap's bytecode, and is  *)
(* where every download goes.  usb_thread therefore has main_thread leave  *)
(* normal mode, with FLAG_MODE_TOGGLE, before it lets the host go on past  *)
(* block 0; after new bytecode another toggle leads back.                  *)
(*                                                                         *)
(* A request is one step of usb_thread, and so is a scan of matrix_thread; *)
(* both have a higher priority than main_thread, one iteration of whose    *)
(* loop is a step.  The keymap has two keys: ESC sends a key, TAP is a tap *)
(* dance, which starts defer mode.                                         *)
(***************************************************************************)
EXTENDS Naturals, Integers, Sequences, SequencesExt

CONSTANTS
  MaxDownloads,   (* downloads the host starts                          *)
  MaxTaps,        (* keys pressed                                       *)
  MaxFaults       (* failed writes, aborts, uploads and pin resets      *)

ASSUME DfuAssumption ==
  /\ MaxDownloads \in Nat
  /\ MaxTaps \in Nat
  /\ MaxFaults \in Nat

DfuStates == {"IDLE", "DL_BUSY", "DL_SYNC", "DL_IDLE", "MANIFEST_SYNC",
              "UP_IDLE", "ERROR"}
Images == {"bytecode", "firmware"}
Keys == {"ESC", "TAP"}
Event == [key : Keys, press : BOOLEAN]

(* The other bank: bytecode with its slot header, with that header lost to *)
(* block 0 of a download, and so on.  Lua's signature is there in Signed.  *)
Banks == {"bytecode", "header lost", "part bytecode", "part firmware",
          "firmware"}
Signed == {"bytecode", "header lost", "part bytecode"}
Intact == {"bytecode", "header lost"}

VARIABLES
  \* usb_thread.
  dfuState,     (* dfu_state                                            *)
  skip,         (* skip_signature: 1 for bytecode, 0 for firmware, or -1*)
  dataDue,      (* the data stage of a DFU_DNLOAD is still to come      *)
  detach,       (* the timer that resets the device is running          *)
  \* The host.
  image,        (* what it downloads                                    *)
  session,      (* how far: "none", "first", "more" or "done"           *)
  \* The flash.
  bank,
  \* main_thread.
  mode,         (* m_active_mode: "normal" or "dfu"                     *)
  at,           (* in that mode: "begin", "loop" or "end"               *)
  exit,         (* the loop is to end                                   *)
  toggle,       (* FLAG_MODE_TOGGLE                                     *)
  keyFlag,      (* FLAG_KEY_EVENT                                       *)
  events,       (* main_key_events' queue                               *)
  peeked,       (* m_peek - m_pop                                       *)
  peeking,      (* m_get is try_peek(): defer mode                      *)
  dancing,      (* Lua: Defer.c_owner is the tap dance                  *)
  \* matrix_thread.
  enabled,      (* m_enabled                                            *)
  asleep,       (* is_idle()                                            *)
  m_pressed,    (* the keys reported down                               *)
  down,         (* the keys down                                        *)
  \* History, and the bounds.
  carried,      (* a toggle was signalled in the last moment of a mode  *)
  cleared,      (* CLRSTATUS ended a download, nothing enabled the      *)
                (* matrix since                                         *)
  downloads, taps, faults

usbVars    == <<dfuState, skip, dataDue, detach>>
hostVars   == <<image, session>>
modeVars   == <<mode, at, exit>>
queueVars  == <<events, peeked, peeking>>
matrixVars == <<enabled, asleep, m_pressed>>
bounds     == <<downloads, taps, faults>>
vars == <<usbVars, hostVars, bank, modeVars, toggle, keyFlag, queueVars,
          dancing, matrixVars, down, carried, cleared, bounds>>

(* What main_thread is about, and what a request never touches.            *)
mainVars == <<modeVars, keyFlag, queueVars, dancing>>

TypeOK ==
  /\ dfuState \in DfuStates
  /\ skip \in {-1, 0, 1}
  /\ image \in Images
  /\ session \in {"none", "first", "more", "done"}
  /\ bank \in Banks
  /\ mode \in {"normal", "dfu"}
  /\ at \in {"begin", "loop", "end"}
  /\ events \in Seq(Event)
  /\ peeked \in 0 .. Len(events)
  /\ m_pressed \subseteq Keys
  /\ down \subseteq Keys
  /\ {dataDue, detach, exit, toggle, keyFlag, peeking, dancing, enabled,
      asleep, carried, cleared} \subseteq BOOLEAN
  /\ downloads \in 0 .. MaxDownloads
  /\ taps \in 0 .. MaxTaps
  /\ faults \in 0 .. MaxFaults

-----------------------------------------------------------------------------
(* Boot.  Bytecode is looked for, and normal mode entered, unless the boot *)
(* was forced into DFU mode by the magic number or by the cause of reset.  *)

BootMode(found, forced) ==
  IF ~ forced /\ found \in Signed THEN "normal" ELSE "dfu"

Init ==
  /\ dfuState = "IDLE"
  /\ skip = -1
  /\ dataDue = FALSE
  /\ detach = FALSE
  /\ session = "none"
  /\ at = "begin"
  /\ exit = FALSE
  /\ toggle = FALSE
  /\ keyFlag = FALSE
  /\ events = <<>>
  /\ peeked = 0
  /\ peeking = FALSE
  /\ dancing = FALSE
  /\ enabled = TRUE
  /\ asleep = TRUE
  /\ m_pressed = {}
  /\ carried = FALSE
  /\ cleared = FALSE
  /\ bank = "bytecode"
  /\ mode = BootMode(bank, FALSE)
  /\ image = "bytecode"
  /\ down = {}
  /\ downloads = 0
  /\ taps = 0
  /\ faults = 0

Reboot(found, forced) ==
  /\ dfuState' = "IDLE"
  /\ skip' = -1
  /\ dataDue' = FALSE
  /\ detach' = FALSE
  /\ session' = "none"
  /\ at' = "begin"
  /\ exit' = FALSE
  /\ toggle' = FALSE
  /\ keyFlag' = FALSE
  /\ events' = <<>>
  /\ peeked' = 0
  /\ peeking' = FALSE
  /\ dancing' = FALSE
  /\ enabled' = TRUE
  /\ asleep' = TRUE
  /\ m_pressed' = {}
  /\ carried' = FALSE
  /\ cleared' = FALSE
  /\ bank' = found
  /\ mode' = BootMode(found, forced)
  /\ UNCHANGED <<image, down, downloads, taps>>

(* The RESET pin: neither a system reset nor power-on.                     *)
PinReset ==
  /\ faults < MaxFaults
  /\ faults' = faults + 1
  /\ Reboot(bank, TRUE)

-----------------------------------------------------------------------------
(* matrix_thread.                                                          *)

(* A key goes down while matrix_thread sleeps disabled: the interrupt      *)
(* handler returns with the level still high, and no thread runs any more. *)
Storm == asleep /\ ~ enabled /\ down # {}

KeyDown(k) ==
  /\ taps < MaxTaps
  /\ k \notin down
  /\ down' = down \cup {k}
  /\ taps' = taps + 1
  /\ UNCHANGED <<usbVars, hostVars, bank, mainVars, toggle, matrixVars,
                 carried, cleared, downloads, faults>>

KeyUp(k) ==
  /\ k \in down
  /\ down' = down \ {k}
  /\ UNCHANGED <<usbVars, hostVars, bank, mainVars, toggle, matrixVars,
                 carried, cleared, bounds>>

Wake ==
  /\ asleep /\ enabled /\ down # {}
  /\ asleep' = FALSE
  /\ UNCHANGED <<usbVars, hostVars, bank, mainVars, toggle, enabled,
                 m_pressed, down, carried, cleared, bounds>>

(* The reports of one scan, in the order of the slots, each of them with   *)
(* FLAG_KEY_EVENT; matrix_thread sleeps again once no key is down.         *)
Changes ==
  LET Change(k) == IF (k \in down) = (k \in m_pressed) THEN <<>>
                   ELSE <<[key |-> k, press |-> k \in down]>>
  IN  Change("ESC") \o Change("TAP")

Scan ==
  /\ ~ asleep
  /\ events' = events \o Changes
  /\ keyFlag' = (keyFlag \/ Changes # <<>>)
  /\ m_pressed' = down
  /\ asleep' = (down = {})
  /\ UNCHANGED <<usbVars, hostVars, bank, modeVars, toggle, peeked, peeking,
                 dancing, enabled, down, carried, cleared, bounds>>

-----------------------------------------------------------------------------
(* usb_thread: the requests of the DFU class.  The host leaves at least a  *)
(* millisecond between two of them, enough for main_thread to act on what  *)
(* the last one signalled when it is in DFU mode; in normal mode Lua, a    *)
(* key held down or the end of Lua may keep it busy for as long as it      *)
(* takes.  So may it in the short visit to DFU mode that a toggle of the   *)
(* last moment of normal mode leads to: a request may fall into that.      *)
(* Once the reset is due the host waits for it.                            *)

Request ==
  /\ ~ Storm
  /\ ~ detach
  /\ mode = "dfu" => carried \/ (at = "loop" /\ ~ toggle /\ ~ keyFlag)

SignalToggle ==
  /\ toggle' = TRUE
  /\ carried' = (carried \/ at = "end")

(* Faulty: in DFU mode as well.                                            *)
ToggleAlways == SignalToggle

ToggleToDfu == IF mode = "dfu" THEN UNCHANGED <<toggle, carried>>
               ELSE SignalToggle

(* Faulty: the verdict on the previous image is kept.                      *)
OldVerdict == UNCHANGED skip

NoVerdict == skip' = -1

(* DFU_DNLOAD, setup stage of block 0.                                     *)
DnloadFirst(img) ==
  /\ Request
  /\ dfuState = "IDLE"
  /\ downloads < MaxDownloads
  /\ downloads' = downloads + 1
  /\ image' = img
  /\ session' = "first"
  /\ dfuState' = "DL_BUSY"
  /\ dataDue' = TRUE
  /\ NoVerdict
  /\ enabled' = FALSE
  /\ ToggleToDfu
  /\ cleared' = FALSE
  /\ UNCHANGED <<detach, bank, mainVars, asleep, m_pressed, down, taps,
                 faults>>

(* ... of a later block.                                                   *)
DnloadNext ==
  /\ Request
  /\ dfuState = "DL_IDLE"
  /\ session \in {"first", "more"}
  /\ dfuState' = "DL_SYNC"
  /\ dataDue' = TRUE
  /\ session' = "more"
  /\ UNCHANGED <<skip, detach, image, bank, mainVars, toggle, matrixVars,
                 down, carried, cleared, bounds>>

(* The data stage.  The first packet tells bytecode from firmware by the   *)
(* slot header; block 0 is no longer than that header, and leaves the      *)
(* bytecode behind it alone.                                               *)
DnloadData ==
  /\ ~ Storm
  /\ dataDue
  /\ dataDue' = FALSE
  /\ skip' = IF skip # -1 THEN skip ELSE IF image = "bytecode" THEN 1 ELSE 0
  /\ \/ session = "first" /\ bank \in Intact /\ bank' = "header lost"
     \/ session = "first" /\ bank \notin Intact /\ bank' = bank
     \/ session = "more" /\ image = "bytecode" /\ bank' = "part bytecode"
     \/ session = "more" /\ image = "firmware" /\ bank' = "part firmware"
  /\ UNCHANGED <<dfuState, detach, hostVars, mainVars, toggle, matrixVars,
                 down, carried, cleared, bounds>>

(* ... a packet too short, or one that cannot be written.                  *)
DnloadFails ==
  /\ ~ Storm
  /\ dataDue
  /\ faults < MaxFaults
  /\ faults' = faults + 1
  /\ dataDue' = FALSE
  /\ dfuState' = "ERROR"
  /\ UNCHANGED <<skip, detach, hostVars, bank, mainVars, toggle, matrixVars,
                 down, carried, cleared, downloads, taps>>

(* DFU_DNLOAD of length 0: an image with a slot header gets its magic      *)
(* number, and main_thread is to run it.  An image is longer than block 0. *)
DnloadEnd ==
  /\ Request
  /\ dfuState = "DL_IDLE"
  /\ session = "more"
  /\ session' = "done"
  /\ dfuState' = "MANIFEST_SYNC"
  /\ bank' = image
  /\ IF skip = 0 THEN UNCHANGED <<toggle, carried>> ELSE SignalToggle
  /\ UNCHANGED <<skip, dataDue, detach, image, mainVars, matrixVars, down,
                 cleared, bounds>>

(* Faulty: the host is not kept waiting for DFU mode.                      *)
MayGoOnAtOnce == TRUE

MayGoOn == dfuState = "DL_BUSY" => mode = "dfu"

(* DFU_GETSTATUS.  The host polls while it is told to wait.                *)
BlockDone ==
  /\ Request
  /\ ~ dataDue
  /\ dfuState \in {"DL_SYNC", "DL_BUSY"}
  /\ MayGoOn
  /\ dfuState' = "DL_IDLE"
  /\ UNCHANGED <<skip, dataDue, detach, hostVars, bank, mainVars, toggle,
                 matrixVars, down, carried, cleared, bounds>>

Enable == enabled' = TRUE /\ cleared' = FALSE

Manifested ==
  /\ Request
  /\ dfuState = "MANIFEST_SYNC"
  /\ dfuState' = "IDLE"
  /\ Enable
  /\ UNCHANGED <<skip, dataDue, detach, hostVars, bank, mainVars, toggle,
                 asleep, m_pressed, down, carried, bounds>>

(* DFU_CLRSTATUS, which a host sends when it finds the error.              *)
ClrStatus ==
  /\ Request
  /\ dfuState = "ERROR"
  /\ dfuState' = "IDLE"
  /\ session' = "none"
  /\ cleared' = ~ enabled
  /\ UNCHANGED <<skip, dataDue, detach, image, bank, mainVars, toggle,
                 matrixVars, down, carried, bounds>>

(* DFU_ABORT, in whatever state.                                           *)
Abort ==
  /\ Request
  /\ ~ dataDue
  /\ faults < MaxFaults
  /\ faults' = faults + 1
  /\ Enable
  /\ dfuState' = "IDLE"
  /\ session' = "none"
  /\ UNCHANGED <<skip, dataDue, detach, image, bank, mainVars, toggle, asleep,
                 m_pressed, down, carried, downloads, taps>>

(* DFU_UPLOAD: a short packet ends it.                                     *)
Upload ==
  /\ Request
  /\ \/ /\ dfuState = "IDLE"
        /\ faults < MaxFaults
        /\ faults' = faults + 1
        /\ dfuState' \in {"UP_IDLE", "IDLE"}
     \/ /\ dfuState = "UP_IDLE"
        /\ dfuState' = "IDLE"
        /\ UNCHANGED faults
  /\ UNCHANGED <<skip, dataDue, detach, hostVars, bank, mainVars, toggle,
                 matrixVars, down, carried, cleared, downloads, taps>>

(* DFU_DETACH, after a download (dfu-util -R), and the reset that follows: *)
(* into the new firmware, which leaves the old one on the other bank, or   *)
(* with the banks as they are.                                             *)
Detach ==
  /\ Request
  /\ dfuState = "IDLE"
  /\ session = "done"
  /\ detach' = TRUE
  /\ UNCHANGED <<dfuState, skip, dataDue, hostVars, bank, mainVars, toggle,
                 matrixVars, down, carried, cleared, bounds>>

Detached ==
  /\ detach
  /\ IF skip = 0 THEN Reboot("firmware", TRUE) ELSE Reboot(bank, FALSE)
  /\ UNCHANGED faults

-----------------------------------------------------------------------------
(* main_key_events.get(), in its two modes.                                *)

Available == IF peeking THEN peeked < Len(events) ELSE events # <<>>
Got == IF peeking THEN events[peeked + 1] ELSE Head(events)
Queue == IF peeking THEN events ELSE Tail(events)

Peeks == IF peeking THEN peeked + 1 ELSE 0

-----------------------------------------------------------------------------
(* main_thread in normal mode.                                             *)

In(m, place) == ~ Storm /\ mode = m /\ at = place

(* The Lua state is made from the bytecode; without its header an          *)
(* assertion fails, and the panic forces DFU mode.                         *)
NormalInit ==
  /\ In("normal", "begin")
  /\ IF bank = "bytecode"
     THEN /\ at' = "loop"
          /\ UNCHANGED <<usbVars, hostVars, bank, mode, exit, toggle, keyFlag,
                         queueVars, dancing, matrixVars, down, carried,
                         cleared, downloads, taps>>
     ELSE Reboot(bank, TRUE)
  /\ UNCHANGED faults

(* What Lua does with an event: outside defer mode it is executed, and a   *)
(* press of TAP starts the dance; in defer mode TAP's own events are       *)
(* executed and leave the queue, the press of another key ends the dance,  *)
(* and all events but TAP's own stay to be handled once more.              *)
HandleKeyEvent ==
  \/ /\ ~ dancing
     /\ dancing' = (Got = [key |-> "TAP", press |-> TRUE])
     /\ peeking' = (peeking \/ dancing')
     /\ events' = Queue
     /\ peeked' = Peeks
  \/ /\ dancing
     /\ Got.key = "TAP"
     /\ events' = RemoveAt(Queue, Peeks)
     /\ peeked' = Peeks - 1
     /\ UNCHANGED <<peeking, dancing>>
  \/ /\ dancing
     /\ Got.key # "TAP"
     /\ dancing' = ~ Got.press
     /\ peeking' = ~ Got.press
     /\ events' = Queue
     /\ peeked' = Peeks

NormalKey ==
  /\ In("normal", "loop")
  /\ keyFlag
  /\ IF Available THEN HandleKeyEvent ELSE UNCHANGED <<queueVars, dancing>>
  /\ keyFlag' = Available'
  /\ UNCHANGED <<usbVars, hostVars, bank, modeVars, toggle, matrixVars, down,
                 carried, cleared, bounds>>

(* A key of the keymap calls fw.dfu_mode().                                *)
KeyEntersDfu ==
  /\ In("normal", "loop")
  /\ keyFlag /\ Available /\ ~ dancing
  /\ Reboot(bank, TRUE)
  /\ UNCHANGED faults

(* The dance's timeout.                                                    *)
DanceEnds ==
  /\ In("normal", "loop")
  /\ dancing
  /\ dancing' = FALSE
  /\ peeking' = FALSE
  /\ keyFlag' = (keyFlag \/ events # <<>>)
  /\ UNCHANGED <<usbVars, hostVars, bank, modeVars, toggle, events, peeked,
                 matrixVars, down, carried, cleared, bounds>>

NormalToggle ==
  /\ In("normal", "loop")
  /\ toggle /\ ~ keyFlag
  /\ toggle' = FALSE
  /\ exit' = TRUE
  /\ keyFlag' = Available
  /\ UNCHANGED <<usbVars, hostVars, bank, mode, at, queueVars, dancing,
                 matrixVars, down, carried, cleared, bounds>>

(* No flag is set and both threads are idle.  (That usb_thread will be, is *)
(* UsbHidKeyboard's business.)                                             *)
NormalLeave ==
  /\ In("normal", "loop")
  /\ exit /\ ~ toggle /\ ~ keyFlag
  /\ asleep
  /\ at' = "end"
  /\ UNCHANGED <<usbVars, hostVars, bank, mode, exit, toggle, keyFlag,
                 queueVars, dancing, matrixVars, down, carried, cleared,
                 bounds>>

(* lua_close() and the new m_active_mode.                                  *)
EnterDfu ==
  /\ In("normal", "end")
  /\ mode' = "dfu"
  /\ at' = "begin"
  /\ exit' = FALSE
  /\ dancing' = FALSE
  /\ UNCHANGED <<usbVars, hostVars, bank, toggle, keyFlag, queueVars,
                 matrixVars, down, carried, cleared, bounds>>

-----------------------------------------------------------------------------
(* main_thread in DFU mode.                                                *)

DfuBegin ==
  /\ In("dfu", "begin")
  /\ at' = "loop"
  /\ UNCHANGED <<usbVars, hostVars, bank, mode, exit, toggle, keyFlag,
                 queueVars, dancing, matrixVars, down, carried, cleared,
                 bounds>>

(* One event for one flag.  The release of ESC resets the system.          *)
DfuKey ==
  /\ In("dfu", "loop")
  /\ keyFlag
  /\ IF Available /\ Got = [key |-> "ESC", press |-> FALSE]
     THEN Reboot(bank, FALSE)
     ELSE /\ keyFlag' = FALSE
          /\ events' = IF Available THEN Queue ELSE events
          /\ peeked' = IF Available THEN Peeks ELSE peeked
          /\ UNCHANGED <<usbVars, hostVars, bank, modeVars, toggle, peeking,
                         dancing, matrixVars, down, carried, cleared,
                         downloads, taps>>
  /\ UNCHANGED faults

DfuToggle ==
  /\ In("dfu", "loop")
  /\ toggle /\ ~ keyFlag
  /\ toggle' = FALSE
  /\ at' = "end"
  /\ UNCHANGED <<usbVars, hostVars, bank, mode, exit, keyFlag, queueVars,
                 dancing, matrixVars, down, carried, cleared, bounds>>

EnterNormal ==
  /\ In("dfu", "end")
  /\ mode' = "normal"
  /\ at' = "begin"
  /\ UNCHANGED <<usbVars, hostVars, bank, exit, toggle, keyFlag, queueVars,
                 dancing, matrixVars, down, carried, cleared, bounds>>

-----------------------------------------------------------------------------
Main == NormalInit \/ NormalKey \/ DanceEnds \/ NormalToggle \/ NormalLeave
        \/ EnterDfu \/ DfuBegin \/ DfuKey \/ DfuToggle \/ EnterNormal

Host ==
  \/ \E img \in Images : DnloadFirst(img)
  \/ DnloadNext \/ DnloadEnd \/ BlockDone \/ Manifested
  \/ ClrStatus \/ Abort \/ Upload \/ Detach

Next ==
  \/ Host \/ DnloadData \/ DnloadFails \/ Detached
  \/ Main \/ KeyEntersDfu
  \/ Wake \/ Scan
  \/ \E k \in Keys : KeyDown(k) \/ KeyUp(k)
  \/ PinReset

(* The threads run when they can, the host polls and sends the data it     *)
(* announced, and nobody holds a key for ever.                             *)
Fairness ==
  /\ WF_vars(Main)
  /\ WF_vars(Wake)
  /\ WF_vars(Scan)
  /\ WF_vars(BlockDone)
  /\ WF_vars(DnloadData)
  /\ \A k \in Keys : WF_vars(KeyUp(k))

Spec == Init /\ [][Next]_vars /\ Fairness

-----------------------------------------------------------------------------
(* Lua runs on bytecode that is all there: no block but the first is       *)
(* written while it does (GETSTATUS keeps the host waiting,                *)
(* usb_dfu.cpp:326-331), whatever the order in which the host's requests,  *)
(* the toggles and the end of Lua come.                                    *)
LuaIntact == mode = "normal" /\ at # "begin" => bank \in Intact

(* The reset after DFU_DETACH swaps the banks if and only if the other     *)
(* bank holds firmware (usb_dfu.cpp:153-156): skip_signature still tells   *)
(* what was downloaded last.                                               *)
DetachFits == detach => bank = IF skip = 0 THEN "firmware" ELSE "bytecode"

(* Between downloads the keyboard works: matrix_thread is enabled, unless  *)
(* a failed download ended with CLRSTATUS (usb_dfu.cpp:192, 306-321).      *)
EnabledAtRest == dfuState \in {"IDLE", "UP_IDLE"} /\ ~ cleared => enabled

(* The host is not kept waiting for ever: once block 0 is written,         *)
(* main_thread gets to DFU mode and GETSTATUS says so, although keys are   *)
(* held down, events are queued and a dance goes on (main_thread.cpp:      *)
(* 279-303).  The exception: a toggle signalled while normal mode was      *)
(* ending already led DFU mode straight back to normal mode.               *)
HostServed ==
  dfuState = "DL_BUSY" /\ ~ dataDue ~> dfuState # "DL_BUSY" \/ carried

(* Defer mode belongs to a deferrer: normal mode never runs with defer     *)
(* mode on and no keymap in the chain to end it.                           *)
DeferHasOwner == mode = "normal" /\ at = "loop" /\ peeking => dancing

=============================================================================
