# dropalt: a TLA+ verification project

dropalt is keyboard firmware for RIOT on a SAMD51: a scanned key matrix, a
keymap engine written in Lua, a USB HID keyboard, and a two-port USB hub that
moves the keyboard from one host to the other. This directory models the parts
in which threads, interrupts, timers and the USB host meet, checks the models
with TLC, and proves what matters most with TLAPS. All paths are relative to the
root of the repository.

## 1. The system

    key matrix -> matrix_thread -> main_key_events -> main_thread (Lua keymap)
                                                          |  report_press/release
    USB host <- controller <- usbus thread <- usb_key_events / report
                                  |  suspend, resume
                              usbhub_thread <- ADC interrupts

| thread          | priority (1 is highest) | runs                                  |
|-----------------|------|--------------------------------------------------------|
| usbus           | 1    | USB handlers, posted events, `on_transfer_complete()`  |
| matrix_thread   | 2    | scan, debounce, `signal_key_event()`                   |
| usbhub_thread   | 3    | hub state machine, RGB current                         |
| main_thread     | 7    | keymap, timers of the keymap, DFU mode, REPL           |

Timer callbacks (`ztimer`) and ADC reports are interrupts.

| component | state | operations | what is hard | what makes it correct |
|---|---|---|---|---|
| **USB HID keyboard** `usb/usbus_hid_*`, `usb_key_events` | report, submission counter, queue with its mutex, three timers, posted events, accessibility | report, submit, acknowledge, time out, drain, suspend, resume, reset, settle, clear | three contexts, a blocking push with interrupts enabled, time-outs racing acknowledgements, suspend at any point | order kept, no loss while accessible, frames that lose nothing, the host ends up with the keys that are held, no deadlock |
| **Key event queue** `main_key_events` | ring buffer, three wrapping indices, two mutexes, pop or peek mode | push, pop, peek, dry run, remove last, terminal full | the producer preempts the consumer; unlocks outside the critical section | bounded FIFO with a cursor, mutex held exactly while full |
| **Matrix thread** `matrix/` | debounce counters, reported keys, sleep | scan, report, give up, sleep, wake | a report that fails half way | every change is reported in the end, never asleep with a key pending |
| **Main thread** `main_thread.cpp` | flags, mode | dispatch flags, dry run, mode toggle, pending calls | lost wake-ups, spurious wake-ups, a toggle while a mode ends | a flag is set whenever there is an event to get; Lua never runs on half a keymap |
| **Keymap engine** `user_logic/` | defer chain, state of each keymap | press, release, defer, decide, time out | keymaps inside keymaps that all defer; a decision made while another is open | nothing stays pressed, every deferrer ends |
| **Lua layer** `lua_embedded/` | timers, deferred calls, `fw.nvm`, stdin of the REPL | start, stop, time out, execute later, read, load, run, drain | time-outs posted before a restart; input, flags and wake-ups between a look and a sleep; pieces of old chunks | no stale time-out, no call lost, never asleep with work to do, no chunk pieced together |
| **USB hub** `usbhub/` | one of four states, flags, timers, host and extra port | suspend, resume, switchover, enable, cut | flags of an old state handled in a new one; events posted by an ISR | one host port, no extra power on a suspended bus, panic cut-off |
| **RGB LEDs** `rgb_gcr`, `is31fl3733.c` | current, enabled; page selected and colours per chip | raise, lower, disable, set a colour, refresh | two threads on one bus; the ISR decides, a thread executes; a counter that wraps | each write in its page, dark when off, chips as `m_current_gcr` tells, no sudden current |
| **Persistent storage** `persistent/` | buddy blocks in emulated EEPROM | create, set, remove, find, commit | split and merge, replace by remove and create, power loss between two stores | names unique, blocks tile the memory, each call changes one name |
| **DFU** `usb_dfu` | DFU state, verdict on the image, flash bank | download, upload, status, abort, detach | interplay with mode toggle, matrix thread and the key event queue | Lua only on whole bytecode, the right bank after the reset, keyboard enabled again, host not kept waiting for ever |
| **Log backup** `backup_ram`, `log_backup` | wrapping buffer that survives a reset | write, read, upload in packets | wrap and in-place rotation, resets in the middle, lines logged during an upload | newest lines kept in order, no reader leaves the buffer |
| Effects and lamps, board support, boot and tools | - | - | - | output or registers only; not modelled |

`PROJECT.json` names the sources of each component, what is modelled of it, and
every hazard with the properties that would catch it.

## 2. Modules

| module | role |
|---|---|
| `KeyReport` | pure: key events, the report as a set of keys, `update_report()` |
| `KeyChannel` | abstract: what the USB keyboard promises, a FIFO seen by the host in frames |
| `UsbHidKeyboard` | `usbus_hid_keyboard_t` with its queue, timers, threads, and host; implements `KeyChannel` |
| `KeyQueue` | abstract: what the key event queue promises, a bounded FIFO with a cursor |
| `MainKeyEvents` | `main_key_events`, the loop of matrix_thread, normal mode and defer mode; implements `KeyQueue` |
| `UsbHub` | usbhub_thread: four states, flags, timers, ADC measurements, two ports |
| `NameValues` | abstract: what persistent storage promises, a map from names to values and its saved copy |
| `Persistent` | the buddy allocator, its callers, commit and power loss; implements `NameValues` |
| `Dfu` | usb_thread's DFU requests, the two modes of main_thread, boot, matrix_thread's `enable()` and `disable()` |
| `Keymap` | the keymap classes, the chain of deferrers, the driver and the Lua timers |
| `LogBackup` | the log in backup RAM, its writer, and DFU_UPLOAD packet by packet |
| `Repl` | `timed_stdin`, the REPL, and main_thread's loop as far as it sleeps and wakes up |
| `RgbLeds` | the current of the LEDs and the driver of their chips, called by two threads |
| `MCUsbHidKeyboard`, `MCPersistent`, `MCKeymap`, `MCRgbLeds` | model values and definitions for TLC |
| `UsbHidKeyboardProofs`, `MainKeyEventsProofs`, `UsbHubProofs`, `KeymapProofs`, `PersistentProofs`, `UsbDfuProofs`, `ReplProofs`, `RgbLedsProofs` | theorems about them; `UsbDfuProofs` has those about `Dfu` and `LogBackup`, the two halves of `usb_dfu.cpp` |

The models meet at narrow interfaces. `Keymap` takes the queue of key events as
`MainKeyEvents` promises it; what a deferrer decides is open in `MainKeyEvents` and
worked out in `Keymap`. `Dfu` takes one key of each kind of both. `Repl` and `Dfu` each
have the part of main_thread's loop that matters to them; that usb_thread becomes idle
is the business of `UsbHidKeyboard`. `LogBackup` is DFU_UPLOAD in detail, `Dfu` has its
states. `RgbLeds` needs of `UsbHub` when its states for an active bus begin and end, and
of `Dfu` that main_thread changes its mode.

### UsbHidKeyboard

Variables carry the members of `usbus_hid_keyboard_t`: `updated` is
`m_report_updated`, `pressYet` is `m_press_yet_to_submit`, `queue` and `locked`
are `usb_key_events` with `m_not_full`, `posted` is the event queue of the usbus
thread. `held` is what the keymap has reported, `host` what the host sees.
`inFrame` and `deferred` are history: the events that are in `in_buf`, and those
that are in the report but not yet in `in_buf`; they make the refinement possible
and no guard reads them. `spent` counts the faults of the environment.

- `report_event()` runs with interrupts disabled and is one step:
  `ReportInaccessible`, `ReportNow`, or `ReportLater`. The exception is the
  blocking `push()`, which enables interrupts: a failed trylock (`main =
  "locking"`), `mutex_lock()` (`LockNotFull`), and the rest (`PushGranted`).
- `on_transfer_complete()` is split into its first half (`HandleAck`,
  `HandleTransferComplete`) and one step for each round of its loop (`DrainOne`,
  `DrainDone`): a timer may fire in between; main_thread cannot run.
- `event_post()` ignores an event that is queued already (`Posting`).

What comes from outside the repository, and is therefore an assumption:

- main_thread runs only when the usbus thread has nothing to do (`UsbQuiet`);
  timers may fire between any two steps.
- With `Prompt`, a runnable main_thread leaves `push()` before the host polls
  again: polls are at least a millisecond apart.
- A bus reset lasts 10 ms, so what was posted before has been handled when
  `OnReset` runs. A suspend is reported after 3 ms of idle bus, so the handler of
  the last acknowledgement has run (`~ acked` in `OnSuspend`).
- `tx_timer` is longer than the polling interval. It expires on an active bus
  only if the host leaves a transfer unanswered, at most `MaxStalls` times; the
  late acknowledgement may still come.

### MainKeyEvents

The variables keep the names of the code. `matrix` and `main` say where the two
threads are; `owner` and `nest` are the defer chain (`Defer.c_owner`), `down` the
keys whose press the keymap executed last. Everything a thread does while it
holds `m_access_lock` is one step; the unlock of `m_full_lock` that follows is
another (`PopUnlocks`, `RemoveUnlocks`, `DryRunUnlocks`), because matrix_thread,
which has the higher priority, may run in between. Conversely main_thread takes
no step while matrix_thread can run (`MainRuns`).

- `Scan` may find any set of keys down: the debouncer is abstracted.
- `PushTimeout` is `ztimer_mutex_lock_timeout()` failing, and it ends the scan;
  `SystemReset` is the case in which the queue is full of deferred events.
- What a deferrer decides is open: it may stay, stop, or (up to `MaxNest` times)
  stop and have the keymap it chose start deferring. Its own events are executed
  at once and removed, others stay, except under QuickRelease.
- `OtherFlag` stands for the lamp state, the terminal and the heartbeat: they do
  nothing to the queue, but the dry run follows them too.
- The early return of `try_pop()` and `try_peek()` is not an action:
  `FlagMeansEvent` shows that normal mode never gets there with an event expected.
- `spurious` is history: `m_full_lock` was released with the queue full (finding 1
  below). What the queue promises is stated up to that point, and `Beyond` says
  whether keys change after it.

### UsbHub

`state`, `host`, `automatic`, `panic` and `manual` are the members of
`usbhub_state` and its children, `mux` and `vbus` what they write to the hub's shift
register. Normal mode only. `spent` counts what the environment did, of each kind and,
with `MaxChanges`, altogether.

`raced` is history: something reached the thread before it had dealt with what came
before (`Dealt`, `Settled`). That a switchover makes the bus it leaves suspend is part
of the switchover, and no race.

- `Wait` is `thread_flags_wait_any()`: it takes all flags that are set, and `batch`
  holds those not yet handled, in the order of the loop (`Order`).
- A handler first leaves what it has to do in `todo`: `end` of the present state,
  `begin` of the next, and what follows on the state `transition_to()` returns. Each
  is a step (`EndSuspend`, `BeginEnabled`, `PerformSwitchover`, `SetPanicDisabled`,
  ...), because ADC reports and timers interrupt in between and look at `pstate`.
- A switchover selects the port, for which `usbhub_select_host_port()` sleeps, and swaps
  `v_host` and `v_extra` behind that: `PerformSwitchover` or `TimeoutDetermine`, then
  `SwapHost`. In between `v_extra` is the port selected as host, and reports, ticks and
  requests arrive.
- `Tick` and `StartMeasure` are the two halves of a periodic measurement, `ReportCon`
  its result with `isr_process_v_con_report()` of the state it finds. Posted events
  keep their order and are posted once.
- The three timers share `FLAG_TIMEOUT` (`Expire`); nothing tells the thread which
  one it was.
- `Report5V` may come at any time: the 5 V line is measured throughout, and its
  place in the event queue is left out. So is the wait of a measurement for it.
- The retry timer is 200 measuring periods long: it does not expire before a first
  result for the host port, nor in the middle of a switchover (an assumption, in
  `Expire`). Without it the two ports
  would only be tried in turn once more.
- `plug` is what the ADC would measure. `bus` is the port whose host keeps the bus
  active; the USB stack reports changes of it (`BusResume`, `BusSuspend`).
- `request_extra_enable_manually()` and `..._automatically()` have no callers yet
  (`ideas.md`); the model lets them come at any moment.

### Persistent and NameValues

A block of `size2 = l` at offset `i * 2^l` is the node `<<l, i>>` of a binary tree
(level 0 is the smallest block in use), and a heap says of every node what a walk from
`begin()` to `end()` makes of it: free, used, split, or inside a larger block.

- `nvm` is the heap a walk sees now. `_create()` and `_remove()` prepare new headers
  inside a block that is free or about to be, where no walk comes; `draft` is the heap
  as it will be once the one header store that matters is made. `Split` and `Merge` are
  the turns of the two loops, `Allocate` and `Remove` that store, `Fill` the copying of
  name and value behind it.
- `Set`, `NewIndexNil`, `NewIndexInt`, `NewIndexFloat` and `NewIndexString` are the
  firmware's and the scripts' ways to write. Where they call `_remove()` and then
  `_create()`, `op` carries the second over. The mutex is held throughout, so one
  operation runs at a time.
- `Commit` makes the stores so far durable: by the timer, or by the SmartEEPROM itself
  when its page buffer changes. `Boot` is a power loss between any two stores and
  `init()` after it: it keeps a heap that begins with the entry `last_host_port`, and
  starts anew otherwise.
- `Overwritten` is `_set()`: as many bytes as the old value has, so a one-byte value
  keeps the low byte of a number.
- A power loss between `Allocate` and `Fill` leaves an entry whose name is whatever the
  memory held (`Junk`). `torn` remembers it; `NameValues` promises nothing after it.
- `ImplementsMap` maps a heap to the values of its filled entries. A step of the
  allocator is a stutter, or one `Put` or `Delete` of one name, `Save`, or `Boot`.

### Dfu

`dfuState` is `dfu_state`, `skip` is `skip_signature`, `bank` what the other flash bank
holds (Lua runs from there, downloads go there), `mode` and `at` where main_thread is in
its two modes, `toggle` FLAG_MODE_TOGGLE.

- A request is one step of usb_thread. Requests are at least a millisecond apart, in
  which main_thread acts on what the last one signalled if it is in DFU mode; in normal
  mode Lua or a key held down may keep it busy for any time, and so may it in the short
  visit to DFU mode to which a toggle of the last moment leads (`Request`, `carried`).
- DFU_ABORT may come in any state, between two requests with their data. Assumed of
  images: they are longer than block 0, which is no longer than the slot header, so that
  `DnloadEnd` follows at least two blocks.
- `DnloadFirst` disables matrix_thread and has main_thread leave normal mode; only
  DFU_GETSTATUS (`BlockDone`, `MayGoOn`) keeps the host from sending block 1 while Lua
  still runs. `DnloadEnd` writes the magic number and toggles back for bytecode.
- Block 0 overwrites the slot header and leaves the bytecode behind it alone:
  `Intact`. `NormalInit` finds a lost header out and panics into DFU mode.
- `Storm` is the level-triggered interrupt of a key that goes down while matrix_thread
  sleeps disabled: nothing runs until the key is up.
- The keymap has two keys: one that sends a key, one that starts a tap dance and with
  it defer mode. DFU mode takes one event for one flag and does no dry run.
- `carried` and `cleared` are history: a toggle was signalled in the last moment of a
  mode; CLRSTATUS ended a failed download.

### Keymap

A step executes one method of `class.lua` up to the methods it calls; `calls` is the
stack of those and of what is left to do after them. Between two events the stack is
empty (`Idle`). `count`, `modified`, `chosen`, `step`, `finished` and `mySlot` are the
fields of the keymaps, `chain` the deferrers from `Defer.c_owner` on.

- `HandleKeyEvent` takes the snapshot of the chain; `TapHoldTold` and `TapDanceTold` tell
  each deferrer in it, whether it is still in the chain or not, and `AllTold` goes on
  behind the last.
- A Lua timer has a callback (`expected`), a ztimer (`running`), and an event that may
  be in the queue (`posted`). It is set again while an old event is still posted, as in
  `timer.cpp`; the event then counts for the new term.
- Timers expire between any two steps, in any order: their terms are abstracted, so a
  run covers every combination of terms.
- `failed` is an `assert` or a method called on nil (a TapHold that has decided nothing, a
  TapSeq past its last tap), after which nothing more happens here.
- `Made` says when a keymap was made. A constructor takes keymaps that are there already,
  so children are made before what contains them, and nothing contains itself. A script
  makes finitely many (`KeymapAssumption`).
- `Calm` is no part of the behaviour: it says of keymaps that they do not disturb one
  another, and is the hypothesis of one theorem.
- `MCKeymap` has three keys after `keymap.extended.lua`: a TapSeq of two TapHolds, a
  TapHold of a modifier, and two nested ModIfs with a TapHold and a OneShot inside.

### LogBackup

A character is its number in the log, so that order, gaps and repetitions show. `log`
is the backup RAM (`buffer`, `write_offset`, `size_limited`), `upload` the variables of
`dfu_upload_handler()`.

- `backup_ram_write()` and `backup_ram_read()` run with interrupts disabled: `Write`,
  `UploadStart`. The rotation is three reversals, as in the code.
- `ResetInWrite` and `ResetInRead` cut one of them short after any number of
  characters or swaps, at most `MaxTorn` times between two power-ons. A swap of two
  bytes is not cut in half: one byte would be there twice.
- `UploadStart`, `UploadBlock` and `UploadPacket` are the calls of the handler; a short
  packet ends the upload and logs a line. The host asks for a block once, and not
  before the boot has logged something.
- `due`, `copied`, `wrapped`, `passed` and `gap` are history, for `UploadsInOrder`.

### Repl

`mutex` and `pipe` are `stdin_isrpipe`, `readAhead` is `m_read_ahead` with its bytes,
`space` is `m_space_available`, `stoppable` is `m_stoppable`, `rest` what
`cdc_acm_rx_pipe()` has not yet written of its packet. A piece of input says which chunk
it belongs to and where.

- `read_timed_out()` is five steps: `Lock`, `FirstGet`, `CheckFlags`, `Wake` and the
  caller's return, because input, signals and the timer come in between.
- usb_thread has the higher priority: main_thread takes no step while it can go on
  (`UsbWaits`). It waits in the middle of a packet for space, until a timeout
  (`DropRest`).
- The host sends a chunk once it has the status of the one before, and finishes what it
  has begun. `lua_load()` recognises the beginning of a chunk and its length, nothing
  else.
- `wait_for_input()` clears FLAG_TIMEOUT before it looks at the flags; the model does not.
  main_thread saw no flag a moment before, and only the timer of an earlier nap sets that
  one; whether it is cleared or ends the wait at once makes no difference to what is claimed.
- `"event"` stands for every flag but the terminal's two. The list of deferred calls is
  one flag (`call`); the mode toggle is left to `Dfu`.
- `Panic` is the end of a session at a failed assertion.

### RgbLeds

`todo` holds the calls of the driver that a thread has yet to make, in the order of the
code: lowering the current to 0 leaves `is31_set_gcr(0)`, `is31_set_ssd_lock(true)` and the
end of `adc::lock_guard`. Every call is `AcquireBus`, a `WriteChip` for each chip, and
`ReleaseBus`, and the other thread, the ADC interrupt, the timer and the supply may
come in between. The hub thread has the higher priority; main_thread goes on when it waits.

- `page` is `g_command_register`, what the software believes each chip has selected;
  `selected` is what it has. A write lands in the page that is selected (`Stores`).
- `Round`, `ProcessWord` and `Blocks` are the algorithm of `_is31_write_pwm_registers()`:
  skipping zeros and counting ones of a word with `__builtin_ctz`, and carrying a block over
  the end of a word. `flags >>= 32` (`is31fl3733.c:124`) is undefined in C; the shift of the
  Cortex-M4 gives 0, as the code expects, and so does the model.
- `Disable` is `rgb_gcr::disable()`, called by the hub thread (`Suspend`) and by main_thread
  (`EnterDfu`). The `uint8_t` wraps: `Lower` is taken modulo `TopGcr + 1`.
- `wrapped` is history: the current was lowered at 0, and has not been 0 since. `raced`
  is, too: a signal of the bus arrived while main_thread was between its two modes, or
  DFU mode ended on a suspended bus (`LeaveDfu`: `normal_mode()` enables without asking).
  `hurried` says so of the present toggle.
- Two assumptions about time: the handlers of one measurement take less than the period
  of the next (`Tick`), which may well come in the middle of a toggle; signals of the bus
  are 3 ms apart, so that at most one arrives in a toggle (`Signal`).
- Not modelled: `is31_enable_led()` and `set()`, which nothing calls at run time.

## 3. Runs

| run | instance | shows |
|---|---|---|
| `UsbNominal` | keys a, b, modifier m; room for both; queue of 2; no faults; fairness | `CounterFits`, `NeverStranded`, `HostAgreesAtRest`; implements `KeyChannel` with `Strict`; `Converges`, `Unblocks` |
| `UsbFaults` | keys a, b; room for one; queue of 1; one stall, one suspend, one reset; redundant events | `QueueLock`, `AccessibleOnlyActive` |
| `KeyEvents` | 2 keys, queue of 3, indices modulo 6, one nested deferrer; fairness | `FullLockTight`, `AlternatingUnlessSpurious`, `FlagMeansEvent`, `ReleasedAtRest`; implements `KeyQueue`; `Drains` |
| `KeyEventsOverflow` | 2 keys, queue of 2, `Beyond` | violates `Alternating` (finding 1) |
| `UsbHub` | two resumes; one plug, dip of the 5 V level or request of three kinds; charging kept during suspend; fairness | `SetUpForState`, `AgreesUnlessRaced`, `NeverAsserts`, `CableBreakSwitches`, `ExtraFollows`, `OverloadIsCut` |
| `RgbLeds` | two chips of 3 rows and 2 columns, words of 2 flags; a current of up to 2 in a counter of 4 values; one colour | `ColorsShown`, `DarkWhenOff`, `SsdFollowsGcr`, `SoftStart` |
| `Persistent` | three names, values of four types and two sizes, a memory of four smallest blocks | `HeapSound`, `NamesUnique`; implements `NameValues` |
| `Dfu` | three downloads, two key presses, two faults; fairness | `LuaIntact`, `DetachFits`, `HostServed` |
| `Keymap` | three keys, four presses | `NeverAsserts`, `DeferrersWait`, `RestIsClean` |
| `KeymapSnapshot` | the same with HoldOnPress inside the TapSeq, two presses | violates `NeverAsserts` (finding 2) |
| `LogBackup` | a buffer of 7, lines of up to 3, 17 characters, blocks of two packets, one cut | `LogTypeOK`, `ReadsEndOfLog`, `UploadsInOrder` |
| `Repl` | two sessions, three chunks of three pieces, three pings, two events; pipe of 2; fairness | `SleepsOnlyIdle`, `NoOrphanSession`, `RunsWhole`, `PendingRuns` |

Run one with `tlc -config UsbNominal.cfg MCUsbHidKeyboard`.

**Bounds.** Two ordinary keys and a modifier give every case of
`try_report_event()`: the same key, another key, a modifier behind a press. A
queue of one or two entries is full after very few events, so that blocking and
overwriting happen in almost every behaviour; the code has 32 (usb_key_events)
and 16 (main_key_events). With `ReportRoom` 1 a second key finds the report full.
One fault of each kind reaches all findings; two queue entries with a stall, a
suspend and a reset together also pass, in several minutes. In `KeyEvents` the
indices wrap after six pushes and the ring after three; the width of `size_t`
must be a multiple of the capacity, as 2^32 is of 16. There is no bound on the
number of events: the state spaces are finite by themselves. The hub is finite too;
`MaxResumes` and `MaxChanges` bound what its environment does. Two resumes and a change
reach every sequence of two transitions, with interrupts and flags of the first arriving
in the second. A current of 2 is raised from 0, raised further and lowered, and 3 is what
it wraps to; with two chips, one has been written to while the other has not.
`BlocksAreRuns` checks the algorithm of the blocks for every set of marks on three words.

Four smallest blocks have three levels: blocks split and merge twice, and three names
with larger and smaller entries fill and fragment them. Three downloads are enough for
one that fails, one of the other kind of image after it, and one after that. Four
presses of three keys let a TapSeq run to its last step, with another deferrer nested
in its chain and a third key to interrupt both. In `LogBackup` the 17 characters start
the buffer anew twice, so that a rotated buffer is overlaid and rotated again. A pipe of two
pieces and chunks of three make every chunk wait in usb_thread, be cut and be
interrupted. The theorems hold without any of these bounds.

`TypeOK` of `UsbHidKeyboard`, `MainKeyEvents`, `UsbHub`, `Persistent`, `Dfu`, `Repl` and, for
calm keymaps, `Keymap` are theorems, and so are `HostStaysWhileActive` of `UsbHub` and
`EnabledAtRest` of `Dfu`. No run repeats them.

**Deadlock.** It is checked in `UsbNominal`, `KeyEvents`, `UsbHub`, `RgbLeds` and
`Repl`. `UsbFaults` really stops: a suspend during a transfer can leave main_thread
blocked on a full queue nobody drains (section 4), and the tiny queue can also
fill with events that change nothing, all of which are drained without a submission.
The code would need 32 such events in one frame. `Persistent` rests when
everything is committed and no call is made; the others stop when their bounded
environment has done all it may.

**Fairness.** USB: the usbus thread and main_thread go on when they can, since
nothing of higher priority runs forever; an active host polls its interrupt
endpoint; timers that are set expire. Nothing is assumed of the user, or of the
host's suspends, resumes, resets and lamp reports. Key events: matrix_thread goes
on when it can; main_thread gets its turn, because a scan ends before the next is
due (strong fairness: every scan interrupts it); other flags do not arrive so
often that `FLAG_KEY_EVENT` is never reached; the timer of a deferrer expires.

Hub: the thread runs, conversions end, measuring timers tick, the grace timer
expires, and a bus whose host is gone is suspended. A drain of the event queue ends
before the next tick is due, 5 ms later. Hosts need not resume, users need not plug
anything. `CableBreakSwitches` speaks of a thread that has settled, with the
measurement that `automatic_switchover_enabled` stands for.

Dfu: the threads run when they can, the host polls for the status it waits for and
sends the data it has announced, nobody holds a key for ever. Nothing makes the host
start, go on with or end a download. Repl: main_thread runs; usb_thread goes on with its
packet when there is space and gives up at its timeout; the threads that are busy become
idle; a timer that is set fires. `Persistent`, `Keymap`, `LogBackup` and `RgbLeds` state safety only.

`AgreesUnlessRaced` excludes what the code does not try to handle: a suspend that
is handled before the resume it follows (the loop looks at the flags in a fixed
order), and a transition posted by the ADC interrupt that is run after another one
has left the state.

`Converges` is conditional: no queued event expired or was overwritten while USB
was inaccessible, USB stays accessible from some time on, and the user stops
typing. Then host and user agree forever.

## 4. Findings

With a run that shows them:

1. **`m_full_lock` is released with the queue full** (`KeyEventsOverflow`). The dry
   run after every flag calls `try_pop(nullptr)`, which unlocks without popping;
   and a pop or a removal unlocks after it has left its critical section, where
   matrix_thread may have filled the queue again. The next push overwrites the
   oldest event, and a slot sees two presses or two releases in a row.
2. **A deferrer that has stopped is told once more** (`KeymapSnapshot`). A tap of
   `TapSeq(TapHold(a, b, HoldOnPress), ...)` and then another key: the snapshot is the
   TapSeq and the TapHold. The TapSeq ends the dance and releases the TapHold, which
   decides for its tap and stops; then the loop (`class.lua:386`) tells the TapHold of
   the press too, it decides for its hold, and `stop_defer()` fails its assertion.

Found with the same models, by putting the property (an INVARIANT) and the constants
named here into the cfg in place of the run's own:

3. **A stalled transfer loses a deferred change** (`HostAgreesAtRest`, `UsbNominal.cfg`
   with `MaxStalls = 1`). When `tx_timer` expires, `on_transfer_complete(false)` sets
   `m_report_updated` to 0 although the report was updated after it was submitted
   (`usbus_hid_keyboard.cpp:196`). If the host then takes the late packet, nothing is
   re-submitted: a deferred release stays unseen until the next key event.
4. **A suspend during a transfer blocks the keyboard** (`HostAgreesAtRest`,
   `MaxSuspends = 1`). The acknowledgement is ignored while USB is inaccessible
   (`:198`), and `m_report_updated` stays set if the bus resumes without a reset. Every
   later event is deferred or queued, and in the end main_thread blocks.
5. **The blocked push outlives accessibility** (`NeverBlocksInaccessible`,
   `UsbFaults.cfg`). The header promises not to block while USB is inaccessible; a
   suspend that arrives while main_thread waits does not wake it
   (`usb_key_events.cpp:23`), and it cannot request a remote wake-up.
6. **A stale time-out cuts off the extra device** (`PanicOnlyAfterDip`, `UsbHub.cfg`).
   The three timers of the hub set the same flag. A time-out of the retry or the blink
   timer that is taken together with a resume is handled after it
   (`usbhub_thread.cpp:67`), in `state_extra_enabled`, which disables the port in panic.
7. **Defer mode outlives its deferrer** (`DeferHasOwner`, `Dfu.cfg`). A download during
   a tap dance closes the Lua state; the queue stays in peek mode, and the next Lua
   state has no deferrer that would end it (`main_thread.cpp:395`).
8. **The REPL's `enable()` may fail its assertion** (`NeverAsserts`, `Repl.cfg`). The
   terminal closes while `cdc_acm_rx_pipe()` waits for space; `disable()` lets it go on,
   and the rest of its packet is read ahead by a stdin that is disabled
   (`timed_stdin.cpp:60`). If a key is held down, so that the input is not executed,
   and a terminal opens and pings, `assert( m_read_ahead == 0 )` fails (`:135`).

9. **The LEDs stay dark after a wrap** (`SsdFollowsGcr` without `\/ wrapped`,
   `RgbLeds.cfg`). With a low 5 V level the ISR asks for a lower current at 0 too
   (`rgb_gcr.cpp:27`). `--m_current_gcr` (`:38`) wraps to 255 while the chips stay shut down;
   only a current of 0 that is raised releases them, and with 255 for `RGB_LED_GCR_MAX`
   nothing lowers it while the voltage is good. `rgb_gcr.hpp:17` says that the shutdown
   follows the current.
10. **A resume in the middle of a toggle turns the LEDs on in DFU mode** (`DarkWhenOff`
   without `~raced`, `RgbLeds.cfg`). `normal_mode()` disables `rgb_gcr` before the mode changes
   (`main_thread.cpp:395`); a state of the hub that begins in between still finds normal
   mode and enables it (`usbhub_states.cpp:254`).

Smaller disagreements met on the way:

- `internals_lua.md:114` has input discarded before the status of an error is sent;
  `repl.cpp:85-91` sends it first, so a host that answers at once loses its next chunk.
- A thread that becomes idle between main_thread's look and `m_stoppable = true`
  (`main_thread.cpp:67-73`) wakes nobody: a pending call then waits for the
  heartbeat, up to a second.
- The first ping of a new session is taken for input if stdin is still enabled for the
  old one; and of a chunk that is dropped before `lua_load()` begins, the host hears
  nothing (`timed_stdin.cpp:73-74`).
- `execute_pending_calls()` clears the list after running it (`lexecute.cpp:87`): a call
  added by one of the calls is lost.
- DFU mode takes one event per flag, so ESC may go unnoticed when two events share a
  flag (`main_thread.cpp:240`; `features.md:34`). `internals_monolithic_fw.md:75` says it
  swaps the banks; the code resets.
- CLRSTATUS after a failed download leaves matrix_thread disabled
  (`usb_dfu.cpp:306-314`), which is why `EnabledAtRest` excludes it; and a toggle
  signalled while a mode ends leads straight back (`HostServed`'s `carried`).
- `features.md` says that queued keys expire after four seconds; the timer is restarted
  by every new event, so the oldest ones live longer while the user types.

Each run's trace is the shortest TLC finds; `PROJECT.json` quotes the statements of the
repository the two runs contradict.

## 5. Theorems

Proved for every value of the constants that satisfies the named assumptions
(`KeysAssumption`, `UsbAssumption`, `KeyEventsAssumption`, `HubAssumption`,
`KeymapAssumption`, `PersistentAssumption`, `DfuAssumption`, `LogAssumption`, `ReplAssumption`,
`LedsAssumption`), with no bound on faults, keys or sizes.

- `UsbHidKeyboardProofs!TypeCorrect`, `QueueLockInvariant`: `QueueLock` says that
  outside the blocking push the mutex is locked exactly while the queue is full,
  that a waiter waits only on a full queue, and that whoever was handed the mutex
  finds room. `TypeOK /\ QueueLock` is inductive: `TypeOK` supplies that an event is
  pending exactly while main_thread is inside `push()`, and each step group (report,
  push, drain, bus, timers) is a lemma that says what it does to the queue, the
  mutex and the waiter.
- `UsbHidKeyboardProofs!AccessibleInvariant`: `AccessibleOnlyActive` is inductive on
  its own.
- `UsbHidKeyboardProofs!CounterInvariant`: `CounterFits` is inductive on its own. While
  changes wait for the next submission only releases are added to them, and each leaves a
  key less, so `updated` and the number of keys in the report have a bounded sum.
- `UsbHidKeyboardProofs!NeverStrandedWhileEffective`: with events in the queue, a submission
  is under way, or about to be, or main_thread is on its way out of `push()`. It has three
  hypotheses, and each is needed. `Prompt`: a main_thread that pushes after the drain has
  ended pushes into an idle queue. No suspends and no resets: finding 4. And every event
  changes the report (`Effective`), as the alternating events of the keymap do: events
  that change nothing are drained without a submission.
- `UsbHidKeyboardProofs!ChannelRefinement`: `Spec => ImplementsChannel`, with the faults. The
  invariant (`ChannelInv`) relates the report to the events: `held` is `host` after the events
  in the frame, the deferred ones and the queued ones; a frame hides nothing since
  `CanTry` was asked of every event in it. Each action is a `Report`, `Deliver`, `Skip`,
  `Overflow`, `Expire`, `Reset` or `Switch` of `KeyChannel`, or a stutter. `HostAgreesWhenCalm`
  follows for a bus without
  stalls, suspends and resets, where an idle keyboard has nothing deferred and nothing queued.
- `MainKeyEventsProofs!FullLockInvariant`: `FullLockTight` for any ring size and any
  width of the indices that is a multiple of it. The inductive invariant adds the
  ranges of the indices, since differences are taken modulo the width; the
  arithmetic of wrapping indices (what a step of one index does to a distance) is
  stated in lemmas of its own, and the steps are grouped by what they do to indices
  and mutex. Up to a spurious release: after it the claim is false (finding 1).
- `MainKeyEventsProofs!RangesInvariant`, `FlagMeansEventWhileCounting`,
  `FlagUnlessSpuriousInvariant`: main_thread finds an event whenever the flag is set, and the
  flag is set, or about to be, whenever there is one. After a spurious release events are
  overwritten and the indices drift apart; the claim then holds as long as they have not
  lapped one another, 2^32 pushes later (`NoWrap`). Up to the release `FullLockTight`
  bounds the queue, and no hypothesis is needed.
- `MainKeyEventsProofs!TypeInvariant`, `Refinement`: the second part looks into the buffer.
  The places of the queued indices differ (`DistinctAt`: the capacity divides the width and
  bounds the queue), so a push changes no queued event, and `Contents`, the sequence from
  `m_pop` to `m_push`, is appended to, shortened, or loses an event in the middle. Each
  action is then a step of `KeyQueue` or a stutter, until the first spurious release, after
  which `KeyQueue` promises nothing.
- `MainKeyEventsProofs!AlternationInvariant`, `ReleasedAtRestInvariant`: the events of a slot
  that are still to be executed alternate, beginning with the opposite of what the keymap saw
  last (`down`) and ending with what matrix_thread reported last (`m_pressed`): `AltInv`,
  stated by `Turns` about any sequence of events. The lemmas say what appending an event and
  removing one do to `Turns`; an event that is executed out of its turn in the queue is always
  the first of its slot. At rest nothing is pending, so both agree.
- `UsbHubProofs!NeverAssertsInvariant`, `SetUpForStateInvariant`, `HostStays`: what holds between two handlers follows from
  `HubInv`, which says what holds between any two steps of one. It needs the shape of
  what is left of a handler (`Shape`: `end`, a state, then at most the one call that
  belongs to that state), so that `perform_switchover` is only reached in
  `state_usb_suspend`, and distinguishes the gap between `end()` and `begin()`, in
  which the extra port is measured whatever `pstate` still says. Handlers that only
  start a transition, steps of a transition, and interrupts have a lemma each. The port
  selected is the host's, unless a switchover is half done; then it is the extra port, and
  the swap is what comes next (`HalfDone`). That happens only in
  `state_determine_host` and `state_usb_suspend` (`HalfDoneUnasked`), and `v_extra` is asked
  only in the other two and between `end()` and `begin()`.
- `UsbHubProofs!TypeCorrect`: `HubInv` gives the types of what it is about; the rest
  (`Simple`, `Queue`) is inductive beside it.
- `UsbHubProofs!AgreesInvariant`: `AgreeInv` says that the LEDs are as the state that began last
  has set them (`Lit`) and, unless raced, that a transition under way leads to the state the
  bus and the extra port ask for (`Course`), that between two handlers what is still to be handled
  leads there (`AtRest`), that a flag waits for the thread alone (`Alone`), and that an event
  an ISR posted is still true when it is run (`Timely`).
- `KeymapProofs!DeferrersWaitInvariant`: `KeymapInv` says that a deferrer in the chain
  waits for its timer or its end is on the stack of calls (`Timed`), and is in the chain
  once (`Once`). What could strand one is `Unref`, which drops the callback after a timeout:
  had the deferrer started again before, its new timer would find nothing to call. It has
  not (`Ended`): until then the stack holds, above `Unref`, only calls of the keymap that
  timed out which do not start it, and calls of keymaps made before it (`Nested`), which do
  not know it. A press of the same keymap therefore comes either before the timeout is
  handled or after `Unref`. For any tables of keymaps, any nesting in which children are
  made first, any flavors and any keys, until a method fails.
- `KeymapProofs!RestIsCleanInvariant`: `RestIsClean` speaks of a moment of rest and is not
  inductive; `Tidy` is what holds between any two steps. Its heart is `Balance`: of every
  keymap, what it counts, what the calls on the stack and the queue of events will press
  (`Gains`, `Pressed`), and what a ModIf with UNDO_MODIFIER has released (`Undoers`) is what the
  stack and the queue will release (`Dues`, `Released`), what other keymaps keep pressed
  (`Keepers`), and what keys hold it (`Holders`). A deferrer keeps a keymap between two calls of
  its own, so `Tidy` also has the order of the stack (no call of a deferrer's own waits below
  another of it, `Stacked`), what a TapHold has chosen or will (`Decision`), how far a dance is
  (`Dance`), and that a modified ModIf and a key sent are pressed (`PressedOnly`). One lemma
  for each action; the arithmetic of occurrences in a sequence and of sets that change at
  one element is in lemmas of its own (`Recount`, `CountOfOne`). At rest nothing is on the
  stack, in the queue, in the chain or held by a key. If some keymaps are still counted, one of
  them was made last (`LastMade`: there are finitely many); what keeps it was made after it
  and is counted as well, so nothing keeps it, and its balance says that its count is 0.
- `KeymapProofs!NeverAssertsWhenCalm`: `Calm => (Spec => []NeverAsserts)`, for keymaps that do
  not disturb one another. `Calm` is about the keymaps as they are made, never about a run:
  no deferrer that may end when it is told of a press (`Acting(TRUE)`: a TapSeq, a TapHold
  with HoldOnPress or TapOnPress) has another such deferrer anywhere inside, and the same for
  releases; the modifier of a ModIf with UNDO_MODIFIER has no deferrer inside; and a TapSeq
  has a tap. Every keymap of `keymap.lua` and `keymap.extended.lua` is like that, and
  `MCKeymap` has TLC evaluate it for its keymaps (`CalmAsInTheRepository`); those of
  `KeymapSnapshot` are not, and finding 2 shows what happens then. The condition suffices; that
  it is the weakest is not claimed. The invariant is `Settled`, beside `Sound` and `Tidy`: a
  TapHold that is pressed waits, has chosen or is choosing (`Held`); a TapSeq that waits has
  made a step and not its last (`Stepped`); what a call presumes holds from when it is made,
  because it is next (`AtOnce`, `First`); a press of a keymap with deferrers inside comes
  to the top with the slot of the chain (`PressesInPlace`), and so does a tap, since whatever
  changes the slot before puts it back (`TapsInPlace`, `Restores`); and while a deferrer is still
  to be told of an event, what is at work above is of keymaps that do not end on that event,
  so that it is in the chain when its turn comes (`Heard`, `Heeds`, `Audience`): here the first
  part of `Calm` is used. Each `assert` of `class.lua` then follows from one of them
  (`NothingFails`). With it `DeferrersWait` and `RestIsClean` hold for such keymaps without
  their proviso that no method has failed.
- `KeymapProofs!TypeCorrect`: from the same invariant, `Calm => (Spec => []TypeOK)`. Without
  `Calm` a TapSeq pressed past its last tap has a `step` that is none.
- `PersistentProofs!HeapIsSound`, `PersistentTypes`: `HeapInv` says that the heap, its
  durable copy and the draft tile the memory, that only the block at hand and its buddy
  may both be free in the draft (`DraftMerged`), and what that block is at each point of
  an operation (`AtHand`). `Upward` and `Downward` are about nodes: buddies, parents and
  halves. Joining two free buddies (`Joined`) and halving a free block (`Halved`) keep a
  tiling; every other step changes what a block is used for (`Refill`).
- `PersistentProofs!OneEntryPerName`: `EntriesInv` adds that an operation that is going
  to create a name has none of that name left (`Pending`), and that entries are filled
  outside `fill`; up to the first torn entry.
- `PersistentProofs!HeapImplementsMap`: `Spec => ImplementsMap`. With unique names the
  `CHOOSE` in the mapping is determined (`OneEntry`, `NoEntry`), and each action is shown
  to be a stutter (`Stutter`), a `Put`, a `Delete`, `Save` or `Boot`.
- `UsbDfuProofs!LuaStaysIntact`, `DetachSwapsFirmware`, `KeyboardEnabledAtRest`: `DfuInv`
  says that where the bytecode is not intact main_thread is in DFU mode or about to look
  at it again (`BytecodeKept`), that past block 0 it never is as it was (`Parked`), so that
  a toggle of the last moment, which leads back to normal mode, ends in a panic and not in
  Lua; in which states a data stage is due, and that the verdict on the image is decided by
  then and right.
- `UsbDfuProofs!DfuTypeCorrect`: what it says of the queue of key events is not obvious,
  since normal mode ends and begins again with the queue as it was. `Peeked` adds that the
  tap dance has defer mode on: an event that leaves the queue out of its turn is then one
  that was peeked at.
- `UsbDfuProofs!ReadersStayInside`, `ReadsTheEnd`: `LogInv` says that the front of the
  buffer is the end of the log (`Latest`), that what is left of the previous lap continues
  it backwards (`Rest`), and that both are together long enough (`Enough`). A lemma
  says what the three reversals of the rotation do to a byte.
- `UsbDfuProofs!UploadsTheLog`: what is still to be uploaded begins behind what was copied,
  while lines are appended (`Ahead`); once the buffer has started anew under the upload, only
  what was passed is claimed (`Behind`).
- `ReplProofs!NeverOversleeps`: while main_thread has the mutex of the pipe and nobody
  has unlocked it, what it looked at is as it was (`Checked`, `Asleep`), because
  `stoppable` is set throughout (`Stoppable`). `NoSessionIsOrphaned`: of a terminal that
  has gone nothing is left but FLAG_DTE_DISABLED and what it undoes (`SessionInv`).
- `ReplProofs!RunsWholeChunks`: what was loaded, read ahead, left in the pipe and left in
  usb_thread is one stream of pieces. It stays in the order of the host (`Ordered`), without
  a second beginning of a chunk (`Fresh`), whatever is dropped from its end.
- `ReplProofs!ReplTypeCorrect`: from the same invariant and the sizes of the buffers
  (`Fitting`): what usb_thread waits to write is no longer than a packet, and lua_load()
  reads on only while it has less than a chunk.
- `RgbLedsProofs!SsdFollowsGcrInvariant`, `DarkInvariant`, `SoftStartHolds`: `Chips` says of what is
  left of a thread's calls what the chips have, those behind the one written next and those
  before it: settled, ramping, lighting, dimming or locking. It needs that never two threads
  change the current (`Alone`), which holds because main_thread begins a toggle only when the
  hub thread has nothing to do, and disables the interrupt that would give it something
  (`Undisturbed`). Thus a step of the current meets chips that have the last one or are
  shut down, and no write raises what an LED gets by more than one.
- `RgbLedsProofs!ColorsInvariant`: the page believed and the page selected agree at every
  write. Its hypothesis `Covers`, every marked register is in a block, is about an
  algorithm built of folds; TLC checks it for all marks on a small chip.


Only model-checked: liveness (`Converges`, `Unblocks`, `Drains`, `CableBreakSwitches`,
`ExtraFollows`, `OverloadIsCut`, `HostServed`, `PendingRuns`), which is out of the prover's
reach, as are ENABLED and induction over data (`BlocksAreRuns`). `NeverAsserts` of `Keymap` is a
theorem for keymaps that are calm; for others it is open but for finding 2, an instance in
which it fails.

## 6. Not modelled, and the plan

- **USB HID keyboard**: the bytes of the report, the six-key array and SET_PROTOCOL in
  mid-session; control requests and descriptors.
- **Matrix thread**: the debouncer and the scan count. A scan may find any set of keys
  down.
- **Keymap engine**: the classes Function and Predicate, lamps and effects, and the terms
  of the timers.
- **Lua layer**: repeated timers, the list of deferred calls, the functions of
  `lfwlib.cpp` that only wrap C functions.
- **USB hub**: `last_host_port` in persistent storage, DFU mode's LEDs, the I2C set-up.
- **Persistent storage**: `remove_all()`, which nothing calls at run time, the readers, and
  the set-up of the SmartEEPROM.
- **DFU**: descriptors and the choice of a slot. A USB reset does not reset `dfu_state`,
  so the model has none.
- **RGB LEDs**: the colours that effects and lamps compute, and enabling single LEDs.
- **Board support, boot and flashing tools**: registers, assembly and host scripts, without
  state that other parts read.

Order of the work to come:

1. For the hub, the promise that a panic-disabled port stays off
   (`usbhub_states.hpp:137`), which a report between `begin()` and `set_panic_disabled()`
   breaks.
2. The debouncer and the six-key array as algorithms, against reference definitions
   over bounded inputs.
3. The list of deferred calls and repeated timers, on top of `Repl` and `Keymap`.
4. Weaker conditions than `Calm` under which `NeverAsserts` of `Keymap` can be proved.
