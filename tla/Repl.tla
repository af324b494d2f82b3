-------------------------------- MODULE Repl --------------------------------
(***************************************************************************)
(* The Lua REPL over USB CDC ACM: timed_stdin (lua_embedded/               *)
(* timed_stdin.cpp), repl (repl.cpp) and the loop of normal mode           *)
(* (main_thread.cpp) that sleeps in one and runs the other.                *)
(*                                                                         *)
(* usb_thread puts what the host sends into a pipe and waits, up to a      *)
(* timeout, when it is full; main_thread reads a piece ahead, and loads    *)
(* the rest of the chunk from there.  main_thread has the lowest priority: *)
(* a callback of usb_thread is one step, up to where it blocks, while      *)
(* main_thread can be preempted between any two of its steps.              *)
(***************************************************************************)
EXTENDS Naturals, Sequences, SequencesExt

CONSTANTS
  PIPE,         (* STDIO_RX_BUFSIZE, in pieces of a chunk               *)
  READ,         (* CONFIG_STDIN_RX_BUFSIZE, likewise                    *)
  LEN,          (* pieces of a chunk                                    *)
  PACKET,       (* pieces of a USB packet                               *)
  MaxOpens,     (* times the host opens the terminal                    *)
  MaxChunks,    (* chunks it sends                                      *)
  MaxPings,     (* pings it sends                                       *)
  MaxEvents     (* other events for main_thread                         *)

ASSUME ReplAssumption ==
  /\ {PIPE, READ, LEN, PACKET} \subseteq Nat \ {0}
  /\ {MaxOpens, MaxChunks, MaxPings, MaxEvents} \subseteq Nat

Piece == [chunk : 1 .. MaxChunks, at : 1 .. LEN]
Ping == [chunk |-> 0, at |-> 0]
Input == Piece \cup {Ping}

VARIABLES
  \* timed_stdin.
  mutex,        (* stdin_isrpipe.mutex is locked                        *)
  pipe,         (* stdin_isrpipe.tsrb                                   *)
  space,        (* m_rx_space_avail is unlocked                         *)
  readAhead,    (* m_read_buffer, up to m_read_ahead                    *)
  enabled,      (* m_enabled                                            *)
  stoppable,    (* m_stoppable                                          *)
  timer,        (* the timer of read_timed_out() is set                 *)
  \* usb_thread.
  rest,         (* what cdc_acm_rx_pipe() waits to write                *)
  \* main_thread.
  flags,        (* pending: "event" stands for any but FLAG_DTE_*       *)
  pc,           (* where it is                                          *)
  reader,       (* who called read_timed_out(): "wait", "load", "drain" *)
  loaded,       (* what lua_load() has read                             *)
  call,         (* execute_is_pending()                                 *)
  busy,         (* usb_thread or matrix_thread is not idle              *)
  \* The host.
  host,         (* "closed", "open", "ready" for a chunk, or "waiting"  *)
  chunk,        (* chunks it has begun                                  *)
  sent,         (* pieces of the last one it has sent                   *)
  \* Bounds.
  opens, pings, events

stdin == <<mutex, pipe, space, readAhead, enabled, stoppable, timer>>
main == <<pc, reader, loaded, call>>
hostVars == <<host, chunk, sent, opens, pings>>
vars == <<stdin, rest, flags, main, busy, hostVars, events>>

Prefix(s, n) == SubSeq(s, 1, IF n < Len(s) THEN n ELSE Len(s))
Suffix(s, n) == SubSeq(s, n + 1, Len(s))

Init ==
  /\ mutex = FALSE
  /\ pipe = <<>>
  /\ space = FALSE
  /\ readAhead = <<>>
  /\ enabled = FALSE
  /\ stoppable = FALSE
  /\ timer = FALSE
  /\ rest = <<>>
  /\ flags = {}
  /\ pc = "top"
  /\ reader = "wait"
  /\ loaded = <<>>
  /\ call = FALSE
  /\ busy = FALSE
  /\ host = "closed"
  /\ chunk = 0
  /\ sent = LEN
  /\ opens = 0 /\ pings = 0 /\ events = 0

-----------------------------------------------------------------------------
(* Signals to main_thread.                                                 *)

(* stop_wait(), called with m_stoppable as it is now.                      *)
StopWait == mutex' = (mutex /\ ~stoppable)

(* set_thread_flags() *)
Signal(flag) ==
  /\ flags' = flags \cup {flag}
  /\ StopWait

(* A key event, a timeout or a lamp event.                                 *)
OtherEvent ==
  /\ events < MaxEvents
  /\ events' = events + 1
  /\ Signal("event")
  /\ UNCHANGED <<pipe, space, readAhead, enabled, stoppable, timer, rest,
                 main, busy, hostVars>>

(* usb_thread or matrix_thread starts some work.                           *)
GetBusy ==
  /\ ~busy
  /\ events < MaxEvents
  /\ events' = events + 1
  /\ busy' = TRUE
  /\ UNCHANGED <<stdin, rest, flags, main, hostVars>>

(* Both are idle again: signal_thread_idle(), which sets no flag.          *)
GetIdle ==
  /\ busy
  /\ busy' = FALSE
  /\ StopWait
  /\ UNCHANGED <<pipe, space, readAhead, enabled, stoppable, timer, rest,
                 flags, main, hostVars, events>>

-----------------------------------------------------------------------------
(* usb_thread: cdc_acm_rx_pipe(), called for line states and packets.      *)

UsbReady == rest = <<>>

(* isrpipe_write() of as much as fits, which unlocks the pipe's mutex.     *)
Push(data) ==
  LET n == PIPE - Len(pipe) IN
  /\ pipe' = pipe \o Prefix(data, n)
  /\ rest' = Suffix(data, n)
  /\ mutex' = FALSE

(* The line state says that a terminal is there, or that it has gone.      *)
HostOpens ==
  /\ UsbReady
  /\ host = "closed" /\ opens < MaxOpens
  /\ host' = "open"
  /\ opens' = opens + 1
  /\ sent' = LEN
  /\ Signal("event")
  /\ UNCHANGED <<pipe, space, readAhead, enabled, stoppable, timer, rest,
                 main, busy, chunk, pings, events>>

HostCloses ==
  /\ UsbReady
  /\ host # "closed"
  /\ host' = "closed"
  /\ Signal("disabled")
  /\ UNCHANGED <<pipe, space, readAhead, enabled, stoppable, timer, rest,
                 main, busy, chunk, sent, opens, pings, events>>

(* A ping, which counts as input once stdin is enabled.                    *)
HostPings ==
  /\ UsbReady
  /\ host = "open" /\ pings < MaxPings
  /\ pings' = pings + 1
  /\ IF enabled
     THEN Push(<<Ping>>) /\ UNCHANGED flags
     ELSE Signal("ready") /\ UNCHANGED <<pipe, rest>>
  /\ UNCHANGED <<space, readAhead, enabled, stoppable, timer, main, busy,
                 host, chunk, sent, opens, events>>

(* A packet of a chunk.  The host begins a chunk once it has the status of *)
(* the one before, and what it has begun it sends to the end.  Without     *)
(* stdin it is nobody's.                                                   *)
HostSends ==
  /\ UsbReady
  /\ \/ /\ host = "ready" /\ sent = LEN /\ chunk < MaxChunks
        /\ chunk' = chunk + 1
        /\ host' = "waiting"
     \/ /\ host \in {"ready", "waiting"} /\ sent < LEN
        /\ UNCHANGED <<chunk, host>>
  /\ LET first == IF sent = LEN THEN 0 ELSE sent
         last  == IF first + PACKET < LEN THEN first + PACKET ELSE LEN
         data  == [k \in 1 .. last - first |->
                     [chunk |-> chunk', at |-> first + k]] IN
     /\ sent' = last
     /\ IF enabled THEN Push(data) ELSE UNCHANGED <<pipe, rest, mutex>>
  /\ UNCHANGED <<space, readAhead, enabled, stoppable, timer, flags, main,
                 busy, opens, pings, events>>

(* The packet did not fit: the rest follows when main_thread has read, or, *)
(* at the timeout, is dropped together with what is in the pipe.           *)
PushRest ==
  /\ rest # <<>>
  /\ space
  /\ space' = FALSE
  /\ Push(rest)
  /\ UNCHANGED <<readAhead, enabled, stoppable, timer, flags, main, busy,
                 hostVars, events>>

DropRest ==
  /\ rest # <<>>
  /\ ~space
  /\ rest' = <<>>
  /\ pipe' = <<>>
  /\ UNCHANGED <<mutex, space, readAhead, enabled, stoppable, timer, flags,
                 main, busy, hostVars, events>>

-----------------------------------------------------------------------------
(* main_thread: read_timed_out().                                          *)

Goto(label) == pc' = label /\ UNCHANGED <<reader, loaded, call>>

Call(who) == pc' = "lock" /\ reader' = who /\ UNCHANGED <<loaded, call>>

(* The first mutex_lock().                                                 *)
Lock ==
  /\ pc = "lock"
  /\ ~mutex
  /\ mutex' = TRUE
  /\ Goto("get")
  /\ UNCHANGED <<pipe, space, readAhead, enabled, stoppable, timer, rest,
                 flags, busy, hostVars, events>>

(* tsrb_get() *)
Get ==
  /\ readAhead' = Prefix(pipe, READ)
  /\ pipe' = Suffix(pipe, READ)

FirstGet ==
  /\ pc = "get"
  /\ Get
  /\ Goto(IF pipe = <<>> THEN "check" ELSE "return")
  /\ UNCHANGED <<mutex, space, enabled, stoppable, timer, rest, flags, busy,
                 hostVars, events>>

(* The mask is that of all flags for wait_for_input(), or is empty.        *)
CheckFlags ==
  /\ pc = "check"
  /\ IF reader = "wait" /\ flags # {}
     THEN Goto("return") /\ UNCHANGED timer
     ELSE Goto("sleep") /\ timer' = TRUE
  /\ UNCHANGED <<mutex, pipe, space, readAhead, enabled, stoppable, rest,
                 flags, busy, hostVars, events>>

(* The timer's callback.                                                   *)
TimerFires ==
  /\ timer
  /\ timer' = FALSE
  /\ mutex' = FALSE
  /\ UNCHANGED <<pipe, space, readAhead, enabled, stoppable, rest, flags,
                 main, busy, hostVars, events>>

(* The second mutex_lock(), once it returns.                               *)
Wake ==
  /\ pc = "sleep"
  /\ ~mutex
  /\ mutex' = TRUE
  /\ IF timer
     THEN Get /\ timer' = FALSE /\ Goto("return")
     ELSE Goto("timeout") /\ UNCHANGED <<pipe, readAhead, timer>>
  /\ UNCHANGED <<space, enabled, stoppable, rest, flags, busy, hostVars,
                 events>>

(* The end, and the caller's next step: `to' after input or an event, or   *)
(* `late' after a timeout.                                                 *)
Return(who, to, late) ==
  /\ pc \in {"return", "timeout"}
  /\ reader = who
  /\ space' = (space \/ readAhead # <<>>)
  /\ mutex' = FALSE
  /\ Goto(IF pc = "timeout" THEN late ELSE to)
  /\ UNCHANGED <<pipe, readAhead, enabled, timer, rest, busy, hostVars,
                 events>>

-----------------------------------------------------------------------------
(* main_thread: repl::execute().                                           *)

(* respond(): the status goes to the host, whichever terminal is there.    *)
Respond ==
  /\ host' = IF host \in {"open", "waiting"} THEN "ready" ELSE host
  /\ UNCHANGED <<chunk, sent, opens, pings>>

(* lua_load() takes what _reader() returns.  It sees from its signature    *)
(* whether a chunk begins there, and from the chunk's length where it ends.*)
Load ==
  /\ pc = "load"
  /\ readAhead # <<>>
  /\ LET all == loaded \o readAhead IN
     /\ loaded' = all
     /\ pc' = IF all[1].at # 1 THEN "failed"
              ELSE IF Len(all) >= LEN THEN "run" ELSE "load"
  /\ readAhead' = <<>>
  /\ UNCHANGED <<mutex, pipe, space, enabled, stoppable, timer, rest, flags,
                 reader, call, busy, hostVars, events>>

LoadMore ==
  /\ pc = "load"
  /\ readAhead = <<>>
  /\ Call("load")
  /\ UNCHANGED <<stdin, rest, flags, busy, hostVars, events>>

(* Back in _reader(): without input it returns nothing, and lua_load()     *)
(* fails.                                                                  *)
LoadReturns ==
  /\ Return("load", IF readAhead = <<>> THEN "failed" ELSE "load", "failed")
  /\ UNCHANGED <<stoppable, flags>>

(* lua_pcall(): the chunk runs, to its end or into an error.               *)
Run ==
  /\ pc = "run"
  /\ \/ pc' = "failed" /\ UNCHANGED <<host, chunk, sent, opens, pings>>
     \/ pc' = "top" /\ Respond
  /\ loaded' = <<>>
  /\ UNCHANGED <<stdin, rest, flags, reader, call, busy, events>>

(* Faulty: the rest of the chunk is not discarded.                         *)
FailKeepsInput ==
  /\ pc = "failed"
  /\ Respond
  /\ pc' = "top"
  /\ loaded' = <<>>
  /\ UNCHANGED <<stdin, rest, flags, reader, call, busy, events>>

(* An error's status is sent first; then drain() discards what comes.      *)
Fail ==
  /\ pc = "failed"
  /\ Respond
  /\ pipe' = <<>>
  /\ space' = TRUE
  /\ pc' = "lock" /\ reader' = "drain"
  /\ loaded' = <<>>
  /\ UNCHANGED <<mutex, readAhead, enabled, stoppable, timer, rest, flags,
                 call, busy, events>>

DrainReturns ==
  /\ Return("drain", "lock", "top")
  /\ UNCHANGED <<stoppable, flags>>

-----------------------------------------------------------------------------
(* main_thread: the loop of normal mode, an iteration without flags.       *)

(* A pending call; running it may take a while.                            *)
ExecutePending ==
  /\ pc = "top" /\ flags = {}
  /\ ~busy /\ call
  /\ call' = FALSE
  /\ UNCHANGED <<stdin, rest, flags, pc, reader, loaded, busy, hostVars,
                 events>>

Execute ==
  /\ pc = "top" /\ flags = {}
  /\ ~busy /\ ~call
  /\ readAhead # <<>>
  /\ Goto("load")
  /\ UNCHANGED <<stdin, rest, flags, busy, hostVars, events>>

(* Faulty: waits without a look at pending calls.                          *)
WaitForInputOnly ==
  /\ pc = "top" /\ flags = {}
  /\ readAhead = <<>>
  /\ Goto("wait")
  /\ UNCHANGED <<stdin, rest, flags, busy, hostVars, events>>

(* wait_for_input(): m_stoppable is set after the flags were looked at.    *)
Wait ==
  /\ pc = "top" /\ flags = {}
  /\ busy \/ ~call
  /\ readAhead = <<>>
  /\ Goto("wait")
  /\ UNCHANGED <<stdin, rest, flags, busy, hostVars, events>>

(* Faulty: m_stoppable is not set.                                         *)
WaitForInputAlways ==
  /\ pc = "wait"
  /\ Call("wait")
  /\ UNCHANGED <<stdin, rest, flags, busy, hostVars, events>>

(* The FLAG_TIMEOUT that it clears first is left out: a flag was looked    *)
(* for a moment ago, and only the timer of an earlier nap could set it.    *)
WaitForInput ==
  /\ pc = "wait"
  /\ stoppable' = TRUE
  /\ Call("wait")
  /\ UNCHANGED <<mutex, pipe, space, readAhead, enabled, timer, rest, flags,
                 busy, hostVars, events>>

(* A timeout is FLAG_TIMEOUT, the heartbeat.                               *)
WaitReturns ==
  /\ Return("wait", "top", "top")
  /\ stoppable' = FALSE
  /\ flags' = IF pc = "timeout" THEN flags \cup {"event"} ELSE flags

(* With input that cannot be run yet: thread_flags_wait_one(), which       *)
(* signal_thread_idle() does not end, but the heartbeat's FLAG_TIMEOUT.    *)
WaitForFlag ==
  /\ pc = "top" /\ flags = {}
  /\ busy
  /\ readAhead # <<>>
  /\ Goto("nap")
  /\ UNCHANGED <<stdin, rest, flags, busy, hostVars, events>>

WakeForFlag ==
  /\ pc = "nap"
  /\ flags' = IF flags = {} THEN {"event"} ELSE flags
  /\ Goto("top")
  /\ UNCHANGED <<stdin, rest, busy, hostVars, events>>

(* An iteration with a flag: FLAG_DTE_DISABLED goes before FLAG_DTE_READY. *)
(* An event may be a key whose handler calls execute_later().              *)
HandleEvent ==
  /\ pc = "top"
  /\ "event" \in flags
  /\ flags' = flags \ {"event"}
  /\ call' \in {call, TRUE}
  /\ UNCHANGED <<stdin, rest, pc, reader, loaded, busy, hostVars, events>>

(* Faulty: FLAG_DTE_READY of the terminal that has gone is kept.           *)
HandleDisabledKeepsReady ==
  /\ pc = "top"
  /\ "disabled" \in flags
  /\ flags' = flags \ {"disabled"}
  /\ IF enabled
     THEN /\ enabled' = FALSE
          /\ pipe' = <<>>
          /\ space' = TRUE
          /\ readAhead' = <<>>
          /\ StopWait
     ELSE UNCHANGED <<enabled, pipe, space, readAhead, mutex>>
  /\ UNCHANGED <<stoppable, timer, rest, main, busy, hostVars, events>>

(* disable(), and FLAG_DTE_READY is stale by now.                          *)
HandleDisabled ==
  /\ pc = "top"
  /\ "disabled" \in flags
  /\ flags' = flags \ {"disabled", "ready"}
  /\ IF enabled
     THEN /\ enabled' = FALSE
          /\ pipe' = <<>>
          /\ space' = TRUE
          /\ readAhead' = <<>>
          /\ StopWait
     ELSE UNCHANGED <<enabled, pipe, space, readAhead, mutex>>
  /\ UNCHANGED <<stoppable, timer, rest, main, busy, hostVars, events>>

(* thread_flags_wait_one() takes FLAG_DTE_READY; then enable() and the     *)
(* response of start().                                                    *)
TakeReady ==
  /\ pc = "top"
  /\ "ready" \in flags /\ "disabled" \notin flags
  /\ flags' = flags \ {"ready"}
  /\ Goto("ready")
  /\ UNCHANGED <<stdin, rest, busy, hostVars, events>>

HandleReady ==
  /\ pc = "ready"
  /\ IF enabled
     THEN /\ Goto("top")
          /\ UNCHANGED <<pipe, enabled, hostVars>>
     ELSE IF readAhead # <<>>
     THEN /\ Goto("assert")
          /\ UNCHANGED <<pipe, enabled, hostVars>>
     ELSE /\ pipe' = <<>>
          /\ enabled' = TRUE
          /\ Respond
          /\ Goto("top")
  /\ UNCHANGED <<mutex, space, readAhead, stoppable, timer, rest, flags,
                 busy, events>>

(* core_panic() reboots: the session ends here.                           *)
Panic ==
  /\ pc = "assert"
  /\ UNCHANGED vars

-----------------------------------------------------------------------------
(* usb_thread, which has the higher priority, cannot run.                  *)
UsbWaits == rest = <<>> \/ ~space

MainStep ==
  \/ Lock \/ FirstGet \/ CheckFlags \/ Wake
  \/ Load \/ LoadMore \/ LoadReturns \/ Run \/ Fail \/ DrainReturns
  \/ ExecutePending \/ Execute \/ Wait \/ WaitForInput \/ WaitReturns
  \/ WaitForFlag \/ WakeForFlag \/ HandleEvent \/ HandleDisabled \/ TakeReady \/ HandleReady
  \/ Panic

Main == UsbWaits /\ MainStep

Host == HostOpens \/ HostCloses \/ HostPings \/ HostSends

Next ==
  \/ Main
  \/ Host
  \/ PushRest \/ DropRest
  \/ OtherEvent \/ GetBusy \/ GetIdle
  \/ TimerFires

Spec == Init /\ [][Next]_vars

FairSpec ==
  /\ Spec
  /\ WF_vars(Main)
  /\ WF_vars(PushRest \/ DropRest)
  /\ WF_vars(GetIdle)
  /\ WF_vars(TimerFires)

-----------------------------------------------------------------------------
(* The types of the variables.                                             *)
TypeOK ==
  /\ {mutex, space, enabled, stoppable, timer, call, busy} \subseteq BOOLEAN
  /\ pipe \in BoundedSeq(Input, PIPE)
  /\ readAhead \in BoundedSeq(Input, READ)
  /\ rest \in BoundedSeq(Input, PACKET)
  /\ loaded \in BoundedSeq(Input, LEN + READ - 1)
  /\ flags \subseteq {"event", "disabled", "ready"}
  /\ host \in {"closed", "open", "ready", "waiting"}

(* Wake-ups are not lost: when main_thread comes to the first mutex_lock() *)
(* of read_timed_out(), "Does not block" is true, and while it sleeps in   *)
(* the second one there is no input, no flag it should look at instead,    *)
(* and the timer runs that will wake it (timed_stdin.cpp:97-111).          *)
SleepsOnlyIdle ==
  /\ pc = "lock" => ~mutex
  /\ pc = "sleep" /\ mutex =>
       /\ pipe = <<>>
       /\ timer
       /\ reader = "wait" => flags = {}

(* Stdin is open only while a terminal is there, or FLAG_DTE_DISABLED is   *)
(* pending: without echo suppression by the host, what the keyboard prints *)
(* would otherwise be read back as input (timed_stdin.cpp:43-49), whatever *)
(* order a close, a new open and a ping come in while main_thread is busy. *)
NoOrphanSession ==
  enabled /\ host = "closed" => "disabled" \in flags

(* lua_load() accepts no chunk that is pieced together: after a timeout, a *)
(* dropped rest, an error or a new session, nothing left in the pipe, in   *)
(* the rest of a packet or read ahead completes another chunk              *)
(* (timed_stdin.cpp:66-78, repl.cpp:87-91).  The ping of a new session may *)
(* come to stand in the middle of one.                                     *)
Pieces(c) == [k \in 1 .. LEN |-> [chunk |-> c, at |-> k]]

RunsWhole ==
  pc = "run" =>
    \/ \E c \in 1 .. MaxChunks : loaded = Pieces(c)
    \/ Ping \in Range(loaded)

(* Input that was read ahead is taken, and a call registered with          *)
(* execute_later() is run: neither is forgotten whatever wakes main_thread *)
(* (main_thread.cpp:279-320).                                              *)
PendingRuns ==
  /\ readAhead # <<>> ~> readAhead = <<>> \/ pc = "assert"
  /\ call ~> ~call \/ pc = "assert"

(* assert( m_read_ahead == 0 ) in enable() (timed_stdin.cpp:135): whatever *)
(* a session leaves behind is gone when the next one begins.               *)
NeverAsserts == pc # "assert"
====
