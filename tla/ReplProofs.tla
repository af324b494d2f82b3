----------------------------- MODULE ReplProofs -----------------------------
(***************************************************************************)
(* What Repl.tla promises, for pipes, chunks and packets of any size and   *)
(* any number of sessions, chunks, pings and events.                       *)
(***************************************************************************)
EXTENDS Repl, SequenceTheorems, TLAPS

(* main_thread is inside read_timed_out().                                 *)
Reading == {"lock", "get", "check", "sleep", "return", "timeout"}

-----------------------------------------------------------------------------
(* The mutex is only locked inside read_timed_out(), and whoever has       *)
(* something for main_thread unlocks it; while it is still locked, what    *)
(* was looked at since is as it was.                                       *)

Locked == mutex => pc \in Reading \ {"lock"}

Stoppable == pc \in Reading /\ reader = "wait" => stoppable

Checked == pc = "check" /\ mutex => pipe = <<>>

Asleep ==
  pc = "sleep" /\ mutex =>
    /\ pipe = <<>>
    /\ timer
    /\ reader = "wait" => flags = {}

SleepInv == Locked /\ Stoppable /\ Checked /\ Asleep

LEMMA SleepInit == Init => SleepInv
BY DEF Init, SleepInv, Locked, Stoppable, Checked, Asleep, Reading

(* The others: a signal sets a flag and stops the wait, input unlocks the  *)
(* mutex.                                                                  *)
LEMMA SignalSleep ==
  ASSUME SleepInv, NEW flag, Signal(flag), UNCHANGED <<pipe, timer, stoppable>>,
         UNCHANGED main
  PROVE  SleepInv'
BY DEF Signal, StopWait, main, SleepInv, Locked, Stoppable, Checked, Asleep,
       Reading

LEMMA PushSleep ==
  ASSUME SleepInv, mutex' = FALSE, UNCHANGED stoppable, UNCHANGED main
  PROVE  SleepInv'
BY DEF main, SleepInv, Locked, Stoppable, Checked, Asleep, Reading

LEMMA OutsideSleep ==
  ASSUME SleepInv, UNCHANGED <<mutex, pipe, stoppable, timer, flags>>,
         UNCHANGED main
  PROVE  SleepInv'
BY DEF main, SleepInv, Locked, Stoppable, Checked, Asleep, Reading

LEMMA UsbSleep ==
  ASSUME SleepInv, Host \/ PushRest \/ DropRest
  PROVE  SleepInv'
<1>1. CASE HostOpens
  BY <1>1, SignalSleep DEF HostOpens
<1>2. CASE HostCloses
  BY <1>2, SignalSleep DEF HostCloses
<1>3. CASE HostPings
  <2>1. CASE enabled
    BY <1>3, <2>1, PushSleep DEF HostPings, Push
  <2>2. CASE ~ enabled
    BY <1>3, <2>2, SignalSleep DEF HostPings
  <2> QED BY <2>1, <2>2
<1>4. CASE HostSends
  <2>1. CASE enabled
    <3>1. mutex' = FALSE /\ UNCHANGED stoppable /\ UNCHANGED main
      BY <1>4, <2>1 DEF HostSends, Push
    <3> QED BY <3>1, PushSleep
  <2>2. CASE ~ enabled
    <3>1. /\ UNCHANGED <<mutex, pipe, stoppable, timer, flags>>
          /\ UNCHANGED main
      BY <1>4, <2>2 DEF HostSends
    <3> QED BY <3>1, OutsideSleep
  <2> QED BY <2>1, <2>2
<1>5. CASE PushRest
  BY <1>5, PushSleep DEF PushRest, Push
<1>6. CASE DropRest
  BY <1>6 DEF DropRest, main, SleepInv, Locked, Stoppable, Checked, Asleep,
              Reading
<1> QED BY <1>1, <1>2, <1>3, <1>4, <1>5, <1>6 DEF Host

LEMMA OthersSleep ==
  ASSUME SleepInv, OtherEvent \/ GetBusy \/ GetIdle \/ TimerFires
  PROVE  SleepInv'
<1>1. CASE OtherEvent
  BY <1>1, SignalSleep DEF OtherEvent
<1>2. CASE GetBusy
  BY <1>2, OutsideSleep DEF GetBusy, stdin
<1>3. CASE GetIdle
  BY <1>3 DEF GetIdle, StopWait, main, SleepInv, Locked, Stoppable, Checked,
              Asleep, Reading
<1>4. CASE TimerFires
  BY <1>4, PushSleep DEF TimerFires
<1> QED BY <1>1, <1>2, <1>3, <1>4

(* main_thread inside read_timed_out().                                    *)
LEMMA ReadSleep ==
  ASSUME SleepInv, Lock \/ FirstGet \/ CheckFlags \/ Wake
  PROVE  SleepInv'
<1> USE DEF SleepInv, Locked, Stoppable, Checked, Asleep, Reading, Goto
<1>1. CASE Lock
  BY <1>1 DEF Lock
<1>2. CASE FirstGet
  <2>1. CASE pipe = <<>>
    <3>1. pipe' = <<>>
      BY <1>2, <2>1 DEF FirstGet, Get, Suffix
    <3> QED BY <1>2, <2>1, <3>1 DEF FirstGet
  <2>2. CASE pipe # <<>>
    BY <1>2, <2>2 DEF FirstGet
  <2> QED BY <2>1, <2>2
<1>3. CASE CheckFlags
  BY <1>3 DEF CheckFlags
<1>4. CASE Wake
  BY <1>4 DEF Wake
<1> QED BY <1>1, <1>2, <1>3, <1>4

(* It leaves read_timed_out() with the mutex unlocked, ...                 *)
LEMMA ReturnSleep ==
  ASSUME SleepInv, NEW who, NEW to, NEW late, Return(who, to, late),
         who # "wait", {to, late} \cap Reading \subseteq {"lock"}
  PROVE  SleepInv'
<1>1. mutex' = FALSE /\ reader' # "wait"
  BY DEF Return, Goto
<1> QED
  BY <1>1 DEF SleepInv, Locked, Stoppable, Checked, Asleep

(* ... and leaves it alone elsewhere.                                      *)
LEMMA ElsewhereSleep ==
  ASSUME SleepInv, pc \notin Reading, mutex' = mutex,
         pc' \notin Reading \/ (pc' = "lock" /\ (reader' = "wait" => stoppable'))
  PROVE  SleepInv'
<1>1. ~ mutex
  BY DEF SleepInv, Locked
<1>2. ~ mutex'
  BY <1>1
<1>3. Locked' /\ Checked' /\ Asleep'
  BY <1>2 DEF Locked, Checked, Asleep
<1>4. Stoppable'
  BY DEF Stoppable, Reading
<1> QED BY <1>3, <1>4 DEF SleepInv

LEMMA ReplSleep ==
  ASSUME SleepInv,
         Load \/ LoadMore \/ LoadReturns \/ Run \/ Fail \/ DrainReturns
  PROVE  SleepInv'
<1>1. CASE Load
  BY <1>1, ElsewhereSleep DEF Load, Reading
<1>2. CASE LoadMore
  BY <1>2, ElsewhereSleep DEF LoadMore, Call, stdin, Reading
<1>3. CASE LoadReturns
  BY <1>3, ReturnSleep DEF LoadReturns, Reading
<1>4. CASE Run
  BY <1>4, ElsewhereSleep DEF Run, stdin, Reading
<1>5. CASE Fail
  BY <1>5, ElsewhereSleep DEF Fail, Reading
<1>6. CASE DrainReturns
  BY <1>6, ReturnSleep DEF DrainReturns, Reading
<1> QED BY <1>1, <1>2, <1>3, <1>4, <1>5, <1>6

LEMMA LoopSleep ==
  ASSUME SleepInv,
         \/ ExecutePending \/ Execute \/ Wait \/ WaitForInput \/ WaitReturns
         \/ WaitForFlag \/ WakeForFlag \/ HandleEvent \/ HandleDisabled
         \/ TakeReady \/ HandleReady
  PROVE  SleepInv'
<1> USE DEF Reading
<1>1. CASE ExecutePending
  BY <1>1, ElsewhereSleep DEF ExecutePending, stdin
<1>2. CASE Execute
  BY <1>2, ElsewhereSleep DEF Execute, Goto, stdin
<1>3. CASE Wait
  BY <1>3, ElsewhereSleep DEF Wait, Goto, stdin
<1>4. CASE WaitForInput
  BY <1>4, ElsewhereSleep DEF WaitForInput, Call
<1>5. CASE WaitReturns
  <2>1. mutex' = FALSE /\ pc' = "top"
    BY <1>5 DEF WaitReturns, Return, Goto
  <2> QED BY <2>1 DEF SleepInv, Locked, Stoppable, Checked, Asleep
<1>6. CASE WaitForFlag
  BY <1>6, ElsewhereSleep DEF WaitForFlag, Goto, stdin
<1>7. CASE WakeForFlag
  BY <1>7, ElsewhereSleep DEF WakeForFlag, Goto, stdin
<1>8. CASE HandleEvent
  BY <1>8, ElsewhereSleep DEF HandleEvent, stdin
<1>9. CASE HandleDisabled
  <2>1. mutex => mutex' \in {mutex, FALSE}
    BY <1>9 DEF HandleDisabled, StopWait
  <2>2. ~ mutex
    BY <1>9 DEF HandleDisabled, SleepInv, Locked
  <2>3. ~ mutex' /\ pc' = "top"
    BY <1>9, <2>2 DEF HandleDisabled, StopWait, main
  <2> QED BY <2>3 DEF SleepInv, Locked, Stoppable, Checked, Asleep
<1>10. CASE TakeReady
  BY <1>10, ElsewhereSleep DEF TakeReady, Goto, stdin
<1>11. CASE HandleReady
  BY <1>11, ElsewhereSleep DEF HandleReady, Goto
<1> QED
  BY <1>1, <1>2, <1>3, <1>4, <1>5, <1>6, <1>7, <1>8, <1>9, <1>10, <1>11

LEMMA SleepStep == SleepInv /\ [Next]_vars => SleepInv'
<1> SUFFICES ASSUME SleepInv, [Next]_vars
             PROVE  SleepInv'
  OBVIOUS
<1>1. CASE Main
  <2>1. CASE Panic
    BY <2>1, OutsideSleep DEF Panic, vars, stdin
  <2> QED BY <1>1, <2>1, ReadSleep, ReplSleep, LoopSleep DEF Main, MainStep
<1>2. CASE UNCHANGED vars
  BY <1>2, OutsideSleep DEF vars, stdin
<1> QED
  BY <1>1, <1>2, UsbSleep, OthersSleep DEF Next

(* main_thread does not sleep on input or on a flag, and always with a     *)
(* timer (timed_stdin.cpp:97-111).                                         *)
THEOREM NeverOversleeps == Spec => []SleepsOnlyIdle
<1>1. SleepInv => SleepsOnlyIdle
  BY DEF SleepInv, Locked, Asleep, SleepsOnlyIdle
<1> QED BY <1>1, SleepInit, SleepStep, PTL DEF Spec

-----------------------------------------------------------------------------
(* Of a terminal that has gone, nothing is left but FLAG_DTE_DISABLED and  *)
(* what that undoes.                                                       *)
SessionInv ==
  host = "closed" /\ (enabled \/ "ready" \in flags \/ pc = "ready") =>
    "disabled" \in flags

LEMMA SessionInit == Init => SessionInv
BY DEF Init, SessionInv

(* Steps that leave the terminal and stdin alone.                          *)
LEMMA SameSession ==
  ASSUME SessionInv, host' = "closed" => host = "closed", enabled' => enabled,
         pc' = "ready" => pc = "ready",
         flags \cap {"disabled"} \subseteq flags', "ready" \in flags' => "ready" \in flags
  PROVE  SessionInv'
BY DEF SessionInv

LEMMA UsbSession ==
  ASSUME SessionInv, Host \/ PushRest \/ DropRest
  PROVE  SessionInv'
<1>1. CASE HostOpens
  BY <1>1 DEF HostOpens, SessionInv
<1>2. CASE HostCloses
  BY <1>2 DEF HostCloses, Signal, SessionInv
<1>3. CASE HostPings
  BY <1>3 DEF HostPings, SessionInv
<1>4. CASE HostSends
  <2>1. host' # "closed"
    BY <1>4 DEF HostSends
  <2> QED BY <2>1 DEF SessionInv
<1>5. CASE PushRest
  BY <1>5, SameSession DEF PushRest, hostVars, main
<1>6. CASE DropRest
  BY <1>6, SameSession DEF DropRest, hostVars, main
<1> QED BY <1>1, <1>2, <1>3, <1>4, <1>5, <1>6 DEF Host

LEMMA OthersSession ==
  ASSUME SessionInv, OtherEvent \/ GetBusy \/ GetIdle \/ TimerFires
  PROVE  SessionInv'
<1>1. CASE OtherEvent
  BY <1>1, SameSession DEF OtherEvent, Signal, hostVars, main
<1>2. CASE GetBusy
  BY <1>2, SameSession DEF GetBusy, hostVars, stdin, main
<1>3. CASE GetIdle
  BY <1>3, SameSession DEF GetIdle, hostVars, main
<1>4. CASE TimerFires
  BY <1>4, SameSession DEF TimerFires, hostVars, main
<1> QED BY <1>1, <1>2, <1>3, <1>4

LEMMA ReadSession ==
  ASSUME SessionInv,
         \/ Lock \/ FirstGet \/ CheckFlags \/ Wake
         \/ LoadReturns \/ DrainReturns \/ WaitReturns
  PROVE  SessionInv'
<1> USE DEF Goto, hostVars
<1>1. CASE Lock
  BY <1>1, SameSession DEF Lock
<1>2. CASE FirstGet
  BY <1>2, SameSession DEF FirstGet
<1>3. CASE CheckFlags
  BY <1>3, SameSession DEF CheckFlags
<1>4. CASE Wake
  BY <1>4, SameSession DEF Wake
<1>5. CASE LoadReturns
  BY <1>5, SameSession DEF LoadReturns, Return
<1>6. CASE DrainReturns
  BY <1>6, SameSession DEF DrainReturns, Return
<1>7. CASE WaitReturns
  BY <1>7, SameSession DEF WaitReturns, Return
<1> QED BY <1>1, <1>2, <1>3, <1>4, <1>5, <1>6, <1>7

LEMMA ReplSession ==
  ASSUME SessionInv, Load \/ LoadMore \/ Run \/ Fail
  PROVE  SessionInv'
<1> USE DEF hostVars
<1>1. CASE Load
  BY <1>1, SameSession DEF Load
<1>2. CASE LoadMore
  BY <1>2, SameSession DEF LoadMore, Call, stdin
<1>3. CASE Run
  BY <1>3, SameSession DEF Run, Respond, stdin
<1>4. CASE Fail
  BY <1>4, SameSession DEF Fail, Respond
<1> QED BY <1>1, <1>2, <1>3, <1>4

LEMMA LoopSession ==
  ASSUME SessionInv,
         \/ ExecutePending \/ Execute \/ Wait \/ WaitForInput
         \/ WaitForFlag \/ WakeForFlag \/ HandleEvent \/ HandleDisabled
         \/ TakeReady \/ HandleReady
  PROVE  SessionInv'
<1> USE DEF hostVars
<1>1. CASE ExecutePending
  BY <1>1, SameSession DEF ExecutePending, stdin
<1>2. CASE Execute
  BY <1>2, SameSession DEF Execute, Goto, stdin
<1>3. CASE Wait
  BY <1>3, SameSession DEF Wait, Goto, stdin
<1>4. CASE WaitForInput
  BY <1>4, SameSession DEF WaitForInput, Call
<1>5. CASE WaitForFlag
  BY <1>5, SameSession DEF WaitForFlag, Goto, stdin
<1>6. CASE WakeForFlag
  BY <1>6, SameSession DEF WakeForFlag, Goto, stdin
<1>7. CASE HandleEvent
  BY <1>7, SameSession DEF HandleEvent, stdin
<1>8. CASE HandleDisabled
  <2>1. ~ enabled' /\ "ready" \notin flags' /\ pc' = "top"
    BY <1>8 DEF HandleDisabled, main
  <2> QED BY <2>1 DEF SessionInv
<1>9. CASE TakeReady
  <2>1. host' # "closed"
    BY <1>9 DEF TakeReady, SessionInv
  <2> QED BY <2>1 DEF SessionInv
<1>10. CASE HandleReady
  <2>1. /\ pc = "ready" /\ flags' = flags
        /\ host' = "closed" => host = "closed"
    BY <1>10 DEF HandleReady, Respond
  <2> QED BY <2>1 DEF SessionInv
<1> QED BY <1>1, <1>2, <1>3, <1>4, <1>5, <1>6, <1>7, <1>8, <1>9, <1>10

LEMMA SessionStep == SessionInv /\ [Next]_vars => SessionInv'
<1> SUFFICES ASSUME SessionInv, [Next]_vars
             PROVE  SessionInv'
  OBVIOUS
<1>1. CASE Main
  <2>1. CASE Panic
    BY <2>1 DEF Panic, vars, stdin, main, hostVars, SessionInv
  <2> QED
    BY <1>1, <2>1, ReadSession, ReplSession, LoopSession DEF Main, MainStep
<1>2. CASE UNCHANGED vars
  BY <1>2 DEF vars, stdin, main, hostVars, SessionInv
<1> QED
  BY <1>1, <1>2, UsbSession, OthersSession DEF Next

(* Stdin is not left open for a terminal that has gone, in whatever order  *)
(* opens, closes and pings come (main_thread.cpp:341-364).                 *)
THEOREM NoSessionIsOrphaned == Spec => []NoOrphanSession
<1>1. SessionInv => NoOrphanSession
  BY DEF SessionInv, NoOrphanSession
<1> QED BY <1>1, SessionInit, SessionStep, PTL DEF Spec

-----------------------------------------------------------------------------
(* The pieces between the host and lua_load(), in the order in which they  *)
(* were sent.                                                              *)

(* What drain() has read is not kept.                                      *)
Kept == IF reader = "drain" /\ pc \in Reading THEN <<>> ELSE readAhead

Stream == loaded \o Kept \o pipe \o rest

(* The pieces of a sequence are in order: those of a chunk are at least as *)
(* far apart as they stand, and the next one to be sent of chunk c, of     *)
(* which n pieces are sent, fits in as well.                               *)
Ordered(s, c, n) ==
  /\ \A i, j \in DOMAIN s :
       i < j /\ s[i] # Ping /\ s[j] # Ping =>
         /\ s[i].chunk <= s[j].chunk
         /\ s[i].chunk = s[j].chunk => s[j].at >= s[i].at + (j - i)
  /\ \A i \in DOMAIN s :
       /\ s[i].chunk <= c
       /\ s[i].chunk = c /\ n < LEN => n >= s[i].at + (Len(s) - i)

(* The first piece of a chunk is that of the last chunk begun, and the     *)
(* host has not been told to begin another.                                *)
Fresh(s, from, c, h) ==
  \A i \in DOMAIN s : i >= from /\ s[i].at = 1 => s[i].chunk = c /\ h # "ready"

(* A piece of a sequence, at an offset.                                    *)
Inner(t, s, o) ==
  /\ t \in Seq(Input) /\ s \in Seq(Input) /\ o \in Nat
  /\ o + Len(t) <= Len(s)
  /\ \A i \in 1 .. Len(t) : t[i] = s[o + i]

LEMMA InputFacts ==
  /\ Ping \in Input /\ Ping.chunk = 0 /\ Ping.at = 0
  /\ \A x \in Input : /\ x.chunk \in Nat /\ x.at \in Nat
                      /\ x # Ping => /\ x.chunk \in 1 .. MaxChunks
                                     /\ x.at \in 1 .. LEN
                                     /\ x = [chunk |-> x.chunk, at |-> x.at]
  /\ \A c \in 1 .. MaxChunks, k \in 1 .. LEN : [chunk |-> c, at |-> k] \in Input
BY ReplAssumption DEF Input, Piece, Ping

LEMMA OrderedInner ==
  ASSUME NEW s, NEW c, NEW n \in Nat, Ordered(s, c, n), NEW t, NEW o,
         Inner(t, s, o)
  PROVE  Ordered(t, c, n)
<1>1. /\ t \in Seq(Input) /\ s \in Seq(Input) /\ o \in Nat
      /\ DOMAIN t = 1 .. Len(t) /\ DOMAIN s = 1 .. Len(s)
      /\ Len(t) \in Nat /\ Len(s) \in Nat
      /\ o + Len(t) <= Len(s)
      /\ \A i \in 1 .. Len(t) : o + i \in 1 .. Len(s) /\ t[i] = s[o + i]
  BY DEF Inner
<1>2. ASSUME NEW i \in DOMAIN t, NEW j \in DOMAIN t,
             i < j, t[i] # Ping, t[j] # Ping
      PROVE  /\ t[i].chunk <= t[j].chunk
             /\ t[i].chunk = t[j].chunk => t[j].at >= t[i].at + (j - i)
  <2>1. /\ o + i \in DOMAIN s /\ o + j \in DOMAIN s /\ o + i < o + j
        /\ t[i] = s[o + i] /\ t[j] = s[o + j] /\ (o + j) - (o + i) = j - i
    BY <1>1, <1>2
  <2>2. /\ s[o + i].chunk <= s[o + j].chunk
        /\ s[o + i].chunk = s[o + j].chunk =>
             s[o + j].at >= s[o + i].at + ((o + j) - (o + i))
    BY <1>2, <2>1 DEF Ordered
  <2> QED BY <2>1, <2>2
<1>3. ASSUME NEW i \in DOMAIN t
      PROVE  /\ t[i].chunk <= c
             /\ t[i].chunk = c /\ n < LEN => n >= t[i].at + (Len(t) - i)
  <2>1. /\ o + i \in DOMAIN s /\ t[i] = s[o + i]
        /\ Len(s) - (o + i) >= Len(t) - i
        /\ Len(s) - (o + i) \in Int /\ Len(t) - i \in Int
    BY <1>1
  <2>2. /\ s[o + i].chunk <= c
        /\ s[o + i].chunk = c /\ n < LEN =>
             n >= s[o + i].at + (Len(s) - (o + i))
    BY <2>1 DEF Ordered
  <2>3. t[i].at \in Nat
    BY <1>1, InputFacts
  <2> QED BY <2>1, <2>2, <2>3
<1> QED BY <1>2, <1>3 DEF Ordered

LEMMA FreshInner ==
  ASSUME NEW s, NEW c, NEW h, NEW from \in Nat, Fresh(s, from, c, h),
         NEW t, NEW o, NEW to \in Nat, Inner(t, s, o), o + to >= from
  PROVE  Fresh(t, to, c, h)
<1>1. /\ DOMAIN t = 1 .. Len(t) /\ DOMAIN s = 1 .. Len(s)
      /\ Len(t) \in Nat /\ Len(s) \in Nat /\ o \in Nat
      /\ \A i \in 1 .. Len(t) : o + i \in 1 .. Len(s) /\ t[i] = s[o + i]
  BY DEF Inner
<1>2. ASSUME NEW i \in DOMAIN t, i >= to, t[i].at = 1
      PROVE  t[i].chunk = c /\ h # "ready"
  <2>1. o + i \in DOMAIN s /\ o + i >= from /\ s[o + i].at = 1
    BY <1>1, <1>2
  <2> QED BY <1>1, <1>2, <2>1 DEF Fresh
<1> QED BY <1>2 DEF Fresh

LEMMA InnerConcat ==
  ASSUME NEW s \in Seq(Input), NEW t \in Seq(Input)
  PROVE  /\ s \o t \in Seq(Input)
         /\ Inner(s, s \o t, 0)
         /\ Inner(t, s \o t, Len(s))
<1>1. /\ s \o t \in Seq(Input) /\ Len(s \o t) = Len(s) + Len(t)
      /\ Len(s) \in Nat /\ Len(t) \in Nat
      /\ \A i \in 1 .. Len(s) + Len(t) :
           (s \o t)[i] = IF i <= Len(s) THEN s[i] ELSE t[i - Len(s)]
  BY ConcatProperties
<1> HIDE DEF Input
<1>2. Inner(s, s \o t, 0)
  BY <1>1 DEF Inner
<1>3. ASSUME NEW i \in 1 .. Len(t)
      PROVE  t[i] = (s \o t)[Len(s) + i]
  <2>1. /\ Len(s) + i \in 1 .. Len(s) + Len(t) /\ ~ (Len(s) + i <= Len(s))
        /\ Len(s) + i - Len(s) = i
    BY <1>1
  <2> QED BY <1>1, <2>1
<1>4. Inner(t, s \o t, Len(s))
  BY <1>1, <1>3 DEF Inner
<1> QED BY <1>1, <1>2, <1>4

LEMMA Split ==
  ASSUME NEW s \in Seq(Input), NEW n \in Nat
  PROVE  /\ Prefix(s, n) \in Seq(Input) /\ Suffix(s, n) \in Seq(Input)
         /\ Len(Prefix(s, n)) = IF n < Len(s) THEN n ELSE Len(s)
         /\ Len(Suffix(s, n)) = Len(s) - Len(Prefix(s, n))
         /\ \A i \in 1 .. Len(Suffix(s, n)) : Suffix(s, n)[i] = s[n + i]
         /\ Prefix(s, n) \o Suffix(s, n) = s
<1> DEFINE m == IF n < Len(s) THEN n ELSE Len(s)
           p == SubSeq(s, 1, m)
           q == SubSeq(s, n + 1, Len(s))
<1>1. /\ Len(s) \in Nat /\ m \in Nat /\ m <= Len(s) /\ m <= n
      /\ n < Len(s) => m = n
      /\ n >= Len(s) => m = Len(s)
  OBVIOUS
<1> HIDE DEF m
<1>2. /\ p \in Seq(Input) /\ Len(p) = m
      /\ \A i \in 1 .. m : p[i] = s[i]
  <2>1. \A i \in 1 .. m : s[i] \in Input
    BY <1>1
  <2>2. /\ p \in Seq(Input) /\ Len(p) = IF 1 <= m THEN m - 1 + 1 ELSE 0
        /\ \A i \in 1 .. m - 1 + 1 : p[i] = s[1 + i - 1]
    BY <1>1, <2>1, SubSeqProperties
  <2> HIDE DEF p
  <2>3. m - 1 + 1 = m /\ \A i \in 1 .. m : 1 + i - 1 = i
    BY <1>1
  <2>4. Len(p) = m
    BY <1>1, <2>2
  <2> QED BY <2>2, <2>3, <2>4
<1>3. /\ q \in Seq(Input) /\ Len(q) = Len(s) - m
      /\ \A i \in 1 .. Len(q) : q[i] = s[n + i]
  <2>1. /\ n + 1 \in Int /\ Len(s) \in Int
        /\ \A i \in n + 1 .. Len(s) : s[i] \in Input
    BY <1>1
  <2>2. /\ q \in Seq(Input)
        /\ Len(q) = IF n + 1 <= Len(s) THEN Len(s) - (n + 1) + 1 ELSE 0
        /\ \A i \in 1 .. Len(s) - (n + 1) + 1 : q[i] = s[n + 1 + i - 1]
    BY <2>1, SubSeqProperties
  <2> HIDE DEF q
  <2>3. CASE n < Len(s)
    <3>1. Len(q) = Len(s) - (n + 1) + 1
      BY <1>1, <2>2, <2>3
    <3>2. Len(q) = Len(s) - m
      BY <1>1, <2>3, <3>1
    <3>3. \A i \in 1 .. Len(q) : n + 1 + i - 1 = n + i
      OBVIOUS
    <3> QED BY <2>2, <3>1, <3>2, <3>3
  <2>4. CASE n >= Len(s)
    <3>1. Len(q) = 0 /\ Len(q) = Len(s) - m
      BY <1>1, <2>2, <2>4
    <3> QED BY <2>2, <3>1
  <2> QED BY <1>1, <2>3, <2>4
<1> HIDE DEF p, q
<1>4. p \o q = s
  <2>1. /\ p \o q \in Seq(Input) /\ Len(p \o q) = Len(s)
        /\ \A i \in 1 .. Len(s) :
             (p \o q)[i] = IF i <= Len(p) THEN p[i] ELSE q[i - Len(p)]
    <3>1. Len(p) + Len(q) = Len(s)
      BY <1>1, <1>2, <1>3
    <3> QED BY <1>2, <1>3, <3>1, ConcatProperties
  <2>2. ASSUME NEW i \in 1 .. Len(s)
        PROVE  (p \o q)[i] = s[i]
    <3>1. CASE i <= Len(p)
      BY <1>1, <1>2, <2>1, <3>1
    <3>2. CASE ~ (i <= Len(p))
      <4>1. i - Len(p) \in 1 .. Len(q) /\ n < Len(s) /\ m = n
        BY <1>1, <1>2, <1>3, <3>2
      <4>2. (p \o q)[i] = q[i - Len(p)] /\ q[i - Len(p)] = s[n + (i - Len(p))]
        BY <1>3, <2>1, <3>2, <4>1
      <4>3. n + (i - Len(p)) = i
        BY <1>2, <4>1
      <4> QED BY <4>2, <4>3
    <3> QED BY <3>1, <3>2
  <2> QED BY <2>1, <2>2, SeqEqual
<1>5. Prefix(s, n) = p /\ Suffix(s, n) = q
  BY DEF Prefix, Suffix, p, q, m
<1>6. /\ Len(p) = IF n < Len(s) THEN n ELSE Len(s)
      /\ Len(q) = Len(s) - Len(p)
  BY <1>2, <1>3 DEF m
<1> QED BY <1>2, <1>3, <1>4, <1>5, <1>6

-----------------------------------------------------------------------------
(* Types.                                                                  *)

Typed ==
  /\ loaded \in Seq(Input) /\ readAhead \in Seq(Input)
  /\ pipe \in Seq(Input) /\ Len(pipe) <= PIPE
  /\ rest \in Seq(Input)
  /\ chunk \in 0 .. MaxChunks
  /\ sent \in 1 .. LEN
  /\ sent < LEN => chunk > 0 /\ host # "open"

(* The pieces of a packet, of the chunk c from the piece behind `first'.   *)
Packet(c, first, last) ==
  [k \in 1 .. last - first |-> [chunk |-> c, at |-> first + k]]

LEMMA PacketPieces ==
  ASSUME NEW c \in 1 .. MaxChunks, NEW first \in 0 .. LEN - 1,
         NEW last \in 1 .. LEN, first < last
  PROVE  /\ Packet(c, first, last) \in Seq(Input)
         /\ Len(Packet(c, first, last)) = last - first
         /\ \A k \in 1 .. last - first :
              /\ Packet(c, first, last)[k].chunk = c
              /\ Packet(c, first, last)[k].at = first + k
              /\ Packet(c, first, last)[k] # Ping
<1>1. LEN \in Nat /\ last - first \in Nat
  BY ReplAssumption
<1>2. \A k \in 1 .. last - first : first + k \in 1 .. LEN
  BY <1>1
<1>3. \A k \in 1 .. last - first : [chunk |-> c, at |-> first + k] \in Input
  BY <1>2, InputFacts
<1>4. Packet(c, first, last) \in Seq(Input)
  BY <1>1, <1>3, IsASeq DEF Packet
<1>5. Len(Packet(c, first, last)) = last - first
  BY <1>1, <1>4, LenProperties DEF Packet
<1>6. \A k \in 1 .. last - first :
        Packet(c, first, last)[k] = [chunk |-> c, at |-> first + k]
  BY DEF Packet
<1>7. \A k \in 1 .. last - first :
        /\ Packet(c, first, last)[k].chunk = c
        /\ Packet(c, first, last)[k].at = first + k
  <2> HIDE DEF Packet
  <2> TAKE k \in 1 .. last - first
  <2>1. Packet(c, first, last)[k] = [chunk |-> c, at |-> first + k]
    BY <1>6
  <2> QED BY <2>1
<1>8. \A k \in 1 .. last - first : Packet(c, first, last)[k] # Ping
  <2>1. c # 0
    OBVIOUS
  <2> QED BY <1>7, <2>1, InputFacts
<1> QED BY <1>4, <1>5, <1>7, <1>8

(* What isrpipe_write() puts into the pipe, and what it leaves.            *)
LEMMA PushPieces ==
  ASSUME Typed, NEW data \in Seq(Input), Push(data)
  PROVE  /\ pipe' \in Seq(Input) /\ Len(pipe') <= PIPE
         /\ rest' \in Seq(Input)
         /\ pipe' \o rest' = pipe \o data
         /\ rest' # <<>> => pipe' # <<>>
         /\ \A i \in 1 .. Len(rest') : \E k \in 1 .. Len(data) :
              k >= i /\ rest'[i] = data[k]
<1> DEFINE n == PIPE - Len(pipe)
           p == Prefix(data, n)
           q == Suffix(data, n)
<1>1. PIPE \in Nat /\ PIPE > 0 /\ pipe \in Seq(Input) /\ Len(pipe) \in Nat /\ n \in Nat
  BY ReplAssumption DEF Typed
<1>2. /\ p \in Seq(Input) /\ q \in Seq(Input)
      /\ Len(p) = IF n < Len(data) THEN n ELSE Len(data)
      /\ Len(q) = Len(data) - Len(p)
      /\ \A i \in 1 .. Len(q) : q[i] = data[n + i]
      /\ p \o q = data
  BY <1>1, Split
<1>3. pipe' = pipe \o p /\ rest' = q
  BY DEF Push
<1> HIDE DEF p, q
<1>4. /\ pipe \o p \in Seq(Input) /\ Len(pipe \o p) = Len(pipe) + Len(p)
  BY <1>1, <1>2, ConcatProperties
<1>5. Len(data) \in Nat /\ Len(p) \in Nat /\ Len(p) <= n
  <2>1. Len(data) \in Nat /\ Len(p) \in Nat
    BY <1>2, LenProperties
  <2> HIDE DEF n
  <2> QED BY <1>1, <1>2, <2>1
<1>6. Len(pipe') <= PIPE
  <2>1. Len(pipe') = Len(pipe) + Len(p)
    BY <1>3, <1>4
  <2> QED BY <1>1, <1>5, <2>1
<1>7. (pipe \o p) \o q = pipe \o data
  <2>1. pipe \in Seq(Input) /\ p \in Seq(Input) /\ q \in Seq(Input)
    BY <1>1, <1>2
  <2>2. (pipe \o p) \o q = pipe \o (p \o q)
    BY <2>1, ConcatAssociative
  <2> QED BY <1>2, <2>2
<1>8. rest' # <<>> => pipe' # <<>>
  <2>1. ASSUME q # <<>> PROVE Len(pipe') > 0
    <3>1. Len(q) > 0
      BY <1>2, <2>1, EmptySeq
    <3>2. Len(p) = n
      BY <1>1, <1>2, <1>5, <3>1
    <3> QED BY <1>1, <1>3, <1>4, <3>2
  <2> QED BY <1>3, <2>1, EmptySeq
<1>9. ASSUME NEW i \in 1 .. Len(rest')
      PROVE  \E k \in 1 .. Len(data) : k >= i /\ rest'[i] = data[k]
  <2>1. n < Len(data) /\ Len(p) = n
    BY <1>1, <1>2, <1>3, <1>5, <1>9
  <2>2. n + i \in 1 .. Len(data) /\ n + i >= i
    BY <1>1, <1>2, <1>3, <1>5, <1>9, <2>1
  <2> QED BY <1>2, <1>3, <1>9, <2>2
<1> QED BY <1>2, <1>3, <1>4, <1>6, <1>7, <1>8, <1>9

(* What tsrb_get() takes, and what it leaves.                              *)
LEMMA GetPieces ==
  ASSUME Typed, Get
  PROVE  /\ readAhead' \in Seq(Input) /\ pipe' \in Seq(Input)
         /\ Len(pipe') <= PIPE
         /\ readAhead' \o pipe' = pipe
         /\ pipe # <<>> => readAhead' # <<>>
<1>1. READ \in Nat /\ READ > 0 /\ PIPE \in Nat /\ pipe \in Seq(Input)
      /\ Len(pipe) <= PIPE
  BY ReplAssumption DEF Typed
<1>2. readAhead' = Prefix(pipe, READ) /\ pipe' = Suffix(pipe, READ)
  BY DEF Get
<1>3. /\ readAhead' \in Seq(Input) /\ pipe' \in Seq(Input)
      /\ Len(readAhead') = IF READ < Len(pipe) THEN READ ELSE Len(pipe)
      /\ Len(pipe') = Len(pipe) - Len(readAhead')
      /\ readAhead' \o pipe' = pipe
  BY <1>1, <1>2, Split
<1>4. Len(pipe) \in Nat /\ Len(readAhead') \in Nat /\ Len(pipe') \in Nat
  BY <1>1, <1>3
<1>5. Len(pipe') <= PIPE
  BY <1>1, <1>3, <1>4
<1>6. pipe # <<>> => readAhead' # <<>>
  <2>1. ASSUME pipe # <<>> PROVE Len(readAhead') > 0
    <3>1. Len(pipe) > 0
      BY <1>1, <2>1, EmptySeq
    <3> QED BY <1>1, <1>3, <1>4, <3>1
  <2> QED BY <2>1, EmptySeq
<1> QED BY <1>3, <1>5, <1>6

LEMMA NothingTyped == <<>> \in Seq(Input) /\ Len(<<>>) = 0 /\ Len(<<>>) <= PIPE
BY EmptySeq, ReplAssumption

(* A packet that the host may send.                                        *)
LEMMA HostPacket ==
  ASSUME Typed, HostSends
  PROVE  \E first \in 0 .. LEN - 1, last \in 1 .. LEN :
           /\ first < last /\ sent' = last
           /\ chunk' \in 1 .. MaxChunks
           /\ \/ /\ first = 0 /\ chunk' = chunk + 1 /\ host = "ready"
                 /\ host' = "waiting"
              \/ /\ first = sent /\ sent < LEN /\ chunk' = chunk /\ host' = host
                 /\ host # "open"
           /\ IF enabled THEN Push(Packet(chunk', first, last))
              ELSE UNCHANGED <<pipe, rest, mutex>>
<1> DEFINE first == IF sent = LEN THEN 0 ELSE sent
           last == IF first + PACKET < LEN THEN first + PACKET ELSE LEN
<1>1. LEN \in Nat /\ LEN > 0 /\ PACKET \in Nat /\ PACKET > 0
      /\ MaxChunks \in Nat
  BY ReplAssumption
<1>2. sent \in 1 .. LEN /\ chunk \in 0 .. MaxChunks
      /\ (sent < LEN => chunk > 0)
  BY DEF Typed
<1>3. /\ sent = LEN => first = 0
      /\ sent # LEN => first = sent
  OBVIOUS
<1>4. first \in 0 .. LEN - 1 /\ first \in Nat
  BY <1>1, <1>2, <1>3
<1>5. /\ first + PACKET < LEN => last = first + PACKET
      /\ ~ (first + PACKET < LEN) => last = LEN
  OBVIOUS
<1>6. sent' = last
      /\ IF enabled THEN Push(Packet(chunk', first, last))
         ELSE UNCHANGED <<pipe, rest, mutex>>
  BY DEF HostSends, Packet
<1> HIDE DEF first, last
<1>7. last \in 1 .. LEN /\ first < last
  BY <1>1, <1>4, <1>5
<1>8. \/ /\ first = 0 /\ chunk' = chunk + 1 /\ host = "ready"
         /\ host' = "waiting" /\ chunk' \in 1 .. MaxChunks
      \/ /\ first = sent /\ sent < LEN /\ chunk' = chunk /\ host' = host
         /\ host # "open" /\ chunk' \in 1 .. MaxChunks
  <2>1. CASE host = "ready" /\ sent = LEN /\ chunk < MaxChunks
                /\ chunk' = chunk + 1 /\ host' = "waiting"
    BY <1>1, <1>2, <1>3, <2>1
  <2>2. CASE host \in {"ready", "waiting"} /\ sent < LEN
                /\ UNCHANGED <<chunk, host>>
    BY <1>1, <1>2, <1>3, <2>2
  <2> QED BY <2>1, <2>2 DEF HostSends
<1> QED BY <1>4, <1>6, <1>7, <1>8

LEMMA TypedSame ==
  ASSUME Typed, UNCHANGED <<loaded, readAhead, pipe, rest, chunk, sent>>,
         host' = "open" => host = "open"
  PROVE  Typed'
BY DEF Typed

LEMMA TypedUsb ==
  ASSUME Typed, Host \/ PushRest \/ DropRest
  PROVE  Typed'
<1> USE DEF main
<1>1. CASE HostOpens
  <2>1. LEN \in 1 .. LEN /\ ~ (LEN < LEN)
    BY ReplAssumption
  <2> QED BY <1>1, <2>1 DEF HostOpens, Typed
<1>2. CASE HostCloses
  BY <1>2, TypedSame DEF HostCloses
<1>3. CASE HostPings
  <2>1. CASE enabled
    <3>1. <<Ping>> \in Seq(Input)
      BY InputFacts
    <3>2. Push(<<Ping>>)
      BY <1>3, <2>1 DEF HostPings
    <3> QED BY <1>3, <3>1, <3>2, PushPieces DEF HostPings, Typed
  <2>2. CASE ~ enabled
    BY <1>3, <2>2, TypedSame DEF HostPings
  <2> QED BY <2>1, <2>2
<1>4. CASE HostSends
  <2>1. PICK first \in 0 .. LEN - 1, last \in 1 .. LEN :
           /\ first < last /\ sent' = last
           /\ chunk' \in 1 .. MaxChunks
           /\ \/ /\ first = 0 /\ chunk' = chunk + 1 /\ host = "ready"
                 /\ host' = "waiting"
              \/ /\ first = sent /\ sent < LEN /\ chunk' = chunk /\ host' = host
                 /\ host # "open"
           /\ IF enabled THEN Push(Packet(chunk', first, last))
              ELSE UNCHANGED <<pipe, rest, mutex>>
    BY <1>4, HostPacket
  <2>2. /\ pipe' \in Seq(Input) /\ Len(pipe') <= PIPE /\ rest' \in Seq(Input)
    <3>1. CASE enabled
      <4>1. Packet(chunk', first, last) \in Seq(Input)
        BY <2>1, PacketPieces
      <4> QED BY <2>1, <3>1, <4>1, PushPieces
    <3>2. CASE ~ enabled
      BY <2>1, <3>2 DEF Typed
    <3> QED BY <3>1, <3>2
  <2>3. host' # "open" /\ chunk' > 0 /\ chunk' \in 0 .. MaxChunks
        /\ sent' \in 1 .. LEN
    BY <2>1
  <2>4. loaded' = loaded /\ readAhead' = readAhead
    BY <1>4 DEF HostSends
  <2> QED BY <2>2, <2>3, <2>4 DEF Typed
<1>5. CASE PushRest
  <2>1. rest \in Seq(Input) /\ Push(rest)
    BY <1>5 DEF PushRest, Typed
  <2> QED BY <1>5, <2>1, PushPieces DEF PushRest, hostVars, Typed
<1>6. CASE DropRest
  BY <1>6, NothingTyped DEF DropRest, hostVars, Typed
<1> QED BY <1>1, <1>2, <1>3, <1>4, <1>5, <1>6 DEF Host

LEMMA TypedOthers ==
  ASSUME Typed, OtherEvent \/ GetBusy \/ GetIdle \/ TimerFires
  PROVE  Typed'
BY TypedSame DEF OtherEvent, GetBusy, GetIdle, TimerFires, main, stdin,
                 hostVars

LEMMA TypedRead ==
  ASSUME Typed,
         \/ Lock \/ FirstGet \/ CheckFlags \/ Wake
         \/ LoadReturns \/ DrainReturns \/ WaitReturns
  PROVE  Typed'
<1> USE DEF Goto, hostVars
<1>1. CASE Lock \/ CheckFlags
  BY <1>1, TypedSame DEF Lock, CheckFlags
<1>2. CASE FirstGet
  BY <1>2, GetPieces DEF FirstGet, Typed
<1>3. CASE Wake
  <2>1. CASE timer
    BY <1>3, <2>1, GetPieces DEF Wake, Typed
  <2>2. CASE ~ timer
    BY <1>3, <2>2, TypedSame DEF Wake
  <2> QED BY <2>1, <2>2
<1>4. CASE LoadReturns \/ DrainReturns \/ WaitReturns
  BY <1>4, TypedSame DEF LoadReturns, DrainReturns, WaitReturns, Return
<1> QED BY <1>1, <1>2, <1>3, <1>4

LEMMA TypedRepl ==
  ASSUME Typed, Load \/ LoadMore \/ Run \/ Fail
  PROVE  Typed'
<1> USE DEF hostVars
<1>1. CASE Load
  <2>1. loaded' = loaded \o readAhead
    BY <1>1 DEF Load
  <2>2. loaded \o readAhead \in Seq(Input)
    BY ConcatProperties DEF Typed
  <2> QED BY <1>1, <2>1, <2>2, NothingTyped DEF Load, Typed
<1>2. CASE LoadMore
  BY <1>2, TypedSame DEF LoadMore, Call, stdin
<1>3. CASE Run
  BY <1>3, NothingTyped DEF Run, Respond, stdin, Typed
<1>4. CASE Fail
  BY <1>4, NothingTyped DEF Fail, Respond, Typed
<1> QED BY <1>1, <1>2, <1>3, <1>4

LEMMA TypedLoop ==
  ASSUME Typed,
         \/ ExecutePending \/ Execute \/ Wait \/ WaitForInput
         \/ WaitForFlag \/ WakeForFlag \/ HandleEvent \/ HandleDisabled
         \/ TakeReady \/ HandleReady
  PROVE  Typed'
<1> USE DEF hostVars
<1>1. CASE \/ ExecutePending \/ Execute \/ Wait \/ WaitForInput
           \/ WaitForFlag \/ WakeForFlag \/ HandleEvent \/ TakeReady
  BY <1>1, TypedSame DEF ExecutePending, Execute, Wait, WaitForInput, Call,
     WaitForFlag, WakeForFlag, HandleEvent, TakeReady, Goto, stdin
<1>2. CASE HandleDisabled
  BY <1>2, NothingTyped DEF HandleDisabled, main, Typed
<1>3. CASE HandleReady
  BY <1>3, NothingTyped DEF HandleReady, Respond, Goto, Typed
<1> QED BY <1>1, <1>2, <1>3

-----------------------------------------------------------------------------
(* Where the pieces are: lua_load() has read some only between its start   *)
(* and its end, the first of them begins a chunk unless it has failed, and *)
(* nothing is read ahead where more is waited for.                         *)
Placed ==
  /\ loaded # <<>> =>
       pc \in {"load", "run", "failed"} \/ (pc \in Reading /\ reader = "load")
  /\ loaded # <<>> /\ pc # "failed" => loaded[1].at = 1
  /\ pc = "run" => Len(loaded) >= LEN
  /\ pc \in {"wait", "run", "failed", "check", "sleep", "timeout"} =>
       readAhead = <<>>
  /\ pc \in {"lock", "get"} /\ reader # "drain" => readAhead = <<>>

LEMMA PlacedSame ==
  ASSUME Placed, UNCHANGED <<pc, reader, loaded, readAhead>>
  PROVE  Placed'
BY DEF Placed

LEMMA PlacedRead ==
  ASSUME Placed,
         \/ Lock \/ FirstGet \/ CheckFlags \/ Wake
         \/ LoadReturns \/ DrainReturns \/ WaitReturns
  PROVE  Placed'
<1> USE DEF Goto, Reading
<1>1. CASE Lock
  BY <1>1 DEF Lock, Placed
<1>2. CASE FirstGet
  <2>1. pipe = <<>> => readAhead' = <<>>
    BY <1>2 DEF FirstGet, Get, Prefix
  <2> QED BY <1>2, <2>1 DEF FirstGet, Placed
<1>3. CASE CheckFlags
  BY <1>3 DEF CheckFlags, Placed
<1>4. CASE Wake
  BY <1>4 DEF Wake, Placed
<1>5. CASE LoadReturns
  BY <1>5 DEF LoadReturns, Return, Placed
<1>6. CASE DrainReturns
  BY <1>6 DEF DrainReturns, Return, Placed
<1>7. CASE WaitReturns
  BY <1>7 DEF WaitReturns, Return, Placed
<1> QED BY <1>1, <1>2, <1>3, <1>4, <1>5, <1>6, <1>7

LEMMA PlacedRepl ==
  ASSUME Placed, Load \/ LoadMore \/ Run \/ Fail
  PROVE  Placed'
<1> USE DEF Reading
<1>1. CASE Load
  <2> DEFINE all == loaded \o readAhead
  <2>1. /\ loaded' = all /\ readAhead' = <<>>
        /\ pc' = IF all[1].at # 1 THEN "failed"
                 ELSE IF Len(all) >= LEN THEN "run" ELSE "load"
    BY <1>1 DEF Load
  <2> HIDE DEF all
  <2> QED BY <2>1 DEF Placed
<1>2. CASE LoadMore
  BY <1>2 DEF LoadMore, Call, stdin, Placed
<1>3. CASE Run
  BY <1>3 DEF Run, stdin, Placed
<1>4. CASE Fail
  BY <1>4 DEF Fail, Placed
<1> QED BY <1>1, <1>2, <1>3, <1>4

LEMMA PlacedLoop ==
  ASSUME Placed,
         \/ ExecutePending \/ Execute \/ Wait \/ WaitForInput
         \/ WaitForFlag \/ WakeForFlag \/ HandleEvent \/ HandleDisabled
         \/ TakeReady \/ HandleReady
  PROVE  Placed'
<1> USE DEF Goto, Reading, stdin, Placed
<1>1. CASE ExecutePending \/ HandleEvent
  BY <1>1 DEF ExecutePending, HandleEvent
<1>2. CASE Execute
  BY <1>2 DEF Execute
<1>3. CASE Wait
  BY <1>3 DEF Wait
<1>4. CASE WaitForInput
  BY <1>4 DEF WaitForInput, Call
<1>5. CASE WaitForFlag \/ WakeForFlag \/ TakeReady
  BY <1>5 DEF WaitForFlag, WakeForFlag, TakeReady
<1>6. CASE HandleDisabled
  BY <1>6 DEF HandleDisabled, main
<1>7. CASE HandleReady
  BY <1>7 DEF HandleReady
<1> QED BY <1>1, <1>2, <1>3, <1>4, <1>5, <1>6, <1>7

-----------------------------------------------------------------------------
(* What waits to be written has the beginning of a chunk in front at most; *)
(* it waits behind something in the pipe, or main_thread has just taken    *)
(* that; and when a new session may begin, nothing waits.                  *)
Resting ==
  /\ \A i \in DOMAIN rest : rest[i].at = 1 => i = 1
  /\ rest # <<>> /\ pipe = <<>> /\ ~ space => pc = "return" /\ readAhead # <<>>
  /\ ~ enabled /\ ("ready" \in flags \/ pc = "ready") => rest = <<>>

LEMMA RestingSame ==
  ASSUME Resting, UNCHANGED <<pipe, rest, space, enabled>>,
         pc # "return" \/ UNCHANGED <<pc, readAhead>>,
         "ready" \in flags' => "ready" \in flags,
         pc' = "ready" => pc = "ready" \/ "ready" \in flags
  PROVE  Resting'
<1>1. (\A i \in DOMAIN rest : rest[i].at = 1 => i = 1)'
  BY DEF Resting
<1>2. (rest # <<>> /\ pipe = <<>> /\ ~ space =>
         pc = "return" /\ readAhead # <<>>)'
  BY DEF Resting
<1>3. (~ enabled /\ ("ready" \in flags \/ pc = "ready") => rest = <<>>)'
  BY DEF Resting
<1> QED BY <1>1, <1>2, <1>3 DEF Resting

LEMMA NothingRests == ASSUME rest = <<>> PROVE Resting
BY DEF Resting

(* A packet is written, or the rest of one.                                *)
LEMMA RestingPush ==
  ASSUME Typed, Resting, NEW data \in Seq(Input), Push(data),
         \A k \in 1 .. Len(data) : data[k].at = 1 => k = 1,
         enabled \/ (rest # <<>> /\ UNCHANGED <<flags, pc>>), UNCHANGED enabled
  PROVE  Resting'
<1>1. /\ rest' \in Seq(Input)
      /\ rest' # <<>> => pipe' # <<>>
      /\ \A i \in 1 .. Len(rest') : \E k \in 1 .. Len(data) :
              k >= i /\ rest'[i] = data[k]
  BY PushPieces
<1>2. ASSUME NEW i \in DOMAIN (rest'), rest'[i].at = 1
      PROVE  i = 1
  <2>1. i \in 1 .. Len(rest') /\ i \in Nat /\ i >= 1
    BY <1>1
  <2>2. PICK k \in 1 .. Len(data) : k >= i /\ rest'[i] = data[k]
    BY <1>1, <2>1
  <2>3. k = 1
    BY <1>2, <2>2
  <2> QED BY <2>1, <2>2, <2>3
<1>3. (~ enabled /\ ("ready" \in flags \/ pc = "ready") => rest = <<>>)'
  BY DEF Resting
<1> QED BY <1>1, <1>2, <1>3 DEF Resting

LEMMA RestingUsb ==
  ASSUME Typed, Resting, Host \/ PushRest \/ DropRest
  PROVE  Resting'
<1> USE DEF main
<1>1. CASE HostOpens
  BY <1>1, RestingSame DEF HostOpens, Signal
<1>2. CASE HostCloses
  BY <1>2, RestingSame DEF HostCloses, Signal
<1>3. CASE HostPings
  <2>1. CASE enabled
    <3>1. /\ <<Ping>> \in Seq(Input) /\ Len(<<Ping>>) = 1
          /\ \A k \in 1 .. 1 : k = 1
      BY InputFacts
    <3>2. Push(<<Ping>>) /\ UNCHANGED enabled
      BY <1>3, <2>1 DEF HostPings
    <3> QED BY <2>1, <3>1, <3>2, RestingPush
  <2>2. CASE ~ enabled
    <3>1. rest' = <<>>
      BY <1>3, <2>2 DEF HostPings, UsbReady
    <3> QED BY <3>1 DEF Resting
  <2> QED BY <2>1, <2>2
<1>4. CASE HostSends
  <2>1. PICK first \in 0 .. LEN - 1, last \in 1 .. LEN :
           /\ first < last /\ sent' = last
           /\ chunk' \in 1 .. MaxChunks
           /\ IF enabled THEN Push(Packet(chunk', first, last))
              ELSE UNCHANGED <<pipe, rest, mutex>>
    BY <1>4, HostPacket
  <2>2. UNCHANGED enabled
    BY <1>4 DEF HostSends
  <2>3. CASE enabled
    <3> DEFINE data == Packet(chunk', first, last)
    <3>1. /\ data \in Seq(Input) /\ Len(data) = last - first
          /\ \A k \in 1 .. last - first : data[k].at = first + k
      BY <2>1, PacketPieces
    <3>2. Push(data)
      BY <2>1, <2>3
    <3> HIDE DEF data
    <3>3. ASSUME NEW k \in 1 .. Len(data), data[k].at = 1
          PROVE  k = 1
      <4>1. first + k = 1 /\ k \in Nat /\ k >= 1 /\ first \in Nat
        BY <3>1, <3>3
      <4> QED BY <4>1
    <3> QED BY <2>2, <2>3, <3>1, <3>2, <3>3, RestingPush
  <2>4. CASE ~ enabled
    <3>1. rest' = <<>>
      BY <1>4, <2>1, <2>4 DEF HostSends, UsbReady
    <3> QED BY <3>1 DEF Resting
  <2> QED BY <2>3, <2>4
<1>5. CASE PushRest
  <2>1. /\ rest \in Seq(Input) /\ Push(rest) /\ rest # <<>>
        /\ UNCHANGED <<flags, pc, enabled>>
    BY <1>5 DEF PushRest, Typed
  <2>2. \A k \in 1 .. Len(rest) : rest[k].at = 1 => k = 1
    BY <2>1 DEF Resting
  <2> QED BY <2>1, <2>2, RestingPush
<1>6. CASE DropRest
  <2>1. rest' = <<>>
    BY <1>6 DEF DropRest
  <2> QED BY <2>1 DEF Resting
<1> QED BY <1>1, <1>2, <1>3, <1>4, <1>5, <1>6 DEF Host

LEMMA RestingOthers ==
  ASSUME Resting, OtherEvent \/ GetBusy \/ GetIdle \/ TimerFires
  PROVE  Resting'
BY RestingSame DEF OtherEvent, Signal, GetBusy, GetIdle, TimerFires, main,
                   stdin

LEMMA RestingRead ==
  ASSUME Typed, Resting,
         \/ Lock \/ FirstGet \/ CheckFlags \/ Wake
         \/ LoadReturns \/ DrainReturns \/ WaitReturns
  PROVE  Resting'
<1> USE DEF Goto
<1>1. CASE Lock \/ CheckFlags
  BY <1>1, RestingSame DEF Lock, CheckFlags
<1>2. CASE FirstGet
  <2>1. pipe # <<>> => readAhead' # <<>>
    BY <1>2, GetPieces DEF FirstGet
  <2>2. pipe = <<>> => pipe' = <<>>
    BY <1>2 DEF FirstGet, Get, Suffix
  <2>3. UNCHANGED <<rest, space, enabled, flags>> /\ pc = "get"
        /\ pc' = IF pipe = <<>> THEN "check" ELSE "return"
    BY <1>2 DEF FirstGet
  <2> QED BY <2>1, <2>2, <2>3 DEF Resting
<1>3. CASE Wake
  <2>1. CASE timer
    <3>1. pipe # <<>> => readAhead' # <<>>
      BY <1>3, <2>1, GetPieces DEF Wake
    <3>2. UNCHANGED <<rest, space, enabled, flags>> /\ pc = "sleep"
          /\ pc' = "return"
      BY <1>3, <2>1 DEF Wake
    <3> QED BY <3>1, <3>2 DEF Resting
  <2>2. CASE ~ timer
    BY <1>3, <2>2, RestingSame DEF Wake
  <2> QED BY <2>1, <2>2
<1>4. CASE LoadReturns \/ DrainReturns \/ WaitReturns
  <2>1. /\ UNCHANGED <<rest, pipe, enabled, readAhead>>
        /\ space' = (space \/ readAhead # <<>>)
        /\ pc' # "ready" /\ ("ready" \in flags' => "ready" \in flags)
    BY <1>4 DEF LoadReturns, DrainReturns, WaitReturns, Return
  <2> QED BY <2>1 DEF Resting
<1> QED BY <1>1, <1>2, <1>3, <1>4

LEMMA RestingRepl ==
  ASSUME Resting, Load \/ LoadMore \/ Run \/ Fail
  PROVE  Resting'
<1>1. CASE Load
  BY <1>1, RestingSame DEF Load
<1>2. CASE LoadMore \/ Run
  BY <1>2, RestingSame DEF LoadMore, Call, Run, stdin
<1>3. CASE Fail
  <2>1. UNCHANGED <<rest, enabled, flags>> /\ space' = TRUE /\ pc' = "lock"
    BY <1>3 DEF Fail
  <2> QED BY <2>1 DEF Resting
<1> QED BY <1>1, <1>2, <1>3

LEMMA RestingLoop ==
  ASSUME Resting,
         \/ ExecutePending \/ Execute \/ Wait \/ WaitForInput
         \/ WaitForFlag \/ WakeForFlag \/ HandleEvent \/ HandleDisabled
         \/ TakeReady \/ HandleReady
  PROVE  Resting'
<1> USE DEF Goto
<1>1. CASE \/ ExecutePending \/ Execute \/ Wait \/ WaitForFlag \/ WakeForFlag
           \/ HandleEvent \/ TakeReady
  BY <1>1, RestingSame DEF ExecutePending, Execute, Wait,
     WaitForFlag, WakeForFlag, HandleEvent, TakeReady, stdin
<1>2. CASE WaitForInput
  BY <1>2, RestingSame DEF WaitForInput, Call
<1>3. CASE HandleDisabled
  <2>1. /\ UNCHANGED <<rest, pc>> /\ "ready" \notin flags' /\ pc = "top"
        /\ space' = TRUE \/ UNCHANGED <<pipe, space>>
    BY <1>3 DEF HandleDisabled, main
  <2> QED BY <2>1 DEF Resting
<1>4. CASE HandleReady
  <2>1. CASE enabled \/ readAhead # <<>>
    BY <1>4, <2>1, RestingSame DEF HandleReady
  <2>2. CASE ~ enabled /\ readAhead = <<>>
    <3>1. rest' = <<>>
      BY <1>4, <2>2 DEF HandleReady, Resting
    <3> QED BY <3>1 DEF Resting
  <2> QED BY <2>1, <2>2
<1> QED BY <1>1, <1>2, <1>3, <1>4

-----------------------------------------------------------------------------
(* The stream is in order, and its only beginning of a chunk is that of    *)
(* the chunk the host waits for, apart from one in front that drain() is   *)
(* about to read.                                                          *)
First == IF reader = "drain" /\ pc \in {"lock", "get"} THEN 2 ELSE 1

InOrder == Ordered(Stream, chunk, sent) /\ Fresh(Stream, First, chunk, host)

LEMMA StreamParts ==
  ASSUME Typed
  PROVE  /\ Kept \in Seq(Input) /\ loaded \o Kept \in Seq(Input)
         /\ pipe \o rest \in Seq(Input) /\ Stream \in Seq(Input)
         /\ Stream = (loaded \o Kept) \o (pipe \o rest)
         /\ First \in Nat /\ First >= 1
<1>1. loaded \in Seq(Input) /\ pipe \in Seq(Input) /\ rest \in Seq(Input)
  BY DEF Typed
<1>2. Kept \in Seq(Input)
  BY NothingTyped DEF Typed, Kept
<1> DEFINE front == loaded \o Kept
<1>3. front \in Seq(Input) /\ pipe \o rest \in Seq(Input)
  BY <1>1, <1>2, ConcatProperties
<1>4. Stream = (front \o pipe) \o rest
  BY DEF Stream
<1> HIDE DEF front
<1>5. (front \o pipe) \o rest = front \o (pipe \o rest)
  BY <1>1, <1>3, ConcatAssociative
<1>6. front \o (pipe \o rest) \in Seq(Input)
  BY <1>3, ConcatProperties
<1>7. First \in Nat /\ First >= 1
  BY DEF First
<1> QED BY <1>2, <1>3, <1>4, <1>5, <1>6, <1>7 DEF front

(* Steps that take away from an end of the stream, at most.                *)
LEMMA InOrderInner ==
  ASSUME Typed, InOrder, NEW o, Inner(Stream', Stream, o),
         First' \in Nat, o + First' >= First,
         UNCHANGED <<chunk, sent>>, host' = "ready" => host = "ready"
  PROVE  InOrder'
<1>1. sent \in Nat /\ First \in Nat
  BY StreamParts DEF Typed
<1>2. Ordered(Stream, chunk, sent) /\ Fresh(Stream, First, chunk, host)
  BY DEF InOrder
<1>3. Ordered(Stream', chunk, sent)
  BY <1>1, <1>2, OrderedInner
<1>4. Fresh(Stream', First', chunk, host)
  BY <1>1, <1>2, FreshInner
<1>5. Fresh(Stream', First', chunk, host')
  BY <1>4 DEF Fresh
<1> QED BY <1>3, <1>5 DEF InOrder

LEMMA WholeInner ==
  ASSUME NEW s \in Seq(Input)
  PROVE  Inner(s, s, 0)
<1>1. Len(s) \in Nat
  OBVIOUS
<1> HIDE DEF Input
<1> QED BY <1>1 DEF Inner

LEMMA NothingInner ==
  ASSUME NEW s \in Seq(Input), NEW o \in Nat, o <= Len(s)
  PROVE  Inner(<<>>, s, o)
<1>1. Len(s) \in Nat /\ <<>> \in Seq(Input) /\ Len(<<>>) = 0
  BY NothingTyped
<1> HIDE DEF Input
<1> QED BY <1>1 DEF Inner

(* Steps that leave the pieces where they are.                             *)
LEMMA InOrderSame ==
  ASSUME Typed, InOrder, UNCHANGED Stream, First' \in Nat, First' >= First,
         UNCHANGED <<chunk, sent>>, host' = "ready" => host = "ready"
  PROVE  InOrder'
<1>1. Inner(Stream', Stream, 0)
  BY StreamParts, WholeInner
<1>2. 0 + First' >= First
  BY StreamParts
<1> QED BY <1>1, <1>2, InOrderInner

LEMMA InOrderStill ==
  ASSUME Typed, InOrder, UNCHANGED <<loaded, pipe, rest, readAhead, pc, reader>>,
         UNCHANGED <<chunk, sent>>, host' = "ready" => host = "ready"
  PROVE  InOrder'
<1>1. Stream' = Stream /\ First' = First
  BY DEF Stream, Kept, First
<1>2. First' \in Nat /\ First' >= First
  BY <1>1, StreamParts
<1> QED BY <1>1, <1>2, InOrderSame

(* Steps outside read_timed_out(), or into it from there.                  *)
LEMMA InOrderOutside ==
  ASSUME Typed, InOrder, UNCHANGED <<loaded, pipe, rest, readAhead>>,
         pc \notin Reading,
         pc' \notin Reading \/ (pc' = "lock" /\ reader' # "drain"),
         UNCHANGED <<chunk, sent>>, host' = "ready" => host = "ready"
  PROVE  InOrder'
<1>1. Kept' = Kept /\ First' = 1 /\ First = 1
  BY DEF Kept, First, Reading
<1>2. Stream' = Stream
  BY <1>1 DEF Stream
<1> QED BY <1>1, <1>2, InOrderSame

(* A packet behind other pieces.                                           *)
Behind(t, s, d, first, last) ==
  /\ t \in Seq(Input) /\ Len(s) \in Nat /\ DOMAIN s = 1 .. Len(s)
  /\ Len(t) = Len(s) + (last - first)
  /\ first \in Nat /\ last \in Nat /\ LEN \in Nat
  /\ \A i \in DOMAIN t :
       \/ i \in 1 .. Len(s) /\ t[i] = s[i]
       \/ \E k \in 1 .. last - first :
            /\ k \in Nat /\ k >= 1 /\ i = Len(s) + k
            /\ t[i].chunk = d /\ t[i].at = first + k

LEMMA PacketBehind ==
  ASSUME NEW s \in Seq(Input), NEW d \in 1 .. MaxChunks,
         NEW first \in 0 .. LEN - 1, NEW last \in 1 .. LEN, first < last
  PROVE  Behind(s \o Packet(d, first, last), s, d, first, last)
<1> DEFINE p == Packet(d, first, last)
           t == s \o p
<1>1. /\ p \in Seq(Input) /\ Len(p) = last - first
      /\ \A k \in 1 .. last - first :
           p[k].chunk = d /\ p[k].at = first + k /\ p[k] # Ping
  BY PacketPieces
<1> HIDE DEF p
<1>2. /\ s \o p \in Seq(Input) /\ Len(s \o p) = Len(s) + Len(p)
      /\ \A i \in 1 .. Len(s) + Len(p) :
           (s \o p)[i] = IF i <= Len(s) THEN s[i] ELSE p[i - Len(s)]
  BY <1>1, ConcatProperties
<1>3. t = s \o p
  OBVIOUS
<1> HIDE DEF t
<1>4. /\ Len(s) \in Nat /\ last - first \in Nat /\ first \in Nat
      /\ last \in Nat /\ LEN \in Nat /\ DOMAIN s = 1 .. Len(s)
  BY ReplAssumption
<1>5. /\ t \in Seq(Input) /\ Len(t) = Len(s) + (last - first)
      /\ DOMAIN t = 1 .. Len(s) + (last - first)
      /\ \A i \in 1 .. Len(s) + (last - first) :
           t[i] = IF i <= Len(s) THEN s[i] ELSE p[i - Len(s)]
  BY <1>1, <1>2, <1>3
<1>6. ASSUME NEW i \in DOMAIN t
      PROVE  \/ i \in 1 .. Len(s) /\ t[i] = s[i]
             \/ \E k \in 1 .. last - first :
                   /\ k \in Nat /\ k >= 1 /\ i = Len(s) + k
                   /\ t[i].chunk = d /\ t[i].at = first + k
  <2>1. i \in Nat /\ i >= 1 /\ i <= Len(s) + (last - first)
    BY <1>4, <1>5
  <2>2. t[i] = IF i <= Len(s) THEN s[i] ELSE p[i - Len(s)]
    BY <1>5
  <2>3. CASE i <= Len(s)
    BY <1>4, <2>1, <2>2, <2>3
  <2>4. CASE ~ (i <= Len(s))
    <3> DEFINE k == i - Len(s)
    <3>1. k \in 1 .. last - first /\ k \in Nat /\ k >= 1 /\ i = Len(s) + k
      BY <1>4, <2>1, <2>4
    <3>2. t[i] = p[k]
      BY <2>2, <2>4
    <3> HIDE DEF k
    <3> QED BY <1>1, <3>1, <3>2
  <2> QED BY <2>3, <2>4
<1>7. Behind(t, s, d, first, last)
  BY <1>4, <1>5, <1>6 DEF Behind
<1> QED BY <1>7 DEF t, p

LEMMA Later ==
  ASSUME NEW a \in Nat, NEW l \in Nat, NEW i \in Nat, NEW f \in Nat,
         f >= a + (l - i)
  PROVE  /\ \A k \in Nat : f + k >= a + ((l + k) - i)
         /\ \A m \in Nat : m >= a + ((l + (m - f)) - i)
OBVIOUS

(* A packet, or a ping, is appended: one that goes on behind the n pieces  *)
(* of chunk c that are sent, or begins the next chunk.                     *)
LEMMA OrderedAppend ==
  ASSUME NEW s \in Seq(Input), NEW c \in Nat, NEW n \in 1 .. LEN,
         Ordered(s, c, n), NEW first \in 0 .. LEN - 1, NEW last \in 1 .. LEN,
         first < last, NEW d \in 1 .. MaxChunks,
         d = c + 1 \/ (d = c /\ first = n /\ n < LEN)
  PROVE  Ordered(s \o Packet(d, first, last), d, last)
<1> DEFINE t == s \o Packet(d, first, last)
<1>0. Behind(t, s, d, first, last)
  BY PacketBehind
<1> HIDE DEF t
<1>1. /\ t \in Seq(Input) /\ Len(s) \in Nat /\ DOMAIN s = 1 .. Len(s)
      /\ Len(t) = Len(s) + (last - first)
      /\ first \in Nat /\ last \in Nat /\ LEN \in Nat /\ d \in Nat
  BY <1>0 DEF Behind
<1>2. \A i \in DOMAIN t :
              \/ i \in 1 .. Len(s) /\ t[i] = s[i]
              \/ \E k \in 1 .. last - first :
                   /\ k \in Nat /\ k >= 1 /\ i = Len(s) + k
                   /\ t[i].chunk = d /\ t[i].at = first + k
  BY <1>0 DEF Behind
<1>3. ASSUME NEW i \in 1 .. Len(s)
      PROVE  /\ s[i].chunk \in Nat /\ s[i].at \in Nat /\ i \in Nat
             /\ s[i].chunk <= c /\ s[i].chunk <= d
             /\ s[i].chunk = d =>
                  d = c /\ first = n /\ n < LEN /\ n >= s[i].at + (Len(s) - i)
  <2>1. s[i].chunk \in Nat /\ s[i].at \in Nat
    BY InputFacts
  <2>2. /\ s[i].chunk <= c
        /\ s[i].chunk = c /\ n < LEN => n >= s[i].at + (Len(s) - i)
    BY <1>1 DEF Ordered
  <2> QED BY <2>1, <2>2
<1>4. ASSUME NEW i \in DOMAIN t, NEW j \in DOMAIN t,
             i < j, t[i] # Ping, t[j] # Ping
      PROVE  /\ t[i].chunk <= t[j].chunk
             /\ t[i].chunk = t[j].chunk => t[j].at >= t[i].at + (j - i)
  <2>1. CASE i \in 1 .. Len(s) /\ t[i] = s[i]
    <3>1. CASE j \in 1 .. Len(s) /\ t[j] = s[j]
      BY <1>1, <1>4, <2>1, <3>1 DEF Ordered
    <3>2. ASSUME NEW k \in 1 .. last - first, k \in Nat, k >= 1,
                 j = Len(s) + k, t[j].chunk = d, t[j].at = first + k
          PROVE  /\ t[i].chunk <= t[j].chunk
                 /\ t[i].chunk = t[j].chunk => t[j].at >= t[i].at + (j - i)
      <4>1. ASSUME t[i].chunk = d
            PROVE  first + k >= s[i].at + ((Len(s) + k) - i)
        <5>1. first >= s[i].at + (Len(s) - i) /\ s[i].at \in Nat /\ i \in Nat
          BY <1>3, <2>1, <4>1
        <5> QED BY <1>1, <3>2, <5>1, Later
      <4> QED BY <1>3, <2>1, <3>2, <4>1
    <3> QED BY <1>2, <3>1, <3>2
  <2>2. ASSUME NEW k \in 1 .. last - first, k \in Nat, k >= 1,
               i = Len(s) + k, t[i].chunk = d, t[i].at = first + k
        PROVE  /\ t[i].chunk <= t[j].chunk
               /\ t[i].chunk = t[j].chunk => t[j].at >= t[i].at + (j - i)
    <3>1. ~ (j \in 1 .. Len(s))
      BY <1>1, <1>4, <2>2
    <3>2. PICK m \in 1 .. last - first :
            /\ m \in Nat /\ m >= 1 /\ j = Len(s) + m
            /\ t[j].chunk = d /\ t[j].at = first + m
      BY <1>2, <3>1
    <3>3. first + m >= (first + k) + ((Len(s) + m) - (Len(s) + k))
      BY <1>1, <2>2, <3>2
    <3> QED BY <1>1, <2>2, <3>2, <3>3
  <2> QED BY <1>2, <2>1, <2>2
<1>5. ASSUME NEW i \in DOMAIN t
      PROVE  /\ t[i].chunk <= d
             /\ t[i].chunk = d /\ last < LEN => last >= t[i].at + (Len(t) - i)
  <2>1. CASE i \in 1 .. Len(s) /\ t[i] = s[i]
    <3>1. ASSUME t[i].chunk = d
          PROVE  last >= s[i].at + ((Len(s) + (last - first)) - i)
      <4>1. first >= s[i].at + (Len(s) - i) /\ s[i].at \in Nat /\ i \in Nat
        BY <1>3, <2>1, <3>1
      <4> QED BY <1>1, <4>1, Later
    <3> QED BY <1>1, <1>3, <2>1, <3>1
  <2>2. ASSUME NEW k \in 1 .. last - first, k \in Nat, k >= 1,
               i = Len(s) + k, t[i].chunk = d, t[i].at = first + k
        PROVE  /\ t[i].chunk <= d
               /\ t[i].chunk = d /\ last < LEN =>
                    last >= t[i].at + (Len(t) - i)
    <3>1. last >= (first + k) + ((Len(s) + (last - first)) - (Len(s) + k))
      BY <1>1, <2>2
    <3> QED BY <1>1, <2>2, <3>1
  <2> QED BY <1>2, <2>1, <2>2
<1>6. Ordered(t, d, last)
  BY <1>4, <1>5 DEF Ordered
<1> QED BY <1>6 DEF t

LEMMA FreshAppend ==
  ASSUME NEW s \in Seq(Input), NEW c, NEW from, NEW h, Fresh(s, from, c, h),
         NEW first \in 0 .. LEN - 1, NEW last \in 1 .. LEN,
         first < last, NEW d \in 1 .. MaxChunks, NEW g,
         \/ h = "ready" /\ g # "ready"
         \/ d = c /\ g = h /\ first # 0
  PROVE  Fresh(s \o Packet(d, first, last), from, d, g)
<1> DEFINE t == s \o Packet(d, first, last)
<1>0. Behind(t, s, d, first, last)
  BY PacketBehind
<1> HIDE DEF t
<1>1. /\ DOMAIN s = 1 .. Len(s) /\ first \in Nat
      /\ \A i \in DOMAIN t :
              \/ i \in 1 .. Len(s) /\ t[i] = s[i]
              \/ \E k \in 1 .. last - first :
                   /\ k \in Nat /\ k >= 1 /\ i = Len(s) + k
                   /\ t[i].chunk = d /\ t[i].at = first + k
  BY <1>0 DEF Behind
<1>2. ASSUME NEW i \in DOMAIN t, i >= from, t[i].at = 1
      PROVE  t[i].chunk = d /\ g # "ready"
  <2>1. CASE i \in 1 .. Len(s) /\ t[i] = s[i]
    <3>1. s[i].chunk = c /\ h # "ready"
      BY <1>1, <1>2, <2>1 DEF Fresh
    <3> QED BY <2>1, <3>1
  <2>2. ASSUME NEW k \in 1 .. last - first, k \in Nat, k >= 1,
               t[i].chunk = d, t[i].at = first + k
        PROVE  t[i].chunk = d /\ g # "ready"
    <3>1. first = 0
      BY <1>1, <1>2, <2>2
    <3> QED BY <2>2, <3>1
  <2> QED BY <1>1, <2>1, <2>2
<1>3. Fresh(t, from, d, g)
  BY <1>2 DEF Fresh
<1> QED BY <1>3 DEF t

(* A packet goes on or begins without an addition: stdin is not enabled.   *)
LEMMA OrderedNext ==
  ASSUME NEW s \in Seq(Input), NEW c \in Nat, NEW n \in 1 .. LEN,
         Ordered(s, c, n), NEW last \in 1 .. LEN, NEW d \in Nat,
         d = c + 1 \/ (d = c /\ last > n /\ n < LEN)
  PROVE  Ordered(s, d, last)
<1>1. ASSUME NEW i \in DOMAIN s
      PROVE  /\ s[i].chunk <= d
             /\ s[i].chunk = d /\ last < LEN => last >= s[i].at + (Len(s) - i)
  <2>1. /\ s[i].chunk \in Nat /\ s[i].at \in Nat /\ i \in Nat /\ Len(s) \in Nat
        /\ s[i] \in Input /\ LEN \in Nat
    BY InputFacts, ReplAssumption
  <2>2. /\ s[i].chunk <= c
        /\ s[i].chunk = c /\ n < LEN => n >= s[i].at + (Len(s) - i)
    BY DEF Ordered
  <2> QED BY <2>1, <2>2
<1>2. \A i, j \in DOMAIN s :
       i < j /\ s[i] # Ping /\ s[j] # Ping =>
         /\ s[i].chunk <= s[j].chunk
         /\ s[i].chunk = s[j].chunk => s[j].at >= s[i].at + (j - i)
  BY DEF Ordered
<1> QED BY <1>1, <1>2 DEF Ordered

LEMMA PingAppend ==
  ASSUME NEW s \in Seq(Input), NEW c \in Nat, NEW n \in Nat, ~ (n < LEN),
         Ordered(s, c, n), NEW from, NEW h, Fresh(s, from, c, h)
  PROVE  /\ Ordered(s \o <<Ping>>, c, n)
         /\ Fresh(s \o <<Ping>>, from, c, h)
<1> DEFINE t == s \o <<Ping>>
<1>1. /\ <<Ping>> \in Seq(Input) /\ Len(<<Ping>>) = 1 /\ <<Ping>>[1] = Ping
      /\ Ping.at = 0 /\ Ping.chunk = 0
  BY InputFacts
<1>2. /\ t \in Seq(Input) /\ Len(t) = Len(s) + 1 /\ Len(s) \in Nat
      /\ \A i \in 1 .. Len(s) + 1 :
           t[i] = IF i <= Len(s) THEN s[i] ELSE <<Ping>>[i - Len(s)]
  BY <1>1, ConcatProperties
<1>3. DOMAIN t = 1 .. Len(s) + 1 /\ DOMAIN s = 1 .. Len(s)
  BY <1>2
<1> HIDE DEF t
<1>4. \A i \in DOMAIN t : \/ i \in DOMAIN s /\ t[i] = s[i]
                          \/ t[i] = Ping
  <2> TAKE i \in DOMAIN t
  <2>1. CASE i <= Len(s)
    BY <1>2, <1>3, <2>1
  <2>2. CASE ~ (i <= Len(s))
    <3>1. i = Len(s) + 1 /\ i - Len(s) = 1
      BY <1>2, <1>3, <2>2
    <3> QED BY <1>1, <1>2, <1>3, <2>2, <3>1
  <2> QED BY <2>1, <2>2
<1>5. Ordered(t, c, n)
  BY <1>1, <1>4 DEF Ordered
<1>6. Fresh(t, from, c, h)
  BY <1>1, <1>4 DEF Fresh
<1> QED BY <1>5, <1>6 DEF t

LEMMA KeptTyped == ASSUME Typed PROVE Kept \in Seq(Input)
BY NothingTyped DEF Typed, Kept

(* What isrpipe_write() is given goes behind the rest.                     *)
LEMMA PushStream ==
  ASSUME Typed, NEW data \in Seq(Input), Push(data),
         UNCHANGED <<loaded, readAhead, pc, reader>>
  PROVE  /\ rest = <<>> => Stream' = Stream \o data
         /\ data = rest => Stream' = Stream
         /\ First' = First
<1> DEFINE front == loaded \o Kept
<1>1. /\ loaded \in Seq(Input) /\ Kept \in Seq(Input)
      /\ pipe \in Seq(Input) /\ rest \in Seq(Input)
  BY KeptTyped DEF Typed
<1>2. /\ pipe' \in Seq(Input) /\ rest' \in Seq(Input)
      /\ pipe' \o rest' = pipe \o data
  BY PushPieces
<1>3. Kept' = Kept /\ loaded' = loaded /\ First' = First
  BY DEF Kept, First
<1>4. front \in Seq(Input)
  BY <1>1, ConcatProperties
<1>5. loaded \o Kept \o pipe' \o rest' = front \o (pipe' \o rest')
  <2> HIDE DEF front
  <2>1. pipe' \in Seq(Input) /\ rest' \in Seq(Input)
    BY <1>2
  <2>2. (front \o pipe') \o rest' = front \o (pipe' \o rest')
    BY <1>4, <2>1, ConcatAssociative
  <2> QED BY <2>2 DEF front
<1>6. Stream = front \o (pipe \o rest)
  BY StreamParts
<1>7. Stream' = front \o (pipe \o data)
  BY <1>2, <1>3, <1>5 DEF Stream
<1> HIDE DEF front
<1>8. rest = <<>> => Stream' = Stream \o data
  <2>1. ASSUME rest = <<>> PROVE pipe \o rest = pipe
    BY <1>1, <2>1, ConcatEmptySeq
  <2>2. front \o (pipe \o data) = (front \o pipe) \o data
    <3>1. pipe \in Seq(Input) /\ data \in Seq(Input)
      BY <1>1
    <3> QED BY <1>4, <3>1, ConcatAssociative
  <2> QED BY <1>6, <1>7, <2>1, <2>2
<1> QED BY <1>3, <1>6, <1>7, <1>8

LEMMA InOrderUsb ==
  ASSUME Typed, Resting, InOrder, Host \/ PushRest \/ DropRest
  PROVE  InOrder'
<1> USE DEF main
<1>1. /\ Stream \in Seq(Input) /\ First \in Nat /\ sent \in 1 .. LEN
      /\ chunk \in 0 .. MaxChunks /\ chunk \in Nat /\ LEN \in Nat
      /\ sent \in Nat /\ MaxChunks \in Nat
      /\ Ordered(Stream, chunk, sent) /\ Fresh(Stream, First, chunk, host)
  BY StreamParts, ReplAssumption DEF InOrder, Typed
<1>2. CASE HostOpens
  <2>1. Stream' = Stream /\ First' = First
    BY <1>2 DEF HostOpens, Stream, Kept, First
  <2>2. chunk' = chunk /\ sent' = LEN /\ host' # "ready"
    BY <1>2 DEF HostOpens
  <2>3. Ordered(Stream, chunk, LEN)
    BY <1>1 DEF Ordered
  <2>4. Fresh(Stream, First, chunk, host')
    BY <1>1, <2>2 DEF Fresh
  <2> QED BY <2>1, <2>2, <2>3, <2>4 DEF InOrder
<1>3. CASE HostCloses
  BY <1>3, InOrderStill DEF HostCloses
<1>4. CASE HostPings
  <2>1. CASE enabled
    <3>1. /\ <<Ping>> \in Seq(Input) /\ Push(<<Ping>>) /\ rest = <<>>
          /\ UNCHANGED <<loaded, readAhead, pc, reader, chunk, sent, host>>
          /\ ~ (sent < LEN)
      BY <1>4, <2>1, InputFacts DEF HostPings, UsbReady, Typed
    <3>2. Stream' = Stream \o <<Ping>> /\ First' = First
      BY <3>1, PushStream
    <3>3. /\ Ordered(Stream \o <<Ping>>, chunk, sent)
          /\ Fresh(Stream \o <<Ping>>, First, chunk, host)
      BY <1>1, <3>1, PingAppend
    <3> QED BY <3>1, <3>2, <3>3 DEF InOrder
  <2>2. CASE ~ enabled
    BY <1>4, <2>2, InOrderStill DEF HostPings
  <2> QED BY <2>1, <2>2
<1>5. CASE HostSends
  <2>1. PICK first \in 0 .. LEN - 1, last \in 1 .. LEN :
           /\ first < last /\ sent' = last
           /\ chunk' \in 1 .. MaxChunks
           /\ \/ /\ first = 0 /\ chunk' = chunk + 1 /\ host = "ready"
                 /\ host' = "waiting"
              \/ /\ first = sent /\ sent < LEN /\ chunk' = chunk /\ host' = host
                 /\ host # "open"
           /\ IF enabled THEN Push(Packet(chunk', first, last))
              ELSE UNCHANGED <<pipe, rest, mutex>>
    BY <1>5, HostPacket
  <2>2. rest = <<>> /\ UNCHANGED <<loaded, readAhead, pc, reader>>
    BY <1>5 DEF HostSends, UsbReady
  <2>3. CASE enabled
    <3> DEFINE data == Packet(chunk', first, last)
    <3>1. data \in Seq(Input) /\ Push(data)
      BY <2>1, <2>3, PacketPieces
    <3>2. Stream' = Stream \o data /\ First' = First
      BY <2>2, <3>1, PushStream
    <3>3. Ordered(Stream \o data, chunk', last)
      <4>1. chunk' = chunk + 1 \/ (chunk' = chunk /\ first = sent /\ sent < LEN)
        BY <2>1
      <4> QED BY <1>1, <2>1, <4>1, OrderedAppend
    <3>4. Fresh(Stream \o data, First, chunk', host')
      <4>1. \/ host = "ready" /\ host' # "ready"
            \/ chunk' = chunk /\ host' = host /\ first # 0
        BY <1>1, <2>1
      <4> QED BY <1>1, <2>1, <4>1, FreshAppend
    <3> QED BY <2>1, <3>2, <3>3, <3>4 DEF InOrder
  <2>4. CASE ~ enabled
    <3>1. Stream' = Stream /\ First' = First
      BY <2>1, <2>2, <2>4 DEF Stream, Kept, First
    <3>2. Ordered(Stream, chunk', last)
      <4>1. chunk' = chunk + 1 \/ (chunk' = chunk /\ last > sent /\ sent < LEN)
        BY <2>1
      <4>2. chunk' \in Nat
        BY <2>1
      <4> QED BY <1>1, <4>1, <4>2, OrderedNext
    <3>3. Fresh(Stream, First, chunk', host')
      BY <1>1, <2>1 DEF Fresh
    <3> QED BY <2>1, <3>1, <3>2, <3>3 DEF InOrder
  <2> QED BY <2>3, <2>4
<1>6. CASE PushRest
  <2>1. /\ rest \in Seq(Input) /\ Push(rest)
        /\ UNCHANGED <<loaded, readAhead, pc, reader, chunk, sent, host>>
    BY <1>6 DEF PushRest, hostVars, Typed
  <2>2. Stream' = Stream /\ First' = First
    BY <2>1, PushStream
  <2> QED BY <2>1, <2>2 DEF InOrder
<1>7. CASE DropRest
  <2>1. /\ UNCHANGED <<loaded, readAhead, pc, reader, chunk, sent, host>>
        /\ pipe' = <<>> /\ rest' = <<>>
    BY <1>7 DEF DropRest, hostVars
  <2> DEFINE front == loaded \o Kept
  <2>2. /\ front \in Seq(Input) /\ pipe \o rest \in Seq(Input)
        /\ Stream = front \o (pipe \o rest)
    BY StreamParts
  <2>3. Stream' = front \o <<>> \o <<>> /\ First' = First
    BY <2>1 DEF Stream, Kept, First
  <2> HIDE DEF front
  <2>4. front \o <<>> = front
    BY <2>2, ConcatEmptySeq
  <2>5. Inner(front, Stream, 0)
    BY <2>2, InnerConcat
  <2>6. Inner(Stream', Stream, 0)
    BY <2>3, <2>4, <2>5
  <2>7. 0 + First' >= First /\ First' \in Nat
    BY <1>1, <2>3
  <2> QED BY <2>1, <2>6, <2>7, InOrderInner
<1> QED BY <1>2, <1>3, <1>4, <1>5, <1>6, <1>7 DEF Host

LEMMA InOrderOthers ==
  ASSUME Typed, InOrder, OtherEvent \/ GetBusy \/ GetIdle \/ TimerFires
  PROVE  InOrder'
BY InOrderStill DEF OtherEvent, GetBusy, GetIdle, TimerFires, main, stdin,
                    hostVars

(* tsrb_get() takes from the front of the pipe.  With lua_load() or the    *)
(* loop reading, the pieces stay in the stream; drain() drops them.        *)
LEMMA GetStream ==
  ASSUME Typed, Get, readAhead = <<>> \/ reader = "drain",
         UNCHANGED <<loaded, rest, reader>>,
         pc \in Reading, pc' \in Reading
  PROVE  /\ reader # "drain" => Stream' = Stream
         /\ reader = "drain" /\ loaded = <<>> =>
              Inner(Stream', Stream, Len(readAhead'))
         /\ Len(readAhead') \in Nat
         /\ pipe # <<>> => Len(readAhead') >= 1
<1>1. /\ loaded \in Seq(Input) /\ pipe \in Seq(Input) /\ rest \in Seq(Input)
      /\ readAhead \in Seq(Input)
  BY DEF Typed
<1>2. /\ readAhead' \in Seq(Input) /\ pipe' \in Seq(Input)
      /\ readAhead' \o pipe' = pipe
      /\ pipe # <<>> => readAhead' # <<>>
  BY GetPieces
<1>3. Len(readAhead') \in Nat /\ (pipe # <<>> => Len(readAhead') >= 1)
  <2>1. Len(readAhead') \in Nat
    BY <1>2, LenProperties
  <2>2. pipe # <<>> => Len(readAhead') # 0
    BY <1>2, EmptySeq
  <2> QED BY <2>1, <2>2
<1>4. ASSUME reader # "drain"
      PROVE  Stream' = Stream
  <2>1. /\ Stream = loaded \o readAhead \o pipe \o rest
        /\ Stream' = loaded \o readAhead' \o pipe' \o rest
        /\ readAhead = <<>>
    BY <1>4 DEF Stream, Kept
  <2>2. loaded \o <<>> = loaded
    BY <1>1, ConcatEmptySeq
  <2>3. (loaded \o readAhead') \o pipe' = loaded \o (readAhead' \o pipe')
    <3>1. loaded \in Seq(Input) /\ readAhead' \in Seq(Input) /\ pipe' \in Seq(Input)
      BY <1>1, <1>2
    <3> QED BY <3>1, ConcatAssociative
  <2> QED BY <1>2, <2>1, <2>2, <2>3
<1>5. ASSUME reader = "drain", loaded = <<>>
      PROVE  Inner(Stream', Stream, Len(readAhead'))
  <2>1. /\ Stream = <<>> \o <<>> \o pipe \o rest
        /\ Stream' = <<>> \o <<>> \o pipe' \o rest
    BY <1>5 DEF Stream, Kept
  <2>2. <<>> \o <<>> = <<>> /\ <<>> \o pipe = pipe /\ <<>> \o pipe' = pipe'
    BY <1>1, <1>2, ConcatEmptySeq, NothingTyped
  <2>3. pipe' \o rest \in Seq(Input)
    BY <1>1, <1>2, ConcatProperties
  <2>4. (readAhead' \o pipe') \o rest = readAhead' \o (pipe' \o rest)
    <3>1. readAhead' \in Seq(Input) /\ pipe' \in Seq(Input) /\ rest \in Seq(Input)
      BY <1>1, <1>2
    <3> QED BY <3>1, ConcatAssociative
  <2>5. Inner(pipe' \o rest, readAhead' \o (pipe' \o rest), Len(readAhead'))
    BY <1>2, <2>3, InnerConcat
  <2>6. Stream = readAhead' \o (pipe' \o rest) /\ Stream' = pipe' \o rest
    BY <1>2, <2>1, <2>2, <2>4
  <2> QED BY <2>5, <2>6
<1> QED BY <1>3, <1>4, <1>5

LEMMA InOrderRead ==
  ASSUME Typed, Placed, Resting, InOrder, UsbWaits,
         \/ Lock \/ FirstGet \/ CheckFlags \/ Wake
         \/ LoadReturns \/ DrainReturns \/ WaitReturns
  PROVE  InOrder'
<1> USE DEF Goto, hostVars
<1>1. CASE Lock \/ CheckFlags
  <2>1. Stream' = Stream /\ First' = First
    BY <1>1 DEF Lock, CheckFlags, Stream, Kept, Reading, First
  <2>2. UNCHANGED <<chunk, sent, host>>
    BY <1>1 DEF Lock, CheckFlags
  <2> QED BY <2>1, <2>2 DEF InOrder
<1>2. CASE FirstGet
  <2>1. /\ Get /\ UNCHANGED <<loaded, rest, reader, chunk, sent, host>>
        /\ pc \in Reading /\ pc' \in Reading /\ pc = "get"
        /\ pc' \notin {"lock", "get"}
        /\ readAhead = <<>> \/ reader = "drain"
    BY <1>2 DEF FirstGet, Placed, Reading
  <2>2. /\ reader # "drain" => Stream' = Stream
        /\ reader = "drain" /\ loaded = <<>> =>
             Inner(Stream', Stream, Len(readAhead'))
        /\ Len(readAhead') \in Nat
        /\ pipe # <<>> => Len(readAhead') >= 1
    BY <2>1, GetStream
  <2>3. First' = 1 /\ (First = IF reader = "drain" THEN 2 ELSE 1)
    BY <2>1 DEF First
  <2>4. CASE reader # "drain"
    <3>1. First' \in Nat /\ First' >= First
      BY <2>3, <2>4
    <3> QED BY <2>1, <2>2, <2>4, <3>1, InOrderSame
  <2>5. CASE reader = "drain"
    <3>1. loaded = <<>>
      BY <2>1, <2>5 DEF Placed
    <3>2. CASE pipe # <<>>
      <4>1. First' \in Nat /\ Len(readAhead') + First' >= First
        BY <2>2, <2>3, <2>5, <3>2
      <4>2. Inner(Stream', Stream, Len(readAhead'))
        BY <2>2, <2>5, <3>1
      <4> QED BY <2>1, <2>2, <4>1, <4>2, InOrderInner
    <3>3. CASE pipe = <<>>
      <4>1. rest = <<>>
        BY <2>1, <3>3 DEF Resting, UsbWaits
      <4>2. /\ readAhead' \in Seq(Input) /\ pipe' \in Seq(Input)
            /\ readAhead' \o pipe' = <<>>
        BY <2>1, <3>3, GetPieces
      <4>3. pipe' = <<>>
        <5>1. Len(readAhead' \o pipe') = Len(readAhead') + Len(pipe')
          BY <4>2, ConcatProperties
        <5>2. Len(readAhead') + Len(pipe') = 0
          BY <4>2, <5>1
        <5>3. Len(readAhead') \in Nat /\ Len(pipe') \in Nat
          BY <4>2, LenProperties
        <5>4. Len(pipe') = 0
          BY <5>2, <5>3
        <5> QED BY <4>2, <5>4, EmptySeq
      <4>4. Stream' = <<>>
        <5>1. Stream' = <<>> \o <<>> \o <<>> \o <<>>
          BY <2>1, <2>5, <3>1, <4>1, <4>3 DEF Stream, Kept
        <5>2. <<>> \o <<>> = <<>>
          BY ConcatEmptySeq, NothingTyped
        <5> QED BY <5>1, <5>2
      <4>5. Ordered(<<>>, chunk, sent) /\ Fresh(<<>>, First', chunk, host)
        BY DEF Ordered, Fresh
      <4> QED BY <2>1, <4>4, <4>5 DEF InOrder
    <3> QED BY <3>2, <3>3
  <2> QED BY <2>4, <2>5
<1>3. CASE Wake
  <2>1. /\ UNCHANGED <<loaded, rest, reader, chunk, sent, host>>
        /\ pc = "sleep" /\ pc' \in {"return", "timeout"} /\ readAhead = <<>>
    BY <1>3 DEF Wake, Placed
  <2>2. pc \in Reading /\ pc' \in Reading
    BY <2>1 DEF Reading
  <2>3. First' = 1 /\ First = 1
    BY <2>1 DEF First
  <2>4. CASE timer
    <3>1. Get
      BY <1>3, <2>4 DEF Wake
    <3>2. /\ reader # "drain" => Stream' = Stream
          /\ reader = "drain" /\ loaded = <<>> =>
               Inner(Stream', Stream, Len(readAhead'))
          /\ Len(readAhead') \in Nat
      BY <2>1, <2>2, <3>1, GetStream
    <3>3. CASE reader # "drain"
      BY <2>1, <2>3, <3>2, <3>3, InOrderSame
    <3>4. CASE reader = "drain"
      <4>1. loaded = <<>>
        BY <2>1, <3>4 DEF Placed
      <4>2. First' \in Nat /\ Len(readAhead') + First' >= First
        BY <2>3, <3>2
      <4>3. Inner(Stream', Stream, Len(readAhead'))
        BY <3>2, <3>4, <4>1
      <4> QED BY <2>1, <3>2, <4>2, <4>3, InOrderInner
    <3> QED BY <3>3, <3>4
  <2>5. CASE ~ timer
    <3>1. UNCHANGED <<pipe, readAhead>>
      BY <1>3, <2>5 DEF Wake
    <3>2. Stream' = Stream
      BY <2>1, <2>2, <3>1 DEF Stream, Kept
    <3> QED BY <2>1, <2>3, <3>2, InOrderSame
  <2> QED BY <2>4, <2>5
<1>4. CASE LoadReturns \/ WaitReturns
  <2>1. /\ UNCHANGED <<loaded, pipe, rest, readAhead, reader, chunk, sent, host>>
        /\ reader # "drain"
    BY <1>4 DEF LoadReturns, WaitReturns, Return
  <2>2. Stream' = Stream /\ First' = First
    BY <2>1 DEF Stream, Kept, First
  <2> QED BY <2>1, <2>2 DEF InOrder
<1>5. CASE DrainReturns
  <2>1. /\ UNCHANGED <<loaded, pipe, rest, readAhead, reader, chunk, sent, host>>
        /\ reader = "drain" /\ pc \in {"return", "timeout"}
        /\ pc' = IF pc = "timeout" THEN "top" ELSE "lock"
        /\ pc = "timeout" => readAhead = <<>>
    BY <1>5 DEF DrainReturns, Return, Placed
  <2>2. Kept = <<>> /\ Kept' = <<>>
    BY <2>1 DEF Kept, Reading
  <2>3. Stream' = Stream
    BY <2>1, <2>2 DEF Stream
  <2>4. First' \in Nat /\ First' >= First
    BY <2>1 DEF First
  <2> QED BY <2>1, <2>3, <2>4, InOrderSame
<1> QED BY <1>1, <1>2, <1>3, <1>4, <1>5

LEMMA InOrderLoad ==
  ASSUME Typed, Placed, InOrder, Load \/ LoadMore
  PROVE  InOrder'
<1>1. CASE Load
  <2>1. /\ loaded' = loaded \o readAhead /\ readAhead' = <<>>
        /\ UNCHANGED <<pipe, rest, reader, chunk, sent, host>>
        /\ pc = "load" /\ pc' \in {"failed", "run", "load"}
    BY <1>1 DEF Load, hostVars
  <2> DEFINE all == loaded \o readAhead
  <2>2. all \in Seq(Input)
    BY ConcatProperties DEF Typed
  <2>3. Kept = readAhead /\ Kept' = <<>> /\ First' = 1 /\ First = 1
    BY <2>1 DEF Kept, First, Reading
  <2>4. Stream = all \o pipe \o rest
    BY <2>3 DEF Stream
  <2>5. Stream' = (all \o <<>>) \o pipe \o rest
    BY <2>1, <2>3 DEF Stream
  <2> HIDE DEF all
  <2>6. all \o <<>> = all
    BY <2>2, ConcatEmptySeq
  <2> QED BY <2>1, <2>3, <2>4, <2>5, <2>6 DEF InOrder
<1>2. CASE LoadMore
  BY <1>2, InOrderOutside DEF LoadMore, Call, stdin, hostVars, Reading
<1> QED BY <1>1, <1>2

(* What lua_load() has read is gone, and what is left begins no chunk.     *)
LEMMA InOrderRun ==
  ASSUME Typed, Placed, InOrder, Run
  PROVE  InOrder'
<1>1. /\ pc = "run" /\ pc' \in {"failed", "top"} /\ loaded' = <<>>
      /\ readAhead = <<>>
      /\ UNCHANGED <<pipe, rest, readAhead, chunk, sent, reader>>
      /\ Len(loaded) >= LEN
  BY DEF Run, Respond, stdin, Placed
<1>2. LEN \in Nat /\ LEN > 0 /\ MaxChunks \in Nat
      /\ loaded \in Seq(Input) /\ Len(loaded) \in Nat /\ sent \in Nat
  BY ReplAssumption DEF Typed
<1>3. loaded # <<>> /\ loaded[1].at = 1
  <2>1. loaded # <<>>
    BY <1>1, <1>2, NothingTyped
  <2> QED BY <1>1, <2>1 DEF Placed
<1>4. Kept = <<>> /\ Kept' = <<>> /\ First = 1 /\ First' = 1
  BY <1>1 DEF Kept, First, Reading
<1> DEFINE back == pipe \o rest
<1>5. /\ back \in Seq(Input) /\ Stream \in Seq(Input)
      /\ Stream = loaded \o back
  <2>1. /\ Stream = (loaded \o <<>>) \o (pipe \o rest)
        /\ pipe \o rest \in Seq(Input) /\ Stream \in Seq(Input)
    BY <1>4, StreamParts
  <2>2. loaded \o <<>> = loaded
    BY <1>2, ConcatEmptySeq
  <2> QED BY <2>1, <2>2
<1>6. Stream' = back
  <2>1. Stream' = <<>> \o <<>> \o pipe \o rest
    BY <1>1, <1>4 DEF Stream
  <2>2. <<>> \o <<>> = <<>> /\ <<>> \o pipe = pipe
    BY ConcatEmptySeq, NothingTyped DEF Typed
  <2> QED BY <2>1, <2>2
<1> HIDE DEF back
<1>7. Inner(back, Stream, Len(loaded)) /\ Inner(loaded, Stream, 0)
  BY <1>2, <1>5, InnerConcat
<1>8. Ordered(Stream, chunk, sent) /\ Fresh(Stream, 1, chunk, host)
  BY <1>4 DEF InOrder
<1>9. Ordered(back, chunk, sent)
  BY <1>2, <1>7, <1>8, OrderedInner
<1>10. ASSUME NEW i \in DOMAIN back
       PROVE  back[i].at # 1
  <2>1. /\ DOMAIN back = 1 .. Len(back) /\ Len(back) \in Nat
        /\ DOMAIN Stream = 1 .. Len(Stream) /\ Len(Stream) \in Nat
        /\ Len(loaded) + Len(back) <= Len(Stream)
    BY <1>5, <1>7 DEF Inner
  <2> DEFINE j == Len(loaded) + i
  <2>2. /\ j \in DOMAIN Stream /\ j \in Nat /\ j > 1 /\ 1 \in DOMAIN Stream
        /\ Stream[j] = back[i] /\ Stream[1] = loaded[1]
    <3>1. i \in 1 .. Len(back) /\ i \in Nat /\ i >= 1
      BY <2>1
    <3>2. Stream[Len(loaded) + i] = back[i]
      BY <1>7, <3>1 DEF Inner
    <3>3. 1 \in 1 .. Len(loaded)
      BY <1>1, <1>2
    <3>4. Stream[0 + 1] = loaded[1]
      BY <1>7, <3>3 DEF Inner
    <3> QED BY <1>1, <1>2, <2>1, <3>1, <3>2, <3>4
  <2> HIDE DEF j
  <2>3. SUFFICES ASSUME back[i].at = 1 PROVE FALSE
    OBVIOUS
  <2>4. Stream[j].chunk = chunk /\ Stream[1].chunk = chunk
    BY <1>3, <1>8, <2>2, <2>3 DEF Fresh
  <2>5. Stream[j] # Ping /\ Stream[1] # Ping
    BY <1>3, <2>2, <2>3, InputFacts
  <2>6. Stream[j].at >= Stream[1].at + (j - 1)
    BY <1>8, <2>2, <2>4, <2>5 DEF Ordered
  <2> QED BY <1>3, <2>2, <2>3, <2>6
<1>11. Fresh(back, 1, chunk, host')
  BY <1>10 DEF Fresh
<1> QED BY <1>1, <1>4, <1>6, <1>9, <1>11 DEF InOrder

(* An error leaves what waits to be written, which drain() reads next.     *)
LEMMA RestStream ==
  ASSUME Typed, InOrder, UNCHANGED <<rest, chunk, sent>>,
         loaded' = <<>>, Kept' = <<>>, pipe' = <<>>
  PROVE  Stream' = rest /\ Ordered(Stream', chunk', sent')
         /\ \E o \in Nat : Inner(Stream', Stream, o)
<1> DEFINE front == loaded \o Kept \o pipe
<1>1. front \in Seq(Input) /\ rest \in Seq(Input) /\ sent \in Nat
  <2>1. loaded \o Kept \in Seq(Input) /\ pipe \in Seq(Input)
    BY StreamParts DEF Typed
  <2> QED BY <2>1, ConcatProperties DEF Typed
<1>2. Stream = front \o rest
  BY DEF Stream
<1>3. Stream' = rest
  <2>1. Stream' = <<>> \o <<>> \o <<>> \o rest
    BY DEF Stream
  <2>2. <<>> \o <<>> = <<>> /\ <<>> \o rest = rest
    BY <1>1, ConcatEmptySeq, NothingTyped
  <2> QED BY <2>1, <2>2
<1> HIDE DEF front
<1>4. Inner(rest, Stream, Len(front)) /\ Len(front) \in Nat
  BY <1>1, <1>2, InnerConcat, LenProperties
<1>5. Ordered(rest, chunk, sent)
  BY <1>1, <1>4, OrderedInner DEF InOrder
<1> QED BY <1>3, <1>4, <1>5

LEMMA InOrderFail ==
  ASSUME Typed, Resting, InOrder, Fail
  PROVE  InOrder'
<1>1. /\ loaded' = <<>> /\ pipe' = <<>>
      /\ UNCHANGED <<rest, chunk, sent>> /\ pc' = "lock" /\ reader' = "drain"
  BY DEF Fail, Respond
<1>2. Kept' = <<>> /\ First' = 2
  BY <1>1 DEF Kept, First, Reading
<1>3. Stream' = rest /\ Ordered(Stream', chunk', sent')
  BY <1>1, <1>2, RestStream
<1>4. Fresh(rest, 2, chunk', host')
  BY DEF Fresh, Resting
<1> QED BY <1>2, <1>3, <1>4 DEF InOrder

LEMMA InOrderLoop ==
  ASSUME Typed, Placed, Resting, InOrder,
         \/ ExecutePending \/ Execute \/ Wait \/ WaitForInput
         \/ WaitForFlag \/ WakeForFlag \/ HandleEvent \/ HandleDisabled
         \/ TakeReady \/ HandleReady
  PROVE  InOrder'
<1> USE DEF hostVars
<1>1. CASE ExecutePending \/ HandleEvent
  BY <1>1, InOrderStill DEF ExecutePending, HandleEvent, stdin
<1>2. CASE \/ Execute \/ Wait \/ WaitForFlag \/ WakeForFlag \/ TakeReady
  BY <1>2, InOrderOutside DEF Execute, Wait, WaitForFlag, WakeForFlag,
     TakeReady, Goto, stdin, Reading
<1>3. CASE WaitForInput
  BY <1>3, InOrderOutside DEF WaitForInput, Call, Reading
<1>4. CASE HandleDisabled
  <2>1. /\ pc = "top" /\ UNCHANGED <<rest, loaded, pc, reader, chunk, sent, host>>
    BY <1>4 DEF HandleDisabled, main
  <2>2. CASE enabled
    <3>1. pipe' = <<>> /\ readAhead' = <<>> /\ loaded' = <<>>
      BY <1>4, <2>1, <2>2 DEF HandleDisabled, Placed, Reading
    <3>2. Kept' = <<>> /\ First' = 1 /\ First = 1
      BY <2>1, <3>1 DEF Kept, First
    <3>3. PICK o \in Nat : Inner(Stream', Stream, o)
      BY <2>1, <3>1, <3>2, RestStream
    <3>4. First' \in Nat /\ o + First' >= First
      BY <3>2
    <3> QED BY <2>1, <3>3, <3>4, InOrderInner
  <2>3. CASE ~ enabled
    BY <1>4, <2>1, <2>3, InOrderStill DEF HandleDisabled
  <2> QED BY <2>2, <2>3
<1>5. CASE HandleReady
  <2>1. CASE enabled \/ readAhead # <<>>
    BY <1>5, <2>1, InOrderOutside DEF HandleReady, Goto, Reading
  <2>2. CASE ~ enabled /\ readAhead = <<>>
    <3>1. /\ pipe' = <<>> /\ UNCHANGED <<rest, loaded, readAhead, chunk, sent>>
          /\ rest = <<>> /\ loaded = <<>> /\ pc' = "top"
      BY <1>5, <2>2 DEF HandleReady, Goto, Respond, Placed, Reading, Resting
    <3>2. Kept' = <<>>
      BY <2>2, <3>1 DEF Kept, Reading
    <3>3. Stream' = <<>> /\ Ordered(Stream', chunk', sent')
      BY <3>1, <3>2, RestStream
    <3>4. Fresh(<<>>, First', chunk', host')
      BY DEF Fresh
    <3> QED BY <3>3, <3>4 DEF InOrder
  <2> QED BY <2>1, <2>2
<1> QED BY <1>1, <1>2, <1>3, <1>4, <1>5

-----------------------------------------------------------------------------
StreamInv == Typed /\ Placed /\ Resting /\ InOrder

LEMMA StreamInit == Init => StreamInv
<1> SUFFICES ASSUME Init PROVE StreamInv
  OBVIOUS
<1> USE DEF Init
<1>1. Typed
  <2>1. LEN \in 1 .. LEN /\ ~ (LEN < LEN) /\ MaxChunks \in Nat
    BY ReplAssumption
  <2> QED BY <2>1, NothingTyped DEF Typed
<1>2. Placed /\ Resting
  BY NothingRests DEF Placed
<1>3. Stream = <<>>
  <2>1. Stream = <<>> \o <<>> \o <<>> \o <<>>
    BY DEF Stream, Kept
  <2>2. <<>> \o <<>> = <<>>
    BY ConcatEmptySeq, NothingTyped
  <2> QED BY <2>1, <2>2
<1>4. Ordered(<<>>, chunk, sent) /\ Fresh(<<>>, First, chunk, host)
  BY DEF Ordered, Fresh
<1> QED BY <1>1, <1>2, <1>3, <1>4 DEF StreamInv, InOrder

LEMMA StreamStep == StreamInv /\ [Next]_vars => StreamInv'
<1> SUFFICES ASSUME Typed, Placed, Resting, InOrder, [Next]_vars
             PROVE  StreamInv'
  BY DEF StreamInv
<1>1. ASSUME UNCHANGED vars PROVE StreamInv'
  <2>1. /\ UNCHANGED <<pc, reader, loaded, readAhead, pipe, rest, space, enabled>>
        /\ UNCHANGED <<flags, chunk, sent, host>>
    BY <1>1 DEF vars, stdin, main, hostVars
  <2> QED BY <2>1, TypedSame, PlacedSame, RestingSame, InOrderStill
             DEF StreamInv
<1>2. CASE Main
  <2>1. CASE Panic
    BY <1>1, <2>1 DEF Panic
  <2>2. CASE \/ Lock \/ FirstGet \/ CheckFlags \/ Wake
             \/ LoadReturns \/ DrainReturns \/ WaitReturns
    <3>1. UsbWaits
      BY <1>2 DEF Main
    <3> QED BY <2>2, <3>1, TypedRead, PlacedRead, RestingRead, InOrderRead
               DEF StreamInv
  <2>3. CASE Load \/ LoadMore \/ Run \/ Fail
    BY <2>3, TypedRepl, PlacedRepl, RestingRepl, InOrderLoad, InOrderRun,
       InOrderFail DEF StreamInv
  <2>4. CASE \/ ExecutePending \/ Execute \/ Wait \/ WaitForInput
             \/ WaitForFlag \/ WakeForFlag \/ HandleEvent \/ HandleDisabled
             \/ TakeReady \/ HandleReady
    BY <2>4, TypedLoop, PlacedLoop, RestingLoop, InOrderLoop DEF StreamInv
  <2> QED BY <1>2, <2>1, <2>2, <2>3, <2>4 DEF Main, MainStep
<1>3. CASE Host \/ PushRest \/ DropRest
  <2>1. UNCHANGED <<pc, reader, loaded, readAhead>>
    BY <1>3 DEF Host, HostOpens, HostCloses, HostPings, HostSends, PushRest,
                DropRest, main
  <2> QED BY <1>3, <2>1, TypedUsb, PlacedSame, RestingUsb, InOrderUsb
             DEF StreamInv
<1>4. CASE OtherEvent \/ GetBusy \/ GetIdle \/ TimerFires
  <2>1. UNCHANGED <<pc, reader, loaded, readAhead>>
    BY <1>4 DEF OtherEvent, GetBusy, GetIdle, TimerFires, main, stdin
  <2> QED BY <1>4, <2>1, TypedOthers, PlacedSame, RestingOthers, InOrderOthers
             DEF StreamInv
<1> QED BY <1>1, <1>2, <1>3, <1>4 DEF Next

(* The pieces that lua_load() has read when it is done: the first begins   *)
(* the last chunk, and as many as a chunk has leave no room for a gap.     *)
LEMMA WholeChunk == StreamInv => RunsWhole
<1> SUFFICES ASSUME Typed, Placed, InOrder, pc = "run",
                    Ping \notin Range(loaded)
             PROVE  \E c \in 1 .. MaxChunks : loaded = Pieces(c)
  BY DEF StreamInv, RunsWhole
<1>1. LEN \in Nat /\ LEN > 0 /\ loaded \in Seq(Input) /\ Len(loaded) \in Nat
      /\ Len(loaded) >= LEN /\ sent \in Nat /\ DOMAIN loaded = 1 .. Len(loaded)
      /\ chunk \in Nat
  BY ReplAssumption DEF Typed, Placed
<1>2. loaded[1].at = 1
  <2>1. loaded # <<>>
    BY <1>1, NothingTyped
  <2> QED BY <2>1 DEF Placed
<1>3. First = 1 /\ Inner(loaded, Stream, 0)
  <2>1. First = 1
    BY DEF First
  <2> DEFINE front == loaded \o Kept
             back == pipe \o rest
  <2>2. Kept \in Seq(Input) /\ front \in Seq(Input) /\ back \in Seq(Input)
        /\ Stream \in Seq(Input) /\ Stream = front \o back
    BY StreamParts
  <2>3. Inner(loaded, front, 0)
    BY <1>1, <2>2, InnerConcat
  <2> HIDE DEF front, back
  <2>4. Inner(front, Stream, 0)
    BY <2>2, InnerConcat
  <2>5. ASSUME NEW i \in 1 .. Len(loaded)
        PROVE  loaded[i] = Stream[0 + i]
    <3>1. loaded[i] = front[0 + i] /\ 0 + i = i /\ i \in 1 .. Len(front)
      BY <1>1, <2>2, <2>3 DEF Inner
    <3>2. front[i] = Stream[0 + i]
      BY <2>4, <3>1 DEF Inner
    <3> QED BY <3>1, <3>2
  <2>6. 0 + Len(loaded) <= Len(Stream)
    <3>1. Len(front) \in Nat /\ Len(Stream) \in Nat
      BY <2>2, LenProperties
    <3>2. 0 + Len(loaded) <= Len(front) /\ 0 + Len(front) <= Len(Stream)
      BY <2>3, <2>4 DEF Inner
    <3> QED BY <1>1, <3>1, <3>2
  <2> QED BY <1>1, <2>1, <2>2, <2>5, <2>6 DEF Inner
<1>4. Ordered(loaded, chunk, sent)
  BY <1>1, <1>3, OrderedInner DEF InOrder
<1>5. Fresh(loaded, 1, chunk, host)
  <2>1. 0 + 1 >= 1
    OBVIOUS
  <2> QED BY <1>3, <2>1, FreshInner DEF InOrder
<1>6. 1 \in DOMAIN loaded /\ loaded[1].chunk = chunk
  BY <1>1, <1>2, <1>5 DEF Fresh
<1>7. \A i \in DOMAIN loaded : loaded[i] # Ping
  BY DEF Range
<1>8. ASSUME NEW i \in DOMAIN loaded
      PROVE  /\ loaded[i] = [chunk |-> chunk, at |-> loaded[i].at]
             /\ loaded[i].at \in 1 .. LEN /\ loaded[i].at >= i
             /\ chunk \in 1 .. MaxChunks
  <2>1. /\ loaded[i].chunk \in 1 .. MaxChunks /\ loaded[i].at \in 1 .. LEN
        /\ loaded[i] = [chunk |-> loaded[i].chunk, at |-> loaded[i].at]
        /\ loaded[i].chunk \in Nat /\ loaded[i].chunk <= chunk
        /\ i \in Nat /\ i >= 1
    BY <1>1, <1>4, <1>7, InputFacts DEF Ordered
  <2>2. CASE i = 1
    BY <1>2, <1>6, <2>1, <2>2
  <2>3. CASE i > 1
    <3>1. /\ loaded[1].chunk <= loaded[i].chunk
          /\ loaded[1].chunk = loaded[i].chunk =>
               loaded[i].at >= loaded[1].at + (i - 1)
      BY <1>4, <1>6, <1>7, <2>3 DEF Ordered
    <3>2. loaded[i].chunk = chunk
      BY <1>1, <1>6, <2>1, <3>1
    <3>3. loaded[i].at >= i
      BY <1>2, <1>6, <2>1, <3>1, <3>2
    <3> QED BY <2>1, <3>2, <3>3
  <2> QED BY <2>1, <2>2, <2>3
<1>9. Len(loaded) = LEN
  <2>1. Len(loaded) \in DOMAIN loaded
    BY <1>1
  <2>2. loaded[Len(loaded)].at \in 1 .. LEN
        /\ loaded[Len(loaded)].at >= Len(loaded)
    BY <1>8, <2>1
  <2> DEFINE l == Len(loaded)
             a == loaded[l].at
  <2>3. a \in 1 .. LEN /\ a >= l /\ l >= LEN /\ l \in Nat /\ LEN \in Nat
    BY <1>1, <2>2
  <2> HIDE DEF a, l
  <2>4. l = LEN
    BY <2>3
  <2> QED BY <2>4 DEF l
<1>10. ASSUME NEW i \in 1 .. LEN
       PROVE  loaded[i] = [chunk |-> chunk, at |-> i]
  <2>1. /\ i \in DOMAIN loaded /\ LEN \in DOMAIN loaded
        /\ i \in Nat /\ i <= LEN
    BY <1>1, <1>9
  <2>2. /\ loaded[i] = [chunk |-> chunk, at |-> loaded[i].at]
        /\ loaded[i].at \in Nat /\ loaded[i].at >= i /\ loaded[i].at <= LEN
        /\ loaded[LEN] = [chunk |-> chunk, at |-> loaded[LEN].at]
        /\ loaded[LEN].at \in Nat /\ loaded[LEN].at <= LEN
    BY <1>1, <1>8, <2>1
  <2>3. loaded[i].at <= i
    <3>1. CASE i = LEN
      BY <2>2, <3>1
    <3>2. CASE i < LEN
      <4>1. loaded[i].chunk = chunk /\ loaded[LEN].chunk = chunk
        BY <2>2
      <4>2. loaded[LEN].at >= loaded[i].at + (LEN - i)
        BY <1>4, <1>7, <2>1, <3>2, <4>1 DEF Ordered
      <4> DEFINE a == loaded[i].at
                 b == loaded[LEN].at
      <4>3. /\ a \in Nat /\ b \in Nat /\ LEN \in Nat /\ i \in Nat
            /\ b >= a + (LEN - i) /\ b <= LEN
        BY <1>1, <2>1, <2>2, <4>2
      <4> HIDE DEF a, b
      <4>4. a <= i
        BY <4>3
      <4> QED BY <4>4 DEF a
    <3> QED BY <1>1, <2>1, <3>1, <3>2
  <2>4. loaded[i].at = i
    BY <2>1, <2>2, <2>3
  <2> QED BY <2>2, <2>4
<1>11. loaded = Pieces(chunk)
  <2>1. loaded = [k \in 1 .. LEN |-> loaded[k]]
    BY <1>1, <1>9
  <2> QED BY <1>10, <2>1 DEF Pieces
<1>12. chunk \in 1 .. MaxChunks
  BY <1>6, <1>8
<1> QED BY <1>11, <1>12

(* lua_load() accepts no chunk that is pieced together, whatever was       *)
(* dropped, left over or cut off before (timed_stdin.cpp:66-78,            *)
(* repl.cpp:87-91).                                                        *)
THEOREM RunsWholeChunks == Spec => []RunsWhole
BY StreamInit, StreamStep, WholeChunk, PTL DEF Spec

-----------------------------------------------------------------------------
(* The rest of the types.  No buffer overflows: what usb_thread waits to   *)
(* write is part of a packet, and lua_load() reads on only until it has as *)
(* many pieces as a chunk.                                                 *)

LoadsMore == pc = "load" \/ (pc \in Reading /\ reader = "load")

Fitting ==
  /\ Len(readAhead) <= READ
  /\ Len(rest) <= PACKET
  /\ Len(loaded) < LEN + READ
  /\ LoadsMore => Len(loaded) < LEN

Kinds ==
  /\ {mutex, space, enabled, stoppable, timer, call, busy} \subseteq BOOLEAN
  /\ flags \subseteq {"event", "disabled", "ready"}
  /\ host \in {"closed", "open", "ready", "waiting"}

LEMMA Nothing == Len(<<>>) = 0 /\ 0 <= READ /\ 0 <= PACKET /\ 0 < LEN
                 /\ 0 < LEN + READ
BY EmptySeq, ReplAssumption

LEMMA FittingSame ==
  ASSUME Fitting, UNCHANGED <<readAhead, rest, loaded>>,
         LoadsMore' => LoadsMore
  PROVE  Fitting'
BY DEF Fitting

LEMMA PushLeaves ==
  ASSUME Typed, NEW data \in Seq(Input), Push(data)
  PROVE  Len(rest') <= Len(data)
<1> DEFINE n == PIPE - Len(pipe)
<1>1. n \in Nat
  BY ReplAssumption, LenProperties DEF Typed
<1>2. rest' = Suffix(data, n)
  BY DEF Push
<1> HIDE DEF n
<1>3. /\ Len(Suffix(data, n)) = Len(data) - Len(Prefix(data, n))
      /\ Prefix(data, n) \in Seq(Input)
  BY <1>1, Split
<1>4. Len(data) \in Nat /\ Len(Prefix(data, n)) \in Nat
  BY <1>3, LenProperties
<1> QED BY <1>2, <1>3, <1>4

LEMMA GetTakes ==
  ASSUME Typed, Get
  PROVE  Len(readAhead') <= READ
<1>1. Len(Prefix(pipe, READ)) = IF READ < Len(pipe) THEN READ ELSE Len(pipe)
  BY Split, ReplAssumption DEF Typed
<1>2. READ \in Nat /\ Len(pipe) \in Nat
  BY ReplAssumption, LenProperties DEF Typed
<1> QED BY <1>1, <1>2 DEF Get

LEMMA PacketFits ==
  ASSUME Typed, HostSends, enabled
  PROVE  Len(rest') <= PACKET
<1> DEFINE first == IF sent = LEN THEN 0 ELSE sent
           last == IF first + PACKET < LEN THEN first + PACKET ELSE LEN
<1>1. LEN \in Nat \ {0} /\ PACKET \in Nat \ {0} /\ sent \in 1 .. LEN
      /\ MaxChunks \in Nat /\ chunk \in 0 .. MaxChunks
  BY ReplAssumption DEF Typed
<1>2. first \in 0 .. LEN - 1
  BY <1>1
<1>3. Push(Packet(chunk', first, last))
  BY DEF HostSends, Packet
<1>4. chunk' \in 1 .. MaxChunks
  BY <1>1 DEF HostSends, Typed
<1> HIDE DEF first
<1>5. last \in 1 .. LEN /\ first < last /\ last - first <= PACKET
  BY <1>1, <1>2
<1> HIDE DEF last
<1>6. /\ Packet(chunk', first, last) \in Seq(Input)
      /\ Len(Packet(chunk', first, last)) = last - first
  BY <1>2, <1>4, <1>5, PacketPieces
<1>7. Len(rest') <= last - first
  BY <1>3, <1>6, PushLeaves
<1>8. Len(rest') \in Nat
  BY <1>3, <1>6, PushPieces, LenProperties
<1> QED BY <1>1, <1>2, <1>5, <1>7, <1>8

LEMMA FittingUsb ==
  ASSUME Typed, Fitting, Host \/ PushRest \/ DropRest
  PROVE  Fitting'
<1> SUFFICES Len(rest') <= PACKET
  <2>1. UNCHANGED <<readAhead, loaded, pc, reader>>
    BY DEF Host, HostOpens, HostCloses, HostPings, HostSends, PushRest,
           DropRest, main
  <2> QED BY <2>1 DEF Fitting, LoadsMore
<1>1. CASE HostOpens \/ HostCloses
  BY <1>1 DEF HostOpens, HostCloses, Fitting
<1>2. CASE HostPings
  <2>1. CASE enabled
    <3>1. <<Ping>> \in Seq(Input) /\ Len(<<Ping>>) = 1
      BY InputFacts
    <3>2. Push(<<Ping>>)
      BY <1>2, <2>1 DEF HostPings
    <3>3. Len(rest') \in Nat
      BY <3>1, <3>2, PushPieces, LenProperties
    <3>4. Len(rest') <= 1
      BY <3>1, <3>2, PushLeaves
    <3>5. PACKET \in Nat \ {0}
      BY ReplAssumption
    <3> QED BY <3>3, <3>4, <3>5
  <2>2. CASE ~ enabled
    BY <1>2, <2>2 DEF HostPings, Fitting
  <2> QED BY <2>1, <2>2
<1>3. CASE HostSends
  <2>1. CASE ~ enabled
    BY <1>3, <2>1 DEF HostSends, Fitting
  <2> QED BY <1>3, <2>1, PacketFits
<1>4. CASE PushRest
  <2>1. rest \in Seq(Input) /\ Push(rest)
    BY <1>4 DEF PushRest, Typed
  <2>2. Len(rest') \in Nat /\ Len(rest) \in Nat
    BY <2>1, PushPieces, LenProperties
  <2> QED BY <2>1, <2>2, PushLeaves, ReplAssumption DEF Fitting
<1>5. CASE DropRest
  BY <1>5, Nothing DEF DropRest
<1> QED BY <1>1, <1>2, <1>3, <1>4, <1>5 DEF Host

LEMMA FittingRead ==
  ASSUME Typed, Fitting,
         \/ Lock \/ FirstGet \/ CheckFlags \/ Wake
         \/ LoadReturns \/ DrainReturns \/ WaitReturns
  PROVE  Fitting'
<1> USE DEF Goto, Reading, LoadsMore
<1>1. CASE Lock \/ CheckFlags
  BY <1>1, FittingSame DEF Lock, CheckFlags
<1>2. CASE FirstGet
  <2>1. /\ Len(readAhead') <= READ /\ UNCHANGED <<rest, loaded>>
        /\ LoadsMore' => LoadsMore
    BY <1>2, GetTakes DEF FirstGet
  <2> QED BY <2>1 DEF Fitting
<1>3. CASE Wake
  <2>1. /\ Get \/ UNCHANGED readAhead
        /\ UNCHANGED <<rest, loaded>>
        /\ LoadsMore' => LoadsMore
    BY <1>3 DEF Wake
  <2> QED BY <2>1, GetTakes DEF Fitting
<1>4. CASE LoadReturns \/ DrainReturns \/ WaitReturns
  BY <1>4, FittingSame DEF LoadReturns, DrainReturns, WaitReturns, Return
<1> QED BY <1>1, <1>2, <1>3, <1>4

LEMMA FittingRepl ==
  ASSUME Typed, Fitting, Load \/ LoadMore \/ Run \/ Fail
  PROVE  Fitting'
<1>1. CASE Load
  <2> DEFINE all == loaded \o readAhead
  <2>1. /\ loaded' = all /\ readAhead' = <<>> /\ rest' = rest
        /\ pc' \in {"failed", "run", "load"}
        /\ pc' = "load" => ~ (Len(all) >= LEN)
        /\ LoadsMore
    BY <1>1 DEF Load, LoadsMore
  <2>2. /\ Len(all) = Len(loaded) + Len(readAhead)
        /\ Len(loaded) \in Nat /\ Len(readAhead) \in Nat
    BY ConcatProperties, LenProperties DEF Typed
  <2> HIDE DEF all
  <2>3. Len(all) < LEN + READ
    BY <2>1, <2>2, ReplAssumption DEF Fitting
  <2>4. LoadsMore' => Len(all) < LEN
    BY <2>1, <2>2, ReplAssumption DEF LoadsMore, Reading
  <2> QED BY <2>1, <2>3, <2>4, Nothing DEF Fitting
<1>2. CASE LoadMore
  BY <1>2, FittingSame DEF LoadMore, Call, stdin, LoadsMore
<1>3. CASE Run
  <2>1. loaded' = <<>> /\ UNCHANGED <<readAhead, rest>>
    BY <1>3 DEF Run, stdin
  <2> QED BY <2>1, Nothing DEF Fitting
<1>4. CASE Fail
  <2>1. loaded' = <<>> /\ UNCHANGED <<readAhead, rest>>
    BY <1>4 DEF Fail
  <2> QED BY <2>1, Nothing DEF Fitting
<1> QED BY <1>1, <1>2, <1>3, <1>4

LEMMA FittingLoop ==
  ASSUME Typed, Placed, Fitting,
         \/ ExecutePending \/ Execute \/ Wait \/ WaitForInput
         \/ WaitForFlag \/ WakeForFlag \/ HandleEvent \/ HandleDisabled
         \/ TakeReady \/ HandleReady
  PROVE  Fitting'
<1> USE DEF Goto, Reading, LoadsMore
<1>1. CASE Execute
  <2>1. loaded = <<>> /\ UNCHANGED <<loaded, readAhead, rest>>
    BY <1>1 DEF Execute, Placed, stdin
  <2> QED BY <2>1, Nothing DEF Fitting
<1>2. CASE HandleDisabled
  <2>1. /\ readAhead' \in {readAhead, <<>>} /\ UNCHANGED <<rest, loaded>>
        /\ LoadsMore' => LoadsMore
    BY <1>2 DEF HandleDisabled, main
  <2> QED BY <2>1, Nothing DEF Fitting
<1>3. CASE HandleReady
  <2>1. UNCHANGED <<readAhead, rest, loaded>> /\ ~ LoadsMore'
    BY <1>3 DEF HandleReady
  <2> QED BY <2>1, FittingSame
<1>4. CASE \/ ExecutePending \/ Wait \/ WaitForInput \/ WaitForFlag
           \/ WakeForFlag \/ HandleEvent \/ TakeReady
  BY <1>4, FittingSame DEF ExecutePending, Wait, WaitForInput, Call,
     WaitForFlag, WakeForFlag, HandleEvent, TakeReady, stdin
<1> QED BY <1>1, <1>2, <1>3, <1>4

LEMMA FittingStep ==
  ASSUME Typed, Placed, Fitting, [Next]_vars
  PROVE  Fitting'
<1>1. CASE Main
  <2>1. CASE Panic
    BY <2>1, FittingSame DEF Panic, vars, stdin, main, LoadsMore
  <2> QED BY <1>1, <2>1, FittingRead, FittingRepl, FittingLoop
             DEF Main, MainStep
<1>2. CASE OtherEvent \/ GetBusy \/ GetIdle \/ TimerFires \/ UNCHANGED vars
  BY <1>2, FittingSame DEF OtherEvent, GetBusy, GetIdle, TimerFires, vars,
     stdin, main, LoadsMore
<1> QED BY <1>1, <1>2, FittingUsb DEF Next

LEMMA KindsStep ==
  ASSUME Kinds, [Next]_vars
  PROVE  Kinds'
<1> USE DEF Kinds, stdin, main, hostVars
<1>1. CASE Host \/ PushRest \/ DropRest
  <2>1. CASE HostOpens \/ HostCloses
    BY <2>1 DEF HostOpens, HostCloses, Signal, StopWait
  <2>2. CASE HostPings
    BY <2>2 DEF HostPings, Signal, StopWait, Push
  <2>3. CASE HostSends
    <3>1. /\ mutex' \in {mutex, FALSE} /\ host' \in {host, "waiting"}
          /\ UNCHANGED <<space, enabled, stoppable, timer, call, busy, flags>>
      BY <2>3 DEF HostSends, Push
    <3> QED BY <3>1
  <2>4. CASE PushRest \/ DropRest
    BY <2>4 DEF PushRest, DropRest, Push
  <2> QED BY <1>1, <2>1, <2>2, <2>3, <2>4 DEF Host
<1>2. CASE OtherEvent \/ GetBusy \/ GetIdle \/ TimerFires
  BY <1>2 DEF OtherEvent, GetBusy, GetIdle, TimerFires, Signal, StopWait
<1>3. CASE Main
  <2>1. CASE Lock \/ FirstGet \/ CheckFlags \/ Wake
    BY <2>1 DEF Lock, FirstGet, CheckFlags, Wake, Goto
  <2>2. CASE LoadReturns \/ DrainReturns \/ WaitReturns
    BY <2>2 DEF LoadReturns, DrainReturns, WaitReturns, Return, Goto
  <2>3. CASE Load \/ LoadMore \/ Run \/ Fail
    <3>1. /\ UNCHANGED <<mutex, enabled, stoppable, timer, flags, call, busy>>
          /\ space' \in {space, TRUE}
          /\ host' \in {host, "ready"}
      BY <2>3 DEF Load, LoadMore, Run, Fail, Respond, Call
    <3> QED BY <3>1
  <2>4. CASE \/ ExecutePending \/ Execute \/ Wait \/ WaitForInput
             \/ WaitForFlag \/ WakeForFlag \/ HandleEvent \/ TakeReady
    BY <2>4 DEF ExecutePending, Execute, Wait, WaitForInput, WaitForFlag,
       WakeForFlag, HandleEvent, TakeReady, Goto, Call
  <2>5. CASE HandleDisabled
    BY <2>5 DEF HandleDisabled, StopWait
  <2>6. CASE HandleReady
    BY <2>6 DEF HandleReady, Respond, Goto
  <2>7. CASE Panic
    BY <2>7 DEF Panic, vars
  <2> QED BY <1>3, <2>1, <2>2, <2>3, <2>4, <2>5, <2>6, <2>7
             DEF Main, MainStep
<1>4. CASE UNCHANGED vars
  BY <1>4 DEF vars
<1> QED BY <1>1, <1>2, <1>3, <1>4 DEF Next

LEMMA Bounded ==
  ASSUME NEW s \in Seq(Input), NEW n \in Nat, Len(s) <= n
  PROVE  s \in BoundedSeq(Input, n)
<1>1. Len(s) \in 0 .. n /\ s \in [1 .. Len(s) -> Input]
  BY LenProperties
<1> QED BY <1>1 DEF BoundedSeq, SeqOf

(* TypeOK, for buffers, chunks and packets of any size: the pipe and       *)
(* m_read_buffer never hold more than they have room for, and lua_load()   *)
(* does not read on once it has a chunk (timed_stdin.cpp:59-116,           *)
(* repl.cpp:75-76).                                                        *)
THEOREM ReplTypeCorrect == Spec => []TypeOK
<1>1. Init => Fitting /\ Kinds
  BY Nothing DEF Init, Fitting, Kinds
<1>2. StreamInv /\ Fitting /\ Kinds /\ [Next]_vars => (Fitting /\ Kinds)'
  BY FittingStep, KindsStep DEF StreamInv
<1>3. StreamInv /\ Fitting /\ Kinds => TypeOK
  <2> SUFFICES ASSUME Typed, Fitting, Kinds
               PROVE  TypeOK
    BY DEF StreamInv
  <2>1. /\ PIPE \in Nat /\ READ \in Nat /\ PACKET \in Nat
        /\ LEN + READ - 1 \in Nat
    BY ReplAssumption
  <2>2. Len(loaded) <= LEN + READ - 1
    <3>1. Len(loaded) \in Nat
      BY LenProperties DEF Typed
    <3> QED BY <3>1, ReplAssumption DEF Fitting
  <2>3. /\ pipe \in BoundedSeq(Input, PIPE)
        /\ readAhead \in BoundedSeq(Input, READ)
        /\ rest \in BoundedSeq(Input, PACKET)
        /\ loaded \in BoundedSeq(Input, LEN + READ - 1)
    BY <2>1, <2>2, Bounded DEF Typed, Fitting
  <2> QED BY <2>3 DEF TypeOK, Kinds
<1> QED
  BY <1>1, <1>2, <1>3, StreamInit, StreamStep, PTL DEF Spec

=============================================================================
