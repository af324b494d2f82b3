------------------------------- MODULE Keymap -------------------------------
(***************************************************************************)
(* The keymap engine in Lua: the classes of user_logic/class.lua, the      *)
(* driver handle_key_event() of user_logic/export.lua, and the timers of   *)
(* lua_embedded/timer.cpp, as main_thread runs them.                       *)
(*                                                                         *)
(* A step executes one method up to the methods it calls; those, and what  *)
(* is left to do after them, go on the stack of calls.  Timers expire      *)
(* between any two steps, in any order, whatever their terms.              *)
(*                                                                         *)
(* The queue of key events is unbounded here, and written to only between  *)
(* two events: MainKeyEvents is about the rest of it.                      *)
(***************************************************************************)
EXTENDS Integers, Sequences, SequencesExt, FiniteSets

CONSTANTS
  Maps,       (* the keymaps                                            *)
  NoMap,      (* "false" where a keymap may stand                       *)
  Class,      (* the class of each keymap                               *)
  Child,      (* the keymaps it was made from, in order                 *)
  Made,       (* when: its children are made before it                  *)
  Flavor,     (* its flavors                                            *)
  Table,      (* c_keymap_table: the keymap of each slot                *)
  MaxTaps     (* keys pressed                                           *)

Classes == {"Pseudo", "Lit", "OneShot", "ModIf", "TapHold", "TapSeq"}
Flavors == {"TapOnPress", "HoldOnPress", "TapOnRelease", "HoldOnRelease",
            "QuickRelease", "UNDO_MODIFIER"}
Slots == DOMAIN Table
NoSlot == 0
Event == [slot : Slots, press : BOOLEAN]

(* ModIf(map_modifier, map_modified, map_original)                         *)
Modifier(m) == Child[m][1]
Modified(m) == Child[m][2]
Original(m) == Child[m][3]

(* TapHold(map_tap, map_hold)                                              *)
Tap(m) == Child[m][1]
Hold(m) == Child[m][2]

(* The keymaps that the constructor of a class takes, at least.            *)
Arguments(class) ==
  CASE class = "ModIf" -> 3
    [] class = "TapHold" -> 2
    [] class = "OneShot" -> 1
    [] OTHER -> 0

ASSUME KeymapAssumption ==
  /\ IsFiniteSet(Maps)
  /\ NoMap \notin Maps
  /\ Class \in [Maps -> Classes]
  /\ Flavor \in [Maps -> SUBSET Flavors]
  /\ Child \in [Maps -> Seq(Maps)]
  /\ Made \in [Maps -> Nat]
  /\ \A m \in Maps : \A i \in DOMAIN Child[m] : Made[Child[m][i]] < Made[m]
  /\ \A m \in Maps : Len(Child[m]) >= Arguments(Class[m])
  /\ Table \in Seq(Maps)
  /\ MaxTaps \in Nat

Of(class) == {m \in Maps : Class[m] = class}
Deferrers == Of("TapHold") \cup Of("TapSeq")

VARIABLES
  \* The keymaps.
  count,      (* m_press_count                                          *)
  modified,   (* the ModIfs with m_is_modified                          *)
  chosen,     (* m_map_chosen of a TapHold                              *)
  step,       (* m_step of a TapSeq                                     *)
  finished,   (* the TapSeqs with m_is_finished                         *)
  mySlot,     (* m_my_slot of a deferrer                                *)
  slot,       (* Base.c_current_slot_index                              *)
  \* Defer mode.
  chain,      (* the deferrers from Defer.c_owner on                    *)
  chainSlot,  (* Defer.c_slot_index                                     *)
  \* The timers of the deferrers.
  expected,   (* those with a callback: m_rcallback is not LUA_NOREF    *)
  running,    (* those set with ztimer_set()                            *)
  posted,     (* the timeout events in main_thread's event queue        *)
  \* Lua at work, between two events an empty stack.
  calls,
  failed,     (* an assertion or an index failed                        *)
  \* The world.
  events,     (* the queue of key events                                *)
  peeked,     (* those of them that are deferred                        *)
  peeking,    (* m_get is try_peek()                                    *)
  sent,       (* the keys down as fw.send_key() said last               *)
  down,       (* the slots of the keys down                             *)
  taps

mapVars   == <<count, modified, chosen, step, finished, mySlot>>
deferVars == <<chain, chainSlot, peeking>>
timerVars == <<expected, running, posted>>
queueVars == <<events, peeked>>
worldVars == <<down, taps>>
vars == <<mapVars, slot, deferVars, timerVars, calls, failed, queueVars,
          sent, worldVars>>

TypeOK ==
  /\ count \in [Maps -> Int]
  /\ modified \subseteq Of("ModIf")
  /\ chosen \in [Of("TapHold") -> Maps \cup {NoMap}]
  /\ step \in [Of("TapSeq") -> Nat]
  /\ \A m \in Of("TapSeq") : step[m] <= Len(Child[m])
  /\ finished \subseteq Of("TapSeq")
  /\ mySlot \in [Deferrers -> Slots \cup {NoSlot}]
  /\ slot \in Slots \cup {NoSlot}
  /\ chain \in Seq(Deferrers)
  /\ chainSlot \in Slots \cup {NoSlot}
  /\ expected \subseteq Deferrers
  /\ running \subseteq Deferrers
  /\ posted \in Seq(Deferrers)
  /\ events \in Seq(Event)
  /\ peeked \in 0 .. Len(events)
  /\ {peeking, failed} \subseteq BOOLEAN
  /\ sent \subseteq Of("Lit")
  /\ down \subseteq Slots
  /\ taps \in 0 .. MaxTaps

Init ==
  /\ count = [m \in Maps |-> 0]
  /\ modified = {}
  /\ chosen = [m \in Of("TapHold") |-> NoMap]
  /\ step = [m \in Of("TapSeq") |-> 0]
  /\ finished = Of("TapSeq")
  /\ mySlot = [m \in Deferrers |-> NoSlot]
  /\ slot = NoSlot
  /\ chain = <<>>
  /\ chainSlot = NoSlot
  /\ expected = {}
  /\ running = {}
  /\ posted = <<>>
  /\ calls = <<>>
  /\ failed = FALSE
  /\ events = <<>>
  /\ peeked = 0
  /\ peeking = FALSE
  /\ sent = {}
  /\ down = {}
  /\ taps = 0

-----------------------------------------------------------------------------
(* Calls.  Doing(op): the call on top is op; Call(list) replaces it by the  *)
(* calls of list, before the ones that wait.                               *)

Idle == calls = <<>> /\ ~ failed
Top == Head(calls)
Doing(op) == calls # <<>> /\ ~ failed /\ Top[1] = op
Call(list) == calls' = list \o Tail(calls)
Self == Top[2]

-----------------------------------------------------------------------------
(* Defer: the chain of deferrers.  A deferrer started twice would make the *)
(* list of deferrers a cycle.                                              *)

StartDefer(m) ==
  IF chain = <<>>
  THEN /\ chain' = <<m>>
       /\ chainSlot' = slot
       /\ peeking' = TRUE
       /\ UNCHANGED failed
  ELSE /\ chain' = Append(chain, m)
       /\ failed' = (chainSlot # slot \/ Contains(chain, m))
       /\ UNCHANGED <<chainSlot, peeking>>

Place(m) == CHOOSE i \in DOMAIN chain : chain[i] = m
Unlink(m) ==
  chain' = IF Contains(chain, m) THEN RemoveAt(chain, Place(m)) ELSE chain

(* Faulty: the slot and the mode of the event queue are left as they are.  *)
StopDeferInLuaOnly(m) ==
  /\ Unlink(m)
  /\ failed' = ~ Contains(chain, m)
  /\ UNCHANGED <<chainSlot, peeking>>

StopDefer(m) ==
  /\ Unlink(m)
  /\ failed' = ~ Contains(chain, m)
  /\ chainSlot' = IF chain' = <<>> THEN NoSlot ELSE chainSlot
  /\ peeking' = (peeking /\ chain' # <<>>)

-----------------------------------------------------------------------------
(* Timers.  A timeout that was posted before the timer is stopped or       *)
(* started again stays posted.                                             *)

StartTimer(m) ==
  /\ expected' = expected \cup {m}
  /\ running' = running \cup {m}
  /\ UNCHANGED posted

StopTimer(m) ==
  /\ expected' = expected \ {m}
  /\ running' = running \ {m}
  /\ UNCHANGED posted

(* _tmo_key_timer(), from the interrupt.                                   *)
Expire(m) ==
  /\ ~ failed
  /\ m \in running
  /\ running' = running \ {m}
  /\ posted' = IF Contains(posted, m) THEN posted ELSE Append(posted, m)
  /\ UNCHANGED <<mapVars, slot, deferVars, expected, calls, failed, queueVars,
                 sent, worldVars>>

(* Faulty: every timeout is taken for an expected one.                     *)
IsExpectedAlways(m) == TRUE

IsExpected(m) == m \in expected

(* _hdlr_timeout(), of a one-shot timer.                                   *)
HandleTimeout ==
  /\ Idle
  /\ posted # <<>>
  /\ posted' = Tail(posted)
  /\ calls' = IF IsExpected(Head(posted))
              THEN <<<<"timeout", Head(posted)>>, <<"unref", Head(posted)>>>>
              ELSE <<>>
  /\ UNCHANGED <<mapVars, slot, deferVars, expected, running, failed,
                 queueVars, sent, worldVars>>

Unref ==
  /\ Doing("unref")
  /\ expected' = expected \ {Self}
  /\ Call(<<>>)
  /\ UNCHANGED <<mapVars, slot, deferVars, running, posted, failed, queueVars,
                 sent, worldVars>>

-----------------------------------------------------------------------------
(* Base:_press() and _release(), and Proxy's: only the first press and the *)
(* last release count.                                                     *)

Press(m) == <<"press", m>>
Release(m) == <<"release", m>>

Pressing(class) ==
  /\ Doing("press")
  /\ Class[Self] = class
  /\ count' = [count EXCEPT ![Self] = @ + 1]
  /\ count'[Self] = 1

Releasing(class) ==
  /\ Doing("release")
  /\ Class[Self] = class
  /\ count' = [count EXCEPT ![Self] = @ - 1]
  /\ count'[Self] = 0

JustCounts ==
  /\ \/ /\ Doing("press")
        /\ count' = [count EXCEPT ![Self] = @ + 1]
        /\ count'[Self] # 1
     \/ /\ Doing("release")
        /\ count' = [count EXCEPT ![Self] = @ - 1]
        /\ count'[Self] # 0
  /\ Call(<<>>)
  /\ UNCHANGED <<modified, chosen, step, finished, mySlot, slot, deferVars,
                 timerVars, failed, queueVars, sent, worldVars>>

(* What a method that only calls others leaves alone.                      *)
OnlyCalls ==
  UNCHANGED <<chosen, step, finished, mySlot, slot, deferVars, timerVars,
              queueVars, sent, worldVars>>

PseudoPress ==
  /\ Pressing("Pseudo") \/ Releasing("Pseudo")
  /\ Call(<<>>)
  /\ UNCHANGED <<modified, failed>>
  /\ OnlyCalls

LitSends ==
  /\ \/ Pressing("Lit") /\ sent' = sent \cup {Self}
     \/ Releasing("Lit") /\ sent' = sent \ {Self}
  /\ Call(<<>>)
  /\ UNCHANGED <<modified, chosen, step, finished, mySlot, slot, deferVars,
                 timerVars, failed, queueVars, worldVars>>

OneShotTaps ==
  /\ \/ Pressing("OneShot")
        /\ Call(<<Press(Child[Self][1]), Release(Child[Self][1])>>)
     \/ Releasing("OneShot") /\ Call(<<>>)
  /\ UNCHANGED <<modified, failed>>
  /\ OnlyCalls

-----------------------------------------------------------------------------
(* Modifier and ModIf.                                                     *)

IsPressed(m) == count[m] > 0
Undoes(m) == "UNDO_MODIFIER" \in Flavor[m]

ModIfPress ==
  /\ Pressing("ModIf")
  /\ failed' = (Self \in modified)
  /\ \/ /\ IsPressed(Modifier(Self))
        /\ modified' = modified \cup {Self}
        /\ Call((IF Undoes(Self) THEN <<Release(Modifier(Self))>> ELSE <<>>)
                \o <<Press(Modified(Self))>>)
     \/ /\ ~ IsPressed(Modifier(Self))
        /\ UNCHANGED modified
        /\ Call(<<Press(Original(Self))>>)
  /\ OnlyCalls

(* Faulty: asks for the modifier again.                                    *)
WasModifiedAsksAgain(m) == IsPressed(Modifier(m))

WasModified(m) == m \in modified

ModIfRelease ==
  /\ Releasing("ModIf")
  /\ modified' = modified \ {Self}
  /\ IF WasModified(Self)
     THEN Call(<<Release(Modified(Self))>>
               \o IF Undoes(Self) THEN <<Press(Modifier(Self))>> ELSE <<>>)
     ELSE Call(<<Release(Original(Self))>>)
  /\ UNCHANGED failed
  /\ OnlyCalls

-----------------------------------------------------------------------------
(* TapHold.                                                                *)

TapHoldPress ==
  /\ Pressing("TapHold")
  /\ mySlot' = [mySlot EXCEPT ![Self] = slot]
  /\ StartTimer(Self)
  /\ IF chosen[Self] # NoMap
     THEN failed' = TRUE /\ UNCHANGED deferVars
     ELSE StartDefer(Self)
  /\ Call(<<>>)
  /\ UNCHANGED <<modified, chosen, step, finished, slot, queueVars, sent,
                 worldVars>>

Decide(m, map) == <<"decide", m, map>>

(* help_decide(), up to the press of the keymap chosen, and after it.      *)
HelpDecide ==
  /\ Doing("decide")
  /\ StopTimer(Self)
  /\ StopDefer(Self)
  /\ slot' = mySlot[Self]
  /\ Call(<<Press(Top[3]), <<"decided", Self, Top[3], slot>>>>)
  /\ UNCHANGED <<mapVars, queueVars, sent, worldVars>>

Decided ==
  /\ Doing("decided")
  /\ slot' = Top[4]
  /\ chosen' = [chosen EXCEPT ![Self] = Top[3]]
  /\ Call(<<>>)
  /\ UNCHANGED <<count, modified, step, finished, mySlot, deferVars, timerVars,
                 failed, queueVars, sent, worldVars>>

TapHoldRelease ==
  /\ Releasing("TapHold")
  /\ Call((IF chosen[Self] = NoMap THEN <<Decide(Self, Tap(Self))>> ELSE <<>>)
          \o <<<<"let go", Self>>>>)
  /\ UNCHANGED <<modified, failed>>
  /\ OnlyCalls

LetGo ==
  /\ Doing("let go")
  /\ failed' = (chosen[Self] = NoMap)
  /\ Call(<<Release(chosen[Self]), <<"forget", Self>>>>)
  /\ UNCHANGED <<count, modified>>
  /\ OnlyCalls

Forget ==
  /\ Doing("forget")
  /\ chosen' = [chosen EXCEPT ![Self] = NoMap]
  /\ Call(<<>>)
  /\ UNCHANGED <<count, modified, step, finished, mySlot, slot, deferVars,
                 timerVars, failed, queueVars, sent, worldVars>>

TapHoldTimeout ==
  /\ Doing("timeout")
  /\ Class[Self] = "TapHold"
  /\ Call(<<Decide(Self, Hold(Self))>>)
  /\ UNCHANGED <<count, modified, failed>>
  /\ OnlyCalls

-----------------------------------------------------------------------------
(* TapDance and TapSeq.                                                    *)

(* m_map_tap[m_step], which may be nil.                                    *)
Tapped(m) == IF step[m] \in DOMAIN Child[m] THEN Child[m][step[m]] ELSE NoMap

TapSeqPress ==
  /\ Pressing("TapSeq")
  /\ step' = [step EXCEPT ![Self] = @ + 1]
  /\ mySlot' = [mySlot EXCEPT ![Self] = slot]
  /\ StartTimer(Self)
  /\ \/ /\ step'[Self] = 1 /\ Self \in finished
        /\ finished' = finished \ {Self}
        /\ StartDefer(Self)
        /\ Call(<<<<"tap", Self>>>>)
     \/ /\ step'[Self] \in 2 .. Len(Child[Self])
        /\ UNCHANGED <<finished, deferVars, failed>>
        /\ Call(<<Release(Tapped(Self)), <<"tap", Self>>>>)
     \/ /\ \/ step'[Self] = 1 /\ Self \notin finished
           \/ step'[Self] > Len(Child[Self])
        /\ failed' = TRUE
        /\ UNCHANGED <<calls, finished, deferVars>>
  /\ UNCHANGED <<modified, chosen, slot, queueVars, sent, worldVars>>

TapSeqTaps ==
  /\ Doing("tap")
  /\ failed' = (Tapped(Self) = NoMap)
  /\ Call(<<Press(Tapped(Self))>>
          \o IF step[Self] = Len(Child[Self]) THEN <<<<"finish", Self>>>>
             ELSE <<>>)
  /\ UNCHANGED <<count, modified>>
  /\ OnlyCalls

Finish ==
  /\ Doing("finish")
  /\ StopTimer(Self)
  /\ StopDefer(Self)
  /\ finished' = finished \cup {Self}
  /\ Call(<<>>)
  /\ UNCHANGED <<count, modified, chosen, step, mySlot, slot, queueVars, sent,
                 worldVars>>

(* TapSeq:on_release(), then m_step = 0, then the slot of before.          *)
EndDance(m) == <<<<"let off", m>>, <<"danced", m, slot>>>>

TapSeqLetsOff ==
  /\ Doing("let off")
  /\ failed' = (Tapped(Self) = NoMap)
  /\ Call(<<Release(Tapped(Self))>>)
  /\ UNCHANGED <<count, modified>>
  /\ OnlyCalls

TapSeqRelease ==
  /\ Releasing("TapSeq")
  /\ Call(IF Self \in finished THEN EndDance(Self) ELSE <<>>)
  /\ UNCHANGED <<modified, failed>>
  /\ OnlyCalls

TapDanceTimeout ==
  /\ Doing("timeout")
  /\ Class[Self] = "TapSeq"
  /\ StopDefer(Self)
  /\ finished' = finished \cup {Self}
  /\ IF IsPressed(Self)
     THEN Call(<<>>) /\ UNCHANGED slot
     ELSE Call(EndDance(Self)) /\ slot' = mySlot[Self]
  /\ UNCHANGED <<count, modified, chosen, step, mySlot, timerVars, queueVars,
                 sent, worldVars>>

Danced ==
  /\ Doing("danced")
  /\ step' = [step EXCEPT ![Self] = 0]
  /\ slot' = Top[3]
  /\ Call(<<>>)
  /\ UNCHANGED <<count, modified, chosen, finished, mySlot, deferVars,
                 timerVars, failed, queueVars, sent, worldVars>>

-----------------------------------------------------------------------------
(* Defer:_other_event(): the deferrers that are in the chain when it       *)
(* begins are told of the event, one after the other, until one of them    *)
(* lets it be executed at once.                                            *)

Execute(e) == IF e.press THEN Press(Table[e.slot]) ELSE Release(Table[e.slot])

(* fw.defer_is_pending(slot, true).                                        *)
PressIsPending(s) ==
  \E i \in 1 .. peeked : events[i] = [slot |-> s, press |-> TRUE]

ReleasesAtOnce(m, e) ==
  /\ Class[m] = "TapHold"
  /\ "QuickRelease" \in Flavor[m]
  /\ ~ e.press
  /\ ~ PressIsPending(slot)

Holds(m, e) ==
  (IF e.press THEN "HoldOnPress" ELSE "HoldOnRelease") \in Flavor[m]

Taps(m, e) ==
  /\ ~ Holds(m, e)
  /\ (IF e.press THEN "TapOnPress" ELSE "TapOnRelease") \in Flavor[m]

(* The deferrer told of an event, and the event.                           *)
Told == Head(Top[2])
OtherEvent == Top[3]
TellTheRest == <<"other", Tail(Top[2]), OtherEvent>>

Telling == Doing("other") /\ Top[2] # <<>>

AllTold ==
  /\ Doing("other")
  /\ Top[2] = <<>>
  /\ Call(<<>>)
  /\ UNCHANGED <<count, modified, failed>>
  /\ OnlyCalls

TapHoldTold ==
  /\ Telling
  /\ Class[Told] = "TapHold"
  /\ \/ /\ ReleasesAtOnce(Told, OtherEvent)
        /\ Call(<<Execute(OtherEvent), <<"remove last">>>>)
     \/ /\ ~ ReleasesAtOnce(Told, OtherEvent)
        /\ \/ /\ Holds(Told, OtherEvent)
              /\ Call(<<Decide(Told, Hold(Told)), TellTheRest>>)
           \/ /\ Taps(Told, OtherEvent)
              /\ Call(<<Decide(Told, Tap(Told)), TellTheRest>>)
           \/ /\ ~ Holds(Told, OtherEvent)
              /\ ~ Taps(Told, OtherEvent)
              /\ Call(<<TellTheRest>>)
  /\ UNCHANGED <<count, modified, failed>>
  /\ OnlyCalls

TapDanceTold ==
  /\ Telling
  /\ Class[Told] = "TapSeq"
  /\ IF OtherEvent.press
     THEN StopTimer(Told) /\ Call(<<<<"timeout", Told>>, TellTheRest>>)
     ELSE UNCHANGED timerVars /\ Call(<<TellTheRest>>)
  /\ UNCHANGED <<mapVars, slot, deferVars, failed, queueVars, sent, worldVars>>

-----------------------------------------------------------------------------
(* main_thread gets an event, as main_key_events returns it, and hands it  *)
(* to handle_key_event().                                                  *)

Available == IF peeking THEN peeked < Len(events) ELSE events # <<>>
Got == events[IF peeking THEN peeked + 1 ELSE 1]

Get ==
  IF peeking THEN peeked' = peeked + 1 /\ UNCHANGED events
             ELSE peeked' = 0 /\ events' = Tail(events)

(* A timeout event is handled before a key event.                          *)
HandleKeyEvent ==
  /\ Idle
  /\ posted = <<>>
  /\ Available
  /\ Get
  /\ slot' = Got.slot
  /\ calls' =
       IF chain = <<>> THEN <<Execute(Got)>>
       ELSE IF Got.slot = chainSlot THEN <<Execute(Got), <<"remove last">>>>
       ELSE <<<<"other", chain, Got>>>>
  /\ UNCHANGED <<mapVars, deferVars, timerVars, failed, sent, worldVars>>

RemoveLast ==
  /\ Doing("remove last")
  /\ IF peeked = 0 THEN UNCHANGED queueVars
     ELSE events' = RemoveAt(events, peeked) /\ peeked' = peeked - 1
  /\ Call(<<>>)
  /\ UNCHANGED <<mapVars, slot, deferVars, timerVars, failed, sent, worldVars>>

-----------------------------------------------------------------------------
(* The keys.                                                               *)

KeyPress(s) ==
  /\ Idle
  /\ s \notin down
  /\ taps < MaxTaps
  /\ taps' = taps + 1
  /\ down' = down \cup {s}
  /\ events' = Append(events, [slot |-> s, press |-> TRUE])
  /\ UNCHANGED <<mapVars, slot, deferVars, timerVars, calls, failed, peeked,
                 sent>>

KeyRelease(s) ==
  /\ Idle
  /\ s \in down
  /\ down' = down \ {s}
  /\ events' = Append(events, [slot |-> s, press |-> FALSE])
  /\ UNCHANGED <<mapVars, slot, deferVars, timerVars, calls, failed, peeked,
                 sent, taps>>

Next ==
  \/ JustCounts
  \/ PseudoPress
  \/ LitSends
  \/ OneShotTaps
  \/ ModIfPress
  \/ ModIfRelease
  \/ TapHoldPress
  \/ HelpDecide
  \/ Decided
  \/ TapHoldRelease
  \/ LetGo
  \/ Forget
  \/ TapHoldTimeout
  \/ TapSeqPress
  \/ TapSeqTaps
  \/ Finish
  \/ TapSeqLetsOff
  \/ TapSeqRelease
  \/ TapDanceTimeout
  \/ Danced
  \/ AllTold
  \/ TapHoldTold
  \/ TapDanceTold
  \/ HandleKeyEvent
  \/ RemoveLast
  \/ HandleTimeout
  \/ Unref
  \/ \E m \in Deferrers : Expire(m)
  \/ \E s \in Slots : KeyPress(s) \/ KeyRelease(s)

Spec == Init /\ [][Next]_vars

-----------------------------------------------------------------------------
(* Keymaps that do not disturb one another.                                *)

(* What m may press, and what presses it in turn.                          *)
Kids(m) == {Child[m][i] : i \in DOMAIN Child[m]}
Closed(S) == \A m \in S : Kids(m) \subseteq S
Within(X) ==
  {c \in Maps : \A S \in SUBSET Maps : X \subseteq S /\ Closed(S) => c \in S}

(* The deferrers that may end when they are told of a press, or of a       *)
(* release.                                                                *)
Acting(press) ==
  {m \in Deferrers :
     IF Class[m] = "TapSeq" THEN press
     ELSE Flavor[m] \cap (IF press THEN {"HoldOnPress", "TapOnPress"}
                          ELSE {"HoldOnRelease", "TapOnRelease"}) # {}}

(* What they may press then.                                               *)
Inner(press) == Within(UNION {Kids(m) : m \in Acting(press)})

(* The keymaps with no deferrer inside.                                    *)
Quiet == {c \in Maps : Within({c}) \cap Deferrers = {}}

(* No deferrer that ends upon an event presses one that does so as well,   *)
(* a modifier that is undone is no deferrer, and a dance has a first step. *)
Calm ==
  /\ \A press \in BOOLEAN : Acting(press) \cap Inner(press) = {}
  /\ \A m \in Of("ModIf") : Undoes(m) => Modifier(m) \in Quiet
  /\ \A m \in Of("TapSeq") : Child[m] # <<>>

-----------------------------------------------------------------------------
(* Properties.                                                             *)

(* No assertion of class.lua fails and no method is called on nil, which   *)
(* is a crash into DFU mode: a deferrer that stops is in the chain, one    *)
(* that starts has the chain's slot, no keymap is pressed in the middle of *)
(* what its last press began (class.lua:210, 335, 368, 520, 644).          *)
NeverAsserts == ~ failed

(* Between two events defer mode is on exactly while there are deferrers,  *)
(* and each of them has a timer that will end it: no key is withheld for   *)
(* ever (timer.cpp:88-127 against class.lua:403-437, 605-678).             *)
DeferrersWait ==
  Idle => /\ peeking = (chain # <<>>)
          /\ \A m \in Deferrers :
               Contains(chain, m) =>
                 m \in expected /\ (m \in running \/ Contains(posted, m))

(* When the keys are up, the events are handled and no timer is set, no    *)
(* keymap believes it is pressed, no key is down at the host, and every    *)
(* TapHold and TapSeq can begin again, whatever was nested in what and     *)
(* whichever decision was made while another was open (class.lua:61-716).  *)
RestIsClean ==
  Idle /\ events = <<>> /\ down = {} /\ running = {} /\ posted = <<>> =>
    /\ chain = <<>>
    /\ sent = {}
    /\ modified = {}
    /\ \A m \in Maps : count[m] = 0
    /\ \A m \in Of("TapHold") : chosen[m] = NoMap
    /\ finished = Of("TapSeq")
    /\ \A m \in Of("TapSeq") : step[m] = 0

=============================================================================
