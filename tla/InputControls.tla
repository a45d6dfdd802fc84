---------------------------- MODULE InputControls ----------------------------
(***************************************************************************)
(* The buttons, from their contacts to the factory reset: the input task     *)
(* with its ButtonTrackers (input_manager.cpp, input_logic.cpp), its queue,  *)
(* and the application's loop that gives the gestures their meaning          *)
(* (application.cpp) on the screen of the moment (ui_controller.cpp).        *)
(*                                                                         *)
(* Times are ages: differences of the millisecond clock, which wraps, as the *)
(* code takes them.  The tracker of the encoder and the touch panel of the   *)
(* other board are left out; a turn comes at any time.                      *)
(***************************************************************************)
EXTENDS Naturals, Sequences

CONSTANTS
    Debounce,        \* ButtonTiming: debounceMs
    LongPress,       \* longPressMs of each button
    RepeatDelay,     \* repeatDelayMs and repeatIntervalMs
    RepeatInterval,
    ResetHold,       \* kFactoryResetHoldMs
    InputRoom,       \* length of the input queue
    PassEvents,      \* how many gestures one pass of the loop handles (16)
    Items,           \* kSettingsItemCount; the last one is the factory reset
    Hands            \* what the user works: buttons, the screen it starts on, and as a bound
                     \* of this model how often contacts close

Buttons == {"knob", "left", "right", "menu"}
Chord == {"left", "right", "menu"}
Repeating == {"left", "right"}

ASSUME InputAssumption ==
    /\ Debounce \in Nat \ {0} /\ LongPress \in [Buttons -> Nat \ {0}]
    /\ RepeatDelay \in Nat /\ RepeatInterval \in Nat \ {0} /\ ResetHold \in Nat \ {0}
    /\ InputRoom \in Nat \ {0} /\ PassEvents \in Nat \ {0} /\ Items \in Nat \ {0}
    /\ Hands \subseteq [buttons : SUBSET Buttons,
                        screen : {"playing", "device", "settings", "about"}, closings : Nat]

VARIABLES
    hands,           \* the one of Hands
    contact,         \* is the contact closed
    closings,        \* how many have closed so far
    tracker,         \* the ButtonTrackers
    events,          \* the input queue
    turn,            \* how many gestures the loop's pass may still handle; 0 between passes
    panel,           \* screen, settings item and confirmation of the application
    countdown,       \* ms since factoryResetChordStartedAtMs_, or Off
    reset,           \* how the device was reset, or "no"
    held, pass,      \* history: ms since the chord is down, and since the last pass
    late             \* history: a pass in the countdown took longer than Debounce

inputVars == <<hands, contact, closings, tracker, events, turn, panel, countdown, reset, held, pass, late>>

Off == ResetHold + 1
Nobody == <<"nobody", 0>>
Lowest(m, n) == IF m < n THEN m ELSE n

Released == [raw |-> FALSE, since |-> 0, stable |-> FALSE, age |-> 0, long |-> FALSE,
             wait |-> 0, press |-> 0]
FirstPanel == [screen |-> hands.screen, before |-> "playing", item |-> 0, armed |-> FALSE,
               armedBy |-> Nobody, confirmedBy |-> Nobody]

InputInit ==
    /\ hands \in Hands
    /\ contact = [b \in Buttons |-> FALSE] /\ closings = 0
    /\ tracker = [b \in Buttons |-> Released]
    /\ events = <<>> /\ turn = 0 /\ panel = FirstPanel /\ countdown = Off /\ reset = "no"
    /\ held = 0 /\ pass = 0 /\ late = FALSE
-----------------------------------------------------------------------------
(* The user, whose contacts bounce. *)
Contact(b) ==
    /\ b \in hands.buttons /\ (contact[b] \/ closings < hands.closings)
    /\ contact' = [contact EXCEPT ![b] = ~@]
    /\ closings' = IF contact[b] THEN closings ELSE closings + 1
    /\ UNCHANGED <<hands, tracker, events, turn, panel, countdown, reset, held, pass, late>>

(* publish: what finds the queue full is lost. *)
Published(new) == SubSeq(events \o new, 1, Lowest(Len(events \o new), InputRoom))

Turn ==
    /\ "knob" \in hands.buttons
    /\ events' = Published(<<[control |-> "turn", gesture |-> "rotate", press |-> 0]>>)
    /\ UNCHANGED <<hands, contact, closings, tracker, turn, panel, countdown, reset, held, pass, late>>
-----------------------------------------------------------------------------
(* ButtonTracker::update, a millisecond after the last one.  An age that is   *)
(* not read before it starts anew is 0.                                     *)
Sampled(t, pressed) ==
    [t EXCEPT !.raw = pressed,
              !.since = IF pressed # t.raw \/ pressed = t.stable THEN 0 ELSE t.since + 1,
              !.age = IF t.stable /\ ~t.long THEN t.age + 1 ELSE 0,
              !.wait = IF t.wait = 0 THEN 0 ELSE t.wait - 1]

Settles(t) == t.raw # t.stable /\ t.since >= Debounce

(* Presses of the knob, which alone confirms, are told apart by a number. *)
Pressed(b, t) ==
    [t EXCEPT !.stable = TRUE, !.since = 0, !.press = IF b = "knob" THEN closings ELSE 0,
              !.wait = IF b \in Repeating THEN LongPress[b] + RepeatDelay ELSE 0]

(* A slip: that the press was long is forgotten. *)
HeldAgain(b, t) == IF t.age >= LongPress[b] THEN [t EXCEPT !.age = 0] ELSE t
Holds(b, t) ==
    CASE t.age >= LongPress[b] -> [t EXCEPT !.long = TRUE, !.age = 0]
      [] t.long /\ b \in Repeating /\ t.wait = 0 -> [t EXCEPT !.wait = RepeatInterval]
      [] OTHER -> t

Updated(b) ==
    LET t == Sampled(tracker[b], contact[b])
    IN  IF ~Settles(t) THEN Holds(b, t) ELSE IF t.raw THEN Pressed(b, t) ELSE Released

(* The signal of an update: none, but at a release or while the button is    *)
(* held.                                                                    *)
Signal(b) ==
    LET t == Sampled(tracker[b], contact[b])
    IN  IF Settles(t) THEN IF t.raw \/ t.long THEN "none" ELSE "short"
        ELSE IF t.age >= LongPress[b] THEN "long"
        ELSE IF t.long /\ b \in Repeating /\ t.wait = 0 THEN "repeat" ELSE "none"

Sent(b) ==
    IF Signal(b) = "none" THEN <<>>
    ELSE <<[control |-> b, gesture |-> Signal(b), press |-> tracker[b].press]>>
Signals == Sent("knob") \o Sent("left") \o Sent("right") \o Sent("menu")

ChordActive == \A b \in Chord : tracker[b].stable

(* A millisecond passes, and the input task polls.  It has the higher        *)
(* priority on the core, so that the loop does not keep it from polling.     *)
PollButtons ==
    /\ reset = "no"
    /\ tracker' = [b \in Buttons |-> Updated(b)]
    /\ events' = Published(Signals)
    /\ countdown' = IF countdown = Off THEN Off ELSE Lowest(countdown + 1, ResetHold)
    /\ held' = IF ChordActive /\ ChordActive' THEN Lowest(held + 1, ResetHold) ELSE 0
    /\ pass' = IF countdown = Off THEN 0 ELSE Lowest(pass + 1, Debounce + 1)
    /\ UNCHANGED <<hands, contact, closings, turn, panel, reset, late>>
-----------------------------------------------------------------------------
(* handleCommand, as far as it concerns the screens and the settings.        *)
Disarmed(p) == [p EXCEPT !.armed = FALSE, !.armedBy = Nobody]
NextScreen(p) ==
    [Disarmed(p) EXCEPT
              !.screen = CASE @ = "playing" -> "device" [] @ = "device" -> "settings"
                           [] @ = "settings" -> "about" [] OTHER -> "playing"]
(* The confirmation stays. *)
ToggleActions(p) ==
    IF p.screen = "actions" THEN [p EXCEPT !.screen = p.before]
    ELSE [p EXCEPT !.screen = "actions", !.before = p.screen]

Confirmation(p, e) == [p EXCEPT !.armed = TRUE, !.armedBy = <<e.control, e.press>>]
ChangeSetting(p, e) ==
    IF p.item = Items - 1 THEN Confirmation(p, e) ELSE Disarmed(p)
(* performFactoryReset fails when the flash refuses.                         *)
RequestFactoryReset(p, e, refuses) ==
    CASE ~p.armed -> Confirmation(p, e)
      [] p.armed /\ refuses -> Disarmed(p)
      [] OTHER -> [p EXCEPT !.confirmedBy = <<e.control, e.press>>]

SettingsInput(p, e, refuses) ==
    CASE e.control = "turn" -> [Disarmed(p) EXCEPT !.item = (@ + 1) % Items]
      [] e.control = "knob" /\ e.gesture = "long" -> RequestFactoryReset(p, e, refuses)
      [] e.control = "knob" /\ e.gesture = "short" -> ChangeSetting(p, e)
      [] e.control \in {"left", "right"} /\ e.gesture # "long" -> ChangeSetting(p, e)
      [] OTHER -> p

Handle(p, e, refuses) ==
    CASE e.control = "menu" /\ e.gesture = "short" -> NextScreen(p)
      [] e.control = "menu" /\ e.gesture = "long" -> ToggleActions(p)
      [] e.control # "menu" /\ p.screen = "settings" -> SettingsInput(p, e, refuses)
      [] OTHER -> p                                            \* for the player

(* A pass of the loop ends when it finds the queue empty, or at its limit.    *)
PassOver == reset = "no" /\ (turn = 0 \/ events = <<>>)

(* handleFactoryResetChord, while the chord is down. *)
ChordPass ==
    /\ PassOver /\ ChordActive
    /\ events' = <<>> /\ turn' = 0
    /\ pass' = 0 /\ late' = (countdown # Off /\ (late \/ pass > Debounce))
    /\ \/ countdown = ResetHold /\ reset' = "chord" /\ UNCHANGED <<panel, countdown>>
       \/ countdown = ResetHold /\ countdown' = Off /\ panel' = Disarmed(panel) /\ UNCHANGED reset
       \/ /\ countdown # ResetHold
          /\ countdown' = IF countdown = Off THEN 0 ELSE countdown
          /\ UNCHANGED <<panel, reset>>
    /\ UNCHANGED <<hands, contact, closings, tracker, held>>

(* While it is not, the pass goes on to the queue. *)
InputPass ==
    /\ PassOver /\ ~ChordActive
    /\ turn' = IF events = <<>> THEN 0 ELSE PassEvents
    /\ pass' = 0 /\ late' = FALSE /\ countdown' = Off
    /\ UNCHANGED <<hands, contact, closings, tracker, events, panel, reset, held>>

(* consumeInput takes one gesture; the input task may go on in between. *)
HandleInput ==
    /\ reset = "no" /\ turn > 0 /\ events # <<>>
    /\ events' = Tail(events) /\ turn' = turn - 1
    /\ \E refuses \in BOOLEAN : panel' = Handle(panel, Head(events), refuses)
    /\ reset' = IF panel'.confirmedBy = Nobody THEN "no" ELSE "settings"
    /\ UNCHANGED <<hands, contact, closings, tracker, countdown, held, pass, late>>

(* The device restarts, and the user lets go. *)
Restart ==
    /\ reset # "no"
    /\ contact' = [b \in Buttons |-> FALSE] /\ closings' = 0
    /\ tracker' = [b \in Buttons |-> Released]
    /\ events' = <<>> /\ turn' = 0 /\ panel' = FirstPanel /\ countdown' = Off /\ reset' = "no"
    /\ held' = 0 /\ pass' = 0 /\ late' = FALSE
    /\ UNCHANGED hands

InputNext ==
    \/ (\E b \in Buttons : Contact(b)) \/ Turn \/ PollButtons
    \/ ChordPass \/ InputPass \/ HandleInput \/ Restart

InputSpec == InputInit /\ [][InputNext]_inputVars
-----------------------------------------------------------------------------
(* Type invariant. *)
InputTypeOK ==
    /\ contact \in [Buttons -> BOOLEAN] /\ closings \in 0 .. hands.closings
    /\ \A b \in Buttons :
          /\ tracker[b].since \in 0 .. Debounce - 1 /\ tracker[b].age \in 0 .. LongPress[b] - 1
          /\ tracker[b].wait \in 0 .. LongPress[b] + RepeatDelay + RepeatInterval
          /\ tracker[b].press \in 0 .. closings
    /\ Len(events) <= InputRoom /\ turn \in 0 .. PassEvents /\ panel.item \in 0 .. Items - 1
    /\ countdown \in 0 .. Off /\ reset \in {"no", "chord", "settings"}
    /\ held \in 0 .. ResetHold /\ pass \in 0 .. Debounce + 1

(* The device forgets everything only when somebody means it                 *)
(* (TROUBLESHOOTING.md, "Settings reset is intentionally difficult to        *)
(* trigger").  On the settings screen the hold that confirms is never the    *)
(* press that was answered with the question, however it bounces, repeats or *)
(* waits in the queue.  With the chord, all three buttons were down for      *)
(* ResetHold without a break, unless a pass of the loop takes longer than a  *)
(* button needs to be released and pressed again.                           *)
ResetIsDeliberate ==
    /\ reset = "settings" => panel.armedBy # panel.confirmedBy
    /\ reset = "chord" /\ ~late => held >= ResetHold
=============================================================================
