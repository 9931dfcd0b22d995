---------------------------- MODULE KeysManager ----------------------------
(***************************************************************************)
(* Text entry with a telephone keypad: src/qt/qkeywin/KeysManager.cpp, the *)
(* main window that starts editing (MainWindow.cpp), the panel of soft     *)
(* buttons (KbdWidget.cpp) and the modal dialog, which has a KeysManager   *)
(* of its own.  A key is pressed, repeats and is released; the window that *)
(* has the keyboard gets the event.  A press restarts the one second       *)
(* timer, and the timer both releases the keys and commits the symbol that *)
(* repeated presses of one key have selected.                              *)
(*                                                                         *)
(* Keys are the numbers of KeysManager::Key.  A symbol is <<key, index in  *)
(* sSymbols, upper case>>.  The text of an editor is the set of the        *)
(* symbols committed to it.                                                *)
(***************************************************************************)
EXTENDS Naturals, Sequences, FiniteSets

CONSTANTS Keys,         \* the keys that are pressed, a subset of Key
          MaxPresses,   \* bound on presses and repeats
          MaxDown       \* bound on the keys held at once

KEY_9 == 9
KEY_OK == 11
KEY_K1 == 12
KEY_K2 == 13
KEY_K3 == 14
KEY_K4 == 15
KEY_K5 == 16
KEY_PTT == 17
KEY_CALL == 18
KEY_UNKNOWN == 19

Key == 0 .. KEY_CALL

(* The keys whose release has a signal of its own.                         *)
emitters_release == {KEY_PTT, KEY_CALL}

ASSUME KeysAssumption ==
    Keys \subseteq Key /\ MaxPresses \in Nat /\ MaxDown \in Nat

VARIABLES
    editor,         \* the widget being edited, or "none"
    flShift, flDigits,
    currentAlphaKey, numAlphaSyms, currentSym,
    keysPressed,    \* per manager: the keys it takes for pressed
    timerId,        \* per manager: the one second timer runs
    writable,       \* the widgets that are not read-only
    panel,          \* KbdWidget: page, visible buttons, state of the shift button
    steps,          \* connections from the up and down buttons to the spin box
    text,           \* per widget: the symbols committed
    modal,          \* the dialog is open
    down,           \* the keys physically held
    onAir,          \* <<manager, PTT or CALL>>: onKey emitted and onRelease not yet
    taps,           \* history: the alpha keys since the last commit or timer
    presses

edit == <<editor, flShift, flDigits, writable, panel, steps>>
tap == <<currentAlphaKey, numAlphaSyms, currentSym, taps>>
vars == <<edit, tap, keysPressed, timerId, text, modal, down, onAir, presses>>

Widgets == {"lineEdit", "textEdit", "lineEditDigits", "spinBox"}
Managers == {"window", "dialog"}             \* KeysManager::get makes one per window
slaveButtons == 0 .. KEY_9                   \* of the main window
digits == {"lineEditDigits", "spinBox"}      \* property "digits" of MainWindow.ui

sSymbols(key) == CASE key = 0 -> 2 [] key = 1 -> 4 [] key \in 2 .. KEY_9 -> 5 [] OTHER -> 1

TypeOK ==
    /\ editor \in Widgets \union {"none"}
    /\ flShift \in BOOLEAN /\ flDigits \in BOOLEAN
    /\ currentAlphaKey \in Keys \union {KEY_UNKNOWN}
    /\ numAlphaSyms \in 0 .. 5 /\ currentSym \in 0 .. 5
    /\ keysPressed \in [Managers -> SUBSET Keys]
    /\ timerId \in [Managers -> BOOLEAN]
    /\ writable \subseteq Widgets
    /\ panel.page \in {"pageMain", "pageEdit"} /\ panel.shiftChecked \in BOOLEAN
    /\ panel.shown \subseteq {"ok", "cancel", "shift", "up", "down"}
    /\ steps \in 0 .. 1
    /\ \A w \in Widgets : \A s \in text[w] :
          s[1] \in Keys /\ s[1] <= KEY_OK /\ s[2] \in 0 .. 4 /\ s[3] \in BOOLEAN
    /\ modal \in BOOLEAN /\ down \subseteq Keys
    /\ onAir \subseteq Managers \X emitters_release
    /\ taps \in Seq(Keys) /\ presses \in 0 .. MaxPresses

(* The constructor of KbdWidget: the main page, the edit buttons hidden.   *)
NewPanel == [page |-> "pageMain", shown |-> {}, shiftChecked |-> FALSE]

(* Both managers are fresh, setEditButtons has hidden the edit buttons.    *)
Init ==
    /\ editor = "none" /\ flShift = FALSE /\ flDigits = FALSE
    /\ currentAlphaKey = KEY_UNKNOWN /\ numAlphaSyms = 0 /\ currentSym = 0
    /\ keysPressed = [m \in Managers |-> {}]
    /\ timerId = [m \in Managers |-> FALSE]
    /\ writable = {} /\ steps = 0
    /\ panel = NewPanel
    /\ text = [w \in Widgets |-> {}]
    /\ modal = FALSE /\ down = {} /\ onAir = {} /\ taps = <<>> /\ presses = 0

----------------------------------------------------------------------------
(* Editing.                                                                *)

(* The slot of KeysManager::onStartEdit and of onEditDone.                 *)
onStartEdit(p) == [p EXCEPT !.page = "pageEdit"]
onEditDone(p) == [p EXCEPT !.page = "pageMain"]

(* startEdit(w): ignored while another widget is being edited.  The        *)
(* pending symbol is left as it is.                                        *)
startEdit(w) ==
    IF editor # "none" THEN UNCHANGED edit
    ELSE /\ writable' = writable \union {w}
         /\ flShift' = FALSE
         /\ flDigits' = (w \in digits)
         /\ editor' = w
         /\ panel' = onStartEdit([panel EXCEPT !.shiftChecked = FALSE,
                !.shown = {"ok", "cancel"} \union (IF w \in digits THEN {} ELSE {"shift"})
                                           \union (IF w = "spinBox" THEN {"up", "down"} ELSE {})])
         /\ steps' = steps + (IF w = "spinBox" THEN 1 ELSE 0)

(* Mutant of stopEdit: the buttons stay connected.                         *)
stopEdit_connected ==
    /\ flShift' = FALSE
    /\ panel' = onEditDone([panel EXCEPT !.shiftChecked = FALSE, !.shown = {}])
    /\ writable' = writable \ {editor}
    /\ editor' = "none"
    /\ UNCHANGED <<flDigits, steps>>

(* stopEdit(ok): a stray call only resets the shift and hides buttons.     *)
stopEdit ==
    /\ flShift' = FALSE
    /\ IF editor = "none"
       THEN /\ panel' = [panel EXCEPT !.shiftChecked = FALSE,
                                      !.shown = @ \ {"ok", "cancel", "shift"}]
            /\ UNCHANGED <<editor, writable, steps>>
       ELSE /\ panel' = onEditDone([panel EXCEPT !.shiftChecked = FALSE,
                   !.shown = @ \ ({"ok", "cancel", "shift"} \union
                                  (IF editor = "spinBox" THEN {"up", "down"} ELSE {}))])
            /\ steps' = IF editor = "spinBox" THEN 0 ELSE steps
            /\ writable' = writable \ {editor}
            /\ editor' = "none"
    /\ UNCHANGED flDigits

(* setShift and doToggleShift: the signal onShift sets the button, whose   *)
(* toggled signal calls setShift with the value it already has.            *)
setShift(fl) ==
    /\ flShift' = fl
    /\ panel' = [panel EXCEPT !.shiftChecked = fl]
    /\ UNCHANGED <<editor, flDigits, writable, steps>>

doToggleShift == setShift(~flShift)

(* MainWindow::onKeyButtonClicked.  K5 animates a click on the button that *)
(* opens the dialog: ClickPushButton, at some later time.                  *)
onKeyButtonClicked(key) ==
    CASE key = KEY_K1 -> startEdit("lineEdit")
      [] key = KEY_K2 -> startEdit("textEdit")
      [] key = KEY_K3 -> startEdit("lineEditDigits")
      [] key = KEY_K4 -> startEdit("spinBox")
      [] OTHER -> UNCHANGED edit

(* Mutant of processAlphaKey: the index may reach the number of symbols.   *)
processAlphaKey_past_end(key) ==
    IF flDigits
    THEN /\ text' = [text EXCEPT ![editor] = @ \union {<<key, 0, TRUE>>}]
         /\ currentAlphaKey' = KEY_UNKNOWN /\ taps' = <<>>
         /\ UNCHANGED <<numAlphaSyms, currentSym>>
    ELSE /\ IF key # currentAlphaKey
            THEN numAlphaSyms' = sSymbols(key) /\ currentSym' = 0 /\ currentAlphaKey' = key
            ELSE /\ currentSym' = IF currentSym + 1 > numAlphaSyms THEN 0 ELSE currentSym + 1
                 /\ UNCHANGED <<numAlphaSyms, currentAlphaKey>>
         /\ taps' = Append(taps, key) /\ UNCHANGED text

(* processAlphaKey: digits are committed at once; otherwise the same key   *)
(* selects its next symbol and another key starts over, and what the       *)
(* former key had selected is forgotten.                                   *)
processAlphaKey(key) ==
    IF flDigits
    THEN /\ text' = [text EXCEPT ![editor] = @ \union {<<key, 0, TRUE>>}]
         /\ currentAlphaKey' = KEY_UNKNOWN
         /\ taps' = <<>>
         /\ UNCHANGED <<numAlphaSyms, currentSym>>
    ELSE /\ IF key # currentAlphaKey
            THEN /\ numAlphaSyms' = sSymbols(key)
                 /\ currentSym' = 0
                 /\ currentAlphaKey' = key
            ELSE /\ currentSym' = IF currentSym + 1 >= numAlphaSyms THEN 0 ELSE currentSym + 1
                 /\ UNCHANGED <<numAlphaSyms, currentAlphaKey>>
         /\ taps' = Append(taps, key)
         /\ UNCHANGED text

----------------------------------------------------------------------------
(* Key events.                                                             *)

Active == IF modal THEN "dialog" ELSE "window"

(* The keys of the window outside editing, and the keys above K5 always:   *)
(* the keys 0 to 9 click their slave button, the others are emitted.       *)
EmitKey(m, key, autorepeat) ==
    /\ onAir' = IF key \in emitters_release /\ ~autorepeat THEN onAir \union {<<m, key>>} ELSE onAir
    /\ modal' = (modal /\ (autorepeat \/ m = "window" \/ key \notin {KEY_K1, KEY_K2}))
    /\ IF m = "window" /\ ~autorepeat /\ key \notin slaveButtons
       THEN onKeyButtonClicked(key) ELSE UNCHANGED edit

(* processKeyPress of manager m.  Only the window's manager ever edits.    *)
processKeyPress(m, key, autorepeat) ==
    /\ timerId' = [timerId EXCEPT ![m] = TRUE]
    /\ keysPressed' = [keysPressed EXCEPT ![m] = @ \union {key}]
    /\ IF m = "window" /\ editor # "none" /\ key <= KEY_K5
       THEN /\ IF key <= KEY_OK THEN processAlphaKey(key) /\ UNCHANGED edit
               ELSE /\ UNCHANGED <<tap, text>>
                    /\ CASE ~autorepeat /\ key \in {KEY_K1, KEY_K2} -> stopEdit
                         [] ~autorepeat /\ key = KEY_K3 /\ ~flDigits -> doToggleShift
                         [] OTHER -> UNCHANGED edit
            /\ UNCHANGED <<onAir, modal>>
       ELSE /\ EmitKey(m, key, autorepeat)
            /\ UNCHANGED <<tap, text>>

(* processKeyRelease for every key of a set: by a release event, or by the *)
(* timer for all that are pressed.                                         *)
processKeyRelease(m, released) ==
    /\ keysPressed' = [keysPressed EXCEPT ![m] = @ \ released]
    /\ onAir' = onAir \ ({m} \X released)

Press(key) ==
    /\ presses < MaxPresses /\ key \notin down
    /\ Cardinality(down) < MaxDown
    /\ presses' = presses + 1
    /\ down' = down \union {key}
    /\ processKeyPress(Active, key, FALSE)

AutoRepeat(key) ==
    /\ presses < MaxPresses /\ key \in down
    /\ presses' = presses + 1
    /\ processKeyPress(Active, key, TRUE)
    /\ UNCHANGED down

(* The window that has the keyboard gets the release, which need not be    *)
(* the one that got the press.                                             *)
Release(key) ==
    /\ key \in down
    /\ down' = down \ {key}
    /\ processKeyRelease(Active, {key})
    /\ UNCHANGED <<edit, tap, timerId, text, modal, presses>>

(* Mutant of timerEvent: a pressed key is not released.                    *)
timerEvent_no_release(m) ==
    /\ timerId[m]
    /\ timerId' = [timerId EXCEPT ![m] = FALSE]
    /\ IF m = "window"
       THEN /\ text' = IF editor # "none" /\ currentAlphaKey <= KEY_9
                       THEN [text EXCEPT ![editor] =
                                @ \union {<<currentAlphaKey, currentSym, flShift>>}]
                       ELSE text
            /\ currentAlphaKey' = KEY_UNKNOWN /\ currentSym' = 0 /\ taps' = <<>>
            /\ UNCHANGED numAlphaSyms
       ELSE UNCHANGED <<text, tap>>
    /\ UNCHANGED <<edit, modal, down, presses, keysPressed, onAir>>

(* timerEvent: the keys taken for pressed are released, then the pending   *)
(* symbol goes to the widget being edited now.                             *)
timerEvent(m) ==
    /\ timerId[m]
    /\ timerId' = [timerId EXCEPT ![m] = FALSE]
    /\ processKeyRelease(m, keysPressed[m])
    /\ IF m = "window"
       THEN /\ text' = IF editor # "none" /\ currentAlphaKey <= KEY_9
                       THEN [text EXCEPT ![editor] =
                                @ \union {<<currentAlphaKey, currentSym, flShift>>}]
                       ELSE text
            /\ currentAlphaKey' = KEY_UNKNOWN
            /\ currentSym' = 0
            /\ taps' = <<>>
            /\ UNCHANGED numAlphaSyms
       ELSE UNCHANGED <<text, tap>>
    /\ UNCHANGED <<edit, modal, down, presses>>

----------------------------------------------------------------------------
(* The mouse, on what is visible and not blocked by the dialog.            *)

ClickButton ==
    /\ ~modal
    /\ \/ panel.shown \intersect {"ok", "cancel"} # {} /\ stopEdit
       \/ "shift" \in panel.shown /\ setShift(~panel.shiftChecked)
    /\ UNCHANGED <<tap, keysPressed, timerId, text, modal, down, onAir, presses>>

ClickPushButton ==
    /\ ~modal /\ modal' = TRUE
    /\ UNCHANGED <<edit, tap, keysPressed, timerId, text, down, onAir, presses>>

Next ==
    \/ \E key \in Keys : Press(key) \/ AutoRepeat(key) \/ Release(key)
    \/ \E m \in Managers : timerEvent(m)
    \/ ClickButton
    \/ ClickPushButton

Spec == Init /\ [][Next]_vars

(* The event loop delivers an expired timer.  Presses are bounded, so they *)
(* do not put the timer off for ever.                                      *)
FairSpec == Spec /\ \A m \in Managers : WF_vars(timerEvent(m))

----------------------------------------------------------------------------
(* Properties.                                                             *)

(* The pending symbol is the one that the number of presses of its key     *)
(* selects, whatever keys, editors and shifts came between, and the assert *)
(* of timerEvent holds: the index is below the number of symbols.          *)
SymFollowsTaps ==
    currentAlphaKey # KEY_UNKNOWN =>
        LET n == Len(taps)
            run == CHOOSE r \in 1 .. n :
                      /\ \A i \in n - r + 1 .. n : taps[i] = currentAlphaKey
                      /\ r < n => taps[n - r] # currentAlphaKey
        IN  /\ n > 0 /\ taps[n] = currentAlphaKey
            /\ currentSym = (run - 1) % sSymbols(currentAlphaKey)

(* Text entry stays consistent: types, and the symbol timerEvent commits.  *)
EntryInv == TypeOK /\ SymFollowsTaps

(* The soft panel, the shift button, the read-only flags and the up and    *)
(* down connections all belong to the widget being edited: exactly that    *)
(* widget is writable and a click on "up" steps the spin box once.         *)
ViewFollowsEditor ==
    /\ writable = {editor} \ {"none"}
    /\ panel.page = IF editor = "none" THEN "pageMain" ELSE "pageEdit"
    /\ panel.shown = IF editor = "none" THEN {}
                     ELSE {"ok", "cancel"} \union (IF editor \in digits THEN {} ELSE {"shift"})
                             \union (IF editor = "spinBox" THEN {"up", "down"} ELSE {})
    /\ panel.shiftChecked = flShift
    /\ editor # "none" => flDigits = (editor \in digits)
    /\ steps = IF editor = "spinBox" THEN 1 ELSE 0

(* Whatever waits for the timer comes to an end: a pending symbol is      *)
(* committed or dropped, and no key stays pressed.  A release that the     *)
(* dialog took from the window, or the window from the dialog, is made up  *)
(* for by the timer, so that PTT and CALL are released.                    *)
Waiting(m) == keysPressed[m] # {} \/ (\E key \in emitters_release : <<m, key>> \in onAir)
                 \/ (m = "window" /\ currentAlphaKey # KEY_UNKNOWN)
TimerSettles == \A m \in Managers : Waiting(m) ~> ~Waiting(m)

(* A digits-only widget gets digits only.  (It does not: a letter pending  *)
(* from the former editor is committed to it by the timer.)                *)
DigitsOnly == \A w \in digits : \A s \in text[w] : s[2] = 0
=============================================================================
