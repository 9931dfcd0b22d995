------------------------- MODULE KeysManagerProofs -------------------------
(***************************************************************************)
(* Proofs about KeysManager, for any keys, any number of presses and any   *)
(* number of keys held at once.                                            *)
(***************************************************************************)
EXTENDS KeysManager, SequenceTheorems, TLAPS

----------------------------------------------------------------------------
(* What a step does to the editor, and to the pending symbol               *)

(* The editor is left alone, or changes by one of the three operations.    *)
LEMMA EditSteps ==
  ASSUME [Next]_vars
  PROVE  \/ UNCHANGED edit \/ stopEdit
         \/ \E fl \in {~flShift, ~panel.shiftChecked} : setShift(fl)
         \/ \E w \in Widgets : startEdit(w)
<1> DEFINE Goal == \/ UNCHANGED edit \/ stopEdit
                   \/ \E fl \in {~flShift, ~panel.shiftChecked} : setShift(fl)
                   \/ \E w \in Widgets : startEdit(w)
<1>1. ASSUME NEW m, NEW key, NEW r, processKeyPress(m, key, r) PROVE Goal
  <2>1. CASE m = "window" /\ editor # "none" /\ key <= KEY_K5
    <3>1. UNCHANGED edit \/ stopEdit \/ doToggleShift
      BY <1>1, <2>1 DEF processKeyPress
    <3> QED BY <3>1 DEF doToggleShift
  <2>2. CASE ~(m = "window" /\ editor # "none" /\ key <= KEY_K5)
    <3>1. EmitKey(m, key, r)
      BY <1>1, <2>2 DEF processKeyPress
    <3>2. UNCHANGED edit \/ onKeyButtonClicked(key)
      BY <3>1 DEF EmitKey
    <3>3. onKeyButtonClicked(key) => UNCHANGED edit \/ \E w \in Widgets : startEdit(w)
      BY DEF onKeyButtonClicked, Widgets
    <3> QED BY <3>2, <3>3
  <2> QED BY <2>1, <2>2
<1>2. ASSUME NEW key \in Keys, Press(key) \/ AutoRepeat(key) PROVE Goal
  <2>1. \E m, r : processKeyPress(m, key, r)
    BY <1>2 DEF Press, AutoRepeat
  <2> HIDE DEF Goal
  <2> QED BY <1>1, <2>1
<1>3. ASSUME NEW key \in Keys, Release(key) PROVE UNCHANGED edit
  BY <1>3 DEF Release
<1>4. ASSUME NEW m \in Managers, timerEvent(m) PROVE UNCHANGED edit
  BY <1>4 DEF timerEvent
<1>5. CASE ClickButton
  BY <1>5 DEF ClickButton
<1>6. ASSUME ClickPushButton \/ UNCHANGED vars PROVE UNCHANGED edit
  BY <1>6 DEF ClickPushButton, vars
<1> QED BY <1>2, <1>3, <1>4, <1>5, <1>6 DEF Next

(* timerEvent of the window's manager: the pending symbol goes to the      *)
(* editor and the history starts over.                                     *)
Commits ==
    /\ text' = IF editor # "none" /\ currentAlphaKey <= KEY_9
               THEN [text EXCEPT ![editor] =
                        @ \union {<<currentAlphaKey, currentSym, flShift>>}]
               ELSE text
    /\ currentAlphaKey' = KEY_UNKNOWN /\ currentSym' = 0 /\ taps' = <<>>
    /\ UNCHANGED numAlphaSyms

(* The pending symbol is left alone, or changes by an alpha key or by the  *)
(* timer.                                                                  *)
LEMMA TapSteps ==
  ASSUME [Next]_vars
  PROVE  \/ UNCHANGED <<tap, text>>
         \/ Commits
         \/ \E key \in Keys : key <= KEY_OK /\ editor # "none" /\ processAlphaKey(key)
<1> DEFINE Goal == \/ UNCHANGED <<tap, text>>
                   \/ Commits
                   \/ \E key \in Keys : key <= KEY_OK /\ editor # "none" /\ processAlphaKey(key)
<1>1. ASSUME NEW m, NEW key \in Keys, NEW r, processKeyPress(m, key, r) PROVE Goal
  <2>1. CASE m = "window" /\ editor # "none" /\ key <= KEY_K5 /\ key <= KEY_OK
    BY <1>1, <2>1 DEF processKeyPress
  <2>2. CASE ~(m = "window" /\ editor # "none" /\ key <= KEY_K5 /\ key <= KEY_OK)
    <3>1. UNCHANGED <<tap, text>>
      BY <1>1, <2>2 DEF processKeyPress
    <3> QED BY <3>1
  <2> QED BY <2>1, <2>2
<1>2. ASSUME NEW key \in Keys, Press(key) \/ AutoRepeat(key) PROVE Goal
  <2>1. \E m, r : processKeyPress(m, key, r)
    BY <1>2 DEF Press, AutoRepeat
  <2> HIDE DEF Goal
  <2> QED BY <1>1, <2>1
<1>3. ASSUME NEW key \in Keys, Release(key) PROVE UNCHANGED <<tap, text>>
  BY <1>3 DEF Release
<1>4. ASSUME NEW m \in Managers, timerEvent(m) PROVE UNCHANGED <<tap, text>> \/ Commits
  BY <1>4 DEF timerEvent, Commits
<1>5. ASSUME ClickButton \/ ClickPushButton \/ UNCHANGED vars PROVE UNCHANGED <<tap, text>>
  BY <1>5 DEF ClickButton, ClickPushButton, vars
<1> QED BY <1>2, <1>3, <1>4, <1>5 DEF Next

----------------------------------------------------------------------------
(* The panel and the editor                                                *)

(***************************************************************************)
(* ViewFollowsEditor with the types that updating the panel needs.  It is  *)
(* inductive: the four operations reset what the former editor left, and   *)
(* a stray stopEdit finds nothing to hide.                                 *)
(***************************************************************************)
Panels == [page : {"pageMain", "pageEdit"}, shown : SUBSET {"ok", "cancel", "shift", "up", "down"},
           shiftChecked : BOOLEAN]

ViewInv ==
    /\ editor \in Widgets \union {"none"}
    /\ flShift \in BOOLEAN /\ flDigits \in BOOLEAN
    /\ panel \in Panels
    /\ ViewFollowsEditor

(* Every step preserves ViewInv.                                           *)
LEMMA ViewStep == ASSUME ViewInv, [Next]_vars PROVE ViewInv'
<1>0. /\ editor \in Widgets \union {"none"} /\ flShift \in BOOLEAN /\ flDigits \in BOOLEAN
      /\ panel \in Panels /\ ViewFollowsEditor
  BY DEF ViewInv
<1>1. CASE UNCHANGED edit
  BY <1>0, <1>1 DEF edit, ViewInv, ViewFollowsEditor
<1>2. ASSUME NEW fl \in BOOLEAN, setShift(fl) PROVE ViewInv'
  <2>1. flShift' = fl /\ UNCHANGED <<editor, flDigits, writable, steps>>
    BY <1>2 DEF setShift
  <2>2. /\ panel' \in Panels /\ panel'.page = panel.page /\ panel'.shown = panel.shown
        /\ panel'.shiftChecked = fl
    BY <1>0, <1>2 DEF setShift, Panels
  <2> QED BY <1>0, <2>1, <2>2 DEF ViewInv, ViewFollowsEditor
<1>3. CASE stopEdit
  <2>1. flShift' = FALSE /\ flDigits' = flDigits
    BY <1>3 DEF stopEdit
  <2>2. CASE editor = "none"
    <3>1. UNCHANGED <<editor, writable, steps>>
      BY <1>3, <2>2 DEF stopEdit
    <3>2. panel' = [panel EXCEPT !.shiftChecked = FALSE, !.shown = @ \ {"ok", "cancel", "shift"}]
      BY <1>3, <2>2 DEF stopEdit
    <3>3. /\ panel' \in Panels /\ panel'.page = panel.page
          /\ panel'.shown = panel.shown \ {"ok", "cancel", "shift"}
          /\ panel'.shiftChecked = FALSE
      BY <1>0, <3>2 DEF Panels
    <3>4. panel'.shown = {}
      BY <1>0, <2>2, <3>3 DEF ViewFollowsEditor
    <3> QED BY <1>0, <2>1, <2>2, <3>1, <3>3, <3>4 DEF ViewInv, ViewFollowsEditor
  <2>3. CASE editor # "none"
    <3> DEFINE gone == {"ok", "cancel", "shift"} \union
                       (IF editor = "spinBox" THEN {"up", "down"} ELSE {})
    <3>1. /\ editor' = "none" /\ writable' = writable \ {editor}
          /\ steps' = IF editor = "spinBox" THEN 0 ELSE steps
      BY <1>3, <2>3 DEF stopEdit
    <3>2. panel' = onEditDone([panel EXCEPT !.shiftChecked = FALSE, !.shown = @ \ gone])
      BY <1>3, <2>3 DEF stopEdit
    <3>3. /\ panel' \in Panels /\ panel'.page = "pageMain"
          /\ panel'.shown = panel.shown \ gone /\ panel'.shiftChecked = FALSE
      <4> HIDE DEF gone
      <4> QED BY <1>0, <3>2 DEF Panels, onEditDone
    <3>4. panel'.shown = {}
      BY <1>0, <2>3, <3>3 DEF ViewFollowsEditor
    <3>5. steps' = 0 /\ writable' = {}
      BY <1>0, <2>3, <3>1 DEF ViewFollowsEditor
    <3> QED BY <2>1, <3>1, <3>3, <3>4, <3>5 DEF ViewInv, ViewFollowsEditor
  <2> QED BY <2>2, <2>3
<1>4. ASSUME NEW w \in Widgets, startEdit(w) PROVE ViewInv'
  <2>1. CASE editor # "none"
    BY <1>1, <1>4, <2>1 DEF startEdit
  <2>2. CASE editor = "none"
    <3> DEFINE new == {"ok", "cancel"} \union (IF w \in digits THEN {} ELSE {"shift"})
                                       \union (IF w = "spinBox" THEN {"up", "down"} ELSE {})
    <3>1. /\ writable' = writable \union {w} /\ flShift' = FALSE /\ flDigits' = (w \in digits)
          /\ editor' = w /\ steps' = steps + (IF w = "spinBox" THEN 1 ELSE 0)
      BY <1>4, <2>2 DEF startEdit
    <3>2. panel' = onStartEdit([panel EXCEPT !.shiftChecked = FALSE, !.shown = new])
      BY <1>4, <2>2 DEF startEdit
    <3>3. new \subseteq {"ok", "cancel", "shift", "up", "down"}
      OBVIOUS
    <3>4. /\ panel' \in Panels /\ panel'.page = "pageEdit"
          /\ panel'.shown = new /\ panel'.shiftChecked = FALSE
      <4> HIDE DEF new
      <4> QED BY <1>0, <3>2, <3>3 DEF Panels, onStartEdit
    <3>5. w # "none" /\ steps = 0 /\ writable = {}
      BY <1>0, <2>2 DEF ViewFollowsEditor, Widgets
    <3>6. writable' = {w} \ {"none"} /\ steps' = IF w = "spinBox" THEN 1 ELSE 0
      BY <3>1, <3>5
    <3>7. flDigits' \in BOOLEAN /\ flDigits' = (editor' \in digits)
      BY <3>1
    <3>8. panel'.shown = IF editor' = "none" THEN {}
                     ELSE {"ok", "cancel"} \union (IF editor' \in digits THEN {} ELSE {"shift"})
                             \union (IF editor' = "spinBox" THEN {"up", "down"} ELSE {})
      BY <3>1, <3>4, <3>5
    <3>9. /\ writable' = {editor'} \ {"none"} /\ panel'.page = "pageEdit" /\ editor' # "none"
          /\ panel'.shiftChecked = flShift' /\ flShift' \in BOOLEAN
          /\ editor' \in Widgets \union {"none"}
          /\ steps' = IF editor' = "spinBox" THEN 1 ELSE 0
      BY <3>1, <3>4, <3>5, <3>6
    <3>10. ViewFollowsEditor'
      BY <3>7, <3>8, <3>9, Zenon DEF ViewFollowsEditor
    <3> QED BY <3>4, <3>7, <3>9, <3>10 DEF ViewInv
  <2> QED BY <2>1, <2>2
<1>5. (~flShift) \in BOOLEAN /\ (~panel.shiftChecked) \in BOOLEAN
  BY <1>0 DEF Panels
<1> QED BY <1>1, <1>2, <1>3, <1>4, <1>5, EditSteps

(***************************************************************************)
(* For every sequence of presses, releases, clicks and dialogs: the panel, *)
(* the shift button, the read-only flags and the connections of the up and *)
(* down buttons are those of the widget being edited.                      *)
(***************************************************************************)
THEOREM PanelFollowsEditor == Spec => []ViewFollowsEditor
<1>1. ASSUME Init PROVE ViewInv
  BY <1>1 DEF Init, ViewInv, ViewFollowsEditor, Panels, NewPanel
<1>2. ViewInv /\ [Next]_vars => ViewInv'
  BY ViewStep
<1>3. ViewInv => ViewFollowsEditor
  BY DEF ViewInv
<1> QED BY <1>1, <1>2, <1>3, PTL DEF Spec

----------------------------------------------------------------------------
(* The keys that are held                                                  *)

HeldInv ==
    /\ keysPressed \in [Managers -> SUBSET Keys]
    /\ timerId \in [Managers -> BOOLEAN]
    /\ modal \in BOOLEAN /\ down \subseteq Keys
    /\ onAir \subseteq Managers \X emitters_release
    /\ presses \in 0 .. MaxPresses

(* Every step preserves HeldInv.                                           *)
LEMMA HeldStep == ASSUME HeldInv, [Next]_vars PROVE HeldInv'
<1>0. /\ keysPressed \in [Managers -> SUBSET Keys] /\ timerId \in [Managers -> BOOLEAN]
      /\ modal \in BOOLEAN /\ down \subseteq Keys /\ onAir \subseteq Managers \X emitters_release
      /\ presses \in 0 .. MaxPresses /\ MaxPresses \in Nat
  BY KeysAssumption DEF HeldInv
<1>1. ASSUME NEW m \in Managers, NEW key \in Keys, NEW r \in BOOLEAN, processKeyPress(m, key, r)
      PROVE  /\ keysPressed' \in [Managers -> SUBSET Keys] /\ timerId' \in [Managers -> BOOLEAN]
             /\ modal' \in BOOLEAN /\ onAir' \subseteq Managers \X emitters_release
  <2>1. /\ timerId' = [timerId EXCEPT ![m] = TRUE]
        /\ keysPressed' = [keysPressed EXCEPT ![m] = @ \union {key}]
    BY <1>1 DEF processKeyPress
  <2>2. keysPressed' \in [Managers -> SUBSET Keys] /\ timerId' \in [Managers -> BOOLEAN]
    BY <1>0, <2>1
  <2>3. CASE UNCHANGED <<onAir, modal>>
    BY <1>0, <2>2, <2>3
  <2>4. CASE EmitKey(m, key, r)
    <3>1. onAir' = IF key \in emitters_release /\ ~r THEN onAir \union {<<m, key>>} ELSE onAir
      BY <2>4 DEF EmitKey
    <3>2. modal' = (modal /\ (r \/ m = "window" \/ key \notin {KEY_K1, KEY_K2}))
      BY <2>4 DEF EmitKey
    <3>3. modal' \in BOOLEAN
      BY <3>2
    <3>4. onAir' \subseteq Managers \X emitters_release
      BY <1>0, <3>1
    <3> QED BY <2>2, <3>3, <3>4
  <2> QED BY <1>1, <2>3, <2>4 DEF processKeyPress
<1>2. ASSUME NEW m \in Managers, NEW S, processKeyRelease(m, S)
      PROVE  /\ keysPressed' \in [Managers -> SUBSET Keys]
             /\ onAir' \subseteq Managers \X emitters_release
  BY <1>0, <1>2 DEF processKeyRelease
<1>3. Active \in Managers
  BY DEF Active, Managers
<1>4. ASSUME NEW key \in Keys, Press(key) \/ AutoRepeat(key) PROVE HeldInv'
  <2>1. \E r \in BOOLEAN : processKeyPress(Active, key, r)
    BY <1>4 DEF Press, AutoRepeat
  <2>2. presses < MaxPresses /\ presses' = presses + 1 /\ down' \subseteq Keys
    BY <1>0, <1>4 DEF Press, AutoRepeat
  <2>3. presses' \in 0 .. MaxPresses
    BY <1>0, <2>2
  <2> QED BY <1>1, <1>3, <2>1, <2>2, <2>3 DEF HeldInv
<1>5. ASSUME NEW key \in Keys, Release(key) PROVE HeldInv'
  <2>1. processKeyRelease(Active, {key}) /\ UNCHANGED <<timerId, modal, presses>> /\ down' \subseteq Keys
    BY <1>0, <1>5 DEF Release
  <2> QED BY <1>0, <1>2, <1>3, <2>1 DEF HeldInv
<1>6. ASSUME NEW m \in Managers, timerEvent(m) PROVE HeldInv'
  <2>1. /\ processKeyRelease(m, keysPressed[m]) /\ UNCHANGED <<modal, presses, down>>
        /\ timerId' = [timerId EXCEPT ![m] = FALSE]
    BY <1>6 DEF timerEvent
  <2>2. timerId' \in [Managers -> BOOLEAN]
    BY <1>0, <2>1
  <2> QED BY <1>0, <1>2, <2>1, <2>2 DEF HeldInv
<1>7. CASE ClickButton \/ ClickPushButton \/ UNCHANGED vars
  BY <1>0, <1>7 DEF ClickButton, ClickPushButton, vars, HeldInv
<1> QED BY <1>4, <1>5, <1>6, <1>7 DEF Next

----------------------------------------------------------------------------
(* The pending symbol                                                      *)

(* The last r taps are those of c, and the one before them is not.         *)
IsRun(t, c, r) ==
    /\ \A i \in Len(t) - r + 1 .. Len(t) : t[i] = c
    /\ r < Len(t) => t[Len(t) - r] # c

(***************************************************************************)
(* SymFollowsTaps in an inductive form: the run is named by an existential *)
(* quantifier, the number of symbols is that of the pending key, and the   *)
(* history is empty while no symbol is pending, so that a new key always   *)
(* starts a run of one.                                                    *)
(***************************************************************************)
TapInv ==
    /\ currentAlphaKey \in Keys \union {KEY_UNKNOWN}
    /\ taps \in Seq(Keys)
    /\ numAlphaSyms \in 0 .. 5 /\ currentSym \in 0 .. 4
    /\ currentAlphaKey = KEY_UNKNOWN => taps = <<>>
    /\ currentAlphaKey # KEY_UNKNOWN =>
          /\ currentAlphaKey <= KEY_OK
          /\ numAlphaSyms = sSymbols(currentAlphaKey)
          /\ \E r \in 1 .. Len(taps) : /\ IsRun(taps, currentAlphaKey, r)
                                       /\ currentSym = (r - 1) % sSymbols(currentAlphaKey)

(* A key has one, two, four or five symbols.                               *)
LEMMA SymbolCounts == \A key : sSymbols(key) \in {1, 2, 4, 5}
BY DEF sSymbols

(* The index after one more press, as processAlphaKey computes it.         *)
LEMMA NextSymbol ==
  ASSUME NEW r \in Nat \ {0}, NEW m \in {1, 2, 4, 5}
  PROVE  LET s == (r - 1) % m IN
         /\ s \in 0 .. 4 /\ s < m
         /\ r % m = IF s + 1 >= m THEN 0 ELSE s + 1
<1>1. CASE m = 1
  BY <1>1
<1>2. CASE m = 2
  BY <1>2
<1>3. CASE m = 4
  BY <1>3
<1>4. CASE m = 5
  BY <1>4
<1> QED BY <1>1, <1>2, <1>3, <1>4

(* There is only one run, so CHOOSE finds it.                              *)
LEMMA OneRun ==
  ASSUME NEW t \in Seq(Keys), NEW c, NEW r \in 1 .. Len(t), NEW q \in 1 .. Len(t),
         IsRun(t, c, r), IsRun(t, c, q)
  PROVE  r = q
<1>0. Len(t) \in Nat /\ r \in Nat /\ q \in Nat /\ r <= Len(t) /\ q <= Len(t)
  OBVIOUS
<1>1. ~(r < q)
  <2> SUFFICES ASSUME r < q PROVE FALSE
    OBVIOUS
  <2>1. r < Len(t) /\ Len(t) - r \in Len(t) - q + 1 .. Len(t)
    BY <1>0
  <2> QED BY <2>1 DEF IsRun
<1>2. ~(q < r)
  <2> SUFFICES ASSUME q < r PROVE FALSE
    OBVIOUS
  <2>1. q < Len(t) /\ Len(t) - q \in Len(t) - r + 1 .. Len(t)
    BY <1>0
  <2> QED BY <2>1 DEF IsRun
<1> QED BY <1>0, <1>1, <1>2

(* One more tap of the same key makes the run longer, another key starts   *)
(* one.                                                                    *)
LEMMA RunStep ==
  ASSUME NEW t \in Seq(Keys), NEW key \in Keys
  PROVE  LET u == Append(t, key) IN
         /\ u \in Seq(Keys) /\ Len(u) = Len(t) + 1
         /\ \A r \in 1 .. Len(t) : IsRun(t, key, r) => IsRun(u, key, r + 1)
         /\ \A c : c # key => (\A r \in 1 .. Len(t) : IsRun(t, c, r) => IsRun(u, key, 1))
         /\ t = <<>> => IsRun(u, key, 1)
<1> DEFINE u == Append(t, key)
           n == Len(t)
<1>1. /\ u \in Seq(Keys) /\ Len(u) = n + 1 /\ u[n + 1] = key /\ n \in Nat
      /\ \A i \in 1 .. n : u[i] = t[i]
  OBVIOUS
<1> HIDE DEF u, n
<1>2. ASSUME NEW r \in 1 .. n, IsRun(t, key, r) PROVE IsRun(u, key, r + 1)
  <2>1. /\ \A i \in n - r + 1 .. n : t[i] = key
        /\ r < n => t[n - r] # key
    BY <1>2 DEF IsRun, n
  <2>2. ASSUME NEW i \in Len(u) - (r + 1) + 1 .. Len(u) PROVE u[i] = key
    <3>1. i = n + 1 \/ (i \in n - r + 1 .. n /\ i \in 1 .. n)
      BY <1>1
    <3> QED BY <1>1, <2>1, <3>1
  <2>3. ASSUME r + 1 < Len(u) PROVE u[Len(u) - (r + 1)] # key
    <3>1. r < n /\ Len(u) - (r + 1) = n - r /\ n - r \in 1 .. n
      BY <1>1, <2>3
    <3> QED BY <1>1, <2>1, <3>1
  <2> QED BY <2>2, <2>3 DEF IsRun
<1>3. ASSUME n > 0 => t[n] # key PROVE IsRun(u, key, 1)
  <2>1. ASSUME NEW i \in Len(u) - 1 + 1 .. Len(u) PROVE u[i] = key
    <3>1. i = n + 1
      BY <1>1
    <3> QED BY <1>1, <3>1
  <2>2. ASSUME 1 < Len(u) PROVE u[Len(u) - 1] # key
    <3>1. n > 0 /\ Len(u) - 1 = n /\ n \in 1 .. n
      BY <1>1, <2>2
    <3> QED BY <1>1, <1>3, <3>1
  <2> QED BY <2>1, <2>2 DEF IsRun
<1>4. ASSUME NEW c, c # key, NEW r \in 1 .. n, IsRun(t, c, r) PROVE IsRun(u, key, 1)
  <2>1. n \in n - r + 1 .. n
    BY <1>1
  <2>2. t[n] = c
    BY <1>4, <2>1 DEF IsRun, n
  <2> QED BY <1>3, <1>4, <2>2
<1>5. ASSUME t = <<>> PROVE IsRun(u, key, 1)
  <2>1. n = 0
    BY <1>5 DEF n
  <2> QED BY <1>3, <2>1
<1> QED BY <1>1, <1>2, <1>4, <1>5 DEF u, n

(* Every step preserves TapInv.                                            *)
LEMMA TapStep == ASSUME TapInv, [Next]_vars PROVE TapInv'
<1>0. /\ currentAlphaKey \in Keys \union {KEY_UNKNOWN} /\ taps \in Seq(Keys)
      /\ numAlphaSyms \in 0 .. 5 /\ currentSym \in 0 .. 4
      /\ currentAlphaKey = KEY_UNKNOWN => taps = <<>>
  BY DEF TapInv
<1>1. Keys \subseteq 0 .. 18 /\ KEY_UNKNOWN \notin Keys
  BY KeysAssumption DEF Key, KEY_CALL, KEY_UNKNOWN
<1>2. <<>> \in Seq(Keys)
  OBVIOUS
<1>3. CASE UNCHANGED <<tap, text>>
  <2>1. UNCHANGED <<currentAlphaKey, numAlphaSyms, currentSym, taps>>
    BY <1>3 DEF tap
  <2> QED BY <2>1 DEF TapInv
<1>4. ASSUME currentAlphaKey' = KEY_UNKNOWN, taps' = <<>>, currentSym' \in 0 .. 4,
             UNCHANGED numAlphaSyms
      PROVE  TapInv'
  BY <1>0, <1>2, <1>4 DEF TapInv
<1>5. CASE Commits
  BY <1>4, <1>5 DEF Commits
<1>6. ASSUME NEW key \in Keys, key <= KEY_OK, processAlphaKey(key) PROVE TapInv'
  <2>1. CASE flDigits
    BY <1>0, <1>4, <1>6, <2>1 DEF processAlphaKey
  <2>2. CASE ~flDigits
    <3> DEFINE m == sSymbols(key)
    <3>0. taps' = Append(taps, key) /\ m \in {1, 2, 4, 5} /\ key # KEY_UNKNOWN
      BY <1>1, <1>6, <2>2, SymbolCounts DEF processAlphaKey
    <3>1. /\ taps' \in Seq(Keys) /\ Len(taps') = Len(taps) + 1 /\ Len(taps) \in Nat
          /\ \A r \in 1 .. Len(taps) : IsRun(taps, key, r) => IsRun(taps', key, r + 1)
          /\ \A c : c # key => (\A r \in 1 .. Len(taps) : IsRun(taps, c, r) => IsRun(taps', key, 1))
          /\ taps = <<>> => IsRun(taps', key, 1)
      BY <1>0, <3>0, RunStep
    <3>2. ASSUME currentAlphaKey' = key, numAlphaSyms' = m, currentSym' \in 0 .. 4,
                 NEW r \in 1 .. Len(taps'), IsRun(taps', key, r), currentSym' = (r - 1) % m
          PROVE  TapInv'
      <4>1. numAlphaSyms' \in 0 .. 5
        BY <3>0, <3>2
      <4> QED BY <1>6, <3>0, <3>1, <3>2, <4>1 DEF TapInv
    <3>3. CASE key # currentAlphaKey
      <4>1. currentAlphaKey' = key /\ numAlphaSyms' = m /\ currentSym' = 0
        BY <1>6, <2>2, <3>3 DEF processAlphaKey
      <4>2. IsRun(taps', key, 1)
        BY <1>0, <3>1, <3>3 DEF TapInv
      <4>3. 1 \in 1 .. Len(taps') /\ 0 = (1 - 1) % m
        BY <3>0, <3>1
      <4> QED BY <3>2, <4>1, <4>2, <4>3
    <3>4. CASE key = currentAlphaKey
      <4>1. /\ currentAlphaKey' = key /\ numAlphaSyms' = numAlphaSyms
            /\ currentSym' = IF currentSym + 1 >= numAlphaSyms THEN 0 ELSE currentSym + 1
        BY <1>6, <2>2, <3>4 DEF processAlphaKey
      <4>2. PICK r \in 1 .. Len(taps) : IsRun(taps, key, r) /\ currentSym = (r - 1) % m
        BY <3>0, <3>4 DEF TapInv
      <4>3. numAlphaSyms = m
        BY <3>0, <3>4 DEF TapInv
      <4>4. r \in Nat \ {0} /\ r + 1 \in 1 .. Len(taps') /\ (r + 1) - 1 = r
        BY <3>1
      <4> HIDE DEF m
      <4>5. currentSym' = r % m
        BY <3>0, <4>1, <4>2, <4>3, <4>4, NextSymbol
      <4>6. currentSym' \in 0 .. 4
        <5>1. (r - 1) % m \in 0 .. 4 /\ (r - 1) % m < m
          BY <3>0, <4>4, NextSymbol
        <5> QED BY <3>0, <4>1, <4>2, <4>3, <5>1
      <4>7. IsRun(taps', key, r + 1)
        BY <3>1, <4>2
      <4>8. currentSym' = ((r + 1) - 1) % m
        BY <4>4, <4>5
      <4> QED BY <3>2, <4>1, <4>3, <4>4, <4>6, <4>7, <4>8
    <3> QED BY <3>3, <3>4
  <2> QED BY <2>1, <2>2
<1> QED BY <1>3, <1>5, <1>6, TapSteps

----------------------------------------------------------------------------
(* The text                                                                *)

Symbols == {s \in Keys \X (0 .. 4) \X BOOLEAN : s[1] <= KEY_OK}

TextInv == text \in [Widgets -> SUBSET Symbols]

(* What a key or the timer commits is a symbol of an alpha key.            *)
LEMMA TextStep == ASSUME ViewInv, TapInv, TextInv, [Next]_vars PROVE TextInv'
<1>0. /\ editor \in Widgets \union {"none"} /\ flShift \in BOOLEAN
      /\ currentAlphaKey \in Keys \union {KEY_UNKNOWN} /\ currentSym \in 0 .. 4
      /\ text \in [Widgets -> SUBSET Symbols] /\ Keys \subseteq Nat
  BY KeysAssumption DEF ViewInv, TapInv, TextInv, Key
<1>1. ASSUME NEW s \in Symbols, editor # "none",
             text' = [text EXCEPT ![editor] = @ \union {s}]
      PROVE  TextInv'
  BY <1>0, <1>1 DEF TextInv
<1>2. CASE text' = text
  BY <1>2 DEF TextInv
<1>3. ASSUME NEW key \in Keys, key <= KEY_OK, editor # "none", processAlphaKey(key) PROVE TextInv'
  <2>0. 0 \in 0 .. 4 /\ TRUE \in BOOLEAN
    OBVIOUS
  <2>1. <<key, 0, TRUE>> \in Symbols
    <3>1. <<key, 0, TRUE>> \in Keys \X (0 .. 4) \X BOOLEAN
      BY <2>0, Zenon
    <3>2. <<key, 0, TRUE>>[1] = key
      OBVIOUS
    <3> QED BY <1>3, <3>1, <3>2, Zenon DEF Symbols
  <2> QED BY <1>1, <1>2, <1>3, <2>1 DEF processAlphaKey
<1>4. CASE Commits
  <2>1. CASE editor # "none" /\ currentAlphaKey <= KEY_9
    <3>1. currentAlphaKey \in Keys /\ currentAlphaKey <= KEY_OK
      BY <1>0, <2>1 DEF KEY_9, KEY_UNKNOWN, KEY_OK
    <3>2. <<currentAlphaKey, currentSym, flShift>> \in Symbols
      BY <1>0, <3>1 DEF Symbols
    <3>3. text' = [text EXCEPT ![editor] = @ \union {<<currentAlphaKey, currentSym, flShift>>}]
      BY <1>4, <2>1 DEF Commits
    <3> QED BY <1>1, <2>1, <3>2, <3>3
  <2>2. CASE ~(editor # "none" /\ currentAlphaKey <= KEY_9)
    BY <1>2, <1>4, <2>2 DEF Commits
  <2> QED BY <2>1, <2>2
<1> QED BY <1>2, <1>3, <1>4, TapSteps

(* The parts together imply what the run checks.                           *)
LEMMA EntryFromParts == ASSUME ViewInv, HeldInv, TapInv, TextInv PROVE EntryInv
<1>1. TypeOK
  <2>1. /\ editor \in Widgets \union {"none"} /\ flShift \in BOOLEAN /\ flDigits \in BOOLEAN
        /\ writable \subseteq Widgets /\ steps \in 0 .. 1
        /\ panel.page \in {"pageMain", "pageEdit"} /\ panel.shiftChecked \in BOOLEAN
        /\ panel.shown \subseteq {"ok", "cancel", "shift", "up", "down"}
    BY DEF ViewInv, ViewFollowsEditor, Panels
  <2>2. /\ currentAlphaKey \in Keys \union {KEY_UNKNOWN}
        /\ numAlphaSyms \in 0 .. 5 /\ currentSym \in 0 .. 5 /\ taps \in Seq(Keys)
    BY DEF TapInv
  <2>3. ASSUME NEW w \in Widgets, NEW s \in text[w]
        PROVE  s[1] \in Keys /\ s[1] <= KEY_OK /\ s[2] \in 0 .. 4 /\ s[3] \in BOOLEAN
    <3>1. s \in Symbols
      BY DEF TextInv
    <3> QED BY <3>1 DEF Symbols
  <2> QED BY <2>1, <2>2, <2>3 DEF TypeOK, HeldInv
<1>2. SymFollowsTaps
  <2> SUFFICES ASSUME currentAlphaKey # KEY_UNKNOWN PROVE SymFollowsTaps
    BY DEF SymFollowsTaps
  <2> DEFINE n == Len(taps)
             run == CHOOSE r \in 1 .. n :
                       /\ \A i \in n - r + 1 .. n : taps[i] = currentAlphaKey
                       /\ r < n => taps[n - r] # currentAlphaKey
  <2>1. PICK r \in 1 .. n : /\ IsRun(taps, currentAlphaKey, r)
                            /\ currentSym = (r - 1) % sSymbols(currentAlphaKey)
    BY DEF TapInv
  <2>2. taps \in Seq(Keys) /\ n \in Nat
    BY DEF TapInv
  <2>3. run \in 1 .. n /\ IsRun(taps, currentAlphaKey, run)
    BY <2>1 DEF IsRun
  <2> HIDE DEF run
  <2>4. run = r
    BY <2>1, <2>2, <2>3, OneRun
  <2>5. n > 0 /\ n \in n - r + 1 .. n
    BY <2>2
  <2>6. taps[n] = currentAlphaKey
    BY <2>1, <2>5 DEF IsRun
  <2>7. currentSym = (run - 1) % sSymbols(currentAlphaKey)
    BY <2>1, <2>4
  <2> QED BY <2>5, <2>6, <2>7 DEF SymFollowsTaps, run
<1> QED BY <1>1, <1>2 DEF EntryInv

(***************************************************************************)
(* For any keys and any number of presses: whatever keys, editors, shifts  *)
(* and dialogs come between, the pending symbol is the one selected by the *)
(* number of presses of its key since another key, a commit or the timer,  *)
(* its index is below the number of symbols of the key, and what is        *)
(* committed is a symbol.                                                  *)
(***************************************************************************)
THEOREM PendingSymbolCounts == Spec => []EntryInv
<1> DEFINE Inv == ViewInv /\ HeldInv /\ TapInv /\ TextInv
<1>1. ASSUME Init PROVE Inv
  <2>1. ViewInv
    BY <1>1 DEF Init, ViewInv, ViewFollowsEditor, Panels, NewPanel
  <2>2. HeldInv
    <3>1. keysPressed \in [Managers -> SUBSET Keys] /\ timerId \in [Managers -> BOOLEAN]
      BY <1>1 DEF Init
    <3>2. 0 \in 0 .. MaxPresses
      BY KeysAssumption
    <3> QED BY <1>1, <3>1, <3>2 DEF Init, HeldInv
  <2>3. TapInv
    BY <1>1 DEF Init, TapInv
  <2>4. TextInv
    BY <1>1 DEF Init, TextInv
  <2> QED BY <2>1, <2>2, <2>3, <2>4
<1>2. ASSUME Inv, [Next]_vars PROVE Inv'
  BY <1>2, ViewStep, HeldStep, TapStep, TextStep
<1>3. ASSUME Inv PROVE EntryInv
  BY <1>3, EntryFromParts
<1> HIDE DEF Inv
<1>4. Init => Inv
  BY <1>1
<1>5. Inv /\ [Next]_vars => Inv'
  BY <1>2
<1>6. Inv => EntryInv
  BY <1>3
<1> QED BY <1>4, <1>5, <1>6, PTL DEF Spec
=============================================================================
