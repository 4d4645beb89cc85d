------------------------------- MODULE Keymap --------------------------------
(***************************************************************************)
(* From what the rider holds to a keyboard report:                         *)
(* src/components/zwift_ride_hid/keymap.{h,cpp}.  The usages of hid_usage  *)
(* are their names; a report has no more keys than the code writes, the    *)
(* rest of its six are NONE.                                               *)
(***************************************************************************)
EXTENDS InputState, Sequences, FiniteSets, Functions

\* InputAction
ActionOrder ==
  DigitalActions \o <<Negative[0], Positive[0], Negative[1], Positive[1]>>

\* A keymap gives each action its usage, in that order.
KeymapOf(usages) ==
  [a \in {ActionOrder[i] : i \in 1..20} |-> usages[CHOOSE i \in 1..20 : ActionOrder[i] = a]]

DeltaEmulatorMap ==
  KeymapOf(<<"ARROW_LEFT", "ARROW_UP", "ARROW_RIGHT", "ARROW_DOWN", "X", "Z", "S", "A",
             "Q", "E", "SPACE", "TAB", "W", "R", "P", "RETURN", "1", "2", "3", "4">>)

DiagnosticAllInputsMap ==
  KeymapOf(<<"ARROW_LEFT", "ARROW_UP", "ARROW_RIGHT", "ARROW_DOWN", "A", "B", "Y", "Z",
             "F1", "F2", "F3", "F4", "F5", "F6", "F7", "F8", "1", "2", "3", "4">>)

\* keymap_for_profile
KeymapForProfile ==
  [delta_emulator |-> DeltaEmulatorMap, diagnostic_all_inputs |-> DiagnosticAllInputsMap]

Modifiers == {"LEFT_CONTROL", "LEFT_SHIFT", "LEFT_ALT", "LEFT_GUI",
              "RIGHT_CONTROL", "RIGHT_SHIFT", "RIGHT_ALT", "RIGHT_GUI"}

KeyCount == 6
ErrorRollover == [i \in 1..KeyCount |-> "ERROR_ROLLOVER"]
EmptyReport == [modifiers |-> {}, keys |-> <<>>]

\* Mutant: the seventh key is left out.
AddKeyDropping(r, usage) ==
  IF usage \in Range(r.keys) \/ Len(r.keys) = KeyCount THEN r
  ELSE [r EXCEPT !.keys = Append(@, usage)]

\* A key that is already in is not put in twice, and the first one for which there
\* is no room fills the report with ErrorRollOver.
AddKey(r, usage) ==
  IF r.keys = ErrorRollover \/ usage \in Range(r.keys) THEN r
  ELSE IF Len(r.keys) = KeyCount THEN [r EXCEPT !.keys = ErrorRollover]
  ELSE [r EXCEPT !.keys = Append(@, usage)]

\* What one action adds to the report.
AddAction(r, a, actions, keymap) ==
  IF a \notin actions \/ keymap[a] = "NONE" THEN r
  ELSE IF keymap[a] \in Modifiers THEN [r EXCEPT !.modifiers = @ \union {keymap[a]}]
  ELSE AddKey(r, keymap[a])

\* build_keyboard_report: its loop over the actions, after n of them.
BuildKeyboardReport(actions, keymap) ==
  LET built[n \in 0..20] == IF n = 0 THEN EmptyReport
                            ELSE AddAction(built[n - 1], ActionOrder[n], actions, keymap)
  IN built[20]

\* What the report has to say of the usages that are held.
Shows(r, usages) ==
  LET keys == usages \ (Modifiers \union {"NONE"})
  IN /\ r.modifiers = usages \intersect Modifiers
     /\ IF Cardinality(keys) > KeyCount THEN r.keys = ErrorRollover
        ELSE /\ Range(r.keys) = keys
             /\ Len(r.keys) = Cardinality(keys)

=============================================================================
