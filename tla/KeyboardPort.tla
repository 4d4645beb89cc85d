---------------------------- MODULE KeyboardPort -----------------------------
(***************************************************************************)
(* What HidKeyboard (hid_keyboard.h) promises to the bridge that owns it:  *)
(* a gate for advertising, a stronger one for everything (quiesce), the    *)
(* readiness of its host, and the report that its host reads.  Bridge uses *)
(* the operators, HidKeyboard implements PortSpec.                         *)
(***************************************************************************)
CONSTANTS
  Images,  \* keyboard reports with a key pressed
  Up       \* the empty report

VARIABLE kb

Keyboards == [allowed : BOOLEAN, halted : BOOLEAN, ready : BOOLEAN,
              image : Images \union {Up}]

NewKeyboard == [allowed |-> FALSE, halted |-> FALSE, ready |-> FALSE, image |-> Up]

\* send_report: refused only while everything is quiesced.  Whether the host
\* was notified at once is up to its link.
Send(k, r) == IF k.halted THEN k ELSE [k EXCEPT !.image = r]

\* set_advertising_allowed: a late permission is not remembered.
Allow(k) == IF k.halted THEN k ELSE [k EXCEPT !.allowed = TRUE]
Disallow(k) == [k EXCEPT !.allowed = FALSE]

\* quiesce
Halt(k) ==
  IF k.halted THEN k
  ELSE [allowed |-> FALSE, halted |-> TRUE, ready |-> FALSE, image |-> Up]

\* resume: the host may not have gone yet, and be ready again at once.
Resumed(k, ready) ==
  IF k.halted THEN [k EXCEPT !.halted = FALSE, !.ready = ready] ELSE k

\* ble_before_disabled_event_handler
Reset(k) == [allowed |-> FALSE, halted |-> k.halted, ready |-> FALSE, image |-> Up]

\* The host subscribes on an encrypted link, stops doing so, or is lost.
HostReady(k) == [k EXCEPT !.ready = TRUE]
HostUnready(k) == [k EXCEPT !.ready = FALSE]
HostLost(k) == [allowed |-> k.allowed, halted |-> k.halted, ready |-> FALSE, image |-> Up]

PortInit == kb = NewKeyboard

PortNext ==
  \/ \E r \in Images \union {Up} : kb' = Send(kb, r)
  \/ kb' \in {Allow(kb), Disallow(kb), Halt(kb), Reset(kb)}
  \/ \E ready \in BOOLEAN : kb' = Resumed(kb, ready)
  \/ ~kb.halted /\ kb' = HostReady(kb)
  \/ kb' \in {HostUnready(kb), HostLost(kb)}

PortSpec == PortInit /\ [][PortNext]_kb

=============================================================================
