----------------------------- MODULE RideSession -----------------------------
(***************************************************************************)
(* What RideClient promises to its listener (class RideClientListener,     *)
(* ride_client.h): the life of one controller session as the composing     *)
(* bridge may observe it through on_ride_ready, on_ride_disconnected and   *)
(* on_ride_notification.  Handles, timers, GATT completions and the BLE    *)
(* stack do not appear here; RideClient implements this module.            *)
(***************************************************************************)
EXTENDS Naturals

VARIABLES
  phase,  \* how far the current controller connection has come
  told,   \* the last callback the listener received
  frame   \* parity of the input notifications delivered so far

sessionVars == <<phase, told, frame>>

\* No connection yet: disconnect_reported_ starts TRUE, so the listener owes
\* nothing and is owed nothing.
SessionInit ==
  /\ phase = "closed"
  /\ told = "disconnected"
  /\ frame = 0

\* A connection begins, begins again (OPEN followed by CONNECT), or a setup
\* step fails and the link is on its way down.  A ready session is never
\* reopened: the listener has to hear of its end first.
Open ==
  /\ phase # "ready"
  /\ phase' = "opening"
  /\ UNCHANGED <<told, frame>>

\* The input characteristic is subscribed, the optional one still pending.
Subscribe ==
  /\ phase = "opening"
  /\ phase' = "subscribed"
  /\ UNCHANGED <<told, frame>>

\* on_ride_ready
Ready ==
  /\ phase \in {"opening", "subscribed"}
  /\ phase' = "ready"
  /\ told' = "ready"
  /\ UNCHANGED frame

\* on_ride_notification
Frame ==
  /\ phase \in {"subscribed", "ready"}
  /\ frame' = 1 - frame
  /\ UNCHANGED <<phase, told>>

\* on_ride_disconnected
Close ==
  /\ phase # "closed"
  /\ phase' = "closed"
  /\ told' = "disconnected"
  /\ UNCHANGED frame

SessionNext == Open \/ Subscribe \/ Ready \/ Frame \/ Close

SessionSpec == SessionInit /\ [][SessionNext]_sessionVars

=============================================================================
