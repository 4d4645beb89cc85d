------------------------------ MODULE RideInput ------------------------------
(***************************************************************************)
(* From a notification of the controller to the report that is to be sent: *)
(* ZwiftRideHid::on_ride_notification and queue_current_report_ of         *)
(* src/components/zwift_ride_hid/zwift_ride_hid.cpp over a decoder,        *)
(* InputState and Keymap, within one session; Bridge has the rest of these *)
(* handlers and the sessions.  The decoder is that of RideProtocol and the *)
(* meaning of a frame that of RideGrammar, given by MCRideInput: what is   *)
(* said here of the report holds for any decoder of packets.               *)
(***************************************************************************)
EXTENDS Keymap

CONSTANTS
  Decode(_),   \* decode_ride_notification
  Means(_),    \* what a frame means, for the properties
  Frames,      \* notifications the controller sends, as bytes
  OddFrames,   \* others, for the decoder alone
  OtherMaps    \* keymaps beside the shipped ones, for the reports alone

\* A packet of the decoder tells of buttons by their bits, and of some channels.
ASSUME DecoderAssumption ==
  \A f \in Frames : Decode(f).status = "OK" =>
    /\ Decode(f).pressed \subseteq 0..15
    /\ \E present \in SUBSET Channels : Decode(f).analog \in [present -> Int]

VARIABLES
  profile,     \* keymap_
  report,      \* pending_report_, sent or not
  lastFrame    \* for the properties: the last accepted frame since a release, if any

vars == <<inputVars, profile, report, lastFrame>>

Init ==
  /\ InputInit
  /\ profile \in DOMAIN KeymapForProfile
  /\ report = EmptyReport
  /\ lastFrame = <<>>

\* What the decoder says of each frame.
Decoded == [f \in Frames |-> Decode(f)]

PacketOf(d) ==
  [pressed |-> {DigitalActions[i + 1] : i \in d.pressed}, analog |-> d.analog]

\* queue_current_report_, called when a control was pressed or let go.
QueueReport ==
  report' = IF active' # active
            THEN BuildKeyboardReport(active', KeymapForProfile[profile]) ELSE report

\* on_ride_notification: a frame that is not accepted as a whole does nothing.
Notification(f) ==
  /\ Decoded[f].status = "OK"
  /\ Apply(PacketOf(Decoded[f]))
  /\ QueueReport
  /\ lastFrame' = f
  /\ UNCHANGED profile

\* release_all_
ReleaseAll ==
  /\ ReleaseAllInputs
  /\ report' = EmptyReport
  /\ lastFrame' = <<>>
  /\ UNCHANGED profile

Next == ReleaseAll \/ \E f \in Frames : Notification(f)

Spec == Init /\ [][Next]_vars

-----------------------------------------------------------------------------
(* Properties.                                                             *)

\* The host is to be shown exactly the controls that are held, through any number of
\* presses and releases, more than six keys and back: no key is stuck, lost or doubled,
\* whichever control shares its key with another one.
ReportShowsHeld ==
  /\ Shows(report, {KeymapForProfile[profile][a] : a \in active})
  /\ \A map \in OtherMaps :
       Shows(BuildKeyboardReport(active, map), {map[a] : a \in active})

Meanings == [f \in Frames |-> Means(f)]
Misread == {f \in Frames \union OddFrames : Decode(f) # Means(f)}

\* What is held is what the last accepted frame means, by the grammar and not by the
\* decoder; and of the frames that are broken, cut off, too long, nested too deep or
\* of numbers that do not fit none is misread.
HeldAsFrameMeans ==
  /\ Misread = {}
  /\ lastFrame # <<>> =>
       /\ active \intersect Digital = {DigitalActions[i + 1] : i \in Meanings[lastFrame].pressed}
       /\ \A c \in DOMAIN Meanings[lastFrame].analog :
            c \in analogSeen /\ analog[c] = Meanings[lastFrame].analog[c]

=============================================================================
