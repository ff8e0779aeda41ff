------------------------- MODULE ButtonListener -------------------------
(***************************************************************************)
(* The scan-button listener, scripts/scan-listen.py, together with the     *)
(* scans it starts and the ones the browser starts (ScanPublish).          *)
(*                                                                         *)
(* The listener reads the packets the scanner sends when a button goes     *)
(* down and up, runs scan2pdf.sh for a press and waits for it, at most     *)
(* SCAN_TIMEOUT.  While it scans nobody reads the packets.  A packet is    *)
(* the number of the press it reports, or Released.                        *)
(***************************************************************************)
EXTENDS ScanPublish, Sequences

CONSTANT MaxPresses   \* bound on presses of the button

ASSUME PressesAssumption == MaxPresses \in Nat

VARIABLES
  plugged,   \* is the scanner on the USB bus
  button,    \* the press that holds the button down, or Released
  presses,   \* how often it was pressed
  packets,   \* what the interrupt endpoint holds
  lis,       \* the listener: control state, armed, the press it acts on, and the
             \* second in which it started the last script
  fired      \* history: the scans each press has started

usb  == <<plugged, button, presses, packets>>
vars == <<scanvars, usb, lis, fired>>

Released == 0
Presses  == 1..MaxPresses
Lost     == [lis EXCEPT !.pc = "find", !.armed = FALSE, !.press = Released]

------------------------------------------------------------------------
(* The scanner.                                                            *)

\* Several packets tell of one press.
Press ==
  /\ plugged /\ button = Released
  /\ presses < MaxPresses /\ presses' = presses + 1
  /\ button' = presses'
  /\ packets' = packets \o <<presses', presses'>>
  /\ UNCHANGED <<scanvars, plugged, lis, fired>>

Release ==
  /\ plugged /\ button # Released
  /\ button' = Released
  /\ packets' = Append(packets, Released)
  /\ UNCHANGED <<scanvars, plugged, presses, lis, fired>>

\* An idle scanner reports its state as well.
ReportIdle ==
  /\ plugged /\ button = Released /\ packets = <<>>
  /\ packets' = <<Released>>
  /\ UNCHANGED <<scanvars, plugged, button, presses, lis, fired>>

\* Pulled in the middle of a scan: scanimage fails or has what it needs.
Unplug ==
  /\ plugged /\ Fault
  /\ plugged' = FALSE /\ packets' = <<>> /\ button' = Released
  /\ UNCHANGED <<now, device, share, req, script, scans, began, killed, presses,
                 lis, fired>>

PlugIn ==
  /\ ~plugged
  /\ plugged' = TRUE
  /\ UNCHANGED <<scanvars, button, presses, packets, lis, fired>>

------------------------------------------------------------------------
(* The listener.                                                           *)

\* Mutant: armed from the start.
AttachedArmed == [lis EXCEPT !.pc = "reading", !.armed = TRUE]
\* Unarmed until a released button has been seen.
Attached == [lis EXCEPT !.pc = "reading", !.armed = FALSE]

Find ==
  /\ lis.pc = "find" /\ plugged
  /\ lis' = Attached
  /\ UNCHANGED <<scanvars, usb, fired>>

\* Somebody else uses the scanner, or it is gone: discover it again.
ReadError ==
  /\ lis.pc = "reading"
  /\ ~plugged \/ device # None
  /\ lis' = Lost
  /\ UNCHANGED <<scanvars, usb, fired>>

\* A released button arms, a pressed one is ignored before.
ReadAhead ==
  /\ lis.pc = "reading" /\ packets # <<>>
  /\ Head(packets) = Released \/ ~lis.armed
  /\ lis' = [lis EXCEPT !.armed = @ \/ Head(packets) = Released]
  /\ packets' = Tail(packets)
  /\ UNCHANGED <<scanvars, plugged, button, presses, fired>>

\* The press that counts: the device is reset, which may drop what it had to say.
ReadPress ==
  /\ lis.pc = "reading" /\ packets # <<>>
  /\ Head(packets) # Released /\ lis.armed
  /\ lis' = [lis EXCEPT !.pc = "settle", !.press = Head(packets)]
  /\ packets' \in {Tail(packets), <<>>}
  /\ UNCHANGED <<scanvars, plugged, button, presses, fired>>

\* The pauses before and after a scan take seconds.
RunScan ==
  /\ lis.pc = "settle" /\ now # lis.last
  /\ ScriptStarts
  /\ lis' = [lis EXCEPT !.pc = "waiting", !.last = now]
  /\ fired' = [fired EXCEPT ![lis.press] = @ + 1]
  /\ UNCHANGED usb

\* The script has ended: a pause, and the device is discovered anew.
ScanEnds ==
  /\ lis.pc = "waiting" /\ ~Runs
  /\ lis' = Lost
  /\ UNCHANGED <<scanvars, usb, fired>>

TimedOut ==
  /\ lis.pc = "waiting"
  /\ KillScript
  /\ lis' = Lost
  /\ UNCHANGED <<usb, fired>>

Listen == Find \/ ReadError \/ ReadAhead \/ ReadPress \/ RunScan \/ ScanEnds \/ TimedOut

------------------------------------------------------------------------
Init ==
  /\ ScanInit
  /\ plugged = TRUE /\ button = Released /\ presses = 0 /\ packets = <<>>
  /\ lis = [pc |-> "find", armed |-> FALSE, press |-> Released, last |-> None]
  /\ fired = [k \in Presses |-> 0]

Scanner == Press \/ Release \/ ReportIdle \/ Unplug \/ PlugIn

Next ==
  \/ ScanSteps /\ UNCHANGED <<usb, lis, fired>>
  \/ Scanner
  \/ Listen

Spec == Init /\ [][Next]_vars

------------------------------------------------------------------------
(* Properties.                                                             *)

\* The types of the variables; the script runs only while the listener waits.
TypeOK ==
  /\ ScanTypeOK
  /\ plugged \in BOOLEAN /\ button \in 0..MaxPresses /\ presses \in 0..MaxPresses
  /\ packets \in Seq(0..MaxPresses)
  /\ lis \in [pc : {"find", "reading", "settle", "waiting"}, armed : BOOLEAN,
              press : 0..MaxPresses, last : Seconds \cup {None}]
  /\ fired \in [Presses -> Nat]
  /\ Runs => lis.pc = "waiting"

\* A press starts one scan at most, although it is told of more than once and its
\* packets may outlive the scan: neither a repeat nor a packet that was waiting
\* while the scanner was scanned from or unplugged fires again.
NoPhantomScan == \A k \in Presses : fired[k] <= 1
========================================================================
