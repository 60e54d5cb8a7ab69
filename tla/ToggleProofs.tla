----------------------------- MODULE ToggleProofs -----------------------------
(***************************************************************************)
(* What is proved of Toggle, for every debounce, sleep and bound: which    *)
(* presses are acted on, and what a toggle leaves.                         *)
(*                                                                         *)
(* The service knows the time since its last press only by a variable that *)
(* a restart forgets and that is looked at when a press is read, not when  *)
(* it is made.  The inductive invariant relates it to the true one:        *)
(* systemd waits longer than the debounce before it starts the service     *)
(* again, and a press that did not have to wait for toggle() is read in    *)
(* the tick in which it was made.                                          *)
(***************************************************************************)
EXTENDS Toggle, TLAPS

Presses == [quiet : 0..(DEBOUNCE_S + 1), waited : BOOLEAN]

\* The types of what the argument uses.
ClockType ==
  /\ since \in 0..(DEBOUNCE_S + 1) /\ quiet \in 0..(DEBOUNCE_S + 1) /\ wait \in Nat
  /\ queue \in Seq(Presses)

\* A service that lives remembers the last press, or it is long ago.
Remembered == pc # "dead" => quiet >= since

\* One that is dead will have waited long enough when it starts.
WaitsOut == pc = "dead" => quiet > DEBOUNCE_S \/ quiet + wait >= RestartSec

\* A press in the queue was made while toggle() ran, or just now.
Timely ==
  \A i \in DOMAIN queue : queue[i].waited \/ (pc = "read" /\ queue[i].quiet = quiet)

\* Only an open device has presses to read.
Opened ==
  /\ fd = "none" => queue = <<>>
  /\ fd # "none" => pc = "read" \/ Toggling

IInv == ClockType /\ Remembered /\ WaitsOut /\ Timely /\ Opened

-----------------------------------------------------------------------------
LEMMA CappedIs ==
  ASSUME NEW n \in Nat
  PROVE  /\ Capped(n) \in 0..(DEBOUNCE_S + 1)
         /\ n <= DEBOUNCE_S => Capped(n) = n
         /\ n > DEBOUNCE_S => Capped(n) = DEBOUNCE_S + 1
  BY ToggleAssumption DEF Capped

\* The presses behind the first one, and what becomes of them.
LEMMA TailIs ==
  ASSUME ClockType, queue # <<>>
  PROVE  /\ Tail(queue) \in Seq(Presses)
         /\ \A i \in DOMAIN Tail(queue) : i + 1 \in DOMAIN queue /\ Tail(queue)[i] = queue[i + 1]
         /\ Head(queue) = queue[1] /\ 1 \in DOMAIN queue
  BY DEF ClockType

LEMMA WaitingIs ==
  ASSUME NEW q \in Seq(Presses)
  PROVE  /\ Waiting(q) \in Seq(Presses)
         /\ \A i \in DOMAIN Waiting(q) : Waiting(q)[i].waited
  <1>1. [quiet |-> 0, waited |-> TRUE] \in Presses
    BY ToggleAssumption DEF Presses
  <1>2. Waiting(q) = [i \in 1..Len(q) |-> [quiet |-> 0, waited |-> TRUE]]
    BY DEF Waiting
  <1>3. Waiting(q) \in Seq(Presses) /\ DOMAIN Waiting(q) = 1..Len(q)
    BY <1>1, <1>2
  <1> QED
    BY <1>2, <1>3

LEMMA AppendIs ==
  ASSUME ClockType, NEW p \in Presses
  PROVE  /\ Append(queue, p) \in Seq(Presses)
         /\ \A i \in DOMAIN Append(queue, p) :
              (i \in DOMAIN queue /\ Append(queue, p)[i] = queue[i]) \/ Append(queue, p)[i] = p
  BY DEF ClockType

-----------------------------------------------------------------------------
LEMMA Initially == Init => IInv
  BY ToggleAssumption DEF Init, IInv, ClockType, Remembered, WaitsOut, Timely, Opened

USE DEF IInv, Bounded, History

LEMMA PressKeeps == IInv /\ Press => IInv'
  <1> SUFFICES ASSUME IInv, Press PROVE IInv'
    OBVIOUS
  <1> DEFINE p == [quiet |-> quiet, waited |-> Toggling]
  <1>1. CASE fd # "open"
    BY <1>1 DEF Press, ClockType, Remembered, WaitsOut, Timely, Opened, Toggling
  <1>2. CASE fd = "open"
    <2>1. p \in Presses /\ p.quiet = quiet /\ p.waited = Toggling
      BY DEF ClockType, Presses, Toggling
    <2>2. queue' = Append(queue, p)
      BY <1>2 DEF Press
    <2> HIDE DEF p
    <2>3. ClockType'
      BY <2>1, <2>2, AppendIs DEF Press, ClockType
    <2>4. Timely'
      BY <1>2, <2>1, <2>2, AppendIs DEF Press, Timely, Opened, Toggling
    <2>5. Remembered' /\ WaitsOut' /\ Opened'
      BY <1>2 DEF Press, Remembered, WaitsOut, Opened, Toggling
    <2> QED
      BY <2>3, <2>4, <2>5
  <1> QED
    BY <1>1, <1>2

LEMMA UnplugKeeps == IInv /\ Unplug => IInv'
  BY DEF Unplug, ClockType, Remembered, WaitsOut, Timely, Opened, Toggling

\* Time passes for the service, for the user, and for systemd.
LEMMA TickKeeps == IInv /\ Tick => IInv'
  <1> SUFFICES ASSUME IInv, Tick PROVE IInv'
    OBVIOUS
  <1>1. since \in Nat /\ quiet \in Nat /\ wait \in Nat
    BY ToggleAssumption DEF ClockType
  <1>2. ClockType'
    BY <1>1, CappedIs DEF Tick, ClockType
  <1>3. Remembered'
    <2>1. SUFFICES ASSUME pc # "dead" PROVE Capped(quiet + 1) >= Capped(since + 1)
      BY <1>1 DEF Tick, Remembered
    <2>2. quiet >= since
      BY <2>1 DEF Remembered
    <2> QED
      BY <1>1, <2>2, ToggleAssumption DEF Capped
  <1>4. WaitsOut'
    <2>1. SUFFICES ASSUME pc = "dead"
                   PROVE  Capped(quiet + 1) > DEBOUNCE_S \/ Capped(quiet + 1) + wait' >= RestartSec
      BY DEF Tick, WaitsOut
    <2>2. quiet > DEBOUNCE_S \/ quiet + wait >= RestartSec
      BY <2>1 DEF WaitsOut
    <2>3. wait' = IF wait > 0 THEN wait - 1 ELSE 0
      BY DEF Tick
    <2> QED
      BY <1>1, <2>2, <2>3, ToggleAssumption DEF Capped
  <1>5. Timely'
    BY DEF Tick, Timely, ClockType
  <1>6. Opened'
    BY DEF Tick, Opened, Toggling
  <1> QED
    BY <1>2, <1>3, <1>4, <1>5, <1>6

LEMMA IgnoreKeeps == IInv /\ IgnorePress => IInv'
  <1> SUFFICES ASSUME IInv, IgnorePress PROVE IInv'
    OBVIOUS
  <1>1. ClockType'
    BY TailIs DEF IgnorePress, ClockType
  <1>2. Timely'
    BY TailIs DEF IgnorePress, Timely
  <1>3. Remembered' /\ WaitsOut' /\ Opened'
    BY DEF IgnorePress, Remembered, WaitsOut, Opened, Toggling
  <1> QED
    BY <1>1, <1>2, <1>3

LEMMA ActKeeps == IInv /\ ActOnPress => IInv'
  <1> SUFFICES ASSUME IInv, ActOnPress PROVE IInv'
    OBVIOUS
  <1>1. /\ Waiting(Tail(queue)) \in Seq(Presses)
        /\ \A i \in DOMAIN Waiting(Tail(queue)) : Waiting(Tail(queue))[i].waited
    BY TailIs, WaitingIs DEF ActOnPress
  <1>2. ClockType'
    BY <1>1, ToggleAssumption DEF ActOnPress, ClockType
  <1>3. Timely'
    BY <1>1 DEF ActOnPress, Timely
  <1>4. Remembered' /\ WaitsOut'
    BY DEF ActOnPress, Remembered, WaitsOut, ClockType
  <1>5. Opened'
    BY DEF ActOnPress, Opened, Toggling
  <1> QED
    BY <1>2, <1>3, <1>4, <1>5

\* The service is started again after RestartSec, which is longer than the debounce.
LEMMA RestartKeeps == IInv /\ Restart => IInv'
  <1> SUFFICES ASSUME IInv, Restart PROVE IInv'
    OBVIOUS
  <1>1. quiet = DEBOUNCE_S + 1
    BY ToggleAssumption DEF Restart, WaitsOut, ClockType
  <1> QED
    BY <1>1, ToggleAssumption DEF Restart, ClockType, Remembered, WaitsOut, Timely, Opened, Toggling

LEMMA DieKeeps == IInv /\ Die => IInv'
  BY ToggleAssumption DEF Die, ClockType, Remembered, WaitsOut, Timely, Opened, Toggling

\* The steps that touch neither the clock nor a queue that holds anything.
LEMMA MainKeeps ==
  IInv /\ (Plug \/ Start \/ FindDevice \/ Wake \/ DeviceGone) => IInv'
  <1>1. Rescan \in Nat /\ <<>> \in Seq(Presses) /\ DOMAIN <<>> = {}
    BY ToggleAssumption
  <1>2. IInv /\ Plug => IInv'
    BY DEF Plug, ClockType, Remembered, WaitsOut, Timely, Opened, Toggling
  <1>3. IInv /\ Start => IInv'
    BY DEF Start, ClockType, Remembered, WaitsOut, Timely, Opened, Toggling
  <1>4. IInv /\ FindDevice => IInv'
    <2>1. CASE plugged
      BY <1>1, <2>1 DEF FindDevice, ClockType, Remembered, WaitsOut, Timely, Opened, Toggling
    <2>2. CASE ~plugged
      BY <1>1, <2>2 DEF FindDevice, Nap, ClockType, Remembered, WaitsOut, Timely, Opened, Toggling
    <2> QED
      BY <2>1, <2>2
  <1>5. IInv /\ Wake => IInv'
    BY DEF Wake, ClockType, Remembered, WaitsOut, Timely, Opened, Toggling
  <1>6. IInv /\ DeviceGone => IInv'
    BY <1>1 DEF DeviceGone, Nap, ClockType, Remembered, WaitsOut, Timely, Opened, Toggling
  <1> QED
    BY <1>2, <1>3, <1>4, <1>5, <1>6

LEMMA ToggleKeeps == IInv /\ (IsActive \/ Stop \/ Launch) => IInv'
  BY DEF IsActive, Stop, Launch, ToggleUnchanged,
         ClockType, Remembered, WaitsOut, Timely, Opened, Toggling

LEMMA StepKeeps == IInv /\ [Next]_vars => IInv'
  <1> SUFFICES ASSUME IInv, [Next]_vars PROVE IInv'
    OBVIOUS
  <1>1. CASE UNCHANGED vars
    BY <1>1 DEF vars, ClockType, Remembered, WaitsOut, Timely, Opened, Toggling
  <1>2. CASE Next
    BY <1>2, PressKeeps, UnplugKeeps, TickKeeps, IgnoreKeeps, ActKeeps, RestartKeeps,
       DieKeeps, MainKeeps, ToggleKeeps DEF Next
  <1> QED
    BY <1>1, <1>2

(* The service's clocks and queue keep their types, a living service       *)
(* remembers when it last acted or need not, and a press in the queue      *)
(* either had to wait for toggle() or was made just now.                   *)
THEOREM Inductive == Spec => []IInv
  BY Initially, StepKeeps, PTL DEF Spec

(* A press within the debounce of one acted on has no effect unless it had *)
(* to wait for toggle(), for every debounce shorter than systemd's restart *)
(* delay.                                                                  *)
THEOREM BouncesAreIgnored == Spec => BounceOnlyWhileBusy
  <1>1. IInv /\ [Next]_vars =>
          [(~Toggling /\ Toggling') => (Head(queue).quiet > DEBOUNCE_S \/ Head(queue).waited)]_vars
    <2> SUFFICES ASSUME IInv, Next, ~Toggling, Toggling'
                 PROVE  Head(queue).quiet > DEBOUNCE_S \/ Head(queue).waited
      OBVIOUS
    <2>1. ActOnPress
      BY DEF Next, Toggling, Press, Unplug, Plug, Tick, Start, FindDevice, Nap, Wake, DeviceGone,
             IgnorePress, IsActive, Stop, Launch, Die, Restart
    <2>2. queue[1].waited \/ queue[1].quiet = quiet
      BY <2>1, TailIs DEF ActOnPress, Timely
    <2>3. quiet > DEBOUNCE_S
      BY <2>1, ToggleAssumption DEF ActOnPress, Remembered, ClockType
    <2> QED
      BY <2>1, <2>2, <2>3, TailIs DEF ActOnPress
  <1> QED
    BY <1>1, Inductive, PTL DEF Spec, BounceOnlyWhileBusy

-----------------------------------------------------------------------------
(* What a toggle that is not cut short leaves. *)

\* Where units and the UI that was asked for stand at each step of toggle().
Switching ==
  /\ units \subseteq {Lightdm, S300ui}
  /\ pc = "is-active" => wanted = IF Lightdm \in units THEN S300ui ELSE Lightdm
  /\ pc \in {"stop", "launch"} => wanted = ToStart
  /\ pc = "launch" => ToStop \notin units

LEMMA SwitchingKept == Switching /\ [Next]_vars => Switching'
  <1> USE DEF Switching, ToStart, ToStop, Lightdm, S300ui
  <1> SUFFICES ASSUME Switching, [Next]_vars PROVE Switching'
    OBVIOUS
  <1>1. CASE Press \/ Unplug \/ Plug \/ Tick
    <2>1. UNCHANGED <<pc, on_desktop, units, wanted>>
      BY <1>1 DEF Press, Unplug, Plug, Tick
    <2> QED
      BY <2>1
  <1>2. CASE Start \/ FindDevice \/ Wake \/ DeviceGone \/ IgnorePress \/ Restart
    BY <1>2 DEF Start, FindDevice, Nap, Wake, DeviceGone, IgnorePress, Restart
  <1>3. CASE ActOnPress
    BY <1>3 DEF ActOnPress
  <1>4. CASE IsActive
    <2>1. /\ pc = "is-active" /\ pc' = "stop" /\ UNCHANGED <<units, wanted>>
          /\ on_desktop' <=> Lightdm \in units
      BY <1>4 DEF IsActive, ToggleUnchanged
    <2> QED
      BY <2>1
  <1>5. CASE Stop
    BY <1>5 DEF Stop, ToggleUnchanged
  <1>6. CASE Launch
    BY <1>6 DEF Launch, ToggleUnchanged
  <1>7. CASE Die
    <2>1. pc' = "dead" /\ units' \subseteq {Lightdm, S300ui}
      BY <1>7 DEF Die
    <2> QED
      BY <2>1
  <1>8. CASE UNCHANGED vars
    BY <1>8 DEF vars
  <1> QED
    BY <1>1, <1>2, <1>3, <1>4, <1>5, <1>6, <1>7, <1>8 DEF Next

\* A toggle that ends has left the UI asked for alone on the screen, or it was killed, or
\* lightdm did not come up: what SettlesOnOne says of its end, without that it ends.
EndsOnOne == [][Toggling /\ ~Toggling' => broken' \/ units' = {wanted'}]_vars

(* Whatever was running when a press was acted on, one UI or both,         *)
(* toggle() ends with the other UI and nothing else, unless the service is *)
(* killed in the middle or lightdm does not start (cluster_toggle.py).     *)
THEOREM TogglesEndOnOne == Spec => EndsOnOne
  <1>1. Init => Switching
    BY DEF Init, Switching, Lightdm, S300ui
  <1>2. Switching /\ [Next]_vars =>
          [Toggling /\ ~Toggling' => broken' \/ units' = {wanted'}]_vars
    <2> SUFFICES ASSUME Switching, Next, Toggling, ~Toggling'
                 PROVE  broken' \/ units' = {wanted'}
      OBVIOUS
    <2>1. CASE Launch
      <3>1. /\ units \subseteq {ToStart} /\ wanted' = ToStart
            /\ units' = units \cup {ToStart} \/ broken' = TRUE
        BY <2>1 DEF Launch, ToggleUnchanged, Switching, ToStart, ToStop
      <3> QED
        BY <3>1
    <2>2. CASE Die
      BY <2>2 DEF Die
    <2> QED
      BY <2>1, <2>2 DEF Next, Toggling, Press, Unplug, Plug, Tick, Start, FindDevice, Nap, Wake,
         DeviceGone, IgnorePress, ActOnPress, IsActive, Stop, Restart
  <1> QED
    BY <1>1, <1>2, SwitchingKept, PTL DEF Spec, EndsOnOne
=============================================================================
