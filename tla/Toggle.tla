-------------------------------- MODULE Toggle --------------------------------
(***************************************************************************)
(* The Home button (deploy/cluster_toggle.py): a service outside the       *)
(* daemon and the cluster that reads the gamepad's events and, on a press, *)
(* stops the UI that has the screen and starts the other one.              *)
(*                                                                         *)
(* Time is counted in ticks of half a second.  Presses queue in the open   *)
(* device while toggle() waits for systemctl; the gamepad may go away and  *)
(* come back; the service may be killed at any step, and systemd starts    *)
(* it again (cluster-toggle.service).  A systemctl that waits for its job  *)
(* may take any time.                                                      *)
(*                                                                         *)
(* last, the time of the last press acted on, is kept as the time gone by  *)
(* since then, which only matters up to DEBOUNCE_S.                        *)
(***************************************************************************)
EXTENDS Naturals, Sequences

CONSTANTS DEBOUNCE_S,   \* in ticks, as the next two
          Rescan,       \* the sleep before the device is looked for again
          RestartSec,   \* cluster-toggle.service
          MaxPresses, MaxKills, MaxUnplugs    \* bounds on what the user and the world do

ASSUME ToggleAssumption ==
  /\ {DEBOUNCE_S, Rescan, RestartSec, MaxPresses, MaxKills, MaxUnplugs} \subseteq Nat
  /\ DEBOUNCE_S < RestartSec    \* 1.5 s and 2 s

Lightdm == "lightdm.service"
S300ui == "s300ui.service"

VARIABLES
  pc,        \* "start", "parked", "scan", "nap", "read", "dead", or where toggle() is:
             \* "is-active", "stop", "launch"
  on_desktop,  \* toggle()'s local
  since,     \* now - last, up to DEBOUNCE_S + 1
  wait,      \* what is left of the sleep, or of systemd's RestartSec
  plugged,   \* the gamepad is there
  fd,        \* the open device: "none", "open", or "stale" when the gamepad went away
  queue,     \* the presses the kernel holds for fd
  units,     \* the units of the two UIs that are active
  desktop,   \* lightdm is installed
  \* bounds and history
  presses, kills, unplugs,
  quiet,     \* the time since a press was acted on, by this process or an earlier one
  wanted,    \* the UI that the last press acted on asks for, or "none"
  broken     \* the toggle for it was killed, or its start failed

vars == <<pc, on_desktop, since, wait, plugged, fd, queue, units, desktop,
          presses, kills, unplugs, quiet, wanted, broken>>

Toggling == pc \in {"is-active", "stop", "launch"}
Capped(n) == IF n > DEBOUNCE_S THEN DEBOUNCE_S + 1 ELSE n

\* s300ui is enabled; lightdm too if the owner enabled it again (INSTALL.md).
Init ==
  /\ pc = "start" /\ on_desktop = FALSE /\ since = DEBOUNCE_S + 1 /\ wait = 0
  /\ plugged \in BOOLEAN /\ fd = "none" /\ queue = <<>> /\ desktop \in BOOLEAN
  /\ units \in {{S300ui}} \cup (IF desktop THEN {{S300ui, Lightdm}} ELSE {})
  /\ presses = 0 /\ kills = 0 /\ unplugs = 0
  /\ quiet = DEBOUNCE_S + 1 /\ wanted = "none" /\ broken = FALSE

Bounded == <<presses, kills, unplugs>>
History == <<quiet, wanted, broken>>

-----------------------------------------------------------------------------
(* The gamepad and the clock: external. *)

\* Each press is remembered with the time since the last one acted on, and whether it has
\* to wait for toggle().
Press ==
  /\ plugged /\ presses < MaxPresses /\ presses' = presses + 1
  /\ queue' = IF fd = "open" THEN Append(queue, [quiet |-> quiet, waited |-> Toggling]) ELSE queue
  /\ UNCHANGED <<pc, on_desktop, since, wait, plugged, fd, units, desktop, kills, unplugs>>
  /\ UNCHANGED History

Unplug ==
  /\ plugged /\ unplugs < MaxUnplugs /\ unplugs' = unplugs + 1
  /\ plugged' = FALSE /\ queue' = <<>>
  /\ fd' = IF fd = "open" THEN "stale" ELSE fd
  /\ UNCHANGED <<pc, on_desktop, since, wait, units, desktop, presses, kills>>
  /\ UNCHANGED History

Plug ==
  /\ ~plugged /\ plugged' = TRUE
  /\ UNCHANGED <<pc, on_desktop, since, wait, fd, queue, units, desktop>>
  /\ UNCHANGED <<Bounded, History>>

\* A process that is not held up reads within the tick.
Tick ==
  /\ ~(pc = "read" /\ (queue # <<>> \/ fd = "stale"))
  /\ since' = Capped(since + 1) /\ quiet' = Capped(quiet + 1)
  /\ wait' = IF wait > 0 THEN wait - 1 ELSE 0
  /\ UNCHANGED <<pc, on_desktop, plugged, fd, queue, units, desktop, wanted, broken>>
  /\ UNCHANGED Bounded

-----------------------------------------------------------------------------
(* main() *)

\* An image without lightdm: the service parks itself.
Start ==
  /\ pc = "start" /\ pc' = IF desktop THEN "scan" ELSE "parked"
  /\ UNCHANGED <<on_desktop, since, wait, plugged, fd, queue, units, desktop, Bounded, History>>

Nap == pc' = "nap" /\ wait' = Rescan

\* find_device(), then open; a read sees the presses made from then on.
FindDevice ==
  /\ pc = "scan"
  /\ IF plugged THEN pc' = "read" /\ fd' = "open" /\ queue' = <<>> /\ wait' = 0
                ELSE Nap /\ UNCHANGED <<fd, queue>>
  /\ UNCHANGED <<on_desktop, since, plugged, units, desktop, Bounded, History>>

Wake ==
  /\ pc = "nap" /\ wait = 0 /\ pc' = "scan"
  /\ UNCHANGED <<on_desktop, since, wait, plugged, fd, queue, units, desktop, Bounded, History>>

\* A short read or an OSError: the device is closed and looked for again.
DeviceGone ==
  /\ pc = "read" /\ fd = "stale" /\ fd' = "none" /\ queue' = <<>> /\ Nap
  /\ UNCHANGED <<on_desktop, since, plugged, units, desktop, Bounded, History>>

\* Within DEBOUNCE_S of the press acted on last, as of when it is read.
IgnorePress ==
  /\ pc = "read" /\ queue # <<>> /\ since <= DEBOUNCE_S /\ queue' = Tail(queue)
  /\ UNCHANGED <<pc, on_desktop, since, wait, plugged, fd, units, desktop, Bounded, History>>

\* The presses behind the one that is acted on will wait for toggle().
Waiting(q) == [i \in DOMAIN q |-> [quiet |-> 0, waited |-> TRUE]]

\* Mutant: last is not set.
ActOnPress_KeepsLast ==
  /\ pc = "read" /\ queue # <<>> /\ since > DEBOUNCE_S /\ queue' = Waiting(Tail(queue))
  /\ pc' = "is-active" /\ quiet' = 0 /\ broken' = FALSE
  /\ wanted' = IF Lightdm \in units THEN S300ui ELSE Lightdm
  /\ UNCHANGED <<on_desktop, since, wait, plugged, fd, units, desktop, Bounded>>

ActOnPress ==
  /\ pc = "read" /\ queue # <<>> /\ since > DEBOUNCE_S /\ queue' = Waiting(Tail(queue))
  /\ pc' = "is-active" /\ since' = 0 /\ quiet' = 0 /\ broken' = FALSE
  /\ wanted' = IF Lightdm \in units THEN S300ui ELSE Lightdm
  /\ UNCHANGED <<on_desktop, wait, plugged, fd, units, desktop, Bounded>>

-----------------------------------------------------------------------------
(* toggle() *)

ToggleUnchanged == UNCHANGED <<since, wait, plugged, fd, queue, desktop, Bounded, quiet, wanted>>

IsActive ==
  /\ pc = "is-active" /\ pc' = "stop" /\ on_desktop' = (Lightdm \in units)
  /\ UNCHANGED <<units, broken>> /\ ToggleUnchanged

ToStop == IF on_desktop THEN Lightdm ELSE S300ui
ToStart == IF on_desktop THEN S300ui ELSE Lightdm

\* Mutant: the other UI is stopped.
Stop_Other ==
  /\ pc = "stop" /\ pc' = "launch" /\ units' = units \ {ToStart}
  /\ UNCHANGED <<on_desktop, broken>> /\ ToggleUnchanged

Stop ==
  /\ pc = "stop" /\ pc' = "launch" /\ units' = units \ {ToStop}
  /\ UNCHANGED <<on_desktop, broken>> /\ ToggleUnchanged

\* The result of systemctl is not looked at: lightdm may not come up, while systemd keeps
\* starting s300ui (Restart=always).
Launch ==
  /\ pc = "launch" /\ pc' = "read"
  /\ \/ units' = units \cup {ToStart} /\ broken' = broken
     \/ ToStart = Lightdm /\ units' = units /\ broken' = TRUE
  /\ UNCHANGED on_desktop /\ ToggleUnchanged

-----------------------------------------------------------------------------
(* systemd *)

\* The job that a killed systemctl waits for is carried out if it was queued.
Die ==
  /\ pc # "dead" /\ kills < MaxKills /\ kills' = kills + 1
  /\ pc' = "dead" /\ wait' = RestartSec /\ fd' = "none" /\ queue' = <<>>
  /\ units' \in {units} \cup (CASE pc = "stop" -> {units \ {ToStop}}
                                [] pc = "launch" -> {units \cup {ToStart}}
                                [] OTHER -> {})
  /\ broken' = (broken \/ Toggling)
  /\ UNCHANGED <<on_desktop, since, plugged, desktop, presses, unplugs, quiet, wanted>>

Restart ==
  /\ pc = "dead" /\ wait = 0 /\ pc' = "start" /\ since' = DEBOUNCE_S + 1
  /\ UNCHANGED <<on_desktop, wait, plugged, fd, queue, units, desktop, Bounded, History>>

-----------------------------------------------------------------------------
Next ==
  \/ Press \/ Unplug \/ Plug \/ Tick
  \/ Start \/ FindDevice \/ Wake \/ DeviceGone \/ IgnorePress \/ ActOnPress
  \/ IsActive \/ Stop \/ Launch
  \/ Die \/ Restart

\* The service runs on while it lives, and a systemctl returns: systemd kills what does
\* not stop in time.
Fairness ==
  /\ WF_vars(Start) /\ WF_vars(FindDevice) /\ WF_vars(Wake) /\ WF_vars(DeviceGone)
  /\ WF_vars(IgnorePress) /\ WF_vars(ActOnPress)
  /\ WF_vars(IsActive) /\ WF_vars(Stop) /\ WF_vars(Launch) /\ WF_vars(Restart)
  /\ WF_vars(Tick)

Spec == Init /\ [][Next]_vars /\ Fairness

-----------------------------------------------------------------------------
(* A press made within DEBOUNCE_S of one that was acted on has no effect,  *)
(* whatever restarts and rescans come between, unless it had to wait in    *)
(* the queue for toggle().  Of those nothing is said: the code times a     *)
(* press when it reads it, so that after a toggle() longer than DEBOUNCE_S *)
(* a bounce toggles back (cluster_toggle.py, main).                        *)
BounceOnlyWhileBusy ==
  [][(~Toggling /\ Toggling') => (Head(queue).quiet > DEBOUNCE_S \/ Head(queue).waited)]_vars

(* A press that is acted on ends with the other UI running and the first   *)
(* one stopped, from one UI or from both of a boot with the desktop        *)
(* enabled, unless the service is killed in the middle or lightdm does not *)
(* start (cluster_toggle.py, toggle).                                      *)
SettlesOnOne ==
  Toggling ~> ~Toggling /\ (broken \/ units = {wanted})
=============================================================================
