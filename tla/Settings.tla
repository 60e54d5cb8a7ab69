------------------------------- MODULE Settings -------------------------------
(***************************************************************************)
(* The configuration file, its one writer and its two readers.             *)
(*                                                                         *)
(* The settings page (s300d/settings.py, put_config) patches config.yaml   *)
(* through a temporary file and a rename and then reloads the Hub; the     *)
(* daemon reads the file when it starts, and the cluster                   *)
(* (s300ui/__main__.py) when it starts and whenever its mtime changes.     *)
(* The three interleave, either process may be restarted and the car's     *)
(* power may be cut at any step.  The file is on the FAT boot partition    *)
(* (INSTALL.md), whose modification times advance in ticks of two seconds. *)
(*                                                                         *)
(* A configuration is a value of Confs and stands for the keys that        *)
(* Hub.reload applies, or the cluster; those the daemon reads only when it *)
(* starts (mac, rfcomm_channel, poll_hz) and what a patch must satisfy are *)
(* not modelled.  External: an fsync makes the data of a file survive a    *)
(* power cut, and a rename is either lost or done by one.                  *)
(***************************************************************************)
EXTENDS Naturals

CONSTANTS Confs,      \* what apply_patch can return
          Torn,       \* the content of a file whose data never reached the card
          None,       \* no file, no configuration, no mtime yet
          MaxTime     \* bound on the ticks of the file system's clock

ASSUME SettingsAssumption ==
  Confs # {} /\ Torn \notin Confs /\ None \notin Confs \cup Nat /\ MaxTime \in Nat

Files == [conf : Confs \cup {Torn}, mtime : Nat, synced : BOOLEAN]

VARIABLES
  now,      \* the file system's clock, in ticks
  file,     \* config.yaml: its content, its mtime, and whether its data is on the card
  disk,     \* the config.yaml a power cut falls back on
  tmp,      \* the temporary file of the save under way, or None
  put,      \* put_config: .pc, and the configuration .new it is saving
  reply,    \* what the page was answered last: "none", "ok" or "error"
  hub,      \* the configuration the Hub runs with; None while the daemon is down
  ui,       \* the cluster: .pc, its .conf and the .mtime it remembers
  \* history
  before,   \* the configuration of the file and of the Hub when the page was submitted
  missed    \* the file changed without its mtime changing from the one ui remembers

vars == <<now, file, disk, tmp, put, reply, hub, ui, before, missed>>

Down == [pc |-> "off", conf |-> None, mtime |-> None]
IdlePut == [pc |-> "idle", new |-> None]

Init ==
  /\ now = 0 /\ hub = None /\ tmp = None /\ reply = "none" /\ before = None
  /\ put = IdlePut /\ ui = Down /\ missed = FALSE
  /\ \E c \in Confs : file = [conf |-> c, mtime |-> 0, synced |-> TRUE]
  /\ disk = file

-----------------------------------------------------------------------------
(* The daemon: put_config, save_atomic, Hub.reload. *)

DaemonUnchanged == UNCHANGED <<now, disk, ui>>

\* Mutant: the Hub is reloaded before the file is saved.
Put_ReloadFirst ==
  /\ put.pc = "idle" /\ hub # None
  /\ \E c \in Confs : put' = [pc |-> "write", new |-> c] /\ hub' = c
  /\ reply' = "none" /\ before' = [file |-> file.conf, hub |-> hub]
  /\ DaemonUnchanged /\ UNCHANGED <<file, tmp, missed>>

\* A valid patch arrives: apply_patch(load(path), patch).
Put ==
  /\ put.pc = "idle" /\ hub # None
  /\ \E c \in Confs : put' = [pc |-> "write", new |-> c]
  /\ reply' = "none" /\ before' = [file |-> file.conf, hub |-> hub]
  /\ DaemonUnchanged /\ UNCHANGED <<file, tmp, hub, missed>>

\* mkstemp, write and flush.
Write ==
  /\ put.pc = "write" /\ put' = [put EXCEPT !.pc = "sync"]
  /\ tmp' = [conf |-> put.new, mtime |-> now, synced |-> FALSE]
  /\ DaemonUnchanged /\ UNCHANGED <<file, reply, hub, before, missed>>

\* Mutant: no fsync.
Sync_Skipped ==
  /\ put.pc = "sync" /\ put' = [put EXCEPT !.pc = "replace"]
  /\ DaemonUnchanged /\ UNCHANGED <<file, tmp, reply, hub, before, missed>>

Sync ==
  /\ put.pc = "sync" /\ put' = [put EXCEPT !.pc = "replace"]
  /\ tmp' = [tmp EXCEPT !.synced = TRUE]
  /\ DaemonUnchanged /\ UNCHANGED <<file, reply, hub, before, missed>>

\* Mutant: the new file keeps the mtime of the old one.
Replace_KeepsMtime ==
  /\ put.pc = "replace" /\ put' = [put EXCEPT !.pc = "reload"]
  /\ file' = [tmp EXCEPT !.mtime = file.mtime] /\ tmp' = None
  /\ missed' = (ui.pc = "running" /\ tmp.mtime = ui.mtime)
  /\ DaemonUnchanged /\ UNCHANGED <<reply, hub, before>>

\* os.replace; the mtime is that of the last write to the temporary file.
Replace ==
  /\ put.pc = "replace" /\ put' = [put EXCEPT !.pc = "reload"]
  /\ file' = tmp /\ tmp' = None
  /\ missed' = (ui.pc = "running" /\ tmp.mtime = ui.mtime)
  /\ DaemonUnchanged /\ UNCHANGED <<reply, hub, before>>

\* Mutant: the temporary file is removed and the rename tried all the same.
SaveFails_GoesOn ==
  /\ put.pc \in {"write", "sync", "replace"}
  /\ put' = [put EXCEPT !.pc = "replace"] /\ tmp' = None
  /\ DaemonUnchanged /\ UNCHANGED <<file, reply, hub, before, missed>>

\* Any step of save_atomic fails: the temporary file is removed and the page told so.
SaveFails ==
  /\ put.pc \in {"write", "sync", "replace"}
  /\ put' = IdlePut /\ tmp' = None /\ reply' = "error"
  /\ DaemonUnchanged /\ UNCHANGED <<file, hub, before, missed>>

\* Mutant: the page is answered without a reload.
Reload_Skipped ==
  /\ put.pc = "reload" /\ put' = IdlePut /\ reply' = "ok"
  /\ DaemonUnchanged /\ UNCHANGED <<file, tmp, hub, before, missed>>

\* Hub.reload (see Hub), and the answer.
Reload ==
  /\ put.pc = "reload" /\ put' = IdlePut /\ hub' = put.new /\ reply' = "ok"
  /\ DaemonUnchanged /\ UNCHANGED <<file, tmp, before, missed>>

\* The daemon starts: load_full_config.  It does not come up on a torn file.
DaemonStarts ==
  /\ hub = None /\ file.conf # Torn
  /\ hub' = file.conf
  /\ DaemonUnchanged /\ UNCHANGED <<file, tmp, put, reply, before, missed>>

\* It dies, in the middle of a save or not; a temporary file is left behind for good.
DaemonDies ==
  /\ hub # None
  /\ hub' = None /\ put' = IdlePut /\ tmp' = None /\ reply' = "none"
  /\ DaemonUnchanged /\ UNCHANGED <<file, before, missed>>

-----------------------------------------------------------------------------
(* The cluster. *)

ClusterOnly == UNCHANGED <<now, file, disk, tmp, put, reply, hub, before>>

\* main() reads the configuration first of all ...
ClusterStarts ==
  /\ ui.pc = "off" /\ file.conf # Torn
  /\ ui' = [pc |-> "starting", conf |-> file.conf, mtime |-> None]
  /\ ClusterOnly /\ UNCHANGED missed

\* ... and takes its mtime when display, client and joysticks are up.
ClusterReady ==
  /\ ui.pc = "starting" /\ ui' = [ui EXCEPT !.pc = "running", !.mtime = file.mtime]
  /\ missed' = (file.conf # ui.conf)
  /\ ClusterOnly

\* Every two seconds: has the mtime changed?
Check ==
  /\ ui.pc = "running" /\ file.mtime # ui.mtime
  /\ ui' = [ui EXCEPT !.pc = "reading", !.mtime = file.mtime]
  /\ ClusterOnly /\ UNCHANGED missed

\* Mutant: the file is read again and the cluster is not told.
Reread_NotConfigured ==
  /\ ui.pc = "reading" /\ ui' = [ui EXCEPT !.pc = "running"]
  /\ missed' = FALSE /\ ClusterOnly

Reread ==
  /\ ui.pc = "reading" /\ ui' = [ui EXCEPT !.pc = "running", !.conf = file.conf]
  /\ missed' = FALSE /\ ClusterOnly

ClusterDies == ui.pc # "off" /\ ui' = Down /\ missed' = FALSE /\ ClusterOnly

-----------------------------------------------------------------------------
(* The file system and the power supply, external to the program. *)

Tick == now < MaxTime /\ now' = now + 1
        /\ UNCHANGED <<file, disk, tmp, put, reply, hub, ui, before, missed>>

\* The kernel writes back what is in memory.
WriteBack ==
  /\ disk # file /\ file' = [file EXCEPT !.synced = TRUE] /\ disk' = file'
  /\ UNCHANGED <<now, tmp, put, reply, hub, ui, before, missed>>

\* The ignition is switched off.
PowerCut ==
  /\ file' \in {disk, IF file.synced THEN file ELSE [file EXCEPT !.conf = Torn, !.synced = TRUE]}
  /\ disk' = file'
  /\ hub' = None /\ put' = IdlePut /\ tmp' = None /\ reply' = "none"
  /\ ui' = Down /\ missed' = FALSE
  /\ UNCHANGED <<now, before>>

SaveStep == Write \/ Sync \/ Replace \/ SaveFails \/ Reload
ClusterStep == ClusterReady \/ Check \/ Reread

Next == \/ Put \/ SaveStep \/ DaemonStarts \/ DaemonDies
        \/ ClusterStarts \/ ClusterStep \/ ClusterDies
        \/ Tick \/ WriteBack \/ PowerCut

Spec == Init /\ [][Next]_vars

\* A save runs to its end, the cluster keeps looking, systemd restarts the daemon.
FairSpec == Spec /\ WF_vars(SaveStep) /\ WF_vars(ClusterStep) /\ WF_vars(DaemonStarts)

-----------------------------------------------------------------------------
TypeOK ==
  /\ now \in 0..MaxTime
  /\ file \in Files /\ disk \in Files /\ tmp \in Files \cup {None}
  /\ put \in [pc : {"idle", "write", "sync", "replace", "reload"}, new : Confs \cup {None}]
  /\ reply \in {"none", "ok", "error"}
  /\ hub \in Confs \cup {None}
  /\ ui \in [pc : {"off", "starting", "running", "reading"}, conf : Confs \cup {None},
             mtime : Nat \cup {None}]
  /\ before \in [file : Confs, hub : Confs] \cup {None}
  /\ missed \in BOOLEAN

\* "Saves are atomic (temp file + rename)": whatever step the power is cut at, the file
\* left is a whole configuration, the old one or the new one.
NeverTorn == file.conf # Torn

\* Between two saves the Hub runs with what the file says, however the last save ended
\* and wherever the daemon was killed: nothing is lost or half applied by its restart.
DaemonFollowsFile == put.pc = "idle" /\ hub # None => hub = file.conf

\* A save the page is told has failed has changed neither the file nor the Hub.
ErrorMeansUnchanged == reply = "error" => before = [file |-> file.conf, hub |-> hub]

\* The cluster shows what the file says as soon as it has caught up with its mtime, unless
\* a save was missed: one made while the cluster was starting, or within one tick of the
\* save the cluster saw last.
ClusterCoherent ==
  ui.pc = "running" /\ ui.mtime = file.mtime /\ ~missed => ui.conf = file.conf

\* A save that is not missed in one of these two ways reaches the cluster.
Quiet == put.pc = "idle" /\ ui.pc \in {"running", "reading"}
SavesReachCluster == <>[](Quiet /\ ~missed) => <>[](ui.conf = file.conf)
=============================================================================
