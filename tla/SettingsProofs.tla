---------------------------- MODULE SettingsProofs ----------------------------
(***************************************************************************)
(* Proofs about Settings, for every set of configurations and every bound  *)
(* on time.  The clock matters to nothing that is proved here: what the    *)
(* cluster knows depends on the order of the mtimes' changes alone.        *)
(***************************************************************************)
EXTENDS Settings, TLAPS

\* What is in config.yaml, and what a power cut leaves of it, is a configuration; so is
\* what a save is about to put there.
Whole ==
  /\ file.conf # Torn /\ file.synced /\ disk.conf # Torn /\ disk.synced
  /\ put.pc \in {"sync", "replace"} => tmp \in Files /\ tmp.conf = put.new
  /\ put.pc = "replace" => tmp.synced

\* Where file and Hub stand at each step of a save, and after a failed one.
Saving ==
  /\ put.pc # "idle" => hub # None /\ put.new \in Confs
  /\ put.pc # "reload" /\ hub # None => hub = file.conf
  /\ put.pc = "reload" => file.conf = put.new
  /\ put.pc \in {"write", "sync", "replace"} => before = [file |-> file.conf, hub |-> hub]
  /\ reply = "error" => put.pc = "idle" /\ hub # None
                        /\ before = [file |-> file.conf, hub |-> hub]

IInv == TypeOK /\ Whole /\ Saving /\ ClusterCoherent

-----------------------------------------------------------------------------
(* The steps. *)

\* Every step keeps every variable in its type.
LEMMA TypeStep ==
  ASSUME TypeOK, Whole, Saving, [Next]_vars
  PROVE  TypeOK'
<1> USE SettingsAssumption DEF TypeOK, Whole, Saving, Files, IdlePut, Down, DaemonUnchanged, ClusterOnly
<1>1. CASE Put
  BY <1>1 DEF Put
<1>2. CASE Write
  BY <1>2 DEF Write
<1>3. CASE Sync
  BY <1>3 DEF Sync
<1>4. CASE Replace
  BY <1>4 DEF Replace
<1>5. CASE SaveFails
  BY <1>5 DEF SaveFails
<1>6. CASE Reload
  BY <1>6 DEF Reload
<1>7. CASE DaemonStarts
  BY <1>7 DEF DaemonStarts
<1>8. CASE DaemonDies
  BY <1>8 DEF DaemonDies
<1>9. CASE ClusterStarts
  BY <1>9 DEF ClusterStarts
<1>10. CASE ClusterReady
  BY <1>10 DEF ClusterReady
<1>11. CASE Check
  BY <1>11 DEF Check
<1>12. CASE Reread
  BY <1>12 DEF Reread
<1>13. CASE ClusterDies
  BY <1>13 DEF ClusterDies
<1>14. CASE Tick
  BY <1>14 DEF Tick
<1>15. CASE WriteBack
  <2>1. [file EXCEPT !.synced = TRUE] \in Files
    OBVIOUS
  <2>2. file' \in Files /\ disk' \in Files
    BY <1>15, <2>1 DEF WriteBack
  <2>3. QED
    BY <1>15, <2>2 DEF WriteBack
<1>16. CASE PowerCut
  BY <1>16 DEF PowerCut
<1>17. CASE UNCHANGED vars
  BY <1>17 DEF vars
<1>18. QED
  BY <1>1, <1>2, <1>3, <1>4, <1>5, <1>6, <1>7, <1>8, <1>9,
     <1>10, <1>11, <1>12, <1>13, <1>14, <1>15, <1>16, <1>17
     DEF Next, SaveStep, ClusterStep

\* A rename brings in only what an fsync has put on the card.
LEMMA WholeStep ==
  ASSUME TypeOK, Whole, Saving, [Next]_vars
  PROVE  Whole'
<1> USE SettingsAssumption DEF TypeOK, Whole, Saving, Files, IdlePut, DaemonUnchanged, ClusterOnly
<1>1. CASE Put
  BY <1>1 DEF Put
<1>2. CASE Write
  BY <1>2 DEF Write
<1>3. CASE Sync
  BY <1>3 DEF Sync
<1>4. CASE Replace
  BY <1>4 DEF Replace
<1>5. CASE SaveFails
  BY <1>5 DEF SaveFails
<1>6. CASE Reload
  BY <1>6 DEF Reload
<1>7. CASE DaemonStarts
  BY <1>7 DEF DaemonStarts
<1>8. CASE DaemonDies
  BY <1>8 DEF DaemonDies
<1>9. CASE ClusterStarts
  BY <1>9 DEF ClusterStarts
<1>10. CASE ClusterReady
  BY <1>10 DEF ClusterReady
<1>11. CASE Check
  BY <1>11 DEF Check
<1>12. CASE Reread
  BY <1>12 DEF Reread
<1>13. CASE ClusterDies
  BY <1>13 DEF ClusterDies
<1>14. CASE Tick
  BY <1>14 DEF Tick
<1>15. CASE WriteBack
  BY <1>15 DEF WriteBack
<1>16. CASE PowerCut
  BY <1>16 DEF PowerCut
<1>17. CASE UNCHANGED vars
  BY <1>17 DEF vars
<1>18. QED
  BY <1>1, <1>2, <1>3, <1>4, <1>5, <1>6, <1>7, <1>8, <1>9,
     <1>10, <1>11, <1>12, <1>13, <1>14, <1>15, <1>16, <1>17
     DEF Next, SaveStep, ClusterStep

\* A save changes the file and then the Hub, and nothing before the rename.
LEMMA SavingStep ==
  ASSUME TypeOK, Whole, Saving, [Next]_vars
  PROVE  Saving'
<1> USE SettingsAssumption DEF TypeOK, Whole, Saving, Files, IdlePut, DaemonUnchanged, ClusterOnly
<1>1. CASE Put
  BY <1>1 DEF Put
<1>2. CASE Write
  BY <1>2 DEF Write
<1>3. CASE Sync
  BY <1>3 DEF Sync
<1>4. CASE Replace
  BY <1>4 DEF Replace
<1>5. CASE SaveFails
  BY <1>5 DEF SaveFails
<1>6. CASE Reload
  BY <1>6 DEF Reload
<1>7. CASE DaemonStarts
  BY <1>7 DEF DaemonStarts
<1>8. CASE DaemonDies
  BY <1>8 DEF DaemonDies
<1>9. CASE ClusterStarts
  BY <1>9 DEF ClusterStarts
<1>10. CASE ClusterReady
  BY <1>10 DEF ClusterReady
<1>11. CASE Check
  BY <1>11 DEF Check
<1>12. CASE Reread
  BY <1>12 DEF Reread
<1>13. CASE ClusterDies
  BY <1>13 DEF ClusterDies
<1>14. CASE Tick
  BY <1>14 DEF Tick
<1>15. CASE WriteBack
  BY <1>15 DEF WriteBack
<1>16. CASE PowerCut
  BY <1>16 DEF PowerCut
<1>17. CASE UNCHANGED vars
  BY <1>17 DEF vars
<1>18. QED
  BY <1>1, <1>2, <1>3, <1>4, <1>5, <1>6, <1>7, <1>8, <1>9,
     <1>10, <1>11, <1>12, <1>13, <1>14, <1>15, <1>16, <1>17
     DEF Next, SaveStep, ClusterStep

\* A save that leaves the remembered mtime what it was is a missed one.
LEMMA CoherentStep ==
  ASSUME TypeOK, Whole, Saving, ClusterCoherent, [Next]_vars
  PROVE  ClusterCoherent'
<1> USE SettingsAssumption DEF TypeOK, Whole, Saving, ClusterCoherent, Files, IdlePut, Down, DaemonUnchanged, ClusterOnly
<1>1. CASE Put
  BY <1>1 DEF Put
<1>2. CASE Write
  BY <1>2 DEF Write
<1>3. CASE Sync
  BY <1>3 DEF Sync
<1>4. CASE Replace
  BY <1>4 DEF Replace
<1>5. CASE SaveFails
  BY <1>5 DEF SaveFails
<1>6. CASE Reload
  BY <1>6 DEF Reload
<1>7. CASE DaemonStarts
  BY <1>7 DEF DaemonStarts
<1>8. CASE DaemonDies
  BY <1>8 DEF DaemonDies
<1>9. CASE ClusterStarts
  BY <1>9 DEF ClusterStarts
<1>10. CASE ClusterReady
  BY <1>10 DEF ClusterReady
<1>11. CASE Check
  BY <1>11 DEF Check
<1>12. CASE Reread
  BY <1>12 DEF Reread
<1>13. CASE ClusterDies
  BY <1>13 DEF ClusterDies
<1>14. CASE Tick
  BY <1>14 DEF Tick
<1>15. CASE WriteBack
  BY <1>15 DEF WriteBack
<1>16. CASE PowerCut
  BY <1>16 DEF PowerCut
<1>17. CASE UNCHANGED vars
  BY <1>17 DEF vars
<1>18. QED
  BY <1>1, <1>2, <1>3, <1>4, <1>5, <1>6, <1>7, <1>8, <1>9,
     <1>10, <1>11, <1>12, <1>13, <1>14, <1>15, <1>16, <1>17
     DEF Next, SaveStep, ClusterStep

-----------------------------------------------------------------------------
(* The theorems. *)

LEMMA Initially == Init => IInv
<1>1. SUFFICES ASSUME Init PROVE IInv
  OBVIOUS
<1>2. PICK c \in Confs : file = [conf |-> c, mtime |-> 0, synced |-> TRUE]
  BY <1>1 DEF Init
<1>3. file \in Files /\ disk = file /\ file.conf = c /\ file.synced
  BY <1>1, <1>2 DEF Init, Files
<1>4. TypeOK
  <2>1. put \in [pc : {"idle", "write", "sync", "replace", "reload"}, new : Confs \cup {None}]
    BY <1>1 DEF Init, IdlePut
  <2>2. ui \in [pc : {"off", "starting", "running", "reading"}, conf : Confs \cup {None},
               mtime : Nat \cup {None}]
    BY <1>1 DEF Init, Down
  <2>3. now \in 0..MaxTime
    BY <1>1, SettingsAssumption DEF Init
  <2>4. QED
    BY <1>1, <1>3, <2>1, <2>2, <2>3 DEF Init, TypeOK
<1>5. Whole /\ Saving /\ ClusterCoherent
  BY <1>1, <1>3, SettingsAssumption
     DEF Init, Whole, Saving, ClusterCoherent, IdlePut, Down
<1>6. QED
  BY <1>4, <1>5 DEF IInv

\* Settings.tla's inductive invariant: save_atomic and put_config, and the cluster's polling.
THEOREM Inductive == Spec => []IInv
<1>1. IInv /\ [Next]_vars => IInv'
  BY TypeStep, WholeStep, SavingStep, CoherentStep DEF IInv
<1>2. QED
  BY Initially, <1>1, PTL DEF Spec

\* The file, the save, the Hub and the cluster are always values of their types: in
\* particular neither reader ever starts on anything but a configuration.
THEOREM TypeCorrect == Spec => []TypeOK
BY Inductive, PTL DEF IInv

\* save_atomic: wherever the power is cut, config.yaml is a whole configuration.
THEOREM SavesAreAtomic == Spec => []NeverTorn
<1>1. IInv => NeverTorn
  BY DEF IInv, Whole, NeverTorn
<1>2. QED
  BY <1>1, Inductive, PTL

\* put_config: between two saves the Hub runs with what the file says, after a failed
\* save, a killed daemon and a power cut too.
THEOREM HubFollowsFile == Spec => []DaemonFollowsFile
<1>1. IInv => DaemonFollowsFile
  BY DEF IInv, Saving, DaemonFollowsFile
<1>2. QED
  BY <1>1, Inductive, PTL

\* put_config: an answer of "cannot write config" means that nothing has changed.
THEOREM FailedSavesChangeNothing == Spec => []ErrorMeansUnchanged
<1>1. IInv => ErrorMeansUnchanged
  BY DEF IInv, Saving, ErrorMeansUnchanged
<1>2. QED
  BY <1>1, Inductive, PTL

\* s300ui main(): a cluster that has seen the file's mtime shows the file, unless it missed
\* a save while it was starting or within a tick of the one it saw.
THEOREM ClusterCatchesUp == Spec => []ClusterCoherent
<1>1. IInv => ClusterCoherent
  BY DEF IInv
<1>2. QED
  BY <1>1, Inductive, PTL
=============================================================================
