------------------------------ MODULE HubProofs ------------------------------
(***************************************************************************)
(* Proofs about Hub, for every set of configurations and channel lists.    *)
(***************************************************************************)
EXTENDS Hub, TLAPS

\* What _channel_list says of the engine, and of the source, as ingest goes along.
Lists ==
  /\ asy.pc \in {"clear", "republish"} => engine # None
  /\ ing.pc # "assign" /\ engine # None => engine.list = chList
  /\ ing.pc = "assign" => ing.fresh # None /\ ing.fresh.list = chList
  /\ ing.pc \in {"assign", "afr", "derive", "update", "publish"} => chList = src.list

\* The engine holds the latch, and is not about to be replaced.
Holds == /\ engine # None /\ engine.critical /\ engine.latched
         /\ chList = src.list /\ ing.pc \notin {"build", "assign", "afr"}

\* As long as nothing has happened that may end it, a latch on the screen, and one about
\* to be put there, is the engine's.
Causes ==
  /\ asy.pc \in {"clear", "republish"} => cause # {}
  /\ cause = {} /\ shown.alarms = "latched" => Holds
  /\ cause = {} /\ ing.pc = "publish" /\ ing.active = "latched" => Holds
  /\ cause = {} /\ shown.alarms = "latched" /\ ing.pc = "publish" => ing.active = "latched"

IInv == TypeOK /\ Lists /\ Causes

-----------------------------------------------------------------------------
(* The engine. *)

\* A new engine is an engine, for the list it was built for.
LEMMA NewEngineIsEngine ==
  ASSUME NEW r \in Confs, NEW l \in ChannelLists
  PROVE  /\ NewEngine(r, l) \in Engines
         /\ NewEngine(r, l).list = l
         /\ NewEngine(r, l) # None
<1>1. NewEngine(r, l) \in Engines /\ NewEngine(r, l).list = l
  BY DEF NewEngine, Engines
<1>2. NewEngine(r, l) # None
  BY <1>1, HubAssumption
<1>3. QED
  BY <1>1, <1>2

\* update() keeps the rules and the list, never ends a latched critical, and sets the
\* latch only together with the level.
LEMMA UpdatedIsEngine ==
  ASSUME NEW e \in Engines, NEW v \in Readings
  PROVE  /\ Updated(e, v) \in Engines
         /\ Updated(e, v).list = e.list
         /\ e.latched => Updated(e, v).latched
         /\ e.critical /\ e.latched => Updated(e, v).critical
         /\ Updated(e, v).latched /\ ~e.latched => Updated(e, v).critical
         /\ Updated(e, v) # None
BY HubAssumption DEF Updated, Engines, Readings

\* What is published of an engine, and that "latched" is published of no other engine.
LEMMA ActiveIsShown ==
  ASSUME NEW e \in Engines
  PROVE  /\ Active(e) \in Shown
         /\ Active(e) = "latched" <=> e.critical /\ e.latched
BY DEF Active, Shown, Engines

\* ack() changes an engine to an engine for the same list.
LEMMA AckedIsEngine ==
  ASSUME NEW e \in Engines
  PROVE  /\ [e EXCEPT !.latched = FALSE] \in Engines
         /\ [e EXCEPT !.critical = FALSE] \in Engines
         /\ [e EXCEPT !.latched = FALSE].list = e.list
         /\ [e EXCEPT !.critical = FALSE].list = e.list
         /\ [e EXCEPT !.latched = FALSE] # None /\ [e EXCEPT !.critical = FALSE] # None
BY HubAssumption DEF Engines

-----------------------------------------------------------------------------
(* The steps. *)

\* Every step keeps every variable in its type.
LEMMA TypeStep ==
  ASSUME TypeOK, Lists, [Next]_vars
  PROVE  TypeOK'
<1> USE DEF TypeOK, Lists, SourceOnly, AsyncOnly
<1>1. CASE LinkUp
  BY <1>1 DEF LinkUp
<1>2. CASE LinkDown
  BY <1>2 DEF LinkDown
<1>3. CASE Ingest
  <2>1. ing' \in [pc : {"idle", "build", "assign", "afr", "derive", "update", "publish"},
                   frame : Readings, fresh : Engines \cup {None}, active : Shown,
                   shift : Confs \cup {None}]
    BY <1>3 DEF Ingest, stale
  <2>2. QED
    BY <1>3, <2>1 DEF Ingest, stale
<1>4. CASE BuildEngine
  BY <1>4, NewEngineIsEngine DEF BuildEngine
<1>5. CASE AssignEngine
  BY <1>5 DEF AssignEngine
<1>6. CASE SetAfr
  BY <1>6 DEF SetAfr
<1>7. CASE Derive
  BY <1>7 DEF Derive
<1>8. CASE UpdateEngine
  <2>1. ing' \in [pc : {"idle", "build", "assign", "afr", "derive", "update", "publish"},
                   frame : Readings, fresh : Engines \cup {None}, active : Shown,
                   shift : Confs \cup {None}]
    BY <1>8, UpdatedIsEngine, ActiveIsShown DEF UpdateEngine
  <2>2. QED
    BY <1>8, <2>1, UpdatedIsEngine, ActiveIsShown DEF UpdateEngine
<1>9. CASE EngineGone
  BY <1>9 DEF EngineGone
<1>10. CASE Publish
  BY <1>10 DEF Publish
<1>11. CASE Reload
  <2>1. asy' \in [pc : {"idle", "stages", "reset", "clear", "republish"}, conf : Confs,
                   target : BOOLEAN]
    BY <1>11 DEF Reload
  <2>2. QED
    BY <1>11, <2>1 DEF Reload
<1>12. CASE ReloadStages
  BY <1>12 DEF ReloadStages
<1>13. CASE ReloadEngine
  BY <1>13 DEF ReloadEngine
<1>14. CASE Ack
  BY <1>14, AckedIsEngine DEF Ack
<1>15. CASE AckClear
  <2>1. asy' \in [pc : {"idle", "stages", "reset", "clear", "republish"}, conf : Confs,
                   target : BOOLEAN]
    BY <1>15 DEF AckClear
  <2>2. engine \in Engines
    BY <1>15 DEF AckClear
  <2>3. engine' \in Engines
    BY <1>15, <2>2, AckedIsEngine DEF AckClear
  <2>4. QED
    BY <1>15, <2>1, <2>3 DEF AckClear
<1>16. CASE AckPublish
  BY <1>16, ActiveIsShown DEF AckPublish
<1>17. CASE UNCHANGED vars
  BY <1>17 DEF vars
<1>18. QED
  BY <1>1, <1>2, <1>3, <1>4, <1>5, <1>6, <1>7, <1>8,
     <1>9, <1>10, <1>11, <1>12, <1>13, <1>14, <1>15, <1>16, <1>17
     DEF Next, IngestStep, OpStep

\* Every step keeps the engine, and the list it is taken to be for, in agreement.
LEMMA ListsStep ==
  ASSUME TypeOK, Lists, [Next]_vars
  PROVE  Lists'
<1> USE DEF TypeOK, Lists, SourceOnly, AsyncOnly
<1>1. CASE LinkUp
  BY <1>1 DEF LinkUp
<1>2. CASE LinkDown
  BY <1>2 DEF LinkDown
<1>3. CASE Ingest
  BY <1>3 DEF Ingest, stale
<1>4. CASE BuildEngine
  BY <1>4, NewEngineIsEngine DEF BuildEngine
<1>5. CASE AssignEngine
  BY <1>5 DEF AssignEngine
<1>6. CASE SetAfr
  BY <1>6 DEF SetAfr
<1>7. CASE Derive
  BY <1>7 DEF Derive
<1>8. CASE UpdateEngine
  BY <1>8, UpdatedIsEngine, ActiveIsShown DEF UpdateEngine
<1>9. CASE EngineGone
  BY <1>9 DEF EngineGone
<1>10. CASE Publish
  BY <1>10 DEF Publish
<1>11. CASE Reload
  BY <1>11 DEF Reload
<1>12. CASE ReloadStages
  BY <1>12 DEF ReloadStages
<1>13. CASE ReloadEngine
  BY <1>13 DEF ReloadEngine
<1>14. CASE Ack
  BY <1>14, AckedIsEngine DEF Ack
<1>15. CASE AckClear
  BY <1>15, AckedIsEngine DEF AckClear
<1>16. CASE AckPublish
  BY <1>16, ActiveIsShown DEF AckPublish
<1>17. CASE UNCHANGED vars
  BY <1>17 DEF vars
<1>18. QED
  BY <1>1, <1>2, <1>3, <1>4, <1>5, <1>6, <1>7, <1>8,
     <1>9, <1>10, <1>11, <1>12, <1>13, <1>14, <1>15, <1>16, <1>17
     DEF Next, IngestStep, OpStep

\* A latch goes only through an ack, a reload or a new channel list.
LEMMA CausesStep ==
  ASSUME TypeOK, Lists, Causes, [Next]_vars
  PROVE  Causes'
<1> USE DEF TypeOK, Lists, Causes, Holds, SourceOnly, AsyncOnly
<1>1. CASE LinkUp
  BY <1>1 DEF LinkUp
<1>2. CASE LinkDown
  BY <1>2 DEF LinkDown
<1>3. CASE Ingest
  BY <1>3 DEF Ingest, stale
<1>4. CASE BuildEngine
  BY <1>4, NewEngineIsEngine DEF BuildEngine
<1>5. CASE AssignEngine
  BY <1>5 DEF AssignEngine
<1>6. CASE SetAfr
  BY <1>6 DEF SetAfr
<1>7. CASE Derive
  BY <1>7 DEF Derive
<1>8. CASE UpdateEngine
  BY <1>8, UpdatedIsEngine, ActiveIsShown DEF UpdateEngine
<1>9. CASE EngineGone
  BY <1>9 DEF EngineGone
<1>10. CASE Publish
  BY <1>10 DEF Publish
<1>11. CASE Reload
  BY <1>11 DEF Reload
<1>12. CASE ReloadStages
  BY <1>12 DEF ReloadStages
<1>13. CASE ReloadEngine
  BY <1>13 DEF ReloadEngine
<1>14. CASE Ack
  BY <1>14, AckedIsEngine DEF Ack
<1>15. CASE AckClear
  BY <1>15, AckedIsEngine DEF AckClear
<1>16. CASE AckPublish
  BY <1>16, ActiveIsShown DEF AckPublish
<1>17. CASE UNCHANGED vars
  BY <1>17 DEF vars
<1>18. QED
  BY <1>1, <1>2, <1>3, <1>4, <1>5, <1>6, <1>7, <1>8,
     <1>9, <1>10, <1>11, <1>12, <1>13, <1>14, <1>15, <1>16, <1>17
     DEF Next, IngestStep, OpStep

\* The step that takes a latched critical off the screen has a cause behind it.
LEMMA DroppedStep ==
  ASSUME TypeOK, Lists, Causes, [Next]_vars
  PROVE  Dropped => cause # {}
<1> USE DEF TypeOK, Lists, Causes, Holds, Dropped, SourceOnly, AsyncOnly
<1>1. CASE LinkUp
  BY <1>1 DEF LinkUp
<1>2. CASE LinkDown
  BY <1>2 DEF LinkDown
<1>3. CASE Ingest
  BY <1>3 DEF Ingest, stale
<1>4. CASE BuildEngine
  BY <1>4, NewEngineIsEngine DEF BuildEngine
<1>5. CASE AssignEngine
  BY <1>5 DEF AssignEngine
<1>6. CASE SetAfr
  BY <1>6 DEF SetAfr
<1>7. CASE Derive
  BY <1>7 DEF Derive
<1>8. CASE UpdateEngine
  BY <1>8, UpdatedIsEngine, ActiveIsShown DEF UpdateEngine
<1>9. CASE EngineGone
  BY <1>9 DEF EngineGone
<1>10. CASE Publish
  BY <1>10 DEF Publish
<1>11. CASE Reload
  BY <1>11 DEF Reload
<1>12. CASE ReloadStages
  BY <1>12 DEF ReloadStages
<1>13. CASE ReloadEngine
  BY <1>13 DEF ReloadEngine
<1>14. CASE Ack
  BY <1>14, AckedIsEngine DEF Ack
<1>15. CASE AckClear
  BY <1>15, AckedIsEngine DEF AckClear
<1>16. CASE AckPublish
  BY <1>16, ActiveIsShown DEF AckPublish
<1>17. CASE UNCHANGED vars
  BY <1>17 DEF vars
<1>18. QED
  BY <1>1, <1>2, <1>3, <1>4, <1>5, <1>6, <1>7, <1>8,
     <1>9, <1>10, <1>11, <1>12, <1>13, <1>14, <1>15, <1>16, <1>17
     DEF Next, IngestStep, OpStep

-----------------------------------------------------------------------------
(* The theorems. *)

\* The inductive invariant holds in every reachable state.
THEOREM Inductive == Spec => []IInv
<1>1. Init => IInv
  <2> SUFFICES ASSUME Init PROVE IInv
    OBVIOUS
  <2>1. TypeOK
    BY HubAssumption DEF Init, TypeOK, Shown, Readings
  <2>2. Lists /\ Causes
    BY DEF Init, Lists, Causes, Holds
  <2>3. QED
    BY <2>1, <2>2 DEF IInv
<1>2. IInv /\ [Next]_vars => IInv'
  BY TypeStep, ListsStep, CausesStep DEF IInv
<1>3. QED
  BY <1>1, <1>2, PTL DEF Spec

\* Type correctness.
THEOREM TypeCorrect == Spec => []TypeOK
<1>1. IInv => TypeOK
  BY DEF IInv
<1>2. QED
  BY <1>1, Inductive, PTL

\* A frame is judged only by an engine built for its channel list.
THEOREM EngineIsForTheList == Spec => []EngineMatchesList
<1>1. IInv => EngineMatchesList
  BY DEF IInv, Lists, EngineMatchesList
<1>2. QED
  BY <1>1, Inductive, PTL

\* No race between ingest and ack takes a latched critical off the screen.
THEOREM LatchNeedsACause == Spec => LatchHasCause
<1>1. IInv /\ [Next]_vars => [Dropped => cause # {}]_vars
  BY DroppedStep DEF IInv
<1>2. QED
  BY <1>1, Inductive, PTL DEF Spec, LatchHasCause
=============================================================================
