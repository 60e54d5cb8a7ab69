--------------------------------- MODULE Hub ---------------------------------
(***************************************************************************)
(* The latest-value store of s300d/server.py, class Hub, shared by the     *)
(* source thread (ingest) and the asyncio thread (reload, command).        *)
(*                                                                         *)
(* Only the last writes of each operation are made under Hub.lock; the     *)
(* engine is tested, built, stored and used without it.  A step ends where *)
(* the other thread may run.  The engine holds one rule that needs one     *)
(* sample (AlarmEngine has the rest), and a frame is "hot", beyond         *)
(* critical, or "cool", inside the clear band.                             *)
(***************************************************************************)
EXTENDS Naturals

CONSTANTS Confs,          \* saved configurations: alarm rules and shift stages
          ChannelLists,   \* the channel lists the ECU can be set up with
          None            \* Python's None

Readings == {"hot", "cool"}
Shown == {"none", "latched", "acked"}
Engines == [rules : Confs, list : ChannelLists, critical : BOOLEAN, latched : BOOLEAN,
            value : Readings \cup {None}]

ASSUME HubAssumption ==
  /\ Confs # {} /\ ChannelLists # {}
  /\ None \notin Engines \cup ChannelLists \cup Confs \cup Readings

VARIABLES
  src,           \* the source, as ingest sees it: .streaming, frames arrive; .list, its
                 \* channel_list; .alive, its thread has not died of an exception
  \* attributes of the Hub
  alarm_rules, shift_stages,
  engine,        \* the AlarmEngine, or None: to be rebuilt
  chList,        \* _channel_list, the list the engine is taken to be built for
  shown,         \* what snapshot() reads: .alarms; .shift, the stages d was derived
                 \* with; .afr, the list afr_available was computed from
  \* the two threads
  ing,           \* ingest: .pc and its locals .frame, .fresh (the engine just
                 \* constructed), .active and .shift (the stages d was derived with)
  asy,           \* asyncio: .pc, the .conf being reloaded, and .target: the engine being
                 \* acknowledged is still Hub.engine
  \* history
  cause          \* what since the latest trip may take a critical off the screen: a set
                 \* of "ack", "reload" and "channels"

vars == <<src, alarm_rules, shift_stages, engine, chList, shown, ing, asy, cause>>

Init ==
  /\ \E l \in ChannelLists : src = [streaming |-> FALSE, list |-> l, alive |-> TRUE]
  /\ alarm_rules \in Confs /\ shift_stages = alarm_rules
  /\ engine = None /\ chList = None
  /\ shown = [alarms |-> "none", shift |-> None, afr |-> None]
  /\ ing = [pc |-> "idle", frame |-> "cool", fresh |-> None, active |-> "none", shift |-> None]
  /\ asy = [pc |-> "idle", conf |-> alarm_rules, target |-> FALSE]
  /\ cause = {}

-----------------------------------------------------------------------------
(* The engine, for one rule with samples = 1. *)

NewEngine(rules, l) ==
  [rules |-> rules, list |-> l, critical |-> FALSE, latched |-> FALSE, value |-> None]

\* AlarmEngine.update: trips on hot, ends an acknowledged critical on cool.
Updated(e, v) ==
  IF v = "hot"
    THEN [e EXCEPT !.value = v, !.critical = TRUE, !.latched = @ \/ ~e.critical]
    ELSE [e EXCEPT !.value = v, !.critical = @ /\ e.latched]

\* AlarmEngine.active, what is published of the engine.
Active(e) == IF ~e.critical THEN "none" ELSE IF e.latched THEN "latched" ELSE "acked"

-----------------------------------------------------------------------------
(* The source thread: the link, and ingest in its steps. *)

\* What most steps of the source thread, and of the asyncio thread, leave alone.
SourceOnly == UNCHANGED <<alarm_rules, shift_stages, asy>>
AsyncOnly == UNCHANGED <<src, chList, ing>>

LinkUp ==
  /\ src.alive /\ ~src.streaming /\ ing.pc = "idle"
  /\ \E l \in ChannelLists :
       /\ src' = [src EXCEPT !.streaming = TRUE, !.list = l]
       /\ cause' = IF l = src.list THEN cause ELSE cause \cup {"channels"}
  /\ SourceOnly /\ UNCHANGED <<engine, chList, shown, ing>>

LinkDown ==
  /\ src.streaming /\ ing.pc = "idle" /\ src' = [src EXCEPT !.streaming = FALSE]
  /\ SourceOnly /\ UNCHANGED <<engine, chList, shown, ing, cause>>

\* Mutant: only a missing engine is rebuilt, not one for another channel list.
stale_OnlyMissing == engine = None

\* Mutant: the lists never compare equal, so every frame gets a fresh engine.
stale_Always == TRUE

\* Is an engine for this channel list missing?
stale == engine = None \/ chList # src.list

\* A frame is ingested.
Ingest ==
  /\ src.alive /\ src.streaming /\ ing.pc = "idle"
  /\ \E v \in Readings :
       ing' = [ing EXCEPT !.frame = v, !.pc = IF stale THEN "build" ELSE "derive"]
  /\ SourceOnly /\ UNCHANGED <<src, engine, chList, shown, cause>>

\* AlarmEngine(self.alarm_rules, channel_list): the rules are read, the engine is built.
BuildEngine ==
  /\ ing.pc = "build" /\ chList' = src.list
  /\ ing' = [ing EXCEPT !.pc = "assign", !.fresh = NewEngine(alarm_rules, src.list)]
  /\ SourceOnly /\ UNCHANGED <<src, engine, shown, cause>>

AssignEngine ==
  /\ ing.pc = "assign" /\ engine' = ing.fresh
  /\ ing' = [ing EXCEPT !.pc = "afr", !.fresh = None]
  /\ asy' = [asy EXCEPT !.target = FALSE]
  /\ UNCHANGED <<src, alarm_rules, shift_stages, chList, shown, cause>>

\* Mutant: afr_available is computed once.
SetAfr_Once ==
  /\ ing.pc = "afr" /\ ing' = [ing EXCEPT !.pc = "derive"]
  /\ shown' = IF shown.afr = None THEN [shown EXCEPT !.afr = src.list] ELSE shown
  /\ SourceOnly /\ UNCHANGED <<src, engine, chList, cause>>

SetAfr ==
  /\ ing.pc = "afr" /\ ing' = [ing EXCEPT !.pc = "derive"]
  /\ shown' = [shown EXCEPT !.afr = src.list]
  /\ SourceOnly /\ UNCHANGED <<src, engine, chList, cause>>

Derive ==
  /\ ing.pc = "derive" /\ ing' = [ing EXCEPT !.pc = "update", !.shift = shift_stages]
  /\ SourceOnly /\ UNCHANGED <<src, engine, chList, shown, cause>>

\* self.engine.update(d, now).  A trip forgets what came before it, unless an ack is
\* still at work.
UpdateEngine ==
  /\ ing.pc = "update" /\ engine # None
  /\ engine' = Updated(engine, ing.frame)
  /\ ing' = [ing EXCEPT !.pc = "publish", !.active = Active(engine')]
  /\ cause' = IF engine'.latched /\ ~engine.latched /\ asy.pc \notin {"clear", "republish"}
                THEN {} ELSE cause
  /\ SourceOnly /\ UNCHANGED <<src, chList, shown>>

\* A reload took the engine away in between: AttributeError, the source thread dies.
EngineGone ==
  /\ ing.pc = "update" /\ engine = None
  /\ src' = [src EXCEPT !.alive = FALSE] /\ ing' = [ing EXCEPT !.pc = "idle"]
  /\ SourceOnly /\ UNCHANGED <<engine, chList, shown, cause>>

\* The locked part.
Publish ==
  /\ ing.pc = "publish" /\ ing' = [ing EXCEPT !.pc = "idle"]
  /\ shown' = [shown EXCEPT !.alarms = ing.active, !.shift = ing.shift]
  /\ SourceOnly /\ UNCHANGED <<src, engine, chList, cause>>

IngestStep == BuildEngine \/ AssignEngine \/ SetAfr \/ Derive \/ UpdateEngine \/ EngineGone
              \/ Publish

-----------------------------------------------------------------------------
(* The asyncio thread. *)

\* reload(conf), after a save: the rules, the stages, then the engine.
Reload ==
  /\ asy.pc = "idle" /\ alarm_rules' \in Confs
  /\ asy' = [asy EXCEPT !.pc = "stages", !.conf = alarm_rules']
  /\ AsyncOnly /\ UNCHANGED <<shift_stages, engine, shown, cause>>

ReloadStages ==
  /\ asy.pc = "stages" /\ shift_stages' = asy.conf /\ asy' = [asy EXCEPT !.pc = "reset"]
  /\ AsyncOnly /\ UNCHANGED <<alarm_rules, engine, shown, cause>>

\* Changed scaling also bounces the source: LinkDown, then LinkUp.
ReloadEngine ==
  /\ asy.pc = "reset" /\ engine' = None /\ cause' = cause \cup {"reload"}
  /\ asy' = [asy EXCEPT !.pc = "idle"]
  /\ AsyncOnly /\ UNCHANGED <<alarm_rules, shift_stages, shown>>

\* ack_alarms.  Without an engine it does nothing.  Else AlarmEngine.ack drops the latch
\* and, the value being back, goes on to _clear.
Ack ==
  /\ asy.pc = "idle" /\ engine # None
  /\ engine' = [engine EXCEPT !.latched = FALSE]
  /\ cause' = cause \cup {"ack"}
  /\ asy' = [asy EXCEPT !.target = TRUE,
               !.pc = IF engine.latched /\ engine.critical /\ engine.value = "cool"
                        THEN "clear" ELSE "republish"]
  /\ AsyncOnly /\ UNCHANGED <<alarm_rules, shift_stages, shown>>

AckClear ==
  /\ asy.pc = "clear" /\ asy' = [asy EXCEPT !.pc = "republish"]
  /\ engine' = IF asy.target THEN [engine EXCEPT !.critical = FALSE] ELSE engine
  /\ AsyncOnly /\ UNCHANGED <<alarm_rules, shift_stages, shown, cause>>

AckPublish ==
  /\ asy.pc = "republish" /\ shown' = [shown EXCEPT !.alarms = Active(engine)]
  /\ asy' = [asy EXCEPT !.pc = "idle", !.target = FALSE]
  /\ AsyncOnly /\ UNCHANGED <<alarm_rules, shift_stages, engine, cause>>

OpStep == ReloadStages \/ ReloadEngine \/ AckClear \/ AckPublish

Next == LinkUp \/ LinkDown \/ Ingest \/ IngestStep \/ Reload \/ Ack \/ OpStep

Spec == Init /\ [][Next]_vars

\* Both threads run on; while the link streams, frames keep coming.
FairSpec == Spec /\ WF_vars(IngestStep) /\ WF_vars(OpStep) /\ WF_vars(Ingest)

-----------------------------------------------------------------------------
TypeOK ==
  /\ src \in [streaming : BOOLEAN, list : ChannelLists, alive : BOOLEAN]
  /\ alarm_rules \in Confs /\ shift_stages \in Confs
  /\ engine \in Engines \cup {None} /\ chList \in ChannelLists \cup {None}
  /\ shown \in [alarms : Shown, shift : Confs \cup {None}, afr : ChannelLists \cup {None}]
  /\ ing \in [pc : {"idle", "build", "assign", "afr", "derive", "update", "publish"},
              frame : Readings, fresh : Engines \cup {None}, active : Shown,
              shift : Confs \cup {None}]
  /\ asy \in [pc : {"idle", "stages", "reset", "clear", "republish"}, conf : Confs,
              target : BOOLEAN]
  /\ cause \subseteq {"ack", "reload", "channels"}

\* A frame is judged only by an engine built for the channel list it was decoded with,
\* whatever reloads and reconnections came in between.
EngineMatchesList == ing.pc = "update" /\ engine # None => engine.list = src.list

\* No race between ingest and ack takes a latched critical off the screen: it takes an
\* ack, a reload or a new channel list since the critical tripped.  (settings.py:274 says
\* "Critical alarms latch until Ack."; any save is a reload, and drops them too.)
Dropped == shown.alarms = "latched" /\ shown.alarms' # "latched"
LatchHasCause == [][Dropped => cause # {}]_vars

\* Whatever was published out of order by an ack or a reload during an ingest is put right
\* by the frames that follow: in the end the alarm published is the engine's, and
\* afr_available and the shift stages belong to the current list and configuration.
Settled ==
  /\ engine # None /\ shown.alarms = Active(engine)
  /\ engine.list = src.list /\ shown.afr = src.list /\ shown.shift = shift_stages
PublishedSettles ==
  <>[](asy.pc = "idle" /\ src.streaming /\ src.alive) => []<>Settled

-----------------------------------------------------------------------------
(* What the documentation says and the code does not do. *)

\* server.py:98 "Alarm/shift changes take effect on the next frame."
ReloadTakesEffect ==
  <>[](asy.pc = "idle" /\ src.streaming) => []<>(engine # None /\ engine.rules = alarm_rules)
=============================================================================
