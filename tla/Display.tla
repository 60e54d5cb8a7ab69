------------------------------- MODULE Display -------------------------------
(***************************************************************************)
(* What the cluster makes of the rule and the readings of AlarmEngine: the *)
(* colour of a tile and of a needle, and the bands of an analog gauge      *)
(* (s300ui/layout.py, s300ui/render.py).                                   *)
(*                                                                         *)
(* A message carries the readings of a frame and the alarms after it, so   *)
(* that the last sample of `trail` is what the tile shows while `level` is *)
(* in the banner.  The cluster goes by the same rule: that it reads it     *)
(* from the file again is modelled in Settings.  Of a disabled rule there  *)
(* are neither alarms nor colours.                                         *)
(***************************************************************************)
EXTENDS AlarmEngine

CONSTANTS Low, High   \* the range of the gauge

ASSUME ScaleAssumption == Low \in Int /\ High \in Int /\ Low < High

\* The sensors whose tiles have a rule are those of threshold rules.
Coloured == rule.type = "threshold"

\* beyond, the lambda of tile_color: never inclusive.
Past(v, threshold) == IF rule.direction = "below" THEN v < threshold ELSE v > threshold

\* Mutant: the direction of the rule is not passed on.
TileLevel_Above(v) ==
  IF v > rule.critical THEN "critical" ELSE IF v > rule.warn THEN "warn" ELSE "none"

\* tile_color, by the level that the colour stands for.
TileLevel(v) ==
  IF Past(v, rule.critical) THEN "critical" ELSE IF Past(v, rule.warn) THEN "warn" ELSE "none"

\* A position on the gauge, which nothing leaves (gauge_fraction, and f of gauge_zones).
Clip(v) == IF v < Low THEN Low ELSE IF v > High THEN High ELSE v

\* gauge_zones: the coloured bands of the arc.
Zones ==
  {z \in IF rule.direction = "below"
         THEN {[from |-> Low, to |-> Clip(rule.critical), level |-> "critical"],
               [from |-> Clip(rule.critical), to |-> Clip(rule.warn), level |-> "warn"]}
         ELSE {[from |-> Clip(rule.warn), to |-> Clip(rule.critical), level |-> "warn"],
               [from |-> Clip(rule.critical), to |-> High, level |-> "critical"]} : z.from < z.to}

\* The levels of the bands that the needle lies on; on a line between two it lies on both.
NeedleLevels(v) == {z.level : z \in {y \in Zones : y.from <= Clip(v) /\ Clip(v) <= y.to}}

-----------------------------------------------------------------------------
Reading == trail[Len(trail)].reading

\* The tile has kept its colour, and no gate was shut, for as long as the rule asks for.
Steady ==
  /\ Len(trail) = rule.samples
  /\ \A i \in DOMAIN trail : ~trail[i].gated /\ TileLevel(trail[i].reading) = TileLevel(Reading)

Rank == [none |-> 0, warn |-> 1, critical |-> 2]

(* The driver is told one thing.  A tile that has kept its colour for      *)
(* rule.samples frames has that of the alarm, or the alarm is still above  *)
(* it and has a reason to be: it waits for its ack, or the reading is not  *)
(* yet back in the clear band.  And on the scale of a gauge, but for the   *)
(* lines between the bands, the needle is in the band of the tile's colour *)
(* and in no other (AlarmEngine.update, tile_color, gauge_zones).          *)
ShownAlike ==
  Coloured /\ trail # << >> =>
    /\ Deadband /\ Steady => \/ level = TileLevel(Reading)
                             \/ /\ Rank[level] > Rank[TileLevel(Reading)]
                                /\ latched \/ ~Back
    /\ Reading \in (Low..High) \ {rule.warn, rule.critical} =>
         NeedleLevels(Reading) = {TileLevel(Reading)} \ {"none"}
=============================================================================
