---------------------------- MODULE MCAlarmEngine ----------------------------
(***************************************************************************)
(* AlarmEngine and Display for TLC: the kinds of rule config.yaml holds,   *)
(* scaled down to a handful of readings.                                   *)
(***************************************************************************)
EXTENDS Display

Threshold(dir, w, c, cl, n, rpm) ==
  [type |-> "threshold", direction |-> dir, warn |-> w, critical |-> c, clear |-> cl,
   samples |-> n, rpm_min |-> rpm, tps_min |-> None, window |-> 0, sustained |-> None]

RateRule(tps) ==
  [type |-> "rate", direction |-> "above", warn |-> 1, critical |-> 2, clear |-> 0,
   samples |-> 1, rpm_min |-> None, tps_min |-> tps, window |-> 2, sustained |-> 3]

MCRules == {
  Threshold("above", 1, 3, 0, 2, None),    \* ect_high: three bands and a deadband
  Threshold("below", 3, 2, 4, 3, 0),       \* battery_low: gated on the engine speed
  Threshold("above", 2, 2, 2, 1, None),    \* boost_cut: all thresholds equal
  Threshold("above", 3, 1, 2, 2, None),    \* a critical below clear, which the page accepts
  RateRule(None),                          \* knock_count
  RateRule(1)}                             \* a rate rule with a throttle gate
=============================================================================
