-------------------------------- MODULE MCPage --------------------------------
(***************************************************************************)
(* Two phones and two files: the one shipped, with an 'above' rule, and    *)
(* one edited by hand, with a 'below' rule that does not say whether it is *)
(* enabled, no poll_hz, a tile that is no sensor's, a colour written as a  *)
(* list, a mapping for a type the page shows and an override for one it    *)
(* does not.                                                               *)
(***************************************************************************)
EXTENDS Page, TLC

MCTypes == {"CT_RPM", "CT_TPS", "CT_MASSFLOW"}
MCTypeNames == {"CT_RPM", "CT_TPS"}
MCScaling ==
  [t \in MCTypes |-> IF t = "CT_TPS" THEN [scale |-> 1, offset |-> 10] ELSE [scale |-> 1, offset |-> 0]]

MCValue ==
  [f \in Scalars |->
     CASE f = "mac" -> "m1" [] f = "poll_hz" -> 20 [] f = "danger_rpm" -> 8000
       [] f = "enabled" -> TRUE [] f = "warn" -> 4 [] f = "clear" -> 2
       [] f = "amber" -> 1 [] f = "red" -> 2 [] f = "flash" -> 3
       [] f = "tile" -> "vbat" [] OTHER -> None]

MCConfigs ==
  {[value |-> MCValue, scaling |-> [t \in MCTypes |-> NoOverride], direction |-> "above"],
   [value |-> [MCValue EXCEPT !["poll_hz"] = None, !["danger_rpm"] = None,
                              !["enabled"] = None, !["clear"] = 6,
                              !["tile"] = "oil_temp", !["colour"] = "[255, 0, 0]"],
    scaling |-> [t \in MCTypes |-> CASE t = "CT_RPM" -> NoOverride
                                     [] t = "CT_TPS" -> [kind |-> "mapping", scale |-> None, offset |-> 5]
                                     [] OTHER -> Number(2)],
    direction |-> "below"]}

MCSensors == {"rpm", "ect_c", "vbat"}
MCColours == {"#000000", "#ffb400", "#e02020"}

MCChoices ==
  [f \in Fields |->
     CASE f = "mac" -> {"m1", "m2", "not a mac"} [] f = "poll_hz" -> {20, 60, None}
       [] f = "danger_rpm" -> {8000, 500, None} [] f = "enabled" -> BOOLEAN
       [] f \in {"warn", "clear"} -> {2, 4, 6, None}
       [] f = "tile" -> MCSensors [] f = "colour" -> MCColours
       [] f \in {"amber", "red", "flash"} -> {1, 3, None}
       [] OTHER -> {1, 2, None}]
MCSymmetry == Permutations(Phones)
===============================================================================
