--------------------------------- MODULE Page ---------------------------------
(***************************************************************************)
(* The settings page and what a save does to config.yaml                   *)
(* (s300d/settings.py).                                                    *)
(*                                                                         *)
(* Several phones may have the page open.  A page shows the file as it was *)
(* when the page was loaded; its owner edits fields; Save sends every      *)
(* field, edited or not (the script's save()), put_config checks the patch *)
(* against the file as it is then, merges it and answers, and a page whose *)
(* save was accepted loads the file again.  The daemon takes the           *)
(* connection's settings when it starts (s300d/__main__.py) and the rest   *)
(* when put_config reloads the Hub, which Settings models with the steps   *)
(* of the save and its failures.                                           *)
(*                                                                         *)
(* One alarm rule stands for all and warn for its numbers that nothing is  *)
(* compared with, poll_hz for rfcomm_channel too, and one tile and one     *)
(* colour for all of them.                                                 *)
(***************************************************************************)
EXTENDS Naturals

CONSTANTS Phones,
          Types,         \* the scaling types of the decoder
          TYPE_NAMES,    \* those the page has a field for
          SCALING,       \* the built-in [scale, offset] of each type
          Configs,       \* the files the system starts from
          Choices,       \* what may be typed into each field
          Macs,          \* well-formed MACs
          None,          \* a blank field, an absent value
          Sensors, DefaultTile, FirstTile,  \* of a tile's menu; FirstTile is its first entry
          Colours, Black, DefaultColour,    \* those written #rrggbb; #000000 is Black
          Notations,     \* other ways to write a colour, which the cluster reads
          MaxEdits       \* bound on the fields edited

Scalars == {"mac", "poll_hz", "danger_rpm", "enabled", "warn", "clear",
            "amber", "red", "flash", "tile", "colour"}
Fields == Scalars \cup TYPE_NAMES

\* An override is absent, a number, the scale, or a mapping of which either part may be absent.
IsOverride(o) ==
  /\ o.kind \in {"none", "number", "mapping"}
  /\ o.kind = "none" => o.scale = None
  /\ o.kind = "number" => o.scale # None

ASSUME PageAssumption ==
  /\ TYPE_NAMES \subseteq Types /\ Scalars \cap Types = {}
  /\ DOMAIN Choices = Fields /\ MaxEdits \in Nat
  /\ \A c \in Configs :
       /\ DOMAIN c = {"value", "scaling", "direction"}
       /\ DOMAIN c.value = Scalars /\ DOMAIN c.scaling = Types
       /\ \A t \in Types : IsOverride(c.scaling[t])

VARIABLES
  file,      \* config.yaml: .value of each scalar, .scaling of each type, and the rule's .direction
  running,   \* the connection's settings the daemon started with
  page,      \* per phone: .pc, the .cfg it was loaded from, its .form, and the .patch sent
  edits      \* a bound

vars == <<file, running, page, edits>>

\* What the daemon and the cluster make of a field: an absent one has its default, and so
\* have a tile that is no sensor's and a colour that cannot be read (build_source,
\* AlarmEngine.__init__, thresholds, normalize_tiles, parse_color).
Meaning(c, f) ==
  LET v == c.value[f]
  IN  CASE f = "poll_hz" /\ v = None                          -> 10
        [] f = "enabled" /\ v = None                          -> TRUE
        [] f = "tile" /\ v \notin Sensors                     -> DefaultTile
        [] f = "colour" /\ v \notin Colours \cup Notations    -> DefaultColour
        [] OTHER                                              -> v

\* build_source
Connection(c) == [mac |-> Meaning(c, "mac"), poll_hz |-> Meaning(c, "poll_hz")]
Blank == [f \in Fields |-> None]

Init ==
  /\ file \in Configs /\ running = Connection(file)
  /\ page = [p \in Phones |-> [pc |-> "closed", cfg |-> file, form |-> Blank, patch |-> Blank]]
  /\ edits = 0

-----------------------------------------------------------------------------
(* The page's script. *)

NoOverride == [kind |-> "none", scale |-> None, offset |-> None]
Number(v) == [kind |-> "number", scale |-> v, offset |-> None]

\* Mutant: every field is shown as it is meant, but a blank danger_rpm as 8000.
ShownValue_DefaultDanger(c, f) ==
  IF f = "danger_rpm" /\ c.value[f] = None THEN 8000 ELSE Meaning(c, f)

\* What the page shows of a scalar: an absent poll_hz, tile or colour as its default, but an
\* absent `enabled` as an unchecked box, the menu of a tile that is no sensor's at its first
\* entry, and a colour that is not written #rrggbb as the black of a colour field.
ShownValue(c, f) ==
  LET v == c.value[f]
  IN  CASE f = "enabled" /\ v = None                          -> FALSE
        [] f = "tile" /\ v \notin Sensors \cup {None}         -> FirstTile
        [] f = "colour" /\ v \notin Colours \cup {None}       -> Black
        [] OTHER                                              -> Meaning(c, f)

\* loadAll(): of an override, its scale.
Shown(c) == [f \in Fields |-> IF f \in TYPE_NAMES THEN c.scaling[f].scale ELSE ShownValue(c, f)]

\* get_config, and the form filled in; what was typed and not saved is gone.
Load(p) ==
  /\ page[p].pc # "sent"
  /\ page' = [page EXCEPT ![p] =
       [pc |-> "open", cfg |-> file, form |-> Shown(file), patch |-> Blank]]
  /\ UNCHANGED <<file, running, edits>>

Edit(p) ==
  /\ page[p].pc # "closed" /\ edits < MaxEdits /\ edits' = edits + 1
  /\ \E f \in Fields : \E v \in Choices[f] \ {page[p].form[f]} :
       page' = [page EXCEPT ![p].form[f] = v]
  /\ UNCHANGED <<file, running>>

\* save(): the whole form.
Save(p) ==
  /\ page[p].pc = "open"
  /\ page' = [page EXCEPT ![p].pc = "sent", ![p].patch = page[p].form]
  /\ UNCHANGED <<file, running, edits>>

-----------------------------------------------------------------------------
(* put_config: apply_patch(load(path), patch). *)

\* The fields the page leaves out of the patch when they are blank.  A blank danger_rpm is
\* sent as null, a blank scale as '', a blank MAC as it is.
Optional == {"poll_hz", "warn", "clear"}

\* float() of a blank scale removes the override, of another makes it a number.
NewScaling(patch) ==
  [t \in Types |-> IF t \in TYPE_NAMES /\ patch[t] # None THEN Number(patch[t]) ELSE NoOverride]

Merged(c, patch) ==
  [c EXCEPT
     !.value = [f \in Scalars |-> IF f \in Optional /\ patch[f] = None THEN @[f] ELSE patch[f]],
     !.scaling = NewScaling(patch)]

\* _coerce_rule, of the rule that the patch makes.
RuleAccepted(c) ==
  IF c.direction = "above" THEN c.value["clear"] <= c.value["warn"]
                           ELSE c.value["clear"] >= c.value["warn"]

DangerRpms == 1000..20000

\* None is missing, and they are in their order.
StagesAccepted(amber, red, flash) ==
  None \notin {amber, red, flash} /\ amber <= red /\ red <= flash

\* The checks of apply_patch that look at the patch alone.
FieldsAccepted(patch) ==
  /\ patch["mac"] \in Macs
  /\ patch["poll_hz"] # None => patch["poll_hz"] \in 1..50
  /\ patch["danger_rpm"] # None => patch["danger_rpm"] \in DangerRpms
  /\ StagesAccepted(patch["amber"], patch["red"], patch["flash"])
  /\ patch["tile"] \in Sensors /\ patch["colour"] \in Colours

\* Mutant: the deadband is checked before the patch is merged.
Accepted_RuleBefore(c, patch) == FieldsAccepted(patch) /\ RuleAccepted(c)

\* Every check of apply_patch.
Accepted(c, patch) == FieldsAccepted(patch) /\ RuleAccepted(Merged(c, patch))

\* What the owner of a config.yaml writes in it, and types: a rule has its numbers, and a
\* poll_hz is one that the page lets through.
ASSUME RangeAssumption ==
  /\ None \notin Nat \cup BOOLEAN \cup Sensors \cup Colours \cup Notations
  /\ {DefaultTile, FirstTile} \subseteq Sensors /\ {DefaultColour, Black} \subseteq Colours
  /\ Choices["enabled"] \subseteq BOOLEAN
  /\ Choices["tile"] \subseteq Sensors /\ Choices["colour"] \subseteq Colours
  /\ \A f \in {"warn", "clear", "amber", "red", "flash"} : Choices[f] \subseteq Nat \cup {None}
  /\ \A c \in Configs :
       /\ c.direction \in {"above", "below"}
       /\ c.value["enabled"] \in BOOLEAN \cup {None}
       /\ c.value["poll_hz"] \in 1..50 \cup {None}
       /\ c.value["warn"] \in Nat /\ c.value["clear"] \in Nat

\* The file is replaced and the Hub reloaded; the page loads it again when it is told.
PutAccepted(p) ==
  /\ page[p].pc = "sent" /\ Accepted(file, page[p].patch)
  /\ file' = Merged(file, page[p].patch)
  /\ page' = [page EXCEPT ![p].pc = "saved", ![p].patch = Blank]
  /\ UNCHANGED <<running, edits>>

\* A patch that is refused changes nothing, and neither does a save that fails.
PutRefused(p) ==
  /\ page[p].pc = "sent"
  /\ page' = [page EXCEPT ![p].pc = "open", ![p].patch = Blank]
  /\ UNCHANGED <<file, running, edits>>

\* The daemon starts again: load_full_config, build_source.  A request dies with it.
Restart ==
  /\ running' = Connection(file)
  /\ page' = [p \in Phones |->
       IF page[p].pc = "sent" THEN [page[p] EXCEPT !.pc = "open", !.patch = Blank] ELSE page[p]]
  /\ UNCHANGED <<file, edits>>

-----------------------------------------------------------------------------
Next ==
  \/ \E p \in Phones : Load(p) \/ Edit(p) \/ Save(p) \/ PutAccepted(p) \/ PutRefused(p)
  \/ Restart

Spec == Init /\ [][Next]_vars

-----------------------------------------------------------------------------
\* The factors the decoder uses (s300d/channels.py, resolve_scaling).
Resolved(c, t) ==
  LET o == c.scaling[t]
      or(x, default) == IF x = None THEN default ELSE x
  IN  CASE o.kind = "none"   -> SCALING[t]
        [] o.kind = "number" -> [scale |-> o.scale, offset |-> 0]
        [] OTHER -> [scale |-> or(o.scale, SCALING[t].scale), offset |-> or(o.offset, SCALING[t].offset)]

\* An override the page cannot show: a mapping, or of a type it has no field for.
NotShown(c, t) == c.scaling[t].kind = "mapping" \/ t \notin TYPE_NAMES

\* What the owner changed on the page that was sent.
Edited(p) == {f \in Fields : page[p].patch[f] # Shown(page[p].cfg)[f]}

\* A field the page shows as something else than the daemon and the cluster go by.
ShownOtherwise(c, f) ==
  \/ f = "enabled" /\ c.value[f] = None
  \/ f = "tile" /\ c.value[f] \notin Sensors \cup {None}
  \/ f = "colour" /\ c.value[f] \notin Colours \cup {None}

(* A save changes what its owner edited, and nothing else but for three    *)
(* cases, in which something changes though its owner touched something    *)
(* else: a field that another save has changed since the page was loaded   *)
(* goes back to what the page shows; an override that the page cannot show *)
(* is lost; and a field that the page shows as something else is saved as  *)
(* it is shown - a rule without `enabled`, which is in force, is disabled  *)
(* (save(), which sends the whole form, and apply_patch, which replaces    *)
(* scaling_overrides).                                                     *)
SavesOnlyEdits ==
  [][\A p \in Phones : page[p].pc = "sent" /\ page'[p].pc = "saved" =>
       /\ \A f \in Scalars :
            Meaning(file', f) # Meaning(file, f) =>
              \/ f \in Edited(p) \/ file.value[f] # page[p].cfg.value[f]
              \/ ShownOtherwise(file, f)
       /\ \A t \in Types :
            Resolved(file', t) # Resolved(file, t) =>
              \/ t \in Edited(p) \/ file.scaling[t] # page[p].cfg.scaling[t]
              \/ NotShown(file, t)]_vars

\* The daemon and the cluster make the same of both.
Same(c, d) ==
  /\ \A f \in Scalars : Meaning(c, f) = Meaning(d, f)
  /\ \A t \in Types : Resolved(c, t) = Resolved(d, t)

(* A save settles the file, however it was written by hand and whatever    *)
(* other phones saved meanwhile: the page as loadAll() then shows it is    *)
(* one that apply_patch lets through, and saving it untouched changes      *)
(* nothing more (loadAll, save, apply_patch, _coerce_rule).                *)
SavedAgain ==
  [][\A p \in Phones : page[p].pc = "sent" /\ page'[p].pc = "saved" =>
       Accepted(file', Shown(file')) /\ Same(Merged(file', Shown(file')), file')]_vars

(* "Saved & applied", the page says (settings.py:323), and "hot-reloaded;  *)
(* nothing restarts", the manual, of the Bluetooth settings too            *)
(* (INSTALL.md:111-113): the daemon then uses what was saved.              *)
SavedIsApplied ==
  [][\A p \in Phones : page[p].pc = "sent" /\ page'[p].pc = "saved" =>
       running' = Connection(file')]_vars
=============================================================================
