----------------------------- MODULE PageProofs -----------------------------
(***************************************************************************)
(* What is proved of Page, for any files, phones and choices.              *)
(*                                                                         *)
(* A save changes what was edited and the three things named in            *)
(* SavesOnlyEdits.  The patch a phone has sent is compared with the file   *)
(* of the save, which need not be the one its page was loaded from, so     *)
(* that the proof is one of the shape of the file and of the pages, an     *)
(* invariant, and of one step, field by field.                             *)
(*                                                                         *)
(* A save settles the file: the page shows every field of a saved file as  *)
(* it is, and a poll_hz that is absent as what it means, so that a second  *)
(* save merges the same values and passes the same checks.  It needs that  *)
(* no patch leaves `enabled` blank and no file has a poll_hz out of range, *)
(* the invariant Sound.                                                    *)
(***************************************************************************)
EXTENDS Page, TLAPS

\* A configuration, as Configs has them and saves keep it.
Shaped(c) ==
  /\ DOMAIN c = {"value", "scaling", "direction"}
  /\ DOMAIN c.value = Scalars /\ DOMAIN c.scaling = Types
  /\ \A t \in Types : IsOverride(c.scaling[t])

\* There is a page for every phone, with its four parts.
Shape ==
  /\ Shaped(file)
  /\ DOMAIN page = Phones
  /\ \A p \in Phones : DOMAIN page[p] = {"pc", "cfg", "form", "patch"}

-----------------------------------------------------------------------------
\* No value of a field is None.
LEMMA Values ==
  /\ \A n \in Nat : n # None
  /\ TRUE # None /\ FALSE # None
  /\ \A s \in Sensors : s # None
  /\ \A s \in Colours : s # None
  /\ \A v \in Choices["enabled"] : v # None
  /\ DefaultTile \in Sensors /\ DefaultColour \in Colours
  <1>1. None \notin Nat /\ None \notin BOOLEAN /\ None \notin Sensors /\ None \notin Colours
    BY RangeAssumption, Zenon
  <1>2. TRUE \in BOOLEAN /\ FALSE \in BOOLEAN
    BY Zenon
  <1>3. \A v \in Choices["enabled"] : v \in BOOLEAN
    BY RangeAssumption, Zenon
  <1>4. DefaultTile \in Sensors /\ DefaultColour \in Colours
    BY RangeAssumption, Zenon
  <1> QED
    BY <1>1, <1>2, <1>3, <1>4, Zenon

LEMMA MergedIs ==
  ASSUME NEW c, Shaped(c), NEW patch
  PROVE  /\ Shaped(Merged(c, patch))
         /\ \A f \in Scalars :
              Merged(c, patch).value[f] =
                IF f \in Optional /\ patch[f] = None THEN c.value[f] ELSE patch[f]
         /\ Merged(c, patch).scaling = NewScaling(patch)
  BY DEF Merged, Shaped, NewScaling, IsOverride, NoOverride, Number

\* What the page shows of a scalar and of an override.
LEMMA ShownIs ==
  ASSUME NEW c
  PROVE  /\ \A f \in Scalars : Shown(c)[f] = ShownValue(c, f)
         /\ \A t \in TYPE_NAMES : Shown(c)[t] = c.scaling[t].scale
  BY PageAssumption DEF Shown, Fields

\* A field that is not shown otherwise is shown as it is, or as what it means when absent.
LEMMA ShownIsMeant ==
  ASSUME NEW c, NEW f \in Scalars, ~ShownOtherwise(c, f)
  PROVE  /\ ShownValue(c, f) = Meaning(c, f)
         /\ f \notin {"poll_hz", "tile", "colour"} => ShownValue(c, f) = c.value[f]
         /\ c.value[f] # None => ShownValue(c, f) = c.value[f]
  <1>1. CASE f = "enabled"
    BY <1>1 DEF ShownOtherwise, ShownValue, Meaning
  <1>2. CASE f = "tile"
    BY <1>2 DEF ShownOtherwise, ShownValue, Meaning
  <1>3. CASE f = "colour"
    BY <1>3 DEF ShownOtherwise, ShownValue, Meaning
  <1>4. CASE f \notin {"enabled", "tile", "colour"}
    BY <1>4 DEF ShownValue, Meaning
  <1> QED
    BY <1>1, <1>2, <1>3, <1>4

\* A value means the same in two files, unless it is absent from one.
LEMMA MeaningOf ==
  ASSUME NEW c, NEW d, NEW f \in Scalars, d.value[f] = c.value[f] \/ d.value[f] = Meaning(c, f)
  PROVE  Meaning(d, f) = Meaning(c, f)
  <1>1. CASE d.value[f] = c.value[f]
    BY <1>1 DEF Meaning
  <1>2. CASE d.value[f] = Meaning(c, f)
    <2>1. /\ 10 # None /\ TRUE # None /\ DefaultTile \in Sensors /\ DefaultColour \in Colours
      <3>1. 10 \in Nat
        OBVIOUS
      <3> QED
        BY <3>1, Values, Zenon
    <2>2. CASE f = "poll_hz"
      BY <1>2, <2>1, <2>2 DEF Meaning
    <2>3. CASE f = "enabled"
      BY <1>2, <2>1, <2>3 DEF Meaning
    <2>4. CASE f = "tile"
      BY <1>2, <2>1, <2>4 DEF Meaning
    <2>5. CASE f = "colour"
      BY <1>2, <2>1, <2>5 DEF Meaning
    <2>6. CASE f \notin {"poll_hz", "enabled", "tile", "colour"}
      BY <1>2, <2>6 DEF Meaning
    <2> QED
      BY <2>2, <2>3, <2>4, <2>5, <2>6
  <1> QED
    BY <1>1, <1>2

-----------------------------------------------------------------------------
LEMMA Initially == Init => Shape
  BY PageAssumption DEF Init, Shape, Shaped

LEMMA StepKeeps == Shape /\ [Next]_vars => Shape'
  <1> SUFFICES ASSUME Shape, [Next]_vars PROVE Shape'
    OBVIOUS
  <1>1. CASE UNCHANGED vars
    BY <1>1 DEF vars, Shape, Shaped
  <1>2. ASSUME NEW p \in Phones, Load(p) PROVE Shape'
    BY <1>2 DEF Load, Shape, Shaped
  <1>3. ASSUME NEW p \in Phones, Edit(p) PROVE Shape'
    BY <1>3 DEF Edit, Shape, Shaped
  <1>4. ASSUME NEW p \in Phones, Save(p) PROVE Shape'
    BY <1>4 DEF Save, Shape, Shaped
  <1>5. ASSUME NEW p \in Phones, PutAccepted(p) PROVE Shape'
    <2>1. Shaped(file')
      BY <1>5, MergedIs DEF PutAccepted, Shape
    <2>2. DOMAIN page' = Phones /\ \A q \in Phones : DOMAIN page'[q] = {"pc", "cfg", "form", "patch"}
      BY <1>5 DEF PutAccepted, Shape
    <2> QED
      BY <2>1, <2>2 DEF Shape, Shaped
  <1>6. ASSUME NEW p \in Phones, PutRefused(p) PROVE Shape'
    BY <1>6 DEF PutRefused, Shape, Shaped
  <1>7. CASE Restart
    BY <1>7 DEF Restart, Shape, Shaped
  <1> QED
    BY <1>1, <1>2, <1>3, <1>4, <1>5, <1>6, <1>7 DEF Next

\* A save that is accepted is one of PutAccepted.
LEMMA SavedIs ==
  ASSUME Shape, Next, NEW p \in Phones, page[p].pc = "sent", page'[p].pc = "saved"
  PROVE  PutAccepted(p)
  <1>1. ASSUME NEW q \in Phones, Load(q) PROVE FALSE
    BY <1>1 DEF Load, Shape
  <1>2. ASSUME NEW q \in Phones, Edit(q) PROVE FALSE
    BY <1>2 DEF Edit, Shape
  <1>3. ASSUME NEW q \in Phones, Save(q) PROVE FALSE
    BY <1>3 DEF Save, Shape
  <1>4. ASSUME NEW q \in Phones, PutAccepted(q), q # p PROVE FALSE
    BY <1>4 DEF PutAccepted, Shape
  <1>5. ASSUME NEW q \in Phones, PutRefused(q) PROVE FALSE
    BY <1>5 DEF PutRefused, Shape
  <1>6. CASE Restart
    BY <1>6 DEF Restart, Shape
  <1> QED
    BY <1>1, <1>2, <1>3, <1>4, <1>5, <1>6 DEF Next

LEMMA ScalarsKept ==
  ASSUME Shape, NEW p \in Phones, PutAccepted(p), NEW f \in Scalars,
         f \notin Edited(p), file.value[f] = page[p].cfg.value[f], ~ShownOtherwise(file, f)
  PROVE  Meaning(file', f) = Meaning(file, f)
  <1>1. page[p].patch[f] = ShownValue(page[p].cfg, f)
    BY ShownIs DEF Edited, Fields
  <1>2. ShownValue(page[p].cfg, f) = ShownValue(file, f)
    BY DEF ShownValue, Meaning
  <1>3. page[p].patch[f] = Meaning(file, f)
    BY <1>1, <1>2, ShownIsMeant
  <1>4. file'.value[f] = IF f \in Optional /\ page[p].patch[f] = None
                         THEN file.value[f] ELSE page[p].patch[f]
    BY MergedIs DEF PutAccepted, Shape
  <1>5. file'.value[f] = file.value[f] \/ file'.value[f] = Meaning(file, f)
    BY <1>3, <1>4
  <1> QED
    BY <1>5, MeaningOf

LEMMA ScalingsKept ==
  ASSUME Shape, NEW p \in Phones, PutAccepted(p), NEW t \in Types,
         t \notin Edited(p), file.scaling[t] = page[p].cfg.scaling[t], ~NotShown(file, t)
  PROVE  Resolved(file', t) = Resolved(file, t)
  <1> DEFINE o == file.scaling[t]
  <1>1. t \in TYPE_NAMES /\ IsOverride(o) /\ o.kind \in {"none", "number"}
    BY DEF NotShown, Shape, Shaped, IsOverride
  <1>2. page[p].patch[t] = o.scale
    BY <1>1, ShownIs DEF Edited, Fields
  <1>3. file'.scaling[t] = IF o.scale # None THEN Number(o.scale) ELSE NoOverride
    <2>1. file'.scaling = NewScaling(page[p].patch)
      BY MergedIs DEF PutAccepted, Shape
    <2> QED
      BY <1>1, <1>2, <2>1 DEF NewScaling
  <1> HIDE DEF o
  <1>4. CASE o.kind = "none"
    BY <1>1, <1>3, <1>4 DEF o, IsOverride, Resolved, NoOverride
  <1>5. CASE o.kind = "number"
    BY <1>1, <1>3, <1>5 DEF o, IsOverride, Resolved, Number
  <1> QED
    BY <1>1, <1>4, <1>5

(* A save changes, of what the daemon and the cluster go by, only what its *)
(* owner edited, what another save changed since the page was loaded, the  *)
(* overrides that the page cannot show and the fields that it shows as     *)
(* something else, whatever the files, the phones and the values typed.    *)
THEOREM EditsOnly == Spec => SavesOnlyEdits
  <1>1. Spec => []Shape
    BY Initially, StepKeeps, PTL DEF Spec
  <1> DEFINE Only ==
        \A p \in Phones : page[p].pc = "sent" /\ page'[p].pc = "saved" =>
          /\ \A f \in Scalars :
               Meaning(file', f) # Meaning(file, f) =>
                 \/ f \in Edited(p) \/ file.value[f] # page[p].cfg.value[f]
                 \/ ShownOtherwise(file, f)
          /\ \A t \in Types :
               Resolved(file', t) # Resolved(file, t) =>
                 \/ t \in Edited(p) \/ file.scaling[t] # page[p].cfg.scaling[t]
                 \/ NotShown(file, t)
  <1>2. Shape /\ [Next]_vars => [Only]_vars
    <2> SUFFICES ASSUME Shape, Next PROVE Only
      OBVIOUS
    <2> SUFFICES ASSUME NEW p \in Phones, page[p].pc = "sent", page'[p].pc = "saved"
                 PROVE  /\ \A f \in Scalars :
                             Meaning(file', f) # Meaning(file, f) =>
                               \/ f \in Edited(p) \/ file.value[f] # page[p].cfg.value[f]
                               \/ ShownOtherwise(file, f)
                        /\ \A t \in Types :
                             Resolved(file', t) # Resolved(file, t) =>
                               \/ t \in Edited(p) \/ file.scaling[t] # page[p].cfg.scaling[t]
                               \/ NotShown(file, t)
      OBVIOUS
    <2>1. PutAccepted(p)
      BY SavedIs
    <2> QED
      BY <2>1, ScalarsKept, ScalingsKept
  <1> QED
    BY <1>1, <1>2, PTL DEF Spec, SavesOnlyEdits

-----------------------------------------------------------------------------
(* A save settles the file. *)

\* What is never in a file or on a page.
Sound ==
  /\ file.value["poll_hz"] \in 1..50 \cup {None}
  /\ \A p \in Phones : /\ page[p].pc \in {"closed", "open", "sent", "saved"}
                       /\ page[p].pc # "closed" => page[p].form["enabled"] # None
                       /\ page[p].pc = "sent" => page[p].patch["enabled"] # None

LEMMA PatchFields ==
  ASSUME NEW c, NEW patch, Accepted(c, patch)
  PROVE  /\ FieldsAccepted(patch) /\ RuleAccepted(Merged(c, patch))
  BY Zenon DEF Accepted

LEMMA FieldsAre ==
  ASSUME NEW patch, FieldsAccepted(patch)
  PROVE  /\ patch["poll_hz"] = None \/ patch["poll_hz"] \in 1..50
         /\ patch["tile"] \in Sensors /\ patch["colour"] \in Colours
         /\ patch["tile"] # None /\ patch["colour"] # None
  <1>1. /\ patch["poll_hz"] = None \/ patch["poll_hz"] \in 1..50
        /\ patch["tile"] \in Sensors /\ patch["colour"] \in Colours
    BY Zenon DEF FieldsAccepted
  <1> QED
    BY <1>1, Values, Zenon

\* The page shows every box as checked or not.
LEMMA BoxShown == \A c : Shown(c)["enabled"] # None
  <1> TAKE c
  <1>1. "enabled" \in Scalars
    BY DEF Scalars
  <1>2. CASE c.value["enabled"] = None
    <2>1. ShownValue(c, "enabled") = FALSE
      BY <1>2, Zenon DEF ShownValue
    <2> QED
      BY <1>1, <2>1, ShownIs, Values, Zenon
  <1>3. CASE c.value["enabled"] # None
    <2>1. ShownValue(c, "enabled") = c.value["enabled"]
      BY <1>3 DEF ShownValue, Meaning
    <2> QED
      BY <1>1, <1>3, <2>1, ShownIs, Zenon
  <1> QED
    BY <1>2, <1>3

LEMMA SoundStep == Shape /\ Sound /\ [Next]_vars => Sound'
  <1> SUFFICES ASSUME Shape, Sound, [Next]_vars PROVE Sound'
    OBVIOUS
  <1>0. TRUE # None /\ FALSE # None /\ "enabled" \in Scalars /\ "poll_hz" \in Scalars
    BY RangeAssumption DEF Scalars
  <1>1. CASE UNCHANGED vars
    BY <1>1 DEF vars, Sound
  <1>2. ASSUME NEW p \in Phones, Load(p) PROVE Sound'
    <2>1. Shown(file)["enabled"] # None
      BY BoxShown
    <2> QED
      BY <1>2, <2>1 DEF Load, Shape, Sound
  <1>3. ASSUME NEW p \in Phones, Edit(p) PROVE Sound'
    <2>1. PICK f \in Fields : \E v \in Choices[f] : page' = [page EXCEPT ![p].form[f] = v]
      BY <1>3 DEF Edit
    <2>2. PICK v \in Choices[f] : page' = [page EXCEPT ![p].form[f] = v]
      BY <2>1
    <2>3. /\ page'[p].form = [page[p].form EXCEPT ![f] = v]
          /\ page'[p].pc = page[p].pc /\ page'[p].patch = page[p].patch
          /\ \A q \in Phones : q # p => page'[q] = page[q]
      BY <2>2 DEF Shape
    <2>4. page'[p].form["enabled"] # None
      <3>1. f = "enabled" => v # None
        BY RangeAssumption
      <3>2. page[p].form["enabled"] # None
        BY <1>3 DEF Edit, Sound
      <3> QED
        BY <2>3, <3>1, <3>2
    <2> QED
      BY <1>3, <2>3, <2>4 DEF Edit, Sound
  <1>4. ASSUME NEW p \in Phones, Save(p) PROVE Sound'
    BY <1>4 DEF Save, Shape, Sound
  <1>5. ASSUME NEW p \in Phones, PutAccepted(p) PROVE Sound'
    <2>1. file'.value["poll_hz"] \in 1..50 \cup {None}
      <3>1. page[p].patch["poll_hz"] = None \/ page[p].patch["poll_hz"] \in 1..50
        BY <1>5, PatchFields, FieldsAre, Zenon DEF PutAccepted
      <3>2. file'.value["poll_hz"] \in {file.value["poll_hz"], page[p].patch["poll_hz"]}
        BY <1>0, <1>5, MergedIs DEF PutAccepted, Shape
      <3> QED
        BY <3>1, <3>2 DEF Sound
    <2>2. \A q \in Phones :
            /\ page'[q].form = page[q].form
            /\ q = p => page'[q].pc = "saved" /\ page[q].pc = "sent"
            /\ q # p => page'[q] = page[q]
      BY <1>5 DEF PutAccepted, Shape
    <2> QED
      BY <2>1, <2>2 DEF Sound
  <1>6. ASSUME NEW p \in Phones, PutRefused(p) PROVE Sound'
    BY <1>6 DEF PutRefused, Shape, Sound
  <1>7. CASE Restart
    BY <1>7 DEF Restart, Shape, Sound
  <1> QED
    BY <1>1, <1>2, <1>3, <1>4, <1>5, <1>6, <1>7 DEF Next

\* What a saved file has: the patch's fields, and the old ones where they are left blank.
LEMMA SavedFile ==
  ASSUME Shape, Sound, NEW p \in Phones, PutAccepted(p)
  PROVE  /\ Shaped(file') /\ RuleAccepted(file')
         /\ \A f \in Scalars : ~ShownOtherwise(file', f)
         /\ FieldsAccepted(Shown(file'))
  <1> DEFINE patch == page[p].patch
             new == file'
  <1>1. /\ new = Merged(file, patch) /\ Shaped(new)
        /\ \A f \in Scalars :
             new.value[f] = IF f \in Optional /\ patch[f] = None THEN file.value[f] ELSE patch[f]
    BY MergedIs DEF PutAccepted, Shape
  <1>2. FieldsAccepted(patch) /\ RuleAccepted(new)
    BY <1>1, PatchFields DEF PutAccepted
  <1>3. patch["enabled"] # None
    BY DEF PutAccepted, Sound
  <1>4. new.value["poll_hz"] \in 1..50 \cup {None}
    <2>1. new.value["poll_hz"] \in {file.value["poll_hz"], patch["poll_hz"]}
      BY <1>1 DEF Scalars
    <2> HIDE DEF new, patch
    <2> QED
      BY <1>2, <2>1, FieldsAre DEF Sound
  <1> HIDE DEF new, patch
  <1>5. \A f \in Scalars \ Optional : new.value[f] = patch[f]
    BY <1>1
  <1>6. ASSUME NEW f \in Scalars PROVE ~ShownOtherwise(new, f)
    <2>1. /\ new.value["enabled"] = patch["enabled"]
          /\ new.value["tile"] = patch["tile"] /\ new.value["colour"] = patch["colour"]
      BY <1>5 DEF Scalars, Optional
    <2> QED
      BY <1>2, <1>3, <2>1, FieldsAre, Zenon DEF ShownOtherwise
  <1>7. \A f \in Scalars \ {"poll_hz"} : Shown(new)[f] = new.value[f]
    <2>1. \A f \in Scalars \ {"poll_hz"} : ShownValue(new, f) = new.value[f]
      <3>1. new.value["tile"] # None /\ new.value["colour"] # None
        BY <1>2, <1>5, FieldsAre DEF Optional, Scalars
      <3> QED
        BY <1>6, <3>1, ShownIsMeant
    <2> QED
      BY <2>1, ShownIs
  <1>8. Shown(new)["poll_hz"] \in 1..50
    <2>1. Shown(new)["poll_hz"] = Meaning(new, "poll_hz")
      BY <1>6, ShownIs, ShownIsMeant DEF Scalars
    <2> QED
      BY <1>4, <2>1 DEF Meaning
  <1>9. FieldsAccepted(Shown(new))
    <2> DEFINE shown == Shown(new)
    <2>1. \A f \in Scalars \ Optional : shown[f] = patch[f]
      BY <1>5, <1>7 DEF Optional
    <2>2. shown["poll_hz"] \in 1..50
      BY <1>8
    <2> HIDE DEF shown
    <2>3. /\ shown["mac"] = patch["mac"] /\ shown["danger_rpm"] = patch["danger_rpm"]
          /\ shown["amber"] = patch["amber"] /\ shown["red"] = patch["red"]
          /\ shown["flash"] = patch["flash"] /\ shown["tile"] = patch["tile"]
          /\ shown["colour"] = patch["colour"]
      BY <2>1 DEF Scalars, Optional
    <2>4. FieldsAccepted(shown)
      BY <1>2, <2>2, <2>3, Zenon DEF FieldsAccepted
    <2> QED
      BY <2>4 DEF shown
  <1> QED
    BY <1>1, <1>2, <1>6, <1>9 DEF new

\* And what a second save of it, untouched, makes of it.
LEMMA SettledScalars ==
  ASSUME NEW c, Shaped(c), \A f \in Scalars : ~ShownOtherwise(c, f)
  PROVE  /\ \A f \in Scalars : Meaning(Merged(c, Shown(c)), f) = Meaning(c, f)
         /\ \A f \in {"warn", "clear"} : Merged(c, Shown(c)).value[f] = c.value[f]
  <1> DEFINE d == Merged(c, Shown(c))
  <1>1. \A f \in Scalars :
          d.value[f] = IF f \in Optional /\ ShownValue(c, f) = None THEN c.value[f] ELSE ShownValue(c, f)
    BY MergedIs, ShownIs
  <1> HIDE DEF d
  <1>2. ASSUME NEW f \in Scalars PROVE Meaning(d, f) = Meaning(c, f)
    <2>1. d.value[f] = c.value[f] \/ d.value[f] = Meaning(c, f)
      BY <1>1, ShownIsMeant
    <2> QED
      BY <2>1, MeaningOf
  <1>3. ASSUME NEW f \in {"warn", "clear"} PROVE d.value[f] = c.value[f]
    BY <1>1, ShownIsMeant DEF Scalars
  <1> QED
    BY <1>2, <1>3 DEF d

LEMMA SettledScalings ==
  ASSUME NEW c, Shaped(c), NEW patch, c.scaling = NewScaling(patch)
  PROVE  Merged(c, Shown(c)).scaling = c.scaling
  <1>1. Merged(c, Shown(c)).scaling = NewScaling(Shown(c))
    BY MergedIs
  <1>2. \A t \in TYPE_NAMES : Shown(c)[t] = c.scaling[t].scale
    BY ShownIs
  <1> HIDE DEF Shown
  <1>3. ASSUME NEW t \in Types PROVE NewScaling(Shown(c))[t] = NewScaling(patch)[t]
    BY <1>2 DEF NewScaling, Number, NoOverride
  <1> QED
    BY <1>1, <1>3 DEF NewScaling

LEMMA SavedIsSettled ==
  ASSUME Shape, Sound, NEW p \in Phones, PutAccepted(p)
  PROVE  Accepted(file', Shown(file')) /\ Same(Merged(file', Shown(file')), file')
  <1> DEFINE c == file'
             d == Merged(c, Shown(c))
  <1>1. /\ Shaped(c) /\ RuleAccepted(c) /\ FieldsAccepted(Shown(c))
        /\ \A f \in Scalars : ~ShownOtherwise(c, f)
    BY SavedFile
  <1>2. c.scaling = NewScaling(page[p].patch)
    BY MergedIs DEF PutAccepted, Shape
  <1> HIDE DEF c
  <1>3. /\ \A f \in Scalars : Meaning(d, f) = Meaning(c, f)
        /\ d.value["warn"] = c.value["warn"] /\ d.value["clear"] = c.value["clear"]
    BY <1>1, SettledScalars
  <1>4. d.scaling = c.scaling
    BY <1>1, <1>2, SettledScalings
  <1>5. d.direction = c.direction
    BY <1>1 DEF Merged, Shaped
  <1> HIDE DEF d
  <1>6. RuleAccepted(d)
    BY <1>1, <1>3, <1>5 DEF RuleAccepted
  <1>7. Same(d, c)
    BY <1>3, <1>4 DEF Same, Resolved
  <1> QED
    BY <1>1, <1>6, <1>7 DEF Accepted, c, d

(* A save settles the file: the page as it is shown then is accepted, and  *)
(* saving it untouched changes nothing, whatever the files were, however   *)
(* the phones' saves interleave and whatever was typed.                    *)
THEOREM SavedPageIsSettled == Spec => SavedAgain
  <1>1. Spec => []Shape
    BY Initially, StepKeeps, PTL DEF Spec
  <1>2. Init => Sound
    BY RangeAssumption DEF Init, Sound
  <1>3. Spec => []Sound
    BY <1>1, <1>2, SoundStep, PTL DEF Spec
  <1> DEFINE Settled ==
        \A p \in Phones : page[p].pc = "sent" /\ page'[p].pc = "saved" =>
          Accepted(file', Shown(file')) /\ Same(Merged(file', Shown(file')), file')
  <1>4. Shape /\ Sound /\ [Next]_vars => [Settled]_vars
    BY SavedIs, SavedIsSettled
  <1> QED
    BY <1>1, <1>3, <1>4, PTL DEF Spec, SavedAgain
=============================================================================
