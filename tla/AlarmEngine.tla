----------------------------- MODULE AlarmEngine -----------------------------
(***************************************************************************)
(* One rule of the alarm engine of s300d/alarms.py, class AlarmEngine:     *)
(* debounce, deadband, latching, gates, and the rate and sustained_s       *)
(* options.  The rules of an engine share nothing but their input, so one  *)
(* rule stands for all of them; which one is chosen in Init.               *)
(*                                                                         *)
(* update() is called with each frame and ack() between two frames.  Times *)
(* are kept as ages, so that a run has no last instant.  A channel the ECU *)
(* does not have is missing for the whole life of an engine, and its rule  *)
(* never does anything: only rules whose channels exist are modelled.      *)
(***************************************************************************)
EXTENDS Integers, Sequences

CONSTANTS Rules,    \* rules of config.yaml: see RuleType
          Values,   \* readings of the channel of the rule
          Rpms,     \* readings of the engine speed
          Throttles,\* readings of the throttle
          Steps,    \* time between two frames
          None      \* an option the rule does not have

RuleType == [type : {"threshold", "rate"}, direction : {"above", "below"},
             warn : Int, critical : Int, clear : Int, samples : Nat \ {0},
             rpm_min : Int \cup {None}, tps_min : Int \cup {None},
             window : Nat, sustained : Nat \cup {None}]

ASSUME AlarmAssumption ==
  /\ Rules \subseteq RuleType /\ None \notin Int
  /\ Values \subseteq Int /\ Rpms \subseteq Int /\ Throttles \subseteq Int
  /\ Steps \subseteq Nat

VARIABLES
  rule,       \* the rule evaluated, fixed by Init
  level,      \* "none", "warn" or "critical"
  latched,    \* a critical that waits for an ack
  value,      \* the last metric evaluated, None before the first
  warnRun,    \* consecutive samples beyond warn, counted up to rule.samples
  critRun,    \* consecutive samples beyond critical, counted up to rule.samples
  critAge,    \* time since crit_since, counted up to rule.sustained; None when unset
  history,    \* the readings of the window of a rate rule, with their ages
  \* history variables
  trail,      \* what the last samples were, newest last: see Sample
  hitFor      \* how long every sample has been an ungated critical hit, None if not

state == <<level, latched, value, warnRun, critRun, critAge, history>>
vars == <<rule, state, trail, hitFor>>

\* What an update made of its sample: the reading, gated or not, and if not, where the
\* metric lies.
Sample == [reading : Values, gated : BOOLEAN, warn : BOOLEAN, crit : BOOLEAN, clear : BOOLEAN]

-----------------------------------------------------------------------------
(* Helpers, named as in the code. *)

\* _beyond; a rate rule trips on an increase equal to the threshold.
beyond(v, threshold) ==
  IF rule.direction = "below"
    THEN v < threshold \/ (rule.type = "rate" /\ v = threshold)
    ELSE v > threshold \/ (rule.type = "rate" /\ v = threshold)

\* Mutant: the clear band of a "below" rule is tested upside down.
within_clear_Flipped(v) == v <= rule.clear

within_clear(v) == IF rule.direction = "below" THEN v >= rule.clear ELSE v <= rule.clear

gated(rpm, tps) ==
  \/ rule.rpm_min # None /\ rpm <= rule.rpm_min
  \/ rule.tps_min # None /\ tps < rule.tps_min

\* The deque of a rate rule after reading raw, dt after the previous frame.
window(raw, dt) ==
  {h \in {[age |-> g.age + dt, raw |-> g.raw] : g \in history} : h.age <= rule.window}
    \cup {[age |-> 0, raw |-> raw]}

\* _metric: the reading, or for a rate rule its increase over the window.
metric(raw, dt) ==
  IF rule.type = "threshold" THEN raw
  ELSE raw - (CHOOSE h \in window(raw, dt) :
                \A g \in window(raw, dt) : g.age <= h.age).raw

\* A counter of consecutive samples; only >= rule.samples is ever asked of it.
bump(run) == IF run < rule.samples THEN run + 1 ELSE run

\* An age that grows; only >= limit is ever asked of it.
older(age, dt, limit) ==
  IF age = None \/ limit = None THEN age
  ELSE IF age + dt < limit THEN age + dt ELSE limit

SustainedRule == rule.type = "rate" /\ rule.sustained # None

\* Mutant: a sample below critical does not restart the clock.
crit_since_Kept(crit, dt) ==
  IF ~SustainedRule THEN None
  ELSE IF crit /\ critAge = None THEN 0 ELSE older(critAge, dt, rule.sustained)

\* The age of crit_since after an ungated sample.
crit_since(crit, dt) ==
  IF ~SustainedRule \/ ~crit THEN None
  ELSE IF critAge = None THEN 0 ELSE older(critAge, dt, rule.sustained)

\* Mutant: a latched critical ends like any other level.
ends_Latched(v) == within_clear(v) /\ level # "none"

\* Mutant: only a warning ends by itself.
ends_WarnOnly(v) == within_clear(v) /\ level = "warn"

\* The level is one that update() may end, and the metric is back.
ends(v) == within_clear(v) /\ (level = "warn" \/ (level = "critical" /\ ~latched))

-----------------------------------------------------------------------------
Init ==
  /\ rule \in Rules
  /\ level = "none" /\ latched = FALSE /\ value = None
  /\ warnRun = 0 /\ critRun = 0 /\ critAge = None /\ history = {}
  /\ trail = << >> /\ hitFor = None

\* The last rule.samples samples.
Record(s) ==
  trail' = LET t == Append(trail, s)
           IN IF Len(t) > rule.samples THEN Tail(t) ELSE t

\* Mutant: a gated sample is skipped, the runs go on after it.
Gated_KeepsRuns(raw, rpm, tps, dt) ==
  /\ gated(rpm, tps)
  /\ critAge' = older(critAge, dt, rule.sustained)
  /\ hitFor' = None
  /\ Record([reading |-> raw, gated |-> TRUE, warn |-> FALSE, crit |-> FALSE, clear |-> FALSE])
  /\ UNCHANGED <<level, latched, value, warnRun, critRun>>

\* The metric and the gates: a gated sample is skipped, and breaks the runs.
Gated(raw, rpm, tps, dt) ==
  /\ gated(rpm, tps)
  /\ warnRun' = 0 /\ critRun' = 0
  /\ critAge' = older(critAge, dt, rule.sustained)
  /\ hitFor' = None
  /\ Record([reading |-> raw, gated |-> TRUE, warn |-> FALSE, crit |-> FALSE, clear |-> FALSE])
  /\ UNCHANGED <<level, latched, value>>

\* _clear: back to no level, with fresh runs.
Clear == level' = "none" /\ warnRun' = 0 /\ critRun' = 0 /\ critAge' = None

\* The branches of update(), tried in this order.  wr, cr and ca are the runs and the
\* age with this sample counted; hit says the sample is critical, and sustained.
Judge(v, wr, cr, ca, hit) ==
  LET trips == cr >= rule.samples /\ hit /\ level # "critical"
      warns == wr >= rule.samples /\ level = "none"
      Runs == warnRun' = wr /\ critRun' = cr /\ critAge' = ca
  IN \/ trips /\ level' = "critical" /\ latched' = TRUE /\ Runs
     \/ ~trips /\ warns /\ level' = "warn" /\ UNCHANGED latched /\ Runs
     \/ ~trips /\ ~warns /\ ends(v) /\ Clear /\ UNCHANGED latched
     \/ ~trips /\ ~warns /\ ~ends(v) /\ UNCHANGED <<level, latched>> /\ Runs

\* An ungated sample.
Evaluated(raw, rpm, tps, dt) ==
  LET v == metric(raw, dt)
      crit == beyond(v, rule.critical)
      warn == beyond(v, rule.warn)
      age == crit_since(crit, dt)
      sustained == SustainedRule => age # None /\ age >= rule.sustained
  IN /\ ~gated(rpm, tps)
     /\ value' = v
     /\ Judge(v, IF warn THEN bump(warnRun) ELSE 0, IF crit THEN bump(critRun) ELSE 0, age,
              crit /\ sustained)
     /\ hitFor' = IF ~crit THEN None ELSE IF hitFor = None THEN 0
                  ELSE older(hitFor, dt, rule.sustained)
     /\ Record([reading |-> raw, gated |-> FALSE, warn |-> warn, crit |-> crit,
                clear |-> within_clear(v)])

\* update(d, t) for this rule.
Update ==
  \E raw \in Values, rpm \in Rpms, tps \in Throttles, dt \in Steps :
    /\ history' = IF rule.type = "rate" THEN window(raw, dt) ELSE history
    /\ \/ Gated(raw, rpm, tps, dt)
       \/ Evaluated(raw, rpm, tps, dt)
    /\ UNCHANGED rule

\* Mutant: ack() ends every latched critical, wherever its value is.
Ack_Anywhere ==
  /\ latched
  /\ latched' = FALSE /\ Clear
  /\ UNCHANGED <<rule, value, history, trail, hitFor>>

\* ack(): a latched critical no longer waits, and ends if the value is back.
Ack ==
  /\ latched
  /\ latched' = FALSE
  /\ IF level = "critical" /\ value # None /\ within_clear(value)
       THEN Clear
       ELSE UNCHANGED <<level, warnRun, critRun, critAge>>
  /\ UNCHANGED <<rule, value, history, trail, hitFor>>

Next == Update \/ Ack

Spec == Init /\ [][Next]_vars

-----------------------------------------------------------------------------
TypeOK ==
  /\ rule \in Rules
  /\ level \in {"none", "warn", "critical"}
  /\ latched \in BOOLEAN
  /\ value \in Int \cup {None}
  /\ warnRun \in 0..rule.samples /\ critRun \in 0..rule.samples
  /\ critAge \in Nat \cup {None} /\ hitFor \in Nat \cup {None}
  /\ history \subseteq [age : Nat, raw : Values]
  /\ trail \in Seq(Sample) /\ Len(trail) <= rule.samples

\* The last rule.samples samples were all beyond the threshold, none of them gated.
CritTrail == Len(trail) = rule.samples /\ \A i \in DOMAIN trail : trail[i].crit
WarnTrail == Len(trail) = rule.samples /\ \A i \in DOMAIN trail : trail[i].warn

\* Debounce: a level rises only after rule.samples consecutive samples beyond its
\* threshold, whatever levels, acks and gated samples came before.
Debounced ==
  [][/\ level' = "critical" /\ level # "critical" => CritTrail'
     /\ level' = "warn" /\ level # "warn" => WarnTrail']_vars

\* The settings page keeps clear on the safe side of warn for threshold rules, and
\* relates critical to nothing; this is what a rule needs for its levels to be stable.
Deadband == ~beyond(rule.clear, rule.warn) /\ ~beyond(rule.clear, rule.critical)

\* No alarm is missed: with a deadband, such a run of samples always shows, although
\* acks, gated samples and clears reset the counters.
NotMissed ==
  Deadband => /\ CritTrail /\ ~SustainedRule => level = "critical"
              /\ WarnTrail => level # "none"

\* settings.py:274 "Critical alarms latch until Ack": no frame ends, demotes or unlatches
\* a critical that has not been acknowledged.
LatchedUntilAck == [][Update /\ latched => latched' /\ level' = "critical"]_vars

\* Hysteresis: a level ends only with the metric inside the clear band, a critical never
\* falls to warn, and a latch never outlives its critical.
EndsInsideBand ==
  [][/\ level # "none" /\ level' = "none" => within_clear(value')
     /\ level = "critical" => level' # "warn"
     /\ latched' => level' = "critical"]_vars

\* A rate rule with sustained_s and no gate goes critical only when every sample has been
\* beyond critical for that long.  (With a gate the time behind it counts as well.)
SustainedHit == hitFor # None /\ hitFor >= rule.sustained
UngatedRule == rule.rpm_min = None /\ rule.tps_min = None
Sustained ==
  [][SustainedRule /\ UngatedRule /\ level' = "critical" /\ level # "critical"
       => SustainedHit']_vars

\* An alarm ends: with a deadband, the first sample back in the clear band ends its level,
\* or the ack that comes after it does.
Back == trail # << >> /\ trail[Len(trail)].clear
Ends == Deadband /\ Back => level = "none" \/ latched
=============================================================================
