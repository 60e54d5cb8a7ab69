-------------------------- MODULE AlarmEngineProofs --------------------------
(***************************************************************************)
(* Proofs about AlarmEngine, for every rule, every number of samples and   *)
(* every set of readings: debounce, latching, hysteresis, that no alarm is *)
(* missed, that every alarm ends and that a sustained critical is one.     *)
(***************************************************************************)
EXTENDS Display, SequenceTheorems, WellFoundedInduction, TLAPS

\* The counters and the latch, in their types.
Types ==
  /\ rule \in RuleType
  /\ level \in {"none", "warn", "critical"} /\ latched \in BOOLEAN
  /\ warnRun \in 0..rule.samples /\ critRun \in 0..rule.samples
  /\ trail \in Seq(Sample) /\ Len(trail) <= rule.samples
  /\ value \in Int \cup {None} /\ history \subseteq [age : Nat, raw : Values]

\* The counters never count a sample that was not a hit.
Counted ==
  /\ warnRun <= Len(trail) /\ critRun <= Len(trail)
  /\ \A i \in 1..Len(trail) :
       /\ i > Len(trail) - warnRun => trail[i].warn
       /\ i > Len(trail) - critRun => trail[i].crit

LatchOK == latched => level = "critical"

IInv == Types /\ Counted /\ LatchOK

-----------------------------------------------------------------------------
(* Lemmas: the metric, the trail and the counters. *)

\* A non-empty bounded set of naturals has a largest element.
LEMMA BoundedMax ==
  ASSUME NEW n \in Nat, NEW T \in SUBSET (0..n), T # {}
  PROVE  \E x \in T : \A y \in T : y <= x
<1> DEFINE U == {n - x : x \in T}
<1>1. U \subseteq Nat /\ U # {}
  <2>1. \A x \in T : n - x \in Nat /\ n - x \in U
    OBVIOUS
  <2>2. QED
    BY <2>1
<1>2. PICK u \in U : \A w \in U : ~ (<<w, u>> \in OpToRel(<, Nat))
  BY <1>1, NatLessThanWellFounded, WFMin
<1>3. \A w \in U : w >= u
  <2> SUFFICES ASSUME NEW w \in U PROVE w >= u
    OBVIOUS
  <2>1. w \in Nat /\ u \in Nat
    BY <1>1
  <2>2. ~ (w < u)
    BY <1>2, <2>1 DEF OpToRel
  <2>3. QED
    BY <2>1, <2>2
<1>4. PICK x \in T : u = n - x
  OBVIOUS
<1>5. ASSUME NEW y \in T PROVE y <= x
  <2>1. n - y \in U
    OBVIOUS
  <2>2. n - y >= n - x
    <3> HIDE DEF U
    <3>1. QED
      BY <1>3, <1>4, <2>1
  <2>3. x \in Int /\ y \in Int
    OBVIOUS
  <2>4. QED
    <3> HIDE DEF U
    <3>1. QED
      BY <2>2, <2>3
<1>6. QED
  BY <1>5

\* The metric of a reading is a number: a rate rule's window has an oldest reading.
LEMMA MetricType ==
  ASSUME Types, NEW raw \in Values, NEW dt \in Steps
  PROVE  /\ window(raw, dt) \subseteq [age : Nat, raw : Values]
         /\ metric(raw, dt) \in Int
<1> USE AlarmAssumption
<1> DEFINE W == window(raw, dt)
           Aged == {[age |-> g.age + dt, raw |-> g.raw] : g \in history}
<1>1. Aged \subseteq [age : Nat, raw : Values]
  BY DEF Types
<1>2. rule.window \in Nat
  BY DEF Types, RuleType
<1>3. W = {h \in Aged : h.age <= rule.window} \cup {[age |-> 0, raw |-> raw]}
  BY DEF window
<1>4. /\ W \subseteq [age : Nat, raw : Values]
      /\ \A h \in W : h.age \in 0..rule.window /\ h.raw \in Int
      /\ W # {}
  <2> HIDE DEF W, Aged
  <2>1. [age |-> 0, raw |-> raw] \in [age : Nat, raw : Values]
    OBVIOUS
  <2>2. W \subseteq [age : Nat, raw : Values] /\ W # {}
    BY <1>1, <1>3, <2>1
  <2>3. ASSUME NEW h \in W PROVE h.age \in 0..rule.window /\ h.raw \in Int
    <3>1. h.age \in Nat /\ h.raw \in Values
      BY <2>2
    <3>2. h.age <= rule.window
      <4>1. CASE h = [age |-> 0, raw |-> raw]
        BY <1>2, <4>1
      <4>2. QED
        BY <1>3, <4>1
    <3>3. h.age \in 0..rule.window
      BY <1>2, <3>1, <3>2
    <3>4. Values \subseteq Int
      OBVIOUS
    <3>5. QED
      BY <3>1, <3>3, <3>4
  <2>4. QED
    BY <2>2, <2>3
<1>5. \E h \in W : \A g \in W : g.age <= h.age
  <2> DEFINE T == {h.age : h \in W}
  <2> HIDE DEF W
  <2>1. T \in SUBSET (0..rule.window) /\ T # {}
    BY <1>4
  <2>2. PICK x \in T : \A y \in T : y <= x
    <3> HIDE DEF T
    <3>1. QED
      BY <1>2, <2>1, BoundedMax
  <2>3. QED
    BY <2>2
<1>6. metric(raw, dt) \in Int
  <2>1. CASE rule.type = "threshold"
    BY <2>1 DEF metric
  <2>2. CASE rule.type # "threshold"
    <3> DEFINE old == CHOOSE h \in W : \A g \in W : g.age <= h.age
    <3>1. old \in W
      <4> HIDE DEF W
      <4>1. QED
        BY <1>5
    <3>2. metric(raw, dt) = raw - old.raw
      BY <2>2 DEF metric
    <3>3. old.raw \in Int
      <4> HIDE DEF W, old
      <4>1. QED
        BY <1>4, <3>1
    <3>4. QED
      <4> HIDE DEF W, old
      <4>1. QED
        BY <3>2, <3>3
  <2>3. QED
    BY <2>1, <2>2
<1>7. QED
  BY <1>4, <1>6

\* The tests of a number against the thresholds are true or false.
LEMMA TestTypes ==
  ASSUME Types, NEW v \in Int
  PROVE  /\ beyond(v, rule.warn) \in BOOLEAN /\ beyond(v, rule.critical) \in BOOLEAN
         /\ within_clear(v) \in BOOLEAN
<1>1. rule.warn \in Int /\ rule.critical \in Int /\ rule.clear \in Int
  BY DEF Types, RuleType
<1>2. ASSUME NEW t \in Int PROVE beyond(v, t) \in BOOLEAN
  <2>1. CASE rule.direction = "below"
    BY <2>1 DEF beyond
  <2>2. CASE rule.direction # "below"
    BY <2>2 DEF beyond
  <2>3. QED
    BY <2>1, <2>2
<1>3. within_clear(v) \in BOOLEAN
  <2>1. CASE rule.direction = "below"
    BY <1>1, <2>1 DEF within_clear
  <2>2. CASE rule.direction # "below"
    BY <1>1, <2>2 DEF within_clear
  <2>3. QED
    BY <2>1, <2>2
<1>4. QED
  BY <1>1, <1>2, <1>3

\* The trail takes a sample at its end and drops its oldest one when it is full.
LEMMA TrailStep ==
  ASSUME Types, NEW s \in Sample, Record(s), UNCHANGED rule
  PROVE  /\ trail' \in Seq(Sample) /\ Len(trail') <= rule.samples
         /\ Len(trail') = IF Len(trail) < rule.samples THEN Len(trail) + 1 ELSE Len(trail)
         /\ trail'[Len(trail')] = s
         /\ \A i \in 1..(Len(trail') - 1) :
              /\ i + (Len(trail) + 1 - Len(trail')) \in 1..Len(trail)
              /\ trail'[i] = trail[i + (Len(trail) + 1 - Len(trail'))]
<1> DEFINE t == Append(trail, s)
<1> USE DEF Types, RuleType
<1>1. t \in Seq(Sample) /\ Len(t) = Len(trail) + 1 /\ t[Len(trail) + 1] = s
      /\ \A i \in 1..Len(trail) : t[i] = trail[i]
  OBVIOUS
<1>2. CASE Len(trail) < rule.samples
  <2>1. trail' = t
    BY <1>1, <1>2 DEF Record
  <2>2. Len(trail) \in Nat /\ Len(trail') = Len(trail) + 1
    BY <1>1, <2>1
  <2>3. trail' \in Seq(Sample) /\ Len(trail') <= rule.samples /\ trail'[Len(trail')] = s
    BY <1>1, <1>2, <2>1, <2>2
  <2>4. ASSUME NEW i \in 1..(Len(trail') - 1)
        PROVE  i + (Len(trail) + 1 - Len(trail')) = i /\ i \in 1..Len(trail)
    BY <2>2
  <2>5. \A i \in 1..Len(trail) : trail'[i] = trail[i]
    BY <1>1, <2>1
  <2>6. QED
    BY <1>2, <2>2, <2>3, <2>4, <2>5
<1>3. CASE ~(Len(trail) < rule.samples)
  <2>1. trail' = Tail(t)
    BY <1>1, <1>3 DEF Record
  <2>2. t # << >>
    <3> HIDE DEF t
    <3>1. Len(trail) \in Nat /\ Len(t) = Len(trail) + 1
      BY <1>1
    <3>2. Len(t) # 0
      BY <3>1
    <3>3. QED
      BY <3>2
  <2>3. /\ Tail(t) \in Seq(Sample) /\ Len(Tail(t)) = Len(trail)
        /\ \A i \in 1..Len(trail) : Tail(t)[i] = t[i + 1]
    <3> HIDE DEF t
    <3>1. /\ Tail(t) \in Seq(Sample) /\ Len(Tail(t)) = Len(t) - 1
          /\ \A i \in 1..Len(Tail(t)) : Tail(t)[i] = t[i + 1]
      BY <1>1, <2>2, HeadTailProperties
    <3>2. Len(Tail(t)) = Len(trail)
      BY <1>1, <3>1
    <3>3. QED
      BY <3>1, <3>2
  <2>4. Len(trail') = Len(trail) /\ Len(trail) >= 1
    BY <1>3, <2>1, <2>3
  <2>5. trail'[Len(trail')] = s
    BY <1>1, <2>1, <2>3, <2>4
  <2>6. ASSUME NEW i \in 1..(Len(trail') - 1)
        PROVE  /\ i + (Len(trail) + 1 - Len(trail')) \in 1..Len(trail)
               /\ trail'[i] = trail[i + (Len(trail) + 1 - Len(trail'))]
    <3>1. i + (Len(trail) + 1 - Len(trail')) = i + 1 /\ i + 1 \in 1..Len(trail)
      BY <2>4
    <3>2. i \in 1..Len(trail) /\ trail'[i] = t[i + 1]
      BY <2>1, <2>3, <2>4
    <3>3. t[i + 1] = trail[i + 1]
      BY <1>1, <3>1
    <3>4. QED
      BY <3>1, <3>2, <3>3
  <2>7. QED
    BY <1>3, <2>1, <2>3, <2>4, <2>5, <2>6
<1>4. QED
  BY <1>2, <1>3

\* A counter goes up by one on a hit, as far as rule.samples.
LEMMA BumpStep ==
  ASSUME Types, NEW n \in 0..rule.samples
  PROVE  /\ bump(n) \in 0..rule.samples
         /\ bump(n) <= n + 1
BY DEF bump, Types, RuleType

\* Counters that go up on a hit, or restart, count hits only.
LEMMA CountedStep ==
  ASSUME Types, Counted, NEW s \in Sample, Record(s), UNCHANGED rule,
         warnRun' = 0 \/ (s.warn /\ warnRun' = bump(warnRun)),
         critRun' = 0 \/ (s.crit /\ critRun' = bump(critRun))
  PROVE  /\ trail' \in Seq(Sample) /\ Len(trail') <= rule.samples
         /\ warnRun' \in 0..rule.samples /\ critRun' \in 0..rule.samples
         /\ Counted'
<1>1. /\ bump(warnRun) \in 0..rule.samples /\ bump(warnRun) <= warnRun + 1
      /\ bump(critRun) \in 0..rule.samples /\ bump(critRun) <= critRun + 1
  BY BumpStep DEF Types
<1>2. /\ trail' \in Seq(Sample) /\ Len(trail') <= rule.samples
      /\ Len(trail') = IF Len(trail) < rule.samples THEN Len(trail) + 1 ELSE Len(trail)
      /\ trail'[Len(trail')] = s
      /\ \A i \in 1..(Len(trail') - 1) :
           /\ i + (Len(trail) + 1 - Len(trail')) \in 1..Len(trail)
           /\ trail'[i] = trail[i + (Len(trail) + 1 - Len(trail'))]
  BY TrailStep
<1>3. /\ rule.samples \in Nat /\ rule.samples > 0
      /\ Len(trail) \in Nat /\ Len(trail') \in Nat /\ Len(trail') > 0
      /\ warnRun \in Nat /\ critRun \in Nat
  BY <1>2 DEF Types, RuleType
<1>4. warnRun' \in 0..rule.samples /\ critRun' \in 0..rule.samples
  BY <1>1, <1>3
<1>5. warnRun' <= Len(trail') /\ critRun' <= Len(trail')
  BY <1>1, <1>2, <1>3 DEF Counted, Types
<1>6. ASSUME NEW i \in 1..Len(trail')
      PROVE  /\ i > Len(trail') - warnRun' => trail'[i].warn
             /\ i > Len(trail') - critRun' => trail'[i].crit
  <2>1. CASE i = Len(trail')
    BY <1>1, <1>2, <1>3, <2>1
  <2>2. CASE i \in 1..(Len(trail') - 1)
    <3> DEFINE j == i + (Len(trail) + 1 - Len(trail'))
    <3>1. j \in 1..Len(trail) /\ trail'[i] = trail[j]
      BY <1>2, <2>2
    <3>2. i > Len(trail') - warnRun' => j > Len(trail) - warnRun
      BY <1>1, <1>3, <2>2
    <3>3. i > Len(trail') - critRun' => j > Len(trail) - critRun
      BY <1>1, <1>3, <2>2
    <3>4. QED
      BY <3>1, <3>2, <3>3 DEF Counted
  <2>3. QED
    BY <1>3, <2>1, <2>2
<1>7. Counted'
  BY <1>5, <1>6 DEF Counted
<1>8. QED
  BY <1>2, <1>4, <1>7

-----------------------------------------------------------------------------
(* The steps. *)

\* A gated sample: the counters restart, nothing else changes.
LEMMA GatedStep ==
  ASSUME IInv, NEW raw \in Values, NEW rpm, NEW tps, NEW dt, Gated(raw, rpm, tps, dt), UNCHANGED rule,
         history' \subseteq [age : Nat, raw : Values]
  PROVE  IInv' /\ UNCHANGED <<level, latched>>
<1> DEFINE s == [reading |-> raw, gated |-> TRUE, warn |-> FALSE, crit |-> FALSE, clear |-> FALSE]
<1>1. s \in Sample /\ Record(s)
  BY DEF Gated, Sample
<1>2. warnRun' = 0 /\ critRun' = 0 /\ UNCHANGED <<level, latched, value>>
  BY DEF Gated
<1>3. /\ trail' \in Seq(Sample) /\ Len(trail') <= rule.samples
      /\ warnRun' \in 0..rule.samples /\ critRun' \in 0..rule.samples
      /\ Counted'
  <2> HIDE DEF s
  <2>1. QED
    BY <1>1, <1>2, CountedStep DEF IInv
<1>4. QED
  BY <1>2, <1>3 DEF IInv, Types, LatchOK

\* An evaluated sample, in two parts: what the counters become ...
LEMMA EvaluatedRuns ==
  ASSUME IInv, NEW raw \in Values, NEW rpm, NEW tps, NEW dt \in Steps,
         Evaluated(raw, rpm, tps, dt), UNCHANGED rule
  PROVE  \E s \in Sample :
           /\ Record(s)
           /\ warnRun' = 0 \/ (s.warn /\ warnRun' = bump(warnRun))
           /\ critRun' = 0 \/ (s.crit /\ critRun' = bump(critRun))
           /\ value' \in Int /\ s.clear = within_clear(value')
<1> DEFINE v == metric(raw, dt)
           warn == beyond(v, rule.warn)
           crit == beyond(v, rule.critical)
           s == [reading |-> raw, gated |-> FALSE, warn |-> warn, crit |-> crit,
                 clear |-> within_clear(v)]
<1>1. warn \in BOOLEAN /\ crit \in BOOLEAN /\ within_clear(v) \in BOOLEAN
  BY MetricType, TestTypes DEF IInv
<1>2. s \in Sample
  <2> HIDE DEF v, warn, crit
  <2>1. QED
    BY <1>1 DEF Sample
<1>3. Record(s) /\ value' = v
  BY DEF Evaluated
<1>4. \/ warnRun' = 0
      \/ warnRun' = IF warn THEN bump(warnRun) ELSE 0
  BY DEF Evaluated, Judge, Clear
<1>5. \/ critRun' = 0
      \/ critRun' = IF crit THEN bump(critRun) ELSE 0
  BY DEF Evaluated, Judge, Clear
<1>6. s.warn = warn /\ s.crit = crit /\ s.clear = within_clear(v)
  OBVIOUS
<1>7. QED
  <2> HIDE DEF s, v, warn, crit
  <2>1. /\ warnRun' = 0 \/ (s.warn /\ warnRun' = bump(warnRun))
        /\ critRun' = 0 \/ (s.crit /\ critRun' = bump(critRun))
    BY <1>1, <1>4, <1>5, <1>6
  <2>2. s.clear = within_clear(value')
    BY <1>3, <1>6
  <2>3. v \in Int
    BY MetricType DEF IInv, v
  <2>4. QED
    BY <1>2, <1>3, <2>1, <2>2, <2>3

\* ... and what the level becomes.
LEMMA EvaluatedLevel ==
  ASSUME IInv, NEW raw, NEW rpm, NEW tps, NEW dt, Evaluated(raw, rpm, tps, dt), UNCHANGED rule
  PROVE  \/ level' = "critical" /\ latched' = TRUE /\ level # "critical"
            /\ critRun' >= rule.samples
         \/ level' = "warn" /\ latched' = latched /\ level = "none" /\ warnRun' >= rule.samples
         \/ level' = "none" /\ latched' = latched /\ ends(value') /\ within_clear(value')
         \/ level' = level /\ latched' = latched
BY DEF Evaluated, Judge, Clear, ends

\* Every step keeps the invariant.
LEMMA UpdateStep ==
  ASSUME IInv, Update
  PROVE  /\ IInv'
         /\ latched => latched' /\ level' = "critical"
         /\ level' = "critical" /\ level # "critical" => critRun' >= rule.samples
         /\ level' = "warn" /\ level # "warn" => level = "none" /\ warnRun' >= rule.samples
         /\ level # "none" /\ level' = "none" => within_clear(value')
         /\ UNCHANGED rule
<1>1. PICK raw \in Values, rpm \in Rpms, tps \in Throttles, dt \in Steps :
        /\ history' = IF rule.type = "rate" THEN window(raw, dt) ELSE history
        /\ Gated(raw, rpm, tps, dt) \/ Evaluated(raw, rpm, tps, dt)
        /\ UNCHANGED rule
  BY DEF Update
<1> history' \subseteq [age : Nat, raw : Values]
  BY <1>1, MetricType DEF IInv, Types
<1>2. CASE Gated(raw, rpm, tps, dt)
  <2>1. IInv' /\ UNCHANGED <<level, latched>>
    BY <1>1, <1>2, GatedStep
  <2>2. QED
    BY <1>1, <2>1 DEF IInv, LatchOK
<1>3. CASE Evaluated(raw, rpm, tps, dt)
  <2>1. /\ trail' \in Seq(Sample) /\ Len(trail') <= rule.samples
        /\ warnRun' \in 0..rule.samples /\ critRun' \in 0..rule.samples
        /\ Counted' /\ value' \in Int
    <3>1. PICK s \in Sample :
            /\ Record(s)
            /\ warnRun' = 0 \/ (s.warn /\ warnRun' = bump(warnRun))
            /\ critRun' = 0 \/ (s.crit /\ critRun' = bump(critRun))
            /\ value' \in Int
      BY <1>1, <1>3, EvaluatedRuns
    <3>2. QED
      BY <1>1, <3>1, CountedStep DEF IInv
  <2>2. \/ level' = "critical" /\ latched' = TRUE /\ level # "critical"
           /\ critRun' >= rule.samples
        \/ level' = "warn" /\ latched' = latched /\ level = "none" /\ warnRun' >= rule.samples
        \/ level' = "none" /\ latched' = latched /\ ends(value') /\ within_clear(value')
        \/ level' = level /\ latched' = latched
    BY <1>1, <1>3, EvaluatedLevel
  <2>3. latched => ~ends(value')
    BY DEF ends, IInv, LatchOK
  <2>4. latched' \in BOOLEAN
    BY <2>2, Zenon DEF IInv, Types
  <2>5. level' \in {"none", "warn", "critical"} /\ LatchOK'
    BY <2>2, <2>3 DEF IInv, Types, LatchOK, ends
  <2>6. Types'
    BY <1>1, <2>1, <2>4, <2>5 DEF IInv, Types
  <2>7. QED
    BY <1>1, <2>1, <2>2, <2>3, <2>5, <2>6 DEF IInv, LatchOK
<1>4. QED
  BY <1>1, <1>2, <1>3

LEMMA AckStep ==
  ASSUME IInv, Ack
  PROVE  /\ IInv'
         /\ level' = level \/ (level' = "none" /\ within_clear(value'))
         /\ latched' = FALSE /\ latched
         /\ UNCHANGED rule
<1>1. /\ level' = level \/ (level' = "none" /\ within_clear(value'))
      /\ latched' = FALSE /\ latched
      /\ UNCHANGED <<rule, value, trail, history>>
      /\ warnRun' \in {0, warnRun} /\ critRun' \in {0, critRun}
  BY DEF Ack, Clear
<1>2. latched' \in BOOLEAN
  BY <1>1, Zenon
<1>3. Types'
  BY <1>1, <1>2 DEF IInv, Types, RuleType
<1>4. Counted'
  BY <1>1 DEF IInv, Types, Counted, RuleType
<1>5. QED
  BY <1>1, <1>3, <1>4 DEF IInv, LatchOK

-----------------------------------------------------------------------------
(* The theorems. *)

\* The inductive invariant holds in every reachable state.
THEOREM Inductive == Spec => []IInv
<1>1. Init => IInv
  <2> SUFFICES ASSUME Init PROVE IInv
    OBVIOUS
  <2>1. latched = FALSE /\ latched \in BOOLEAN
    BY Zenon DEF Init
  <2>2. rule \in RuleType /\ rule.samples \in Nat /\ trail \in Seq(Sample) /\ Len(trail) = 0
    BY AlarmAssumption DEF Init, RuleType
  <2>3. QED
    BY <2>1, <2>2 DEF Init, IInv, Types, Counted, LatchOK
<1>2. IInv /\ [Next]_vars => IInv'
  <2>1. CASE Next
    BY <2>1, UpdateStep, AckStep DEF Next
  <2>2. CASE UNCHANGED vars
    BY <2>2 DEF vars, state, IInv, Types, Counted, LatchOK
  <2>3. QED
    BY <2>1, <2>2
<1>3. QED
  BY <1>1, <1>2, PTL DEF Spec

\* An age stays an age.
LEMMA OlderType ==
  ASSUME NEW age \in Nat \cup {None}, NEW dt \in Nat, NEW limit \in Nat \cup {None}
  PROVE  older(age, dt, limit) \in Nat \cup {None}
BY AlarmAssumption DEF older

Ages == critAge \in Nat \cup {None} /\ hitFor \in Nat \cup {None}
Chosen == rule \in Rules

\* Type correctness, for every set of rules and readings.
THEOREM TypeCorrect == Spec => []TypeOK
<1>1. Init => Ages
  BY DEF Init, Ages
<1>2. IInv /\ Ages /\ [Next]_vars => Ages'
  <2> SUFFICES ASSUME IInv, Ages, [Next]_vars PROVE Ages'
    OBVIOUS
  <2>1. rule.sustained \in Nat \cup {None}
    BY DEF IInv, Types, RuleType
  <2>2. ASSUME NEW raw \in Values, NEW rpm \in Rpms, NEW tps \in Throttles, NEW dt \in Steps,
               Gated(raw, rpm, tps, dt) \/ Evaluated(raw, rpm, tps, dt)
        PROVE  Ages'
    <3>1. dt \in Nat
      BY AlarmAssumption
    <3>2. /\ older(critAge, dt, rule.sustained) \in Nat \cup {None}
          /\ older(hitFor, dt, rule.sustained) \in Nat \cup {None}
      BY <2>1, <3>1, OlderType DEF Ages
    <3>3. /\ critAge' \in {None, 0, critAge, older(critAge, dt, rule.sustained)}
          /\ hitFor' \in {None, 0, older(hitFor, dt, rule.sustained)}
      BY <2>2 DEF Gated, Evaluated, Judge, Clear, crit_since
    <3>4. QED
      BY <3>2, <3>3 DEF Ages
  <2>3. CASE Update
    BY <2>2, <2>3 DEF Update
  <2>4. CASE Ack
    BY <2>4 DEF Ack, Clear, Ages
  <2>5. CASE UNCHANGED vars
    BY <2>5 DEF vars, state, Ages
  <2>6. QED
    BY <2>3, <2>4, <2>5 DEF Next
<1>3. Init => Chosen
  BY DEF Init, Chosen
<1>4. Chosen /\ [Next]_vars => Chosen'
  BY DEF Next, Update, Ack, vars, Chosen
<1>5. IInv /\ Ages /\ Chosen => TypeOK
  BY DEF IInv, Types, Ages, Chosen, TypeOK
<1>6. QED
  BY <1>1, <1>2, <1>3, <1>4, <1>5, Inductive, PTL DEF Spec

\* No frame ends, demotes or unlatches a critical that has not been acknowledged.
THEOREM LatchHolds == Spec => LatchedUntilAck
<1>1. IInv /\ [Next]_vars => [Update /\ latched => latched' /\ level' = "critical"]_vars
  BY UpdateStep
<1>2. QED
  BY <1>1, Inductive, PTL DEF Spec, LatchedUntilAck

\* A full counter means a trail of hits.
LEMMA FullCounter ==
  ASSUME IInv
  PROVE  /\ critRun >= rule.samples => CritTrail
         /\ warnRun >= rule.samples => WarnTrail
<1> DEFINE n == rule.samples
           k == Len(trail)
<1>1. /\ n \in Nat /\ k \in Nat /\ k <= n
      /\ critRun \in Nat /\ critRun <= k /\ warnRun \in Nat /\ warnRun <= k
  BY DEF IInv, Types, Counted, RuleType
<1>2. ASSUME critRun >= rule.samples PROVE CritTrail
  <2>1. k = n /\ critRun = k
    <3> HIDE DEF n, k
    <3>1. critRun >= n
      BY <1>2 DEF n
    <3>2. QED
      BY <1>1, <3>1
  <2>2. \A i \in 1..Len(trail) : trail[i].crit
    BY <1>1, <2>1 DEF IInv, Counted
  <2>3. DOMAIN trail = 1..Len(trail)
    BY DEF IInv, Types
  <2>4. QED
    BY <2>1, <2>2, <2>3 DEF CritTrail
<1>3. ASSUME warnRun >= rule.samples PROVE WarnTrail
  <2>1. k = n /\ warnRun = k
    <3> HIDE DEF n, k
    <3>1. warnRun >= n
      BY <1>3 DEF n
    <3>2. QED
      BY <1>1, <3>1
  <2>2. \A i \in 1..Len(trail) : trail[i].warn
    BY <1>1, <2>1 DEF IInv, Counted
  <2>3. DOMAIN trail = 1..Len(trail)
    BY DEF IInv, Types
  <2>4. QED
    BY <2>1, <2>2, <2>3 DEF WarnTrail
<1>4. QED
  BY <1>2, <1>3

\* A level rises only after rule.samples consecutive samples beyond its threshold.
THEOREM RisesAreDebounced == Spec => Debounced
<1> DEFINE Rise == /\ level' = "critical" /\ level # "critical" => CritTrail'
                   /\ level' = "warn" /\ level # "warn" => WarnTrail'
<1>1. IInv /\ IInv' /\ [Next]_vars => [Rise]_vars
  <2> SUFFICES ASSUME IInv, IInv', Next PROVE Rise
    OBVIOUS
  <2>1. /\ (critRun >= rule.samples => CritTrail)'
        /\ (warnRun >= rule.samples => WarnTrail)'
    BY FullCounter, PTL
  <2>2. CASE Update
    BY <2>1, <2>2, UpdateStep
  <2>3. CASE Ack
    BY <2>3, AckStep
  <2>4. QED
    BY <2>2, <2>3 DEF Next
<1>2. QED
  BY <1>1, Inductive, PTL DEF Spec, Debounced

\* A level ends only inside the clear band, critical never becomes warn, and a latch
\* never outlives its critical.
THEOREM EndsAreHysteretic == Spec => EndsInsideBand
<1> DEFINE Band == /\ level # "none" /\ level' = "none" => within_clear(value')
                   /\ level = "critical" => level' # "warn"
                   /\ latched' => level' = "critical"
<1>1. IInv /\ IInv' /\ [Next]_vars => [Band]_vars
  <2> SUFFICES ASSUME IInv, IInv', Next PROVE Band
    OBVIOUS
  <2>1. CASE Update
    BY <2>1, UpdateStep DEF IInv, LatchOK
  <2>2. CASE Ack
    BY <2>2, AckStep DEF IInv, LatchOK
  <2>3. QED
    BY <2>1, <2>2 DEF Next
<1>2. QED
  BY <1>1, Inductive, PTL DEF Spec, EndsInsideBand

-----------------------------------------------------------------------------
(* No alarm is missed, for a rule with a deadband. *)

\* The last sample of the trail is the value last evaluated, or it was gated.
LastValue ==
  trail # << >> => /\ trail[Len(trail)].warn => value \in Int /\ beyond(value, rule.warn)
                   /\ trail[Len(trail)].crit => value \in Int /\ beyond(value, rule.critical)

\* The counters miss no hit: the sample before those they count was none.
Exact ==
  /\ warnRun < rule.samples /\ warnRun < Len(trail) => ~trail[Len(trail) - warnRun].warn
  /\ critRun < rule.samples /\ critRun < Len(trail) => ~trail[Len(trail) - critRun].crit

\* A full counter has raised its level.
Raised ==
  /\ level = "none" => warnRun < rule.samples
  /\ level # "critical" /\ ~SustainedRule => critRun < rule.samples

MInv == Deadband => LastValue /\ Exact /\ Raised

\* In the clear band of a rule with a deadband there are no hits.
LEMMA ClearIsNoHit ==
  ASSUME Types, Deadband, NEW v \in Int, within_clear(v)
  PROVE  ~beyond(v, rule.warn) /\ ~beyond(v, rule.critical)
<1>1. rule.warn \in Int /\ rule.critical \in Int /\ rule.clear \in Int
  BY DEF Types, RuleType
<1>2. CASE rule.direction = "below"
  BY <1>1, <1>2 DEF Deadband, beyond, within_clear
<1>3. CASE rule.direction # "below"
  BY <1>1, <1>3 DEF Deadband, beyond, within_clear
<1>4. QED
  BY <1>2, <1>3

\* Counters that go up on every hit, and restart only on what is none, stay exact.
LEMMA ExactStep ==
  ASSUME IInv, Exact, NEW s \in Sample, Record(s), UNCHANGED rule,
         warnRun' = IF s.warn THEN bump(warnRun) ELSE 0,
         critRun' = IF s.crit THEN bump(critRun) ELSE 0
  PROVE  Exact'
<1>1. /\ trail' \in Seq(Sample) /\ Len(trail') <= rule.samples
      /\ Len(trail') = IF Len(trail) < rule.samples THEN Len(trail) + 1 ELSE Len(trail)
      /\ trail'[Len(trail')] = s
      /\ \A i \in 1..(Len(trail') - 1) :
           /\ i + (Len(trail) + 1 - Len(trail')) \in 1..Len(trail)
           /\ trail'[i] = trail[i + (Len(trail) + 1 - Len(trail'))]
  BY TrailStep DEF IInv
<1>2. /\ rule.samples \in Nat /\ rule.samples > 0
      /\ Len(trail) \in Nat /\ Len(trail') \in Nat /\ Len(trail') > 0
      /\ warnRun \in Nat /\ critRun \in Nat
      /\ warnRun <= Len(trail) /\ critRun <= Len(trail)
  BY <1>1 DEF IInv, Types, Counted, RuleType
<1>3. warnRun' < rule.samples /\ warnRun' < Len(trail') => ~trail'[Len(trail') - warnRun'].warn
  <2>1. CASE ~s.warn
    BY <1>1, <1>2, <2>1
  <2>2. CASE s.warn /\ warnRun' < rule.samples /\ warnRun' < Len(trail')
    <3>1. warnRun' = warnRun + 1 /\ warnRun < rule.samples
      BY <1>2, <2>2 DEF bump
    <3> DEFINE k == Len(trail') - warnRun'
               j == k + (Len(trail) + 1 - Len(trail'))
    <3>2. k \in 1..(Len(trail') - 1) /\ j = Len(trail) - warnRun
      BY <1>2, <2>2, <3>1
    <3>3. trail'[k] = trail[Len(trail) - warnRun] /\ warnRun < Len(trail)
      <4>1. j \in 1..Len(trail) /\ trail'[k] = trail[j]
        <5> HIDE DEF k
        <5>1. QED
          BY <1>1, <3>2
      <4> HIDE DEF k, j
      <4>2. QED
        BY <1>2, <3>2, <4>1
    <3>4. QED
      BY <3>1, <3>3 DEF Exact
  <2>3. QED
    BY <2>1, <2>2
<1>4. critRun' < rule.samples /\ critRun' < Len(trail') => ~trail'[Len(trail') - critRun'].crit
  <2>1. CASE ~s.crit
    BY <1>1, <1>2, <2>1
  <2>2. CASE s.crit /\ critRun' < rule.samples /\ critRun' < Len(trail')
    <3>1. critRun' = critRun + 1 /\ critRun < rule.samples
      BY <1>2, <2>2 DEF bump
    <3> DEFINE k == Len(trail') - critRun'
               j == k + (Len(trail) + 1 - Len(trail'))
    <3>2. k \in 1..(Len(trail') - 1) /\ j = Len(trail) - critRun
      BY <1>2, <2>2, <3>1
    <3>3. trail'[k] = trail[Len(trail) - critRun] /\ critRun < Len(trail)
      <4>1. j \in 1..Len(trail) /\ trail'[k] = trail[j]
        <5> HIDE DEF k
        <5>1. QED
          BY <1>1, <3>2
      <4> HIDE DEF k, j
      <4>2. QED
        BY <1>2, <3>2, <4>1
    <3>4. QED
      BY <3>1, <3>3 DEF Exact
  <2>3. QED
    BY <2>1, <2>2
<1>5. QED
  BY <1>3, <1>4 DEF Exact

\* A gated sample is no hit, and restarts the counters.
LEMMA GatedMisses ==
  ASSUME IInv, MInv, NEW raw \in Values, NEW rpm, NEW tps, NEW dt, Gated(raw, rpm, tps, dt),
         UNCHANGED rule, Deadband
  PROVE  LastValue' /\ Exact' /\ Raised'
<1> DEFINE s == [reading |-> raw, gated |-> TRUE, warn |-> FALSE, crit |-> FALSE, clear |-> FALSE]
<1>1. s \in Sample /\ Record(s) /\ ~s.warn /\ ~s.crit
  BY DEF Gated, Sample
<1>2. warnRun' = 0 /\ critRun' = 0 /\ UNCHANGED <<level, value>>
  BY DEF Gated
<1> HIDE DEF s
<1>3. trail' \in Seq(Sample) /\ trail'[Len(trail')] = s
  BY <1>1, TrailStep DEF IInv
<1>4. Exact'
  BY <1>1, <1>2, ExactStep DEF MInv
<1>5. LastValue'
  BY <1>1, <1>3 DEF LastValue
<1>6. Raised'
  BY <1>2 DEF Raised, IInv, Types, RuleType
<1>7. QED
  BY <1>4, <1>5, <1>6

\* An evaluated sample: the four branches of update() raise what the counters ask for.
LEMMA EvaluatedMisses ==
  ASSUME IInv, MInv, NEW raw \in Values, NEW rpm, NEW tps, NEW dt \in Steps,
         Evaluated(raw, rpm, tps, dt), UNCHANGED rule, Deadband
  PROVE  LastValue' /\ Exact' /\ Raised'
<1> DEFINE v == metric(raw, dt)
           warn == beyond(v, rule.warn)
           crit == beyond(v, rule.critical)
           s == [reading |-> raw, gated |-> FALSE, warn |-> warn, crit |-> crit,
                 clear |-> within_clear(v)]
           wr == IF warn THEN bump(warnRun) ELSE 0
           cr == IF crit THEN bump(critRun) ELSE 0
<1>1. v \in Int /\ warn \in BOOLEAN /\ crit \in BOOLEAN /\ within_clear(v) \in BOOLEAN
  BY MetricType, TestTypes DEF IInv
<1>2. s \in Sample /\ s.warn = warn /\ s.crit = crit
  <2> HIDE DEF v, warn, crit
  <2>1. QED
    BY <1>1 DEF Sample
<1>3. Record(s) /\ value' = v
  BY DEF Evaluated
<1>4. \/ level' = "none" /\ warnRun' = 0 /\ critRun' = 0 /\ within_clear(v)
      \/ warnRun' = wr /\ critRun' = cr
  BY DEF Evaluated, Judge, Clear, ends
<1>5. /\ level' = "none" => warnRun' = 0 \/ wr < rule.samples
      /\ level' # "critical" /\ ~SustainedRule => critRun' = 0 \/ ~(cr >= rule.samples /\ crit)
  BY DEF Evaluated, Judge, Clear, ends, IInv, Types, RuleType, bump
<1>6. within_clear(v) => ~warn /\ ~crit
  BY <1>1, ClearIsNoHit DEF IInv
<1> HIDE DEF v, warn, crit, s
<1>7. warnRun' = wr /\ critRun' = cr
  BY <1>4, <1>6
<1>8. Exact'
  BY <1>2, <1>3, <1>7, ExactStep DEF MInv
<1>9. trail' \in Seq(Sample) /\ trail'[Len(trail')] = s
  BY <1>2, <1>3, TrailStep DEF IInv
<1>10. LastValue'
  <2>1. value' \in Int /\ (warn => beyond(value', rule'.warn)) /\ (crit => beyond(value', rule'.critical))
    BY <1>1, <1>3 DEF warn, crit
  <2>2. QED
    BY <1>2, <1>9, <2>1 DEF LastValue, beyond
<1>11. Raised'
  <2>1. wr \in 0..rule.samples /\ cr \in 0..rule.samples /\ rule.samples > 0 /\ rule.samples \in Nat
    BY BumpStep DEF IInv, Types, RuleType
  <2>2. level' = "none" => warnRun' < rule.samples
    BY <1>5, <1>7, <2>1
  <2>3. level' # "critical" /\ ~SustainedRule => critRun' < rule.samples
    BY <1>5, <1>7, <2>1
  <2>4. QED
    BY <2>2, <2>3 DEF Raised, SustainedRule
<1>12. QED
  BY <1>8, <1>10, <1>11

\* An ack ends a critical only where the last sample is no hit.
LEMMA AckMisses ==
  ASSUME IInv, MInv, Ack, Deadband
  PROVE  LastValue' /\ Exact' /\ Raised'
<1>1. UNCHANGED <<rule, value, trail>>
  BY DEF Ack
<1>2. LastValue'
  BY <1>1 DEF MInv, LastValue, beyond
<1>3. CASE UNCHANGED <<level, warnRun, critRun>>
  <2>1. Exact'
    BY <1>1, <1>3 DEF MInv, Exact
  <2>2. Raised'
    BY <1>1, <1>3 DEF MInv, Raised, SustainedRule
  <2>3. QED
    BY <1>2, <2>1, <2>2
<1>4. CASE Clear /\ value # None /\ within_clear(value)
  <2>1. value \in Int /\ ~beyond(value, rule.warn) /\ ~beyond(value, rule.critical)
    BY <1>4, ClearIsNoHit DEF IInv, Types
  <2>2. trail # << >> => ~trail[Len(trail)].warn /\ ~trail[Len(trail)].crit
    BY <2>1 DEF MInv, LastValue
  <2>3. warnRun' = 0 /\ critRun' = 0 /\ rule.samples > 0 /\ trail \in Seq(Sample)
        /\ Len(trail) \in Nat
    BY <1>4 DEF Clear, IInv, Types, RuleType
  <2>4. Exact'
    BY <1>1, <2>2, <2>3 DEF Exact
  <2>5. Raised'
    BY <1>1, <2>3 DEF Raised
  <2>6. QED
    BY <1>2, <2>4, <2>5
<1>5. QED
  BY <1>2, <1>3, <1>4 DEF Ack

\* An alarm that is due is shown, whatever acks, gated samples and clears came before.
THEOREM NoAlarmMissed == Spec => []NotMissed
<1>1. Init => MInv
  BY AlarmAssumption DEF Init, MInv, LastValue, Exact, Raised, RuleType
<1>2. IInv /\ MInv /\ [Next]_vars => MInv'
  <2> SUFFICES ASSUME IInv, MInv, [Next]_vars, Deadband' PROVE (LastValue /\ Exact /\ Raised)'
    BY DEF MInv
  <2>1. UNCHANGED rule /\ Deadband
    BY DEF Next, Update, Ack, vars, Deadband, beyond
  <2>2. CASE Update
    <3>1. PICK raw \in Values, rpm \in Rpms, tps \in Throttles, dt \in Steps :
            Gated(raw, rpm, tps, dt) \/ Evaluated(raw, rpm, tps, dt)
      BY <2>2 DEF Update
    <3>2. QED
      BY <2>1, <3>1, GatedMisses, EvaluatedMisses
  <2>3. CASE Ack
    BY <2>1, <2>3, AckMisses
  <2>4. CASE UNCHANGED vars
    BY <2>1, <2>4 DEF vars, state, MInv, LastValue, Exact, Raised, SustainedRule, beyond
  <2>5. QED
    BY <2>2, <2>3, <2>4 DEF Next
<1>3. IInv /\ MInv => NotMissed
  <2> SUFFICES ASSUME IInv, MInv, Deadband
               PROVE  /\ CritTrail /\ ~SustainedRule => level = "critical"
                      /\ WarnTrail => level # "none"
    BY DEF NotMissed
  <2>1. /\ rule.samples \in Nat /\ rule.samples > 0
        /\ warnRun \in 0..rule.samples /\ critRun \in 0..rule.samples
        /\ trail \in Seq(Sample)
    BY DEF IInv, Types, RuleType
  <2>2. CritTrail => critRun >= rule.samples
    BY <2>1 DEF CritTrail, MInv, Exact
  <2>3. WarnTrail => warnRun >= rule.samples
    BY <2>1 DEF WarnTrail, MInv, Exact
  <2>4. QED
    BY <2>1, <2>2, <2>3 DEF MInv, Raised
<1>4. QED
  BY <1>1, <1>2, <1>3, Inductive, PTL DEF Spec

-----------------------------------------------------------------------------
(* An alarm ends, for a rule with a deadband. *)

\* After a sample in the clear band the value is there, for an ack to see.
EInv ==
  Deadband /\ Back => /\ level = "none" \/ latched
                      /\ value \in Int /\ within_clear(value)

\* What the trail says of the sample it has just taken.
LEMMA BackIsSample ==
  ASSUME Types, NEW s \in Sample, Record(s), UNCHANGED rule
  PROVE  Back' <=> s.clear
<1>1. trail' \in Seq(Sample) /\ Len(trail') > 0 /\ trail'[Len(trail')] = s
  BY TrailStep DEF Types, RuleType
<1>2. s.clear \in BOOLEAN /\ trail' # << >>
  BY <1>1 DEF Sample
<1>3. QED
  BY <1>1, <1>2 DEF Back

\* A sample in the clear band ends every level that it may.
LEMMA EvaluatedEnds ==
  ASSUME IInv, NEW raw \in Values, NEW rpm, NEW tps, NEW dt \in Steps,
         Evaluated(raw, rpm, tps, dt), UNCHANGED rule, Deadband
  PROVE  EInv'
<1> DEFINE v == metric(raw, dt)
           warn == beyond(v, rule.warn)
           crit == beyond(v, rule.critical)
           back == within_clear(v)
           s == [reading |-> raw, gated |-> FALSE, warn |-> warn, crit |-> crit, clear |-> back]
<1>1. v \in Int /\ warn \in BOOLEAN /\ crit \in BOOLEAN /\ back \in BOOLEAN
  BY MetricType, TestTypes DEF IInv
<1>2. s \in Sample /\ s.clear = back
  <2> HIDE DEF v, warn, crit, back
  <2>1. QED
    BY <1>1 DEF Sample
<1>3. Record(s) /\ value' = v
  BY DEF Evaluated
<1>4. back => ~warn /\ ~crit
  BY <1>1, ClearIsNoHit DEF IInv
<1>5. back => level' = "none" \/ (level' = level /\ latched' = latched /\ ~ends(v))
  <2> SUFFICES ASSUME back PROVE level' = "none" \/ (level' = level /\ latched' = latched /\ ~ends(v))
    OBVIOUS
  <2>1. ~beyond(v, rule.warn) /\ ~beyond(v, rule.critical)
    BY <1>4
  <2>2. rule.samples > 0 /\ rule.samples \in Nat
    BY DEF IInv, Types, RuleType
  <2> HIDE DEF v, warn, crit, back, s
  <2>3. \E age : Judge(v, 0, 0, age, FALSE)
    BY <2>1 DEF Evaluated, v
  <2>4. QED
    BY <2>2, <2>3 DEF Judge, Clear
<1> HIDE DEF s
<1>6. back => level' = "none" \/ latched'
  <2>1. level \in {"none", "warn", "critical"}
    BY DEF IInv, Types
  <2>2. QED
    BY <1>5, <2>1 DEF ends
<1>7. Back' <=> back
  <2> HIDE DEF v, back
  <2>1. QED
    BY <1>2, <1>3, BackIsSample DEF IInv
<1>8. back => within_clear(value)'
  BY <1>3 DEF within_clear
<1>9. QED
  <2> HIDE DEF v, back
  <2>1. QED
    BY <1>1, <1>3, <1>6, <1>7, <1>8 DEF EInv

\* With a deadband a level ends at the first sample back in the clear band, unless it is
\* an unacknowledged critical, and that one ends at its ack (update, ack).
THEOREM AlarmsEnd == Spec => []Ends
<1>1. Init => EInv
  BY DEF Init, EInv, Back
<1>2. IInv /\ EInv /\ [Next]_vars => EInv'
  <2> SUFFICES ASSUME IInv, EInv, [Next]_vars PROVE EInv'
    OBVIOUS
  <2>1. UNCHANGED rule
    BY DEF Next, Update, Ack, vars
  <2>2. CASE Update
    <3>1. PICK raw \in Values, rpm \in Rpms, tps \in Throttles, dt \in Steps :
            Gated(raw, rpm, tps, dt) \/ Evaluated(raw, rpm, tps, dt)
      BY <2>2 DEF Update
    <3>2. CASE Gated(raw, rpm, tps, dt)
      <4> DEFINE s == [reading |-> raw, gated |-> TRUE, warn |-> FALSE, crit |-> FALSE, clear |-> FALSE]
      <4>1. s \in Sample /\ Record(s) /\ ~s.clear
        BY <3>2 DEF Gated, Sample
      <4> HIDE DEF s
      <4>2. ~Back'
        BY <2>1, <4>1, BackIsSample DEF IInv
      <4>3. QED
        BY <4>2 DEF EInv
    <3>3. CASE Evaluated(raw, rpm, tps, dt)
      <4>1. CASE Deadband
        BY <2>1, <3>3, <4>1, EvaluatedEnds
      <4>2. CASE ~Deadband
        BY <2>1, <4>2 DEF EInv, Deadband, beyond
      <4>3. QED
        BY <4>1, <4>2
    <3>4. QED
      BY <3>1, <3>2, <3>3
  <2>3. CASE Ack
    <3>1. UNCHANGED <<rule, value, trail>>
      BY <2>3 DEF Ack
    <3>2. (Deadband /\ Back)' => Deadband /\ Back
      BY <3>1 DEF Back, Deadband, beyond
    <3>3. Deadband /\ Back => value # None /\ within_clear(value)
      BY AlarmAssumption DEF EInv
    <3>4. Deadband /\ Back => level' = "none"
      BY <2>3, <3>3 DEF Ack, Clear, IInv, LatchOK
    <3>5. QED
      BY <3>1, <3>2, <3>4 DEF EInv, within_clear
  <2>4. CASE UNCHANGED vars
    BY <2>4 DEF vars, state, EInv, Back, Deadband, beyond, within_clear
  <2>5. QED
    BY <2>2, <2>3, <2>4 DEF Next
<1>3. EInv => Ends
  BY DEF EInv, Ends
<1>4. QED
  BY <1>1, <1>2, <1>3, Inductive, PTL DEF Spec

-----------------------------------------------------------------------------
(* What the cluster shows of a rule, beside its alarm. *)

\* What the trail says of an evaluated sample is what its reading says: the reading of a
\* threshold rule is the metric.
Told(s) ==
  ~s.gated => /\ s.warn <=> beyond(s.reading, rule.warn)
              /\ s.crit <=> beyond(s.reading, rule.critical)
              /\ s.clear <=> within_clear(s.reading)

TInv == Coloured => \A i \in 1..Len(trail) : Told(trail[i])

\* What an update records is told by its reading.
LEMMA RecordTells ==
  ASSUME IInv, Coloured, NEW raw \in Values, NEW rpm, NEW tps, NEW dt \in Steps,
         Gated(raw, rpm, tps, dt) \/ Evaluated(raw, rpm, tps, dt)
  PROVE  \E s \in Sample : Record(s) /\ Told(s)
<1>1. CASE Gated(raw, rpm, tps, dt)
  <2> DEFINE s == [reading |-> raw, gated |-> TRUE, warn |-> FALSE, crit |-> FALSE, clear |-> FALSE]
  <2>1. s \in Sample /\ Record(s) /\ s.gated
    BY <1>1 DEF Gated, Sample
  <2>2. QED
    BY <2>1 DEF Told
<1>2. CASE Evaluated(raw, rpm, tps, dt)
  <2> DEFINE warn == beyond(raw, rule.warn)
             crit == beyond(raw, rule.critical)
             back == within_clear(raw)
             s == [reading |-> raw, gated |-> FALSE, warn |-> warn, crit |-> crit, clear |-> back]
  <2>1. metric(raw, dt) = raw
    BY DEF Coloured, metric
  <2>2. raw \in Int /\ warn \in BOOLEAN /\ crit \in BOOLEAN /\ back \in BOOLEAN
    BY <2>1, MetricType, TestTypes DEF IInv
  <2>3. Record(s)
    BY <1>2, <2>1 DEF Evaluated
  <2>4. /\ s \in Sample /\ s.reading = raw /\ s.warn = warn /\ s.crit = crit /\ s.clear = back
    <3> HIDE DEF warn, crit, back
    <3>1. QED
      BY <2>2 DEF Sample
  <2> HIDE DEF s
  <2>5. QED
    BY <2>3, <2>4 DEF Told
<1>3. QED
  BY <1>1, <1>2

LEMMA ToldStep == IInv /\ TInv /\ [Next]_vars => TInv'
<1> SUFFICES ASSUME IInv, TInv, [Next]_vars, Coloured' PROVE \A i \in 1..Len(trail') : Told(trail[i])'
  BY DEF TInv
<1>1. UNCHANGED rule /\ Coloured
  BY DEF Next, Update, Ack, vars, Coloured
<1>2. ASSUME NEW i, Told(trail'[i]) PROVE Told(trail[i])'
  BY <1>1, <1>2 DEF Told, beyond, within_clear
<1>3. CASE Update
  <2>1. PICK raw \in Values, rpm \in Rpms, tps \in Throttles, dt \in Steps :
          Gated(raw, rpm, tps, dt) \/ Evaluated(raw, rpm, tps, dt)
    BY <1>3 DEF Update
  <2>2. PICK s \in Sample : Record(s) /\ Told(s)
    BY <1>1, <2>1, RecordTells
  <2>3. /\ Len(trail') \in Nat /\ trail'[Len(trail')] = s
        /\ \A i \in 1..(Len(trail') - 1) : \E j \in 1..Len(trail) : trail'[i] = trail[j]
    BY <1>1, <2>2, TrailStep DEF IInv
  <2>4. \A i \in 1..(Len(trail') - 1) : Told(trail'[i])
    BY <1>1, <2>3 DEF TInv
  <2>5. ASSUME NEW i \in 1..Len(trail') PROVE Told(trail[i])'
    <3>1. i = Len(trail') \/ i \in 1..(Len(trail') - 1)
      BY <2>3
    <3>2. Told(trail'[i])
      BY <2>2, <2>3, <2>4, <3>1
    <3>3. QED
      BY <1>2, <3>2
  <2>6. QED
    BY <2>5
<1>4. CASE UNCHANGED trail
  <2>1. ASSUME NEW i \in 1..Len(trail') PROVE Told(trail[i])'
    <3>1. Told(trail'[i])
      BY <1>1, <1>4 DEF TInv
    <3>2. QED
      BY <1>2, <3>1
  <2>2. QED
    BY <2>1
<1>5. QED
  BY <1>3, <1>4 DEF Next, Ack, vars

\* The tile's own test is the engine's, of a threshold rule.
LEMMA TileIs ==
  ASSUME IInv, Coloured, NEW v
  PROVE  TileLevel(v) = IF beyond(v, rule.critical) THEN "critical"
                        ELSE IF beyond(v, rule.warn) THEN "warn" ELSE "none"
BY DEF Coloured, TileLevel, Past, beyond

\* A steady tile and the alarm.
LEMMA SteadyIsAlarm ==
  ASSUME IInv, TInv, NotMissed, Ends, Coloured, Deadband, Steady
  PROVE  \/ level = TileLevel(Reading)
         \/ Rank[level] > Rank[TileLevel(Reading)] /\ (latched \/ ~Back)
<1> DEFINE k == Len(trail)
<1>1. /\ k \in Nat /\ k = rule.samples /\ k \in 1..k /\ DOMAIN trail = 1..k /\ trail # << >>
      /\ level \in {"none", "warn", "critical"}
  BY DEF IInv, Types, RuleType, Steady
<1>2. \A i \in 1..k : /\ trail[i].warn <=> beyond(trail[i].reading, rule.warn)
                      /\ trail[i].crit <=> beyond(trail[i].reading, rule.critical)
                      /\ TileLevel(trail[i].reading) = TileLevel(Reading)
  BY <1>1 DEF Steady, TInv, Told
<1>3. CASE TileLevel(Reading) = "critical"
  <2>1. \A i \in 1..k : trail[i].crit
    BY <1>2, <1>3, TileIs
  <2>2. CritTrail /\ ~SustainedRule
    BY <1>1, <2>1 DEF CritTrail, SustainedRule, Coloured
  <2>3. QED
    BY <1>3, <2>2 DEF NotMissed
<1>4. CASE TileLevel(Reading) = "warn"
  <2>1. \A i \in 1..k : trail[i].warn
    BY <1>2, <1>4, TileIs
  <2>2. level # "none"
    BY <1>1, <2>1 DEF WarnTrail, NotMissed
  <2>3. ~Back
    <3>1. trail[k].clear <=> within_clear(Reading)
      BY <1>1 DEF Steady, TInv, Told, Reading
    <3>2. Reading \in Int /\ beyond(Reading, rule.warn)
      <4>1. trail[k] \in Sample
        BY <1>1 DEF IInv, Types
      <4>2. trail[k].reading \in Int
        BY <4>1, AlarmAssumption DEF Sample
      <4>3. beyond(trail[k].reading, rule.warn)
        BY <1>1, <1>2, <2>1
      <4>4. QED
        BY <4>2, <4>3 DEF Reading
    <3>3. ~within_clear(Reading)
      BY <3>2, ClearIsNoHit DEF IInv
    <3>4. QED
      BY <3>1, <3>3 DEF Back
  <2>4. QED
    BY <1>1, <1>4, <2>2, <2>3 DEF Rank
<1>5. CASE TileLevel(Reading) = "none"
  <2>1. Back => level = "none" \/ latched
    BY DEF Ends
  <2>2. QED
    BY <1>1, <1>5, <2>1 DEF Rank
<1>6. QED
  BY <1>3, <1>4, <1>5 DEF TileLevel

LEMMA ClipIs ==
  ASSUME NEW x \in Int
  PROVE  /\ Clip(x) \in Low..High
         /\ x \in Low..High => Clip(x) = x
BY ScaleAssumption DEF Clip

\* The bands that the needle lies on, one by one.
LEMMA NeedleIn ==
  ASSUME NEW v \in Low..High, NEW a, NEW b, a.from \in Int, a.to \in Int, b.from \in Int,
         b.to \in Int, Zones = {z \in {a, b} : z.from < z.to}
  PROVE  \A l : l \in NeedleLevels(v) <=>
                  \/ l = a.level /\ a.from < a.to /\ a.from <= v /\ v <= a.to
                  \/ l = b.level /\ b.from < b.to /\ b.from <= v /\ v <= b.to
<1>1. Clip(v) = v
  BY ScaleAssumption DEF Clip
<1>2. \A l : l \in NeedleLevels(v) <=>
               \E z \in {a, b} : z.from < z.to /\ z.from <= v /\ v <= z.to /\ z.level = l
  BY <1>1, Zenon DEF NeedleLevels
<1>3. QED
  BY <1>2, Zenon

\* Off the thresholds the needle is in the band of the tile's colour, and in no other.
LEMMA NeedleIsTile ==
  ASSUME IInv, NEW v \in (Low..High) \ {rule.warn, rule.critical}
  PROVE  NeedleLevels(v) = {TileLevel(v)} \ {"none"}
<1> DEFINE w == Clip(rule.warn)
           c == Clip(rule.critical)
<1>1. /\ rule.warn \in Int /\ rule.critical \in Int /\ v \in Int /\ Low \in Int /\ High \in Int
      /\ Low < High /\ Low <= v /\ v <= High /\ v # rule.warn /\ v # rule.critical
  BY ScaleAssumption DEF IInv, Types, RuleType
<1>2. w \in Int /\ c \in Int
  BY <1>1, ClipIs
<1>3. /\ w = IF rule.warn < Low THEN Low ELSE IF rule.warn > High THEN High ELSE rule.warn
      /\ c = IF rule.critical < Low THEN Low ELSE IF rule.critical > High THEN High ELSE rule.critical
  BY DEF Clip
<1>4. CASE rule.direction = "below"
  <2> DEFINE a == [from |-> Low, to |-> c, level |-> "critical"]
             b == [from |-> c, to |-> w, level |-> "warn"]
  <2>1. Zones = {z \in {a, b} : z.from < z.to}
    BY <1>4 DEF Zones
  <2>2. /\ a.from = Low /\ a.to = c /\ a.level = "critical"
        /\ b.from = c /\ b.to = w /\ b.level = "warn"
    OBVIOUS
  <2> HIDE DEF a, b, w, c
  <2>3. \A l : l \in NeedleLevels(v) <=>
                 \/ l = "critical" /\ Low < c /\ Low <= v /\ v <= c
                 \/ l = "warn" /\ c < w /\ c <= v /\ v <= w
    <3>1. a.from \in Int /\ a.to \in Int /\ b.from \in Int /\ b.to \in Int
      BY <1>1, <1>2, <2>2
    <3>2. \A l : l \in NeedleLevels(v) <=>
                   \/ l = a.level /\ a.from < a.to /\ a.from <= v /\ v <= a.to
                   \/ l = b.level /\ b.from < b.to /\ b.from <= v /\ v <= b.to
      BY <2>1, <3>1, NeedleIn
    <3>3. QED
      BY <2>2, <3>2
  <2>4. TileLevel(v) = IF v < rule.critical THEN "critical" ELSE IF v < rule.warn THEN "warn" ELSE "none"
    BY <1>4 DEF TileLevel, Past
  <2>5. (v < rule.critical) <=> (Low < c /\ Low <= v /\ v <= c)
    BY <1>1, <1>3
  <2>6. (v < rule.warn /\ ~(v < rule.critical)) <=> (c < w /\ c <= v /\ v <= w)
    BY <1>1, <1>3
  <2>7. \A l : l \in NeedleLevels(v) <=> l \in {TileLevel(v)} \ {"none"}
    BY <2>3, <2>4, <2>5, <2>6
  <2>8. QED
    BY <2>7
<1>5. CASE rule.direction # "below"
  <2> DEFINE a == [from |-> w, to |-> c, level |-> "warn"]
             b == [from |-> c, to |-> High, level |-> "critical"]
  <2>1. Zones = {z \in {a, b} : z.from < z.to}
    BY <1>5 DEF Zones
  <2>2. /\ a.from = w /\ a.to = c /\ a.level = "warn"
        /\ b.from = c /\ b.to = High /\ b.level = "critical"
    OBVIOUS
  <2> HIDE DEF a, b, w, c
  <2>3. \A l : l \in NeedleLevels(v) <=>
                 \/ l = "warn" /\ w < c /\ w <= v /\ v <= c
                 \/ l = "critical" /\ c < High /\ c <= v /\ v <= High
    <3>1. a.from \in Int /\ a.to \in Int /\ b.from \in Int /\ b.to \in Int
      BY <1>1, <1>2, <2>2
    <3>2. \A l : l \in NeedleLevels(v) <=>
                   \/ l = a.level /\ a.from < a.to /\ a.from <= v /\ v <= a.to
                   \/ l = b.level /\ b.from < b.to /\ b.from <= v /\ v <= b.to
      BY <2>1, <3>1, NeedleIn
    <3>3. QED
      BY <2>2, <3>2
  <2>4. TileLevel(v) = IF v > rule.critical THEN "critical" ELSE IF v > rule.warn THEN "warn" ELSE "none"
    BY <1>5 DEF TileLevel, Past
  <2>5. (v > rule.critical) <=> (c < High /\ c <= v /\ v <= High)
    BY <1>1, <1>3
  <2>6. (v > rule.warn /\ ~(v > rule.critical)) <=> (w < c /\ w <= v /\ v <= c)
    BY <1>1, <1>3
  <2>7. \A l : l \in NeedleLevels(v) <=> l \in {TileLevel(v)} \ {"none"}
    BY <2>3, <2>4, <2>5, <2>6
  <2>8. QED
    BY <2>7
<1>6. QED
  BY <1>4, <1>5

\* A steady tile has the alarm's level, or one below it while the alarm waits for its ack
\* or for the reading to come back; the needle is in the band of the tile's colour, for
\* every rule, reading and scale (update, tile_color, gauge_zones).
THEOREM AlarmTileAndNeedle == Spec => []ShownAlike
<1>1. Init => TInv
  BY DEF Init, TInv
<1>2. Spec => []TInv
  BY <1>1, ToldStep, Inductive, PTL DEF Spec
<1>3. IInv /\ TInv /\ NotMissed /\ Ends => ShownAlike
  BY SteadyIsAlarm, NeedleIsTile DEF ShownAlike
<1>4. QED
  BY <1>2, <1>3, Inductive, NoAlarmMissed, AlarmsEnd, PTL

-----------------------------------------------------------------------------
(* A critical of a rule with sustained_s is sustained, when no gate is in  *)
(* the way.                                                                *)

\* crit_since is never earlier than the first of the hits that have gone on since.
NotEarlier == SustainedRule /\ UngatedRule /\ critAge # None => hitFor # None /\ critAge <= hitFor

\* Two ages that grow up to one limit keep their order.
LEMMA OlderInOrder ==
  ASSUME NEW a \in Nat, NEW b \in Nat, a <= b, NEW dt \in Nat, NEW limit \in Nat
  PROVE  older(a, dt, limit) <= older(b, dt, limit)
BY AlarmAssumption DEF older

LEMMA OlderIsNat ==
  ASSUME NEW a \in Nat, NEW dt \in Nat, NEW limit \in Nat
  PROVE  older(a, dt, limit) \in Nat
BY AlarmAssumption DEF older

\* A sample of such a rule: the engine's clock, and the level that comes of it.
LEMMA SustainedSample ==
  ASSUME TypeOK, SustainedRule, UngatedRule, NotEarlier, NEW raw, NEW rpm, NEW tps, NEW dt \in Steps,
         Gated(raw, rpm, tps, dt) \/ Evaluated(raw, rpm, tps, dt), UNCHANGED rule
  PROVE  NotEarlier' /\ (level' = "critical" /\ level # "critical" => SustainedHit')
<1> DEFINE crit == beyond(metric(raw, dt), rule.critical)
           age == crit_since(crit, dt)
<1> dt \in Nat /\ rule.sustained \in Nat /\ None \notin Int
  BY AlarmAssumption DEF TypeOK, RuleType, SustainedRule
<1>1. Evaluated(raw, rpm, tps, dt)
  BY DEF Gated, gated, UngatedRule
<1>2. /\ critAge' \in {None, age}
      /\ hitFor' = IF ~crit THEN None ELSE IF hitFor = None THEN 0 ELSE older(hitFor, dt, rule.sustained)
      /\ level' = "critical" /\ level # "critical" => crit /\ age # None /\ age >= rule.sustained
  BY <1>1 DEF Evaluated, Judge, Clear
<1> HIDE DEF crit
<1>3. age # None => crit /\ age = IF critAge = None THEN 0 ELSE older(critAge, dt, rule.sustained)
  BY DEF crit_since
<1> HIDE DEF age
<1>4. age # None => hitFor' # None /\ age <= hitFor' /\ age \in Int /\ hitFor' \in Nat
  <2> SUFFICES ASSUME age # None
               PROVE  hitFor' # None /\ age <= hitFor' /\ age \in Int /\ hitFor' \in Nat
    OBVIOUS
  <2>1. CASE critAge = None
    <3>1. age = 0 /\ hitFor' = IF hitFor = None THEN 0 ELSE older(hitFor, dt, rule.sustained)
      BY <1>2, <1>3, <2>1
    <3>2. hitFor # None => older(hitFor, dt, rule.sustained) \in Nat
      BY OlderIsNat DEF TypeOK
    <3> QED
      BY <3>1, <3>2
  <2>2. CASE critAge # None
    <3>1. critAge \in Nat /\ hitFor \in Nat /\ critAge <= hitFor /\ hitFor # None
      BY <2>2 DEF TypeOK, NotEarlier
    <3>2. /\ age = older(critAge, dt, rule.sustained)
          /\ hitFor' = older(hitFor, dt, rule.sustained)
      BY <1>2, <1>3, <2>2, <3>1
    <3>3. older(critAge, dt, rule.sustained) <= older(hitFor, dt, rule.sustained)
      BY <3>1, OlderInOrder
    <3>4. older(critAge, dt, rule.sustained) \in Nat /\ older(hitFor, dt, rule.sustained) \in Nat
      BY <3>1, OlderIsNat
    <3> QED
      BY <3>2, <3>3, <3>4
  <2> QED
    BY <2>1, <2>2
<1>5. NotEarlier'
  BY <1>2, <1>4 DEF NotEarlier
<1>6. level' = "critical" /\ level # "critical" => SustainedHit'
  BY <1>2, <1>4 DEF SustainedHit
<1> QED
  BY <1>5, <1>6

\* A rate rule with sustained_s and no gate goes critical only when every sample has been
\* beyond critical for that long (update(), crit_since).
THEOREM CriticalsAreSustained == Spec => Sustained
<1> DEFINE Long == SustainedRule /\ UngatedRule /\ level' = "critical" /\ level # "critical"
                     => SustainedHit'
<1>1. Init => NotEarlier
  BY DEF Init, NotEarlier
<1>2. TypeOK /\ NotEarlier /\ [Next]_vars => NotEarlier' /\ [Long]_vars
  <2> SUFFICES ASSUME TypeOK, NotEarlier, [Next]_vars PROVE NotEarlier' /\ [Long]_vars
    OBVIOUS
  <2>1. /\ UNCHANGED rule
        /\ SustainedRule' => SustainedRule
        /\ UngatedRule' => UngatedRule
    BY DEF Next, Update, Ack, vars, UngatedRule, SustainedRule
  <2>2. CASE Update
    <3>1. PICK raw \in Values, rpm \in Rpms, tps \in Throttles, dt \in Steps :
            Gated(raw, rpm, tps, dt) \/ Evaluated(raw, rpm, tps, dt)
      BY <2>2 DEF Update
    <3>2. CASE SustainedRule /\ UngatedRule
      BY <2>1, <3>1, <3>2, SustainedSample
    <3>3. CASE ~(SustainedRule /\ UngatedRule)
      BY <2>1, <3>3 DEF NotEarlier
    <3> QED
      BY <3>2, <3>3
  <2>3. CASE Ack
    <3>1. level' = level \/ level' = "none"
      BY <2>3 DEF Ack, Clear
    <3>2. NotEarlier'
      BY <2>1, <2>3 DEF Ack, Clear, NotEarlier
    <3> QED
      BY <3>1, <3>2
  <2>4. CASE UNCHANGED vars
    BY <2>1, <2>4 DEF vars, state, NotEarlier
  <2> QED
    BY <2>2, <2>3, <2>4 DEF Next
<1> QED
  BY <1>1, <1>2, TypeCorrect, PTL DEF Spec, Sustained
=============================================================================
