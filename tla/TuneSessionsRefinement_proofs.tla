-------------------- MODULE TuneSessionsRefinement_proofs --------------------
(***************************************************************************)
(* Proofs that sessions keep the promises of SharedKnowledge: the rest of  *)
(* the inductive invariant, which says where the values come from that a   *)
(* session passes on, and the steps of the refinement.                     *)
(***************************************************************************)
EXTENDS TuneSessionsRefinement, TuneSessions_proofs

-----------------------------------------------------------------------------
(* What is applied are hypotheses of the group.                            *)

LEMMA DrawnFacts ==
  ASSUME Drawn
  PROVE  /\ Working => OneEach(hyps)
         /\ Working => \A i \in DOMAIN applied :
              \E j \in DOMAIN hyps : hyps[j] = <<applied[i].key, applied[i].value>>
         /\ step \in {"apply", "log"} => \A i \in DOMAIN queue : \E j \in DOMAIN hyps : hyps[j] = queue[i]
BY DEF Drawn, OneEach

LEMMA DrawnStep ==
  ASSUME Basics, Basics', Drawn, [Next]_vars
  PROVE  Drawn'
<1>0. queue \in Seq(Pairs) /\ applied \in Seq(Change)
  BY DEF Basics, TypeOK
<1>1. CASE Begin \/ BuildTuneContext \/ NothingApplied \/ RecordIteration \/ RestoreBest \/ Finalize
           \/ StoreFixes \/ Crash
  <2>1. step' \in {"measured", "resolve", "loop", "restored", "finalized", "idle"}
    BY <1>1 DEF Begin, BuildTuneContext, NothingApplied, RecordIteration, RestoreBest, Finalize,
                StoreFixes, Crash
  <2> QED BY <2>1 DEF Drawn, Working
<1>2. CASE ResolveGraph \/ \E h \in Keys \X Values : Propose(h)
  <2>1. queue' = hyps' /\ applied' = <<>>
    BY <1>2 DEF ResolveGraph, Propose
  <2>2. \A i, j \in DOMAIN queue' : queue'[i][1] = queue'[j][1] => i = j
    BY DEF Basics, Lists
  <2>3. \A i \in DOMAIN queue' : \E j \in DOMAIN hyps' : hyps'[j] = queue'[i]
    BY <2>1
  <2> QED BY <2>1, <2>2, <2>3 DEF Drawn
<1>3. CASE \E h \in Keys \X Values : RejectBeforeApply(h)
  <2>1. step' = step /\ step = "loop"
    BY <1>3 DEF RejectBeforeApply
  <2> QED BY <2>1 DEF Drawn, Working
<1>4. CASE Apply
  <2> DEFINE h == Head(queue)  c == [key |-> h[1], prev |-> host[h[1]], value |-> h[2]]
  <2>1. /\ step = "apply" /\ queue # <<>> /\ queue' = Tail(queue) /\ hyps' = hyps
        /\ applied' = Append(applied, c)
    BY <1>4 DEF Apply
  <2>2. Working /\ OneEach(hyps) /\ \A i \in DOMAIN queue : \E j \in DOMAIN hyps : hyps[j] = queue[i]
    BY <2>1, DrawnFacts DEF Working
  <2>3. h = queue[1] /\ 1 \in DOMAIN queue /\ h = <<c.key, c.value>>
    BY <1>0, <2>1, TailFacts DEF Pairs
  <2>4. \A i \in DOMAIN applied' : (i \in DOMAIN applied /\ applied'[i] = applied[i]) \/ applied'[i] = c
    BY <1>0, <2>1
  <2>5. \A i \in DOMAIN queue' : i + 1 \in DOMAIN queue /\ queue'[i] = queue[i + 1]
    BY <1>0, <2>1, TailFacts
  <2> HIDE DEF c, h
  <2>6. ASSUME NEW i \in DOMAIN applied'
        PROVE  \E j \in DOMAIN hyps : hyps[j] = <<applied'[i].key, applied'[i].value>>
    <3>1. CASE i \in DOMAIN applied /\ applied'[i] = applied[i]
      BY <2>2, <3>1, DrawnFacts
    <3>2. CASE applied'[i] = c
      <4>1. \E j \in DOMAIN hyps : hyps[j] = <<c.key, c.value>>
        BY <2>2, <2>3
      <4> QED BY <3>2, <4>1
    <3> QED BY <2>4, <3>1, <3>2
  <2> QED BY <2>1, <2>2, <2>5, <2>6 DEF Drawn, OneEach
<1>5. CASE LogApplied
  <2>1. step = "log" /\ hyps' = hyps /\ queue' = queue /\ applied' = applied
    BY <1>5 DEF LogApplied, group
  <2> QED BY <2>1 DEF Drawn, Working
<1>6. CASE ApplyFails
  <2>1. /\ step = "apply" /\ hyps' = hyps /\ applied' = applied /\ queue # <<>>
        /\ queue' = Tail(queue) \/ queue' = <<>>
    BY <1>6 DEF ApplyFails
  <2>2. \A i \in DOMAIN queue' : \E j \in DOMAIN hyps : hyps[j] = queue'[i]
    <3>1. CASE queue' = <<>>
      BY <3>1
    <3>2. CASE queue' = Tail(queue)
      <4>1. \A i \in DOMAIN queue' : i + 1 \in DOMAIN queue /\ queue'[i] = queue[i + 1]
        BY <1>0, <2>1, <3>2, TailFacts
      <4> QED BY <2>1, <4>1, DrawnFacts
    <3> QED BY <2>1, <3>1, <3>2
  <2> QED BY <2>1, <2>2 DEF Drawn, Working
<1>7. CASE ValidationFails \/ (\E o \in Outcomes : Evaluate(o)) \/ Attributed \/ NotAttributed
           \/ RollBackAll \/ LogRollBack
  <2>1. Working /\ step' \in {"undo", "verify", "record", "undone", "loop"}
    <3>1. CASE \E o \in Outcomes : Evaluate(o)
      BY <3>1 DEF Evaluate, Working, Basics, TypeOK, Phases
    <3> QED BY <1>7, <3>1 DEF ValidationFails, Attributed, NotAttributed, RollBackAll, LogRollBack,
                              Working
  <2>2. applied' = applied /\ (step' = "loop" \/ hyps' = hyps)
    BY <1>7 DEF ValidationFails, Evaluate, Attributed, NotAttributed, RollBackAll, LogRollBack,
                group
  <2> QED BY <2>1, <2>2 DEF Drawn, Working
<1>8. CASE UNCHANGED vars
  <2>1. UNCHANGED <<step, hyps, queue, applied>>
    BY <1>8 DEF vars, group
  <2> QED BY <2>1 DEF Drawn, Working
<1> QED BY <1>1, <1>2, <1>3, <1>4, <1>5, <1>6, <1>7, <1>8 DEF Next

-----------------------------------------------------------------------------
(* What a session keeps or passes on was judged by a benchmark of its own. *)

\* Some benchmark of run r that ended in one of the decisions was taken with
\* value v of key k.
JudgedIn(K, r, k, v, decisions) ==
  \E j \in EventsOf(K, r, "evaluation_completed") :
    LET e == K.events[j].payload
    IN e.decision \in decisions /\ k \in DOMAIN e.values /\ e.values[k] = v

Fair == {"accept", "inconclusive"}

LEMMA JudgedKept ==
  ASSUME NEW K, NEW L, Extended(K, L), NEW r, NEW k, NEW v, NEW D, JudgedIn(K, r, k, v, D)
  PROVE  JudgedIn(L, r, k, v, D)
<1>1. PICK j \in EventsOf(K, r, "evaluation_completed") :
        /\ K.events[j].payload.decision \in D /\ k \in DOMAIN K.events[j].payload.values
        /\ K.events[j].payload.values[k] = v
  BY DEF JudgedIn
<1>2. j \in EventsOf(L, r, "evaluation_completed") /\ L.events[j] = K.events[j]
  BY DEF Extended, EventsOf
<1> QED BY <1>1, <1>2 DEF JudgedIn

\* The judgements of the session by their decisions.
LEMMA JudgedPairs ==
  /\ \A k, v : UpheldPair(k, v) <=> JudgedIn(kb, run, k, v, Fair)
  /\ \A k, v : AcceptedPair(<<k, v>>) <=> JudgedIn(kb, run, k, v, {"accept"})
  /\ \A k, v, D : JudgedIn(kb, run, k, v, {"accept"}) /\ "accept" \in D => JudgedIn(kb, run, k, v, D)
BY DEF UpheldPair, AcceptedPair, JudgedIn, Fair

UpheldIn(K, r, k, v) == JudgedIn(K, r, k, v, Fair)
TakenIn(K, r, k, v) == JudgedIn(K, r, k, v, {"accept"})

LEMMA JudgedFacts ==
  Judged <=>
    /\ Settling => \A i \in DOMAIN applied : UpheldIn(kb, run, applied[i].key, applied[i].value)
    /\ Settling /\ outcome.decision = "accept" =>
         \A i \in DOMAIN applied : TakenIn(kb, run, applied[i].key, applied[i].value)
    /\ step # "idle" =>
         /\ \A k \in DOMAIN active : Unjudged \/ UpheldIn(kb, run, k, active[k].value)
         /\ \A k \in DOMAIN best.values : UpheldIn(kb, run, k, best.values[k])
         /\ best = NoBest \/ \E k \in DOMAIN best.values : TakenIn(kb, run, k, best.values[k])
BY DEF Judged, UpheldPair, AcceptedPair, JudgedIn, Fair, UpheldIn, TakenIn

\* Judgements are there to stay while the session runs.
LEMMA JudgementsStay ==
  ASSUME Basics, [Next]_vars, run' = run, NEW k, NEW v
  PROVE  /\ UpheldIn(kb, run, k, v) => UpheldIn(kb', run', k, v)
         /\ TakenIn(kb, run, k, v) => TakenIn(kb', run', k, v)
<1>1. Extended(kb, kb')
  BY ExtendedStep
<1>2. ASSUME NEW D, JudgedIn(kb, run, k, v, D) PROVE JudgedIn(kb', run, k, v, D)
  BY <1>1, <1>2, JudgedKept
<1> QED BY <1>2 DEF UpheldIn, TakenIn

LEMMA OutcomeVerdicts == \A o \in Outcomes : o.decision \in Verdicts
BY DEF Outcomes, NoOutcome, Verdicts

\* A benchmark judges every applied change.
LEMMA EvaluationJudges ==
  ASSUME Basics, Drawn, NEW o \in Outcomes, Evaluate(o), NEW i \in DOMAIN applied
  PROVE  JudgedIn(kb', run, applied[i].key, applied[i].value, {o.decision})
<1> DEFINE values == With(AppliedValues, hyps[1][1], hyps[1][2])
           e == Evaluated(o)
           n == Len(kb.events) + 1
           k == applied[i].key
<1>1. kb' = Record(kb, e) /\ step = "apply"
  BY DEF Evaluate, Evaluated
<1>2. /\ e.run = run /\ e.kind = "evaluation_completed"
      /\ e.payload = [decision |-> o.decision, values |-> values]
  BY DEF Evaluated, Event
<1>3. applied \in Seq(Change) /\ hyps \in Seq(Pairs) /\ Apart(applied) /\ Working /\ hyps # <<>>
  BY <1>1 DEF Basics, TypeOK, Lists, Apart, Working
<1>4. k \in AppliedKeys /\ k \in DOMAIN AppliedValues /\ AppliedValues[k] = applied[i].value
  <2>1. k \in AppliedKeys /\ DOMAIN AppliedValues = AppliedKeys /\ AppliedValues[k] = Ledger(applied)[k].value
    BY <1>3, AppliedFacts
  <2>2. Ledger(applied)[k] = applied[i]
    BY <1>3, LedgerFacts
  <2> QED BY <2>1, <2>2
<1>5. k \in DOMAIN values /\ values[k] = applied[i].value
  <2>0. /\ DOMAIN values = DOMAIN AppliedValues \cup {hyps[1][1]} /\ values[hyps[1][1]] = hyps[1][2]
        /\ \A x \in DOMAIN AppliedValues : x # hyps[1][1] => values[x] = AppliedValues[x]
    BY DEF With
  <2> HIDE DEF values
  <2>1. CASE k # hyps[1][1]
    BY <1>4, <2>0, <2>1
  <2>2. CASE k = hyps[1][1]
    <3>1. PICK j \in DOMAIN hyps : hyps[j] = <<k, applied[i].value>>
      BY <1>3, DrawnFacts
    <3>2. 1 \in DOMAIN hyps /\ OneEach(hyps)
      BY <1>3, DrawnFacts
    <3>3. hyps[j][1] = k /\ hyps[j][2] = applied[i].value
      BY <3>1
    <3>4. j = 1
      BY <2>2, <3>2, <3>3 DEF OneEach
    <3> QED BY <2>0, <2>2, <3>3, <3>4
  <2> QED BY <2>1, <2>2
<1>6. kb'.events = Append(kb.events, e) /\ kb.events \in Seq(Events)
  <2>1. KnowledgeBaseOK(kb, run)
    BY DEF Basics, TypeOK
  <2> QED BY <1>1, <2>1, RecordFacts DEF KnowledgeBaseOK
<1> HIDE DEF e, values
<1>7. n \in DOMAIN kb'.events /\ kb'.events[n] = e
  BY <1>6
<1>8. n \in EventsOf(kb', run, "evaluation_completed")
  BY <1>2, <1>7 DEF EventsOf
<1>9. e.payload.decision = o.decision /\ e.payload.values = values
  BY <1>2
<1> QED BY <1>5, <1>7, <1>8, <1>9 DEF JudgedIn

\* What the invariant asks for in the next state.
LEMMA JudgedNext ==
  ASSUME Settling' => \A i \in DOMAIN applied' : UpheldIn(kb', run', applied'[i].key, applied'[i].value),
         Settling' /\ outcome'.decision = "accept" =>
           \A i \in DOMAIN applied' : TakenIn(kb', run', applied'[i].key, applied'[i].value),
         step' # "idle" =>
           /\ \A k \in DOMAIN active' : Unjudged' \/ UpheldIn(kb', run', k, active'[k].value)
           /\ \A k \in DOMAIN best'.values : UpheldIn(kb', run', k, best'.values[k])
           /\ best' = NoBest \/ \E k \in DOMAIN best'.values : TakenIn(kb', run', k, best'.values[k])
  PROVE  Judged'
BY DEF Judged, UpheldPair, AcceptedPair, JudgedIn, Fair, UpheldIn, TakenIn

\* A step after which no group is about to be kept, and that leaves the best
\* configuration alone.
LEMMA JudgedQuiet ==
  ASSUME Basics, [Next]_vars, Judged, run' = run, step # "idle", ~Settling', best' = best,
         \A k \in DOMAIN active' :
           Unjudged' \/ (k \in DOMAIN active /\ active'[k] = active[k] /\ ~Unjudged)
  PROVE  Judged'
<1>1. \A k \in DOMAIN active' : Unjudged' \/ UpheldIn(kb', run', k, active'[k].value)
  BY JudgedFacts, JudgementsStay
<1>2. \A k \in DOMAIN best'.values : UpheldIn(kb', run', k, best'.values[k])
  BY JudgedFacts, JudgementsStay
<1>3. best' = NoBest \/ \E k \in DOMAIN best'.values : TakenIn(kb', run', k, best'.values[k])
  BY JudgedFacts, JudgementsStay
<1> QED BY <1>1, <1>2, <1>3, JudgedNext

\* The evaluation of a batch judges all it has entered in the ledger.
LEMMA EvaluateJudged ==
  ASSUME Basics, Basics', Account, Drawn, Judged, [Next]_vars, NEW o \in Outcomes, Evaluate(o)
  PROVE  Judged'
<1>1. /\ step = "apply" /\ outcome' = o /\ run' = run
      /\ step' = CASE phase = "resolve" -> IF o.decision = "reject" THEN "undo" ELSE "record"
                   [] phase = "optimize" -> IF o.decision = "accept" THEN "verify" ELSE "undo"
      /\ UNCHANGED <<applied, active, best, phase>>
  BY DEF Evaluate, state
<1>2. phase \in {"resolve", "optimize"} /\ o.decision \in {"accept", "inconclusive", "reject"}
  BY OutcomeVerdicts DEF Basics, TypeOK, Phases, Verdicts
<1>3. CASE step' = "undo"
  <2>1. ~Settling' /\ (phase = "resolve" => Unjudged') /\ (phase # "resolve" => ~Unjudged)
    BY <1>1, <1>3 DEF Settling, Unjudged
  <2> QED BY <1>1, <2>1, JudgedQuiet
<1>4. CASE step' # "undo"
  <2>1. o.decision \in Fair /\ (phase = "optimize" => o.decision = "accept")
    BY <1>1, <1>2, <1>4 DEF Fair
  <2>2. \A i \in DOMAIN applied : JudgedIn(kb', run, applied[i].key, applied[i].value, {o.decision})
    BY EvaluationJudges
  <2>3. \A i \in DOMAIN applied : JudgedIn(kb', run, applied[i].key, applied[i].value, Fair)
    BY <2>1, <2>2 DEF JudgedIn
  <2>4. ASSUME NEW k \in DOMAIN active PROVE UpheldIn(kb', run', k, active[k].value)
    <3>1. CASE phase = "optimize"
      <4>1. UpheldIn(kb, run, k, active[k].value)
        BY <1>1, <3>1, JudgedFacts DEF Unjudged
      <4> QED BY <1>1, <4>1, JudgementsStay
    <3>2. CASE phase = "resolve"
      <4>1. k \in AppliedKeys
        BY <1>1, <3>2 DEF Account, Entries, Working
      <4>2. PICK i \in DOMAIN applied : applied[i].key = k
        BY <4>1 DEF AppliedKeys
      <4>3. active[k] = applied[i]
        BY <1>1, <3>2, <4>2 DEF Account, Entries, Unsettled
      <4> QED BY <1>1, <2>3, <4>2, <4>3 DEF UpheldIn
    <3> QED BY <1>2, <3>1, <3>2
  <2>5. \A k \in DOMAIN best.values : UpheldIn(kb', run', k, best.values[k])
    BY <1>1, JudgedFacts, JudgementsStay
  <2>6. best = NoBest \/ \E k \in DOMAIN best.values : TakenIn(kb', run', k, best.values[k])
    BY <1>1, JudgedFacts, JudgementsStay
  <2>7. \A i \in DOMAIN applied : UpheldIn(kb', run', applied[i].key, applied[i].value)
    BY <1>1, <2>3 DEF UpheldIn
  <2>8. o.decision = "accept" => \A i \in DOMAIN applied : TakenIn(kb', run', applied[i].key, applied[i].value)
    BY <1>1, <2>2 DEF TakenIn
  <2> QED BY <1>1, <2>4, <2>5, <2>6, <2>7, <2>8, JudgedNext
<1> QED BY <1>3, <1>4

\* Recording may make the ledger the best configuration.
LEMMA RecordJudged ==
  ASSUME Basics, Basics', Judged, Entered, [Next]_vars, RecordIteration
  PROVE  Judged'
<1>1. /\ step = "record" /\ step' = "loop" /\ run' = run /\ active' = active
      /\ IF outcome.decision = "accept" /\ outcome.score > best.score
         THEN best' = [score |-> outcome.score, values |-> ActiveValues] ELSE best' = best
  BY DEF RecordIteration
<1>2. ~Settling' /\ ~Unjudged
  BY <1>1 DEF Settling, Unjudged
<1>3. CASE outcome.decision = "accept" /\ outcome.score > best.score
  <2>1. best'.values = ActiveValues
    BY <1>1, <1>3
  <2>2. DOMAIN best'.values = DOMAIN active /\ \A k \in DOMAIN active : best'.values[k] = active[k].value
    BY <2>1 DEF ActiveValues
  <2>3. \A k \in DOMAIN active : UpheldIn(kb', run', k, active[k].value)
    BY <1>1, <1>2, JudgedFacts, JudgementsStay
  <2>4. Settling /\ Keeping /\ 1 \in DOMAIN applied
    <3>1. applied \in Seq(Change) /\ applied # <<>>
      BY <1>1, <1>3 DEF Basics, TypeOK, Lists
    <3> QED BY <1>1, <1>3, <3>1 DEF Settling, Keeping
  <2>5. applied[1].key \in DOMAIN active /\ active[applied[1].key] = applied[1]
    BY <1>1, <2>4 DEF Entered
  <2>6. TakenIn(kb, run, applied[1].key, applied[1].value)
    BY <1>3, <2>4, JudgedFacts
  <2>7. TakenIn(kb', run', applied[1].key, applied[1].value)
    BY <1>1, <2>6, JudgementsStay
  <2>8. \E k \in DOMAIN best'.values : TakenIn(kb', run', k, best'.values[k])
    BY <2>2, <2>5, <2>7
  <2> QED BY <1>1, <1>2, <2>2, <2>3, <2>8, JudgedNext
<1>4. CASE ~(outcome.decision = "accept" /\ outcome.score > best.score)
  BY <1>1, <1>2, <1>4, JudgedQuiet
<1> QED BY <1>3, <1>4

\* Restoration takes back what the best configuration lacks and adds what it has.
LEMMA RestoreJudged ==
  ASSUME Basics, Basics', Judged, [Next]_vars, RestoreBest
  PROVE  Judged'
<1>1. PICK bad \in SUBSET (Surplus \cup Lacking) :
        active' = [k \in (DOMAIN active \ Surplus) \cup (Lacking \ bad) |->
                     IF k \in Lacking \ bad THEN records[Min(Sources(k))] ELSE active[k]]
  BY DEF RestoreBest
<1>2. step = "loop" /\ step' = "restored" /\ run' = run /\ best' = best
  BY DEF RestoreBest
<1>3. ~Settling' /\ ~Unjudged
  BY <1>2 DEF Settling, Unjudged
<1>4. ASSUME NEW k \in DOMAIN active' PROVE UpheldIn(kb', run', k, active'[k].value)
  <2>1. CASE k \in Lacking \ bad
    <3>1. active'[k].value = best.values[k] /\ k \in DOMAIN best.values
      BY <1>1, <2>1, RestorationFacts DEF Basics
    <3>2. UpheldIn(kb, run, k, best.values[k])
      BY <1>2, <3>1, JudgedFacts
    <3> QED BY <1>2, <3>1, <3>2, JudgementsStay
  <2>2. CASE k \notin Lacking \ bad
    <3>1. active'[k] = active[k] /\ k \in DOMAIN active
      BY <1>1, <1>4, <2>2
    <3>2. UpheldIn(kb, run, k, active[k].value)
      BY <1>2, <1>3, <3>1, JudgedFacts
    <3> QED BY <1>2, <3>1, <3>2, JudgementsStay
  <2> QED BY <2>1, <2>2
<1>5. /\ \A k \in DOMAIN best.values : UpheldIn(kb', run', k, best.values[k])
      /\ best = NoBest \/ \E k \in DOMAIN best.values : TakenIn(kb', run', k, best.values[k])
  BY <1>2, JudgedFacts, JudgementsStay
<1> QED BY <1>2, <1>3, <1>4, <1>5, JudgedNext

LEMMA AttributedJudged ==
  ASSUME Basics, Basics', Judged, [Next]_vars, Attributed
  PROVE  Judged'
<1>1. /\ step = "verify" /\ step' = "record" /\ UNCHANGED <<run, applied, outcome, best, phase>>
      /\ active' = [k \in DOMAIN active \cup AppliedKeys |->
                      IF k \in AppliedKeys THEN Ledger(applied)[k] ELSE active[k]]
  BY DEF Attributed, group
<1>2. Settling /\ ~Unjudged /\ outcome.decision = "accept" /\ applied \in Seq(Change)
  BY <1>1 DEF Settling, Unjudged, Basics, Decision, TypeOK
<1>3. ASSUME NEW i \in DOMAIN applied
      PROVE  UpheldIn(kb', run', applied[i].key, applied[i].value) /\ TakenIn(kb', run', applied[i].key, applied[i].value)
  <2>1. UpheldIn(kb, run, applied[i].key, applied[i].value) /\ TakenIn(kb, run, applied[i].key, applied[i].value)
    BY <1>2, JudgedFacts
  <2> QED BY <1>1, <2>1, JudgementsStay
<1>4. ASSUME NEW k \in DOMAIN active' PROVE UpheldIn(kb', run', k, active'[k].value)
  <2>1. CASE k \in AppliedKeys
    <3>1. active'[k] = Ledger(applied)[k]
      BY <1>1, <2>1
    <3>2. PICK i \in DOMAIN applied : Ledger(applied)[k] = applied[i] /\ applied[i].key = k
      <4>1. k \in DOMAIN Ledger(applied)
        BY <1>2, <2>1, AppliedFacts
      <4>2. PICK i \in DOMAIN applied : Ledger(applied)[k] = applied[i]
        BY <1>2, <4>1, LedgerFacts
      <4>3. Ledger(applied)[k].key = k
        BY <1>2, <4>1, LedgerFacts
      <4> QED BY <4>2, <4>3
    <3> QED BY <1>3, <3>1, <3>2
  <2>2. CASE k \notin AppliedKeys
    <3>1. active'[k] = active[k] /\ k \in DOMAIN active
      BY <1>1, <1>4, <2>2
    <3>2. UpheldIn(kb, run, k, active[k].value)
      BY <1>1, <1>2, <3>1, JudgedFacts
    <3> QED BY <1>1, <3>1, <3>2, JudgementsStay
  <2> QED BY <2>1, <2>2
<1>5. /\ \A k \in DOMAIN best.values : UpheldIn(kb', run', k, best.values[k])
      /\ best = NoBest \/ \E k \in DOMAIN best.values : TakenIn(kb', run', k, best.values[k])
  BY <1>1, JudgedFacts, JudgementsStay
<1> QED BY <1>1, <1>3, <1>4, <1>5, JudgedNext

\* A group that is undone leaves nothing of a batch in the ledger.
LEMMA RollBackJudged ==
  ASSUME Basics, Basics', Account, Account', Judged, [Next]_vars, RollBackAll \/ LogRollBack
  PROVE  Judged'
<1>1. /\ step \in {"undo", "undone"} /\ step' \in {"undone", "record", "loop"}
      /\ UNCHANGED <<run, outcome, best, phase>>
  BY DEF RollBackAll, LogRollBack, state, group
<1>2. ~Keeping
  BY <1>1 DEF Basics, Decision, Keeping
<1>3. ~Settling' /\ ~Unjudged'
  BY <1>1, <1>2 DEF Settling, Keeping, Unjudged
<1>4. \A k \in DOMAIN active' : k \in DOMAIN active /\ active'[k] = active[k] /\ ~Unjudged
  <2>1. CASE phase = "resolve" /\ RollBackAll
    <3>1. active' = [k \in DOMAIN active \ AppliedKeys |-> active[k]] /\ step = "undo"
      BY <2>1 DEF RollBackAll
    <3>2. DOMAIN active \subseteq AppliedKeys
      BY <2>1, <3>1 DEF Account, Entries, Working
    <3> QED BY <3>1, <3>2
  <2>2. CASE phase # "resolve" \/ LogRollBack
    <3>1. active' = active /\ ~Unjudged
      BY <2>2 DEF RollBackAll, LogRollBack, state, Unjudged
    <3> QED BY <3>1
  <2> QED BY <2>1, <2>2
<1> QED BY <1>1, <1>3, <1>4, JudgedQuiet

LEMMA JudgedStep ==
  ASSUME Basics, Basics', Account, Account', Drawn, Judged, Entered, [Next]_vars
  PROVE  Judged'
<1>1. CASE Begin
  <2>1. step' = "measured" /\ active' = Nothing /\ best' = NoBest
    BY <1>1 DEF Begin
  <2>2. DOMAIN active' = {} /\ DOMAIN best'.values = {}
    BY <2>1, NothingFacts DEF NoBest
  <2> QED BY <2>1, <2>2, JudgedNext DEF Settling
<1>2. CASE BuildTuneContext \/ ResolveGraph
  <2>1. /\ step \in {"measured", "resolve"} /\ step' \in {"resolve", "loop", "apply"}
        /\ run' = run /\ best' = best /\ active' = active
    BY <1>2 DEF BuildTuneContext, ResolveGraph, state
  <2>2. DOMAIN active = {}
    BY <2>1 DEF Basics, Lists
  <2> QED BY <2>1, <2>2, JudgedQuiet DEF Settling
<1>3. CASE Apply \/ LogApplied \/ ApplyFails \/ ValidationFails
  <2>1. /\ step \in {"apply", "log"} /\ step' \in {"apply", "log", "undo"}
        /\ run' = run /\ best' = best /\ phase' = phase /\ (phase = "resolve" \/ active' = active)
    BY <1>3 DEF Apply, LogApplied, ApplyFails, ValidationFails, state
  <2>2. ~Settling' /\ (phase = "resolve" => Unjudged') /\ (phase # "resolve" => ~Unjudged)
    BY <2>1 DEF Settling, Unjudged
  <2> QED BY <2>1, <2>2, JudgedQuiet
<1>4. CASE NothingApplied
  <2>1. /\ step = "apply" /\ step' = "loop" /\ applied = <<>>
        /\ run' = run /\ best' = best /\ phase' = phase /\ active' = active
    BY <1>4 DEF NothingApplied, state
  <2>2. phase = "resolve" => DOMAIN active = {}
    <3>1. AppliedKeys = {}
      BY <2>1 DEF AppliedKeys
    <3> QED BY <2>1, <3>1 DEF Account, Entries, Working
  <2>3. ~Settling' /\ (phase # "resolve" => ~Unjudged)
    BY <2>1 DEF Settling, Unjudged
  <2> QED BY <2>1, <2>2, <2>3, JudgedQuiet
<1>5. CASE \E o \in Outcomes : Evaluate(o)
  BY <1>5, EvaluateJudged
<1>6. CASE Attributed
  BY <1>6, AttributedJudged
<1>7. CASE NotAttributed
  <2>1. step = "verify" /\ step' = "undo" /\ run' = run /\ best' = best /\ active' = active
    BY <1>7 DEF NotAttributed, state
  <2> QED BY <2>1, JudgedQuiet DEF Settling, Unjudged
<1>8. CASE RollBackAll \/ LogRollBack
  BY <1>8, RollBackJudged
<1>9. CASE RecordIteration
  BY <1>9, RecordJudged
<1>10. CASE \E h \in Keys \X Values : Propose(h) \/ RejectBeforeApply(h)
  <2>1. step = "loop" /\ step' \in {"apply", "loop"} /\ run' = run /\ best' = best /\ active' = active
    BY <1>10 DEF Propose, RejectBeforeApply
  <2> QED BY <2>1, JudgedQuiet DEF Settling, Unjudged
<1>11. CASE RestoreBest
  BY <1>11, RestoreJudged
<1>12. CASE Finalize
  <2>1. step = "restored" /\ step' = "finalized" /\ run' = run /\ best' = best /\ active' = active
    BY <1>12 DEF Finalize, state
  <2> QED BY <2>1, JudgedQuiet DEF Settling, Unjudged
<1>13. CASE StoreFixes \/ Crash
  <2>1. step' = "idle"
    BY <1>13 DEF StoreFixes, Crash
  <2> QED BY <2>1, JudgedNext DEF Settling
<1>14. CASE UNCHANGED vars
  <2>1. UNCHANGED <<kb, run, step, phase, applied, outcome, active, best>>
    BY <1>14 DEF vars, group, state
  <2>2. /\ Settling' <=> Settling
        /\ Unjudged' <=> Unjudged
        /\ \A k, v : UpheldPair(k, v)' <=> UpheldPair(k, v)
        /\ \A p : AcceptedPair(p)' <=> AcceptedPair(p)
    BY <2>1 DEF Settling, Keeping, Unjudged, UpheldPair, AcceptedPair
  <2> QED BY <2>1, <2>2 DEF Judged
<1> QED BY <1>1, <1>2, <1>3, <1>4, <1>5, <1>6, <1>7, <1>8, <1>9, <1>10, <1>11, <1>12, <1>13, <1>14
    DEF Next

-----------------------------------------------------------------------------
(* The invariant as a whole.                                               *)

LEMMA InvariantInit ==
  ASSUME Init
  PROVE  IInv
<1>1. Basics /\ Account /\ Proven /\ Trail
  BY InitBasics, InitAccount, InitProven, TrailInit
<1>2. Measured /\ Unasked
  BY DEF Init, Measured, Unasked
<1>3. step = "idle" /\ run = FirstRun - 1 /\ FirstRun \in Nat
  BY SessionsAssumption DEF Init
<1>4. Drawn /\ Judged
  BY <1>3 DEF Drawn, Judged, Working, Settling
<1>5. TrailAccountsForHost
  BY <1>3 DEF TrailAccountsForHost
<1> QED BY <1>1, <1>2, <1>4, <1>5 DEF IInv, Basics, Account, Trail

LEMMA InvariantStep ==
  ASSUME IInv, [Next]_vars
  PROVE  IInv'
<1>1. Basics /\ Account /\ Measured /\ Proven /\ Drawn /\ Judged /\ Unasked /\ Trail /\ TrailAccountsForHost
  BY DEF IInv, Basics, Account, Trail
<1>2. Basics'
  BY <1>1, BasicsStep
<1>3. Account'
  BY <1>1, <1>2, AccountStep
<1>4. Measured' /\ Proven' /\ Unasked'
  BY <1>1, <1>2, MeasuredStep, ProvenStep, UnaskedStep DEF Trail
<1>5. Drawn' /\ Judged'
  BY <1>1, <1>2, <1>3, DrawnStep, JudgedStep DEF Trail
<1>6. Trail'
  BY <1>1, <1>2, <1>3, TrailStep
<1>7. TrailAccountsForHost'
  <2>1. CASE ~Tuning'
    BY <1>1, <2>1, EndAccounts
  <2>2. CASE Tuning'
    <3>1. Basics /\ Account /\ Trail /\ Tuning => TrailAccountsForHost
      BY TuningAccounts
    <3>2. (Basics /\ Account /\ Trail /\ Tuning => TrailAccountsForHost)'
      BY TuningAccounts, PTL
    <3> QED BY <1>2, <1>3, <1>6, <2>2, <3>2
  <2> QED BY <2>1, <2>2
<1> QED BY <1>2, <1>3, <1>4, <1>5, <1>6, <1>7 DEF IInv, Basics, Account, Trail

\* What holds between any two steps of a session: where the values come from
\* that are on the host, in the ledger, in the best configuration and in the
\* trail, and what was said of them. Every invariant of the sessions is a part or
\* a consequence of it.
THEOREM SessionsInvariant == Spec => []IInv
<1>1. Init => IInv
  BY InvariantInit
<1>2. IInv /\ [Next]_vars => IInv'
  BY InvariantStep
<1> QED BY <1>1, <1>2, PTL DEF Spec

-----------------------------------------------------------------------------
(* The contract: what the knowledge base says in its terms.                *)

JudgementsOf(K) ==
  UNION {{[run |-> K.events[i].run, key |-> k, value |-> K.events[i].payload.values[k],
           decision |-> K.events[i].payload.decision] : k \in DOMAIN K.events[i].payload.values} :
         i \in {n \in DOMAIN K.events : K.events[n].kind = "evaluation_completed"}}

ResultsOf(K) ==
  [r \in {q \in DOMAIN K.runs : q \in DOMAIN K.runs /\ K.runs[q].completed > 0} |->
     [score |-> K.runs[r].score, config |-> K.runs[r].config, final |-> K.runs[r].final]]

RecipesOf(K) ==
  [r \in DOMAIN K.recipes |-> [score |-> K.recipes[r].score, steps |-> K.recipes[r].steps]]

LEMMA InTheirTerms ==
  /\ Judgements = JudgementsOf(kb) /\ Judgements' = JudgementsOf(kb')
  /\ Results = ResultsOf(kb) /\ Results' = ResultsOf(kb')
  /\ Recipes = RecipesOf(kb) /\ Recipes' = RecipesOf(kb')
BY DEF Judgements, Sayings, Evaluations, JudgementsOf, Results, Finished, ResultsOf, Recipes, RecipesOf

\* A judgement is one of an event, the other way round.
LEMMA JudgementFacts ==
  ASSUME NEW K
  PROVE  /\ \A j \in JudgementsOf(K) : \E i \in DOMAIN K.events :
              /\ K.events[i].kind = "evaluation_completed"
              /\ j.run = K.events[i].run /\ j.decision = K.events[i].payload.decision
              /\ j.key \in DOMAIN K.events[i].payload.values
              /\ j = [run |-> K.events[i].run, key |-> j.key,
                      value |-> K.events[i].payload.values[j.key],
                      decision |-> K.events[i].payload.decision]
         /\ \A i \in DOMAIN K.events : K.events[i].kind = "evaluation_completed" =>
              \A k \in DOMAIN K.events[i].payload.values :
                [run |-> K.events[i].run, key |-> k, value |-> K.events[i].payload.values[k],
                 decision |-> K.events[i].payload.decision] \in JudgementsOf(K)
<1> DEFINE I == {n \in DOMAIN K.events : K.events[n].kind = "evaluation_completed"}
           E(i, k) == [run |-> K.events[i].run, key |-> k, value |-> K.events[i].payload.values[k],
                       decision |-> K.events[i].payload.decision]
<1>1. JudgementsOf(K) = UNION {{E(i, k) : k \in DOMAIN K.events[i].payload.values} : i \in I}
  BY DEF JudgementsOf
<1>2. ASSUME NEW i, NEW k
      PROVE  E(i, k).run = K.events[i].run /\ E(i, k).key = k /\ E(i, k).decision = K.events[i].payload.decision
  OBVIOUS
<1> HIDE DEF E
<1>3. ASSUME NEW j \in JudgementsOf(K)
      PROVE  \E i \in I :
               /\ j.key \in DOMAIN K.events[i].payload.values /\ j = E(i, j.key)
               /\ j.run = K.events[i].run /\ j.decision = K.events[i].payload.decision
  <2>1. PICK i \in I : \E k \in DOMAIN K.events[i].payload.values : j = E(i, k)
    BY <1>1
  <2>2. PICK k \in DOMAIN K.events[i].payload.values : j = E(i, k)
    BY <2>1
  <2>3. j.key = k
    BY <1>2, <2>2
  <2> QED BY <1>2, <2>2, <2>3
<1>4. \A i \in I : \A k \in DOMAIN K.events[i].payload.values : E(i, k) \in JudgementsOf(K)
  BY <1>1
<1> QED BY <1>3, <1>4 DEF E

\* What its benchmarks said of a pair, the session tells the others.
LEMMA TellsJudgement ==
  ASSUME NEW r, NEW k, NEW v, NEW D, JudgedIn(kb, r, k, v, D)
  PROVE  Shared!JudgedIn(r, k, v, D)
<1>1. PICK i \in EventsOf(kb, r, "evaluation_completed") :
        /\ kb.events[i].payload.decision \in D /\ k \in DOMAIN kb.events[i].payload.values
        /\ kb.events[i].payload.values[k] = v
  BY DEF JudgedIn
<1> DEFINE d == kb.events[i].payload.decision
<1>2. [run |-> r, key |-> k, value |-> v, decision |-> d] \in JudgementsOf(kb)
  BY <1>1, JudgementFacts DEF EventsOf
<1> QED BY <1>1, <1>2, InTheirTerms DEF Shared!JudgedIn

\* A recipe that repeats accepted pairs of its run is backed by them.
LEMMA ProvenIsBacked ==
  ASSUME NEW r \in DOMAIN kb.recipes, ProvenRecipe(kb, r), kb.recipes[r].score \in Nat
  PROVE  Shared!Backed(r, Recipes[r])
<1>1. /\ r \in DOMAIN Results /\ Results[r].score = kb.runs[r].score
      /\ Recipes[r].score = kb.recipes[r].score /\ Recipes[r].steps = kb.recipes[r].steps
  BY DEF ProvenRecipe, Results, Finished, Recipes
<1>2. Recipes[r].score = Results[r].score /\ Recipes[r].score # Absent
  BY <1>1, NullAssumption DEF ProvenRecipe
<1>3. ASSUME NEW i \in DOMAIN kb.recipes[r].steps
      PROVE  Shared!Accepted(r, kb.recipes[r].steps[i][1], kb.recipes[r].steps[i][2])
  <2>1. JudgedIn(kb, r, kb.recipes[r].steps[i][1], kb.recipes[r].steps[i][2], {"accept"})
    BY DEF ProvenRecipe, BenchmarkedStep, JudgedIn
  <2> QED BY <2>1, TellsJudgement DEF Shared!Accepted
<1> QED BY <1>1, <1>2, <1>3 DEF Shared!Backed

LEMMA SharedInit ==
  ASSUME Init
  PROVE  Shared!Init
<1>1. Basics /\ Proven /\ KnowledgeBaseOK(kb, run) /\ run \in Nat
  BY InitBasics, InitProven, NumberFacts DEF Basics, TypeOK
<1>2. \A j \in Judgements : j.run \in 1..run
  <2>1. \A i \in DOMAIN kb.events : kb.events[i].run \in 1..run
    BY <1>1, KnowledgeTypes
  <2> QED BY <2>1, JudgementFacts, InTheirTerms
<1>3. DOMAIN Results \subseteq 1..run
  BY <1>1, KnowledgeTypes DEF Results
<1>4. ASSUME NEW r \in DOMAIN Recipes PROVE Shared!Backed(r, Recipes[r])
  <2>1. r \in DOMAIN kb.recipes
    BY DEF Recipes
  <2>2. ProvenRecipe(kb, r) /\ kb.recipes[r].score \in Nat
    BY <1>1, <2>1, ProvenFacts, KnowledgeTypes
  <2> QED BY <2>1, <2>2, ProvenIsBacked
<1> QED BY <1>1, <1>2, <1>3, <1>4 DEF Shared!Init

\* Steps that tell nothing.
LEMMA TellsNothing ==
  ASSUME run' = run, Judgements' = Judgements, Results' = Results, Recipes' = Recipes
  PROVE  UNCHANGED Shared!vars
BY DEF Shared!vars

LEMMA SameKnowledge ==
  ASSUME kb' = kb
  PROVE  Judgements' = Judgements /\ Results' = Results /\ Recipes' = Recipes
BY InTheirTerms

\* An event is a judgement when it is that of an evaluation.
LEMMA EventsTell ==
  ASSUME Basics, NEW e, kb' = Record(kb, e)
  PROVE  /\ Results' = Results /\ Recipes' = Recipes /\ Judgements \subseteq Judgements'
         /\ e.kind # "evaluation_completed" => Judgements' = Judgements
         /\ \A j \in Judgements' \ Judgements : j.run = e.run /\ j.decision = e.payload.decision
<1>1. KnowledgeBaseOK(kb, run) /\ kb.events \in Seq(Events)
  BY DEF Basics, TypeOK, KnowledgeBaseOK
<1>2. kb'.runs = kb.runs /\ kb'.recipes = kb.recipes /\ kb'.events = Append(kb.events, e)
  BY <1>1, RecordFacts
<1>3. Results' = Results /\ Recipes' = Recipes
  BY <1>2, InTheirTerms DEF ResultsOf, RecipesOf
<1>4. /\ \A i \in DOMAIN kb.events : i \in DOMAIN kb'.events /\ kb'.events[i] = kb.events[i]
      /\ \A i \in DOMAIN kb'.events : (i \in DOMAIN kb.events /\ kb'.events[i] = kb.events[i]) \/ kb'.events[i] = e
  BY <1>1, <1>2
<1>5. ASSUME NEW j \in JudgementsOf(kb) PROVE j \in JudgementsOf(kb')
  <2>1. PICK i \in DOMAIN kb.events :
          /\ kb.events[i].kind = "evaluation_completed" /\ j.key \in DOMAIN kb.events[i].payload.values
          /\ j = [run |-> kb.events[i].run, key |-> j.key, value |-> kb.events[i].payload.values[j.key],
                  decision |-> kb.events[i].payload.decision]
    BY JudgementFacts
  <2>2. i \in DOMAIN kb'.events /\ kb'.events[i] = kb.events[i]
    BY <1>4
  <2> QED BY <2>1, <2>2, JudgementFacts
<1>6. ASSUME NEW j \in JudgementsOf(kb')
      PROVE  \/ j \in JudgementsOf(kb)
             \/ e.kind = "evaluation_completed" /\ j.run = e.run /\ j.decision = e.payload.decision
  <2>1. PICK i \in DOMAIN kb'.events :
          /\ kb'.events[i].kind = "evaluation_completed" /\ j.key \in DOMAIN kb'.events[i].payload.values
          /\ j.run = kb'.events[i].run /\ j.decision = kb'.events[i].payload.decision
          /\ j = [run |-> kb'.events[i].run, key |-> j.key, value |-> kb'.events[i].payload.values[j.key],
                  decision |-> kb'.events[i].payload.decision]
    BY JudgementFacts
  <2>2. CASE i \in DOMAIN kb.events /\ kb'.events[i] = kb.events[i]
    BY <2>1, <2>2, JudgementFacts
  <2>3. CASE kb'.events[i] = e
    BY <2>1, <2>3
  <2> QED BY <1>4, <2>2, <2>3
<1> QED BY <1>3, <1>5, <1>6, InTheirTerms

\* A run under way has passed on nothing yet.
LEMMA NothingPassedOn ==
  ASSUME Basics, step \notin {"idle", "finalized"}
  PROVE  run \notin DOMAIN Results
BY DEF Basics, Books, Results

\* An evaluation is a judgement.
LEMMA EvaluateJudges ==
  ASSUME Basics, NEW o \in Outcomes, Evaluate(o)
  PROVE  Shared!Judge
<1> DEFINE e == Evaluated(o)
<1>1. kb' = Record(kb, e) /\ step = "apply" /\ run' = run
  BY DEF Evaluate, Evaluated
<1>2. e.run = run /\ e.payload.decision = o.decision
  BY DEF Evaluated, Event
<1>3. o.decision \in {"accept", "inconclusive", "reject"}
  BY OutcomeVerdicts DEF Verdicts
<1> HIDE DEF e
<1>4. /\ Results' = Results /\ Recipes' = Recipes /\ Judgements \subseteq Judgements'
      /\ \A j \in Judgements' \ Judgements : j.run = e.run /\ j.decision = e.payload.decision
  BY <1>1, EventsTell
<1>5. run \notin DOMAIN Results
  BY <1>1, NothingPassedOn
<1> QED BY <1>1, <1>2, <1>3, <1>4, <1>5 DEF Shared!Judge

\* Finalizing a run passes on what its benchmarks upheld.
LEMMA FinalizeConcludes ==
  ASSUME Basics, Judged, Finalize
  PROVE  Shared!Conclude
<1>1. step = "restored" /\ run' = run
  BY DEF Finalize
<1>2. /\ DOMAIN kb'.runs = DOMAIN kb.runs /\ run \in DOMAIN kb.runs
      /\ \A q \in DOMAIN kb.runs : q # run => kb'.runs[q] = kb.runs[q]
      /\ kb'.runs[run].completed > 0
      /\ kb'.runs[run].score = (IF best = NoBest THEN Absent ELSE best.score)
      /\ kb'.runs[run].config = best.values /\ kb'.runs[run].final = ActiveValues
      /\ kb'.events = kb.events /\ kb'.recipes = kb.recipes
  BY FinalizeWrites
<1>3. Judgements' = Judgements /\ Recipes' = Recipes
  BY <1>2, InTheirTerms DEF JudgementsOf, RecipesOf
<1>4. run \notin DOMAIN Results
  BY <1>1, NothingPassedOn
<1>5. /\ DOMAIN Results' = DOMAIN Results \cup {run}
      /\ \A r \in DOMAIN Results : Results'[r] = Results[r]
      /\ Results'[run] = [score |-> kb'.runs[run].score, config |-> best.values, final |-> ActiveValues]
  <2>1. Results = ResultsOf(kb) /\ Results' = ResultsOf(kb')
    BY InTheirTerms
  <2>2. \A r \in DOMAIN ResultsOf(kb) : r # run
    BY <1>4, <2>1
  <2> QED BY <1>2, <2>1, <2>2 DEF ResultsOf
<1>6. Shared!AddsItsOwn(Results, Results')
  BY <1>4, <1>5 DEF Shared!AddsItsOwn
<1> DEFINE result == Results'[run]
<1>7. /\ result.score = (IF best = NoBest THEN Absent ELSE best.score)
      /\ result.config = best.values /\ result.final = ActiveValues
  BY <1>2, <1>5
<1>8. ~Unjudged
  BY <1>1 DEF Unjudged
<1>9. \A k \in DOMAIN best.values : Shared!Upheld(run, k, best.values[k])
  <2>1. \A k \in DOMAIN best.values : JudgedIn(kb, run, k, best.values[k], Fair)
    BY <1>1, JudgedFacts DEF UpheldIn
  <2> QED BY <2>1, TellsJudgement DEF Shared!Upheld, Fair
<1>10. \A k \in DOMAIN ActiveValues : Shared!Upheld(run, k, ActiveValues[k])
  <2>1. \A k \in DOMAIN active : JudgedIn(kb, run, k, active[k].value, Fair)
    BY <1>1, <1>8, JudgedFacts DEF UpheldIn
  <2>2. DOMAIN ActiveValues = DOMAIN active /\ \A k \in DOMAIN active : ActiveValues[k] = active[k].value
    BY DEF ActiveValues
  <2> QED BY <2>1, <2>2, TellsJudgement DEF Shared!Upheld, Fair
<1>11. IF result.score = Absent THEN DOMAIN result.config = {}
       ELSE \E k \in DOMAIN result.config : Shared!Accepted(run, k, result.config[k])
  <2>1. CASE best = NoBest
    BY <1>7, <2>1, NothingFacts DEF NoBest
  <2>2. CASE best # NoBest
    <3>1. result.score # Absent
      BY <1>7, <2>2, NullAssumption DEF Basics, TypeOK
    <3>2. PICK k \in DOMAIN best.values : JudgedIn(kb, run, k, best.values[k], {"accept"})
      BY <1>1, <2>2, JudgedFacts DEF TakenIn
    <3>3. Shared!Accepted(run, k, best.values[k])
      BY <3>2, TellsJudgement DEF Shared!Accepted
    <3> QED BY <1>7, <3>1, <3>3
  <2> QED BY <2>1, <2>2
<1> HIDE DEF result
<1> QED BY <1>1, <1>3, <1>6, <1>7, <1>9, <1>10, <1>11 DEF Shared!Conclude, result

\* The recipe of a finished run consists of pairs its benchmarks accepted.
LEMMA StorePrescribes ==
  ASSUME Basics, Proven, StoreFixes, kb' # kb
  PROVE  Shared!Prescribe
<1> DEFINE L == StoreRecipe(kb, run, baseline, FixSequence, best.score)
<1>1. step = "finalized" /\ run' = run /\ best # NoBest /\ kb' = L
  BY DEF StoreFixes
<1>2. /\ KnowledgeBaseOK(kb, run) /\ run \in DOMAIN kb.runs /\ best.score \in Nat /\ baseline \in Shapes
      /\ run >= FirstRun /\ kb.runs[run].completed > 0 /\ kb.runs[run].score = best.score
      /\ run \notin DOMAIN kb.recipes
  BY <1>1, NumberFacts DEF Basics, Books, TypeOK, Shapes, Finished
<1>3. /\ L.runs = kb.runs /\ L.events = kb.events /\ DOMAIN L.recipes = DOMAIN kb.recipes \cup {run}
      /\ \A q \in DOMAIN kb.recipes : q # run => L.recipes[q] = kb.recipes[q]
      /\ L.recipes[run].score = best.score /\ L.recipes[run].steps = FixSequence
  <2>1. FixSequence \in Seq(Pairs)
    BY FixFacts DEF Basics
  <2> QED BY <1>2, <2>1, StoreFacts
<1> HIDE DEF L
<1>4. Judgements' = Judgements /\ Results' = Results
  <2>1. JudgementsOf(L) = JudgementsOf(kb)
    BY <1>3 DEF JudgementsOf
  <2>2. ResultsOf(L) = ResultsOf(kb)
    BY <1>3 DEF ResultsOf
  <2> QED BY <1>1, <2>1, <2>2, InTheirTerms
<1>5. /\ run \notin DOMAIN Recipes /\ DOMAIN Recipes' = DOMAIN Recipes \cup {run}
      /\ \A r \in DOMAIN Recipes : Recipes'[r] = Recipes[r]
      /\ Recipes'[run].score = best.score /\ Recipes'[run].steps = FixSequence
  <2>1. Recipes = RecipesOf(kb) /\ Recipes' = RecipesOf(L)
    BY <1>1, InTheirTerms
  <2> QED BY <1>2, <1>3, <2>1 DEF RecipesOf
<1>6. ASSUME NEW i \in DOMAIN FixSequence
      PROVE  Shared!Accepted(run, FixSequence[i][1], FixSequence[i][2])
  <2>1. PICK n \in DOMAIN history : history[n].decision = "accept" /\ FixSequence[i] = history[n].pair
    BY FixFacts DEF Basics
  <2>2. BenchmarkedStep(kb, run, FixSequence[i])
    BY <2>1, ProvenFacts
  <2>3. JudgedIn(kb, run, FixSequence[i][1], FixSequence[i][2], {"accept"})
    BY <2>2 DEF BenchmarkedStep, JudgedIn
  <2> QED BY <2>3, TellsJudgement DEF Shared!Accepted
<1>7. run \in DOMAIN Results /\ Results[run].score = best.score /\ best.score # Absent
  BY <1>2, NullAssumption DEF Results, Finished
<1>8. Shared!Backed(run, Recipes'[run])
  BY <1>5, <1>6, <1>7 DEF Shared!Backed
<1> QED BY <1>1, <1>4, <1>5, <1>8 DEF Shared!Prescribe, Shared!AddsItsOwn

\* Entering a run in the books passes on nothing.
LEMMA BuildTellsNothing ==
  ASSUME Basics, BuildTuneContext
  PROVE  UNCHANGED Shared!vars
<1>1. kb' = RecordRun(kb, run) /\ step = "measured" /\ run' = run
  BY DEF BuildTuneContext
<1>2. KnowledgeBaseOK(kb, run) /\ run \in Nat \ {0} /\ run \notin DOMAIN kb.runs
  BY <1>1, NumberFacts DEF Basics, TypeOK, Books
<1>3. /\ DOMAIN kb'.runs = DOMAIN kb.runs \cup {run}
      /\ \A q \in DOMAIN kb.runs : kb'.runs[q] = kb.runs[q]
      /\ kb'.runs[run].completed = 0
      /\ kb'.events = kb.events /\ kb'.recipes = kb.recipes
  BY <1>1, <1>2, RecordRunFacts
<1>4. Judgements' = Judgements /\ Recipes' = Recipes
  BY <1>3, InTheirTerms DEF JudgementsOf, RecipesOf
<1>5. Results' = Results
  <2>1. {q \in DOMAIN kb'.runs : q \in DOMAIN kb'.runs /\ kb'.runs[q].completed > 0}
          = {q \in DOMAIN kb.runs : q \in DOMAIN kb.runs /\ kb.runs[q].completed > 0}
    BY <1>3
  <2> QED BY <1>3, <2>1, InTheirTerms DEF ResultsOf
<1> QED BY <1>1, <1>4, <1>5, TellsNothing

\* Each step of a session is one the contract allows, or tells nothing.
LEMMA SharedStep ==
  ASSUME IInv, [Next]_vars
  PROVE  [Shared!Next]_Shared!vars
<1>0. Basics /\ Proven /\ Judged
  BY DEF IInv, Basics
<1>1. CASE Begin
  <2>1. run' = run + 1 /\ kb' = kb
    BY <1>1 DEF Begin
  <2> QED BY <2>1, SameKnowledge DEF Shared!Next, Shared!Begin
<1>2. CASE BuildTuneContext
  BY <1>0, <1>2, BuildTellsNothing
<1>3. CASE \E o \in Outcomes : Evaluate(o)
  BY <1>0, <1>3, EvaluateJudges DEF Shared!Next
<1>4. CASE Finalize
  BY <1>0, <1>4, FinalizeConcludes DEF Shared!Next
<1>5. CASE StoreFixes
  <2>1. CASE kb' # kb
    BY <1>0, <1>5, <2>1, StorePrescribes DEF Shared!Next
  <2>2. CASE kb' = kb
    BY <1>5, <2>2, SameKnowledge, TellsNothing DEF StoreFixes
  <2> QED BY <2>1, <2>2
<1>6. ASSUME run' = run, NEW kind, NEW payload, kb' = Record(kb, Event(kind, payload)),
             kind # "evaluation_completed"
      PROVE  UNCHANGED Shared!vars
  <2>1. Event(kind, payload).kind = kind
    BY DEF Event
  <2> QED BY <1>0, <1>6, <2>1, EventsTell, TellsNothing
<1>7. CASE LogApplied \/ ApplyFails \/ LogRollBack
  BY <1>6, <1>7 DEF LogApplied, ApplyFails, LogRollBack
<1>8. CASE run' = run /\ kb' = kb
  BY <1>8, SameKnowledge, TellsNothing
<1>9. CASE RecordIteration
  <2>1. run' = run /\ (kb' = kb \/ kb' = Record(kb, Event("best_config_updated", [rps |-> outcome.rps])))
    BY <1>9 DEF RecordIteration
  <2> QED BY <1>6, <1>8, <2>1
<1>10. CASE ResolveGraph \/ Apply \/ NothingApplied \/ ValidationFails \/ Attributed \/ NotAttributed
            \/ RollBackAll \/ RestoreBest \/ Crash \/ UNCHANGED vars
  BY <1>8, <1>10 DEF ResolveGraph, Apply, NothingApplied, ValidationFails, Attributed, NotAttributed,
                     RollBackAll, RestoreBest, Crash, vars
<1>11. CASE \E h \in Keys \X Values : Propose(h) \/ RejectBeforeApply(h)
  BY <1>8, <1>11 DEF Propose, RejectBeforeApply
<1> QED BY <1>1, <1>2, <1>3, <1>4, <1>5, <1>7, <1>9, <1>10, <1>11 DEF Next

\* Whatever fails, is undone, restored or cut off, sessions implement the
\* contract: they only add to what is known and only about themselves, and the
\* configurations and recipes they pass on consist of values their own
\* benchmarks upheld, for any graph, rules, catalog, hosts and earlier runs.
THEOREM SessionsKeepKnowledge == Spec => KeepsKnowledge
<1>1. Init => Shared!Init
  BY SharedInit
<1>2. IInv /\ [Next]_vars => [Shared!Next]_Shared!vars
  BY SharedStep
<1> QED BY <1>1, <1>2, SessionsInvariant, PTL DEF Spec, KeepsKnowledge, Shared!Spec
=============================================================================
