------------------------- MODULE TuneSession_proofs -------------------------
(***************************************************************************)
(* Proofs about one tuning session, for any keys, values and bounds: its   *)
(* invariants, and that it keeps the promises of TuningContract.           *)
(***************************************************************************)
EXTENDS TuneSessionRefinement, TLAPS

USE SessionAssumption

\* The session starts well typed.
LEMMA TypeInit == Init => TypeOK
  <1> SUFFICES ASSUME Init PROVE TypeOK
      OBVIOUS
  <1>1. NoEntries \in [Keys -> Entry] /\ NoEntries \in [Keys -> Values \cup {None}]
        BY DEF NoEntries, Entry
  <1>2. best \in [score : 0..MaxScore, values : [Keys -> Values \cup {None}]]
        BY <1>1 DEF Init
  <1>3. stage \in Stages /\ pc \in Steps /\ verdict \in Verdicts
        BY DEF Init, BatchStages, Stages, Steps, Verdicts
  <1>4. reverted \in BOOLEAN
        BY DEF Init
  <1> QED BY <1>1, <1>2, <1>3, <1>4 DEF Init, TypeOK, Entry

\* The session starts with no group under way.
LEMMA ControlInit == Init => Control
  BY DEF Init, Control, PrimaryApplied, GroupInPlace, OutcomeFits, ExitReached, IterationCounted,
         NoEntries, AppliedKeys, Attributing, BatchStages

\* Every step keeps the types; control is needed where a record is taken from
\* the group under way.
LEMMA TypeStep == TypeOK /\ Control /\ [Next]_vars => TypeOK'
  <1> SUFFICES ASSUME TypeOK, Control, [Next]_vars PROVE TypeOK'
      OBVIOUS
  <1> USE DEF TypeOK, Entry, Change, history, BatchStages, Stages, Steps, Verdicts
  <1>1. CASE SkipStage
        BY <1>1 DEF SkipStage, Advance, StageAfter
  <1>2. ASSUME NEW k \in Keys, NEW v \in Values, WarmStart(k, v) PROVE TypeOK'
        BY <1>2 DEF WarmStart, Applied, Set, MaybeSet
  <1>3. ASSUME NEW w \in Hypotheses, StartBatch(w) PROVE TypeOK'
        BY <1>3 DEF StartBatch, Hypotheses
  <1>4. ASSUME NEW p \in Keys, NEW w \in Hypotheses, Propose(p, w) PROVE TypeOK'
        BY <1>4 DEF Propose, Hypotheses, RefreshCatalog, ActiveKeys
  <1>5. CASE SkipIteration
        BY <1>5 DEF SkipIteration, RefreshCatalog, ActiveKeys
  <1>6. ASSUME NEW k \in Keys, NEW v \in Values, ApplySucceeds(k, v) PROVE TypeOK'
        BY <1>6 DEF ApplySucceeds, Applied, Set
  <1>7. ASSUME NEW k \in Keys, NEW v \in Values, ApplyFails(k, v) PROVE TypeOK'
        BY <1>7 DEF ApplyFails, MaybeSet, AppliedKeys
  <1>8. CASE NothingApplied
        BY <1>8 DEF NothingApplied, Advance, StageAfter
  <1>9. CASE Validate
        BY <1>9 DEF Validate, AppliedKeys
  <1>10. ASSUME NEW d \in Verdicts, NEW s \in 0..MaxScore, Evaluate(d, s) PROVE TypeOK'
        BY <1>10 DEF Evaluate
  <1>11. CASE MarginalGain
        BY <1>11 DEF MarginalGain
  <1>12. CASE VerifyRevert
    <2>1. lead \in Change
          BY <1>12 DEF VerifyRevert, Control, PrimaryApplied, Attributing
    <2>2. host' \in [Keys -> Values]
          BY <1>12, <2>1 DEF VerifyRevert, Set
    <2>3. verdict' \in Verdicts /\ score' \in 0..MaxScore /\ pc' \in Steps
          BY <1>12 DEF VerifyRevert
    <2>4. reverted' \in BOOLEAN
          BY <1>12, Zenon DEF VerifyRevert
    <2> QED BY <1>12, <2>2, <2>3, <2>4 DEF VerifyRevert
  <1>13. CASE VerifyMeasure
         BY <1>13 DEF VerifyMeasure
  <1>14. CASE VerifyReapply
    <2>1. lead \in Change
          BY <1>14 DEF VerifyReapply, Control, PrimaryApplied, Attributing
    <2>2. host' \in [Keys -> Values]
          BY <1>14, <2>1 DEF VerifyReapply, Set
    <2>3. verdict' \in Verdicts /\ score' \in 0..MaxScore /\ pc' \in Steps
          BY <1>14 DEF VerifyReapply
    <2>4. reverted' \in BOOLEAN
          BY <1>14, Zenon DEF VerifyReapply
    <2> QED BY <1>14, <2>2, <2>3, <2>4 DEF VerifyReapply
  <1>15. CASE Keep
    <2>1. active' \in [Keys -> Entry]
          BY <1>15 DEF Keep
    <2>2. RecordIteration(active') => recorded' \subseteq [key : Keys, change : Change]
          BY <1>15 DEF Keep, RecordIteration, HasChange, Control, PrimaryApplied
    <2>3. RecordIteration(active') =>
            /\ best' \in [score : 0..MaxScore, values : [Keys -> Values \cup {None}]]
            /\ bestHost' \in [Keys -> Values]
          BY <2>1 DEF RecordIteration, HasChange
    <2>4. EndGroup(active') => iterations' \in 0..MaxIterations
          BY <1>15 DEF EndGroup, Keep, Control, IterationCounted
    <2>5. EndGroup(active') => lead' \in Entry /\ reverted' \in BOOLEAN
          BY Zenon DEF EndGroup
    <2>6. Advance(active') => catalog' \in [Keys -> Values] /\ catalogKeys' \subseteq Keys /\ pc' \in Steps
          BY DEF Advance
    <2>7. Advance(active') => stage' \in Stages
          BY DEF Advance, StageAfter
    <2> QED BY <1>15, <2>1, <2>2, <2>3, <2>4, <2>5, <2>6, <2>7 DEF Keep, EndGroup, ActiveKeys, NoEntries
  <1>16. CASE StartUndo
         BY <1>16 DEF StartUndo, AppliedKeys
  <1>17. ASSUME NEW k \in Keys, Undo(k) PROVE TypeOK'
    <2>1. pending[k] \in Change
          BY <1>17 DEF Undo, Control, GroupInPlace, AppliedKeys
    <2>2. host' \in [Keys -> Values]
          BY <1>17, <2>1 DEF Undo, MaybeSet
    <2> QED BY <1>17, <2>2, ZenonT(60) DEF Undo
  <1>18. CASE UndoDone
    <2>1. RecordIteration(active) =>
            /\ best' \in [score : 0..MaxScore, values : [Keys -> Values \cup {None}]]
            /\ bestHost' \in [Keys -> Values]
          BY DEF RecordIteration, HasChange
    <2>2. RecordIteration(active) => recorded' \subseteq [key : Keys, change : Change]
          BY <1>18 DEF UndoDone, RecordIteration, HasChange, Control, PrimaryApplied
    <2>3. EndGroup(active) => iterations' \in 0..MaxIterations
          BY <1>18 DEF EndGroup, UndoDone, Control, IterationCounted
    <2>4. EndGroup(active) => lead' \in Entry /\ reverted' \in BOOLEAN
          BY Zenon DEF EndGroup
    <2>5. Advance(active) => catalog' \in [Keys -> Values] /\ catalogKeys' \subseteq Keys /\ pc' \in Steps
          BY DEF Advance
    <2>6. Advance(active) => stage' \in Stages
          BY DEF Advance, StageAfter
    <2> QED BY <1>18, <2>1, <2>2, <2>3, <2>4, <2>5, <2>6 DEF UndoDone, EndGroup
  <1>19. CASE Stop
         BY <1>19 DEF Stop, ActiveKeys
  <1>20. ASSUME NEW k \in Keys, ExitUndo(k) PROVE TypeOK'
    <2>1. active[k] \in Change
          BY <1>20 DEF ExitUndo, Control, ExitReached, ActiveKeys
    <2>2. host' \in [Keys -> Values]
          BY <1>20, <2>1 DEF ExitUndo, MaybeSet
    <2> QED BY <1>20, <2>2, ZenonT(60) DEF ExitUndo
  <1>21. ASSUME NEW k \in Keys, ExitApply(k) PROVE TypeOK'
    <2>1. best.values[k] \in Values
          BY <1>21 DEF ExitApply, Control, ExitReached
    <2>2. host' \in [Keys -> Values]
          BY <1>21, <2>1 DEF ExitApply, MaybeSet, Set
    <2>3. active' \in [Keys -> Entry]
          BY <1>21 DEF ExitApply, SourceRecords
    <2> QED BY <1>21, <2>2, <2>3 DEF ExitApply
  <1>22. CASE ExitUndoDone
         BY <1>22 DEF ExitUndoDone
  <1>23. CASE ExitDone
         BY <1>23 DEF ExitDone
  <1>24. CASE Abort
         BY <1>24 DEF Abort
  <1>25. CASE UNCHANGED vars
         BY <1>25 DEF vars
  <1> QED
      BY <1>1, <1>2, <1>3, <1>4, <1>5, <1>6, <1>7, <1>8, <1>9, <1>10, <1>11, <1>12, <1>13,
         <1>14, <1>15, <1>16, <1>17, <1>18, <1>19, <1>20, <1>21, <1>22, <1>23, <1>24, <1>25
      DEF Next

\* Every step of run() leaves the thread where the next one can count on it.
LEMMA ControlStep == TypeOK /\ Control /\ [Next]_vars => Control'
  <1> SUFFICES ASSUME TypeOK, Control, [Next]_vars PROVE Control'
      OBVIOUS
  <1> USE DEF Control, PrimaryApplied, GroupInPlace, OutcomeFits, ExitReached, IterationCounted,
              Attributing, BatchStages, Batching, AppliedKeys, ActiveKeys
  <1>1. CASE SkipStage
        BY <1>1 DEF SkipStage, Advance, StageAfter, TypeOK, Stages
  <1>2. ASSUME NEW k \in Keys, NEW v \in Values, WarmStart(k, v) PROVE Control'
        BY <1>2 DEF WarmStart, Applied
  <1>3. ASSUME NEW w \in Hypotheses, StartBatch(w) PROVE Control'
        BY <1>3 DEF StartBatch, NoEntries
  <1>4. ASSUME NEW p \in Keys, NEW w \in Hypotheses, Propose(p, w) PROVE Control'
        BY <1>4 DEF Propose, NoEntries
  <1>5. CASE SkipIteration
        BY <1>5 DEF SkipIteration
  <1>6. ASSUME NEW k \in Keys, NEW v \in Values, ApplySucceeds(k, v) PROVE Control'
        BY <1>6 DEF ApplySucceeds, Applied, TypeOK, Change
  <1>7. ASSUME NEW k \in Keys, NEW v \in Values, ApplyFails(k, v) PROVE Control'
        BY <1>7 DEF ApplyFails
  <1>8. CASE NothingApplied
        BY <1>8 DEF NothingApplied, Advance, StageAfter, NoEntries, TypeOK, Stages
  <1>9. CASE Validate
        BY <1>9 DEF Validate
  <1>10. ASSUME NEW d \in Verdicts, NEW s \in 0..MaxScore, Evaluate(d, s) PROVE Control'
        BY <1>10 DEF Evaluate
  <1>11. CASE MarginalGain
        BY <1>11 DEF MarginalGain
  <1>12. CASE VerifyRevert
        BY <1>12 DEF VerifyRevert
  <1>13. CASE VerifyMeasure
        BY <1>13 DEF VerifyMeasure
  <1>14. CASE VerifyReapply
        BY <1>14 DEF VerifyReapply
  <1>15. CASE Keep
        BY <1>15 DEF Keep, EndGroup, Advance, StageAfter, NoEntries, TypeOK, Stages
  <1>16. CASE StartUndo
        BY <1>16 DEF StartUndo, Keeps
  <1>17. ASSUME NEW k \in Keys, Undo(k) PROVE Control'
        BY <1>17 DEF Undo, TypeOK
  <1>18. CASE UndoDone
        BY <1>18 DEF UndoDone, EndGroup, Advance, StageAfter, NoEntries, TypeOK, Stages
  <1>19. CASE Stop
        BY <1>19 DEF Stop, NoEntries
  <1>20. ASSUME NEW k \in Keys, ExitUndo(k) PROVE Control'
        BY <1>20 DEF ExitUndo, TypeOK
  <1>21. ASSUME NEW k \in Keys, ExitApply(k) PROVE Control'
        BY <1>21 DEF ExitApply, TypeOK
  <1>22. CASE ExitUndoDone
        BY <1>22 DEF ExitUndoDone
  <1>23. CASE ExitDone
        BY <1>23 DEF ExitDone
  <1>24. CASE Abort
        BY <1>24 DEF Abort
  <1>25. CASE UNCHANGED vars
        BY <1>25 DEF vars
  <1> QED
      BY <1>1, <1>2, <1>3, <1>4, <1>5, <1>6, <1>7, <1>8, <1>9, <1>10, <1>11, <1>12, <1>13,
         <1>14, <1>15, <1>16, <1>17, <1>18, <1>19, <1>20, <1>21, <1>22, <1>23, <1>24, <1>25
      DEF Next

\* Every apply, undo, keep and exit command leaves the host and the ledger in
\* agreement.
LEMMA LedgerStep == TypeOK /\ Control /\ Ledger /\ Best /\ [Next]_vars => Ledger'
  <1> SUFFICES ASSUME TypeOK, Control, Ledger, Best, [Next]_vars PROVE Ledger'
      OBVIOUS
  <1> USE DEF Ledger, HostAccounted, UndoIsExact, RetunedAreActive, BatchInLedger, MeasuredIsIntended,
              Sound, Committed, Intended, Expected, TypeOK, Entry, Change, history,
              Control, PrimaryApplied, GroupInPlace, OutcomeFits, ExitReached,
              Attributing, BatchStages, Stages, Batching, AppliedKeys, ActiveKeys
  <1>1. CASE SkipStage
        BY <1>1 DEF SkipStage, Advance, StageAfter, NoEntries
  <1>2. ASSUME NEW k \in Keys, NEW v \in Values, WarmStart(k, v) PROVE Ledger'
        BY <1>2 DEF WarmStart, Applied, Set, MaybeSet, NoEntries
  <1>3. ASSUME NEW w \in Hypotheses, StartBatch(w) PROVE Ledger'
        BY <1>3 DEF StartBatch, NoEntries
  <1>4. ASSUME NEW p \in Keys, NEW w \in Hypotheses, Propose(p, w) PROVE Ledger'
        BY <1>4 DEF Propose, NoEntries
  <1>5. CASE SkipIteration
        BY <1>5 DEF SkipIteration
  <1>6. ASSUME NEW k \in Keys, NEW v \in Values, ApplySucceeds(k, v) PROVE Ledger'
        BY <1>6 DEF ApplySucceeds, Applied, Set
  <1>7. ASSUME NEW k \in Keys, NEW v \in Values, ApplyFails(k, v) PROVE Ledger'
        BY <1>7 DEF ApplyFails, MaybeSet
  <1>8. CASE NothingApplied
        BY <1>8 DEF NothingApplied, Advance, StageAfter
  <1>9. CASE Validate
        BY <1>9 DEF Validate
  <1>10. ASSUME NEW d \in Verdicts, NEW s \in 0..MaxScore, Evaluate(d, s) PROVE Ledger'
        BY <1>10 DEF Evaluate
  <1>11. CASE MarginalGain
        BY <1>11 DEF MarginalGain
  <1>12. CASE VerifyRevert
        BY <1>12 DEF VerifyRevert, Set
  <1>13. CASE VerifyMeasure
        BY <1>13 DEF VerifyMeasure
  <1>14. CASE VerifyReapply
    <2>1. lead = pending[primary] /\ lead \in Change /\ reverted
          BY <1>14 DEF VerifyReapply
    <2>2. \/ host' = [host EXCEPT ![primary] = lead.applied] /\ ~reverted'
          \/ host' = host /\ reverted'
          BY <1>14, <2>1, Zenon DEF VerifyReapply, Set
    <2>3. UNCHANGED <<active, pending, primary, stage, tainted, stacked, retuned, measured, wanted>>
          BY <1>14 DEF VerifyReapply
    <2>4. pc' = "decide" /\ ~Batching
          BY <1>14 DEF VerifyReapply
    <2> QED BY <1>14, <2>1, <2>2, <2>3, <2>4 DEF VerifyReapply
  <1>15. CASE Keep
        BY <1>15 DEF Keep, Keeps, EndGroup, Advance, StageAfter, NoEntries
  <1>16. CASE StartUndo
        BY <1>16 DEF StartUndo
  <1>17. ASSUME NEW k \in Keys, Undo(k) PROVE Ledger'
        BY <1>17 DEF Undo, MaybeSet
  <1>18. CASE UndoDone
        BY <1>18 DEF UndoDone, EndGroup, Advance, StageAfter, NoEntries
  <1>19. CASE Stop
        BY <1>19 DEF Stop, NoEntries
  <1>20. ASSUME NEW k \in Keys, ExitUndo(k) PROVE Ledger'
        BY <1>20 DEF ExitUndo, MaybeSet, NoEntries
  <1>21. ASSUME NEW k \in Keys, ExitApply(k) PROVE Ledger'
    <2>1. /\ best.values[k] \in Values /\ pc = "exit_apply" /\ stage = "exit"
          /\ active[k] = None \/ active[k].applied # best.values[k]
          BY <1>21 DEF ExitApply
    <2>2. k \in retuned
          BY <2>1 DEF Best, BestStillActive
    <2>3. UNCHANGED <<pending, primary, stage, pc, stacked, retuned, measured, wanted, reverted>>
          BY <1>21 DEF ExitApply
    <2>4. CASE UNCHANGED <<host, active, tainted>>
          BY <2>1, <2>3, <2>4
    <2>5. ASSUME NEW r \in recorded, r.change.applied = best.values[k],
                 host' = [host EXCEPT ![k] = best.values[k]],
                 active' = [active EXCEPT ![k] = r.change], UNCHANGED tainted
          PROVE  Ledger'
      <3>1. r.change \in Change
            OBVIOUS
      <3>2. \A j \in Keys : pending[j] = None
            BY <2>1 DEF NoEntries
      <3> QED BY <2>1, <2>2, <2>3, <2>5, <3>1, <3>2
    <2>6. CASE /\ host' \in {host, [host EXCEPT ![k] = best.values[k]]}
               /\ active' = active /\ tainted' = tainted \cup {k}
          BY <2>1, <2>3, <2>6
    <2> QED BY <1>21, <2>4, <2>5, <2>6 DEF ExitApply, MaybeSet, Set, SourceRecords
  <1>22. CASE ExitUndoDone
        BY <1>22 DEF ExitUndoDone
  <1>23. CASE ExitDone
        BY <1>23 DEF ExitDone
  <1>24. CASE Abort
        BY <1>24 DEF Abort
  <1>25. CASE UNCHANGED vars
        BY <1>25 DEF vars
  <1> QED
      BY <1>1, <1>2, <1>3, <1>4, <1>5, <1>6, <1>7, <1>8, <1>9, <1>10, <1>11, <1>12, <1>13,
         <1>14, <1>15, <1>16, <1>17, <1>18, <1>19, <1>20, <1>21, <1>22, <1>23, <1>24, <1>25
      DEF Next

\* Only a change of its own key moves the host away from the best configuration.
LEMMA BestStep == TypeOK /\ Control /\ Ledger /\ Best /\ [Next]_vars => Best'
  <1> SUFFICES ASSUME TypeOK, Control, Ledger, Best, [Next]_vars PROVE Best'
      OBVIOUS
  <1> USE DEF Best, BestAsMeasured, BestStillActive, HasBest,
              Ledger, RetunedAreActive, BatchInLedger, MeasuredIsIntended,
              Sound, Committed, Intended, TypeOK, Entry, Change, history,
              Control, PrimaryApplied, GroupInPlace, OutcomeFits, ExitReached,
              Attributing, BatchStages, Stages, Batching, AppliedKeys, ActiveKeys
  <1>1. CASE SkipStage
        BY <1>1 DEF SkipStage, Advance, StageAfter, NoEntries
  <1>2. ASSUME NEW k \in Keys, NEW v \in Values, WarmStart(k, v) PROVE Best'
        BY <1>2 DEF WarmStart, Applied, NoEntries
  <1>3. ASSUME NEW w \in Hypotheses, StartBatch(w) PROVE Best'
        BY <1>3 DEF StartBatch, NoEntries
  <1>4. ASSUME NEW p \in Keys, NEW w \in Hypotheses, Propose(p, w) PROVE Best'
        BY <1>4 DEF Propose, NoEntries
  <1>5. CASE SkipIteration
        BY <1>5 DEF SkipIteration
  <1>6. ASSUME NEW k \in Keys, NEW v \in Values, ApplySucceeds(k, v) PROVE Best'
        BY <1>6 DEF ApplySucceeds, Applied
  <1>7. ASSUME NEW k \in Keys, NEW v \in Values, ApplyFails(k, v) PROVE Best'
        BY <1>7 DEF ApplyFails
  <1>8. CASE NothingApplied
        BY <1>8 DEF NothingApplied, Advance, StageAfter
  <1>9. CASE Validate
        BY <1>9 DEF Validate
  <1>10. ASSUME NEW d \in Verdicts, NEW s \in 0..MaxScore, Evaluate(d, s) PROVE Best'
        BY <1>10 DEF Evaluate
  <1>11. CASE MarginalGain
        BY <1>11 DEF MarginalGain
  <1>12. CASE VerifyRevert
        BY <1>12 DEF VerifyRevert
  <1>13. CASE VerifyMeasure
        BY <1>13 DEF VerifyMeasure
  <1>14. CASE VerifyReapply
        BY <1>14 DEF VerifyReapply
  <1>15. CASE Keep
        BY <1>15 DEF Keep, Keeps, RecordIteration, HasChange, EndGroup, Advance, StageAfter, NoEntries
  <1>16. CASE StartUndo
        BY <1>16 DEF StartUndo
  <1>17. ASSUME NEW k \in Keys, Undo(k) PROVE Best'
        BY <1>17 DEF Undo
  <1>18. CASE UndoDone
        BY <1>18 DEF UndoDone, RecordIteration, HasChange, EndGroup, Advance, StageAfter, NoEntries
  <1>19. CASE Stop
        BY <1>19 DEF Stop, NoEntries
  <1>20. ASSUME NEW k \in Keys, ExitUndo(k) PROVE Best'
        BY <1>20 DEF ExitUndo, NoEntries
  <1>21. ASSUME NEW k \in Keys, ExitApply(k) PROVE Best'
        BY <1>21 DEF ExitApply, SourceRecords, NoEntries
  <1>22. CASE ExitUndoDone
        BY <1>22 DEF ExitUndoDone
  <1>23. CASE ExitDone
        BY <1>23 DEF ExitDone
  <1>24. CASE Abort
        BY <1>24 DEF Abort
  <1>25. CASE UNCHANGED vars
        BY <1>25 DEF vars
  <1> QED
      BY <1>1, <1>2, <1>3, <1>4, <1>5, <1>6, <1>7, <1>8, <1>9, <1>10, <1>11, <1>12, <1>13,
         <1>14, <1>15, <1>16, <1>17, <1>18, <1>19, <1>20, <1>21, <1>22, <1>23, <1>24, <1>25
      DEF Next

\* The restoration leaves every key it has dealt with at its place.
LEMMA ExitStep == TypeOK /\ Control /\ Ledger /\ Best /\ ExitProgress /\ [Next]_vars => ExitProgress'
  <1> SUFFICES ASSUME TypeOK, Control, Ledger, Best, ExitProgress, [Next]_vars PROVE ExitProgress'
      OBVIOUS
  <1> USE DEF ExitProgress, HasBest, Sound, TypeOK, Entry, Change, history,
              Control, PrimaryApplied, GroupInPlace, OutcomeFits, ExitReached,
              Attributing, BatchStages, Stages, Batching, AppliedKeys, ActiveKeys
  <1>0. ASSUME UNCHANGED <<recorded, best>>
        PROVE  \A j \in Keys : SourceRecords(j)' = SourceRecords(j)
        BY <1>0 DEF SourceRecords
  <1>1. CASE SkipStage
        BY <1>1 DEF SkipStage, Advance, StageAfter, NoEntries
  <1>2. ASSUME NEW k \in Keys, NEW v \in Values, WarmStart(k, v) PROVE ExitProgress'
        BY <1>2 DEF WarmStart, Applied, NoEntries
  <1>3. ASSUME NEW w \in Hypotheses, StartBatch(w) PROVE ExitProgress'
        BY <1>3 DEF StartBatch, NoEntries
  <1>4. ASSUME NEW p \in Keys, NEW w \in Hypotheses, Propose(p, w) PROVE ExitProgress'
        BY <1>4 DEF Propose, NoEntries
  <1>5. CASE SkipIteration
        BY <1>5 DEF SkipIteration
  <1>6. ASSUME NEW k \in Keys, NEW v \in Values, ApplySucceeds(k, v) PROVE ExitProgress'
        BY <1>6 DEF ApplySucceeds, Applied
  <1>7. ASSUME NEW k \in Keys, NEW v \in Values, ApplyFails(k, v) PROVE ExitProgress'
        BY <1>7 DEF ApplyFails
  <1>8. CASE NothingApplied
        BY <1>8 DEF NothingApplied, Advance, StageAfter
  <1>9. CASE Validate
        BY <1>9 DEF Validate
  <1>10. ASSUME NEW d \in Verdicts, NEW s \in 0..MaxScore, Evaluate(d, s) PROVE ExitProgress'
        BY <1>10 DEF Evaluate
  <1>11. CASE MarginalGain
        BY <1>11 DEF MarginalGain
  <1>12. CASE VerifyRevert
        BY <1>12 DEF VerifyRevert
  <1>13. CASE VerifyMeasure
        BY <1>13 DEF VerifyMeasure
  <1>14. CASE VerifyReapply
        BY <1>14 DEF VerifyReapply
  <1>15. CASE Keep
        BY <1>15 DEF Keep, Keeps, RecordIteration, HasChange, EndGroup, Advance, StageAfter, NoEntries
  <1>16. CASE StartUndo
        BY <1>16 DEF StartUndo
  <1>17. ASSUME NEW k \in Keys, Undo(k) PROVE ExitProgress'
        BY <1>17 DEF Undo
  <1>18. CASE UndoDone
        BY <1>18 DEF UndoDone, RecordIteration, HasChange, EndGroup, Advance, StageAfter, NoEntries
  <1>19. CASE Stop
        BY <1>19 DEF Stop, NoEntries
  <1>20. ASSUME NEW k \in Keys, ExitUndo(k) PROVE ExitProgress'
        BY <1>20 DEF ExitUndo, NoEntries
  <1>21. ASSUME NEW k \in Keys, ExitApply(k) PROVE ExitProgress'
    <2>1. \A j \in Keys : SourceRecords(j)' = SourceRecords(j)
          BY <1>0, <1>21 DEF ExitApply
    <2>2. \/ SourceRecords(k) = {} /\ UNCHANGED <<active, tainted>>
          \/ \E c \in Change : /\ c.applied = best.values[k] /\ active' = [active EXCEPT ![k] = c]
                             /\ UNCHANGED tainted
          \/ tainted' = tainted \cup {k} /\ active' = active
          BY <1>21 DEF ExitApply, SourceRecords
    <2> QED BY <1>21, <2>1, <2>2, SMTT(60) DEF ExitApply
  <1>22. CASE ExitUndoDone
        BY <1>0, <1>22 DEF ExitUndoDone, Best, BestAsMeasured, NoEntries
  <1>23. CASE ExitDone
        BY <1>0, <1>23 DEF ExitDone
  <1>24. CASE Abort
        BY <1>24 DEF Abort
  <1>25. CASE UNCHANGED vars
        BY <1>0, <1>25 DEF vars
  <1> QED
      BY <1>1, <1>2, <1>3, <1>4, <1>5, <1>6, <1>7, <1>8, <1>9, <1>10, <1>11, <1>12, <1>13,
         <1>14, <1>15, <1>16, <1>17, <1>18, <1>19, <1>20, <1>21, <1>22, <1>23, <1>24, <1>25
      DEF Next

\* The catalog stays current for keys not activated since it was built.
LEMMA CatalogStep == TypeOK /\ Control /\ Ledger /\ Ledger' /\ CatalogAsBuilt /\ [Next]_vars => CatalogAsBuilt'
  <1> SUFFICES ASSUME TypeOK, Control, Ledger, Ledger', CatalogAsBuilt, [Next]_vars PROVE CatalogAsBuilt'
      OBVIOUS
  <1> USE DEF CatalogAsBuilt, InCommitted, Sound, Committed, TypeOK, Entry, Change, history,
              Ledger, RetunedAreActive, BatchInLedger,
              Control, GroupInPlace, OutcomeFits, ExitReached,
              Attributing, BatchStages, Stages, Batching, AppliedKeys, ActiveKeys
  <1>1. CASE SkipStage
        BY <1>1 DEF SkipStage, Advance, StageAfter, NoEntries, Expected, Intended, HostAccounted
  <1>2. ASSUME NEW k \in Keys, NEW v \in Values, WarmStart(k, v) PROVE CatalogAsBuilt'
        BY <1>2 DEF WarmStart, Applied, NoEntries
  <1>3. ASSUME NEW w \in Hypotheses, StartBatch(w) PROVE CatalogAsBuilt'
        BY <1>3 DEF StartBatch, NoEntries
  <1>4. ASSUME NEW p \in Keys, NEW w \in Hypotheses, Propose(p, w) PROVE CatalogAsBuilt'
        BY <1>4 DEF Propose, NoEntries, RefreshCatalog, Expected, Intended, HostAccounted
  <1>5. CASE SkipIteration
        BY <1>5 DEF SkipIteration, RefreshCatalog, NoEntries, Expected, Intended, HostAccounted
  <1>6. ASSUME NEW k \in Keys, NEW v \in Values, ApplySucceeds(k, v) PROVE CatalogAsBuilt'
        BY <1>6 DEF ApplySucceeds, Applied
  <1>7. ASSUME NEW k \in Keys, NEW v \in Values, ApplyFails(k, v) PROVE CatalogAsBuilt'
        BY <1>7 DEF ApplyFails
  <1>8. CASE NothingApplied
        BY <1>8 DEF NothingApplied, Advance, StageAfter, Expected, Intended, HostAccounted, NoEntries
  <1>9. CASE Validate
        BY <1>9 DEF Validate
  <1>10. ASSUME NEW d \in Verdicts, NEW s \in 0..MaxScore, Evaluate(d, s) PROVE CatalogAsBuilt'
        BY <1>10 DEF Evaluate
  <1>11. CASE MarginalGain
        BY <1>11 DEF MarginalGain
  <1>12. CASE VerifyRevert
        BY <1>12 DEF VerifyRevert
  <1>13. CASE VerifyMeasure
        BY <1>13 DEF VerifyMeasure
  <1>14. CASE VerifyReapply
        BY <1>14 DEF VerifyReapply
  <1>15. CASE Keep
    <2>1. /\ \A k \in Keys : pending'[k] = None
          /\ host' = host /\ pc' = "idle" /\ reverted' = FALSE
          BY <1>15 DEF Keep, EndGroup, Advance, NoEntries
    <2>2. CASE stage = "loop"
          BY <1>15, <2>1, <2>2 DEF Keep, EndGroup, NoEntries
    <2>3. CASE Batching
      <3>1. stage' # "exit" /\ (catalog' = catalog \/ catalog' = host) /\ catalogKeys' = {}
            BY <1>15, <2>3 DEF Keep, EndGroup, Advance, StageAfter
      <3>2. retuned' = {} /\ \A k \in Keys : active'[k] = active[k]
            BY <1>15, <2>3 DEF Keep
      <3>3. CASE catalog' = host
            BY <1>15, <2>1, <3>1, <3>2, <3>3 DEF Keep, HostAccounted, Expected, Intended
      <3>4. CASE catalog' = catalog
            BY <1>15, <2>1, <2>3, <3>1, <3>2, <3>4 DEF Keep
      <3> QED BY <3>1, <3>3, <3>4
    <2> QED BY <1>15, <2>2, <2>3 DEF Keep
  <1>16. CASE StartUndo
        BY <1>16 DEF StartUndo
  <1>17. ASSUME NEW k \in Keys, Undo(k) PROVE CatalogAsBuilt'
        BY <1>17 DEF Undo
  <1>18. CASE UndoDone
        BY <1>18 DEF UndoDone, EndGroup, Advance, StageAfter, NoEntries, Expected, Intended, HostAccounted
  <1>19. CASE Stop
        BY <1>19 DEF Stop, NoEntries
  <1>20. ASSUME NEW k \in Keys, ExitUndo(k) PROVE CatalogAsBuilt'
        BY <1>20 DEF ExitUndo, NoEntries
  <1>21. ASSUME NEW k \in Keys, ExitApply(k) PROVE CatalogAsBuilt'
        BY <1>21 DEF ExitApply, SourceRecords, NoEntries
  <1>22. CASE ExitUndoDone
        BY <1>22 DEF ExitUndoDone
  <1>23. CASE ExitDone
        BY <1>23 DEF ExitDone
  <1>24. CASE Abort
        BY <1>24 DEF Abort
  <1>25. CASE UNCHANGED vars
        BY <1>25 DEF vars
  <1> QED
      BY <1>1, <1>2, <1>3, <1>4, <1>5, <1>6, <1>7, <1>8, <1>9, <1>10, <1>11, <1>12, <1>13,
         <1>14, <1>15, <1>16, <1>17, <1>18, <1>19, <1>20, <1>21, <1>22, <1>23, <1>24, <1>25
      DEF Next

\* The inductive invariant holds at the start.
LEMMA IInvInit == Init => IInv
  <1> SUFFICES ASSUME Init PROVE IInv
      OBVIOUS
  <1>1. TypeOK /\ Control
        BY TypeInit, ControlInit
  <1>2. \A k \in Keys : active[k] = None /\ pending[k] = None /\ best.values[k] = None
        BY DEF Init, NoEntries
  <1>3. Ledger
        BY <1>2 DEF Init, Ledger, HostAccounted, UndoIsExact, RetunedAreActive, BatchInLedger,
                    MeasuredIsIntended, Committed, Intended, Expected, Attributing
  <1>4. Best
        BY <1>2 DEF Init, Best, BestAsMeasured, BestStillActive, HasBest
  <1>5. ExitProgress /\ CatalogAsBuilt
        BY <1>2 DEF Init, ExitProgress, CatalogAsBuilt, InCommitted, Committed, Attributing
  <1> QED BY <1>1, <1>3, <1>4, <1>5 DEF IInv

\* Every step preserves the inductive invariant.
LEMMA IInvStep == IInv /\ [Next]_vars => IInv'
  BY TypeStep, ControlStep, LedgerStep, BestStep, ExitStep, CatalogStep DEF IInv

\* The inductive invariant holds in every reachable state of every session:
\* the control, ledger, best-configuration, exit and catalog facts the safety
\* properties of TuneEngine.run rest on.
THEOREM Invariance == Spec => []IInv
  BY IInvInit, IInvStep, PTL DEF Spec

\* Type correctness of the session's state.
THEOREM TypeCorrect == Spec => []TypeOK
  <1>1. IInv => TypeOK
        BY DEF IInv
  <1> QED BY <1>1, Invariance, PTL

\* Whatever commands fail and wherever the session is cut off, the host differs
\* from what the ledger and the group under way say only at keys where a failed
\* command or a doubled recipe key is to blame.
THEOREM HostIsAccounted == Spec => []HostAccounted
  <1>1. IInv => HostAccounted
        BY DEF IInv, Ledger
  <1> QED BY <1>1, Invariance, PTL

\* The rollback command of a change always brings back the value its key had
\* before its group, and for a key never retuned the baseline.
THEOREM RollbackIsExact == Spec => []UndoIsExact
  <1>1. IInv => UndoIsExact
        BY DEF IInv, Ledger
  <1> QED BY <1>1, Invariance, PTL

\* An accepted group is benchmarked and kept as one and the same configuration,
\* attribution in between or not.
THEOREM AcceptedIsMeasured == Spec => []AcceptedAsMeasured
  <1>1. IInv => AcceptedAsMeasured
    <2> SUFFICES ASSUME IInv, pc = "decide", verdict = "accept",
                        NEW k \in Keys, Sound(k)
                 PROVE  host[k] = measured[k]
        BY DEF AcceptedAsMeasured
    <2>1. ~reverted /\ (active[k] # None \/ k \notin retuned)
          BY DEF IInv, Control, OutcomeFits, GroupInPlace, Ledger, RetunedAreActive,
                 BatchStages, ActiveKeys
    <2>2. host[k] = Expected(k) /\ measured[k] = Intended(k)
          BY <2>1 DEF IInv, Ledger, HostAccounted, MeasuredIsIntended
    <2> QED BY <2>1, <2>2 DEF Expected
  <1> QED BY <1>1, Invariance, PTL

\* What a session that ends leaves on the host: with no best configuration the
\* baseline, with one the configuration that was measured best, but for keys
\* that were retuned or whose commands failed.
THEOREM ExitRestores == Spec => []ExitGuarantee
  <1>1. IInv => ExitGuarantee
    <2> SUFFICES ASSUME IInv, pc = "done", NEW k \in Keys, Sound(k)
                 PROVE  /\ k \notin retuned =>
                             host[k] = IF HasBest THEN bestHost[k] ELSE Baseline[k]
                        /\ best.values[k] # None /\ SourceRecords(k) # {}
                             => host[k] = best.values[k]
        BY DEF ExitGuarantee
    <2>1. stage = "exit" /\ pending[k] = None /\ ~reverted
          BY DEF IInv, Control, ExitReached, GroupInPlace, NoEntries
    <2>2. active[k] # None \/ k \notin retuned
            => host[k] = IF active[k] = None THEN Baseline[k] ELSE active[k].applied
          BY <2>1 DEF IInv, Ledger, HostAccounted, Expected, Intended, Committed
    <2>3. active[k] # None => best.values[k] # None
          BY DEF IInv, ExitProgress, ActiveKeys
    <2>4. k \notin retuned => host[k] = IF HasBest THEN bestHost[k] ELSE Baseline[k]
          BY <2>2, <2>3 DEF IInv, Best, BestAsMeasured, BestStillActive, NoEntries
    <2>5. best.values[k] # None /\ SourceRecords(k) # {} => host[k] = best.values[k]
          BY <2>2 DEF IInv, ExitProgress
    <2> QED BY <2>4, <2>5
  <1> QED BY <1>1, Invariance, PTL

\* The no-op check of an iteration reads the host's configuration as it is,
\* except for keys that were retuned.
THEOREM CatalogIsCurrent == Spec => []CatalogCurrent
  <1>1. IInv => CatalogCurrent
    <2> SUFFICES ASSUME IInv, pc = "apply", stage = "loop", AppliedKeys = {},
                        NEW k \in Keys, Sound(k), k \notin retuned
                 PROVE  catalog[k] = host[k]
        BY DEF CatalogCurrent
    <2>1. ~Batching /\ ~reverted /\ pending[k] = None
          BY DEF IInv, Control, OutcomeFits, Batching, BatchStages, AppliedKeys
    <2>2. catalog[k] = Committed(k)
          BY <2>1 DEF IInv, CatalogAsBuilt, InCommitted, ActiveKeys
    <2>3. host[k] = Committed(k)
          BY <2>1 DEF IInv, Ledger, HostAccounted, Expected, Intended
    <2> QED BY <2>2, <2>3
  <1> QED BY <1>1, Invariance, PTL

-----------------------------------------------------------------------------
(* The contract.                                                           *)

\* A session starts as the contract does: nothing tried, the baseline standing.
LEMMA ContractInit == Init => Contract!Init
  BY DEF Init, Contract!Init, Group, BestConf, Mode, Committed, NoEntries, AppliedKeys, Contract!NoGroup

\* Each step of a session is one the contract allows, or changes nothing in it.
LEMMA ContractStep == IInv /\ IInv' /\ [Next]_vars => [Contract!Next]_Contract!vars
  <1> SUFFICES ASSUME IInv, IInv', [Next]_vars PROVE [Contract!Next]_Contract!vars
      OBVIOUS
  <1> DEFINE CNext == [Contract!Next]_Contract!vars
  <1> USE DEF IInv, TypeOK, Entry, Change, Control, GroupInPlace, OutcomeFits, ExitReached,
              Attributing, BatchStages, Stages, Batching, AppliedKeys, ActiveKeys
  <1>1. CASE SkipStage
        BY <1>1 DEF SkipStage, Advance, StageAfter, NoEntries,
                    Contract!vars, Committed, Group, BestConf, Mode
  <1>2. ASSUME NEW k \in Keys, NEW v \in Values, WarmStart(k, v) PROVE CNext
    <2>1. CASE active' = active
          BY <1>2, <2>1 DEF WarmStart, Contract!vars, Committed, Group, BestConf, Mode
    <2>2. CASE active' = [active EXCEPT ![k] = Applied(k, v)]
      <3>0. Applied(k, v) \in Change /\ Applied(k, v) # None /\ Applied(k, v).applied = v
            BY DEF Applied
      <3>1. [j \in Keys |-> Committed(j)]' = [[j \in Keys |-> Committed(j)] EXCEPT ![k] = v]
            BY <1>2, <2>2, <3>0 DEF WarmStart, Committed, NoEntries
      <3>2. Mode = "open" /\ Mode' = "open"
            BY <1>2 DEF WarmStart, NoEntries, Mode
      <3>3. Contract!Preload(k, v)
            BY <1>2, <3>1, <3>2 DEF WarmStart, Contract!Preload, Group, BestConf
      <3> QED BY <3>3 DEF Contract!Next
    <2> QED BY <1>2, <2>1, <2>2 DEF WarmStart
  <1>3. ASSUME NEW w \in Hypotheses, StartBatch(w) PROVE CNext
        BY <1>3 DEF StartBatch, Contract!vars, Committed, Group, BestConf, Mode
  <1>4. ASSUME NEW p \in Keys, NEW w \in Hypotheses, Propose(p, w) PROVE CNext
        BY <1>4 DEF Propose, Contract!vars, Committed, Group, BestConf, Mode
  <1>5. CASE SkipIteration
        BY <1>5 DEF SkipIteration, Contract!vars, Committed, Group, BestConf, Mode
  <1>6. ASSUME NEW k \in Keys, NEW v \in Values, ApplySucceeds(k, v) PROVE CNext
    <2>0. Applied(k, v) \in Change /\ Applied(k, v) # None /\ Applied(k, v).applied = v
          BY DEF Applied
    <2>1. Group' = [Group EXCEPT ![k] = v]
          BY <1>6, <2>0 DEF ApplySucceeds, Group
    <2>2. [j \in Keys |-> Committed(j)]' = [j \in Keys |-> Committed(j)]
          BY <1>6 DEF ApplySucceeds, Applied, Committed, Ledger, BatchInLedger
    <2>3. Mode \in {"open", "trying"} /\ Mode' = "trying"
          BY <1>6 DEF ApplySucceeds, Applied, Mode
    <2>4. Contract!Try(k, v)
          BY <1>6, <2>1, <2>2, <2>3 DEF ApplySucceeds, Contract!Try, BestConf
    <2> QED BY <2>4 DEF Contract!Next
  <1>7. ASSUME NEW k \in Keys, NEW v \in Values, ApplyFails(k, v) PROVE CNext
    <2>1. CASE Batching
          BY <1>7, <2>1 DEF ApplyFails, Contract!vars, Committed, Group, BestConf, Mode
    <2>2. CASE ~Batching
      <3>1. Contract!GiveUp
            BY <1>7, <2>2 DEF ApplyFails, Contract!GiveUp, Committed, Group, BestConf, Mode
      <3> QED BY <3>1 DEF Contract!Next
    <2> QED BY <2>1, <2>2
  <1>8. CASE NothingApplied
        BY <1>8 DEF NothingApplied, Advance, Contract!vars, Committed, Group, BestConf, Mode
  <1>9. CASE Validate
    <2>1. CASE pc' = "bench"
          BY <1>9, <2>1 DEF Validate, Contract!vars, Committed, Group, BestConf, Mode
    <2>2. CASE pc' = "undo"
      <3>1. Contract!GiveUp
            BY <1>9, <2>2 DEF Validate, Contract!GiveUp, Committed, Group, BestConf, Mode
      <3> QED BY <3>1 DEF Contract!Next
    <2> QED BY <1>9, <2>1, <2>2 DEF Validate
  <1>10. ASSUME NEW d \in Verdicts, NEW s \in 0..MaxScore, Evaluate(d, s) PROVE CNext
        BY <1>10 DEF Evaluate, Contract!vars, Committed, Group, BestConf, Mode
  <1>11. CASE MarginalGain
        BY <1>11 DEF MarginalGain, Contract!vars, Committed, Group, BestConf, Mode
  <1>12. CASE VerifyRevert
        BY <1>12 DEF VerifyRevert, Contract!vars, Committed, Group, BestConf, Mode
  <1>13. CASE VerifyMeasure
        BY <1>13 DEF VerifyMeasure, Contract!vars, Committed, Group, BestConf, Mode
  <1>14. CASE VerifyReapply
        BY <1>14 DEF VerifyReapply, Contract!vars, Committed, Group, BestConf, Mode
  <1>15. CASE Keep
    <2>1. pending' = NoEntries /\ pc' = "idle"
          BY <1>15 DEF Keep, EndGroup, Advance
    <2>2. Group' = Contract!NoGroup /\ Mode' = "open"
          BY <2>1 DEF Group, Contract!NoGroup, NoEntries, Mode
    <2>3. Mode = "trying"
          BY <1>15 DEF Keep, Mode, PrimaryApplied
    <2>4. [j \in Keys |-> Committed(j)]' = [j \in Keys |-> IF active'[j] = None THEN Baseline[j]
                                                                    ELSE active'[j].applied]
          BY <2>1 DEF Committed, NoEntries
    <2>5. [j \in Keys |-> Committed(j)]'
            = [j \in Keys |-> IF Group[j] = None THEN Committed(j) ELSE Group[j]]
          BY <1>15, <2>4 DEF Keep, Committed, Group
    <2>6. BestConf' \in {BestConf, [j \in Keys |-> Committed(j)]'}
          BY <1>15, <2>4 DEF Keep, RecordIteration, BestConf
    <2>7. Contract!Commit
          BY <2>2, <2>3, <2>5, <2>6 DEF Contract!Commit
    <2> QED BY <2>7 DEF Contract!Next
  <1>16. CASE StartUndo
    <2>1. Contract!GiveUp
          BY <1>16 DEF StartUndo, Contract!GiveUp, PrimaryApplied, Committed, Group, BestConf, Mode
    <2> QED BY <2>1 DEF Contract!Next
  <1>17. ASSUME NEW k \in Keys, Undo(k) PROVE CNext
    <2>1. [j \in Keys |-> Committed(j)]' = [j \in Keys |-> Committed(j)]
          BY <1>17 DEF Undo, Committed, Ledger, BatchInLedger
    <2>2. Group' = [Group EXCEPT ![k] = None]
          BY <1>17 DEF Undo, Group
    <2>3. Contract!Discard(k)
          BY <1>17, <2>1, <2>2 DEF Undo, Contract!Discard, BestConf, Mode
    <2> QED BY <2>3 DEF Contract!Next
  <1>18. CASE UndoDone
    <2>1. \A j \in Keys : pending[j] = None
          BY <1>18 DEF UndoDone
    <2>2. Group = Contract!NoGroup /\ Mode = "discarding"
          BY <1>18, <2>1 DEF UndoDone, Group, Contract!NoGroup, Mode
    <2>3. UNCHANGED <<active, pending, best>>
          BY <1>18 DEF UndoDone, RecordIteration
    <2>4. Mode' = "open"
          BY <1>18, <2>1, <2>3 DEF UndoDone, EndGroup, Advance, Mode
    <2>5. [j \in Keys |-> Committed(j)]' = [j \in Keys |-> Committed(j)]
          BY <2>1, <2>3 DEF Committed
    <2>6. Contract!Discarded
          BY <2>2, <2>3, <2>4, <2>5 DEF Contract!Discarded, Group, BestConf
    <2> QED BY <2>6 DEF Contract!Next
  <1>19. CASE Stop
    <2>1. Contract!Finish
          BY <1>19 DEF Stop, Contract!Finish, NoEntries, Committed, Group, BestConf, Mode
    <2> QED BY <2>1 DEF Contract!Next
  <1>20. ASSUME NEW k \in Keys, ExitUndo(k) PROVE CNext
    <2>1. best.values[k] = None /\ ~Batching /\ ~Batching'
          BY <1>20 DEF ExitUndo
    <2>2. [j \in Keys |-> Committed(j)]' = [[j \in Keys |-> Committed(j)] EXCEPT ![k] = BestConf[k]]
          BY <1>20, <2>1 DEF ExitUndo, Committed, BestConf
    <2>3. Contract!Restore(k)
          BY <1>20, <2>2 DEF ExitUndo, Contract!Restore, Group, BestConf, Mode
    <2> QED BY <2>3 DEF Contract!Next
  <1>21. ASSUME NEW k \in Keys, ExitApply(k) PROVE CNext
    <2>1. CASE active' = active
          BY <1>21, <2>1 DEF ExitApply, Contract!vars, Committed, Group, BestConf, Mode
    <2>2. ASSUME NEW r \in SourceRecords(k), active' = [active EXCEPT ![k] = r.change] PROVE CNext
      <3>1. r.change \in Change /\ r.change.applied = best.values[k] /\ best.values[k] # None
            BY <1>21, <2>2 DEF ExitApply, SourceRecords
      <3>2. [j \in Keys |-> Committed(j)]' = [[j \in Keys |-> Committed(j)] EXCEPT ![k] = BestConf[k]]
            BY <1>21, <2>2, <3>1 DEF ExitApply, Committed, BestConf
      <3>3. Contract!Restore(k)
            BY <1>21, <3>2 DEF ExitApply, Contract!Restore, Group, BestConf, Mode
      <3> QED BY <3>3 DEF Contract!Next
    <2> QED BY <1>21, <2>1, <2>2 DEF ExitApply
  <1>22. CASE ExitUndoDone
    <2>1. CASE HasBest
          BY <1>22, <2>1 DEF ExitUndoDone, Contract!vars, Committed, Group, BestConf, Mode
    <2>2. CASE ~HasBest
      <3>1. Contract!Close
            BY <1>22, <2>2 DEF ExitUndoDone, Contract!Close, Committed, Group, BestConf, Mode
      <3> QED BY <3>1 DEF Contract!Next
    <2> QED BY <2>1, <2>2
  <1>23. CASE ExitDone
    <2>1. Contract!Close
          BY <1>23 DEF ExitDone, Contract!Close, Committed, Group, BestConf, Mode
    <2> QED BY <2>1 DEF Contract!Next
  <1>24. CASE Abort
    <2>1. Contract!Cut
          BY <1>24 DEF Abort, Contract!Cut, Committed, Group, BestConf, Mode
    <2> QED BY <2>1 DEF Contract!Next
  <1>25. CASE UNCHANGED vars
        BY <1>25 DEF vars, Contract!vars, Committed, Group, BestConf, Mode
  <1> QED
      BY <1>1, <1>2, <1>3, <1>4, <1>5, <1>6, <1>7, <1>8, <1>9, <1>10, <1>11, <1>12, <1>13,
         <1>14, <1>15, <1>16, <1>17, <1>18, <1>19, <1>20, <1>21, <1>22, <1>23, <1>24, <1>25
      DEF Next

\* A tuning session implements the contract, for any keys, values and bounds.
THEOREM SessionKeepsContract == Spec => KeepsContract
  BY ContractInit, ContractStep, Invariance, PTL DEF Spec, KeepsContract, Contract!Spec
=============================================================================
