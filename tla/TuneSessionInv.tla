--------------------------- MODULE TuneSessionInv ---------------------------
(***************************************************************************)
(* The inductive invariant of TuneSession, in the layers its proof follows: *)
(* where control can be, what the ledger says of the host, what the best    *)
(* configuration says of the ledger, and what is left to do at exit.        *)
(***************************************************************************)
EXTENDS TuneSession

Attributing == {"verify", "measure", "reapply"}

\* Control: what each step of the thread can count on, and where the group
\* under way is empty, has a primary change, or is being undone.
PrimaryApplied ==
  /\ pc = "apply" /\ AppliedKeys # {} => pending[primary] # None
  /\ pc \in {"bench", "decide"} \cup Attributing => lead = pending[primary] /\ lead # None
  /\ pc = "undo" /\ verdict # "not_applied" => lead # None

GroupInPlace ==
  /\ pc \in {"idle", "exit_undo", "exit_apply", "done"} => pending = NoEntries
  /\ pc = "undo" => undo = AppliedKeys
  /\ pc \in {"apply", "bench", "decide", "undo"} => stage \in BatchStages \cup {"loop"}
  /\ pc \in Attributing => stage = "loop"
  /\ stage = "exit" => pending = NoEntries /\ ~reverted

OutcomeFits ==
  /\ reverted => \/ pc \in {"measure", "reapply", "undo", "aborted"}
                 \/ pc = "decide" /\ verdict = "unverified"
  /\ pc \in {"measure", "reapply"} => reverted
  /\ verdict = "unverified" => stage = "loop" /\ pc \in {"decide", "undo", "aborted"}
  /\ pc = "undo" => verdict # "accept"

ExitReached ==
  /\ pc \in {"exit_undo", "exit_apply", "done"} => stage = "exit"
  /\ stage = "exit" => pc \in {"exit_undo", "exit_apply", "done", "aborted"}
  /\ pc = "exit_undo" => undo = {k \in ActiveKeys : best.values[k] = None}
  /\ pc = "exit_apply" => \A k \in undo :
       best.values[k] # None /\ (active[k] = None \/ active[k].applied # best.values[k])

IterationCounted ==
  stage = "loop" /\ pc \in {"apply", "bench", "decide", "undo"} \cup Attributing
    => iterations < MaxIterations

Control == PrimaryApplied /\ GroupInPlace /\ OutcomeFits /\ ExitReached /\ IterationCounted

\* Ledger: the properties of TuneSession, and the facts about batches and
\* retuned keys without which they are not inductive.
RetunedAreActive ==
  /\ stage \notin {"loop", "exit"} => retuned = {}
  /\ stage = "loop" => retuned \subseteq ActiveKeys

BatchInLedger ==
  Batching => /\ \A k \in Keys : pending[k] # None => active[k] = pending[k]
              /\ pc = "apply" => \A h \in wanted : active[h[1]] = None \/ pending[h[1]] # None

MeasuredIsIntended ==
  pc \in {"decide"} \cup Attributing => \A k \in Keys : Sound(k) => measured[k] = Intended(k)

Ledger ==
  HostAccounted /\ UndoIsExact /\ RetunedAreActive /\ BatchInLedger /\ MeasuredIsIntended

\* Best configuration: its values are those its host was measured with, and
\* only a later change of the same key can replace them in the ledger.
BestAsMeasured ==
  IF HasBest
  THEN \A k \in Keys : Sound(k) /\ k \notin retuned =>
         bestHost[k] = IF best.values[k] = None THEN Baseline[k] ELSE best.values[k]
  ELSE best.values = NoEntries

BestStillActive ==
  \A k \in Keys : best.values[k] # None =>
    /\ k \notin retuned => active[k] # None /\ active[k].applied = best.values[k]
    /\ Batching => pending[k] = None

Best == BestAsMeasured /\ BestStillActive

\* Exit: what has been brought back so far.
ExitProgress ==
  /\ pc \in {"exit_apply", "done"} =>
       /\ \A k \in ActiveKeys : best.values[k] # None
       /\ \A k \in Keys : /\ Sound(k) /\ best.values[k] # None /\ SourceRecords(k) # {}
                          /\ pc = "done" \/ k \notin undo
            => active[k] # None /\ active[k].applied = best.values[k]

\* Catalog: it shows the committed value of every key that has not been
\* activated since it was built, nor retuned.
InCommitted(k) == active[k] # None /\ ~(Batching /\ pending[k] # None)

CatalogAsBuilt ==
  /\ stage \notin {"loop", "exit"} => catalogKeys = {}
  /\ stage = "loop" /\ pc \in {"apply", "bench", "decide", "undo"} \cup Attributing
       => catalogKeys = ActiveKeys
  /\ stage # "exit" => \A k \in Keys :
       Sound(k) /\ k \notin retuned /\ (InCommitted(k) <=> k \in catalogKeys)
         => catalog[k] = Committed(k)

\* The inductive invariant: in every state of run(), an interrupted one included,
\* control, ledger, best configuration, exit progress and catalog fit together.
IInv == TypeOK /\ Control /\ Ledger /\ Best /\ ExitProgress /\ CatalogAsBuilt
=============================================================================
