----------------------------- MODULE TuneBudget -----------------------------
(***************************************************************************)
(* How TuneState.initialize divides max_iterations among the phases.       *)
(***************************************************************************)
EXTENDS TunePhases

\* Python's round(a / b): half to even.
Round(a, b) ==
  LET q == a \div b
      r == 2 * (a % b)
  IN IF r > b \/ (r = b /\ q % 2 = 1) THEN q + 1 ELSE q

AtLeast(n, m) == IF n < m THEN m ELSE n

\* The phases as TunePhase lists them: PHASE_SEQUENCE, then the unified ones.
NoBudget == [p \in Phases |-> 0]

Seeds == [p \in Phases |->
  CASE p = "knowledge_driven" -> 3
    [] p \in {"wide_sweep", "domain_focus", "exploit"} -> 2
    [] p \in {"interaction", "boundary_push", "reboot_batch"} -> 1
    [] OTHER -> 0]

\* Take one away from each phase that has more than one, in order and again
\* from the start, until the rest of the budget is n.
RECURSIVE Trim(_, _, _)
Trim(b, n, i) ==
  IF Allowance(b) <= n THEN b
  ELSE LET p == PHASE_SEQUENCE[i]
       IN Trim([b EXCEPT ![p] = IF @ > 1 THEN @ - 1 ELSE @], n, (i % 7) + 1)

\* What is missing goes to EXPLOIT.
Pad(b, n) == [b EXCEPT !["exploit"] = @ + AtLeast(n - Allowance(b), 0)]

\* Below nine the first n phases get an iteration each, RESOLVE being the eighth.
LegacyBudget(n) ==
  IF n < 9
  THEN [p \in Phases |-> IF \/ \E i \in 1..7 : i <= n /\ PHASE_SEQUENCE[i] = p
                            \/ n = 8 /\ p = "resolve"
                         THEN 1 ELSE 0]
  ELSE LET seeded == [p \in Phases |-> IF Seeds[p] = 0 THEN 0
                                       ELSE AtLeast(Round(n * Seeds[p], 12), 1)]
       IN Pad(Trim(seeded, n, 1), n)

UnifiedBudget(n, reboot) ==
  LET exploits == AtLeast(Round(3 * n, 10), 1)
      reboots == IF n > 3 /\ reboot THEN Round(n, 5) ELSE 0
  IN IF n = 0 THEN NoBudget
     ELSE IF n = 1 THEN [NoBudget EXCEPT !["resolve"] = 1, !["optimize"] = 1]
     ELSE [NoBudget EXCEPT !["resolve"] = n, !["exploit"] = exploits,
                           !["reboot_batch"] = reboots,
                           !["optimize"] = n - exploits - reboots]

\* A session's policy and the budget it starts with.
Session(unified, reboot, n) ==
  [unified |-> unified, reboot |-> reboot, limit |-> n,
   budget |-> IF unified THEN UnifiedBudget(n, reboot) ELSE LegacyBudget(n)]
=============================================================================
