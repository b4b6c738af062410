--------------------------- MODULE MCHostAppliers ---------------------------
(* Instances of HostAppliers: hosts a session may find.                     *)
EXTENDS HostAppliers

CONSTANT DirectiveMode

MCMode == [directive |-> DirectiveMode, unit |-> "restart", quota |-> "restart"]

\* A running service: the file is loaded, its process has the unit's limit.
Found(conf, base, other, quota, governor) ==
  LET limit == IF other = None THEN base ELSE other
  IN [sysctl |-> 1, ring |-> 1, queue |-> 1, governor |-> governor,
      conf |-> conf, run |-> Last(conf),
      base |-> base, other |-> other, zz |-> None, loaded |-> limit,
      quota |-> quota, up |-> TRUE, pid |-> 1, plim |-> limit, soft |-> limit, hard |-> limit]

Even == [c \in CPUs |-> 1]

PlainHost == {Found(<<1>>, 1, None, Inf, Even)}
OddHosts == {Found(<<>>, Inf, None, 1, Even), Found(<<1, 2>>, Inf, Inf, 2, [Even EXCEPT ![1] = 2]),
             Found(<<1>>, Inf, 1, Inf, Even)}
\* A file without the directive: hosttune inserts it.
AbsentDirective == {Found(<<>>, 1, None, Inf, Even)}

MCHosts == PlainHost \cup OddHosts
=============================================================================
