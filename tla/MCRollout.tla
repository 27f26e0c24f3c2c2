------------------------------- MODULE MCRollout -------------------------------
(* Values of spec.strategy for module Rollout. *)
EXTENDS Rollout

Percent(n) == [percent |-> TRUE, n |-> n]
Count(n) == [percent |-> FALSE, n |-> n]
Rolling(surge, unavailable) ==
  [type |-> "RollingUpdate", surge |-> surge, unavailable |-> unavailable]

ByDefault == Rolling(Percent(25), Percent(25))
InPlace == Rolling(Count(0), Count(1))

\* Both limits come out as zero, and the code makes the surge one.
Stuck == Rolling(Count(0), Percent(25))
Recreate == [ByDefault EXCEPT !.type = "Recreate"]

RollingStrategies == {ByDefault, InPlace}
AllStrategies == {ByDefault, InPlace, Stuck, Recreate}
===============================================================================
