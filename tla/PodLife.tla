-------------------------------- MODULE PodLife --------------------------------
(***************************************************************************)
(* What the control plane promises the watchers of one set of pod names:   *)
(* pods under a name follow each other, never overlap and never come back, *)
(* and each goes forward through its stages.  Deletion is announced, stays *)
(* announced, can be seen for a while, and keeps a pod that is not running *)
(* from starting.                                                          *)
(***************************************************************************)
EXTENDS Naturals

CONSTANT Names

VARIABLE life   \* per name: which pod this is, its stage, and its deletion

Stages == {"absent", "pending", "bound", "running"}

Init ==
  life = [n \in Names |-> [number |-> 0, stage |-> "absent",
                           terminating |-> FALSE, seen |-> FALSE]]

\* The pod of name n goes from one stage to another.
Advance(n, from, to) ==
  /\ life[n].stage = from
  /\ life' = [life EXCEPT ![n].stage = to]

Create(n) ==
  /\ life[n].stage = "absent"
  /\ life' = [life EXCEPT ![n].number = @ + 1, ![n].stage = "pending"]

Bind(n) == Advance(n, "pending", "bound")
Start(n) == ~life[n].terminating /\ Advance(n, "bound", "running")

Terminate(n) ==
  /\ life[n].stage # "absent"
  /\ ~life[n].terminating
  /\ life' = [life EXCEPT ![n].terminating = TRUE]

\* It has been shown as terminating for long enough.
BeSeen(n) ==
  /\ life[n].terminating
  /\ life' = [life EXCEPT ![n].seen = TRUE]

Remove(n) ==
  /\ life[n].seen
  /\ life' = [life EXCEPT ![n].stage = "absent", ![n].terminating = FALSE,
                          ![n].seen = FALSE]

Next ==
  \E n \in Names :
    Create(n) \/ Bind(n) \/ Start(n) \/ Terminate(n) \/ BeSeen(n) \/ Remove(n)

Spec == Init /\ [][Next]_life

================================================================================
