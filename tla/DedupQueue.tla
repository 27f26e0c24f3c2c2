------------------------------ MODULE DedupQueue ------------------------------
(***************************************************************************)
(* What a controller relies on when it hands a key to its work queue, with *)
(* no timers, batches or callbacks: a key that was requested is pending    *)
(* until the handler takes it, the handler only takes pending keys, and    *)
(* only while the queue is switched on.  Handlers nest; one that returns   *)
(* may ask for another visit of its key, and changes nothing else.         *)
(* Switching off may forget keys (the delayed ones), nothing else may.     *)
(***************************************************************************)
EXTENDS Sequences

CONSTANT Keys

VARIABLES
  pending,   \* the keys the handler still owes a visit
  stack,     \* the keys whose handlers have been entered, innermost first
  on         \* isRunning()

vars == <<pending, stack, on>>

Init ==
  /\ pending = {}
  /\ stack = << >>
  /\ on = FALSE

\* A caller asks for key k.
Request(k) ==
  /\ pending' = pending \cup {k}
  /\ UNCHANGED <<stack, on>>

\* The handler is entered for key k.
Take(k) ==
  /\ on
  /\ k \in pending
  /\ pending' = pending \ {k}
  /\ stack' = <<k>> \o stack
  /\ UNCHANGED on

\* The innermost handler returns, done or asking for a retry.
Return ==
  /\ stack # << >>
  /\ pending' = pending \/ pending' = pending \cup {Head(stack)}
  /\ stack' = Tail(stack)
  /\ UNCHANGED on

SwitchOn ==
  /\ on' = TRUE
  /\ UNCHANGED <<pending, stack>>

SwitchOff ==
  /\ on' = FALSE
  /\ pending' \subseteq pending
  /\ UNCHANGED stack

Next ==
  \/ \E k \in Keys : Request(k) \/ Take(k)
  \/ Return
  \/ SwitchOn
  \/ SwitchOff

Spec == Init /\ [][Next]_vars

===============================================================================
