------------------------------- MODULE WorkQueue -------------------------------
(***************************************************************************)
(* createWorkQueue of control-plane/controller-runtime/WorkQueue.ts: the   *)
(* deduplicating FIFO every controller of the simulator reconciles from.   *)
(*                                                                         *)
(* JavaScript runs one call stack to completion, so what interleaves here  *)
(* are whole callbacks, except that the handler is foreign code: while it  *)
(* runs it may call back into add, retry, stop and start.  A handler is    *)
(* therefore two steps (it is entered, it returns) and any API call may    *)
(* come between them.  At most two handlers are on the stack at once:      *)
(* tickKey is the one processNext called from a timer, batchKey the one    *)
(* the immediate loop of scheduleProcess called, possibly from inside the  *)
(* first.                                                                  *)
(*                                                                         *)
(* Time is the number of ticks a delayed key still has to wait; a timer    *)
(* whose wait is 0 may fire, and may be late.                              *)
(***************************************************************************)
EXTENDS Naturals, Sequences

CONSTANTS
  Keys,                \* resource keys, "namespace/name"
  None,                \* no key / not delayed
  ProcessImmediately,  \* processDelay <= 0 and no requestAnimationFrame
  MaxBatch,            \* maxImmediateBatchSize
  Delays,              \* positive afterMs / requeueAfterMs values, in ticks
  RetryBaseDelay, RetryMaxDelay,
  RetryMaxAttempts,    \* 0 when the option is undefined (unlimited)
  AttemptBound         \* bound of the model: failures counted per key

RetryDelay(n) ==
  LET exponential == RetryBaseDelay * 2^(n - 1)
  IN  IF exponential < RetryMaxDelay THEN exponential ELSE RetryMaxDelay

ASSUME KeysAssumption == None \notin Keys /\ None \notin Nat
ASSUME ModeAssumption == ProcessImmediately \in BOOLEAN
ASSUME BatchAssumption == MaxBatch \in Nat \ {0}
ASSUME DelaysAssumption == Delays \subseteq Nat \ {0}
ASSUME AttemptsAssumption == RetryMaxAttempts \in Nat /\ AttemptBound \in Nat
\* Backoff is never immediate (base and maximum are positive options).
ASSUME BackoffAssumption == \A n \in 1..AttemptBound : RetryDelay(n) \in Nat \ {0}

VARIABLES
  queue,       \* the Set of runnable keys, in insertion order
  delayed,     \* per key: ticks until its delayed timer is due, or None
  attempts,    \* retryAttemptsByKey, 0 when absent
  running,
  timeoutSet,  \* timeoutId (or rafId) is not null
  callbacks,   \* processNext callbacks the event loop still holds
  processing,  \* processingImmediate: the immediate loop is on the stack
  batchKey,    \* key whose handler that loop is inside of, or None
  batchCount,  \* processedCount of that loop
  tickKey      \* key whose handler processNext is inside of, or None

vars == <<queue, delayed, attempts, running, timeoutSet, callbacks,
          processing, batchKey, batchCount, tickKey>>

Init ==
  /\ queue = << >>
  /\ delayed = [k \in Keys |-> None]
  /\ attempts = [k \in Keys |-> 0]
  /\ running = FALSE
  /\ timeoutSet = FALSE
  /\ callbacks = 0
  /\ processing = FALSE
  /\ batchKey = None
  /\ batchCount = 0
  /\ tickKey = None

-------------------------------------------------------------------------------
(* Pure parts *)

Queued == {queue[i] : i \in DOMAIN queue}

\* Mutant of WithKey: the queue is an array.
WithKeyAgain(k) == Append(queue, k)

\* queue.add(key) on a Set
WithKey(k) == IF k \in Queued THEN queue ELSE Append(queue, k)

\* The call stack is empty: only then does the event loop run a callback.
EventLoopIdle == ~processing /\ tickKey = None

\* Code that is not the queue's own is running, or may be called: a handler is
\* on top of the stack, or nothing is.
CallerMayRun == processing => batchKey # None

\* scheduleProcess with the queue and running flag it finds (q, r)
ScheduleProcess(q, r) ==
  LET wake  == r /\ q # << >>
      loops == wake /\ ProcessImmediately /\ ~processing
      arms  == wake /\ ~ProcessImmediately /\ ~timeoutSet
  IN  /\ processing' = (processing \/ loops)
      /\ batchCount' = IF loops THEN 0 ELSE batchCount
      /\ timeoutSet' = (timeoutSet \/ arms)
      /\ callbacks' = IF arms THEN callbacks + 1 ELSE callbacks

NoSchedule ==
  UNCHANGED <<processing, batchCount, timeoutSet, callbacks>>

\* enqueueKey with afterMs = 0, and the body of a delayed timer: both run the
\* queue only when the key is the only one.
MakeRunnable(k) ==
  /\ queue' = WithKey(k)
  /\ delayed' = [delayed EXCEPT ![k] = None]
  /\ IF running /\ Len(queue') = 1 THEN ScheduleProcess(queue', running)
                                   ELSE NoSchedule

\* Mutant of Delay: the last request wins, as scheduleDelayed alone would.
DelayLastWins(k, d) ==
  delayed' = IF k \in Queued THEN delayed ELSE [delayed EXCEPT ![k] = d]

\* enqueueKey with afterMs = d > 0: never later than already promised
Delay(k, d) ==
  delayed' = IF \/ k \in Queued
                \/ delayed[k] # None /\ delayed[k] <= d
             THEN delayed
             ELSE [delayed EXCEPT ![k] = d]

\* retryKey
RetryKey(k) ==
  LET n == attempts[k] + 1
  IN  IF RetryMaxAttempts > 0 /\ n > RetryMaxAttempts
      THEN UNCHANGED <<attempts, delayed>>
      ELSE /\ n <= AttemptBound
           /\ attempts' = [attempts EXCEPT ![k] = n]
           /\ Delay(k, RetryDelay(n))

\* The tail of processOne for the handler's result: nothing, requeueAfterMs, or
\* a failure (retry = true, or an exception).
HandlerResult(k) ==
  \/ /\ attempts' = [attempts EXCEPT ![k] = 0]
     /\ UNCHANGED delayed
  \/ \E d \in Delays : Delay(k, d) /\ UNCHANGED attempts
  \/ RetryKey(k)

-------------------------------------------------------------------------------
(* API calls, from the event loop or from inside a handler *)

\* add, and addWithOptions without a delay
Add(k) ==
  /\ CallerMayRun
  /\ MakeRunnable(k)
  /\ UNCHANGED <<attempts, running, batchKey, tickKey>>

\* addWithOptions with resetRetry = true
AddResetRetry(k) ==
  /\ CallerMayRun
  /\ MakeRunnable(k)
  /\ attempts' = [attempts EXCEPT ![k] = 0]
  /\ UNCHANGED <<running, batchKey, tickKey>>

\* addWithOptions with afterMs, and with resetRetry or without
AddAfter(k, d) ==
  /\ CallerMayRun
  /\ Delay(k, d)
  /\ attempts' = attempts \/ attempts' = [attempts EXCEPT ![k] = 0]
  /\ UNCHANGED <<queue, running, batchKey, tickKey>>
  /\ NoSchedule

\* retry
Retry(k) ==
  /\ CallerMayRun
  /\ RetryKey(k)
  /\ UNCHANGED <<queue, running, batchKey, tickKey>>
  /\ NoSchedule

Start ==
  /\ CallerMayRun
  /\ running' = TRUE
  /\ ScheduleProcess(queue, TRUE)
  /\ UNCHANGED <<queue, delayed, attempts, batchKey, tickKey>>

\* stop cancels the pending callback and every delayed key, and keeps the queue
Stop ==
  /\ CallerMayRun
  /\ running' = FALSE
  /\ timeoutSet' = FALSE
  /\ callbacks' = IF timeoutSet THEN callbacks - 1 ELSE callbacks
  /\ delayed' = [k \in Keys |-> None]
  /\ UNCHANGED <<queue, attempts, processing, batchKey, batchCount,
                 tickKey>>

-------------------------------------------------------------------------------
(* The immediate loop of scheduleProcess *)

\* One turn of the loop: processOne takes the oldest key and calls the handler.
BatchTake ==
  /\ processing
  /\ batchKey = None
  /\ running
  /\ queue # << >>
  /\ batchCount < MaxBatch
  /\ batchKey' = Head(queue)
  /\ queue' = Tail(queue)
  /\ batchCount' = batchCount + 1
  /\ UNCHANGED <<delayed, attempts, running, timeoutSet, callbacks, processing,
                 tickKey>>

BatchHandlerReturns ==
  /\ batchKey # None
  /\ HandlerResult(batchKey)
  /\ batchKey' = None
  /\ UNCHANGED <<queue, running, timeoutSet, callbacks, processing, batchCount,
                 tickKey>>

\* Mutant of BatchEnd: what is left over is not handed to the event loop.
BatchEndForgets ==
  /\ processing
  /\ batchKey = None
  /\ ~running \/ queue = << >> \/ batchCount >= MaxBatch
  /\ processing' = FALSE
  /\ batchCount' = 0
  /\ UNCHANGED <<queue, delayed, attempts, running, timeoutSet, callbacks,
                 batchKey, tickKey>>

\* Mutant of BatchEnd: a callback is armed on top of a pending one.
BatchEndArmsAgain ==
  /\ processing
  /\ batchKey = None
  /\ ~running \/ queue = << >> \/ batchCount >= MaxBatch
  /\ processing' = FALSE
  /\ batchCount' = 0
  /\ timeoutSet' = (timeoutSet \/ queue # << >>)
  /\ callbacks' = IF queue # << >> THEN callbacks + 1 ELSE callbacks
  /\ UNCHANGED <<queue, delayed, attempts, running, batchKey, tickKey>>

\* The loop is left: queue empty, stopped, or the batch is full.  What is left
\* over is handed to the event loop.
BatchEnd ==
  LET arms == queue # << >> /\ ~timeoutSet
  IN  /\ processing
      /\ batchKey = None
      /\ ~running \/ queue = << >> \/ batchCount >= MaxBatch
      /\ processing' = FALSE
      /\ batchCount' = 0
      /\ timeoutSet' = (timeoutSet \/ arms)
      /\ callbacks' = IF arms THEN callbacks + 1 ELSE callbacks
      /\ UNCHANGED <<queue, delayed, attempts, running, batchKey, tickKey>>

-------------------------------------------------------------------------------
(* Event-loop callbacks *)

\* Mutant of ProcessNext: processOne does not ask whether the queue runs.
ProcessNextStopped ==
  /\ EventLoopIdle
  /\ callbacks > 0
  /\ callbacks' = callbacks - 1
  /\ timeoutSet' = FALSE
  /\ tickKey' = IF queue # << >> THEN Head(queue) ELSE None
  /\ queue' = IF queue # << >> THEN Tail(queue) ELSE queue
  /\ UNCHANGED <<delayed, attempts, running, processing, batchKey,
                 batchCount>>

\* processNext up to the call of the handler; when the queue is stopped or
\* empty processOne returns and so does scheduleProcess.
ProcessNext ==
  LET takes == running /\ queue # << >>
  IN  /\ EventLoopIdle
      /\ callbacks > 0
      /\ callbacks' = callbacks - 1
      /\ timeoutSet' = FALSE
      /\ tickKey' = IF takes THEN Head(queue) ELSE None
      /\ queue' = IF takes THEN Tail(queue) ELSE queue
      /\ UNCHANGED <<delayed, attempts, running, processing, batchKey,
                     batchCount>>

\* The rest of processNext after the handler returns.
TickHandlerReturns ==
  /\ tickKey # None
  /\ ~processing
  /\ HandlerResult(tickKey)
  /\ tickKey' = None
  /\ ScheduleProcess(queue, running)
  /\ UNCHANGED <<queue, running, batchKey>>

\* Mutant of DelayedFires: the timer makes its key runnable, and that is all.
DelayedFiresQuietly(k) ==
  /\ EventLoopIdle
  /\ delayed[k] = 0
  /\ queue' = WithKey(k)
  /\ delayed' = [delayed EXCEPT ![k] = None]
  /\ NoSchedule
  /\ UNCHANGED <<attempts, running, batchKey, tickKey>>

\* The timer of a delayed key fires, whether or not the queue still runs.
DelayedFires(k) ==
  /\ EventLoopIdle
  /\ delayed[k] = 0
  /\ MakeRunnable(k)
  /\ UNCHANGED <<attempts, running, batchKey, tickKey>>

Tick ==
  /\ \E k \in Keys : delayed[k] # None /\ delayed[k] > 0
  /\ delayed' = [k \in Keys |->
                   IF delayed[k] # None /\ delayed[k] > 0 THEN delayed[k] - 1
                                                          ELSE delayed[k]]
  /\ UNCHANGED <<queue, attempts, running, timeoutSet, callbacks, processing,
                 batchKey, batchCount, tickKey>>

ApiCall ==
  \/ \E k \in Keys :
       \/ Add(k)
       \/ AddResetRetry(k)
       \/ \E d \in Delays : AddAfter(k, d)
       \/ Retry(k)
  \/ Start
  \/ Stop

Next ==
  \/ ApiCall
  \/ BatchTake
  \/ BatchHandlerReturns
  \/ BatchEnd
  \/ ProcessNext
  \/ TickHandlerReturns
  \/ \E k \in Keys : DelayedFires(k)
  \/ Tick

Spec == Init /\ [][Next]_vars

(* Synchronous code runs to its end, a handler makes finitely many calls and *)
(* returns, the event loop eventually runs every task that is due however    *)
(* many others it is given (hence SF), and time passes.  Nobody has to call  *)
(* the API.                                                                  *)
Fairness ==
  /\ WF_vars(BatchTake \/ BatchEnd)
  /\ WF_vars(BatchHandlerReturns)
  /\ SF_vars(TickHandlerReturns)
  /\ SF_vars(ProcessNext)
  /\ \A k \in Keys : SF_vars(DelayedFires(k))
  /\ WF_vars(Tick)

FairSpec == Spec /\ Fairness

-------------------------------------------------------------------------------
(* Properties *)

\* The variables have their types, and the runnable keys are a set: the queue
\* holds no key twice (queue.add on a JavaScript Set).
TypeOK ==
  /\ queue \in Seq(Keys)
  /\ \A i, j \in DOMAIN queue : queue[i] = queue[j] => i = j
  /\ delayed \in [Keys -> Nat \cup {None}]
  /\ attempts \in [Keys -> Nat]
  /\ running \in BOOLEAN
  /\ timeoutSet \in BOOLEAN
  /\ callbacks \in Nat
  /\ processing \in BOOLEAN
  /\ batchKey \in Keys \cup {None}
  /\ batchCount \in Nat
  /\ tickKey \in Keys \cup {None}

\* No lost wake-up: a running queue with runnable keys is either working on
\* them right now or has a processNext callback in the event loop.  add and the
\* delayed timers only start work when they find the queue at size 1, so every
\* other way of leaving keys behind (a full batch, stop and start inside a
\* handler, keys added while stopped) has to leave a callback.
NoLostWakeup ==
  running /\ queue # << >> => processing \/ tickKey # None \/ callbacks > 0

\* A key is never both runnable and waiting for a delayed timer: an immediate
\* add cancels the delay, a delayed add of a runnable key is dropped.
\* Otherwise one request would be handled twice.
QueuedXorDelayed ==
  \A k \in Keys : k \in Queued => delayed[k] = None

\* "Ensure only one pending callback is scheduled at a time": the event loop
\* never holds two processNext callbacks, and timeoutId says whether it holds
\* one, so stop() can cancel it.
OnePendingCallback ==
  /\ callbacks <= 1
  /\ timeoutSet <=> callbacks = 1

\* A request is handled once and by one loop: its key is runnable or delayed,
\* not both, and one callback at most is there to take over.
HandledOnce == QueuedXorDelayed /\ OnePendingCallback

\* A delayed key is never postponed: whatever add, retry or requeue does, the
\* timer of a key that stays delayed never moves further away.
NeverPostponed ==
  [][\A k \in Keys :
       delayed[k] # None /\ delayed'[k] # None => delayed'[k] <= delayed[k]]_vars

Delayed == {k \in Keys : delayed[k] # None}
InHandler == {batchKey, tickKey} \ {None}

\* Every requested key, runnable or delayed, reaches the handler unless the
\* queue is stopped, however often the handlers re-add themselves and others.
EveryKeyHandled ==
  \A k \in Keys :
    running /\ k \in Queued \cup Delayed ~> k \in InHandler \/ ~running

\* The handlers on the call stack, innermost first.
Handlers ==
  (IF batchKey # None THEN <<batchKey>> ELSE << >>)
    \o (IF tickKey # None THEN <<tickKey>> ELSE << >>)

\* The queue implements the abstract one: a pending key is a runnable or a
\* delayed one.  No key is handled unasked or while stopped, handlers return in
\* the order they nest, and only stop() forgets a key.
Abstract == INSTANCE DedupQueue
              WITH pending <- Queued \cup Delayed, stack <- Handlers,
                   on <- running
ImplementsDedupQueue == Abstract!Spec

===============================================================================
