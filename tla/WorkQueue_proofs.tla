--------------------------- MODULE WorkQueue_proofs ---------------------------
(***************************************************************************)
(* Proofs about WorkQueue, for every set of keys, both processing modes,   *)
(* every batch size and every backoff.                                     *)
(***************************************************************************)
EXTENDS WorkQueue, SequenceTheorems, TLAPS

\* No handler is inside the immediate loop when the loop is not on the stack.
StackShape == batchKey # None => processing

\* The inductive invariant.  NoLostWakeup needs OnePendingCallback (a set
\* timeoutId stands for a callback that will come) and StackShape (a returning
\* handler finds the loop that called it); QueuedXorDelayed stands alone.
IInv ==
  /\ TypeOK
  /\ StackShape
  /\ OnePendingCallback
  /\ NoLostWakeup
  /\ QueuedXorDelayed

-------------------------------------------------------------------------------
(* The sequence that stands for the JavaScript Set *)

\* Adding a key keeps the queue a duplicate-free sequence over Keys, whose keys
\* are the old ones and the new one (queue.add).
LEMMA WithKeyFacts ==
  ASSUME TypeOK, NEW k \in Keys
  PROVE  /\ WithKey(k) \in Seq(Keys)
         /\ \A i, j \in DOMAIN WithKey(k) :
              WithKey(k)[i] = WithKey(k)[j] => i = j
         /\ {WithKey(k)[i] : i \in DOMAIN WithKey(k)} = Queued \cup {k}
         /\ WithKey(k) # << >>
         /\ queue = << >> => Len(WithKey(k)) = 1
<1>1. CASE k \in Queued
  BY <1>1 DEF WithKey, Queued, TypeOK
<1>2. CASE k \notin Queued
  <2>1. WithKey(k) = Append(queue, k)
    BY <1>2 DEF WithKey
  <2>2. /\ Append(queue, k) \in Seq(Keys)
        /\ DOMAIN Append(queue, k) = 1..(Len(queue) + 1)
        /\ Len(Append(queue, k)) = Len(queue) + 1
        /\ \A i \in 1..Len(queue) : Append(queue, k)[i] = queue[i]
        /\ Append(queue, k)[Len(queue) + 1] = k
        /\ DOMAIN queue = 1..Len(queue)
        /\ Len(queue) \in Nat
    BY DEF TypeOK
  <2>3. \A i \in 1..(Len(queue) + 1) : i \in 1..Len(queue) \/ i = Len(queue) + 1
    BY <2>2
  <2>4. \A i, j \in DOMAIN Append(queue, k) :
          Append(queue, k)[i] = Append(queue, k)[j] => i = j
    BY <1>2, <2>2, <2>3 DEF Queued, TypeOK
  <2>5. {Append(queue, k)[i] : i \in DOMAIN Append(queue, k)} = Queued \cup {k}
    BY <2>2, <2>3 DEF Queued
  <2>6. Append(queue, k) # << >>
    BY <2>2
  <2>. QED
    BY <2>1, <2>2, <2>4, <2>5, <2>6
<1>. QED
  BY <1>1, <1>2

\* Taking the oldest key keeps the queue duplicate-free and removes that key.
LEMMA TailFacts ==
  ASSUME TypeOK, queue # << >>
  PROVE  /\ Head(queue) \in Keys
         /\ Tail(queue) \in Seq(Keys)
         /\ \A i, j \in DOMAIN Tail(queue) :
              Tail(queue)[i] = Tail(queue)[j] => i = j
         /\ {Tail(queue)[i] : i \in DOMAIN Tail(queue)}
              = Queued \ {Head(queue)}
         /\ Head(queue) \in Queued
<1>1. /\ queue \in Seq(Keys)
      /\ Len(queue) \in Nat \ {0}
      /\ DOMAIN queue = 1..Len(queue)
      /\ Head(queue) = queue[1]
      /\ Head(queue) \in Keys
      /\ Tail(queue) \in Seq(Keys)
      /\ Len(Tail(queue)) = Len(queue) - 1
      /\ DOMAIN Tail(queue) = 1..(Len(queue) - 1)
      /\ \A i \in 1..(Len(queue) - 1) : Tail(queue)[i] = queue[i + 1]
  BY DEF TypeOK
<1>2. \A i, j \in DOMAIN Tail(queue) : Tail(queue)[i] = Tail(queue)[j] => i = j
  BY <1>1 DEF TypeOK
<1>3. {Tail(queue)[i] : i \in DOMAIN Tail(queue)} \subseteq Queued \ {Head(queue)}
  BY <1>1, SMTT(60) DEF TypeOK, Queued
<1>4. ASSUME NEW x \in Queued, x # Head(queue)
      PROVE  \E i \in DOMAIN Tail(queue) : Tail(queue)[i] = x
  <2>1. PICK j \in 1..Len(queue) : queue[j] = x
    BY <1>1 DEF Queued
  <2>2. j - 1 \in 1..(Len(queue) - 1) /\ Tail(queue)[j - 1] = x
    BY <1>1, <1>4, <2>1
  <2>. QED
    BY <2>2, <1>1
<1>5. Head(queue) \in Queued
  BY <1>1 DEF Queued
<1>. QED
  BY <1>1, <1>2, <1>3, <1>4, <1>5

-------------------------------------------------------------------------------
(* The helpers the actions are built from *)

\* A backoff is a positive delay.
LEMMA RetryDelayFacts ==
  ASSUME NEW n \in Nat \ {0}, n <= AttemptBound
  PROVE  RetryDelay(n) \in Nat \ {0}
<1>1. n \in 1..AttemptBound
  BY AttemptsAssumption
<1>. QED
  BY <1>1, BackoffAssumption

\* scheduleProcess leaves a loop or a callback behind whenever it is called
\* with work to do, and never a second callback.
LEMMA ScheduleFacts ==
  ASSUME TypeOK, OnePendingCallback, NEW q, NEW r \in BOOLEAN,
         ScheduleProcess(q, r)
  PROVE  /\ processing' \in BOOLEAN
         /\ batchCount' \in Nat
         /\ timeoutSet' \in BOOLEAN
         /\ callbacks' \in Nat
         /\ OnePendingCallback'
         /\ processing => processing'
         /\ r /\ q # << >> => processing' \/ callbacks' > 0
<1>. USE ModeAssumption
<1>1. /\ processing' \in BOOLEAN
      /\ batchCount' \in Nat
      /\ timeoutSet' \in BOOLEAN
      /\ callbacks' \in Nat
      /\ processing => processing'
  BY DEF ScheduleProcess, TypeOK
<1>2. OnePendingCallback'
  BY DEF ScheduleProcess, TypeOK, OnePendingCallback
<1>3. r /\ q # << >> => processing' \/ callbacks' > 0
  BY DEF ScheduleProcess, TypeOK, OnePendingCallback
<1>. QED
  BY <1>1, <1>2, <1>3

\* A delayed add keeps runnable keys undelayed, never postpones a key, and makes
\* its key pending if it was not.
LEMMA DelayFacts ==
  ASSUME TypeOK, QueuedXorDelayed, NEW k \in Keys, NEW d \in Nat, Delay(k, d)
  PROVE  /\ delayed' \in [Keys -> Nat \cup {None}]
         /\ \A x \in Keys : x \in Queued => delayed'[x] = None
         /\ \A x \in Keys : delayed[x] # None /\ delayed'[x] # None
                             => delayed'[x] <= delayed[x]
         /\ Queued \cup {x \in Keys : delayed'[x] # None}
              = Queued \cup Delayed \cup {k}
<1>. USE KeysAssumption
<1>1. CASE k \in Queued \/ (delayed[k] # None /\ delayed[k] <= d)
  BY <1>1 DEF Delay, TypeOK, QueuedXorDelayed, Delayed
<1>2. CASE ~(k \in Queued \/ (delayed[k] # None /\ delayed[k] <= d))
  <2>1. delayed' = [delayed EXCEPT ![k] = d]
    BY <1>2 DEF Delay
  <2>. QED
    BY <1>2, <2>1 DEF TypeOK, QueuedXorDelayed, Delayed
<1>. QED
  BY <1>1, <1>2

\* What a caller of retryKey or a returning handler can change: attempts and
\* delays, the latter only as DelayFacts says.
ResultShape(k) ==
  /\ attempts' \in [Keys -> Nat]
  /\ delayed' \in [Keys -> Nat \cup {None}]
  /\ \A x \in Keys : x \in Queued => delayed'[x] = None
  /\ \A x \in Keys : delayed[x] # None /\ delayed'[x] # None
                      => delayed'[x] <= delayed[x]
  /\ Queued \cup {x \in Keys : delayed'[x] # None}
       \in {Queued \cup Delayed, Queued \cup Delayed \cup {k}}

\* retryKey has that shape.
LEMMA RetryFacts ==
  ASSUME TypeOK, QueuedXorDelayed, NEW k \in Keys, RetryKey(k)
  PROVE  ResultShape(k)
<1>. DEFINE n == attempts[k] + 1
<1>1. n \in Nat \ {0}
  BY DEF TypeOK
<1>2. CASE RetryMaxAttempts > 0 /\ n > RetryMaxAttempts
  <2>1. UNCHANGED <<attempts, delayed>>
    BY <1>2 DEF RetryKey
  <2>. QED
    BY <2>1 DEF ResultShape, TypeOK, QueuedXorDelayed, Delayed
<1>3. CASE ~(RetryMaxAttempts > 0 /\ n > RetryMaxAttempts)
  <2>1. /\ n <= AttemptBound
        /\ attempts' = [attempts EXCEPT ![k] = n]
        /\ Delay(k, RetryDelay(n))
    BY <1>3 DEF RetryKey
  <2>2. RetryDelay(n) \in Nat
    BY <1>1, <2>1, RetryDelayFacts
  <2>3. attempts' \in [Keys -> Nat]
    BY <1>1, <2>1 DEF TypeOK
  <2>. QED
    BY <2>1, <2>2, <2>3, DelayFacts DEF ResultShape
<1>. QED
  BY <1>2, <1>3

\* So has the tail of processOne, whatever the handler answered.
LEMMA HandlerResultFacts ==
  ASSUME TypeOK, QueuedXorDelayed, NEW k \in Keys, HandlerResult(k)
  PROVE  ResultShape(k)
<1>1. CASE attempts' = [attempts EXCEPT ![k] = 0] /\ UNCHANGED delayed
  BY <1>1 DEF ResultShape, TypeOK, QueuedXorDelayed, Delayed
<1>2. ASSUME NEW d \in Delays, Delay(k, d) /\ UNCHANGED attempts
      PROVE  ResultShape(k)
  <2>1. d \in Nat
    BY DelaysAssumption
  <2>. QED
    BY <1>2, <2>1, DelayFacts DEF ResultShape, TypeOK
<1>3. CASE RetryKey(k)
  BY <1>3, RetryFacts
<1>. QED
  BY <1>1, <1>2, <1>3 DEF HandlerResult

\* Making a key runnable: the queue gains it, its delay is cancelled, and the
\* queue is woken when it was empty.
LEMMA MakeRunnableFacts ==
  ASSUME IInv, NEW k \in Keys, MakeRunnable(k)
  PROVE  /\ queue' \in Seq(Keys)
         /\ \A i, j \in DOMAIN queue' : queue'[i] = queue'[j] => i = j
         /\ Queued' = Queued \cup {k}
         /\ delayed' \in [Keys -> Nat \cup {None}]
         /\ QueuedXorDelayed'
         /\ \A x \in Keys : delayed'[x] # None => delayed'[x] = delayed[x]
         /\ Queued' \cup Delayed' = Queued \cup Delayed \cup {k}
         /\ processing' \in BOOLEAN
         /\ batchCount' \in Nat
         /\ timeoutSet' \in BOOLEAN
         /\ callbacks' \in Nat
         /\ OnePendingCallback'
         /\ processing => processing'
         /\ running => processing' \/ tickKey # None \/ callbacks' > 0
<1>. USE KeysAssumption
<1>1. /\ queue' = WithKey(k)
      /\ delayed' = [delayed EXCEPT ![k] = None]
  BY DEF MakeRunnable
<1>2. /\ queue' \in Seq(Keys)
      /\ \A i, j \in DOMAIN queue' : queue'[i] = queue'[j] => i = j
      /\ Queued' = Queued \cup {k}
      /\ queue' # << >>
      /\ queue = << >> => Len(queue') = 1
  <2>1. TypeOK
    BY DEF IInv
  <2>2. /\ WithKey(k) \in Seq(Keys)
        /\ \A i, j \in DOMAIN WithKey(k) :
             WithKey(k)[i] = WithKey(k)[j] => i = j
        /\ {WithKey(k)[i] : i \in DOMAIN WithKey(k)} = Queued \cup {k}
        /\ WithKey(k) # << >>
        /\ queue = << >> => Len(WithKey(k)) = 1
    BY <2>1, WithKeyFacts, Zenon
  <2>3. Queued' = {WithKey(k)[i] : i \in DOMAIN WithKey(k)}
    BY <1>1, Zenon DEF Queued
  <2>. QED
    BY <1>1, <2>2, <2>3, Zenon
<1>3. /\ delayed' \in [Keys -> Nat \cup {None}]
      /\ QueuedXorDelayed'
      /\ \A x \in Keys : delayed'[x] # None => delayed'[x] = delayed[x]
      /\ Queued' \cup Delayed' = Queued \cup Delayed \cup {k}
  BY <1>1, <1>2 DEF IInv, TypeOK, QueuedXorDelayed, Delayed
<1>4. /\ processing' \in BOOLEAN
      /\ batchCount' \in Nat
      /\ timeoutSet' \in BOOLEAN
      /\ callbacks' \in Nat
      /\ OnePendingCallback'
      /\ processing => processing'
      /\ running => processing' \/ tickKey # None \/ callbacks' > 0
  <2>1. CASE running /\ Len(queue') = 1
    <3>1. ScheduleProcess(queue', running)
      BY <2>1 DEF MakeRunnable
    <3>2. running \in BOOLEAN
      BY DEF IInv, TypeOK
    <3>. QED
      BY <1>2, <3>1, <3>2, ScheduleFacts DEF IInv
  <2>2. CASE ~(running /\ Len(queue') = 1)
    <3>1. NoSchedule
      BY <2>2 DEF MakeRunnable
    <3>2. running => queue # << >>
      BY <1>2, <2>2
    <3>. QED
      BY <3>1, <3>2 DEF NoSchedule, IInv, TypeOK, OnePendingCallback, NoLostWakeup
  <2>. QED
    BY <2>1, <2>2
<1>. QED
  BY <1>2, <1>3, <1>4

-------------------------------------------------------------------------------
(* The inductive invariant *)

\* The queue starts empty, stopped and with nothing on the stack.
LEMMA InitIInv == Init => IInv
<1>. USE KeysAssumption
<1>1. Init => TypeOK
  <2>. SUFFICES ASSUME Init PROVE TypeOK
    OBVIOUS
  <2>1. queue \in Seq(Keys) /\ \A i, j \in DOMAIN queue : queue[i] = queue[j] => i = j
    BY DEF Init
  <2>2. delayed \in [Keys -> Nat \cup {None}] /\ attempts \in [Keys -> Nat]
    BY DEF Init
  <2>3. /\ callbacks \in Nat /\ batchCount \in Nat
        /\ running \in BOOLEAN /\ timeoutSet \in BOOLEAN
        /\ processing \in BOOLEAN
        /\ batchKey \in Keys \cup {None} /\ tickKey \in Keys \cup {None}
    BY DEF Init
  <2>. QED
    BY <2>1, <2>2, <2>3 DEF TypeOK
<1>2. Init => StackShape /\ OnePendingCallback /\ NoLostWakeup /\ QueuedXorDelayed
  BY DEF Init, StackShape, OnePendingCallback, NoLostWakeup, QueuedXorDelayed,
         Queued
<1>. QED
  BY <1>1, <1>2 DEF IInv

\* An API call, made by a handler or from the event loop, preserves it.
LEMMA ApiCallIInv == IInv /\ ApiCall => IInv'
<1>. SUFFICES ASSUME IInv, ApiCall PROVE IInv'
  OBVIOUS
<1>. USE DEF IInv
<1>1. ASSUME NEW k \in Keys, Add(k) PROVE IInv'
  <2>1. MakeRunnable(k) /\ UNCHANGED <<attempts, running, batchKey, tickKey>>
    BY <1>1 DEF Add
  <2>. QED
    BY <2>1, MakeRunnableFacts DEF TypeOK, StackShape, NoLostWakeup
<1>2. ASSUME NEW k \in Keys, AddResetRetry(k) PROVE IInv'
  <2>1. /\ MakeRunnable(k)
        /\ UNCHANGED <<running, batchKey, tickKey>>
        /\ attempts' \in [Keys -> Nat]
    BY <1>2 DEF AddResetRetry, TypeOK
  <2>. QED
    BY <2>1, MakeRunnableFacts DEF TypeOK, StackShape, NoLostWakeup
<1>3. ASSUME NEW k \in Keys, NEW d \in Delays, AddAfter(k, d) PROVE IInv'
  <2>1. d \in Nat
    BY DelaysAssumption
  <2>. QED
    BY <1>3, <2>1, DelayFacts DEF AddAfter, NoSchedule, TypeOK, StackShape,
         OnePendingCallback, NoLostWakeup, QueuedXorDelayed, Queued
<1>4. ASSUME NEW k \in Keys, Retry(k) PROVE IInv'
  BY <1>4, RetryFacts DEF Retry, ResultShape, NoSchedule, TypeOK, StackShape,
       OnePendingCallback, NoLostWakeup, QueuedXorDelayed, Queued
<1>5. CASE Start
  <2>1. /\ running' = TRUE
        /\ ScheduleProcess(queue, TRUE)
        /\ UNCHANGED <<queue, delayed, attempts, batchKey, tickKey>>
    BY <1>5 DEF Start
  <2>. QED
    BY <2>1, ScheduleFacts DEF TypeOK, StackShape, NoLostWakeup,
         QueuedXorDelayed, Queued
<1>6. CASE Stop
  <2>0. callbacks' = 0 /\ timeoutSet' = FALSE
    <3>1. CASE timeoutSet
      BY <1>6, <3>1 DEF Stop, TypeOK, OnePendingCallback
    <3>2. CASE ~timeoutSet
      BY <1>6, <3>2 DEF Stop, TypeOK, OnePendingCallback
    <3>. QED
      BY <3>1, <3>2
  <2>1. TypeOK'
    <3>1. delayed' \in [Keys -> Nat \cup {None}]
      BY <1>6 DEF Stop
    <3>2. /\ running' = FALSE
          /\ UNCHANGED <<queue, attempts, processing, batchKey, batchCount,
                         tickKey>>
      BY <1>6 DEF Stop
    <3>. QED
      BY <2>0, <3>1, <3>2 DEF TypeOK
  <2>2. OnePendingCallback'
    BY <2>0 DEF OnePendingCallback
  <2>3. StackShape' /\ NoLostWakeup'
    BY <1>6 DEF Stop, StackShape, NoLostWakeup
  <2>4. QueuedXorDelayed'
    BY <1>6 DEF Stop, QueuedXorDelayed
  <2>. QED
    BY <2>1, <2>2, <2>3, <2>4
<1>. QED
  BY <1>1, <1>2, <1>3, <1>4, <1>5, <1>6 DEF ApiCall

\* A turn of the immediate loop preserves it.
LEMMA BatchTakeIInv == IInv /\ BatchTake => IInv'
<1>. SUFFICES ASSUME IInv, BatchTake PROVE IInv'
  OBVIOUS
<1>. USE KeysAssumption DEF IInv
<1>1. /\ queue # << >>
      /\ queue' = Tail(queue)
      /\ batchKey' = Head(queue)
      /\ processing
      /\ batchCount' = batchCount + 1
      /\ UNCHANGED <<delayed, attempts, running, timeoutSet, callbacks,
                     processing, tickKey>>
  BY DEF BatchTake
<1>2. TypeOK'
  BY <1>1, TailFacts, SMTT(60) DEF TypeOK
<1>3. Queued' = Queued \ {Head(queue)}
  BY <1>1, TailFacts DEF Queued
<1>4. QueuedXorDelayed'
  BY <1>1, <1>3 DEF QueuedXorDelayed
<1>. QED
  BY <1>1, <1>2, <1>4 DEF StackShape, OnePendingCallback, NoLostWakeup

\* A processNext callback preserves it.
LEMMA ProcessNextIInv == IInv /\ ProcessNext => IInv'
<1>. SUFFICES ASSUME IInv, ProcessNext PROVE IInv'
  OBVIOUS
<1>. USE KeysAssumption DEF IInv
<1>1. /\ ~processing
      /\ callbacks = 1
      /\ callbacks' = 0
      /\ timeoutSet' = FALSE
      /\ UNCHANGED <<delayed, attempts, running, processing, batchKey,
                     batchCount>>
  BY DEF ProcessNext, EventLoopIdle, OnePendingCallback, TypeOK
<1>2. CASE running /\ queue # << >>
  <2>1. tickKey' = Head(queue) /\ queue' = Tail(queue)
    BY <1>2 DEF ProcessNext
  <2>2. TypeOK'
    BY <1>1, <1>2, <2>1, TailFacts DEF TypeOK
  <2>3. Queued' = Queued \ {Head(queue)}
    BY <1>2, <2>1, TailFacts DEF Queued
  <2>4. QueuedXorDelayed'
    BY <1>1, <2>3 DEF QueuedXorDelayed
  <2>5. tickKey' # None
    BY <1>2, <2>1, TailFacts
  <2>. QED
    BY <1>1, <2>2, <2>4, <2>5 DEF StackShape, OnePendingCallback, NoLostWakeup
<1>3. CASE ~(running /\ queue # << >>)
  <2>1. tickKey' = None /\ queue' = queue
    BY <1>3 DEF ProcessNext
  <2>. QED
    <3>1. TypeOK'
      BY <1>1, <2>1 DEF TypeOK
    <3>2. QueuedXorDelayed'
      BY <1>1, <2>1 DEF QueuedXorDelayed, Queued
    <3>. QED
      BY <1>1, <1>3, <2>1, <3>1, <3>2
         DEF StackShape, OnePendingCallback, NoLostWakeup
<1>. QED
  BY <1>2, <1>3

\* Every step preserves the invariant.
LEMMA NextIInv == IInv /\ [Next]_vars => IInv'
<1>. SUFFICES ASSUME IInv, [Next]_vars PROVE IInv'
  OBVIOUS
<1>1. CASE ApiCall
  BY <1>1, ApiCallIInv
<1>2. CASE BatchTake
  BY <1>2, BatchTakeIInv
<1>3. CASE BatchHandlerReturns
  <2>1. batchKey \in Keys
    BY <1>3 DEF BatchHandlerReturns, IInv, TypeOK
  <2>2. ResultShape(batchKey)
    BY <1>3, <2>1, HandlerResultFacts DEF BatchHandlerReturns, IInv
  <2>. QED
    BY <1>3, <2>2 DEF IInv, BatchHandlerReturns, ResultShape, TypeOK, StackShape,
         OnePendingCallback, NoLostWakeup, QueuedXorDelayed, Queued
<1>4. CASE BatchEnd
  <2>0. /\ callbacks' \in Nat
        /\ timeoutSet' \in BOOLEAN
        /\ OnePendingCallback'
        /\ queue # << >> => callbacks' = 1
    <3>1. CASE queue # << >> /\ ~timeoutSet
      <4>1. callbacks = 0
        BY <3>1 DEF IInv, TypeOK, OnePendingCallback
      <4>2. callbacks' = callbacks + 1 /\ timeoutSet' = TRUE
        BY <1>4, <3>1 DEF BatchEnd
      <4>. QED
        BY <4>1, <4>2 DEF OnePendingCallback
    <3>2. CASE ~(queue # << >> /\ ~timeoutSet)
      BY <1>4, <3>2 DEF IInv, BatchEnd, TypeOK, OnePendingCallback
    <3>. QED
      BY <3>1, <3>2
  <2>1. TypeOK'
    BY <1>4, <2>0 DEF IInv, BatchEnd, TypeOK
  <2>3. StackShape' /\ NoLostWakeup'
    BY <1>4, <2>0 DEF BatchEnd, StackShape, NoLostWakeup
  <2>4. QueuedXorDelayed'
    BY <1>4 DEF IInv, BatchEnd, QueuedXorDelayed, Queued
  <2>. QED
    BY <2>0, <2>1, <2>3, <2>4 DEF IInv
<1>5. CASE ProcessNext
  BY <1>5, ProcessNextIInv
<1>6. CASE TickHandlerReturns
  <2>1. tickKey \in Keys /\ running \in BOOLEAN
    BY <1>6 DEF TickHandlerReturns, IInv, TypeOK
  <2>2. ResultShape(tickKey)
    BY <1>6, <2>1, HandlerResultFacts DEF TickHandlerReturns, IInv
  <2>3. /\ ScheduleProcess(queue, running)
        /\ tickKey' = None
        /\ UNCHANGED <<queue, running, batchKey>>
    BY <1>6 DEF TickHandlerReturns
  <2>. QED
    BY <2>1, <2>2, <2>3, ScheduleFacts DEF IInv, ResultShape, TypeOK, StackShape,
         NoLostWakeup, QueuedXorDelayed, Queued
<1>7. ASSUME NEW k \in Keys, DelayedFires(k) PROVE IInv'
  <2>1. MakeRunnable(k) /\ UNCHANGED <<attempts, running, batchKey, tickKey>>
    BY <1>7 DEF DelayedFires
  <2>. QED
    BY <2>1, MakeRunnableFacts DEF IInv, TypeOK, StackShape, NoLostWakeup
<1>8. CASE Tick
  BY <1>8, KeysAssumption DEF IInv, Tick, TypeOK, StackShape, OnePendingCallback,
       NoLostWakeup, QueuedXorDelayed, Queued
<1>9. CASE UNCHANGED vars
  BY <1>9 DEF vars, IInv, TypeOK, StackShape, OnePendingCallback, NoLostWakeup,
       QueuedXorDelayed, Queued
<1>. QED
  BY <1>1, <1>2, <1>3, <1>4, <1>5, <1>6, <1>7, <1>8, <1>9 DEF Next

\* The inductive invariant holds in every reachable state.
LEMMA IInvHolds == Spec => []IInv
  BY InitIInv, NextIInv, PTL DEF Spec

\* The queue always holds a duplicate-free sequence of keys, and every variable
\* its type.
THEOREM TypeCorrect == Spec => []TypeOK
<1>1. IInv => TypeOK
  BY DEF IInv
<1>. QED
  BY IInvHolds, <1>1, PTL

\* No key is ever left runnable in a running queue that nothing will wake.
THEOREM NeverLosesWakeup == Spec => []NoLostWakeup
<1>1. IInv => NoLostWakeup
  BY DEF IInv
<1>. QED
  BY IInvHolds, <1>1, PTL

\* The event loop never holds two callbacks of one queue, and no request is both
\* runnable and delayed.
THEOREM RequestsHandledOnce == Spec => []HandledOnce
<1>1. IInv => HandledOnce
  BY DEF IInv, HandledOnce
<1>. QED
  BY IInvHolds, <1>1, PTL

-------------------------------------------------------------------------------
(* What a step may do *)

\* In any reachable step, no key that stays delayed is moved further away.
THEOREM NeverPostponedHolds == Spec => NeverPostponed
<1>. DEFINE Kept == \A k \in Keys : delayed[k] # None /\ delayed'[k] # None
                                     => delayed'[k] <= delayed[k]
<1>1. IInv /\ [Next]_vars => Kept
  <2>. SUFFICES ASSUME IInv, [Next]_vars PROVE Kept
    OBVIOUS
  <2>0. ASSUME UNCHANGED delayed PROVE Kept
    BY <2>0 DEF IInv, TypeOK
  <2>1. ASSUME NEW k \in Keys, MakeRunnable(k) PROVE Kept
    <3>1. \A x \in Keys : delayed'[x] # None => delayed'[x] = delayed[x]
      BY <2>1, MakeRunnableFacts
    <3>. QED
      BY <3>1 DEF IInv, TypeOK
  <2>2. ASSUME NEW k \in Keys, ResultShape(k) PROVE Kept
    BY <2>2 DEF ResultShape
  <2>3. CASE ApiCall
    <3>1. ASSUME NEW k \in Keys, Add(k) \/ AddResetRetry(k) PROVE Kept
      BY <2>1, <3>1 DEF Add, AddResetRetry
    <3>2. ASSUME NEW k \in Keys, NEW d \in Delays, AddAfter(k, d) PROVE Kept
      <4>1. d \in Nat /\ Delay(k, d)
        BY <3>2, DelaysAssumption DEF AddAfter
      <4>. QED
        BY <4>1, DelayFacts DEF IInv
    <3>3. ASSUME NEW k \in Keys, Retry(k) PROVE Kept
      <4>1. RetryKey(k)
        BY <3>3 DEF Retry
      <4>. QED
        BY <2>2, <4>1, RetryFacts DEF IInv
    <3>4. CASE Start
      BY <2>0, <3>4 DEF Start
    <3>5. CASE Stop
      BY <3>5 DEF Stop
    <3>. QED
      BY <2>3, <3>1, <3>2, <3>3, <3>4, <3>5 DEF ApiCall
  <2>4. CASE BatchTake \/ BatchEnd \/ ProcessNext
    BY <2>0, <2>4 DEF BatchTake, BatchEnd, ProcessNext
  <2>5. CASE BatchHandlerReturns
    <3>1. batchKey \in Keys /\ HandlerResult(batchKey)
      BY <2>5 DEF BatchHandlerReturns, IInv, TypeOK
    <3>. QED
      BY <2>2, <3>1, HandlerResultFacts DEF IInv
  <2>6. CASE TickHandlerReturns
    <3>1. tickKey \in Keys /\ HandlerResult(tickKey)
      BY <2>6 DEF TickHandlerReturns, IInv, TypeOK
    <3>. QED
      BY <2>2, <3>1, HandlerResultFacts DEF IInv
  <2>7. ASSUME NEW k \in Keys, DelayedFires(k) PROVE Kept
    BY <2>1, <2>7 DEF DelayedFires
  <2>8. CASE Tick
    BY <2>8, KeysAssumption DEF Tick, IInv, TypeOK
  <2>9. CASE UNCHANGED vars
    BY <2>0, <2>9 DEF vars
  <2>. QED
    BY <2>3, <2>4, <2>5, <2>6, <2>7, <2>8, <2>9 DEF Next
<1>. QED
  BY <1>1, IInvHolds, PTL DEF Spec, NeverPostponed

-------------------------------------------------------------------------------
(* WorkQueue implements DedupQueue *)

\* Pushing on a stack and popping it again.
LEMMA ConsFacts ==
  ASSUME NEW S, NEW a \in S, NEW s \in Seq(S)
  PROVE  /\ <<a>> \o s # << >>
         /\ Head(<<a>> \o s) = a
         /\ Tail(<<a>> \o s) = s
         /\ << >> \o s = s
<1>1. << >> \o s = s
  BY ConcatEmptySeq
<1>2. /\ Len(<<a>> \o s) = Len(s) + 1
      /\ <<a>> \o s \in Seq(S)
      /\ (<<a>> \o s)[1] = a
      /\ \A i \in 1..Len(s) : (<<a>> \o s)[i + 1] = s[i]
  OBVIOUS
<1>. DEFINE c == <<a>> \o s
<1>. HIDE DEF c
<1>3. Len(Tail(c)) = Len(s) /\ \A i \in 1..Len(s) : Tail(c)[i] = s[i]
  BY <1>2 DEF c
<1>4. Tail(c) \in Seq(S) /\ c # << >> /\ Head(c) = a
  BY <1>2 DEF c
<1>5. Tail(c) = s
  BY <1>3, <1>4
<1>. QED
  BY <1>1, <1>4, <1>5 DEF c

\* What the handler variables do to the mapped stack.
LEMMA HandlersFacts ==
  ASSUME IInv
  PROVE  /\ UNCHANGED <<batchKey, tickKey>> => Handlers' = Handlers
         /\ batchKey = None /\ batchKey' \in Keys /\ UNCHANGED tickKey
              => Handlers' = <<batchKey'>> \o Handlers
         /\ batchKey = None /\ tickKey = None /\ tickKey' \in Keys
              /\ UNCHANGED batchKey
              => Handlers' = <<tickKey'>> \o Handlers
         /\ batchKey \in Keys /\ batchKey' = None /\ UNCHANGED tickKey
              => /\ Handlers # << >>
                 /\ Head(Handlers) = batchKey
                 /\ Handlers' = Tail(Handlers)
         /\ batchKey = None /\ tickKey \in Keys /\ tickKey' = None
              /\ UNCHANGED batchKey
              => /\ Handlers # << >>
                 /\ Head(Handlers) = tickKey
                 /\ Handlers' = Tail(Handlers)
<1>. USE KeysAssumption DEF Handlers, IInv, TypeOK
<1>1. UNCHANGED <<batchKey, tickKey>> => Handlers' = Handlers
  OBVIOUS
<1>2. ASSUME batchKey = None, batchKey' \in Keys, UNCHANGED tickKey
      PROVE  Handlers' = <<batchKey'>> \o Handlers
  BY <1>2
<1>3. ASSUME batchKey = None, tickKey = None, tickKey' \in Keys,
             UNCHANGED batchKey
      PROVE  Handlers' = <<tickKey'>> \o Handlers
  BY <1>3
<1>4. ASSUME batchKey \in Keys, batchKey' = None, UNCHANGED tickKey
      PROVE  /\ Handlers # << >>
             /\ Head(Handlers) = batchKey
             /\ Handlers' = Tail(Handlers)
  <2>. DEFINE below == IF tickKey # None THEN <<tickKey>> ELSE << >>
  <2>1. below \in Seq(Keys)
    OBVIOUS
  <2>2. Handlers = <<batchKey>> \o below /\ Handlers' = << >> \o below
    BY <1>4
  <2>. HIDE DEF below, Handlers, IInv, TypeOK
  <2>. QED
    BY <1>4, <2>1, <2>2, ConsFacts
<1>5. ASSUME batchKey = None, tickKey \in Keys, tickKey' = None,
             UNCHANGED batchKey
      PROVE  /\ Handlers # << >>
             /\ Head(Handlers) = tickKey
             /\ Handlers' = Tail(Handlers)
  BY <1>5
<1>. QED
  BY <1>1, <1>2, <1>3, <1>4, <1>5

\* Every step of the queue is a request, a handler entered or left, a switch,
\* or nothing to the abstract queue.
LEMMA StepImplements == IInv /\ [Next]_vars => [Abstract!Next]_(Abstract!vars)
<1>. SUFFICES ASSUME IInv, [Next]_vars
              PROVE  [Abstract!Next]_(Abstract!vars)
  OBVIOUS
<1>. DEFINE Pending == Queued \cup Delayed
<1>. DEFINE SameHandlers == UNCHANGED <<batchKey, tickKey>>
<1>0. ASSUME Pending' = Pending, UNCHANGED running, SameHandlers
      PROVE  UNCHANGED Abstract!vars
  BY <1>0, HandlersFacts DEF Abstract!vars
<1>1. ASSUME NEW k \in Keys, Pending' = Pending \cup {k}, UNCHANGED running,
             SameHandlers
      PROVE  Abstract!Next
  BY <1>1, HandlersFacts DEF Abstract!Next, Abstract!Request
<1>2. ASSUME NEW k \in Keys, MakeRunnable(k), UNCHANGED running, SameHandlers
      PROVE  Abstract!Next
  BY <1>1, <1>2, MakeRunnableFacts
<1>3. ASSUME UNCHANGED queue PROVE Queued' = Queued
  BY <1>3 DEF Queued
<1>4. ASSUME NEW k \in Keys, ResultShape(k), UNCHANGED queue
      PROVE  Pending' = Pending \/ Pending' = Pending \cup {k}
  <2>1. Pending' = Queued \cup {x \in Keys : delayed'[x] # None}
    BY <1>3, <1>4 DEF Delayed
  <2>. QED
    BY <1>4, <2>1 DEF ResultShape
<1>5. ASSUME queue # << >>, running, queue' = Tail(queue),
             UNCHANGED <<delayed, running>>,
             Head(queue) \in Keys => Handlers' = <<Head(queue)>> \o Handlers
      PROVE  Abstract!Next
  <2>1. /\ Head(queue) \in Keys
        /\ Head(queue) \in Queued
        /\ {Tail(queue)[i] : i \in DOMAIN Tail(queue)} = Queued \ {Head(queue)}
    BY <1>5, TailFacts DEF IInv
  <2>2. Queued' = Queued \ {Head(queue)}
    BY <1>5, <2>1 DEF Queued
  <2>3. delayed[Head(queue)] = None
    BY <2>1 DEF IInv, QueuedXorDelayed
  <2>4. Pending' = Pending \ {Head(queue)}
    BY <1>5, <2>2, <2>3 DEF Delayed
  <2>. QED
    BY <1>5, <2>1, <2>4 DEF Abstract!Next, Abstract!Take
<1>. DEFINE Ret(k) == /\ ResultShape(k)
                        /\ UNCHANGED <<queue, running>>
                        /\ Handlers # << >>
                        /\ Head(Handlers) = k
                        /\ Handlers' = Tail(Handlers)
<1>15. ASSUME NEW k \in Keys, Ret(k) PROVE Abstract!Next
  BY <1>4, <1>15 DEF Abstract!Next, Abstract!Return
<1>6. CASE ApiCall
  <2>1. ASSUME NEW k \in Keys, Add(k) \/ AddResetRetry(k)
        PROVE  Abstract!Next
    BY <1>2, <2>1 DEF Add, AddResetRetry
  <2>2. ASSUME NEW k \in Keys, NEW d \in Delays, AddAfter(k, d)
        PROVE  Abstract!Next
    <3>1. /\ d \in Nat /\ Delay(k, d)
          /\ UNCHANGED <<queue, running>> /\ SameHandlers
      BY <2>2, DelaysAssumption DEF AddAfter
    <3>2. Pending' = Queued \cup {x \in Keys : delayed'[x] # None}
      BY <1>3, <3>1 DEF Delayed
    <3>3. Pending' = Pending \cup {k}
      BY <3>1, <3>2, DelayFacts DEF IInv
    <3>. QED
      BY <1>1, <3>1, <3>3
  <2>3. ASSUME NEW k \in Keys, Retry(k)
        PROVE  [Abstract!Next]_(Abstract!vars)
    <3>1. ResultShape(k) /\ UNCHANGED <<queue, running>> /\ SameHandlers
      BY <2>3, RetryFacts DEF Retry, IInv
    <3>. QED
      BY <1>0, <1>1, <1>4, <3>1
  <2>4. CASE Start
    <3>1. running' = TRUE /\ UNCHANGED <<queue, delayed>> /\ SameHandlers
      BY <2>4 DEF Start
    <3>2. Pending' = Pending
      BY <1>3, <3>1 DEF Delayed
    <3>. QED
      BY <3>1, <3>2, HandlersFacts DEF Abstract!Next, Abstract!SwitchOn
  <2>5. CASE Stop
    <3>1. /\ running' = FALSE
          /\ UNCHANGED queue /\ SameHandlers
          /\ \A k \in Keys : delayed'[k] = None
      BY <2>5 DEF Stop
    <3>2. Pending' \subseteq Pending
      BY <1>3, <3>1 DEF Delayed
    <3>. QED
      BY <3>1, <3>2, HandlersFacts DEF Abstract!Next, Abstract!SwitchOff
  <2>. QED
    BY <1>6, <2>1, <2>2, <2>3, <2>4, <2>5 DEF ApiCall
<1>7. CASE BatchTake
  <2>1. Head(queue) \in Keys => Handlers' = <<Head(queue)>> \o Handlers
    BY <1>7, HandlersFacts DEF BatchTake
  <2>. QED
    BY <1>5, <1>7, <2>1 DEF BatchTake
<1>8. CASE BatchHandlerReturns
  <2>1. batchKey \in Keys /\ HandlerResult(batchKey)
    BY <1>8 DEF BatchHandlerReturns, IInv, TypeOK
  <2>2. ResultShape(batchKey)
    BY <2>1, HandlerResultFacts DEF IInv
  <2>3. Handlers # << >> /\ Head(Handlers) = batchKey /\ Handlers' = Tail(Handlers)
    BY <1>8, <2>1, HandlersFacts, KeysAssumption
       DEF BatchHandlerReturns, IInv, TypeOK, StackShape
  <2>. QED
    BY <1>15, <1>8, <2>1, <2>2, <2>3 DEF BatchHandlerReturns
<1>9. CASE BatchEnd
  BY <1>0, <1>3, <1>9 DEF BatchEnd, Delayed
<1>10. CASE ProcessNext
  <2>1. CASE running /\ queue # << >>
    <3>1. batchKey = None /\ tickKey = None
      BY <1>10 DEF ProcessNext, EventLoopIdle, IInv, StackShape
    <3>2. Head(queue) \in Keys => Handlers' = <<Head(queue)>> \o Handlers
      BY <1>10, <2>1, <3>1, HandlersFacts DEF ProcessNext
    <3>. QED
      BY <1>5, <1>10, <2>1, <3>2 DEF ProcessNext
  <2>2. CASE ~(running /\ queue # << >>)
    <3>1. UNCHANGED <<queue, delayed, running>> /\ SameHandlers
      BY <1>10, <2>2 DEF ProcessNext, EventLoopIdle
    <3>. QED
      BY <1>0, <1>3, <3>1 DEF Delayed
  <2>. QED
    BY <2>1, <2>2
<1>11. CASE TickHandlerReturns
  <2>1. tickKey \in Keys /\ HandlerResult(tickKey)
    BY <1>11 DEF TickHandlerReturns, IInv, TypeOK
  <2>2. ResultShape(tickKey)
    BY <2>1, HandlerResultFacts DEF IInv
  <2>3. Handlers # << >> /\ Head(Handlers) = tickKey /\ Handlers' = Tail(Handlers)
    BY <1>11, <2>1, HandlersFacts, KeysAssumption
       DEF TickHandlerReturns, IInv, TypeOK, StackShape
  <2>. QED
    BY <1>15, <1>11, <2>1, <2>2, <2>3 DEF TickHandlerReturns
<1>12. ASSUME NEW k \in Keys, DelayedFires(k) PROVE Abstract!Next
  BY <1>2, <1>12 DEF DelayedFires
<1>13. CASE Tick
  <2>1. UNCHANGED <<queue, running>> /\ SameHandlers
    BY <1>13 DEF Tick
  <2>2. \A k \in Keys : delayed'[k] # None <=> delayed[k] # None
    BY <1>13, KeysAssumption DEF Tick, IInv, TypeOK
  <2>3. Pending' = Pending
    BY <1>3, <2>1, <2>2 DEF Delayed
  <2>. QED
    BY <1>0, <2>1, <2>3
<1>14. CASE UNCHANGED vars
  BY <1>0, <1>3, <1>14 DEF vars, Delayed
<1>. QED
  BY <1>6, <1>7, <1>8, <1>9, <1>10, <1>11, <1>12, <1>13, <1>14 DEF Next

\* The queue is a DedupQueue: no key is handled unasked or while stopped, and
\* only stop() forgets one.
THEOREM WorkQueueImplementsDedupQueue == Spec => ImplementsDedupQueue
<1>1. Init => Abstract!Init
  BY KeysAssumption DEF Init, Abstract!Init, Queued, Delayed, Handlers
<1>. QED
  BY <1>1, StepImplements, IInvHolds, PTL
     DEF Spec, ImplementsDedupQueue, Abstract!Spec

===============================================================================
