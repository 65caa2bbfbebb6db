--------------------------- MODULE SchedulerProofs ---------------------------
(* The invariants of Scheduler hold for every set of objects and every bound.  *)
EXTENDS Scheduler, FiniteSetTheorems, TLAPS

(* The parts of TypeOK: the objects, the ticks and the rest.                   *)
ObjectsTyped ==
    /\ busy \in [AO -> BOOLEAN]
    /\ status \in [AO -> {"pending", "done", "stop", "suspend"}]
    /\ isIn \in [AO -> {"none", "ready", "timer"}] /\ ahead \in [AO -> SUBSET AO]
    /\ given \subseteq Active /\ sem \in Nat /\ callback \in BOOLEAN

TimeTyped ==
    /\ tick \in 0 .. Wrap - 1 /\ due \in [Timer -> 0 .. Wrap - 1]
    /\ left \in [Timer -> Int] /\ now \in 0 .. Wrap - 1
    /\ waitTicks \in 0 .. Wrap - Half - 1

ThreadTyped ==
    /\ pc \in {"idle", "timers", "pop", "wait", "popAfter", "run", "after", "suspended",
               "resumed", "cancelWait", "cancelCheck", "end", "endCancel", "dead"}
    /\ cur \in AO \cup {None} /\ next \in Timer \cup {None}
    /\ target \in Active \cup {None} /\ nwait \in Nat
    /\ calls \in 0 .. MaxRunCalls /\ runs \in Nat

FlagsTyped ==
    /\ {open, blocking, doStop, doSuspend, suspended} \subseteq BOOLEAN
    /\ resumeSem \in Nat /\ commands \in 0 .. MaxCommands
    /\ at \in [Controls -> {"idle", "stopStatus", "suspendStatus", "stopResume", "stop",
                            "suspend"}]

(* What the scheduler's thread relies on where it is.                          *)
Settled ==
    /\ IF pc \in {"cancelWait", "cancelCheck"} THEN target \in given \cup Ready ELSE nwait = 0
    /\ pc \in {"pop", "wait"} /\ next # None => isIn[next] = "timer"
    /\ pc = "run" => cur \in AO
    /\ cur = Stopper => pc = "run" /\ ~busy[Stopper] /\ isIn[Stopper] = "none"

(* What is promised of the objects.                                            *)
ObjectsRight == ObjectsTyped /\ SemaphoreCountsReady /\ NoRequestLost /\ CallbackWhenReady

(* The inductive invariant.                                                    *)
IInv == ObjectsRight /\ TimeTyped /\ ThreadTyped /\ FlagsTyped /\ Settled

(* TypeOK is the conjunction of its parts.                                    *)
LEMMA TypedParts == TypeOK <=> ObjectsTyped /\ TimeTyped /\ ThreadTyped /\ FlagsTyped
BY DEF TypeOK, ObjectsTyped, TimeTyped, ThreadTyped, FlagsTyped

------------------------------------------------------------------------------
(* The ready queue.                                                            *)

(* The ready queue is finite.                                                 *)
LEMMA ReadyFinite == IsFiniteSet(Ready) /\ Cardinality(Ready) \in Nat
<1>1. IsFiniteSet(AO)
  BY FS_AddElement, ObjectAssumption DEF ObjectAssumption, AO
<1>2. Ready \subseteq AO
  BY DEF Ready, Queued
<1> QED  BY <1>1, <1>2, FS_Subset, FS_CardinalityType

(* One more element in the ready queue.                                        *)
LEMMA ReadyGains ==
    ASSUME ObjectsTyped, NEW a \in AO, isIn[a] # "ready", isIn' = [isIn EXCEPT ![a] = "ready"]
    PROVE  Cardinality(Ready') = Cardinality(Ready) + 1
<1>1. Ready' = Ready \cup {a} /\ a \notin Ready
  BY DEF Ready, Queued, ObjectsTyped
<1> QED  BY <1>1, ReadyFinite, FS_AddElement

(* Another queue gains or loses an element.                                    *)
LEMMA ReadyKeeps ==
    ASSUME ObjectsTyped, NEW a \in AO, NEW q \in {"none", "timer"}, isIn[a] # "ready",
           isIn' = [isIn EXCEPT ![a] = q]
    PROVE  Ready' = Ready
BY DEF Ready, Queued, ObjectsTyped

------------------------------------------------------------------------------
(* What a step does to the objects.                                            *)

(* The threshold is a tick count.                                             *)
LEMMA HalfBound == Half \in 0 .. Wrap - 1 /\ Wrap \in Nat /\ Wrap > 1
BY TimeAssumption DEF TimeAssumption, Half

(* A difference of ticks is a tick count.                                     *)
LEMMA ModBound == ASSUME NEW x \in Int PROVE x % Wrap \in 0 .. Wrap - 1
BY HalfBound

(* The stopper is an object of its own.                                       *)
LEMMA StopperApart ==
    Stopper \in AO /\ Stopper \notin Active /\ Stopper \notin Timer /\ Stopper # None
BY ObjectAssumption DEF ObjectAssumption, AO, Object

(* No object changes, and every wait is accounted for.                         *)
LEMMA ObjectsKept ==
    ASSUME ObjectsRight, Waits \in Nat, UNCHANGED objects, Waits' = Waits
    PROVE  ObjectsRight' /\ Ready' = Ready
<1>0. Ready' = Ready
  BY DEF Ready, Queued, objects
<1>1. ObjectsTyped'
  BY DEF ObjectsRight, ObjectsTyped, objects
<1>2. SemaphoreCountsReady'
  BY <1>0 DEF ObjectsRight, SemaphoreCountsReady, objects, ObjectsTyped
<1>3. NoRequestLost'
  BY DEF ObjectsRight, NoRequestLost, objects
<1>4. CallbackWhenReady'
  BY <1>0 DEF ObjectsRight, CallbackWhenReady, objects
<1> QED  BY <1>0, <1>1, <1>2, <1>3, <1>4 DEF ObjectsRight

(* PendComplete, by the thread that has the request or by the scheduler's.     *)
LEMMA RequestCompleted ==
    ASSUME ObjectsRight, Waits \in Nat, NEW a \in AO, NEW reason \in {"done", "stop", "suspend"},
           PendComplete(a, reason), given' = given \ {a}, Waits' = Waits
    PROVE  ObjectsRight' /\ Ready' = Ready \cup {a} /\ isIn' = [isIn EXCEPT ![a] = "ready"]
                         /\ isIn[a] = "none"
<1>1. isIn' = [isIn EXCEPT ![a] = "ready"] /\ isIn[a] = "none"
  BY DEF PendComplete, Pending, Add
<1>2. Ready' = Ready \cup {a}
  BY <1>1 DEF Ready, Queued, ObjectsRight, ObjectsTyped
<1>3. Cardinality(Ready') = Cardinality(Ready) + 1
  BY <1>1, ReadyGains DEF ObjectsRight
<1>4. ObjectsTyped'
  <2>1. ahead' \in [AO -> SUBSET AO]
    BY DEF ObjectsRight, ObjectsTyped, PendComplete, Add, Queued
  <2>2. status' \in [AO -> {"pending", "done", "stop", "suspend"}]
    BY DEF ObjectsRight, ObjectsTyped, PendComplete
  <2>3. isIn' \in [AO -> {"none", "ready", "timer"}]
    BY <1>1 DEF ObjectsRight, ObjectsTyped
  <2>4. given' \subseteq Active /\ sem' \in Nat
    BY DEF ObjectsRight, ObjectsTyped, PendComplete
  <2>5. callback' \in BOOLEAN
    BY DEF PendComplete
  <2>6. busy' \in [AO -> BOOLEAN]
    BY DEF ObjectsRight, ObjectsTyped, PendComplete
  <2> QED  BY <2>1, <2>2, <2>3, <2>4, <2>5, <2>6 DEF ObjectsTyped
<1>5. SemaphoreCountsReady'
  BY <1>3, ReadyFinite DEF ObjectsRight, SemaphoreCountsReady, PendComplete, ObjectsTyped
<1>6. NoRequestLost'
  BY <1>1 DEF ObjectsRight, NoRequestLost, PendComplete, Pending, ObjectsTyped
<1>7. CallbackWhenReady'
  BY DEF CallbackWhenReady, PendComplete
<1> QED  BY <1>1, <1>2, <1>4, <1>5, <1>6, <1>7 DEF ObjectsRight

(* An object that no other thread has is run or cancelled.                     *)
LEMMA ObjectLeaves ==
    ASSUME ObjectsRight, Waits \in Nat, NEW a \in AO, a \notin given, SetIdle(a), given' = given,
           status' = status \/ status' = [status EXCEPT ![a] = "done"],
           callback' \in BOOLEAN, callback' => callback, sem' \in Nat
    PROVE  /\ ObjectsTyped' /\ NoRequestLost' /\ CallbackWhenReady'
           /\ Ready' = Ready \ {a} /\ isIn' = [isIn EXCEPT ![a] = "none"]
           /\ Cardinality(Ready') = Cardinality(Ready) - (IF a \in Ready THEN 1 ELSE 0)
<1>1. isIn' = [isIn EXCEPT ![a] = "none"] /\ busy' = [busy EXCEPT ![a] = FALSE]
  BY DEF SetIdle, Leaves
<1>2. Ready' = Ready \ {a}
  BY <1>1 DEF Ready, Queued, ObjectsRight, ObjectsTyped
<1>3. Cardinality(Ready') = Cardinality(Ready) - (IF a \in Ready THEN 1 ELSE 0)
  <2>1. CASE a \in Ready
    BY <1>2, <2>1, ReadyFinite, FS_RemoveElement
  <2>2. CASE a \notin Ready
    BY <1>2, <2>2, ReadyFinite
  <2> QED  BY <2>1, <2>2
<1>4. ObjectsTyped'
  <2>1. ahead' \in [AO -> SUBSET AO]
    BY DEF ObjectsRight, ObjectsTyped, SetIdle, Leaves
  <2> QED  BY <1>1, <2>1 DEF ObjectsRight, ObjectsTyped
<1>5. NoRequestLost'
  BY <1>1 DEF ObjectsRight, NoRequestLost, ObjectsTyped
<1>6. CallbackWhenReady'
  BY <1>2 DEF ObjectsRight, CallbackWhenReady
<1> QED  BY <1>1, <1>2, <1>3, <1>4, <1>5, <1>6

(* The bounds are numbers.                                                    *)
LEMMA BoundsNat == MaxRunCalls \in Nat /\ MaxCommands \in Nat
BY TimeAssumption DEF TimeAssumption

(* So is the number of waits.                                                 *)
LEMMA WaitsNat == IInv => Waits \in Nat
BY DEF IInv, ThreadTyped, Waits
------------------------------------------------------------------------------
(* The steps that change no object.                                            *)

(* What is left of a delay is below what the tick count can tell.             *)
LEMMA TimersUpdatedStep == ASSUME IInv, TimersUpdated PROVE IInv'
<1>0. waitTicks' \in 0 .. Wrap - Half - 1
  <2>1. \A t \in Timer : Elapsed(t) \in 0 .. Wrap - 1
    BY ModBound DEF IInv, TimeTyped, Elapsed
  <2> QED  BY <2>1, HalfBound DEF IInv, TimeTyped, TimersUpdated, DelayTicks
<1>1. Waits' = Waits
  BY DEF IInv, Settled, Waits, TimersUpdated, TimerTop, Queued, thread
<1>2. ObjectsRight' /\ Ready' = Ready
  BY <1>1, ObjectsKept, WaitsNat DEF IInv, TimersUpdated, TimerTop, Queued
<1>3. TimeTyped'
  BY <1>0, HalfBound DEF IInv, TimeTyped, TimersUpdated, TimerTop, Queued, time, thread
<1>4. ThreadTyped'
  BY DEF IInv, ThreadTyped, TimersUpdated, TimerTop, Queued, thread
<1>5. FlagsTyped'
  BY DEF IInv, FlagsTyped, TimersUpdated, TimerTop, Queued, flags, mode, others
<1>6. Settled'
  BY <1>2 DEF IInv, Settled, TimersUpdated, TimerTop, Queued, objects, thread
<1> QED  BY <1>2, <1>3, <1>4, <1>5, <1>6 DEF IInv

(* The thread goes to the wait, or home.                                      *)
LEMMA NothingReadyStep == ASSUME IInv, NothingReady PROVE IInv'
<1>1. Waits' = Waits
  BY DEF IInv, Settled, Waits, NothingReady, thread
<1>2. ObjectsRight' /\ Ready' = Ready
  BY <1>1, ObjectsKept, WaitsNat DEF IInv, NothingReady
<1>3. TimeTyped'
  BY HalfBound DEF IInv, TimeTyped, NothingReady, time, thread
<1>4. ThreadTyped'
  BY DEF IInv, ThreadTyped, NothingReady, thread
<1>5. FlagsTyped'
  BY DEF IInv, FlagsTyped, NothingReady, flags, mode, others
<1>6. Settled'
  BY <1>2 DEF IInv, Settled, NothingReady, objects, thread
<1> QED  BY <1>2, <1>3, <1>4, <1>5, <1>6 DEF IInv

(* The next turn, or a suspension.                                            *)
LEMMA AfterRunStep == ASSUME IInv, AfterRun PROVE IInv'
<1>1. Waits' = Waits
  BY DEF IInv, Settled, Waits, AfterRun, LoopOn, thread
<1>2. ObjectsRight' /\ Ready' = Ready
  BY <1>1, ObjectsKept, WaitsNat DEF IInv, AfterRun, LoopOn
<1>3. TimeTyped'
  BY DEF IInv, TimeTyped, AfterRun, LoopOn, time, thread
<1>4. ThreadTyped'
  BY DEF IInv, ThreadTyped, AfterRun, LoopOn, thread
<1>5. FlagsTyped'
  BY DEF IInv, FlagsTyped, AfterRun, LoopOn, flags, mode, others
<1>6. Settled'
  BY <1>2 DEF IInv, Settled, AfterRun, LoopOn, objects, thread
<1> QED  BY <1>2, <1>3, <1>4, <1>5, <1>6 DEF IInv

(* The signal to resume is taken.                                             *)
LEMMA ResumeWaitedStep == ASSUME IInv, ResumeWaited PROVE IInv'
<1>1. Waits' = Waits
  BY DEF IInv, Settled, Waits, ResumeWaited, thread
<1>2. ObjectsRight' /\ Ready' = Ready
  BY <1>1, ObjectsKept, WaitsNat DEF IInv, ResumeWaited
<1>3. TimeTyped'
  BY DEF IInv, TimeTyped, ResumeWaited, time, thread
<1>4. ThreadTyped'
  BY DEF IInv, ThreadTyped, ResumeWaited, thread
<1>5. FlagsTyped'
  BY DEF IInv, FlagsTyped, ResumeWaited, flags, mode, others
<1>6. Settled'
  BY <1>2 DEF IInv, Settled, ResumeWaited, objects, thread
<1> QED  BY <1>2, <1>3, <1>4, <1>5, <1>6 DEF IInv

(* The thread is no longer suspended.                                         *)
LEMMA ResumedStep == ASSUME IInv, Resumed PROVE IInv'
<1>1. Waits' = Waits
  BY DEF IInv, Settled, Waits, Resumed, LoopOn, thread
<1>2. ObjectsRight' /\ Ready' = Ready
  BY <1>1, ObjectsKept, WaitsNat DEF IInv, Resumed, LoopOn
<1>3. TimeTyped'
  BY DEF IInv, TimeTyped, Resumed, LoopOn, time, thread
<1>4. ThreadTyped'
  BY DEF IInv, ThreadTyped, Resumed, LoopOn, thread
<1>5. FlagsTyped'
  BY DEF IInv, FlagsTyped, Resumed, LoopOn, flags, mode, others
<1>6. Settled'
  BY <1>2 DEF IInv, Settled, Resumed, LoopOn, objects, thread
<1> QED  BY <1>2, <1>3, <1>4, <1>5, <1>6 DEF IInv

(* A Run returns.                                                             *)
LEMMA RunReturnsStep == ASSUME IInv, RunReturns PROVE IInv'
<1>1. Waits' = Waits
  BY DEF IInv, Settled, Waits, RunReturns, thread
<1>2. ObjectsRight' /\ Ready' = Ready
  BY <1>1, ObjectsKept, WaitsNat DEF IInv, RunReturns
<1>3. TimeTyped'
  BY DEF IInv, TimeTyped, RunReturns, time, thread
<1>4. ThreadTyped'
  BY BoundsNat DEF IInv, ThreadTyped, RunReturns, thread
<1>5. FlagsTyped'
  BY DEF IInv, FlagsTyped, RunReturns, flags, mode, others
<1>6. Settled'
  BY <1>2, StopperApart DEF IInv, Settled, RunReturns, objects, thread
<1> QED  BY <1>2, <1>3, <1>4, <1>5, <1>6 DEF IInv

(* A Run leaves.                                                              *)
LEMMA RunLeavesStep == ASSUME IInv, RunLeaves PROVE IInv'
<1>1. Waits' = Waits
  BY DEF IInv, Settled, Waits, RunLeaves, thread
<1>2. ObjectsRight' /\ Ready' = Ready
  BY <1>1, ObjectsKept, WaitsNat DEF IInv, RunLeaves
<1>3. TimeTyped'
  BY DEF IInv, TimeTyped, RunLeaves, time, thread
<1>4. ThreadTyped'
  BY BoundsNat DEF IInv, ThreadTyped, RunLeaves, thread
<1>5. FlagsTyped'
  BY DEF IInv, FlagsTyped, RunLeaves, flags, mode, others
<1>6. Settled'
  BY <1>2, StopperApart DEF IInv, Settled, RunLeaves, objects, thread
<1> QED  BY <1>2, <1>3, <1>4, <1>5, <1>6 DEF IInv

(* The request to wait for is the one the other thread has.                   *)
LEMMA CancelRemoteStep == ASSUME IInv, NEW a \in Active, CancelRemote(a) PROVE IInv'
<1>1. Waits' = Waits
  BY DEF IInv, Settled, Waits, CancelRemote, Call, MayCall, thread
<1>2. ObjectsRight' /\ Ready' = Ready
  BY <1>1, ObjectsKept, WaitsNat DEF IInv, CancelRemote, Call, MayCall
<1>3. TimeTyped'
  BY DEF IInv, TimeTyped, CancelRemote, Call, MayCall, time, thread
<1>4. ThreadTyped'
  BY BoundsNat DEF IInv, ThreadTyped, CancelRemote, Call, MayCall, thread
<1>5. FlagsTyped'
  BY DEF IInv, FlagsTyped, CancelRemote, Call, MayCall, flags, mode, others
<1>6. Settled'
  BY <1>2 DEF IInv, Settled, CancelRemote, Call, MayCall, objects, thread
<1> QED  BY <1>2, <1>3, <1>4, <1>5, <1>6 DEF IInv

(* One more wait.                                                             *)
LEMMA StillPendingStep == ASSUME IInv, StillPending PROVE IInv'
<1>1. Waits' = Waits
  BY DEF IInv, Settled, Waits, StillPending, thread
<1>2. ObjectsRight' /\ Ready' = Ready
  BY <1>1, ObjectsKept, WaitsNat DEF IInv, StillPending
<1>3. TimeTyped'
  BY DEF IInv, TimeTyped, StillPending, time, thread
<1>4. ThreadTyped'
  BY DEF IInv, ThreadTyped, StillPending, thread
<1>5. FlagsTyped'
  BY DEF IInv, FlagsTyped, StillPending, flags, mode, others
<1>6. Settled'
  BY <1>2 DEF IInv, Settled, StillPending, objects, thread
<1> QED  BY <1>2, <1>3, <1>4, <1>5, <1>6 DEF IInv

(* A thread that stops or suspends the scheduler starts.                      *)
LEMMA CommandStep ==
    ASSUME IInv, NEW c \in Controls, NEW place \in {"stopStatus", "suspendStatus"},
           Command(c, place)
    PROVE  IInv'
<1>1. Waits' = Waits
  BY DEF IInv, Settled, Waits, Command, GoesTo, thread
<1>2. ObjectsRight' /\ Ready' = Ready
  BY <1>1, ObjectsKept, WaitsNat DEF IInv, Command, GoesTo
<1>3. TimeTyped'
  BY DEF IInv, TimeTyped, Command, GoesTo, time, thread
<1>4. ThreadTyped'
  BY DEF IInv, ThreadTyped, Command, GoesTo, thread
<1>5. FlagsTyped'
  BY BoundsNat DEF IInv, FlagsTyped, Command, GoesTo, flags, mode, others
<1>6. Settled'
  BY <1>2 DEF IInv, Settled, Command, GoesTo, objects, thread
<1> QED  BY <1>2, <1>3, <1>4, <1>5, <1>6 DEF IInv

(* It goes on if the stopper is pending.                                      *)
LEMMA CheckStatusStep == ASSUME IInv, NEW c \in Controls, CheckStatus(c) PROVE IInv'
<1>1. Waits' = Waits
  BY DEF IInv, Settled, Waits, CheckStatus, GoesTo, thread
<1>2. ObjectsRight' /\ Ready' = Ready
  BY <1>1, ObjectsKept, WaitsNat DEF IInv, CheckStatus, GoesTo
<1>3. TimeTyped'
  BY DEF IInv, TimeTyped, CheckStatus, GoesTo, time, thread
<1>4. ThreadTyped'
  BY DEF IInv, ThreadTyped, CheckStatus, GoesTo, thread
<1>5. FlagsTyped'
  BY DEF IInv, FlagsTyped, CheckStatus, GoesTo, flags, mode, others
<1>6. Settled'
  BY <1>2 DEF IInv, Settled, CheckStatus, GoesTo, objects, thread
<1> QED  BY <1>2, <1>3, <1>4, <1>5, <1>6 DEF IInv

(* It resumes the scheduler before it stops it.                               *)
LEMMA StopResumesStep == ASSUME IInv, NEW c \in Controls, StopResumes(c) PROVE IInv'
<1>1. Waits' = Waits
  BY DEF IInv, Settled, Waits, StopResumes, GoesTo, thread
<1>2. ObjectsRight' /\ Ready' = Ready
  BY <1>1, ObjectsKept, WaitsNat DEF IInv, StopResumes, GoesTo
<1>3. TimeTyped'
  BY DEF IInv, TimeTyped, StopResumes, GoesTo, time, thread
<1>4. ThreadTyped'
  BY DEF IInv, ThreadTyped, StopResumes, GoesTo, thread
<1>5. FlagsTyped'
  BY DEF IInv, FlagsTyped, StopResumes, GoesTo, flags, mode, others
<1>6. Settled'
  BY <1>2 DEF IInv, Settled, StopResumes, GoesTo, objects, thread
<1> QED  BY <1>2, <1>3, <1>4, <1>5, <1>6 DEF IInv

(* A thread resumes the scheduler.                                            *)
LEMMA ResumeSchedulerStep == ASSUME IInv, NEW c \in Controls, ResumeScheduler(c) PROVE IInv'
<1>1. Waits' = Waits
  BY DEF IInv, Settled, Waits, ResumeScheduler, thread
<1>2. ObjectsRight' /\ Ready' = Ready
  BY <1>1, ObjectsKept, WaitsNat DEF IInv, ResumeScheduler
<1>3. TimeTyped'
  BY DEF IInv, TimeTyped, ResumeScheduler, time, thread
<1>4. ThreadTyped'
  BY DEF IInv, ThreadTyped, ResumeScheduler, thread
<1>5. FlagsTyped'
  BY BoundsNat DEF IInv, FlagsTyped, ResumeScheduler, flags, mode, others
<1>6. Settled'
  BY <1>2 DEF IInv, Settled, ResumeScheduler, objects, thread
<1> QED  BY <1>2, <1>3, <1>4, <1>5, <1>6 DEF IInv

(* The tick count stays in its range.                                         *)
LEMMA TickStep == ASSUME IInv, Tick PROVE IInv'
<1>1. Waits' = Waits
  BY DEF IInv, Settled, Waits, Tick, thread
<1>2. ObjectsRight' /\ Ready' = Ready
  BY <1>1, ObjectsKept, WaitsNat DEF IInv, Tick
<1>3. TimeTyped'
  BY ModBound, HalfBound DEF IInv, TimeTyped, Tick, time, thread
<1>4. ThreadTyped'
  BY DEF IInv, ThreadTyped, Tick, thread
<1>5. FlagsTyped'
  BY DEF IInv, FlagsTyped, Tick, flags, mode, others
<1>6. Settled'
  BY <1>2 DEF IInv, Settled, Tick, objects, thread
<1> QED  BY <1>2, <1>3, <1>4, <1>5, <1>6 DEF IInv

------------------------------------------------------------------------------
(* The steps that change an object.                                            *)

(* A request is made, and may be given to another thread.                      *)
LEMMA RequestMade ==
    ASSUME ObjectsRight, Waits \in Nat, NEW a \in AO, ~busy[a],
           busy' = [busy EXCEPT ![a] = TRUE], status' = [status EXCEPT ![a] = "pending"],
           UNCHANGED <<isIn, ahead, sem, callback>>,
           given' = given \/ (given' = given \cup {a} /\ a \in Active), Waits' = Waits
    PROVE  ObjectsRight' /\ Ready' = Ready
<1>1. Ready' = Ready
  BY DEF Ready, Queued
<1>2. isIn[a] = "none" /\ a \notin given
  BY DEF ObjectsRight, ObjectsTyped, NoRequestLost
<1>3. ObjectsTyped'
  <2>1. busy' \in [AO -> BOOLEAN]
    BY DEF ObjectsRight, ObjectsTyped
  <2>2. status' \in [AO -> {"pending", "done", "stop", "suspend"}]
    BY DEF ObjectsRight, ObjectsTyped
  <2>3. given' \subseteq Active
    BY DEF ObjectsRight, ObjectsTyped
  <2> QED  BY <2>1, <2>2, <2>3 DEF ObjectsRight, ObjectsTyped
<1>4. SemaphoreCountsReady'
  BY <1>1 DEF ObjectsRight, SemaphoreCountsReady
<1>5. NoRequestLost'
  BY <1>2 DEF ObjectsRight, NoRequestLost, ObjectsTyped
<1>6. CallbackWhenReady'
  BY <1>1 DEF ObjectsRight, CallbackWhenReady
<1> QED  BY <1>1, <1>3, <1>4, <1>5, <1>6 DEF ObjectsRight

(* The stopper is made pending, as any request.                               *)
LEMMA StartSchedulerStep == ASSUME IInv, StartScheduler PROVE IInv'
<1>1. Waits' = Waits
  BY DEF IInv, Settled, Waits, StartScheduler, BeginScheduling, LoopOn, thread
<1>2. ObjectsRight' /\ Ready' = Ready
  BY <1>1, RequestMade, WaitsNat, StopperApart DEF IInv, StartScheduler, BeginScheduling
<1>3. TimeTyped'
  BY DEF IInv, TimeTyped, StartScheduler, BeginScheduling, LoopOn, time, thread
<1>4. ThreadTyped'
  BY BoundsNat DEF IInv, ThreadTyped, StartScheduler, BeginScheduling, LoopOn, thread
<1>5. FlagsTyped'
  BY DEF IInv, FlagsTyped, StartScheduler, BeginScheduling, LoopOn, flags, mode, others
<1>6. Settled'
  BY <1>2 DEF IInv, Settled, StartScheduler, BeginScheduling, LoopOn, thread
<1> QED  BY <1>2, <1>3, <1>4, <1>5, <1>6 DEF IInv

(* So it is at the first of a row of non-blocking runs.                       *)
LEMMA RunSchedulerNonBlockingStep == ASSUME IInv, RunSchedulerNonBlocking PROVE IInv'
<1>1. Waits' = Waits
  BY DEF IInv, Settled, Waits, RunSchedulerNonBlocking, BeginScheduling, thread
<1>2. ObjectsRight' /\ Ready' = Ready
  <2>1. CASE BeginScheduling(FALSE) /\ ~busy[Stopper]
    BY <1>1, <2>1, RequestMade, WaitsNat, StopperApart DEF IInv, BeginScheduling
  <2>2. CASE UNCHANGED objects
    BY <1>1, <2>2, ObjectsKept, WaitsNat DEF IInv
  <2> QED  BY <2>1, <2>2 DEF RunSchedulerNonBlocking
<1>3. TimeTyped'
  BY DEF IInv, TimeTyped, RunSchedulerNonBlocking, BeginScheduling, time, thread
<1>4. ThreadTyped'
  BY BoundsNat DEF IInv, ThreadTyped, RunSchedulerNonBlocking, BeginScheduling, thread
<1>5. FlagsTyped'
  BY DEF IInv, FlagsTyped, RunSchedulerNonBlocking, BeginScheduling, flags, mode, others
<1>6. Settled'
  BY <1>2 DEF IInv, Settled, RunSchedulerNonBlocking, BeginScheduling, thread, objects
<1> QED  BY <1>2, <1>3, <1>4, <1>5, <1>6 DEF IInv

(* A request is made by an active object.                                     *)
LEMMA PendForExecStep == ASSUME IInv, NEW a \in Active, PendForExec(a) PROVE IInv'
<1>1. Waits' = Waits
  BY DEF IInv, Settled, Waits, PendForExec, Call, MayCall, thread
<1>2. ObjectsRight' /\ Ready' = Ready
  BY <1>1, RequestMade, WaitsNat DEF IInv, PendForExec, AO, Object
<1>3. TimeTyped'
  BY DEF IInv, TimeTyped, PendForExec, Call, MayCall, time, thread
<1>4. ThreadTyped'
  BY BoundsNat DEF IInv, ThreadTyped, PendForExec, Call, MayCall, thread
<1>5. FlagsTyped'
  BY DEF IInv, FlagsTyped, PendForExec, Call, MayCall, flags, mode, others
<1>6. Settled'
  BY <1>2, StopperApart DEF IInv, Settled, PendForExec, Call, MayCall, thread, ObjectsRight,
     ObjectsTyped
<1> QED  BY <1>2, <1>3, <1>4, <1>5, <1>6 DEF IInv

(* It is completed by the thread of the scheduler.                            *)
LEMMA CompleteLocalStep == ASSUME IInv, NEW a \in Active, CompleteLocal(a) PROVE IInv'
<1>1. Waits' = Waits
  BY DEF IInv, Settled, Waits, CompleteLocal, Call, MayCall, thread
<1>2. ObjectsRight' /\ Ready' = Ready \cup {a} /\ isIn' = [isIn EXCEPT ![a] = "ready"]
                    /\ isIn[a] = "none" /\ busy' = busy /\ given' = given \ {a}
  <2>1. given' = given \ {a} /\ a \in AO /\ PendComplete(a, "done")
    BY DEF CompleteLocal, AO, Object
  <2> QED  BY <1>1, <2>1, RequestCompleted, WaitsNat DEF IInv, PendComplete
<1>3. TimeTyped'
  BY DEF IInv, TimeTyped, CompleteLocal, Call, MayCall, time, thread
<1>4. ThreadTyped'
  BY BoundsNat DEF IInv, ThreadTyped, CompleteLocal, Call, MayCall, thread
<1>5. FlagsTyped'
  BY DEF IInv, FlagsTyped, CompleteLocal, Call, MayCall, flags, mode, others
<1>6. Settled'
  BY <1>2, StopperApart DEF IInv, Settled, CompleteLocal, Call, MayCall, thread, ObjectsRight,
     ObjectsTyped, PendComplete, Pending
<1> QED  BY <1>2, <1>3, <1>4, <1>5, <1>6 DEF IInv

(* It is completed by the thread it was given to, which then has it no more.  *)
LEMMA CompleteRemoteStep == ASSUME IInv, NEW a \in Active, CompleteRemote(a) PROVE IInv'
<1>1. Waits' = Waits
  BY DEF IInv, Settled, Waits, CompleteRemote, thread
<1>2. ObjectsRight' /\ Ready' = Ready \cup {a} /\ isIn' = [isIn EXCEPT ![a] = "ready"]
                    /\ isIn[a] = "none" /\ busy' = busy /\ given' = given \ {a}
  <2>1. given' = given \ {a} /\ a \in AO /\ PendComplete(a, "done")
    BY DEF CompleteRemote, AO, Object
  <2> QED  BY <1>1, <2>1, RequestCompleted, WaitsNat DEF IInv, PendComplete
<1>3. TimeTyped'
  BY DEF IInv, TimeTyped, CompleteRemote, time, thread
<1>4. ThreadTyped'
  BY DEF IInv, ThreadTyped, CompleteRemote, thread
<1>5. FlagsTyped'
  BY DEF IInv, FlagsTyped, CompleteRemote, flags, mode, others
<1>6. Settled'
  BY <1>2, StopperApart DEF IInv, Settled, CompleteRemote, thread, ObjectsRight, ObjectsTyped,
     PendComplete, Pending
<1> QED  BY <1>2, <1>3, <1>4, <1>5, <1>6 DEF IInv

(* The stopper is completed by a Run.                                         *)
LEMMA StopInRunStep == ASSUME IInv, StopInRun PROVE IInv'
<1>1. Waits' = Waits
  BY DEF IInv, Settled, Waits, StopInRun, Call, MayCall, thread
<1>2. ObjectsRight' /\ Ready' = Ready \cup {Stopper} /\ isIn' = [isIn EXCEPT ![Stopper] = "ready"]
                    /\ isIn[Stopper] = "none" /\ busy' = busy /\ given' = given \ {Stopper}
  <2>1. given' = given \ {Stopper} /\ PendComplete(Stopper, "stop")
    BY StopperApart DEF StopInRun, IInv, ObjectsRight, ObjectsTyped
  <2> QED  BY <1>1, <2>1, RequestCompleted, WaitsNat, StopperApart DEF IInv, PendComplete
<1>3. TimeTyped'
  BY DEF IInv, TimeTyped, StopInRun, Call, MayCall, time, thread
<1>4. ThreadTyped'
  BY BoundsNat DEF IInv, ThreadTyped, StopInRun, Call, MayCall, thread
<1>5. FlagsTyped'
  BY DEF IInv, FlagsTyped, StopInRun, Call, MayCall, flags, mode, others
<1>6. Settled'
  BY <1>2, StopperApart DEF IInv, Settled, StopInRun, Call, MayCall, thread, ObjectsRight,
     ObjectsTyped, PendComplete, Pending
<1> QED  BY <1>2, <1>3, <1>4, <1>5, <1>6 DEF IInv

(* The stopper is completed, or the call leaves.                               *)
LEMMA CompleteStopperStep == ASSUME IInv, NEW c \in Controls, CompleteStopper(c) PROVE IInv'
<1>1. Waits' = Waits
  BY DEF CompleteStopper, Waits, thread
<1>2. CASE UNCHANGED objects
  <2>1. ObjectsRight' /\ Ready' = Ready
    BY <1>1, <1>2, ObjectsKept, WaitsNat DEF IInv
  <2> QED  BY <1>2, <2>1 DEF IInv, TimeTyped, ThreadTyped, FlagsTyped, Settled, CompleteStopper,
                             GoesTo, objects, time, thread, flags, mode
<1>3. CASE PendComplete(Stopper, at[c]) /\ UNCHANGED given
  <2>1. given' = given \ {Stopper} /\ at[c] \in {"done", "stop", "suspend"}
    BY <1>3, StopperApart DEF CompleteStopper, IInv, ObjectsRight, ObjectsTyped
  <2>2. ObjectsRight' /\ Ready' = Ready \cup {Stopper} /\ isIn' = [isIn EXCEPT ![Stopper] = "ready"]
                      /\ isIn[Stopper] = "none"
    BY <1>1, <1>3, <2>1, RequestCompleted, WaitsNat, StopperApart DEF IInv
  <2>3. Settled'
    BY <1>3, <2>2, StopperApart DEF IInv, Settled, CompleteStopper, thread, PendComplete, Pending,
                                     ObjectsRight, ObjectsTyped
  <2> QED  BY <2>2, <2>3 DEF IInv, TimeTyped, ThreadTyped, FlagsTyped, CompleteStopper,
                             GoesTo, time, thread, flags, mode
<1> QED  BY <1>2, <1>3 DEF CompleteStopper

(* The wait has ended and its element is still in the queue.                  *)
LEMMA SemWaitedStep == ASSUME IInv, SemWaited PROVE IInv'
<1>2. ObjectsRight' /\ Ready' = Ready
  <2>1. Ready' = Ready
    BY DEF SemWaited, Ready, Queued
  <2>2. sem' \in Nat /\ sem' + Waits' = sem + Waits
    BY DEF IInv, Settled, ThreadTyped, ObjectsRight, ObjectsTyped, SemWaited, Waits
  <2>3. ObjectsTyped'
    BY <2>2 DEF IInv, ObjectsRight, ObjectsTyped, SemWaited
  <2>4. NoRequestLost'
    BY DEF IInv, ObjectsRight, NoRequestLost, SemWaited
  <2> QED  BY <2>1, <2>2, <2>3, <2>4 DEF IInv, ObjectsRight, SemaphoreCountsReady,
              CallbackWhenReady, SemWaited
<1>3. TimeTyped'
  BY DEF IInv, TimeTyped, SemWaited, time, thread
<1>4. ThreadTyped'
  BY DEF IInv, ThreadTyped, SemWaited, thread
<1>5. FlagsTyped'
  BY DEF IInv, FlagsTyped, SemWaited, flags, mode, others
<1>6. Settled'
  BY <1>2 DEF IInv, Settled, SemWaited, thread
<1> QED  BY <1>2, <1>3, <1>4, <1>5, <1>6 DEF IInv

(* One wait more to restore, one signal less.                                 *)
LEMMA CancelWaitedStep == ASSUME IInv, CancelWaited PROVE IInv'
<1>2. ObjectsRight' /\ Ready' = Ready
  <2>1. Ready' = Ready
    BY DEF CancelWaited, Ready, Queued
  <2>2. sem' \in Nat /\ sem' + Waits' = sem + Waits
    BY DEF IInv, Settled, ThreadTyped, ObjectsRight, ObjectsTyped, CancelWaited, Waits
  <2>3. ObjectsTyped'
    BY <2>2 DEF IInv, ObjectsRight, ObjectsTyped, CancelWaited
  <2>4. NoRequestLost'
    BY DEF IInv, ObjectsRight, NoRequestLost, CancelWaited
  <2> QED  BY <2>1, <2>2, <2>3, <2>4 DEF IInv, ObjectsRight, SemaphoreCountsReady,
              CallbackWhenReady, CancelWaited
<1>3. TimeTyped'
  BY DEF IInv, TimeTyped, CancelWaited, time, thread
<1>4. ThreadTyped'
  BY DEF IInv, ThreadTyped, CancelWaited, thread
<1>5. FlagsTyped'
  BY DEF IInv, FlagsTyped, CancelWaited, flags, mode, others
<1>6. Settled'
  BY <1>2 DEF IInv, Settled, CancelWaited, thread
<1> QED  BY <1>2, <1>3, <1>4, <1>5, <1>6 DEF IInv

(* A callback is kept if nothing is ready.                                    *)
LEMMA RegisterForCallbackStep == ASSUME IInv, RegisterForCallback PROVE IInv'
<1>1. Waits' = Waits
  BY DEF IInv, Settled, Waits, RegisterForCallback, Call, MayCall, thread
<1>2. ObjectsRight' /\ Ready' = Ready
  <2>1. Ready' = Ready
    BY DEF RegisterForCallback, Ready, Queued
  <2>2. ObjectsTyped'
    BY DEF IInv, ObjectsRight, ObjectsTyped, RegisterForCallback
  <2>3. NoRequestLost'
    BY DEF IInv, ObjectsRight, NoRequestLost, RegisterForCallback
  <2>4. SemaphoreCountsReady' /\ CallbackWhenReady'
    BY <1>1, <2>1 DEF IInv, ObjectsRight, SemaphoreCountsReady, CallbackWhenReady,
       RegisterForCallback
  <2> QED  BY <2>1, <2>2, <2>3, <2>4 DEF ObjectsRight
<1>3. TimeTyped'
  BY DEF IInv, TimeTyped, RegisterForCallback, Call, MayCall, time, thread
<1>4. ThreadTyped'
  BY BoundsNat DEF IInv, ThreadTyped, RegisterForCallback, Call, MayCall, thread
<1>5. FlagsTyped'
  BY DEF IInv, FlagsTyped, RegisterForCallback, Call, MayCall, flags, mode, others
<1>6. Settled'
  BY <1>2 DEF IInv, Settled, RegisterForCallback, Call, MayCall, thread
<1> QED  BY <1>2, <1>3, <1>4, <1>5, <1>6 DEF IInv

(* CallRunExec of an object that was in the ready queue.                       *)
LEMMA RunFromReady ==
    ASSUME IInv, NEW a \in Ready, CallRunExec(a), nwait = 0, nwait' = nwait,
           UNCHANGED <<status, given, callback, time, due, now, target, flags, mode, others>>,
           sem' \in Nat, sem' + 1 = sem + Waits, runs' \in Nat
    PROVE  IInv'
<1>1. a \in AO /\ a \notin given
  BY DEF Ready, Queued, IInv, ObjectsRight, ObjectsTyped, NoRequestLost
<1>2. SetIdle(a) /\ callback' \in BOOLEAN
  BY DEF CallRunExec, SetIdle, IInv, ObjectsRight, ObjectsTyped
<1>3. /\ ObjectsTyped' /\ NoRequestLost' /\ CallbackWhenReady'
      /\ isIn' = [isIn EXCEPT ![a] = "none"]
      /\ Cardinality(Ready') = Cardinality(Ready) - 1
  BY <1>1, <1>2, ObjectLeaves, WaitsNat DEF IInv
<1>4. SemaphoreCountsReady'
  <2>1. Waits' = 0
    BY DEF Waits, CallRunExec
  <2> QED  BY <1>3, <2>1, ReadyFinite DEF IInv, ObjectsRight, ObjectsTyped, SemaphoreCountsReady
<1>5. TimeTyped' /\ FlagsTyped'
  BY HalfBound DEF IInv, TimeTyped, FlagsTyped, CallRunExec, time, flags, mode, others
<1>6. ThreadTyped'
  BY <1>1, BoundsNat DEF IInv, ThreadTyped, CallRunExec
<1>7. Settled'
  BY <1>1, <1>3 DEF IInv, Settled, CallRunExec, ObjectsRight, ObjectsTyped
<1> QED  BY <1>3, <1>4, <1>5, <1>6, <1>7 DEF IInv, ObjectsRight

(* The semaphore is taken and the first element run.                          *)
LEMMA PopTopStep == ASSUME IInv, PopTop PROVE IInv'
<1>1. PICK a \in AO : ReadyTop(a) /\ sem > 0 /\ sem' = sem - 1 /\ CallRunExec(a)
  BY DEF PopTop
<1>2. sem' \in Nat /\ sem' + 1 = sem + Waits /\ nwait = 0
  BY <1>1 DEF IInv, ObjectsRight, ObjectsTyped, Settled, PopTop, Waits
<1>3. runs' \in Nat
  BY DEF IInv, ThreadTyped, PopTop
<1> QED  BY <1>1, <1>2, <1>3, RunFromReady DEF PopTop, ReadyTop

(* The element of the wait that ended is run.                                 *)
LEMMA PopTopAfterWaitStep == ASSUME IInv, PopTopAfterWait PROVE IInv'
<1>1. PICK a \in AO : ReadyTop(a) /\ CallRunExec(a)
  BY DEF PopTopAfterWait
<1>2. sem' \in Nat /\ sem' + 1 = sem + Waits /\ nwait = 0
  BY DEF IInv, ObjectsRight, ObjectsTyped, Settled, PopTopAfterWait, Waits
<1>3. runs' \in Nat
  BY DEF IInv, ThreadTyped, PopTopAfterWait
<1> QED  BY <1>1, <1>2, <1>3, RunFromReady DEF PopTopAfterWait, ReadyTop

(* The timer whose time has come leaves the timer queue.                       *)
LEMMA WaitTimedOutStep == ASSUME IInv, WaitTimedOut PROVE IInv'
<1>1. next \in AO /\ next \in Timer /\ isIn[next] = "timer" /\ next \notin given /\ next \notin Ready
  BY DEF WaitTimedOut, IInv, Settled, ThreadTyped, ObjectsRight, NoRequestLost, Ready, Queued,
         AO, Object
<1>2. SetIdle(next) /\ sem' \in Nat /\ callback' \in BOOLEAN
  BY DEF WaitTimedOut, CallRunExec, SetIdle, IInv, ObjectsRight, ObjectsTyped
<1>3. status' = [status EXCEPT ![next] = "done"] /\ given' = given /\ callback' = callback
  BY DEF WaitTimedOut
<1>4. /\ ObjectsTyped' /\ NoRequestLost' /\ CallbackWhenReady'
      /\ isIn' = [isIn EXCEPT ![next] = "none"]
      /\ Cardinality(Ready') = Cardinality(Ready)
  BY <1>1, <1>2, <1>3, ObjectLeaves, WaitsNat, ReadyFinite DEF IInv
<1>5. SemaphoreCountsReady'
  <2>1. Waits' = Waits
    BY DEF Waits, WaitTimedOut, CallRunExec
  <2> QED  BY <1>4, <2>1 DEF IInv, ObjectsRight, SemaphoreCountsReady, WaitTimedOut
<1>6. TimeTyped'
  BY HalfBound DEF IInv, TimeTyped, WaitTimedOut, CallRunExec, NotQueued, time
<1>7. FlagsTyped'
  BY DEF IInv, FlagsTyped, WaitTimedOut, flags, mode, others
<1>8. ThreadTyped'
  BY <1>1, BoundsNat DEF IInv, ThreadTyped, WaitTimedOut, CallRunExec
<1>9. Settled'
  BY <1>1, StopperApart DEF IInv, Settled, WaitTimedOut, CallRunExec
<1> QED  BY <1>4, <1>5, <1>6, <1>7, <1>8, <1>9 DEF IInv, ObjectsRight

(* Of the ready queue or of none: the semaphore is taken for it if need be.    *)
LEMMA CancelStep == ASSUME IInv, NEW a \in Object, Cancel(a) PROVE IInv'
<1>1. a \in AO /\ a \notin given /\ a # Stopper
  BY StopperApart, ObjectAssumption DEF Cancel, AO, ObjectAssumption
<1>2. Waits' = Waits /\ Waits = 0
  BY DEF IInv, Settled, Waits, Cancel, Call, MayCall
<1>3. sem' \in Nat
  <2>1. a \in Ready => sem > 0
    BY <1>2, ReadyFinite, FS_EmptySet DEF IInv, ObjectsRight, ObjectsTyped, SemaphoreCountsReady
  <2> QED  BY <2>1 DEF Cancel, IInv, ObjectsRight, ObjectsTyped
<1>4. callback' \in BOOLEAN /\ (callback' => callback)
  BY DEF Cancel
<1>5. /\ ObjectsTyped' /\ NoRequestLost' /\ CallbackWhenReady'
      /\ isIn' = [isIn EXCEPT ![a] = "none"]
      /\ Cardinality(Ready') = Cardinality(Ready) - (IF a \in Ready THEN 1 ELSE 0)
  BY <1>1, <1>3, <1>4, ObjectLeaves, WaitsNat DEF IInv, Cancel
<1>6. SemaphoreCountsReady'
  BY <1>2, <1>5, ReadyFinite DEF IInv, ObjectsRight, ObjectsTyped, SemaphoreCountsReady, Cancel
<1>7. TimeTyped'
  BY HalfBound DEF IInv, TimeTyped, Cancel, NotQueued, time
<1>8. FlagsTyped'
  BY DEF IInv, FlagsTyped, Cancel, flags, mode, others
<1>9. ThreadTyped'
  BY BoundsNat DEF IInv, ThreadTyped, Cancel, Call
<1>10. Settled'
  BY <1>1, <1>5 DEF IInv, Settled, Cancel, Call, MayCall, SetIdle
<1> QED  BY <1>5, <1>6, <1>7, <1>8, <1>9, <1>10 DEF IInv, ObjectsRight

(* Every wait is restored, and one taken for the object that is removed.       *)
LEMMA CancelEndsStep == ASSUME IInv, CancelEnds PROVE IInv'
<1>1. target \in AO /\ target \in Ready /\ target \notin given /\ target # Stopper
  BY StopperApart, ObjectAssumption DEF CancelEnds, Ready, Queued, IInv, ThreadTyped,
     ObjectsRight,
                                         NoRequestLost, ObjectAssumption
<1>2. Waits = nwait /\ Waits' = 0
  BY DEF Waits, CancelEnds, IInv, ThreadTyped
<1>3. sem' \in Nat /\ sem' = Cardinality(Ready) - 1
  <2>1. Cardinality(Ready) > 0
    BY <1>1, ReadyFinite, FS_EmptySet
  <2> QED  BY <1>2, <2>1, ReadyFinite DEF CancelEnds, Restored, IInv, ObjectsRight,
              ObjectsTyped, SemaphoreCountsReady
<1>4. callback' \in BOOLEAN
  BY DEF CancelEnds, IInv, ObjectsRight, ObjectsTyped
<1>5. /\ ObjectsTyped' /\ NoRequestLost' /\ CallbackWhenReady'
      /\ isIn' = [isIn EXCEPT ![target] = "none"]
      /\ Cardinality(Ready') = Cardinality(Ready) - 1
  BY <1>1, <1>3, <1>4, ObjectLeaves, WaitsNat DEF IInv, CancelEnds
<1>6. SemaphoreCountsReady'
  BY <1>2, <1>3, <1>5, ReadyFinite DEF SemaphoreCountsReady
<1>7. TimeTyped' /\ FlagsTyped'
  BY DEF IInv, TimeTyped, FlagsTyped, CancelEnds, time, flags, mode, others
<1>8. ThreadTyped'
  BY DEF IInv, ThreadTyped, CancelEnds
<1>9. Settled'
  BY <1>1, <1>5 DEF IInv, Settled, CancelEnds, SetIdle, ThreadTyped, ObjectsRight, ObjectsTyped
<1> QED  BY <1>5, <1>6, <1>7, <1>8, <1>9 DEF IInv, ObjectsRight

(* An object is put in the ready queue, completed.                             *)
LEMMA ObjectQueued ==
    ASSUME ObjectsRight, Waits \in Nat, NEW a \in AO, isIn[a] # "ready", a \notin given,
           isIn' = [isIn EXCEPT ![a] = "ready"], busy' = [busy EXCEPT ![a] = TRUE],
           status' = [status EXCEPT ![a] = "done"], sem' = sem + 1, callback' = FALSE,
           ahead' \in [AO -> SUBSET AO], given' = given, Waits' = Waits
    PROVE  ObjectsRight' /\ Ready' = Ready \cup {a}
<1>1. Ready' = Ready \cup {a}
  BY DEF Ready, Queued, ObjectsRight, ObjectsTyped
<1>2. Cardinality(Ready') = Cardinality(Ready) + 1
  BY ReadyGains DEF ObjectsRight
<1>3. ObjectsTyped'
  <2>1. busy' \in [AO -> BOOLEAN] /\ callback' \in BOOLEAN
    BY DEF ObjectsRight, ObjectsTyped
  <2>2. status' \in [AO -> {"pending", "done", "stop", "suspend"}]
    BY DEF ObjectsRight, ObjectsTyped
  <2>3. isIn' \in [AO -> {"none", "ready", "timer"}]
    BY DEF ObjectsRight, ObjectsTyped
  <2>4. given' \subseteq Active /\ sem' \in Nat
    BY DEF ObjectsRight, ObjectsTyped
  <2> QED  BY <2>1, <2>2, <2>3, <2>4 DEF ObjectsTyped
<1>4. SemaphoreCountsReady'
  BY <1>2, ReadyFinite DEF ObjectsRight, SemaphoreCountsReady, ObjectsTyped
<1>5. NoRequestLost'
  BY DEF ObjectsRight, NoRequestLost, ObjectsTyped
<1>6. CallbackWhenReady'
  BY DEF CallbackWhenReady
<1> QED  BY <1>1, <1>3, <1>4, <1>5, <1>6 DEF ObjectsRight

(* An object that is not busy is in no queue, and is queued.                  *)
LEMMA RunIfNotReadyStep == ASSUME IInv, NEW a \in Object, RunIfNotReady(a) PROVE IInv'
<1>1. a \in AO /\ isIn[a] = "none" /\ a \notin given /\ a # Stopper
  BY ObjectAssumption DEF RunIfNotReady, AO, ObjectAssumption, IInv, ObjectsRight,
     ObjectsTyped, NoRequestLost
<1>2. Waits' = Waits
  BY DEF Waits, RunIfNotReady
<1>3. isIn' = [isIn EXCEPT ![a] = "ready"] /\ ahead' \in [AO -> SUBSET AO]
  BY DEF RunIfNotReady, Add, Queued, IInv, ObjectsRight, ObjectsTyped
<1>4. ObjectsRight' /\ Ready' = Ready \cup {a}
  BY <1>1, <1>2, <1>3, ObjectQueued, WaitsNat DEF RunIfNotReady, IInv
<1>5. TimeTyped' /\ FlagsTyped'
  BY DEF IInv, TimeTyped, FlagsTyped, RunIfNotReady, time, flags, mode, others
<1>6. ThreadTyped'
  BY BoundsNat DEF IInv, ThreadTyped, RunIfNotReady, Call
<1>7. Settled'
  BY <1>1, <1>3, <1>4 DEF IInv, Settled, RunIfNotReady, Call, MayCall
<1> QED  BY <1>4, <1>5, <1>6, <1>7 DEF IInv

(* A timer goes from its queue to the ready queue.                            *)
LEMMA CompleteTimerStep == ASSUME IInv, CompleteTimer PROVE IInv'
<1>1. PICK t \in Timer :
          /\ TimerTop(t) /\ isIn' = [isIn EXCEPT ![t] = "ready"]
          /\ ahead' = [b \in AO |-> IF b = t THEN Ready ELSE ahead[b] \ {t}]
          /\ status' = [status EXCEPT ![t] = "done"]
          /\ sem' = sem + 1 /\ callback' = FALSE
          /\ due' = NotQueued(due, t) /\ left' = NotQueued(left, t)
  BY DEF CompleteTimer
<1>2. t \in AO /\ isIn[t] = "timer" /\ busy[t] /\ t \notin given /\ t # Stopper
  BY <1>1, ObjectAssumption DEF TimerTop, Queued, AO, Object, ObjectAssumption, IInv,
     ObjectsRight, NoRequestLost
<1>3. Waits' = Waits
  BY DEF Waits, CompleteTimer, thread
<1>4. busy' = [busy EXCEPT ![t] = TRUE]
  BY <1>2 DEF CompleteTimer, IInv, ObjectsRight, ObjectsTyped
<1>5. ahead' \in [AO -> SUBSET AO]
  BY <1>1 DEF IInv, ObjectsRight, ObjectsTyped, Ready, Queued
<1>6. ObjectsRight' /\ Ready' = Ready \cup {t}
  BY <1>1, <1>2, <1>3, <1>4, <1>5, ObjectQueued, WaitsNat DEF CompleteTimer, IInv
<1>7. TimeTyped'
  BY <1>1, HalfBound DEF IInv, TimeTyped, CompleteTimer, NotQueued, time, thread
<1>8. FlagsTyped' /\ ThreadTyped'
  BY DEF IInv, FlagsTyped, ThreadTyped, CompleteTimer, thread, flags, mode, others
<1>9. Settled'
  BY <1>1, <1>2, <1>6 DEF IInv, Settled, CompleteTimer, thread, ObjectsRight, ObjectsTyped
<1> QED  BY <1>6, <1>7, <1>8, <1>9 DEF IInv

(* Twice a delay does not overflow: the ticks of a delay are the nearest to it. *)
LEMMA TicksOf ==
    ASSUME NEW d \in Delays
    PROVE  /\ Ticks(d) = Nearest(d * 2) /\ Nearest(d * 2) \in Nat
           /\ MaxLate \in Nat /\ Nearest(d * 2) + MaxLate <= Half
<1>1. d * 2 \in Nat /\ d * 2 < Wrap /\ TickPeriod \in Nat /\ TickPeriod > 0
  BY TimeAssumption DEF TimeAssumption
<1>2. (d * 2) % Wrap = d * 2
  BY <1>1, HalfBound
<1>3. (d * 2) \div TickPeriod \in Nat
  BY <1>1
<1>4. Nearest(d * 2) \in Nat
  BY <1>3 DEF Nearest
<1> QED  BY <1>2, <1>4, TimeAssumption DEF TimeAssumption, Ticks

(* A timer is put in its queue, and its time is a tick count.                 *)
LEMMA AfterStep == ASSUME IInv, NEW t \in Timer, NEW d \in Delays, After(t, d) PROVE IInv'
<1>1. t \in AO /\ isIn[t] = "none" /\ t \notin given /\ t # Stopper /\ ~busy[t]
  BY ObjectAssumption DEF After, AO, Object, ObjectAssumption, IInv, ObjectsRight,
     ObjectsTyped, NoRequestLost
<1>2. Waits' = Waits
  BY DEF Waits, After
<1>3. isIn' = [isIn EXCEPT ![t] = "timer"] /\ ahead' \in [AO -> SUBSET AO]
  BY DEF After, Add, Queued, IInv, ObjectsRight, ObjectsTyped
<1>4. Ready' = Ready
  BY <1>1, <1>3, ReadyKeeps DEF IInv, ObjectsRight
<1>5. busy' = [busy EXCEPT ![t] = TRUE] /\ status' = [status EXCEPT ![t] = "pending"]
      /\ sem' = sem /\ given' = given
  BY DEF After
<1>6. callback' \in BOOLEAN /\ (callback' => callback)
  BY DEF After
<1>7. ObjectsTyped'
  <2>1. busy' \in [AO -> BOOLEAN]
    BY <1>5 DEF IInv, ObjectsRight, ObjectsTyped
  <2>2. status' \in [AO -> {"pending", "done", "stop", "suspend"}]
    BY <1>5 DEF IInv, ObjectsRight, ObjectsTyped
  <2>3. isIn' \in [AO -> {"none", "ready", "timer"}]
    BY <1>3 DEF IInv, ObjectsRight, ObjectsTyped
  <2> QED  BY <1>3, <1>5, <1>6, <2>1, <2>2, <2>3 DEF IInv, ObjectsRight, ObjectsTyped
<1>8. SemaphoreCountsReady' /\ CallbackWhenReady'
  BY <1>2, <1>4, <1>5, <1>6 DEF IInv, ObjectsRight, SemaphoreCountsReady, CallbackWhenReady
<1>9. NoRequestLost'
  BY <1>1, <1>3, <1>5 DEF IInv, ObjectsRight, ObjectsTyped, NoRequestLost
<1>10. TimeTyped'
  <2>1. tick + Ticks(d) \in Int /\ Nearest(d * 2) \in Int
    BY TicksOf DEF IInv, TimeTyped
  <2>2. due' \in [Timer -> 0 .. Wrap - 1]
    BY <2>1, ModBound DEF After, IInv, TimeTyped
  <2>3. left' \in [Timer -> Int]
    BY <2>1 DEF After, IInv, TimeTyped
  <2> QED  BY <2>2, <2>3 DEF After, IInv, TimeTyped
<1>11. ThreadTyped' /\ FlagsTyped'
  BY BoundsNat DEF IInv, ThreadTyped, FlagsTyped, After, Call, flags, mode, others
<1>12. Settled'
  BY <1>1, <1>3, <1>4, <1>5 DEF IInv, Settled, After, Call, MayCall
<1> QED  BY <1>7, <1>8, <1>9, <1>10, <1>11, <1>12 DEF IInv, ObjectsRight

(* The stopper is run: its request is made again, or it is done.               *)
LEMMA StopperRunsStep == ASSUME IInv, StopperRuns PROVE IInv'
<1>1. Waits' = Waits
  BY DEF Waits, StopperRuns
<1>2. ObjectsRight' /\ Ready' = Ready
  <2>1. CASE status[Stopper] = "stop" /\ UNCHANGED <<busy, status>>
    BY <1>1, <2>1, ObjectsKept, WaitsNat DEF StopperRuns, objects, IInv
  <2>2. CASE /\ busy' = [busy EXCEPT ![Stopper] = TRUE]
             /\ status' = [status EXCEPT ![Stopper] = "pending"]
    <3>1. ~busy[Stopper] /\ Stopper \in AO
      BY StopperApart DEF StopperRuns, IInv, Settled
    <3> QED  BY <1>1, <2>2, <3>1, RequestMade, WaitsNat DEF StopperRuns, IInv
  <2> QED  BY <2>1, <2>2 DEF StopperRuns
<1>3. TimeTyped' /\ FlagsTyped'
  BY DEF IInv, TimeTyped, FlagsTyped, StopperRuns, time, mode, others
<1>4. ThreadTyped'
  BY DEF IInv, ThreadTyped, StopperRuns
<1>5. Settled'
  BY <1>2, StopperApart DEF IInv, Settled, StopperRuns
<1> QED  BY <1>2, <1>3, <1>4, <1>5 DEF IInv

(* The stopper is taken out of the ready queue, if it is there.               *)
LEMMA EndSchedulingStep == ASSUME IInv, EndScheduling PROVE IInv'
<1>1. Waits' = Waits /\ Waits = 0
  BY DEF IInv, Settled, Waits, EndScheduling
<1>2. CASE UNCHANGED <<objects, open>> /\ pc' = "endCancel"
  <2>1. ObjectsRight' /\ Ready' = Ready
    BY <1>1, <1>2, ObjectsKept, WaitsNat DEF IInv
  <2> QED  BY <1>2, <2>1 DEF IInv, TimeTyped, ThreadTyped, FlagsTyped, Settled, EndScheduling,
                             objects, time, flags, others
<1>3. CASE /\ pc' = "idle" /\ open' = FALSE /\ busy' = [busy EXCEPT ![Stopper] = FALSE]
           /\ IF Stopper \in Ready THEN Leaves(Stopper) /\ sem' = sem - 1
              ELSE UNCHANGED <<isIn, ahead, sem>>
           /\ UNCHANGED <<status, given, callback>>
  <2>1. ObjectsRight' /\ Ready' \subseteq Ready
    <3>0. Stopper \in AO /\ Stopper \notin given /\ callback' \in BOOLEAN
      BY <1>3, StopperApart DEF IInv, ObjectsRight, ObjectsTyped
    <3>1. CASE Stopper \in Ready
      <4>1. SetIdle(Stopper)
        BY <1>3, <3>1 DEF SetIdle
      <4>2. sem' = sem - 1 /\ sem > 0
        BY <1>1, <1>3, <3>1, ReadyFinite, FS_EmptySet DEF IInv, ObjectsRight, ObjectsTyped,
           SemaphoreCountsReady
      <4>3. sem' \in Nat
        BY <4>2 DEF IInv, ObjectsRight, ObjectsTyped
      <4>4. /\ ObjectsTyped' /\ NoRequestLost' /\ CallbackWhenReady' /\ Ready' = Ready \ {Stopper}
            /\ Cardinality(Ready') = Cardinality(Ready) - 1
        BY <1>3, <3>0, <3>1, <4>1, <4>3, ObjectLeaves, WaitsNat DEF IInv
      <4> QED  BY <1>1, <4>2, <4>4, ReadyFinite DEF IInv, ObjectsRight, ObjectsTyped,
                  SemaphoreCountsReady
    <3>2. CASE Stopper \notin Ready
      <4>1. isIn[Stopper] = "none"
        BY <3>2, StopperApart DEF IInv, ObjectsRight, ObjectsTyped, NoRequestLost, Ready, Queued
      <4>2. UNCHANGED <<isIn, ahead, sem, status, given, callback>> /\ busy' = [busy EXCEPT ![Stopper] = FALSE]
        BY <1>3, <3>2
      <4>3. Ready' = Ready
        BY <4>2 DEF Ready, Queued
      <4>4. ObjectsTyped'
        BY <4>2 DEF IInv, ObjectsRight, ObjectsTyped
      <4>5. NoRequestLost'
        BY <3>0, <4>1, <4>2 DEF IInv, ObjectsRight, ObjectsTyped, NoRequestLost
      <4> QED  BY <1>1, <4>2, <4>3, <4>4, <4>5 DEF IInv, ObjectsRight, SemaphoreCountsReady,
                  CallbackWhenReady
    <3> QED  BY <3>1, <3>2
  <2>2. Settled'
    BY <1>3 DEF IInv, Settled, EndScheduling
  <2> QED  BY <1>3, <2>1, <2>2 DEF IInv, TimeTyped, ThreadTyped, FlagsTyped, EndScheduling,
                             time, flags, others
<1> QED  BY <1>2, <1>3 DEF EndScheduling

(* The stopper that pends is set idle in no queue.                            *)
LEMMA EndCancelsStopperStep == ASSUME IInv, EndCancelsStopper PROVE IInv'
<1>1. Waits' = Waits
  BY DEF IInv, Settled, Waits, EndCancelsStopper
<1>2. Ready' = Ready
  BY DEF Ready, Queued, EndCancelsStopper
<1>3. ObjectsRight'
  <2>1. CASE UNCHANGED <<busy, status, callback>>
    BY <1>1, <2>1, ObjectsKept, WaitsNat DEF IInv, EndCancelsStopper, objects
  <2>2. CASE /\ Pending(Stopper) /\ busy' = [busy EXCEPT ![Stopper] = FALSE]
             /\ status' = [status EXCEPT ![Stopper] = "done"] /\ callback' = FALSE
    <3>1. UNCHANGED <<isIn, ahead, given, sem>> /\ isIn[Stopper] = "none"
      BY <2>2 DEF EndCancelsStopper, Pending
    <3>2. status' \in [AO -> {"pending", "done", "stop", "suspend"}]
      BY <2>2 DEF IInv, ObjectsRight, ObjectsTyped
    <3>3. busy' \in [AO -> BOOLEAN] /\ callback' \in BOOLEAN
      BY <2>2 DEF IInv, ObjectsRight, ObjectsTyped
    <3>4. ObjectsTyped'
      BY <3>1, <3>2, <3>3 DEF IInv, ObjectsRight, ObjectsTyped
    <3>5. NoRequestLost'
      BY <2>2, <3>1, StopperApart DEF IInv, ObjectsRight, ObjectsTyped, NoRequestLost
    <3> QED  BY <1>1, <1>2, <2>2, <3>1, <3>4, <3>5 DEF IInv, ObjectsRight,
                SemaphoreCountsReady, CallbackWhenReady
  <2> QED  BY <2>1, <2>2 DEF EndCancelsStopper
<1>4. TimeTyped' /\ FlagsTyped'
  BY DEF IInv, TimeTyped, FlagsTyped, EndCancelsStopper, time, flags, others
<1>5. ThreadTyped'
  BY DEF IInv, ThreadTyped, EndCancelsStopper
<1>6. Settled'
  BY <1>2 DEF IInv, Settled, EndCancelsStopper
<1> QED  BY <1>3, <1>4, <1>5, <1>6 DEF IInv
------------------------------------------------------------------------------
(* The invariant holds at the start, and every step keeps it.                  *)
THEOREM InitIInv == Init => IInv
<1> SUFFICES ASSUME Init PROVE IInv
  OBVIOUS
<1>1. Ready = {} /\ Cardinality(Ready) = 0
  BY FS_EmptySet DEF Init, Ready, Queued
<1>2. ObjectsTyped /\ FlagsTyped
  <2>1. commands \in 0 .. MaxCommands
    BY TimeAssumption DEF Init, TimeAssumption
  <2>2. /\ busy \in [AO -> BOOLEAN] /\ status \in [AO -> {"pending", "done", "stop", "suspend"}]
        /\ isIn \in [AO -> {"none", "ready", "timer"}] /\ ahead \in [AO -> SUBSET AO]
    BY DEF Init
  <2> QED  BY <2>1, <2>2 DEF Init, ObjectsTyped, FlagsTyped
<1>3. TimeTyped /\ ThreadTyped
  BY HalfBound, TimeAssumption DEF Init, TimeTyped, ThreadTyped, TimeAssumption
<1>4. SemaphoreCountsReady /\ NoRequestLost /\ CallbackWhenReady /\ Settled
  BY <1>1, StopperApart DEF Init, SemaphoreCountsReady, NoRequestLost, CallbackWhenReady,
     Settled, Waits
<1> QED  BY <1>2, <1>3, <1>4 DEF IInv, ObjectsRight

(* Every step of the loop keeps the invariant.                                *)
LEMMA LoopStep == ASSUME IInv, Loop PROVE IInv'
BY EndSchedulingStep, EndCancelsStopperStep, CompleteTimerStep, TimersUpdatedStep, PopTopStep,
   NothingReadyStep, SemWaitedStep, PopTopAfterWaitStep, WaitTimedOutStep, AfterRunStep,
   ResumeWaitedStep, ResumedStep, StopperRunsStep, RunReturnsStep, RunLeavesStep,
   CancelWaitedStep, StillPendingStep, CancelEndsStep DEF Loop

(* So does every call of a Run.                                               *)
LEMMA CallsStep == ASSUME IInv, Calls PROVE IInv'
BY PendForExecStep, CompleteLocalStep, CancelRemoteStep, RunIfNotReadyStep, CancelStep,
   AfterStep, RegisterForCallbackStep, StopInRunStep DEF Calls

(* So does every step.                                                        *)
LEMMA NextStep == ASSUME IInv, Next PROVE IInv'
<1>1. CASE \E c \in Controls : \/ StopScheduler(c) \/ SuspendScheduler(c)
                               \/ ResumeScheduler(c) \/ Control(c)
  BY <1>1, CommandStep, CheckStatusStep, StopResumesStep, CompleteStopperStep, ResumeSchedulerStep
  DEF StopScheduler, SuspendScheduler, Control
<1> QED  BY <1>1, StartSchedulerStep, RunSchedulerNonBlockingStep, LoopStep, CallsStep, TickStep,
            CompleteRemoteStep DEF Next

(* So does a step that changes nothing.                                       *)
LEMMA Stutter == ASSUME IInv, UNCHANGED vars PROVE IInv'
<1>1. UNCHANGED objects /\ Waits' = Waits
  BY DEF vars, Waits, thread
<1>2. ObjectsRight' /\ Ready' = Ready
  BY <1>1, ObjectsKept, WaitsNat DEF IInv
<1>3. TimeTyped' /\ ThreadTyped' /\ FlagsTyped'
  BY DEF IInv, TimeTyped, ThreadTyped, FlagsTyped, vars, time, thread, flags, mode, others
<1>4. Settled'
  BY <1>2 DEF IInv, Settled, vars, objects, thread
<1> QED  BY <1>2, <1>3, <1>4 DEF IInv

(* The invariant holds always.                                                *)
THEOREM Invariance == Spec => []IInv
<1>1. IInv /\ [Next]_vars => IInv'
  BY NextStep, Stutter
<1> QED  BY InitIInv, <1>1, PTL DEF Spec

(* Every variable of the scheduler has its type, always.                       *)
THEOREM SchedulerTypeCorrect == Spec => []TypeOK
<1>1. IInv => TypeOK
  BY TypedParts DEF IInv, ObjectsRight
<1> QED  BY Invariance, <1>1, PTL

(* The semaphore always counts the ready queue, so that a pop under the        *)
(* queue's lock does not block and a wait that ended finds its element.        *)
THEOREM SemaphoreCounts == Spec => []SemaphoreCountsReady
<1>1. IInv => SemaphoreCountsReady
  BY DEF IInv, ObjectsRight
<1> QED  BY Invariance, <1>1, PTL

(* No request is lost, and none is left to run that was run or cancelled.      *)
THEOREM RequestsKept == Spec => []NoRequestLost
<1>1. IInv => NoRequestLost
  BY DEF IInv, ObjectsRight
<1> QED  BY Invariance, <1>1, PTL

(* A callback stays registered only while nothing is ready.                    *)
THEOREM CallbackTold == Spec => []CallbackWhenReady
<1>1. IInv => CallbackWhenReady
  BY DEF IInv, ObjectsRight
<1> QED  BY Invariance, <1>1, PTL
------------------------------------------------------------------------------
(* Timers on time.                                                             *)

(* Remainders of numbers one turn of the count away are a matter of cases.     *)
LEMMA ModCases ==
    ASSUME NEW x \in Int, -Wrap <= x, x < 2 * Wrap
    PROVE  x % Wrap = IF x < 0 THEN x + Wrap ELSE IF x < Wrap THEN x ELSE x - Wrap
BY HalfBound

(* Half is below half of the count.                                           *)
LEMMA HalfIsHalf == Half \in Nat /\ 2 * Half + 2 <= Wrap /\ Wrap \in Nat
BY TimeAssumption DEF Half, TimeAssumption

(* The difference of two times less than Half apart, on the count.              *)
LEMMA TimesApart ==
    ASSUME NEW k \in 0 .. Wrap - 1, NEW l \in -Half .. Half, NEW m \in -Half .. Half,
           m - l \in -Half .. Half
    PROVE  (((k + m) % Wrap) - ((k + l) % Wrap)) % Wrap = IF l <= m THEN m - l ELSE m - l + Wrap
<1> DEFINE a == (k + l) % Wrap
           b == (k + m) % Wrap
<1>1. a = IF k + l < 0 THEN k + l + Wrap ELSE IF k + l < Wrap THEN k + l ELSE k + l - Wrap
  BY ModCases, HalfIsHalf
<1>2. b = IF k + m < 0 THEN k + m + Wrap ELSE IF k + m < Wrap THEN k + m ELSE k + m - Wrap
  BY ModCases, HalfIsHalf
<1>3. a \in 0 .. Wrap - 1 /\ b \in 0 .. Wrap - 1
  BY ModBound, HalfIsHalf
<1> HIDE DEF a, b
<1>4. (b - a) % Wrap = IF b - a < 0 THEN b - a + Wrap ELSE b - a
  <2>1. b - a \in Int /\ -Wrap <= b - a /\ b - a < Wrap
    BY <1>3, HalfIsHalf
  <2> QED  BY <2>1, ModCases, HalfIsHalf
<1>5. (b - a) % Wrap = IF l <= m THEN m - l ELSE m - l + Wrap
  BY <1>1, <1>2, <1>3, <1>4, HalfIsHalf
<1> QED  BY <1>5 DEF a, b

(* A tick later, a time is a tick nearer.                                      *)
LEMMA TickNearer ==
    ASSUME NEW k \in 0 .. Wrap - 1, NEW l \in -Half .. Half, l - 1 \in -Half .. Half
    PROVE  (((k + 1) % Wrap) + (l - 1)) % Wrap = (k + l) % Wrap
<1> DEFINE k1 == (k + 1) % Wrap
<1>1. k1 = IF k + 1 < Wrap THEN k + 1 ELSE 0
  BY ModCases, HalfIsHalf
<1> HIDE DEF k1
<1>2. k1 \in 0 .. Wrap - 1
  BY <1>1, HalfIsHalf
<1>3. (k1 + (l - 1)) % Wrap = IF k1 + (l - 1) < 0 THEN k1 + (l - 1) + Wrap
                              ELSE IF k1 + (l - 1) < Wrap THEN k1 + (l - 1)
                              ELSE k1 + (l - 1) - Wrap
  BY <1>2, ModCases, HalfIsHalf
<1>4. (k + l) % Wrap = IF k + l < 0 THEN k + l + Wrap
                       ELSE IF k + l < Wrap THEN k + l ELSE k + l - Wrap
  BY ModCases, HalfIsHalf
<1>5. (k1 + (l - 1)) % Wrap = (k + l) % Wrap
  BY <1>1, <1>3, <1>4, HalfIsHalf
<1> QED  BY <1>5 DEF k1

(* The timers that wait for their time.                                        *)
Waiting == {t \in Timer : isIn[t] = "timer"}

(* The tick count tells when a waiting timer is due: how far that is in the    *)
(* future or in the past is less than half of the count.                       *)
TimersTimed ==
    \A t \in Waiting :
        /\ MaxLate <= Half /\ left[t] \in -MaxLate .. Half - MaxLate
        /\ due[t] = (tick + left[t]) % Wrap

(* What UpdateTimers finds at the tick it read is, as ticks pass, still no     *)
(* less than what is left.                                                     *)
TimeTaken ==
    pc = "timers" =>
        \A t \in Waiting : left[t] <= IF Elapsed(t) <= Half THEN 0 ELSE DelayTicks(t)

(* The timer the loop is to wait for is the first, and is waited for until it  *)
(* is due at least.                                                            *)
FirstWaitedFor ==
    pc \in {"pop", "wait"} /\ next # None =>
        /\ left[next] <= waitTicks
        /\ \A t \in Waiting : left[next] <= left[t]

Timely == TimersTimed /\ TimeTaken /\ FirstWaitedFor

(* The heap beneath the queue keeps its order up to five elements.             *)
FewObjects == Cardinality(AO) <= 5

(* The timer queue holds timers.                                              *)
LEMMA TimersWait == IInv => Queued("timer") = Waiting
BY DEF IInv, ObjectsRight, NoRequestLost, Queued, Waiting, AO, Object

(* The order of the queue is that of the ticks left, rolled over or not.       *)
LEMMA FirstIsNext ==
    ASSUME IInv, TimersTimed, FewObjects, NEW t \in Timer, TimerTop(t)
    PROVE  t \in Waiting /\ \A u \in Waiting : left[t] <= left[u]
<1>1. t \in Waiting
  BY TimersWait DEF TimerTop
<1>2. SUFFICES ASSUME NEW u \in Waiting, u # t PROVE left[t] <= left[u]
  BY <1>1 DEF Waiting, IInv, TimeTyped
<1>3. TimerGoesFirst(t, u)
  BY <1>2, TimersWait DEF TimerTop, FewObjects
<1> DEFINE l == left[t]
           m == left[u]
<1>4. l \in -Half .. Half /\ m \in -Half .. Half /\ m - l \in -Half .. Half
  BY <1>1, TimeAssumption, HalfIsHalf DEF TimersTimed, TimeAssumption
<1>5. /\ due[t] = (tick + l) % Wrap /\ due[u] = (tick + m) % Wrap
      /\ tick \in 0 .. Wrap - 1
  BY <1>1 DEF TimersTimed, IInv, TimeTyped
<1> HIDE DEF l, m
<1>6. (due[u] - due[t]) % Wrap = IF l <= m THEN m - l ELSE m - l + Wrap
  <2>1. (((tick + m) % Wrap) - ((tick + l) % Wrap)) % Wrap
        = IF l <= m THEN m - l ELSE m - l + Wrap
    BY ONLY <1>4, <1>5, TimesApart
  <2> QED  BY <1>4, <1>5, <2>1, HalfIsHalf
<1>7. CASE due[t] # due[u]
  <2>1. (due[u] - due[t]) % Wrap <= Half
    BY <1>3, <1>7 DEF TimerGoesFirst
  <2> QED  BY <1>4, <1>6, <2>1, HalfIsHalf DEF l, m
<1>8. CASE due[t] = due[u]
  <2>1. due[u] \in Int
    BY <1>2 DEF IInv, TimeTyped, Waiting
  <2>2. (due[u] - due[t]) % Wrap = 0
    BY <1>8, <2>1, ModCases, HalfIsHalf
  <2> QED  BY <1>4, <1>6, <2>2, HalfIsHalf DEF l, m
<1> QED  BY <1>7, <1>8

(* What UpdateTimers makes of a timer at the tick it reads.                    *)
LEMMA ElapsedNow ==
    ASSUME IInv, TimersTimed, NEW t \in Waiting
    PROVE  (tick - due[t]) % Wrap = IF left[t] <= 0 THEN -left[t] ELSE Wrap - left[t]
<1> DEFINE l == left[t]
<1>1. l \in -Half .. Half /\ 0 - l \in -Half .. Half /\ 0 \in -Half .. Half
  BY TimeAssumption, HalfIsHalf DEF TimersTimed, TimeAssumption
<1>2. due[t] = (tick + l) % Wrap /\ tick \in 0 .. Wrap - 1
  BY DEF TimersTimed, IInv, TimeTyped
<1> HIDE DEF l
<1>3. (((tick + 0) % Wrap) - due[t]) % Wrap = IF l <= 0 THEN 0 - l ELSE 0 - l + Wrap
  <2>1. (((tick + 0) % Wrap) - ((tick + l) % Wrap)) % Wrap
        = IF l <= 0 THEN 0 - l ELSE 0 - l + Wrap
    BY ONLY <1>1, <1>2, TimesApart
  <2> QED  BY <1>1, <1>2, <2>1, HalfIsHalf
<1>4. (tick + 0) % Wrap = tick
  BY <1>2, ModCases, HalfIsHalf
<1> QED  BY <1>1, <1>3, <1>4, HalfIsHalf DEF l

(* What most steps do to the timers: some stop waiting, and the thread does    *)
(* not look at the others anew.                                                *)
TimersLeft ==
    /\ \A t \in Timer :
          isIn'[t] = "timer" => isIn[t] = "timer" /\ due'[t] = due[t] /\ left'[t] = left[t]
    /\ UNCHANGED tick
    /\ pc' = "timers" => pc = "timers" /\ now' = now
    /\ pc' \in {"pop", "wait"} => pc \in {"pop", "wait"} /\ UNCHANGED <<next, waitTicks, left>>

(* The steps that look at them: the tick is read, the timers wait on.          *)
TickRead == UNCHANGED <<isIn, tick, left, due>> /\ pc' = "timers" /\ now' = tick

(* Timers that wait on are as they were.                                       *)
LEMMA TimelyKept == ASSUME Timely, TimersLeft PROVE Timely'
<1>1. \A t \in Waiting' : t \in Waiting /\ left'[t] = left[t] /\ due'[t] = due[t]
  BY DEF TimersLeft, Waiting
<1>2. TimersTimed'
  BY <1>1 DEF Timely, TimersTimed, TimersLeft
<1>3. TimeTaken'
  <2> SUFFICES ASSUME pc' = "timers", NEW t \in Waiting'
               PROVE  left'[t] <= IF Elapsed(t)' <= Half THEN 0 ELSE DelayTicks(t)'
    BY DEF TimeTaken
  <2>1. Elapsed(t)' = Elapsed(t) /\ DelayTicks(t)' = DelayTicks(t)
    BY <1>1 DEF Elapsed, DelayTicks, TimersLeft
  <2> QED  BY <1>1, <2>1 DEF Timely, TimeTaken, TimersLeft
<1>4. FirstWaitedFor'
  BY <1>1 DEF Timely, FirstWaitedFor, TimersLeft
<1> QED  BY <1>2, <1>3, <1>4 DEF Timely

(* At the tick that is read, what is elapsed is what is left, or the opposite. *)
LEMMA TimelyRead == ASSUME IInv, Timely, TickRead PROVE Timely'
<1>1. Waiting' = Waiting /\ left' = left /\ due' = due /\ tick' = tick
  BY DEF TickRead, Waiting
<1>2. TimersTimed' /\ FirstWaitedFor'
  BY <1>1 DEF Timely, TimersTimed, FirstWaitedFor, TickRead
<1>3. TimeTaken'
  <2> SUFFICES ASSUME NEW t \in Waiting
               PROVE  left[t] <= IF Elapsed(t)' <= Half THEN 0 ELSE DelayTicks(t)'
    BY <1>1 DEF TimeTaken
  <2>1. Elapsed(t)' = IF left[t] <= 0 THEN -left[t] ELSE Wrap - left[t]
    BY <1>1, ElapsedNow DEF Elapsed, TickRead, Timely
  <2>2. left[t] \in Int /\ left[t] >= -Half /\ left[t] <= Half
    BY TimeAssumption, HalfIsHalf DEF Timely, TimersTimed, TimeAssumption
  <2>3. DelayTicks(t)' = Wrap - Elapsed(t)'
    BY DEF DelayTicks
  <2> QED  BY <2>1, <2>2, <2>3, HalfIsHalf
<1> QED  BY <1>2, <1>3 DEF Timely

(* The first timer that is not due is waited for as long as it takes.          *)
LEMMA TimelyUpdated == ASSUME IInv, Timely, FewObjects, TimersUpdated PROVE Timely'
<1>1. Waiting' = Waiting /\ left' = left /\ due' = due /\ tick' = tick
  BY DEF TimersUpdated, objects, time, Waiting
<1>2. TimersTimed' /\ TimeTaken'
  BY <1>1 DEF Timely, TimersTimed, TimeTaken, TimersUpdated
<1>3. FirstWaitedFor'
  <2> SUFFICES ASSUME pc' \in {"pop", "wait"}, next' # None
               PROVE  left[next'] <= waitTicks' /\ \A u \in Waiting : left[next'] <= left[u]
    BY <1>1 DEF FirstWaitedFor
  <2>1. PICK t \in Timer : TimerTop(t) /\ next' = t /\ waitTicks' = DelayTicks(t)
    BY DEF TimersUpdated
  <2>2. t \in Waiting /\ \A u \in Waiting : left[t] <= left[u]
    BY <2>1, FirstIsNext DEF Timely
  <2>3. Elapsed(t) \in 0 .. Wrap - 1 /\ Elapsed(t) > Half /\ pc = "timers"
    BY <2>1, ModBound DEF TimersUpdated, Elapsed, IInv, TimeTyped
  <2>4. left[t] <= DelayTicks(t)
    BY <2>2, <2>3, HalfIsHalf DEF Timely, TimeTaken
  <2> QED  BY <2>1, <2>2, <2>4
<1> QED  BY <1>2, <1>3 DEF Timely

(* A tick is one less for all that wait, and for the wait at most.             *)
LEMMA TimelyTick == ASSUME IInv, Timely, Tick PROVE Timely'
<1>1. /\ Waiting' = Waiting /\ due' = due /\ tick' = (tick + 1) % Wrap
      /\ pc' = pc /\ now' = now /\ next' = next
  BY DEF Tick, objects, Waiting
<1>2. \A t \in Waiting : left[t] \in Int /\ left'[t] = left[t] - 1 /\ left[t] > -MaxLate
  BY TimersWait DEF Tick, Waiting, IInv, TimeTyped
<1>3. TimersTimed'
  <2> SUFFICES ASSUME NEW t \in Waiting
               PROVE  /\ MaxLate <= Half /\ left'[t] \in -MaxLate .. Half - MaxLate
                      /\ due[t] = (((tick + 1) % Wrap) + left'[t]) % Wrap
    BY <1>1 DEF TimersTimed
  <2>1. /\ MaxLate \in Nat /\ MaxLate <= Half /\ left[t] \in -MaxLate .. Half - MaxLate
        /\ due[t] = (tick + left[t]) % Wrap
    BY TimeAssumption DEF Timely, TimersTimed, TimeAssumption
  <2>2. left[t] \in -Half .. Half /\ left[t] - 1 \in -Half .. Half
    BY <1>2, <2>1, HalfIsHalf
  <2>3. (((tick + 1) % Wrap) + (left[t] - 1)) % Wrap = (tick + left[t]) % Wrap
    BY <2>2, TickNearer DEF IInv, TimeTyped
  <2>4. left'[t] \in -MaxLate .. Half - MaxLate
    BY <1>2, <2>1, HalfIsHalf
  <2> QED  BY <1>2, <2>1, <2>3, <2>4
<1>4. TimeTaken'
  <2> SUFFICES ASSUME pc = "timers", NEW t \in Waiting
               PROVE  left'[t] <= IF Elapsed(t)' <= Half THEN 0 ELSE DelayTicks(t)'
    BY <1>1 DEF TimeTaken
  <2>1. Elapsed(t)' = Elapsed(t) /\ DelayTicks(t)' = DelayTicks(t)
    BY <1>1 DEF Elapsed, DelayTicks
  <2>2. Elapsed(t) \in 0 .. Wrap - 1
    BY ModBound DEF Elapsed, IInv, TimeTyped, Waiting
  <2>3. left[t] <= IF Elapsed(t) <= Half THEN 0 ELSE DelayTicks(t)
    BY DEF Timely, TimeTaken
  <2> QED  BY <1>2, <2>1, <2>2, <2>3, HalfIsHalf DEF DelayTicks
<1>5. FirstWaitedFor'
  <2> SUFFICES ASSUME pc \in {"pop", "wait"}, next # None
               PROVE  left'[next] <= waitTicks' /\ \A t \in Waiting : left'[next] <= left'[t]
    BY <1>1 DEF FirstWaitedFor
  <2>1. next \in Waiting
    BY DEF IInv, Settled, ThreadTyped, Waiting
  <2>2. left[next] <= waitTicks /\ \A t \in Waiting : left[next] <= left[t]
    BY DEF Timely, FirstWaitedFor
  <2>3. waitTicks \in Int /\ waitTicks' \in Int /\ waitTicks' >= waitTicks - 1
    BY HalfIsHalf DEF Tick, IInv, TimeTyped
  <2> QED  BY <1>2, <2>1, <2>2, <2>3
<1> QED  BY <1>3, <1>4, <1>5 DEF Timely

(* A timer is added when the thread looks at none.                             *)
LEMMA TimelyAfter ==
    ASSUME IInv, Timely, NEW x \in Timer, NEW d \in Delays, After(x, d) PROVE Timely'
<1> DEFINE k == Nearest(d * 2)
<1>1. /\ tick' = tick /\ pc' = pc /\ pc \in {"run", "idle"}
      /\ due' = [due EXCEPT ![x] = (tick + k) % Wrap] /\ left' = [left EXCEPT ![x] = k]
  BY TicksOf DEF After, Call, MayCall
<1>2. \A t \in Waiting' : t \in Timer /\ (t # x => t \in Waiting)
  BY DEF After, Add, Waiting, IInv, ObjectsRight, ObjectsTyped, AO, Object
<1>3. k \in Nat /\ MaxLate \in Nat /\ k + MaxLate <= Half
  BY TicksOf
<1> HIDE DEF k
<1>4. MaxLate <= Half /\ k \in -MaxLate .. Half - MaxLate
  BY <1>3, HalfIsHalf
<1>5. TimersTimed'
  <2> SUFFICES ASSUME NEW t \in Waiting'
               PROVE  /\ MaxLate <= Half /\ left'[t] \in -MaxLate .. Half - MaxLate
                      /\ due'[t] = (tick + left'[t]) % Wrap
    BY <1>1 DEF TimersTimed
  <2>1. CASE t = x
    BY <1>1, <1>4, <2>1 DEF IInv, TimeTyped
  <2>2. CASE t # x
    BY <1>1, <1>2, <2>2 DEF IInv, TimeTyped, Timely, TimersTimed
  <2> QED  BY <2>1, <2>2
<1> QED  BY <1>1, <1>5 DEF Timely, TimeTaken, FirstWaitedFor

(* Nothing is promised to wait before the first timer.                         *)
LEMMA TimelyInit == Init => Timely
BY DEF Init, Timely, TimersTimed, TimeTaken, FirstWaitedFor, Waiting, AO, Object

(* Every step of the loop but those that read the tick.                        *)
LEMMA LoopTimers ==
    ASSUME IInv, Loop
    PROVE  TimersLeft \/ TickRead \/ TimersUpdated
<1> USE DEF TimersLeft, objects, time, thread
<1>1. ASSUME NEW a \in AO, Leaves(a) PROVE \A t \in Timer : isIn'[t] = "timer" => isIn[t] = "timer"
  BY <1>1 DEF Leaves, IInv, ObjectsRight, ObjectsTyped, AO, Object
<1>2. CASE EndScheduling \/ EndCancelsStopper
  BY <1>1, <1>2, StopperApart DEF EndScheduling, EndCancelsStopper
<1>3. CASE CompleteTimer
  <2>1. PICK t \in Timer :
            isIn' = [isIn EXCEPT ![t] = "ready"] /\ due' = NotQueued(due, t) /\ left' = NotQueued(left, t)
    BY <1>3 DEF CompleteTimer
  <2>2. \A u \in Timer : isIn'[u] = "timer" => u # t /\ isIn[u] = "timer"
    BY <2>1 DEF IInv, ObjectsRight, ObjectsTyped, AO, Object
  <2> QED  BY <1>3, <2>1, <2>2 DEF CompleteTimer, NotQueued
<1>4. CASE NothingReady \/ SemWaited \/ ResumeWaited \/ StopperRuns \/ RunReturns \/ RunLeaves
  BY <1>4 DEF NothingReady, SemWaited, ResumeWaited, StopperRuns, RunReturns, RunLeaves
<1>5. CASE PopTop \/ PopTopAfterWait
  <2>1. PICK a \in AO : CallRunExec(a)
    BY <1>5 DEF PopTop, PopTopAfterWait
  <2> QED  BY <1>1, <1>5, <2>1 DEF PopTop, PopTopAfterWait, CallRunExec
<1>6. CASE WaitTimedOut
  <2>1. next \in Timer /\ Leaves(next) /\ pc' = "run" /\ due' = NotQueued(due, next)
        /\ left' = NotQueued(left, next)
    BY <1>6 DEF WaitTimedOut, CallRunExec, IInv, ThreadTyped
  <2>2. \A u \in Timer : isIn'[u] = "timer" => u # next /\ isIn[u] = "timer"
    BY <2>1 DEF Leaves, IInv, ObjectsRight, ObjectsTyped, AO, Object
  <2> QED  BY <1>6, <2>1, <2>2 DEF WaitTimedOut, NotQueued
<1>7. CASE AfterRun \/ Resumed
  BY <1>7 DEF AfterRun, Resumed, LoopOn, TickRead
<1>8. CASE CancelWaited \/ StillPending
  BY <1>8 DEF CancelWaited, StillPending
<1>9. CASE CancelEnds
  <2>1. target \in AO /\ Leaves(target)
    BY <1>9 DEF CancelEnds, SetIdle, Ready, Queued
  <2>2. \A t \in Timer : isIn'[t] = "timer" => isIn[t] = "timer"
    BY ONLY <1>1, <2>1
  <2> QED  BY <1>9, <2>2 DEF CancelEnds, SetIdle
<1> QED  BY <1>2, <1>3, <1>4, <1>5, <1>6, <1>7, <1>8, <1>9 DEF Loop

(* Every call but After leaves the timers, or takes one out.                   *)
LEMMA CallTimers ==
    ASSUME IInv, Calls
    PROVE  TimersLeft \/ \E t \in Timer, d \in Delays : After(t, d)
<1> USE DEF TimersLeft, Call, MayCall, objects, time
<1>1. ASSUME NEW a \in AO, Add(a, "ready")
      PROVE  \A t \in Timer : isIn'[t] = "timer" => isIn[t] = "timer"
  BY <1>1 DEF Add, IInv, ObjectsRight, ObjectsTyped, AO, Object
<1>2. ASSUME NEW a \in Active, PendForExec(a) \/ CompleteLocal(a) \/ CancelRemote(a)
      PROVE  TimersLeft
  BY <1>1, <1>2 DEF PendForExec, CompleteLocal, PendComplete, CancelRemote, AO, Object
<1>3. ASSUME NEW a \in Object, RunIfNotReady(a) PROVE TimersLeft
  BY <1>1, <1>3 DEF RunIfNotReady, AO
<1>4. ASSUME NEW a \in Object, Cancel(a) PROVE TimersLeft
  <2>1. \A u \in Timer : isIn'[u] = "timer" => u # a /\ isIn[u] = "timer"
    BY <1>4 DEF Cancel, SetIdle, Leaves, IInv, ObjectsRight, ObjectsTyped, AO, Object
  <2> QED  BY <1>4, <2>1 DEF Cancel, NotQueued
<1>5. CASE RegisterForCallback \/ StopInRun
  BY <1>1, <1>5 DEF RegisterForCallback, StopInRun, PendComplete, AO
<1> QED  BY <1>2, <1>3, <1>4, <1>5 DEF Calls

(* Other threads do not touch the timers.                                      *)
LEMMA OtherTimers ==
    ASSUME IInv, \/ \E a \in Active : CompleteRemote(a)
                 \/ \E c \in Controls : \/ StopScheduler(c) \/ SuspendScheduler(c)
                                        \/ ResumeScheduler(c) \/ Control(c)
    PROVE  TimersLeft
<1> USE DEF TimersLeft, objects, time, thread
<1>1. ASSUME NEW a \in AO, Add(a, "ready")
      PROVE  \A t \in Timer : isIn'[t] = "timer" => isIn[t] = "timer"
  BY <1>1 DEF Add, IInv, ObjectsRight, ObjectsTyped, AO, Object
<1>2. ASSUME NEW a \in Active, CompleteRemote(a) PROVE TimersLeft
  BY <1>1, <1>2 DEF CompleteRemote, PendComplete, AO, Object
<1>3. ASSUME NEW c \in Controls, \/ StopScheduler(c) \/ SuspendScheduler(c) \/ ResumeScheduler(c)
                                 \/ CheckStatus(c) \/ StopResumes(c)
      PROVE  TimersLeft
  BY <1>3 DEF StopScheduler, SuspendScheduler, ResumeScheduler, Command, CheckStatus, StopResumes
<1>4. ASSUME NEW c \in Controls, CompleteStopper(c) PROVE TimersLeft
  BY <1>1, <1>4 DEF CompleteStopper, PendComplete, AO
<1> QED  BY <1>2, <1>3, <1>4 DEF Control

(* Every step keeps the timers timely.                                         *)
LEMMA TimelyStep == ASSUME IInv, Timely, FewObjects, [Next]_vars PROVE Timely'
<1>1. CASE StartScheduler \/ RunSchedulerNonBlocking
  <2>1. TickRead \/ TimersLeft
    BY <1>1 DEF StartScheduler, RunSchedulerNonBlocking, BeginScheduling, LoopOn, TickRead, TimersLeft,
       objects, time
  <2> QED  BY <2>1, TimelyRead, TimelyKept
<1>2. CASE Loop
  BY <1>2, LoopTimers, TimelyKept, TimelyRead, TimelyUpdated
<1>3. CASE Calls
  BY <1>3, CallTimers, TimelyKept, TimelyAfter
<1>4. CASE Tick
  BY <1>4, TimelyTick
<1>5. CASE \/ \E a \in Active : CompleteRemote(a)
           \/ \E c \in Controls : \/ StopScheduler(c) \/ SuspendScheduler(c)
                                  \/ ResumeScheduler(c) \/ Control(c)
  BY <1>5, OtherTimers, TimelyKept
<1>6. CASE UNCHANGED vars
  BY <1>6, TimelyKept DEF TimersLeft, vars, objects, time, thread
<1> QED  BY <1>1, <1>2, <1>3, <1>4, <1>5, <1>6 DEF Next

(* The step that takes a timer out of its queue: it is due, and it is first.   *)
OnTime ==
    \A t \in Timer :
        isIn[t] = "timer" /\ isIn'[t] # "timer" /\ pc \in {"timers", "wait"}
           => /\ left[t] <= 0
              /\ \A u \in Queued("timer") : left[t] <= left[u]

(* A timer leaves its queue there only as UpdateTimers completes it or as the  *)
(* wait for it ends.                                                           *)
LEMMA OnTimeStep == ASSUME IInv, Timely, FewObjects, [Next]_vars PROVE OnTime
<1> SUFFICES ASSUME NEW t \in Timer, isIn[t] = "timer", isIn'[t] # "timer", pc \in {"timers", "wait"}
             PROVE  left[t] <= 0 /\ \A u \in Waiting : left[t] <= left[u]
  BY TimersWait DEF OnTime
<1>1. CompleteTimer \/ WaitTimedOut
  <2>1. ASSUME NEW a \in AO, Add(a, "ready"), isIn[a] = "none" PROVE isIn'[t] = isIn[t]
    BY <2>1 DEF Add, IInv, ObjectsRight, ObjectsTyped
  <2>2. ~Calls
    BY DEF Calls, PendForExec, CompleteLocal, CancelRemote, RunIfNotReady, Cancel, After,
       RegisterForCallback, StopInRun, Call, MayCall
  <2>3. ASSUME NEW a \in Active, CompleteRemote(a) PROVE FALSE
    BY <2>1, <2>3 DEF CompleteRemote, PendComplete, Pending, AO, Object
  <2>4. ASSUME NEW c \in Controls, CompleteStopper(c) PROVE FALSE
    BY <2>1, <2>4 DEF CompleteStopper, PendComplete, Pending, AO, objects
  <2>5. ASSUME NEW c \in Controls, \/ StopScheduler(c) \/ SuspendScheduler(c) \/ ResumeScheduler(c)
                                   \/ CheckStatus(c) \/ StopResumes(c)
        PROVE  FALSE
    BY <2>5 DEF StopScheduler, SuspendScheduler, ResumeScheduler, Command, CheckStatus, StopResumes,
       objects
  <2>6. ~Tick /\ ~UNCHANGED vars /\ ~StartScheduler /\ ~RunSchedulerNonBlocking
    BY DEF Tick, vars, StartScheduler, RunSchedulerNonBlocking, objects
  <2>7. Loop => CompleteTimer \/ WaitTimedOut
    BY DEF Loop, EndScheduling, EndCancelsStopper, TimersUpdated, PopTop, NothingReady, SemWaited,
       PopTopAfterWait, AfterRun, ResumeWaited, Resumed, StopperRuns, RunReturns, RunLeaves,
       CancelWaited, StillPending, CancelEnds, objects
  <2> QED  BY <2>2, <2>3, <2>4, <2>5, <2>6, <2>7 DEF Next, Control
<1>2. CASE CompleteTimer
  <2>1. PICK x \in Timer : TimerTop(x) /\ Elapsed(x) <= Half /\ isIn' = [isIn EXCEPT ![x] = "ready"]
    BY <1>2 DEF CompleteTimer
  <2>2. x = t /\ pc = "timers"
    BY <1>2, <2>1 DEF CompleteTimer
  <2>3. t \in Waiting /\ \A u \in Waiting : left[t] <= left[u]
    BY <2>1, <2>2, FirstIsNext DEF Timely
  <2> QED  BY <2>1, <2>2, <2>3 DEF Timely, TimeTaken
<1>3. CASE WaitTimedOut
  <2>1. /\ next \in Timer /\ pc = "wait" /\ next # None /\ waitTicks = 0
        /\ isIn' = [isIn EXCEPT ![next] = "none"]
    BY <1>3 DEF WaitTimedOut, CallRunExec, Leaves, IInv, ThreadTyped
  <2>2. next = t
    BY <2>1
  <2> QED  BY <2>1, <2>2 DEF Timely, FirstWaitedFor
<1> QED  BY <1>1, <1>2, <1>3

(* A timer is run when its time has come, not before, and the earliest first,  *)
(* though the tick count rolls over, ticks pass as the timers are looked       *)
(* through, and other threads complete requests as the loop waits. At most     *)
(* five objects: beyond, the heap need not have the first timer at its top.    *)
THEOREM TimersAlwaysOnTime == FewObjects => (Spec => TimersOnTime)
<1> SUFFICES ASSUME FewObjects PROVE Spec => TimersOnTime
  OBVIOUS
<1> DEFINE Inv == IInv /\ Timely
           Act == OnTime
<1>1. Init => Inv
  BY InitIInv, TimelyInit
<1>2. Inv /\ [Next]_vars => Inv'
  BY NextStep, Stutter, TimelyStep
<1>3. Inv /\ [Next]_vars => [Act]_vars
  BY OnTimeStep
<1>4. TimersOnTime <=> [][Act]_vars
  BY DEF TimersOnTime, OnTime
<1> HIDE DEF Inv, Act
<1>5. Spec => [][Act]_vars
  BY <1>1, <1>2, <1>3, PTL DEF Spec
<1> QED  BY <1>4, <1>5
==============================================================================
