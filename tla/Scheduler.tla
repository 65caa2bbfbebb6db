------------------------------ MODULE Scheduler ------------------------------
(* OsclExecScheduler: active objects whose requests are completed by any       *)
(* thread and run, one at a time, by the thread of the scheduler; its timers;  *)
(* and the calls with which other threads stop, suspend and resume it.         *)
EXTENDS Integers, FiniteSets

CONSTANTS
    Active,        \* active objects: a request is given to another thread to
                   \* complete, or kept by the scheduler's own thread
    Timer,         \* timer objects
    Stopper,       \* iStopper
    Fallible,      \* those whose Run may leave with an error they do not handle
    Priority,      \* iAOPriority
    Controls,      \* threads that stop, suspend and resume
    Delays,        \* the delays of After, in microseconds
    TickPeriod,    \* and how many of them a tick has
    Wrap,          \* how many values a count of ticks or microseconds has: 2^32
    MaxLate,       \* bound: ticks a timer is due before the thread sees to it
    MaxRunCalls,   \* bound: calls of one Run, or between two runs of the scheduler
    MaxCommands,   \* bound: stops, suspensions and resumptions
    RunCount,      \* aCount of RunSchedulerNonBlocking
    None

Object == Active \cup Timer
AO     == Object \cup {Stopper}

(* iTimeCompareThreshold                                                       *)
Half == Wrap \div 2 - 1

(* The nearest number of ticks to a delay of so many half microseconds.        *)
Nearest(halves) == (halves \div TickPeriod + 1) \div 2

(* As it is computed, in an unsigned number.                                   *)
Ticks(delay) == Nearest((delay * 2) % Wrap)

ASSUME ObjectAssumption ==
    /\ IsFiniteSet(Object)
    /\ Active \cap Timer = {} /\ Stopper \notin Object /\ None \notin AO
    /\ Fallible \subseteq Object
ASSUME TimeAssumption ==
    /\ {Wrap, MaxLate, MaxRunCalls, MaxCommands, RunCount} \subseteq Nat /\ Wrap > 1
    /\ Delays \subseteq Nat /\ TickPeriod \in Nat \ {0}
    /\ \A d \in Delays : d * 2 < Wrap /\ Nearest(d * 2) + MaxLate <= Half
ASSUME PriorityAssumption ==
    /\ Priority \in [AO -> Int]
    /\ \A a \in Object : Priority[a] <= Priority[Stopper]

VARIABLES
    busy,          \* iBusy
    status,        \* iStatus: "done" is any reason but what the stopper looks at
    isIn,          \* iIsIn: the queue an object is in
    ahead,         \* for iSeqNum: who was in that queue when an object was added
    given,         \* objects whose request another thread has yet to complete
    sem,           \* iSem of the ready queue
    callback,      \* iCallback is set
    tick,          \* the tick count
    due,           \* iTimeToRunTicks
    left,          \* history: ticks until a timer is due
    pc,            \* where the scheduler's thread is
    cur,           \* the active object whose Run it is in
    now,           \* timenow of UpdateTimers
    next,          \* the timer UpdateTimers returned
    waitTicks,     \* ticks the timed wait lasts, or has yet to last
    target,        \* the object that RequestCanceled waits for
    nwait,         \* semaphore waits WaitForRequestComplete has yet to restore
    calls,         \* calls made by the Run, runs made by RunSchedulerNonBlocking
    runs,
    open,          \* iStopper is added: the scheduler is started
    blocking,      \* iBlockingMode
    doStop, doSuspend, suspended,
    resumeSem,     \* iResumeSem
    at,            \* where the controlling threads are
    commands

objects == <<busy, status, isIn, ahead, given, sem, callback>>
time    == <<tick, left>>
thread  == <<pc, cur, now, next, waitTicks, target, nwait, calls, runs>>
flags   == <<doStop, doSuspend, suspended, resumeSem>>
mode    == <<open, blocking>>
others  == <<at, commands>>
vars    == <<objects, time, due, thread, flags, mode, others>>

Queued(q) == {a \in AO : isIn[a] = q}
Ready     == Queued("ready")

Init ==
    /\ busy = [a \in AO |-> FALSE] /\ status = [a \in AO |-> "done"]
    /\ isIn = [a \in AO |-> "none"] /\ ahead = [a \in AO |-> {}]
    /\ given = {} /\ sem = 0 /\ callback = FALSE
    /\ tick = 0 /\ left = [t \in Timer |-> 0] /\ due = [t \in Timer |-> 0]
    /\ pc = "idle" /\ cur = None /\ now = 0 /\ next = None /\ waitTicks = 0
    /\ target = None /\ nwait = 0 /\ calls = 0 /\ runs = 0
    /\ open = FALSE /\ blocking = FALSE
    /\ doStop = FALSE /\ doSuspend = FALSE /\ suspended = FALSE /\ resumeSem = 0
    /\ at = [c \in Controls |-> "idle"] /\ commands = 0
------------------------------------------------------------------------------
(* The queues.                                                                 *)

\* mutant: of equal priority, the last that was queued
LatestFirst(a, b) ==
    \/ Priority[a] > Priority[b]
    \/ Priority[a] = Priority[b] /\ b \in ahead[a]

(* OsclReadyCompare: by priority, then who has been queued the longest.        *)
GoesFirst(a, b) ==
    \/ Priority[a] > Priority[b]
    \/ Priority[a] = Priority[b] /\ b \notin ahead[a]

(* top of the ready queue. PriorityQueue has why it is that of up to five.     *)
ReadyTop(a) ==
    /\ a \in Ready
    /\ Cardinality(AO) <= 5 => \A b \in Ready \ {a} : GoesFirst(a, b)

(* OsclTimerCompare: the earlier, by a difference that may have rolled over.   *)
TimerGoesFirst(t, u) ==
    IF due[t] # due[u] THEN (due[u] - due[t]) % Wrap <= Half ELSE GoesFirst(t, u)

TimerTop(t) ==
    /\ t \in Queued("timer")
    /\ Cardinality(AO) <= 5 => \A u \in Queued("timer") \ {t} : TimerGoesFirst(t, u)

Add(a, q) ==
    /\ isIn' = [isIn EXCEPT ![a] = q]
    /\ ahead' = [ahead EXCEPT ![a] = Queued(q)]

Leaves(a) ==
    /\ isIn' = [isIn EXCEPT ![a] = "none"]
    /\ ahead' = [b \in AO |-> IF b = a THEN {} ELSE ahead[b] \ {a}]

(* The time of a timer that is in no queue means nothing.                      *)
NotQueued(times, a) == [t \in Timer |-> IF t = a THEN 0 ELSE times[t]]

(* OsclReadyQ::PendComplete, from any thread and under the queue's lock.       *)
Pending(a) == busy[a] /\ status[a] = "pending" /\ isIn[a] = "none"

PendComplete(a, reason) ==
    /\ Pending(a)
    /\ Add(a, "ready") /\ sem' = sem + 1
    /\ status' = [status EXCEPT ![a] = reason]
    /\ callback' = FALSE
    /\ UNCHANGED busy

------------------------------------------------------------------------------
(* Starting and ending.                                                        *)

BeginScheduling(b) ==
    /\ open' = TRUE /\ blocking' = b
    /\ busy' = [busy EXCEPT ![Stopper] = TRUE]
    /\ status' = [status EXCEPT ![Stopper] = "pending"]
    /\ UNCHANGED <<isIn, ahead, given, sem, callback>>

(* The loop's condition: the loop goes on, or StartScheduler to its end.       *)
LoopOn ==
    IF doStop THEN pc' = "end" /\ doStop' = FALSE /\ UNCHANGED now
    ELSE pc' = "timers" /\ now' = tick /\ UNCHANGED doStop

StartScheduler ==
    /\ pc = "idle" /\ ~open /\ ~busy[Stopper]
    /\ BeginScheduling(TRUE) /\ LoopOn /\ calls' = 0
    /\ UNCHANGED <<time, due, cur, next, waitTicks, target, nwait, runs,
                   doSuspend, suspended, resumeSem, others>>

RunSchedulerNonBlocking ==
    /\ pc = "idle"
    /\ \/ ~open /\ ~busy[Stopper] /\ BeginScheduling(FALSE)
       \/ open /\ ~blocking /\ UNCHANGED <<objects, mode>>
    /\ pc' = "timers" /\ now' = tick /\ runs' = 0 /\ calls' = 0
    /\ UNCHANGED <<time, due, cur, next, waitTicks, target, nwait, flags, others>>

(* EndScheduling: a stopper that still pends is cancelled. That its status is  *)
(* checked without the queue's lock lets another thread complete it in         *)
(* between: then PendComplete leaves, and leaves iStopperCrit locked.          *)
EndScheduling ==
    /\ pc = "end"
    /\ IF busy[Stopper] /\ status[Stopper] = "pending"
       THEN pc' = "endCancel" /\ UNCHANGED <<objects, open>>
       ELSE /\ pc' = "idle" /\ open' = FALSE
            /\ busy' = [busy EXCEPT ![Stopper] = FALSE]
            /\ IF Stopper \in Ready THEN Leaves(Stopper) /\ sem' = sem - 1
               ELSE UNCHANGED <<isIn, ahead, sem>>
            /\ UNCHANGED <<status, given, callback>>
    /\ UNCHANGED <<time, due, cur, now, next, waitTicks, target, nwait, calls, runs,
                   flags, blocking, others>>

EndCancelsStopper ==
    /\ pc = "endCancel"
    /\ IF Pending(Stopper)
       THEN /\ pc' = "idle" /\ open' = FALSE
            /\ busy' = [busy EXCEPT ![Stopper] = FALSE]
            /\ status' = [status EXCEPT ![Stopper] = "done"]
            /\ callback' = FALSE
       ELSE pc' = "dead" /\ UNCHANGED <<busy, status, callback, open>>
    /\ UNCHANGED <<isIn, ahead, given, sem, time, due, cur, now, next, waitTicks, target,
                   nwait, calls, runs, flags, blocking, others>>
------------------------------------------------------------------------------
(* The scheduling loop.                                                        *)

\* mutant: the ticks are compared as integers
SignedElapsed(t) == now - due[t]

(* How long a timer is due, as an unsigned number.                             *)
Elapsed(t) == (now - due[t]) % Wrap

\* mutant: the difference of the ticks as it is, no delay
Difference(t) == Elapsed(t)

(* A difference beyond the threshold is a negative number.                     *)
DelayTicks(t) == Wrap - Elapsed(t)

(* UpdateTimers: each timer that is due is completed, and what is left of the  *)
(* delay of the first that is not is the time to wait.                         *)
CompleteTimer ==
    /\ pc = "timers"
    /\ \E t \in Timer :
        /\ TimerTop(t) /\ Elapsed(t) <= Half
        /\ isIn' = [isIn EXCEPT ![t] = "ready"]
        /\ ahead' = [b \in AO |-> IF b = t THEN Ready ELSE ahead[b] \ {t}]
        /\ status' = [status EXCEPT ![t] = "done"]
        /\ sem' = sem + 1 /\ callback' = FALSE
        /\ due' = NotQueued(due, t) /\ left' = NotQueued(left, t)
    /\ UNCHANGED <<busy, given, tick, thread, flags, mode, others>>

TimersUpdated ==
    /\ pc = "timers"
    /\ \A t \in Timer : TimerTop(t) => Elapsed(t) > Half
    /\ IF blocking \/ runs < RunCount
       THEN /\ pc' = "pop"
            /\ \/ Queued("timer") = {} /\ next' = None /\ waitTicks' = 0
               \/ \E t \in Timer : TimerTop(t) /\ next' = t /\ waitTicks' = DelayTicks(t)
       ELSE pc' = "idle" /\ UNCHANGED <<next, waitTicks>>
    /\ now' = 0
    /\ UNCHANGED <<objects, time, due, cur, target, nwait, calls, runs, flags, mode, others>>

(* CallRunExec, up to the Run.                                                 *)
CallRunExec(a) ==
    /\ pc' = "run" /\ cur' = a /\ calls' = 0
    /\ next' = None /\ waitTicks' = 0
    /\ busy' = [busy EXCEPT ![a] = FALSE]
    /\ Leaves(a)

(* PopTop: the wait does not block.                                            *)
PopTop ==
    /\ pc = "pop"
    /\ \E a \in AO :
        /\ ReadyTop(a)
        /\ sem > 0 /\ sem' = sem - 1
        /\ CallRunExec(a)
    /\ runs' = IF blocking THEN runs ELSE runs + 1
    /\ UNCHANGED <<status, given, callback, time, due, now, target, nwait, flags, mode, others>>

NothingReady ==
    /\ pc = "pop" /\ Ready = {}
    /\ pc' = IF blocking THEN "wait" ELSE "idle"
    /\ IF blocking THEN UNCHANGED <<next, waitTicks>> ELSE next' = None /\ waitTicks' = 0
    /\ UNCHANGED <<objects, time, due, cur, now, target, nwait, calls, runs, flags, mode, others>>

(* WaitAndPopTop: the semaphore first, the queue in a step of its own.         *)
SemWaited ==
    /\ pc = "wait" /\ sem > 0
    /\ sem' = sem - 1 /\ pc' = "popAfter"
    /\ UNCHANGED <<busy, status, isIn, ahead, given, callback, time, due, cur, now, next,
                   waitTicks, target, nwait, calls, runs, flags, mode, others>>

PopTopAfterWait ==
    /\ pc = "popAfter"
    /\ \E a \in AO : ReadyTop(a) /\ CallRunExec(a)
    /\ UNCHANGED <<status, given, sem, callback, time, due, now, target, nwait, runs,
                   flags, mode, others>>

(* The timed wait ends: the timer is run as it is popped from the timer queue. *)
WaitTimedOut ==
    /\ pc = "wait" /\ next # None /\ waitTicks = 0
    /\ status' = [status EXCEPT ![next] = "done"]
    /\ CallRunExec(next)
    /\ due' = NotQueued(due, next) /\ left' = NotQueued(left, next)
    /\ UNCHANGED <<given, sem, callback, tick, now, target, nwait, runs,
                   flags, mode, others>>

(* After a Run: a suspension, or the next turn.                                *)
AfterRun ==
    /\ pc = "after"
    /\ IF ~blocking THEN pc' = "timers" /\ now' = tick /\ UNCHANGED flags
       ELSE IF doSuspend
       THEN /\ pc' = "suspended" /\ suspended' = TRUE /\ doSuspend' = FALSE
            /\ UNCHANGED <<now, doStop, resumeSem>>
       ELSE LoopOn /\ UNCHANGED <<doSuspend, suspended, resumeSem>>
    /\ UNCHANGED <<objects, time, due, cur, next, waitTicks, target, nwait, calls, runs,
                   mode, others>>

ResumeWaited ==
    /\ pc = "suspended" /\ resumeSem > 0
    /\ resumeSem' = resumeSem - 1 /\ pc' = "resumed"
    /\ UNCHANGED <<objects, time, due, cur, now, next, waitTicks, target, nwait, calls, runs,
                   doStop, doSuspend, suspended, mode, others>>

Resumed ==
    /\ pc = "resumed"
    /\ suspended' = FALSE /\ LoopOn
    /\ UNCHANGED <<objects, time, due, cur, next, waitTicks, target, nwait, calls, runs,
                   doSuspend, resumeSem, mode, others>>
------------------------------------------------------------------------------
(* What a Run does, and the thread between two runs of the scheduler.          *)

(* PVSchedulerStopper::Run                                                     *)
StopperRuns ==
    /\ pc = "run" /\ cur = Stopper
    /\ \/ status[Stopper] = "stop" /\ doStop' = TRUE /\ UNCHANGED <<doSuspend, busy, status>>
       \/ /\ status[Stopper] = "suspend" /\ doSuspend' = TRUE /\ UNCHANGED doStop
          /\ busy' = [busy EXCEPT ![Stopper] = TRUE]
          /\ status' = [status EXCEPT ![Stopper] = "pending"]
    /\ pc' = "after" /\ cur' = None
    /\ UNCHANGED <<isIn, ahead, given, sem, callback, time, due, now, next, waitTicks, target,
                   nwait, calls, runs, suspended, resumeSem, mode, others>>

MayCall ==
    \/ pc = "run" /\ cur # Stopper
    \/ pc = "idle"

Call ==
    /\ MayCall /\ calls < MaxRunCalls
    /\ calls' = calls + 1

(* PendForExec, and the request may go to a thread that is to complete it.     *)
PendForExec(a) ==
    /\ Call /\ ~busy[a]
    /\ busy' = [busy EXCEPT ![a] = TRUE]
    /\ status' = [status EXCEPT ![a] = "pending"]
    /\ given' \in {given, given \cup {a}}
    /\ UNCHANGED <<isIn, ahead, sem, callback, time, due, pc, cur, now, next, waitTicks,
                   target, nwait, runs, flags, mode, others>>

(* OsclActiveObject::PendComplete on the thread itself.                        *)
CompleteLocal(a) ==
    /\ Call /\ a \notin given /\ PendComplete(a, "done")
    /\ UNCHANGED <<given, time, due, pc, cur, now, next, waitTicks, target, nwait, runs,
                   flags, mode, others>>

(* RunIfNotReady with no delay: pending and completed at once.                 *)
RunIfNotReady(a) ==
    /\ Call /\ ~busy[a]
    /\ Add(a, "ready") /\ sem' = sem + 1
    /\ busy' = [busy EXCEPT ![a] = TRUE]
    /\ status' = [status EXCEPT ![a] = "done"]
    /\ callback' = FALSE
    /\ UNCHANGED <<given, time, due, pc, cur, now, next, waitTicks, target, nwait, runs,
                   flags, mode, others>>

(* After: AddToExecTimerQ. A callback hears of a timer that becomes the first. *)
After(t, d) ==
    /\ Call /\ ~busy[t]
    /\ Add(t, "timer")
    /\ due' = [due EXCEPT ![t] = (tick + Ticks(d)) % Wrap]
    /\ left' = [left EXCEPT ![t] = Nearest(d * 2)]
    /\ busy' = [busy EXCEPT ![t] = TRUE]
    /\ status' = [status EXCEPT ![t] = "pending"]
    /\ callback' = (callback /\ ~TimerTop(t)')
    /\ UNCHANGED <<given, sem, tick, pc, cur, now, next, waitTicks, target, nwait, runs,
                   flags, mode, others>>

\* mutant: the request is not set idle
StaysBusy(a) == Leaves(a) /\ UNCHANGED busy

(* RequestCanceled, when the request is complete: not busy, in no queue.       *)
SetIdle(a) ==
    /\ busy' = [busy EXCEPT ![a] = FALSE]
    /\ Leaves(a)

(* Cancel of a request that is complete, or that no other thread has: DoCancel *)
(* completes it itself, and what this queues is taken out again.               *)
Cancel(a) ==
    /\ Call /\ busy[a] /\ a \notin given
    /\ SetIdle(a)
    /\ sem' = IF a \in Ready THEN sem - 1 ELSE sem
    /\ callback' = (callback /\ status[a] # "pending")
    /\ status' = [status EXCEPT ![a] = "done"]
    /\ due' = NotQueued(due, a) /\ left' = NotQueued(left, a)
    /\ UNCHANGED <<given, tick, pc, cur, now, next, waitTicks, target, nwait, runs,
                   flags, mode, others>>

(* Cancel of a request that another thread has: DoCancel leaves it to that     *)
(* thread, and WaitForRequestComplete waits.                                   *)
CancelRemote(a) ==
    /\ Call /\ a \in given
    /\ target' = a /\ pc' = "cancelWait"
    /\ UNCHANGED <<objects, time, due, cur, now, next, waitTicks, nwait, runs, flags, mode,
                   others>>

CancelWaited ==
    /\ pc = "cancelWait" /\ sem > 0
    /\ sem' = sem - 1 /\ nwait' = nwait + 1 /\ pc' = "cancelCheck"
    /\ UNCHANGED <<busy, status, isIn, ahead, given, callback, time, due, cur, now, next,
                   waitTicks, target, calls, runs, flags, mode, others>>

StillPending ==
    /\ pc = "cancelCheck" /\ target \notin Ready
    /\ pc' = "cancelWait"
    /\ UNCHANGED <<objects, time, due, cur, now, next, waitTicks, target, nwait, calls, runs,
                   flags, mode, others>>

\* mutant: one signal for all the waits
RestoredOnce == sem + 1

(* The waits are restored, one signal each, and the request is removed.        *)
Restored == sem + nwait

CancelEnds ==
    /\ pc = "cancelCheck" /\ target \in Ready
    /\ SetIdle(target) /\ sem' = Restored - 1
    /\ nwait' = 0 /\ target' = None
    /\ pc' = IF cur = None THEN "idle" ELSE "run"
    /\ UNCHANGED <<status, given, callback, time, due, cur, now, next, waitTicks, calls, runs,
                   flags, mode, others>>

\* mutant: the callback is kept whatever is ready
RegisterBlindly ==
    /\ Call /\ callback' = TRUE
    /\ UNCHANGED <<busy, status, isIn, ahead, given, sem, time, due, pc, cur, now, next,
                   waitTicks, target, nwait, runs, flags, mode, others>>

(* RegisterForCallback: at once if there is something ready.                   *)
RegisterForCallback ==
    /\ Call /\ callback' = (Ready = {})
    /\ UNCHANGED <<busy, status, isIn, ahead, given, sem, time, due, pc, cur, now, next,
                   waitTicks, target, nwait, runs, flags, mode, others>>

(* StopScheduler on the scheduler's own thread.                                *)
StopInRun ==
    /\ Call /\ pc = "run" /\ blocking /\ open
    /\ PendComplete(Stopper, "stop")
    /\ UNCHANGED <<given, time, due, pc, cur, now, next, waitTicks, target, nwait, runs,
                   flags, mode, others>>

RunReturns ==
    /\ pc = "run" /\ cur # Stopper
    /\ pc' = "after" /\ cur' = None /\ calls' = 0
    /\ UNCHANGED <<objects, time, due, now, next, waitTicks, target, nwait, runs, flags,
                   mode, others>>

(* A Run whose error nobody handles ends the scheduling.                       *)
RunLeaves ==
    /\ pc = "run" /\ cur \in Fallible
    /\ pc' = (IF blocking THEN "end" ELSE "idle") /\ cur' = None /\ calls' = 0
    /\ UNCHANGED <<objects, time, due, now, next, waitTicks, target, nwait, runs, flags,
                   mode, others>>
------------------------------------------------------------------------------
(* Other threads.                                                              *)

(* PendComplete by the thread that has the request.                            *)
CompleteRemote(a) ==
    /\ a \in given
    /\ PendComplete(a, "done") /\ given' = given \ {a}
    /\ UNCHANGED <<time, due, thread, flags, mode, others>>

GoesTo(c, place) == at' = [at EXCEPT ![c] = place]

(* StopScheduler and SuspendScheduler, up to IsStarted, which needs the lock   *)
(* that a failed EndScheduling never gives back; then each check is a step.    *)
Command(c, place) ==
    /\ at[c] = "idle" /\ commands < MaxCommands
    /\ commands' = commands + 1
    /\ pc # "dead" /\ blocking /\ open
    /\ GoesTo(c, place)
    /\ UNCHANGED <<objects, time, due, thread, flags, mode>>

StopScheduler(c)    == Command(c, "stopStatus")
SuspendScheduler(c) == Command(c, "suspendStatus")

CheckStatus(c) ==
    /\ at[c] \in {"stopStatus", "suspendStatus"}
    /\ GoesTo(c, IF status[Stopper] # "pending" THEN "idle"
                 ELSE IF at[c] = "stopStatus" THEN "stopResume" ELSE "suspend")
    /\ UNCHANGED <<objects, time, due, thread, flags, mode, commands>>

\* mutant: a suspended scheduler is not resumed
StopOnly(c) ==
    /\ at[c] = "stopResume" /\ GoesTo(c, "stop")
    /\ UNCHANGED <<objects, time, due, thread, flags, mode, commands>>

(* "in case scheduler is in the suspend loop"                                  *)
StopResumes(c) ==
    /\ at[c] = "stopResume"
    /\ resumeSem' = IF doSuspend \/ suspended THEN resumeSem + 1 ELSE resumeSem
    /\ GoesTo(c, "stop")
    /\ UNCHANGED <<objects, time, due, thread, doStop, doSuspend, suspended, mode, commands>>

(* PendComplete of the stopper; if it is not added or not pending it leaves.   *)
CompleteStopper(c) ==
    /\ at[c] \in {"stop", "suspend"}
    /\ IF open /\ Pending(Stopper) THEN PendComplete(Stopper, at[c]) /\ UNCHANGED given
       ELSE UNCHANGED objects
    /\ GoesTo(c, "idle")
    /\ UNCHANGED <<time, due, thread, flags, mode, commands>>

ResumeScheduler(c) ==
    /\ at[c] = "idle" /\ commands < MaxCommands /\ commands' = commands + 1
    /\ doSuspend \/ suspended
    /\ resumeSem' = resumeSem + 1
    /\ UNCHANGED <<objects, time, due, thread, doStop, doSuspend, suspended, mode, at>>

(* Time passes, also for a timed wait; no timer is left due for too long.      *)
Tick ==
    /\ \A t \in Queued("timer") : left[t] > -MaxLate
    /\ tick' = (tick + 1) % Wrap
    /\ left' = [t \in Timer |-> IF isIn[t] = "timer" THEN left[t] - 1 ELSE 0]
    /\ waitTicks' = IF pc = "wait" /\ waitTicks > 0 THEN waitTicks - 1 ELSE waitTicks
    /\ UNCHANGED <<objects, due, pc, cur, now, next, target, nwait, calls, runs, flags, mode,
                   others>>
------------------------------------------------------------------------------
Loop ==
    \/ EndScheduling \/ EndCancelsStopper
    \/ CompleteTimer \/ TimersUpdated \/ PopTop \/ NothingReady
    \/ SemWaited \/ PopTopAfterWait \/ WaitTimedOut
    \/ AfterRun \/ ResumeWaited \/ Resumed
    \/ StopperRuns \/ RunReturns \/ RunLeaves
    \/ CancelWaited \/ StillPending \/ CancelEnds

Calls ==
    \/ \E a \in Active : PendForExec(a) \/ CompleteLocal(a) \/ CancelRemote(a)
    \/ \E a \in Object : RunIfNotReady(a) \/ Cancel(a)
    \/ \E t \in Timer, d \in Delays : After(t, d)
    \/ RegisterForCallback \/ StopInRun

Control(c) ==
    \/ CheckStatus(c) \/ StopResumes(c) \/ CompleteStopper(c)

Next ==
    \/ StartScheduler \/ RunSchedulerNonBlocking
    \/ Loop \/ Calls \/ Tick
    \/ \E a \in Active : CompleteRemote(a)
    \/ \E c \in Controls : \/ StopScheduler(c) \/ SuspendScheduler(c) \/ ResumeScheduler(c)
                           \/ Control(c)

Spec == Init /\ [][Next]_vars

(* The threads run; a thread that was given a request completes it.            *)
Fairness ==
    /\ WF_vars(Loop)
    /\ \A a \in Active : WF_vars(CompleteRemote(a))
    /\ \A c \in Controls : WF_vars(Control(c))

FairSpec == Spec /\ Fairness
------------------------------------------------------------------------------
TypeOK ==
    /\ busy \in [AO -> BOOLEAN]
    /\ status \in [AO -> {"pending", "done", "stop", "suspend"}]
    /\ isIn \in [AO -> {"none", "ready", "timer"}] /\ ahead \in [AO -> SUBSET AO]
    /\ given \subseteq Active /\ sem \in Nat /\ callback \in BOOLEAN
    /\ tick \in 0 .. Wrap - 1 /\ due \in [Timer -> 0 .. Wrap - 1]
    /\ left \in [Timer -> Int]
    /\ pc \in {"idle", "timers", "pop", "wait", "popAfter", "run", "after", "suspended",
               "resumed", "cancelWait", "cancelCheck", "end", "endCancel", "dead"}
    /\ cur \in AO \cup {None} /\ now \in 0 .. Wrap - 1 /\ next \in Timer \cup {None}
    /\ waitTicks \in 0 .. Wrap - Half - 1 /\ target \in Active \cup {None} /\ nwait \in Nat
    /\ calls \in 0 .. MaxRunCalls /\ runs \in Nat
    /\ {open, blocking, doStop, doSuspend, suspended} \subseteq BOOLEAN
    /\ resumeSem \in Nat /\ commands \in 0 .. MaxCommands
    /\ at \in [Controls -> {"idle", "stopStatus", "suspendStatus", "stopResume", "stop",
                            "suspend"}]

(* Waits of the semaphore whose element has yet to be taken, or restored.      *)
Waits == nwait + (IF pc = "popAfter" THEN 1 ELSE 0)

(* The semaphore counts the ready queue, but for the waits whose element has   *)
(* yet to be taken: no pop or remove blocks under the queue's lock, and "there *)
(* should always be an element available after a sem wait".                    *)
SemaphoreCountsReady == sem + Waits = Cardinality(Ready)

(* An active request is always where something will complete or run it: in the *)
(* ready queue, completed; in the timer queue, pending; or pending with who is *)
(* to complete it, and the thread that was given it will not be refused. One   *)
(* that is run, or cancelled, is in none of these: it "will not run" again.    *)
NoRequestLost ==
    \A a \in AO :
        /\ isIn[a] = "ready" => busy[a] /\ status[a] # "pending" /\ a \notin given
        /\ isIn[a] = "timer" => a \in Timer /\ busy[a] /\ status[a] = "pending" /\ a \notin given
        /\ isIn[a] = "none"  => (busy[a] => status[a] = "pending") /\ (a \in given => busy[a])

(* A timer is completed when its time has come and not before, whatever the    *)
(* tick count rolled over, and no timer that is due earlier still waits.       *)
TimersOnTime ==
    [][\A t \in Timer :
          isIn[t] = "timer" /\ isIn'[t] # "timer" /\ pc \in {"timers", "wait"}
             => /\ left[t] <= 0
                /\ \A u \in Queued("timer") : left[t] <= left[u]]_vars

(* Who registered for a callback need not look: nothing is ready.              *)
CallbackWhenReady == callback => Ready = {}

(* A stop that was accepted.                                                   *)
Stopping == Stopper \in Ready /\ status[Stopper] = "stop"

(* No thread is within SuspendScheduler while another is within StopScheduler. *)
NoSuspensionInStop ==
    \A c, d \in Controls :
        at[c] \in {"stopStatus", "stopResume", "stop"} => at[d] \notin {"suspendStatus", "suspend"}

(* A stop that was accepted ends the scheduling, suspended or not, if no other *)
(* thread's suspension overtook it and no error was ending the scheduling just *)
(* then (EndCancelsStopper).                                                   *)
StopEnds ==
    []NoSuspensionInStop =>
        (Stopping /\ pc \notin {"endCancel", "dead"} ~> pc = "idle")

(* "Any thread can use this to stop the blocking scheduler": then it ends.     *)
StopAlwaysEnds == Stopping ~> pc = "idle"

(* No active object waits for ever behind others of its priority: while the    *)
(* scheduler runs, what is ready is run.                                       *)
ReadyRuns ==
    \A a \in Object :
        a \in Ready /\ open ~> a \notin Ready \/ pc \in {"suspended", "idle", "dead"}
==============================================================================
