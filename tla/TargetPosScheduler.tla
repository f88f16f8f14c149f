------------------------ MODULE TargetPosScheduler ------------------------
(***************************************************************************)
(* The target position scheduler of tqsdk-task: a list of steps, each with *)
(* a target volume and a time limit, or a pause.  For a step with a target *)
(* it runs a target position task of its own; when the time is up it       *)
(* cancels the task's orders, waits until they are gone and goes on to the *)
(* next step.  The last step runs until its target is reached.             *)
(***************************************************************************)
EXTENDS TargetPos

CONSTANT Steps    \* the schedule: records of a target, None for a pause

ASSUME StepsAssumption ==
    /\ Steps # <<>>
    /\ \A i \in DOMAIN Steps : Steps[i] \in Int \cup {None}

VARIABLE sched

schedVars == <<vars, sched>>

IdleSched == [step |-> 1, started |-> FALSE, active |-> FALSE, phase |-> "running",
              quoted |-> FALSE, cancelRequested |-> FALSE, finished |-> FALSE,
              failed |-> FALSE, dropped |-> FALSE, outcomes |-> <<>>]

Target == Steps[sched.step]
(* Mutant: the last step is taken to be the one before.                    *)
IsLastStepEarly == sched.step + 1 >= Len(Steps)
IsLastStep == sched.step = Len(Steps)

(* ensure_step_started opens the step's outcome and, unless it is a pause, *)
(* builds the task that works on it.                                       *)
Started ==
    IF sched.started THEN sched
    ELSE [sched EXCEPT !.started = TRUE, !.phase = "running", !.active = Target # None,
                       !.outcomes = Append(@, [orders |-> {}, trades |-> {}])]
StepTask ==
    IF sched.started \/ Target = None THEN task
    ELSE [IdleTask EXCEPT !.target = Target, !.seq = 1]
AskedWith == asked \cup (IF Target = None THEN {} ELSE {Target})

(* advance_step, finish and finish_with_error; the latter two end the task *)
(* of the step too (cancel_active_task).                                   *)
(* Mutant of Advanced: the clock of the old step keeps running.            *)
AdvancedStillStarted(s) == [s EXCEPT !.step = @ + 1, !.active = FALSE, !.phase = "running"]
Advanced(s) == [s EXCEPT !.step = @ + 1, !.started = FALSE, !.active = FALSE,
                         !.phase = "running"]
FinishedSched(s, failed) ==
    [s EXCEPT !.finished = TRUE, !.failed = failed, !.started = FALSE, !.active = FALSE]

(* collect_active_task_events: what the task has reported since the last   *)
(* time goes into the step's outcome.                                      *)
Collected(s) ==
    IF s.active THEN [s EXCEPT !.outcomes[s.step] = [orders |-> task.known,
                                                     trades |-> task.seen]]
    ELSE s

-----------------------------------------------------------------------------
SchedInit == Init /\ sched = IdleSched

CancelScheduler ==
    /\ ~sched.finished /\ ~sched.cancelRequested
    /\ sched' = [sched EXCEPT !.cancelRequested = TRUE]
    /\ UNCHANGED vars

DropScheduler ==
    /\ AllowDrop /\ pc = "idle" /\ ~sched.finished
    /\ sched' = [FinishedSched(sched, FALSE) EXCEPT !.dropped = TRUE]
    /\ task' = Finish(task)
    /\ UNCHANGED <<exchange, runtime, host, setting, failures, asked>>

SchedulerWaitUpdate ==
    ~sched.finished /\ TakeCommit("scheduler") /\ UNCHANGED sched

(* Cancel the orders of the step's task and then go on as named.           *)
CancelStepOrders(t, then) ==
    /\ CancelOrders(Prune(t), t.tracked, then)
    /\ task' = Prune(t)

(* process_wait_update of a scheduler that is to be cancelled.             *)
StopScheduler ==
    /\ pc = "scheduler" /\ sched.cancelRequested
    /\ \/ sched.active /\ CancelStepOrders(task, "stop") /\ UNCHANGED sched
       \/ /\ ~sched.active /\ sched' = FinishedSched(sched, FALSE)
          /\ Goto("idle", <<>>, None) /\ UNCHANGED <<task>>
    /\ UNCHANGED <<exchange, runtime, setting, failures, asked>>

(* The current step has time left, or is the last one: its task runs.      *)
RunStep ==
    /\ pc = "scheduler" /\ ~sched.cancelRequested
    /\ IsLastStep \/ Started.phase = "running"
    /\ task' = StepTask /\ asked' = AskedWith
    /\ \/ Started.active /\ Goto("process", <<>>, None)
          /\ sched' = [Started EXCEPT !.quoted = @ \/ ~IsLastStep]
       \/ ~Started.active /\ Goto("idle", <<>>, None)
          /\ sched' = IF IsLastStep THEN FinishedSched(Started, FALSE) ELSE Started
    /\ UNCHANGED <<exchange, runtime, setting, failures>>

(* ensure_quote_ref fails: the scheduler ends.                             *)
QuoteFails ==
    /\ pc = "scheduler" /\ ~sched.cancelRequested /\ ~IsLastStep
    /\ Started.phase = "running" /\ Target # None /\ ~sched.quoted
    /\ CommandFails
    /\ sched' = FinishedSched(Started, TRUE) /\ task' = Finish(StepTask)
    /\ asked' = AskedWith
    /\ Goto("idle", <<>>, None) /\ UNCHANGED <<runtime, setting>>

(* step_deadline_elapsed: the step's time is up, now or in an earlier call *)
(* that still found orders.  A pause has nothing to cancel.                *)
EndStep ==
    /\ pc = "scheduler" /\ ~sched.cancelRequested /\ ~IsLastStep
    /\ asked' = AskedWith
    /\ \/ /\ Started.active
          /\ sched' = [Started EXCEPT !.phase = "cancelling", !.quoted = TRUE]
          /\ CancelStepOrders(StepTask, "nextStep")
       \/ /\ ~Started.active /\ sched' = Advanced(Started)
          /\ UNCHANGED <<task, host>>
    /\ UNCHANGED <<exchange, runtime, setting, failures>>

(* Mutant: the next step starts as soon as the cancels are sent.           *)
OrdersCancelledAtOnce ==
    /\ pc \in {"stop", "nextStep"}
    /\ task' = Finish(Prune(task))
    /\ Goto(IF pc = "stop" THEN "idle" ELSE "scheduler", <<>>, None)
    /\ sched' = IF pc = "stop" THEN FinishedSched(Collected(sched), FALSE)
                ELSE Advanced(Collected(sched))
    /\ UNCHANGED <<exchange, runtime, setting, failures, asked>>

(* The cancels are sent: if an order is still there the next wait_update   *)
(* looks again, otherwise the step, or the whole schedule, is over.        *)
OrdersCancelled ==
    LET t == Prune(task)
        gone == t.tracked = {}
    IN  /\ task' = IF gone THEN Finish(t) ELSE t
        /\ \/ /\ pc = "stop" /\ Goto("idle", <<>>, None)
              /\ sched' = IF gone THEN FinishedSched(Collected(sched), FALSE)
                          ELSE Collected(sched)
           \/ /\ pc = "nextStep" /\ Goto(IF gone THEN "scheduler" ELSE "idle", <<>>, None)
              /\ sched' = IF gone THEN Advanced(Collected(sched)) ELSE Collected(sched)
        /\ UNCHANGED <<exchange, runtime, setting, failures, asked>>

(* The step's task has run, or one of its commands has failed.             *)
TaskReturned ==
    /\ pc = "returned" /\ Goto("idle", <<>>, None)
    /\ \/ /\ task.finished /\ task.error
          /\ sched' = FinishedSched(Collected(sched), TRUE) /\ UNCHANGED task
       \/ /\ ~(task.finished /\ task.error) /\ IsLastStep /\ task.applied = Target
          /\ sched' = FinishedSched(Collected(sched), FALSE) /\ task' = Finish(task)
       \/ /\ ~(task.finished /\ task.error) /\ ~(IsLastStep /\ task.applied = Target)
          /\ sched' = Collected(sched) /\ UNCHANGED task
    /\ UNCHANGED <<exchange, runtime, setting, failures, asked>>

SchedNext ==
    \/ CancelScheduler \/ DropScheduler
    \/ SchedulerWaitUpdate
    \/ StopScheduler \/ RunStep \/ QuoteFails \/ EndStep \/ OrdersCancelled \/ TaskReturned
    \/ (Environment \/ TaskSteps) /\ UNCHANGED sched

SchedSpec == SchedInit /\ [][SchedNext]_schedVars
-----------------------------------------------------------------------------
(* The steps run one after the other: applied_steps and step_outcomes have *)
(* one entry per started step (the debug assertions of                     *)
(* ensure_step_started), the step in hand included.                        *)
OutcomesFollowSteps ==
    ~sched.finished =>
        Len(sched.outcomes) = sched.step - (IF sched.started THEN 0 ELSE 1)

(* Unless a command failed or its owner dropped it, every order alive is   *)
(* one of the current step's task: a step only starts when the orders of   *)
(* the step before are gone, and a scheduler that has ended leaves none.   *)
StepsDoNotOverlap ==
    ~sched.failed /\ ~sched.dropped =>
        \A o \in Orders : Alive(o) =>
            o \in task.known /\ sched.active /\ ~sched.finished

(* A schedule that runs to its end without being cancelled leaves the      *)
(* position at the last step's target (README: the last step waits until   *)
(* the target position is really reached).                                 *)
EndsAtLastTarget ==
    /\ sched.finished /\ ~sched.failed /\ ~sched.dropped /\ ~sched.cancelRequested
    /\ Steps[Len(Steps)] # None
    => NetPosition(pos) = Steps[Len(Steps)]
=============================================================================
