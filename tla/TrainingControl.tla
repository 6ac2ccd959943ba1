--------------------------- MODULE TrainingControl ---------------------------
(***************************************************************************)
(* The training of physical_ai_server: START and FINISH of                 *)
(* /training/command, the training thread and the clean-up that both the   *)
(* thread and FINISH do, and the timer that publishes the status. The      *)
(* service runs on the executor's thread; between any two of its steps the *)
(* training thread may run, and both write the server's attributes.        *)
(***************************************************************************)
EXTENDS Naturals

CONSTANT MaxCommands  \* bound on the number of commands

ASSUME TrainingControlAssumption == MaxCommands \in Nat

VARIABLES
  pc,         \* where the service callback is; "idle" between callbacks
  manager,    \* training_manager: the number of its START, 0 for None
  timer,      \* training_timer, likewise
  timers,     \* the status timers that run
  stopped,    \* the managers whose stop_event is set
  thread,     \* where the training thread is
  trains,     \* the manager it trains with
  isTraining, \* is_training
  alive,      \* the node runs
  commands,   \* number of commands received
  careful     \* history: see Noted

vars == <<pc, manager, timer, timers, stopped, thread, trains, isTraining,
          alive, commands, careful>>

mainVars == <<pc, commands, careful>>
threadVars == <<thread, trains>>

Init ==
  /\ pc = "idle" /\ manager = 0 /\ timer = 0 /\ timers = {} /\ stopped = {}
  /\ thread = "none" /\ trains = 0 /\ isTraining = FALSE
  /\ alive = TRUE /\ commands = 0 /\ careful = TRUE

----------------------------------------------------------------------------

\* training_thread.is_alive().
ThreadAlive == thread \notin {"none", "over"}

\* A mutant of Signal: the event is left alone.
SignalNot == UNCHANGED stopped

\* Both clean-ups, and FINISH, set the event of whatever manager is current.
Signal == stopped' = IF manager = 0 THEN stopped ELSE stopped \cup {manager}

\* _cleanup_training_on_completion and _on_error, run by the service, which
\* ends the node when they raise: the handler's except runs the clean-up once
\* more, which raises again. There is no status to publish without a manager,
\* and no timer to stop after a change of the robot type.
CleanUp ==
  /\ isTraining' = FALSE
  /\ IF manager = 0 \/ timer = 0
     THEN /\ alive' = FALSE /\ UNCHANGED timers
          /\ Signal
     ELSE /\ Signal /\ timers' = timers \ {timer} /\ UNCHANGED alive

----------------------------------------------------------------------------
(* The service callbacks. The operator is careful who starts a training    *)
(* and sets the robot type only while no training thread is alive, and     *)
(* finishes only one that is.                                              *)

Command ==
  /\ alive /\ pc = "idle" /\ commands < MaxCommands
  /\ commands' = commands + 1

Noted(asShown) == careful' = (careful /\ asShown)

\* START creates the manager, then the timer, before it looks at the thread.
Start ==
  /\ Command /\ Noted(~ThreadAlive)
  /\ manager' = commands' /\ pc' = "managed"
  /\ UNCHANGED <<timer, timers, stopped, threadVars, isTraining, alive>>

MakeTimer ==
  /\ alive /\ pc = "managed" /\ pc' = "timed"
  /\ timer' = commands
  /\ UNCHANGED <<manager, timers, stopped, threadVars, isTraining, alive,
                 commands, careful>>

\* A mutant of ShowStatus: the timer is set and not started.
ShowNothing ==
  /\ alive /\ pc = "timed" /\ pc' = "shown"
  /\ UNCHANGED <<manager, timer, timers, stopped, threadVars, isTraining,
                 alive, commands, careful>>

\* _setup_training_status_timer.
ShowStatus ==
  /\ alive /\ pc = "timed" /\ pc' = "shown"
  /\ timers' = timers \cup {timer}
  /\ UNCHANGED <<manager, timer, stopped, threadVars, isTraining, alive,
                 commands, careful>>

\* 'Training is already in progress': the new manager and timer stay.
AlreadyTraining ==
  /\ alive /\ pc = "shown" /\ ThreadAlive /\ pc' = "idle"
  /\ UNCHANGED <<manager, timer, timers, stopped, threadVars, isTraining,
                 alive, commands, careful>>

\* A mutant of Invalid: the request is refused without a clean-up.
InvalidOnly ==
  /\ alive /\ pc = "shown" /\ ~ThreadAlive /\ pc' = "idle"
  /\ UNCHANGED <<manager, timer, timers, stopped, isTraining, alive,
                 threadVars, commands, careful>>

Invalid ==
  /\ alive /\ pc = "shown" /\ ~ThreadAlive /\ pc' = "idle"
  /\ CleanUp
  /\ UNCHANGED <<manager, timer, threadVars, commands, careful>>

\* _start_training_thread: the thread runs before is_training is set.
StartThread ==
  /\ alive /\ pc = "shown" /\ ~ThreadAlive /\ pc' = "started"
  /\ thread' = "begun" /\ trains' = 0
  /\ UNCHANGED <<manager, timer, timers, stopped, isTraining, alive, commands,
                 careful>>

Started ==
  /\ alive /\ pc = "started" /\ pc' = "idle"
  /\ isTraining' = TRUE
  /\ UNCHANGED <<manager, timer, timers, stopped, threadVars, alive, commands,
                 careful>>

\* FINISH sets the event and waits for the thread, for at most 5 seconds.
Finish ==
  /\ Command /\ Noted(ThreadAlive)
  /\ pc' = "stopping"
  /\ isTraining' = FALSE /\ Signal
  /\ UNCHANGED <<manager, timer, timers, threadVars, alive>>

\* The thread is over, or the time is: 'Training stopped successfully'.
Finished ==
  /\ alive /\ pc = "stopping" /\ pc' = "idle"
  /\ CleanUp
  /\ UNCHANGED <<manager, timer, threadVars, commands, careful>>

\* set_robot_type: clear_parameters stops the status timer and forgets it.
SetRobotType ==
  /\ Command /\ Noted(~ThreadAlive)
  /\ timers' = timers \ {timer} /\ timer' = 0
  /\ UNCHANGED <<pc, manager, stopped, threadVars, isTraining, alive>>

----------------------------------------------------------------------------
(* The training thread, run_training.                                      *)

\* The manager is looked up only now. Its configuration may be wrong.
BeginTraining ==
  /\ alive /\ thread = "begun" /\ trains' = manager
  /\ thread' \in {"training", "ending"}
  /\ UNCHANGED <<manager, timer, timers, stopped, isTraining, alive, mainVars>>

\* The last step of the training is done, or a step fails.
EndTraining ==
  /\ alive /\ thread = "training" /\ thread' = "ending"
  /\ UNCHANGED <<trains, manager, timer, timers, stopped, isTraining, alive,
                 mainVars>>

\* The loop looks at the event before each step.
StopTraining == trains \in stopped /\ EndTraining

\* _cleanup_training_on_completion, step by step.
ClearFlag ==
  /\ alive /\ thread = "ending" /\ thread' = "flagged"
  /\ isTraining' = FALSE
  /\ UNCHANGED <<trains, manager, timer, timers, stopped, alive, mainVars>>

SignalOwnEnd ==
  /\ alive /\ thread = "flagged" /\ thread' = "signalled"
  /\ Signal
  /\ UNCHANGED <<trains, manager, timer, timers, isTraining, alive, mainVars>>

\* A mutant of StopStatus: the timer manager goes with its timer.
StopAndForget ==
  /\ alive /\ thread = "signalled" /\ thread' = "leaving"
  /\ timers' = timers \ {timer} /\ timer' = 0
  /\ UNCHANGED <<trains, manager, stopped, isTraining, alive, mainVars>>

\* Without a timer manager the thread ends with an exception, which only it
\* feels; with one whose timer is not started there is nothing to stop. In the
\* code TimerManager.stop is a test and a use, which the two threads may mix: one
\* of them then finds None, or destroys the timer a second time, and the timer is
\* stopped all the same.
StopStatus ==
  /\ alive /\ thread = "signalled" /\ thread' = "leaving"
  /\ timers' = timers \ {timer}
  /\ UNCHANGED <<trains, manager, timer, stopped, isTraining, alive, mainVars>>

Leave ==
  /\ alive /\ thread = "leaving" /\ thread' = "over"
  /\ UNCHANGED <<trains, manager, timer, timers, stopped, isTraining, alive,
                 mainVars>>

Over ==
  /\ ~alive \/ (pc = "idle" /\ ~ThreadAlive /\ commands = MaxCommands)
  /\ UNCHANGED vars

Service ==
  \/ MakeTimer \/ ShowStatus \/ AlreadyTraining \/ Invalid \/ StartThread
  \/ Started \/ Finished

ThreadGoesOn ==
  \/ BeginTraining \/ StopTraining
  \/ ClearFlag \/ SignalOwnEnd \/ StopStatus \/ Leave

Next ==
  \/ Start \/ Finish \/ SetRobotType
  \/ Service
  \/ ThreadGoesOn \/ EndTraining
  \/ Over

Spec == Init /\ [][Next]_vars

\* Both threads are scheduled. That a training comes to its own end is not
\* assumed: it may take days.
FairSpec == Spec /\ WF_vars(Service) /\ WF_vars(ThreadGoesOn)

----------------------------------------------------------------------------

Numbers == 0 .. MaxCommands

\* Every variable has its type; no timer, and no training, is newer than the
\* manager.
TypeOK ==
  /\ pc \in {"idle", "managed", "timed", "shown", "started", "stopping"}
  /\ manager \in Numbers /\ timer \in 0 .. manager
  /\ timers \subseteq 1 .. manager /\ stopped \subseteq 1 .. manager
  /\ thread \in {"none", "begun", "training", "ending", "flagged",
                 "signalled", "leaving", "over"}
  /\ trains \in 0 .. manager
  /\ isTraining \in BOOLEAN /\ alive \in BOOLEAN
  /\ commands \in Numbers /\ careful \in BOOLEAN

\* For a careful operator, a training that nobody asked to stop shows its
\* status, and FINISH would reach it: the current manager is its own.
TrainingInHand ==
  careful /\ alive /\ thread = "training" /\ trains \notin stopped
    => timer \in timers /\ trains = manager

\* For a careful operator the status is published only while something is
\* trained, started or stopped: no timer outlives its training.
NoTimerLeft ==
  careful /\ alive /\ pc = "idle" /\ ~ThreadAlive => timers = {}

\* The server survives all that a careful operator does, whenever the thread
\* ends by itself.
Survives == careful => alive

\* A FINISH stops a training that its START's manager still is current for,
\* whoever the operator is.
FinishStopsCurrent ==
  pc = "stopping" /\ thread = "training" /\ trains = manager
    ~> thread # "training" \/ ~alive

\* "Stop training gracefully": a FINISH stops the training.
FinishStops ==
  pc = "stopping" /\ thread = "training" ~> thread # "training" \/ ~alive
==============================================================================
