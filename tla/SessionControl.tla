--------------------------- MODULE SessionControl ---------------------------
(***************************************************************************)
(* What physical_ai_server does on the commands that start and end a       *)
(* recording or an inference, and on /set_robot_type: its flags, the timer *)
(* manager that these commands create anew, and the timers of the node,    *)
(* which live on until somebody stops them. Services and timers run on one *)
(* thread, so each callback is one step. Of a recording only that is kept  *)
(* which decides when and how it ends; DataManager has the rest.           *)
(***************************************************************************)
EXTENDS Naturals, FiniteSets

CONSTANTS
  RecordInference,  \* task_info.record_inference_mode
  PolicyMayFail,    \* whether a policy can be invalid, or fail to load
  DataMayFail,      \* whether the robot's messages can fail to convert
  ConfigMayFail,    \* whether the parameters of a robot type can be wrong
  MaxCommands       \* bound on the number of commands

ASSUME SessionControlAssumption ==
  /\ {RecordInference, PolicyMayFail, DataMayFail, ConfigMayFail}
       \subseteq BOOLEAN
  /\ MaxCommands \in Nat

VARIABLES
  onRecording, onInference,  \* the flags of the same names
  operationMode,  \* operation_mode: "none" before it is first set
  robot,          \* no robot_type yet, communicator is None, or is there
  manager,        \* timer_manager
  timers,         \* the collection and inference timers of the node
  policy,         \* of inference_manager: no path, a path, a loaded policy
  task,           \* of data_manager: whether it has several tasks, and saves
                  \* optimized
  status,         \* of data_manager: "take" is warmup, run, reset, skip_task;
                  \* "save" is save and stop; "finish"
  saving,         \* _on_saving of data_manager
  content,        \* its dataset is closed, or its episode buffer is empty, has
                  \* some frames, or is nothing
  stored,         \* it saved an episode
  encoding,       \* its encoders: none left, one working, one failed
  alive,          \* the node runs
  commands,       \* number of commands received
  careful         \* history: a careful operator, and memory while it mattered

managerVars == <<task, status, saving, content, stored, encoding>>
vars == <<onRecording, onInference, operationMode, robot, manager, timers,
          policy, managerVars, alive, commands, careful>>

Modes == {"collection", "inference"}

\* The manager's panel saves several tasks optimized (see DataManager).
TaskInfos == {t \in [several : BOOLEAN, optimized : BOOLEAN] :
                t.several => t.optimized}

\* A timer is known by the number of the command that started it. A manager
\* has one name in its dictionary; its timer is 0 once stopped. A policy is
\* "bad" when its path was found valid and yet it cannot be loaded.
Timers == [mode : Modes, id : Nat]
NoManager == [mode |-> "none", id |-> 0]

Init ==
  /\ onRecording = FALSE /\ onInference = FALSE /\ operationMode = "none"
  /\ robot = "unset" /\ manager = NoManager /\ timers = {}
  /\ policy = "none" /\ task \in TaskInfos
  /\ status = "take" /\ saving = FALSE /\ content = "closed"
  /\ stored = FALSE /\ encoding = "none"
  /\ alive = TRUE /\ commands = 0 /\ careful = TRUE

----------------------------------------------------------------------------
(* TimerManager, and init_robot_control_parameters_from_user_task.         *)

\* stop(operation_mode) raises without a manager, or when the manager knows
\* the timer under another name; the exception then ends the node.
StopRaises == manager.mode # operationMode

StopTimer ==
  IF StopRaises THEN alive' = FALSE /\ UNCHANGED <<timers, manager>>
  ELSE /\ timers' = timers \ {manager}
       /\ manager' = [manager EXCEPT !.id = 0]
       /\ UNCHANGED alive

\* A mutant of NewTimer: the manager keeps the name of a recording's timer.
NewTimerNamed(mode) ==
  /\ manager' = [mode |-> "collection", id |-> commands']
  /\ timers' = timers \cup {[mode |-> mode, id |-> commands']}

\* The old manager is forgotten; its timer, if it runs, stays in the node.
NewTimer(mode) ==
  LET t == [mode |-> mode, id |-> commands']
  IN  manager' = t /\ timers' = timers \cup {t}

NewDataManager ==
  /\ task' \in TaskInfos
  /\ status' = "take" /\ saving' = FALSE /\ content' = "closed"
  /\ stored' = FALSE /\ encoding' = "none"

\* The data manager needs the robot type, then the communicator must be there.
InitFromTask(mode) == NewDataManager /\ NewTimer(mode)

----------------------------------------------------------------------------
(* user_interaction_callback and set_robot_type_callback.                  *)

Command ==
  /\ alive /\ commands < MaxCommands
  /\ commands' = commands + 1
  /\ UNCHANGED alive

\* Nothing runs, as far as the operator is shown: the status is READY.
Quiet == timers = {}

Noted(asShown) == careful' = (careful /\ asShown)

\* _episode_reset reaches the buffer for certain once an episode was saved.
Reset(c) == content' = "nothing" \/ (~stored /\ content' = c)

\* A mutant of Retake: the buffer goes, the status stays.
RetakeBufferOnly ==
  /\ IF content = "closed" THEN UNCHANGED content ELSE Reset(content)
  /\ UNCHANGED <<status, task, saving, stored, encoding>>

\* re_record, and record_skip_task: without a dataset the reset raises, which
\* the service catches.
Retake ==
  /\ IF content = "closed" THEN UNCHANGED <<status, content>>
                           ELSE status' = "take" /\ Reset(content)
  /\ UNCHANGED <<task, saving, stored, encoding>>

\* START_RECORD while recording restarts the episode.
Restart ==
  /\ onRecording
  /\ Retake
  /\ UNCHANGED <<onRecording, operationMode, manager, timers>>

\* Without a robot type or communicator: the exception is caught, after the
\* operation mode, and in the second case the data manager, were replaced.
FailToRecord ==
  /\ ~onRecording /\ robot # "ready"
  /\ operationMode' = "collection"
  /\ IF robot = "unset" THEN UNCHANGED managerVars ELSE NewDataManager
  /\ UNCHANGED <<onRecording, manager, timers>>

Record ==
  /\ ~onRecording /\ robot = "ready"
  /\ operationMode' = "collection"
  /\ InitFromTask("collection")
  /\ onRecording' = TRUE

StartRecord ==
  /\ Command /\ Noted(Quiet /\ robot = "ready")
  /\ Restart \/ FailToRecord \/ Record
  /\ UNCHANGED <<onInference, robot, policy>>

\* START_INFERENCE. Without a communicator it fails at once; validate_policy
\* comes after operation_mode is set.
RefuseInference ==
  /\ \/ robot # "ready" /\ UNCHANGED operationMode
     \/ robot = "ready" /\ PolicyMayFail /\ operationMode' = "inference"
  /\ UNCHANGED <<onRecording, onInference, manager, timers, policy, managerVars>>

\* A policy already loaded stays, whatever the new path.
PathSet == IF policy = "loaded" THEN {"loaded"}
           ELSE IF PolicyMayFail THEN {"valid", "bad"} ELSE {"valid"}

\* A mutant of BeginInference: every inference also records.
BeginInferenceRecording ==
  /\ robot = "ready"
  /\ operationMode' = "inference"
  /\ policy' \in PathSet
  /\ InitFromTask("inference")
  /\ onInference' = TRUE /\ onRecording' = TRUE

BeginInference ==
  /\ robot = "ready"
  /\ operationMode' = "inference"
  /\ policy' \in PathSet
  /\ InitFromTask("inference")
  /\ onInference' = TRUE
  /\ onRecording' = (onRecording \/ RecordInference)

StartInference ==
  /\ Command /\ Noted(Quiet /\ robot = "ready")
  /\ RefuseInference \/ BeginInference
  /\ UNCHANGED robot

\* What is to be saved is there: a take that has frames, or, between two
\* takes, an episode that was saved before.
Savable(c) == c = "some" \/ (c = "nothing" /\ stored)

\* The commands to a recording or an inference that runs, or so the flags say.
\* To an inference they mean nothing but its end. A careful operator tells a
\* recording to save or to finish when there is something to be saved.
Told(asShown) ==
  /\ Command /\ (onRecording \/ onInference)
  /\ Noted(operationMode = "inference" \/ asShown)
  /\ UNCHANGED <<onRecording, operationMode, robot, manager, timers, policy>>

Stop ==
  /\ Told(Savable(content))
  /\ status' = "save"
  /\ UNCHANGED <<onInference, task, saving, content, stored, encoding>>

\* One task is saved early only when there is a buffer.
MoveToNext ==
  /\ Told(Savable(content))
  /\ status' = IF task.several \/ content \in {"empty", "some"} THEN "save"
                                                             ELSE status
  /\ UNCHANGED <<onInference, task, saving, content, stored, encoding>>

\* RERECORD and SKIP_TASK.
Retry == Told(TRUE) /\ Retake /\ UNCHANGED onInference

Finish ==
  /\ Told(Savable(content))
  /\ status' = "finish" /\ onInference' = FALSE
  /\ UNCHANGED <<task, saving, content, stored, encoding>>

\* clear_parameters forgets the timer manager; a failing init_ros_params,
\* caught, leaves the server without a communicator.
SetRobotType ==
  /\ Command /\ Noted(Quiet)
  /\ operationMode' = "collection"
  /\ manager' = NoManager
  /\ \/ robot' = "ready" /\ policy' = "none"
     \/ ConfigMayFail /\ robot' = "broken" /\ UNCHANGED policy
  /\ UNCHANGED <<onRecording, onInference, timers, managerVars>>

----------------------------------------------------------------------------
(* The timer callbacks. A tick that only waits for data is a stutter.      *)

\* Without a communicator the callback raises at its first line.
Raises ==
  /\ robot # "ready" /\ alive' = FALSE
  /\ UNCHANGED <<onRecording, onInference, operationMode, robot, manager,
                 timers, policy, managerVars, commands, careful>>

GoesOn == UNCHANGED <<onRecording, manager, timers, alive>>
Ends == onRecording' = FALSE /\ StopTimer

\* A recording of one task is complete when its number of episodes is reached
\* and nothing is being encoded; several tasks have no such number.
MayEnd == GoesOn \/ (~task.several /\ encoding' = "none" /\ Ends)

\* The messages cannot be converted, or before the dataset is open: do not
\* arrive, or the dataset cannot be opened.
CollectFails ==
  /\ DataMayFail \/ content = "closed"
  /\ Ends /\ UNCHANGED <<managerVars, careful>>

\* Warmup, run, reset: frames come, or the time of one task is over, or the
\* memory is short, which is no operator's fault, nor a careful one's.
Take(c) ==
  /\ status = "take" /\ UNCHANGED <<task, saving, stored, encoding>>
  /\ \/ /\ content' \in {c, "some"} /\ MayEnd
        /\ UNCHANGED <<status, careful>>
     \/ /\ ~task.several /\ c # "empty"
        /\ status' = "save" /\ content' = c /\ MayEnd
        /\ UNCHANGED careful
     \/ /\ status' = IF task.several THEN "finish"
                     ELSE IF c # "nothing" THEN "save" ELSE status
        /\ content' = c /\ GoesOn
        /\ careful' = (careful /\ Savable(c))

\* Saving raises on an empty buffer if it is optimized, and finishing several
\* tasks when no episode was saved. Nothing catches it.
SaveRaises(c) ==
  \/ task.optimized /\ c = "empty"
  \/ status = "finish" /\ task.several /\ c = "nothing" /\ ~stored

Crash(c) ==
  /\ status # "take" /\ ~saving /\ SaveRaises(c)
  /\ alive' = FALSE /\ content' = c
  /\ UNCHANGED <<onRecording, manager, timers, task, status, saving, stored,
                 encoding, careful>>

\* The videos of one task are encoded as soon as it is saved, those of several
\* at the end; without optimized saving they are part of the save.
Encodes(c) == IF task.several THEN status = "finish"
                              ELSE task.optimized /\ c = "some"

\* The first tick of a save, stop or finish.
Begin(c) ==
  /\ status # "take" /\ ~saving /\ ~SaveRaises(c)
  /\ saving' = TRUE /\ stored' = (stored \/ c = "some")
  /\ content' = IF c = "some" /\ ~task.optimized THEN "empty" ELSE c
  /\ encoding' = IF Encodes(c) THEN "working" ELSE encoding
  /\ MayEnd
  /\ UNCHANGED <<task, status, careful>>

\* Its last tick. After a save the next take follows, unless it was the last;
\* after a stop nothing does. Several tasks do not wait for encoders to save.
SaveDone(c) ==
  /\ status = "save" /\ saving /\ (task.several \/ encoding = "none")
  /\ saving' = FALSE /\ Reset(c)
  /\ \/ status' \in {"take", "save"} /\ GoesOn
     \/ ~task.several /\ status' = "finish" /\ Ends
  /\ UNCHANGED <<task, stored, encoding, careful>>

\* A mutant of FinishDone: the recording is not reported complete.
FinishGoesOn(c) ==
  /\ status = "finish" /\ saving /\ encoding = "none"
  /\ saving' = FALSE /\ Reset(c) /\ GoesOn
  /\ UNCHANGED <<task, status, stored, encoding, careful>>

FinishDone(c) ==
  /\ status = "finish" /\ saving /\ encoding = "none"
  /\ saving' = FALSE /\ Reset(c) /\ Ends
  /\ UNCHANGED <<task, status, stored, encoding, careful>>

SaveWaits(c) ==
  /\ status # "take" /\ saving /\ encoding # "none"
  /\ content' = c /\ GoesOn
  /\ UNCHANGED <<task, status, saving, stored, encoding, careful>>

\* The buffer the tick finds: the first one opens the dataset.
Found == IF content = "closed" THEN {"empty", "nothing"} ELSE {content}

CollectionTick ==
  /\ robot = "ready"
  /\ \/ CollectFails
     \/ \E c \in Found :
          \/ Take(c) \/ Crash(c) \/ Begin(c)
          \/ SaveDone(c) \/ FinishDone(c) \/ SaveWaits(c)
  /\ UNCHANGED <<onInference, operationMode, robot, policy, commands>>

Cleared == IF policy = "loaded" THEN "valid" ELSE policy

\* clear_policy, and the stop of the timer.
InferenceEnds == policy' = Cleared /\ StopTimer

NotConverted ==
  /\ DataMayFail
  /\ onInference' = FALSE /\ UNCHANGED onRecording
  /\ InferenceEnds

\* A policy that does not load is tried again at the next tick.
LoadFails ==
  /\ policy \in {"none", "bad"}
  /\ UNCHANGED <<onRecording, onInference, manager, timers, policy, alive>>

\* Only with a loaded policy is the flag looked at.
Infer ==
  /\ policy \in {"valid", "loaded"}
  /\ \/ /\ onInference /\ policy' = "loaded"
        /\ UNCHANGED <<onRecording, onInference, manager, timers, alive>>
     \/ /\ ~onInference
        /\ UNCHANGED <<onRecording, onInference>> /\ InferenceEnds
     \/ /\ onInference /\ DataMayFail
        /\ onRecording' = FALSE /\ onInference' = FALSE /\ InferenceEnds

InferenceTick ==
  /\ robot = "ready" /\ (NotConverted \/ LoadFails \/ Infer)
  /\ UNCHANGED <<operationMode, robot, managerVars, commands, careful>>

Tick(t) ==
  /\ alive
  /\ \/ Raises
     \/ t.mode = "collection" /\ CollectionTick
     \/ t.mode = "inference" /\ InferenceTick

\* The encoder threads get done, or one of them fails.
Encode ==
  /\ encoding = "working" /\ encoding' \in {"none", "failed"}
  /\ UNCHANGED <<onRecording, onInference, operationMode, robot, manager, timers,
                 policy, task, status, saving, content, stored, alive, commands,
                 careful>>

Over ==
  /\ ~alive \/ (timers = {} /\ commands = MaxCommands)
  /\ encoding # "working"
  /\ UNCHANGED vars

Next ==
  \/ StartRecord \/ StartInference \/ SetRobotType
  \/ Stop \/ MoveToNext \/ Retry \/ Finish
  \/ \E t \in timers : Tick(t)
  \/ Encode
  \/ Over

Spec == Init /\ [][Next]_vars

\* The executor fires every timer, the robot's messages arrive, and the encoder
\* threads are scheduled.
FairSpec == Spec /\ WF_vars(\E t \in timers : Tick(t)) /\ WF_vars(Encode)

----------------------------------------------------------------------------

\* Every variable has its type.
TypeOK ==
  /\ onRecording \in BOOLEAN /\ onInference \in BOOLEAN
  /\ operationMode \in Modes \cup {"none"}
  /\ robot \in {"unset", "broken", "ready"}
  /\ manager \in Timers \cup {NoManager}
  /\ timers \subseteq Timers
  /\ policy \in {"none", "valid", "bad", "loaded"}
  /\ task \in TaskInfos /\ status \in {"take", "save", "finish"}
  /\ saving \in BOOLEAN /\ stored \in BOOLEAN
  /\ content \in {"closed", "empty", "some", "nothing"}
  /\ encoding \in {"none", "working", "failed"}
  /\ alive \in BOOLEAN
  /\ commands \in 0 .. MaxCommands /\ careful \in BOOLEAN

\* As long as the operator is careful, that is, starts nothing while something
\* runs or without a robot, and tells a recording to save or to finish only when
\* there is something to be saved: a timer that runs is the one the server's
\* timer manager stops under the current operation mode. So at most one runs, and
\* no stop raises or misses its timer.
TimerIsManaged ==
  careful => \A t \in timers : t = manager /\ t.mode = operationMode

\* Such an operator's server survives all starts, ends and failures: no tick
\* raises, neither in the stop of its timer nor in the save of a buffer.
Survives == careful => alive

\* Then, too, the flags are set only while the timer they speak of runs, so
\* that a new recording can start whenever nothing runs.
FlagsFollowTimers ==
  careful =>
    /\ onRecording => \E t \in timers : t.mode = "collection"
    /\ onInference => \E t \in timers : t.mode = "inference"

\* Told to finish by such an operator, the server comes to rest, "All operations
\* terminated", through its save and its encoders, unless another command comes,
\* an encoder fails, or the policy of an inference cannot be loaded.
FinishEnds ==
  status = "finish" /\ ~onInference /\ policy # "bad" /\ careful
    ~> \/ timers = {} \/ status # "finish" \/ onInference
       \/ ~careful \/ encoding = "failed"

=============================================================================
