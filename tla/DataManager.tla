---------------------------- MODULE DataManager ----------------------------
(***************************************************************************)
(* The recording state machine of physical_ai_server: DataManager.record,  *)
(* called once per tick of the collection timer, the operator commands     *)
(* that the service /task/command turns into assignments of its status,    *)
(* the episode buffer and episode table of LeRobotDatasetWrapper and the   *)
(* FFmpeg encoder threads it starts.                                       *)
(*                                                                         *)
(* Ticks and commands run on the one thread of rclpy.spin, so each is      *)
(* atomic; the encoder threads run beside them.                            *)
(***************************************************************************)
EXTENDS Integers, Sequences, FiniteSets

CONSTANTS
  NumTasks,       \* len(task_info.task_instruction)
  NumEpisodes,    \* task_info.num_episodes
  Optimized,      \* task_info.use_optimized_save_mode
  PushToHub,      \* task_info.push_to_hub
  LowRamHappens,  \* whether the free memory can fall below RAM_LIMIT_GB
  EncoderMayFail, \* whether FFmpeg can fail
  DataMayFail,    \* whether a tick can fail to convert the robot's messages
  ZeroTimes,      \* warmup_time_s and reset_time_s are 0
  MaxFrames,      \* frames are counted up to MaxFrames ("that many or more")
  MaxCommands     \* bound on the number of operator commands

ASSUME DataManagerAssumption ==
  /\ NumTasks \in Nat \ {0} /\ NumEpisodes \in Nat \ {0}
  /\ MaxFrames \in Nat \ {0} /\ MaxCommands \in Nat
  /\ {Optimized, PushToHub, LowRamHappens, EncoderMayFail, DataMayFail,
      ZeroTimes} \subseteq BOOLEAN
  \* the manager's InfoPanel forces Optimized Save in Multi-Task mode
  /\ NumTasks > 1 => Optimized

VARIABLES
  status,     \* DataManager._status
  onSaving,   \* DataManager._on_saving
  stopSaved,  \* DataManager._stop_save_completed
  count,      \* DataManager._record_episode_count
  curTask,    \* DataManager._current_task
  scenario,   \* DataManager._current_scenario_number
  timing,     \* DataManager._start_time_s is not 0
  opened,     \* DataManager._lerobot_dataset is not None
  held,       \* the dataset already held frames when it was opened
  buffer,     \* the dataset's episode_buffer
  episodes,   \* the episodes in the dataset's table, in order
  encoders,   \* the wrapper's encoders: positions in episodes
  session,    \* whether the server still records, and how it ended
  uploaded,   \* number of episodes pushed to the hub
  commands,   \* number of commands received
  smooth      \* history: a careful operator, enough memory, sound encoders

vars == <<status, onSaving, stopSaved, count, curTask, scenario, timing,
          opened, held, buffer, episodes, encoders, session, uploaded,
          commands, smooth>>

----------------------------------------------------------------------------

SingleTask == NumTasks = 1

\* The limit on episodes: _init_task_limits lifts it for several tasks.
EpisodeLimit == IF SingleTask THEN NumEpisodes ELSE 1000000

Statuses == {"warmup", "run", "save", "reset", "skip_task", "stop", "finish"}

\* How far an episode's video is: not asked for, thread created, thread
\* feeding FFmpeg, the same with its images cleared, the three outcomes.
Videos == {"absent", "queued", "encoding", "cut", "whole", "truncated", "dead"}

Tasks == 0 .. NumTasks - 1

Buffers == [state  : {"none", "open", "saved"},
            index  : Nat,                \* episode_buffer['episode_index']
            frames : 0 .. MaxFrames,     \* episode_buffer['size']
            tasks  : SUBSET Tasks]       \* the instructions of its frames

Episodes == [index  : Nat,
             frames : 1 .. MaxFrames,
             tasks  : SUBSET Tasks,
             video  : Videos]

NoBuffer == [state |-> "none", index |-> 0, frames |-> 0, tasks |-> {}]

\* create_episode_buffer: an empty buffer for the next episode of the table.
FreshBuffer(table) ==
  [state |-> "open", index |-> Len(table), frames |-> 0, tasks |-> {}]

\* The dataset a tick works on. check_lerobot_dataset opens it on the first
\* tick: created empty with a fresh buffer, or loaded from the disk without.
Datasets ==
  IF opened
  THEN {[buffer |-> buffer, held |-> held]}
  ELSE {[buffer |-> FreshBuffer(episodes), held |-> FALSE],
        [buffer |-> NoBuffer, held |-> TRUE]}

Init ==
  /\ status = "warmup" /\ onSaving = FALSE /\ stopSaved = FALSE
  /\ count = 0 /\ curTask = 0 /\ scenario = 0 /\ timing = FALSE
  /\ opened = FALSE /\ held = FALSE /\ buffer = NoBuffer
  /\ episodes = << >> /\ encoders = {}
  /\ session = "recording" /\ uploaded = 0 /\ commands = 0
  /\ smooth = TRUE

----------------------------------------------------------------------------
(* The episode buffer and the encoders of LeRobotDatasetWrapper.           *)

Completed(i) == episodes[i].video \in {"whole", "truncated"}

\* Mutants of Pending: a failed encoder counts as done; the flag of an
\* encoder is never looked at.
PendingButDead ==
  {i \in encoders : episodes[i].video \in {"queued", "encoding", "cut"}}
PendingForever == encoders

\* What check_video_encoding_completed leaves in encoders; it returns
\* whether nothing is left.
Pending == {i \in encoders : ~Completed(i)}
\* A mutant of EncodingCompleted: the encoders are not waited for.
EncodingAssumed == TRUE

EncodingCompleted == Pending = {}

\* add_frame(_without_write_image), with the instruction of the current task.
WithFrame(b) ==
  LET at == IF b.state = "none" THEN FreshBuffer(episodes) ELSE b
  IN  [at EXCEPT !.frames = IF @ < MaxFrames THEN @ + 1 ELSE @,
                 !.tasks = @ \cup {curTask % NumTasks}]

\* validate_episode_buffer: an empty or already saved buffer, or one made
\* for another position of the table, raises. Without optimized saving an
\* empty buffer is not saved.
SaveRaises(b) ==
  /\ b.state # "none"
  /\ \/ b.state = "saved"
     \/ Optimized /\ b.frames = 0
     \/ b.frames > 0 /\ b.index # Len(episodes)

\* A mutant of Saves: an episode of one frame is taken for empty.
SavesLong(b) == b.state = "open" /\ b.frames > 1 /\ b.index = Len(episodes)

Saves(b) == b.state = "open" /\ b.frames > 0 /\ b.index = Len(episodes)

\* A mutant of TableAfterSave: numbered by the counter of recorded episodes.
TableNumberedByCount(b) ==
  IF Saves(b)
  THEN Append(episodes,
              [index |-> count, frames |-> b.frames, tasks |-> b.tasks,
               video |-> IF SingleTask THEN "queued" ELSE "absent"])
  ELSE episodes

\* The table after DataManager.save: video encoding starts at once for a
\* single task, is left for the end with several tasks, and is part of
\* save_episode without optimized saving.
TableAfterSave(b) ==
  IF Saves(b)
  THEN Append(episodes,
              [index |-> b.index, frames |-> b.frames, tasks |-> b.tasks,
               video |-> IF ~Optimized THEN "whole"
                         ELSE IF SingleTask THEN "queued" ELSE "absent"])
  ELSE episodes

BufferAfterSave(b) ==
  IF ~Saves(b) THEN b
  ELSE IF Optimized THEN [b EXCEPT !.state = "saved"]
  ELSE FreshBuffer(TableAfterSave(b))

EncodersAfterSave(b) ==
  IF Saves(b) /\ Optimized /\ SingleTask
  THEN encoders \cup {Len(episodes) + 1}
  ELSE encoders

\* A mutant of ResetReaches: the reset leaves the buffer alone.
ResetNeverReaches(h) == FALSE

\* _episode_reset looks at the buffer only when the dataset is truthy (its
\* length is its number of frames) or the current task is the first.
ResetReaches(h) == h \/ episodes # << >> \/ curTask = 0

BufferAfterReset(b, h) == IF ResetReaches(h) THEN NoBuffer ELSE b

\* The image lists cleared are those a single task's encoder still reads.
TableAfterReset(b, h) ==
  IF ResetReaches(h) /\ b.state = "saved" /\ SingleTask
  THEN [episodes EXCEPT ![Len(episodes)].video =
          CASE @ = "queued" -> "dead"
            [] @ = "encoding" -> "cut"
            [] OTHER -> @]
  ELSE episodes

\* A mutant of NextTask: the scenario is not advanced.
NextTaskOnly == curTask' = curTask + 1 /\ UNCHANGED scenario

\* _get_current_scenario_number and the increment that follows it.
NextTask ==
  /\ curTask' = curTask + 1
  /\ scenario' = IF (curTask + 1) % NumTasks = 0 THEN scenario + 1
                                                 ELSE scenario

----------------------------------------------------------------------------
(* DataManager.record. Each operator is one branch on the status, for the  *)
(* buffer b and the flag h of the dataset at hand.                         *)

Upload ==
  uploaded' = IF PushToHub /\ count' > 0 THEN Len(episodes') ELSE uploaded

KeepGoing == UNCHANGED <<session, uploaded>>

\* The end of record, with enc the encoders at that point: the session is
\* complete when the target is reached and every encoder is done.
EndOfRecord(enc) ==
  LET left == {i \in enc : episodes'[i].video \notin {"whole", "truncated"}}
  IN  IF count' < EpisodeLimit
      THEN KeepGoing /\ encoders' = enc
      ELSE /\ encoders' = left
           /\ IF left = {} THEN session' = "completed" /\ Upload
                           ELSE KeepGoing

\* An exception of the save leaves the timer callback and ends the node.
Crash(b) ==
  /\ session' = "crashed"
  /\ buffer' = b /\ timing' = TRUE
  /\ UNCHANGED <<status, onSaving, stopSaved, count, curTask, scenario,
                 episodes, encoders, uploaded>>

\* DataManager.save, which every state that saves does on its first tick.
Save(b) ==
  /\ ~SaveRaises(b)
  /\ onSaving' = TRUE /\ timing' = TRUE
  /\ buffer' = BufferAfterSave(b)
  /\ UNCHANGED <<status, stopSaved, count, curTask, scenario>>

\* The branches of a tick that change nothing but the clock.
Idle(b) ==
  /\ buffer' = b /\ timing' = TRUE
  /\ UNCHANGED <<status, onSaving, stopSaved, count, episodes>>

\* warmup, reset and skip_task wait for their time, then run. The time starts
\* at the first tick, which is therefore never late, unless the time is 0.
FirstTask == IF status = "warmup" THEN curTask' = 0 /\ scenario' = 0
                                  ELSE UNCHANGED <<curTask, scenario>>

NoTime == ZeroTimes /\ (status = "warmup" \/ (status = "reset" /\ SingleTask))

Wait(b) ==
  /\ status \in {"warmup", "reset", "skip_task"} /\ ~NoTime
  /\ FirstTask /\ Idle(b) /\ KeepGoing /\ UNCHANGED encoders

WaitOver(b) ==
  /\ status \in {"warmup", "reset", "skip_task"} /\ (timing \/ NoTime)
  /\ status' = "run" /\ timing' = FALSE
  /\ FirstTask /\ buffer' = b
  /\ UNCHANGED <<onSaving, stopSaved, count, episodes>>
  /\ EndOfRecord(encoders)

RunFrame(b) ==
  /\ status = "run"
  /\ buffer' = WithFrame(b) /\ timing' = TRUE
  /\ UNCHANGED <<status, onSaving, stopSaved, count, curTask, scenario,
                 episodes>>
  /\ EndOfRecord(encoders)

\* The time limit of several tasks, 1000000 s, is taken as never reached.
RunOver(b) ==
  /\ status = "run" /\ timing /\ SingleTask
  /\ status' = "save" /\ timing' = FALSE
  /\ buffer' = b
  /\ UNCHANGED <<onSaving, stopSaved, count, curTask, scenario, episodes>>
  /\ EndOfRecord(encoders)

RunLowRam(b) ==
  /\ status = "run" /\ LowRamHappens
  /\ status' = IF ~SingleTask THEN "finish"
               ELSE IF b.state # "none" THEN "save" ELSE status
  /\ buffer' = b /\ timing' = TRUE
  /\ UNCHANGED <<onSaving, stopSaved, count, curTask, scenario, episodes,
                 encoders>>
  /\ KeepGoing

\* save: the first tick saves, the one that finds the encoders done (or, with
\* several tasks, any later one) completes the episode.
SaveBegin(b) ==
  /\ status = "save" /\ ~onSaving
  /\ \/ SaveRaises(b) /\ Crash(b)
     \/ /\ Save(b) /\ episodes' = TableAfterSave(b)
        /\ EndOfRecord(EncodersAfterSave(b))

SaveWait(b) ==
  /\ status = "save" /\ onSaving /\ SingleTask /\ ~EncodingCompleted
  /\ Idle(b) /\ UNCHANGED <<curTask, scenario>>
  /\ EndOfRecord(Pending)

\* The part of completing an episode that save and stop share.
EpisodeDone(b, h) ==
  /\ onSaving' = FALSE
  /\ buffer' = BufferAfterReset(b, h) /\ episodes' = TableAfterReset(b, h)
  /\ timing' = FALSE
  /\ count' = count + 1
  /\ NextTask

SaveDone(b, h) ==
  /\ status = "save" /\ onSaving /\ (~SingleTask \/ EncodingCompleted)
  /\ EpisodeDone(b, h)
  /\ status' = IF count' < EpisodeLimit THEN "reset" ELSE "finish"
  /\ UNCHANGED stopSaved
  /\ EndOfRecord(Pending)

\* stop: as save, but the session stays stopped until another command.
StopBegin(b) ==
  /\ status = "stop" /\ ~stopSaved /\ ~onSaving
  /\ \/ SaveRaises(b) /\ Crash(b)
     \/ /\ Save(b) /\ episodes' = TableAfterSave(b) /\ KeepGoing
        /\ encoders' = EncodersAfterSave(b)

StopWait(b) ==
  /\ status = "stop" /\ (stopSaved \/ (onSaving /\ ~EncodingCompleted))
  /\ Idle(b) /\ UNCHANGED <<curTask, scenario>> /\ KeepGoing
  /\ encoders' = IF stopSaved THEN encoders ELSE Pending

StopDone(b, h) ==
  /\ status = "stop" /\ ~stopSaved /\ onSaving /\ EncodingCompleted
  /\ EpisodeDone(b, h)
  /\ stopSaved' = TRUE
  /\ encoders' = Pending
  /\ UNCHANGED status /\ KeepGoing

\* finish: with several tasks, video_encoding queues the video of every
\* episode appended so far, and raises when there is none.
FinishRaises(b) ==
  SaveRaises(b) \/ (~SingleTask /\ TableAfterSave(b) = << >>)

FinishBegin(b) ==
  /\ status = "finish" /\ ~onSaving
  /\ \/ FinishRaises(b) /\ Crash(b)
     \/ /\ ~FinishRaises(b) /\ Save(b)
        /\ IF SingleTask
           THEN /\ episodes' = TableAfterSave(b)
                /\ EndOfRecord(EncodersAfterSave(b))
           ELSE /\ episodes' = [i \in DOMAIN TableAfterSave(b) |->
                     [TableAfterSave(b)[i] EXCEPT !.video = "queued"]]
                /\ EndOfRecord(encoders \cup DOMAIN TableAfterSave(b))

FinishWait(b) ==
  /\ status = "finish" /\ onSaving /\ ~EncodingCompleted
  /\ Idle(b) /\ UNCHANGED <<curTask, scenario>>
  /\ EndOfRecord(Pending)

FinishDone(b, h) ==
  /\ status = "finish" /\ onSaving /\ EncodingCompleted
  /\ onSaving' = FALSE
  /\ buffer' = BufferAfterReset(b, h) /\ episodes' = TableAfterReset(b, h)
  /\ timing' = FALSE
  /\ UNCHANGED <<status, stopSaved, count, curTask, scenario>>
  /\ encoders' = Pending
  /\ session' = "completed" /\ Upload

Tick ==
  /\ session = "recording"
  /\ opened' = TRUE /\ UNCHANGED commands
  /\ \E d \in Datasets :
       /\ held' = d.held
       /\ \/ RunLowRam(d.buffer) /\ smooth' = FALSE
          \/ /\ UNCHANGED smooth
             /\ \/ Wait(d.buffer) \/ WaitOver(d.buffer)
                \/ RunFrame(d.buffer) \/ RunOver(d.buffer)
                \/ SaveBegin(d.buffer) \/ SaveWait(d.buffer)
                \/ SaveDone(d.buffer, d.held)
                \/ StopBegin(d.buffer) \/ StopWait(d.buffer)
                \/ StopDone(d.buffer, d.held)
                \/ FinishBegin(d.buffer) \/ FinishWait(d.buffer)
                \/ FinishDone(d.buffer, d.held)

\* A tick that cannot convert the robot's messages, or waits too long for
\* the first ones, ends the recording before record is called.
Abort ==
  /\ session = "recording" /\ DataMayFail
  /\ session' = "aborted"
  /\ UNCHANGED <<status, onSaving, stopSaved, count, curTask, scenario, timing,
                 opened, held, buffer, episodes, encoders, uploaded, commands,
                 smooth>>

----------------------------------------------------------------------------
(* The operator's commands; user_interaction_callback refuses them when    *)
(* nothing is recorded. START_RECORD during a recording is RERECORD, and   *)
(* the joystick's right and left triggers are MOVE_TO_NEXT and RERECORD.   *)
(* Each command says when a careful operator sends it.                     *)

Command(careful) ==
  /\ session = "recording" /\ commands < MaxCommands
  /\ commands' = commands + 1
  /\ smooth' = (smooth /\ careful)
  /\ UNCHANGED <<onSaving, count, opened, held, encoders, session, uploaded>>

\* A take is being recorded and has frames.
TakeInProgress ==
  status = "run" /\ ~onSaving /\ buffer.state = "open" /\ buffer.frames > 0

Stop ==
  /\ Command(TakeInProgress)
  /\ status' = "stop"
  /\ UNCHANGED <<stopSaved, curTask, scenario, timing, buffer, episodes>>

\* record_next_episode for several tasks; record_early_save for one, which
\* does nothing without a buffer (and raises, caught, without a dataset).
MoveToNext ==
  /\ Command(TakeInProgress)
  /\ status' = IF ~SingleTask \/ buffer.state # "none" THEN "save" ELSE status
  /\ UNCHANGED <<stopSaved, curTask, scenario, timing, buffer, episodes>>

\* _episode_reset raises, caught by the service, when no dataset is open and
\* the task is the first: the command then only clears _stop_save_completed.
ResetRaises == ~opened /\ curTask = 0

OperatorReset ==
  /\ stopSaved' = FALSE
  /\ timing' = FALSE
  /\ buffer' = BufferAfterReset(buffer, held)
  /\ episodes' = TableAfterReset(buffer, held)

ResetFails ==
  /\ ResetRaises
  /\ stopSaved' = FALSE
  /\ UNCHANGED <<status, curTask, scenario, timing, buffer, episodes>>

Retry ==
  /\ Command(opened /\ ~onSaving)
  /\ \/ ResetFails
     \/ /\ ~ResetRaises /\ OperatorReset
        /\ status' = "reset"
        /\ UNCHANGED <<curTask, scenario>>

\* The control panel has this button only when there are several tasks.
Skip ==
  /\ Command(~SingleTask /\ opened /\ ~onSaving)
  /\ \/ ResetFails
     \/ /\ ~ResetRaises /\ OperatorReset
        /\ status' = "skip_task"
        /\ NextTask

Finish ==
  /\ Command(/\ ~onSaving
             /\ \/ TakeInProgress
                \/ buffer.state = "none" /\ episodes # << >>)
  /\ status' = "finish"
  /\ UNCHANGED <<stopSaved, curTask, scenario, timing, buffer, episodes>>

----------------------------------------------------------------------------
(* The encoder threads: FFmpegEncoder.encode_video. Clearing the images of *)
(* a thread that feeds FFmpeg cuts its video short, unless it had read all.*)

Encode(i, from, to) ==
  /\ i \in DOMAIN episodes /\ episodes[i].video \in from
  /\ episodes' = [episodes EXCEPT ![i].video = to]
  /\ UNCHANGED <<status, onSaving, stopSaved, count, curTask, scenario,
                 timing, opened, held, buffer, encoders, session, uploaded,
                 commands>>

EncodeBegin(i) == Encode(i, {"queued"}, "encoding") /\ UNCHANGED smooth
EncodeEnd(i) == Encode(i, {"encoding", "cut"}, "whole") /\ UNCHANGED smooth
EncodeShort(i) == Encode(i, {"cut"}, "truncated") /\ UNCHANGED smooth
EncodeFail(i) ==
  \/ /\ EncoderMayFail /\ Encode(i, {"queued", "encoding"}, "dead")
     /\ smooth' = FALSE
  \/ Encode(i, {"cut"}, "dead") /\ UNCHANGED smooth

Encoder == \E i \in DOMAIN episodes :
  EncodeBegin(i) \/ EncodeEnd(i) \/ EncodeShort(i) \/ EncodeFail(i)

\* The session is over and no encoder thread is left.
Over ==
  /\ session # "recording"
  /\ \A i \in DOMAIN episodes :
       episodes[i].video \notin {"queued", "encoding", "cut"}
  /\ UNCHANGED vars

Next ==
  \/ Tick \/ Abort
  \/ Stop \/ MoveToNext \/ Retry \/ Skip \/ Finish
  \/ Encoder
  \/ Over

Spec == Init /\ [][Next]_vars

\* The executor keeps firing the timer and the encoder threads are scheduled.
\* A tick that changes nothing is a stutter, so that weak fairness of Tick
\* also lets the time limits pass; nothing is assumed of the operator.
FairSpec == Spec /\ WF_vars(Tick) /\ WF_vars(Encoder)
============================================================================
