# A TLA+ model of the LeRobot ROS 2 workspace

This directory models the concurrent and stateful parts of the workspace in
TLA+, checks them with TLC on small instances and proves the central facts
about them with TLAPS for every value of the constants.  Paths below are
relative to `src/src/`; `PROJECT.json` gives, for every definition that models
code, the lines it stands for.

## 1. The system

| Component | Where | State it keeps | What it does |
|---|---|---|---|
| Recording state machine | `physical_ai_tools/physical_ai_server/.../data_processing/data_manager.py` | status, episode counter, current task and scenario, `_on_saving`, `_stop_save_completed` | `record()` once per timer tick; `record_stop`, `re_record`, ... on the operator's commands |
| Episode storage | `.../data_processing/lerobot_dataset_wrapper.py`, `.../video_encoder/ffmpeg_encoder.py` | episode buffer, episode table, total frame buffer, dictionary of encoders | adds frames, saves episodes, one FFmpeg thread per camera and episode |
| Server session | `.../physical_ai_server.py`, `.../timer/timer_manager.py` | `on_recording`, `on_inference`, operation mode, timers, data manager, communicator | the service `/task/command`, collection and inference ticks, joystick triggers, `set_robot_type` |
| Rosbag control and recorder | `.../communication/communicator.py`, `rosbag_recorder/src/service_bag_recorder.cpp` | last status seen by the server; recorder's `is_recording_`, writer, topics, subscriptions | edge-triggered commands, sent without waiting for an answer, to another process |
| Training control | `.../training/training_manager.py` and the server's training callbacks | training manager, thread, stop event, status timer, `is_training` | START and FINISH, the training thread and its clean-up |
| Hugging Face worker | `.../data_processing/hf_api_worker.py` and the server's HF callbacks | worker process, input, output and progress queues, `is_processing`, status timer | uploads and downloads in another process, polled by a timer; cancelling |
| Inference manager | `.../inference/inference_manager.py` | the policy | loads, clears and runs a policy |
| Data editing | `.../data_processing/data_editor.py` | none (files) | merges and deletes episodes of datasets |
| Behaviour trees | `physical_ai_tools/physical_ai_bt` | tree, position in sequences, one control thread per action | ticks of a tree whose actions run in threads |
| zenoh SDK | `zenoh_ros2_sdk/zenoh_ros2_sdk` | session singleton, entity counters; per server a request queue and pending queries, per client a sequence number | ROS 2 topics and services over zenoh |
| Discovery daemon | `zenoh_ros2_sdk/zenoh_ros2_sdk/daemon` | graph cache, inactivity clock | answers graph queries of short-lived clients |
| Manager UI | `physical_ai_tools/physical_ai_manager` | Redux store of task info and status | sends the commands, shows the status topic |
| lerobot | `physical_ai_tools/lerobot` | action queues, datasets, policies | the vendored library: inference queues, dataset writer, training |
| Robot bringup and controllers | `ai_worker`, `open_manipulator`, `cyclo_control`, `teleop`, `robotis_interfaces`, `lerobot_robot_ros2_zenoh` | per-controller numeric state | control loops, kinematics, descriptions |

How they interact: the manager UI calls the server's services; the server runs
services, subscriptions and timers on the single thread of `rclpy.spin`
(`physical_ai_server.py`, `main`), so callbacks never overlap, but any order of
them is possible.  Beside that thread run the encoder threads, the training
thread, the clean-up thread of the Hugging Face worker, the worker process, and
the rosbag recorder, which is a process of its own behind a service whose
answer the server does not wait for.  The behaviour tree node uses a
multi-threaded executor and a thread per running action.  The zenoh SDK calls
back on zenoh's threads.

Behaviours that are hard here: a command that lands between the two ticks that
save an episode; an encoder that reads lists which a reset clears; a
status edge that falls between two looks at the status; a timer replaced while
it still runs; a thread whose clean-up runs before its starter has finished; a
reply that arrives after its timeout; two threads that take the same number for
their calls; a request dropped from a full queue whose caller still waits; a
joined thread that may not have ended; a crash between two renames of a dataset's
files.


What makes each component correct, in a sentence each; the properties below
make these precise.

- Recording: no recorded frame is lost and no episode is saved twice, numbered
  wrongly, counted without being saved, or reported complete without its video,
  whatever commands arrive between the ticks; finishing finishes.
- Storage: the session waits for every encoder thread; one task keeps the images
  of at most one saved episode in memory; nothing unfinished is uploaded.
- Server session: at most one timer runs, it is the one the server can stop, and
  the flags tell the truth about it; no callback raises, for that ends the node.
- Rosbag: the bag of an episode holds that episode's take and outlives all later
  retries; the recorder's state is what the server takes it to be.
- Training: FINISH reaches the training that runs; no status timer outlives it.
- Hugging Face worker: an answer belongs to the request in hand; no worker
  process and no timer is lost; an idle worker is shut down.
- Behaviour trees: one thread at work at a time; no success without its
  measurement; the base stands when nothing turns it.
- zenoh SDK: each call gets its own answer, an error, or a timeout; the pending
  queries are what is owed; no request is left lying while threads sleep.
- Data editing: files and metadata agree after any number of edits, and no edit
  costs an episode it was not about.

## 2. The modules

| Module | Models | Builds on |
|---|---|---|
| `DataManager` | a recording: ticks, commands, buffer, table, encoder threads | |
| `EpisodeLog` | abstractly: the dataset as a log of episodes, and how a session ends | |
| `DataManagerProps` | what a recording promises; the refinement mapping to `EpisodeLog` | `DataManager`, `EpisodeLog` |
| `RosbagRecorder` | the recorder process and the requests on their way to it | |
| `RecordingSession` | server, recording and recorder together, over several sessions | `DataManagerProps`, `RosbagRecorder` |
| `SessionControl` | starts and ends of recordings and inferences, timers, flags | |
| `TrainingControl` | training commands against the training thread | |
| `HfWorker` | requests and cancellations against clean-up threads and processes | |
| `RemoteCalls` | abstractly: calls that are carried out and answered at most once | |
| `ServiceQueue` | callers and servers of a service of the zenoh SDK; the refinement mapping to `RemoteCalls` | `RemoteCalls` |
| `BehaviorTree` | the ticks of a sequence against its actions' threads | |
| `DatasetEdit` | deletions from datasets, file by file, and merges | |
| `*_proofs` | the theorems about the module they are named after | that module, `TLAPS` |
| `MC*` | the instances TLC checks, with one `.cfg` per run | the module they are named after |

Each model has its properties at its end, except `DataManager`, whose
properties `RecordingSession` uses too.  A definition that comes with "A mutant
of" in its comment is a plausible error in the definition named; it is not used
by the specification, and is there to show that a property can tell the two
apart.

### DataManager

`record()` runs once per timer tick and is one chain of tests of the status, so
`Tick` is a disjunction of one action per branch: `Wait` and `WaitOver` (the
branches of warmup, reset and skip_task), `RunFrame`, `RunOver`, `RunLowRam`,
then `Begin`, `Wait` and `Done` of each of save, stop and finish.  A tick first
opens the dataset if there is none, so each branch takes the buffer at hand as
its argument.  `EndOfRecord` is the end of the method, which some branches do
not reach because they return early.  The commands are `Stop`, `MoveToNext`,
`Retry`, `Skip` and `Finish`; the joystick's triggers are a command that is
followed by a tick.  Encoder threads move an episode's `video` from queued to
encoding to one of its ends.

What is worth knowing about the abstraction:

- A take's frames are counted up to `MaxFrames`, "that many or more".
- `episodes` are the rows this session added.  A dataset loaded from the disk is
  `held`; indices are relative to its length.
- Time is the flag `timing`, the clock is running: any tick of a running clock
  may be late, and none that starts it is, unless the time is zero.
- The instructions of an episode's frames are kept as a set, since a mixture is
  what `OneInstruction` rules out.
- An encoder reads lists of images that a reset clears.  What it then produces
  is open: `cut` ends in a whole, a truncated or no video.
- A `crashed` session is an exception that leaves a timer callback: nothing in
  `main` catches it, and the node ends.
- One encoder stands for the encoders of an episode, one per camera in the code;
  that an episode is complete when all of them are is what `Completed` says.

### RosbagRecorder and RecordingSession

`RosbagRecorder` has one operator per command of `send_command`, with each
refusal, and `Write` for a message.  Its `Handle` takes the next request.  A
topic that is missing from the graph makes `handle_prepare` read through an end
iterator; what happens then is a free choice, including the death of the process.

`RecordingSession` puts `DataManager`'s tick in front of
`handle_rosbag_recording` (`HandleRosbag`: one disjunct per status, `OnRun` with
its look at the missing buffer), as `_data_collection_timer_callback` does, and
starts a new session when one is over (`StartRecord`), where
`previous_data_manager_status` stays as it was.  The uri of a bag is the directory
of the dataset and the number of the episode in it (`data_manager.py:97-101`), so
a session that goes on with the last one's dataset goes on with its uris, and one
whose dataset was made anew begins again at 0 over the bags that are there: `Bag`,
`BagOf` and `OfDataset`.  The recorder's service is looked for when the robot
type is set (`communicator.py:264-269`); without it every request raises (lines
306-308), which `handle_rosbag_recording` logs, and the change of status is looked
at again after the next tick: `available`, and `Send`, which all handlers use.  The
robot type is set once here, before the first session.

Histories make the properties expressible: `take` numbers the takes begun, and
`earlier` how many of them were begun in sessions before; `saved` is the take of
each episode of the dataset, over all its sessions; `prompt` is set as long as
the recorder handled each request before the next tick, `unskipped` until
SKIP_TASK is commanded, and `unbroken` until a session ends in the middle of a
take.  No change to skip_task has a handler, so that the recorder goes on with
the skipped take's bag; the manager turns bags off in the mode that offers the
skip (`InfoPanel.js:177`).

### SessionControl

`timer_manager` is a name and a timer, `timers` are those of the node, which
live on when nobody refers to them.  `StopRaises` is the exception of
`TimerManager.stop` for an unknown name, or of the call on `None`.  The two
timers' callbacks have an action per way out.  A policy is `bad` when its path
was found valid and it cannot be loaded.

Of a recording it keeps what decides when it ends and whether it takes the node
with it: `status`, where warmup, run, reset and skip_task are one `take` and
save and stop one `save`; `saving` is `_on_saving`; `content` is what a save
would find (the dataset is closed, or the buffer is empty, has some frames, or
is nothing); `stored` that an episode was saved; `encoding` how its encoders do.
So an exception that leaves `record()`, which no callback catches, ends the node
(`Crash`), and a stop, a move to the next episode, a retry or a skip overrides a
finish that is under way (`Stop`, `MoveToNext`, `Retry`).  `DataManager` has
what is left out here: counters, frames, single encoders.

### TrainingControl

The service's callbacks run on the executor's thread, the training on its own,
and they share `training_manager`, `training_timer` and `is_training`.  Each
statement of START that touches one of them is a step (`Start`, `MakeTimer`,
`ShowStatus`, ...), and so is each of the thread's clean-up.  Of one clean-up the
part run by the service is one step (`CleanUp`).  So is each `TimerManager.stop`,
which in the code is a test and then a use of the timer (`timer_manager.py:36-39`)
and can be run by both threads at once: the later one may then find `None`, or
destroy a timer that is destroyed already, and its command answers with an error, but
the timer is stopped either way.  A manager is the number of its START.

### HfWorker

Cancelling starts a thread that cleans up and, without waiting for it, sets both
references to `None`; the clean-up tests for `None` and uses the reference
afterwards.  So each access is a step of one of `Cleaners`: thread `k` belongs to
the `k`-th command, 0 is the callback that cleans up when the worker was idle for
five cycles.  Workers are numbered as they are made.  `HfApiWorker.send_request`
puts a request in the queue and sets the flag in one step, and `is_alive` reads
process and reference in one.  The 1.5 s that a cancellation keeps the executor
busy are not modelled, so the model has more interleavings than are likely; the
shutdown of the node is left out, because nothing is served after it, and so is the
clean-up that a cancellation does in the callback itself when it cannot start a
thread (`physical_ai_server.py:1299-1304`), which excludes all races.

When both references were dropped before the thread read them, worker process
and timer go on for ever: `lost` remembers these, so that the properties can say
that it is they and no others.

### EpisodeLog

What a recording is to those who use the dataset: episodes are only added, at the
end, with frames and the next number, and never changed but in what becomes of
their video, which is promised once and settled once; the session ends as a
whole, and the dataset is pushed to the hub only then.  `DataManagerProps` maps
the episode table to the log (`VideoOf` and `Entry`: queued, encoding and cut
videos are promised, whole and truncated ones final, dead ones lost) and
instantiates it; `EpisodesAreLogged` is the specification of the log, as a
property of the recording.

### ServiceQueue

Threads share one `ROS2ServiceClient`; neither `call` nor `call_async` takes a
lock for `sequence_number`, so reading it (`Number`), adding one (`Load`) and
storing it together with the rest of the call (`Send`) are steps.  A query is the
number of its call, its key the sequence number it carries; there is one client,
because keys of two differ in the gid.  The handlers run under the server's lock
and are one action per way through `_query_handler` (`Callback`, `TooEarly`,
`Duplicate`, `Enqueue`); `take_request` is `Take`, `Wait`, `Expire` and `GiveUp`,
where `wait` means asleep in the condition variable and `woken` on the way back
to the lock.  `TooEarly` is a query that comes between the declaration of the
queryable and the creation of the queue.  `SendResponse` may fail after the query
was taken out; `Abandon` is an application that never answers.  A reply is given
to the closure of its own call; a reply after the timeout of a `call` changes
nothing.  A `call_async` returns at once, and its callback is told the outcome, by
a thread of zenoh (`ACallback`), at most `MaxAsync` of them.  When the callback
raises on a response, the handler that catches it calls it once more, with `None`
(`service_client.py:401-407`): `Again`, kept in `again`.

### RemoteCalls

What a service is to those who call it: a call is issued, is sent or reaches
nobody, is carried out by one server's thread or dealt with on arrival, may be
lost, and is answered or fails; its first outcome stays, but a callback may be
called once more, with nothing, in the step that first called it (`ToldAgain`);
and only what carries a call out answers it.  A call without an answer may have
been carried out or not, which is why callers that repeat one must expect to
have it done twice.  `ServiceQueue` maps its lists to these sets: what is sent
is on the network or in the queue, what is carried out is in a worker's hands,
and the outcomes of `calls` say what is answered and what has failed.  Dropping,
refusing, timing out, closing and numbering twice are `Lose`, `AtOnce` and
`GiveUp` of the abstract service; `CalledAtMostOnce` is its specification.

### BehaviorTree

The tick timer and the subscriptions share the node's default callback group, so
callbacks exclude each other although the executor has several threads;
`callback` says where the tick is.  A tick is cut where the actions' threads can
come between: `TickReset` sets the stop event, `TickJoined` forgets the thread,
ended or not, because `join` waits for a second at most.  `MoveLook` compares
one joint with the message that is there at that moment; the code takes the
places of the names from one message (`move_arms.py:138-140`) and the positions
from what may be a newer one (line 148), so the model takes it that all messages
have their names in one order, as those of the robot's only joint state
broadcaster do.  `MoveRaises` is the `TypeError` or `IndexError` of a message
that is gone or too short.  The rotation's callback and one cycle of its loop
are atomic: they share the latest yaw and the first, which is only written when
there is none.  Sequences in sequences are flattened.  The history `met`
collects the joints some message since the thread's start had at their targets:
a message "of its own run" is one that was received after the start.

### DatasetEdit

A request becomes, when it comes, a set of steps (`BatchSteps`, `SingleSteps`,
`MergeSteps`), as the code computes its lists and mappings before it renames.  A
step is one operation on one file, or one phase of a merge, and has a place in
the order of the code's statements and loops, from which `Earlier` follows; the
earliest step is done next, and between any two the server may crash.  A file is
the episode it holds and, for parquet, its column `episode_index`; metadata are
rows of index and episode.  Renames overwrite files, as `Path.rename` does, and
fail on folders (`Clash`).  Other operations may fail too.  The deletion of one
episode logs the failure of a file's operation and goes on with the next
(`data_editor.py:589`, 1137 and others), and both kinds of deletion do so when
the metadata cannot be rewritten: `Fail`, with `GoesOn` for where, and `Dropped`
for what is not done then.  So a file that was not renamed is overwritten by the
next rename.  Any other failure ends the request, as a crash does.  `MaxFaults`
bounds crashes and failures together.

The editor knows one chunk of a dataset, `chunk-000` (`data_editor.py:70`), so a
dataset has fewer than `ChunkSize` episodes here, and it needs a camera: without
one a deletion raises after the parquet files were renamed (1042-1045).  A dataset
made by merging has no directory `images/`, which a deletion then passes over
(`Held`).  Of merging there are two datasets at a time, and each of its phases is
one step for the whole of one of them; the failure of a copy within a phase
(353-357, 427, 445, 549) is not modelled.  That the output is not one of the two is
assumed of the callers: nothing in `communicator.py:477-483` checks it.

The history `list` is what the dataset should hold, `asked` which
episodes a request named or failed to rename, and `state` what can be expected:
`exact`; `aligned` after a deletion that raised at a missing file or named an index
that does not exist; `broken` after a crash, after a failure or after a merge into a
directory that was in use; `adrift` after a deletion of several episodes from a
broken dataset.

### Histories about the operator

Some properties cannot hold for arbitrary commands, and the model says for whom
they do.

- `smooth` (`DataManager`).  STOP and MOVE_TO_NEXT come when a take is in progress:
  status run, not saving, frames in the buffer.  RERECORD and SKIP_TASK come when
  the dataset is open and nothing is being saved, SKIP_TASK with several tasks only.
  FINISH comes with a take in progress, or between two takes after an episode was
  saved.  There was enough memory, and no encoder failed but for a clearing of its
  images.
- `careful` (`SessionControl`).  START_RECORD and START_INFERENCE come while no
  timer runs and the robot type is set, /set_robot_type while no timer runs.
  STOP, MOVE_TO_NEXT and FINISH come to a recording when the buffer has frames,
  or when there is none and an episode was saved; and so does a shortage of
  memory, which is no operator's choice.
- `careful` (`TrainingControl`): a START and a robot type only without a training
  thread, a FINISH only with one.
- `orderly` (`HfWorker`): no worker process died, and no request came in the
  middle of a clean-up.  `lost` are the workers and timers that a cancellation
  forgot before its thread held the worker.

The manager's panel enables more than that (`isButtonEnabled`, `ControlPanel.js`).
Start needs that nothing runs and Stop that something does, which is also so in the
warm-up or during a save; Retry and Next need, for one task, a phase that is not
READY, and for several, that something runs; Skip both, on the page for
recordings of several tasks; and Finish is always enabled.  The panel also sees the
server's status late.  The other commands are in the models too: the properties
that need no care hold with them, the violation runs show two promises that are not
kept, and section 6 has more.

## 3. The runs

| Run | Instance | Question |
|---|---|---|
| `recording_single` | 1 task, 2 episodes, 4 commands, low memory, failing encoders and data | Do buffer, table, encoders and counter stay consistent, is nothing lost, does saving end? |
| `recording_multi` | 2 tasks, the same, times of 0 s | Is the recording an `EpisodeLog`; does the scenario follow the task, has each episode one instruction, does finishing end with whole videos? |
| `session_any` | 2 sessions of 1 episode, 2 commands, low memory, failing data, vanishing topics, with and without the recorder's service | Is the open bag on disk, is a bag of one take, and are saved bags kept, from one session to the next too? |
| `session_lagging` | 2 sessions of 2 episodes, 1 command, failing data, saving of the base dataset, with and without the recorder's service | Do the server's requests suit the recorder, has every episode its bag, does the recorder stop? |
| `control` | 6 commands, all failures | Do flags, timers and manager agree, does the node survive, does a finish end what runs? |
| `training` | 5 commands | Does the server keep hold of the training? |
| `hf_worker` | 3 commands, dying processes | Do answers match requests, does nothing leak but what a cancellation forgot, does an idle worker stop? |
| `service_queue` | 2 calling threads, 2 workers, 3 calls, 1 of them with `call_async`, queue of 2, both modes | Does each call get its own answer, are pending queries what is owed, is no notification lost, does the queue drain, is no call carried out or answered twice? |
| `behavior_tree` | 3 moves of 2 joints and a rotation, timeouts of 2 ticks | Is there no stray thread and no unearned success, does the base stand, does the tree end? |
| `dataset_edit` | datasets of 5 and 1 episodes with 2 cameras and a folder of images, two videos missing; 2 requests of any kind, 1 crash or failure | Is what is left exactly what was asked for, do names agree after failures, is nothing else lost? |
| `stop_after_retry`, `finish_after_refused_start` | | violations, see section 6 |

### Properties

`recording_single` and `recording_multi`.  For any operator:
`BufferMatchesTable` (an open buffer is for the next row, a saved one for the
last and only while its saving is under way), `EncodersInHand` (the session
waits for every unfinished encoder, and one task keeps the images of one saved
episode at most), `ScenarioFollowsTask`, `EpisodesAreLogged` (the recording is
an `EpisodeLog`; with it, the dataset is pushed only with no video unfinished,
which is also the theorem `UploadsFinished`), `OneInstruction` (no episode mixes
the instructions of two tasks, with the exception of the first of a new dataset,
where a retry or a skip before anything was saved keeps the frames,
`data_manager.py:403`).  For a careful one (`smooth`): `NothingLost`,
`CountIsSaved`, `CompletedIsComplete`, `NoCrash`.  Progress: `FinishCompletes`,
`SavingEnds`.  What concerns both modes of saving is checked where it is harder
to keep; the theorems hold in both.

`session_any` and `session_lagging`.  `OpenBagOnDisk` for any operator.
`SavedBagsKept` and `OneTakePerBag` for any who skips nothing, while the
recorder keeps up, for a request that is handled late may meet the bag of
another take; they are about all sessions on a dataset, and after a session that
broke off: the next one then goes on in the bag that was left open, which is why
a bag may also hold what is of `earlier` sessions, but no bag of a saved episode
is deleted or begun again.  `NothingRefused` and `EpisodesHaveBags` for a
careful one, however late the recorder is, until a session breaks off in the
middle of a take; `EpisodesHaveBags` with the recorder's service there.
`RecorderStops`, unless something was skipped.

`control`.  `TimerIsManaged`, `Survives`, `FlagsFollowTimers`, for a careful
operator: at most one timer runs and the server can stop it, no exception leaves a
callback, the flags tell the truth.  `FinishEnds`: a finish goes through its save
and its encoders to the end of the timer, unless another command overrides it, an
encoder fails, or an inference's policy cannot be loaded.

`training`.  `TrainingInHand`, `NoTimerLeft`, `Survives` for a careful operator,
`FinishStopsCurrent` for any.

`hf_worker`.  `AnswersMatchRequests` always.  `NothingLeaks` and
`IdleWorkerStops` while things are orderly, of every worker and timer but those a
cancellation forgot before its thread held the worker.

`service_queue`.  `AnswersFitCalls`: an answer is to the request of the call that
gets it, even when two threads took the same number; only then is a call refused
as a duplicate.  `PendingIsOwed`: the dictionary's queries are those of the
requests that are queued, taken or were abandoned, no more and no fewer.
`NoLostWakeup`: while a thread sleeps, there is a woken one for each queued
request.  `CalledAtMostOnce`: to its callers the service is a `RemoteCalls`; a
callback is called once more only when it raised on the first call.
`QueueDrains`: no request stays in the queue.

`behavior_tree`.  `NoStrayThread`: a thread that may still command the robot or
write a result is the one of the child whose turn it is; so the second that a
reset waits is always enough in this tree, and the race of `joint_state` with the
reset does not happen.  `SuccessIsEarned`, `BaseStands`.  `TreeEnds`, unless a
thread died, a rotation goes on, or the node is interrupted.

`dataset_edit`.  `EditsAreExact` for datasets on which nothing failed.
`NamesAgree` also after requests that raised or named no episode, except that a
video or a folder of an episode that was to be deleted may be left, and then
gets the index of another one: a first deletion raises at a missing video, the
next one renames what it left behind.  `NothingElseLost` after crashes and
failures too, of every episode none of whose files was to be deleted or failed
to be renamed (the next rename overwrites such a file), except of datasets that
are adrift: with five episodes a crash between renames leaves a gap, and a batch
then maps an index to one at which a video still is.

### Bounds

| Bound | Value | Why it is enough |
|---|---|---|
| `MaxFrames` | 1 | Frames saturate; the code asks only whether there are any. The theorems hold for all values. |
| `MaxCommands` | 1 to 6 | Each expected violation, and each mutant, is found within them; 4 commands let a recording be retried, stopped, resumed and finished, 6 let two things be started, ended and started anew. |
| `NumTasks` | 1, 2 | The code distinguishes one task from several; two make a whole scenario. |
| `NumEpisodes` | 1, 2 | Two let a later episode disturb an earlier one. Several tasks have no limit (`EpisodeLimit`, 1000000 in the code): there the commands are the bound. |
| `MaxSessions` | 2 | What one session leaves to the next. |
| `MaxRequests` | 2 | A tick sends at most one request, so that two let the recorder lag by more than a tick; a full channel holds back the ticks. |
| `IdleCycles` | 5 | The constant of the code; the counter is kept at most there. |
| `MaxCalls`, `Threads`, `Workers`, `Depths`, `MaxAsync` | 3, 2, 2, {2}, 1 | Three calls overflow a queue of two, two threads race, two sleep; one callback is called once more. The theorems hold for all values. |
| `NumJoints`, `Limit` | 2, 2 | A message may have one joint at its target and not the other; a loop may wait and look again. |
| `MaxEdits`, `MaxFaults`, `MaxIndex` | 2, 1, 6 | A request meets what another, a crash or a failure left; all indices of the datasets and of their merge fit. Five episodes, for with fewer a batch on a broken dataset overwrites nothing; two missing videos, for with one an episode's files are either all there or end where the deletion raised. The theorems hold for all values. |

Fewer commands are given where two processes multiply the states.  No symmetry
is used: tasks, workers, calls and managers are ordered.

### Fairness

The executor of `rclpy.spin` fires a timer that exists, so there is weak
fairness on ticks (`Tick`, `SessionTick`, `Poll`); the operating system
schedules threads and processes, so there is weak fairness on encoders, service
steps, clean-ups and the recorder.  A tick that changes nothing is a stutter, so
weak fairness on ticks also makes running clocks run out, as the code's
`time.perf_counter` does.  In `SessionControl` there is weak fairness on the
ticks, whichever way they go, and on the encoders; that a finish ends follows
from these, through the save and its wait, and is not assumed.  In
`ServiceQueue` a server's loop takes requests and answers them, so there is weak
fairness on doing either; in `BehaviorTree` on ticks and on each thread.
Nothing is assumed of the operator, of a training's or an upload's own end, of
callers, networks, sensors, or of failures.

Deadlock is checked in every run but `dataset_edit`, where nothing need be
requested; `Over` is the state in which the system may really rest.

## 4. The proofs

All are proved by `tlapm` for every value of the constants, from the named
assumptions of the modules: numbers are natural, switches Boolean, several tasks
save optimized (`InfoPanel.js` forces that), at least one of what is counted
from one, datasets included, threads and workers finite in number.

- `DataManagerProps_proofs` has three parts.  First the recording whoever
  operates it: `TypeCorrect`, `BufferMatchesTableAlways`,
  `EpisodesInOrderAlways`, `EncodersInHandAlways`, `UploadsFinished`,
  `ScenarioAlways`, `OneInstructionAlways`.  The invariant `IInv` is the
  conjunction of type correctness, `BufferMatchesTable`, `EpisodesInOrder`,
  `OneEncodingAtATime` and `NoEncoderForgotten`.  They need each other: the
  numbering needs that the buffer's index is that of the next row; an upload is
  safe because the encoders the session waits for include all that are
  unfinished.  Lemmas about the operators that saving and resetting are built
  from carry the weight; then there is one lemma per branch of `record()`.
  `OneInstructionAlways` has an invariant of its own besides, `InstructionsInv`:
  what the buffer holds is of the current task alone, unless it is the first
  episode of a new dataset.

  Then the refinement, `Implements`, that every behaviour of the recording is
  one of the log.  Initial states map to initial states.  A step either leaves
  the table alone, or saves (one row more, of a buffer with frames and the next
  index), or starts or ends an encoder (one row's video), or promises all
  videos; the lemmas say which log each gives.  That a session completes without
  open or broken promises follows from `IInv`, with no failed encoder forgotten.

  Last the careful recording: `CountIsSavedAlways`, `NoCrashAlways`,
  `CompletedIsCompleteAlways`, and the action property
  `NothingLostAlways`.  Their invariant is `smooth => Careful`, in seven parts
  that need each other: `StageFits` says for each status what the buffer holds
  (frames when a save is ahead, none when one is under way or over), so that no
  save raises and none is empty; `CountFits` that the counter is behind the table
  by the episode whose saving is under way; `LimitFits` that nothing is recorded
  beyond the target, without which a retry could follow the last episode;
  `VideosFit` that no encoder is cut short, because resets come when they are
  done; `OpenFits`, `TasksFit` and `DoneFits` the rest.  `CompletedIsComplete`
  has the hypothesis `Limited`: one task, or fewer commands than the 1000000
  episodes at which the code would end a session of several tasks without making
  its videos.
- `RecordingSession_proofs`: `OpenBagOnDiskAlways` is inductive by itself: START
  is refused while recording, and whatever deletes a bag closes it.  The
  invariants of the recording are lifted to sessions: a step of a session is one
  of the recording or starts a new one.  `TickEffect`, `ServerStepDoes` and
  `HandleEffect` say what each kind of step does to takes, table, recorder and
  bags, so that the rest does not look into `record()` again.
  - `SavedBagsKeptAlways` rests on `BagsFit`: a bag is opened for an episode of
    the dataset that is not saved yet, and by the time it is saved the recorder has
    been told to stop; for while a bag of the session is written the status last
    seen is run, and no save goes unseen.  After a session that broke off it is the
    bag left open that is written, which is that of an unsaved episode too.
  - `OneTakePerBagAlways` rests on `TakesFit`: what the next episode's bag holds
    is of the take at hand, or of an earlier session, or will go before anything
    of it is saved.  It assumes times that are not 0: with a reset of 0 s a
    retry is over before the server looks, and the bag goes on.
  - `NothingRefusedAlways` rests on `InStep`, over the whole queue of requests:
    each one comes when the recorder can do it, and the last leaves the recorder
    as the status last seen has it.
  - `EpisodesHaveBagsAlways` rests on `ReadyInv`, that nothing is started before the
    recorder was prepared, and on `BagsKept`, both also over the queue: the bags of
    all episodes of the dataset and of the take at hand will be there when all is
    handled, and what a retry deletes is the bag of the take at hand.  It assumes
    times that are not 0: with a warm-up of 0 s no PREPARE is sent.

  The last two assume that no topic vanishes, which makes the recorder forget or
  die.  Messages that fail to be converted are not excluded: the properties hold
  until they break a take off (`unbroken`).
- `SessionControl_proofs`: `TypeCorrect`, `TimerIsManagedAlways`,
  `SurvivesAlways`, `FlagsFollowTimersAlways`.  The invariant adds that a careful
  operator's running timer has a ready robot, for otherwise its next tick ends the
  node (`InHand`), that a flag goes with the mode of the timer (`Flags`), and that
  what the status is about to save can be saved (`Ready`): no save of an empty
  buffer is ahead, nor a finish of several tasks with nothing saved and nothing to
  save.
- `TrainingControl_proofs`: `TypeCorrect`, `TrainingInHandAlways`,
  `NoTimerLeftAlways`, `SurvivesAlways`.  The invariant says, for every place of
  the service's code and of the thread's, which manager is the latest, whether it
  has been told to stop, and whether its timer still runs.
- `HfWorker_proofs`: `TypeCorrect`, `AnswersMatchRequestsAlways`,
  `NothingLeaksAlways`.  Answers need that a worker not yet started has an
  empty queue, and that `commands` bounds the workers made.  For the leaks, at
  most one clean-up is at work, and for each of its places the invariant says
  which of timer and worker it has already dealt with and that the reference
  still leads to the other; all this of the workers and timers that are not `lost`.
- `ServiceQueue_proofs`: `TypeCorrect`, `PendingIsOwedAlways`,
  `AnswersFitCallsAlways`, `NoLostWakeupAlways`, `CalledAtMostOnceAlways`.  The
  invariant adds that requests in the queue, in hand and abandoned are different
  (`Distinct`), that a pending query has the key of its call (`KeysFit`), that
  what is still on the network is not yet at the server (`Arrived`), and, as
  long as nobody raced for a number, that all keys given out differ and are
  below the next one (`NumberedInTurn`): so no key is found pending.  For the
  notifications, lemmas on the cardinality of the sets of sleeping and woken
  threads: each request wakes one if one sleeps, and one that leaves without a
  request leaves an empty queue behind.  For the refinement, one lemma per kind
  of step: `Distinct` and `Arrived` keep the places of a call apart, so that
  `Take` moves exactly one call from the sent to those being carried out and
  `Enqueue` loses exactly the dropped ones; `PendingIsOwed` makes the call that
  a response settles the one that was carried out, and the only one whose
  callback may be called again.
- `BehaviorTree_proofs`: `TypeCorrect`, `NoStrayThreadAlways`,
  `SuccessIsEarnedAlways`, `BaseStandsAlways`.  The invariant ties each child
  before the current one to a thread that succeeded, the current one to its
  thread and to the place of the tick, and those after it to none; a result is
  there exactly when the thread has ended with it; and a comparison that has got
  to a joint has met the joints before it.
- `DatasetEdit_proofs`: `TypeCorrect`, `NothingElseLostAlways`,
  `NamesAgreeAlways`, `EditsAreExactAlways`, for any number of datasets,
  episodes of a chunk, cameras (one at least), missing files, requests, crashes
  and failures that are passed over.  Between two steps files and names are
  apart, so the invariant `IInv` looks ahead: `Goes` is the name a file will
  have when the steps that are left are done.
  - `Ordered` says how the steps that are left follow each other: which come in
    pairs, and that what is to leave a name leaves it before another file gets it.
    From it, lemma by lemma for each operation, `Flow`: a step changes neither
    where a file goes nor whose it is.
  - `NothingElseLost` rests on `Room`, that what has the new name of a file was
    asked for or moves away before, and on `Spared`, that what is unlinked was
    asked for or has been copied.  When a deletion of one begins, that is the order
    of the indices; when a batch does, that its map is increasing and that a
    medium's index is one of `data/`'s or of an episode that was to be deleted,
    which fails on a broken dataset: hence adrift.  A step that fails is dropped,
    and the file that was not renamed joins what was asked for.
  - `NamesAgree` rests on the same for the names files will have: files with the
    same index before have the same one after, and rows follow by the job's map.
    A merge has its own part, `Merged`: what was copied so far from each dataset,
    and that the first one's indices are below its share.
  - `EditsAreExact` rests on a second invariant, `EInv`, inductive relative to
    `IInv`: in an exact dataset the name a file or row will have is the place of
    its episode in `list`, and every place is taken unless the file is `Missing`
    (`FilesExact`, `RowsExact`), and the count is, or will be, the list's length.
    `Flow` says that steps keep this in both directions.  When a deletion begins
    the list is shortened by rank (`Less`) and the files are renumbered by counting
    what is deleted below them; `RanksAre` and `RanksOfKept` show by the pigeonhole
    principle that these are the same.  When a merge ends, `MergedIsExact`: what was
    copied of two exact datasets is all there was, and the first one's count, by
    which the second is moved, is the length of its list.

Only model-checked: all liveness, which the prover does not do under fairness.
Every safety invariant of a run that passes is a theorem.  Each property that a
theorem names is also checked by a run, and TLC checked the parts of the
inductive invariants on small instances before they were proved.

## 5. What is not modelled

- What frames, statistics, policies, trainers and uploads contain: no property is
  about it.
- Subscriptions to the robot and their latest messages: a tick that cannot
  convert them is `Abort`.
- Progress reports of uploads, the node's shutdown, and a cancellation's clean-up
  within its callback, for when no thread can be started
  (`physical_ai_server.py:1299-1304`).
- That `TimerManager.stop` is a test and a use (`timer_manager.py:36-39`): see
  `TrainingControl`.
- With the recorder: a robot type that is set anew between two sessions, with a
  recorder's service that came or went meanwhile.
- The manager UI as a process.  Its buttons are the commands, and its texts are
  taken as claims.
- Of the zenoh SDK, topics, the session (created and counted under locks) and
  encodings; of a response, that it may be lost on the way, which is a timeout.
- Of data editing, frame numbers, tasks, writes torn by a crash, datasets with
  `episodes.json`, an encoder that still writes a video while its dataset is
  edited, chunks other than the first (the editor leaves the files of episodes
  from 1000 on as they are, `data_editor.py:600-628`), datasets without a
  camera, merges of more than two datasets or into one of those that are merged,
  and copies that fail in a merge.
- The discovery daemon (one thread, one cache), the vendored lerobot (only
  its episode buffer and the check of one, as the server uses them; by far most of the repository's lines, and none of its
  own), controllers, kinematics and bringup, whose state is numeric.
- The limit of 1000000 episodes and seconds for several tasks is never reached.

## 6. Findings

Two runs show a promise of the interface that the code does not keep.  Each
text is quoted with its line in `PROJECT.json`.

1. `stop_after_retry`: after a retry that arrives during saving, `_on_saving`
   stays set, and the next stop throws the new take away ("Stop and save current
   episode", `ControlPanel.js`).
2. `finish_after_refused_start`: a refused START replaces the training manager,
   and FINISH signals the wrong one ("Stop training gracefully").

Remarks without a run of their own; the models contain each, and the properties
are stated so as to exclude it:

- START and then FINISH or STOP during the warm-up ends the node: the save of
  the empty buffer raises in the timer's callback when saving is optimized
  (`data_manager.py:207, 224`; `smooth` and `careful` exclude it).
- A skip, or a retry, in the first take of a new dataset does not clear its frames:
  after the first task, the first episode mixes the instructions of two tasks
  (`data_manager.py:401-406`; `OneInstruction` excepts it).  The panel enables it.
- A recorder that is not there when the robot type is set is an error in the log:
  all recordings are completed without bags (`communicator.py:264-269, 306-308`;
  `available`).
- A finish of several tasks while an episode is being saved finds `_on_saving`
  set and completes the session without encoding any video (`data_manager.py:196`;
  `smooth` excludes it).
- An inference with `record_inference_mode` sets `on_recording`, which nothing
  clears: later START_RECORDs are taken for restarts (`physical_ai_server.py:804`;
  `FlagsFollowTimers` excludes it).
- The status of a worker process that died with a task in progress is
  overwritten and never published as Failed (`hf_api_worker.py:211`).
- Two threads that call a service at once may send the same key; a queueing
  server answers the second with an error (`service_client.py:279`).
- A take that is skipped leaves the recorder recording, since no change to
  skip_task has a handler (`physical_ai_server.py:366`): the next START is
  refused, the next take's messages go to the bag of the skipped one, a session
  completed after that leaves the recorder recording, and a later retry can delete
  the bag of a saved episode.  With one task only the service takes the command;
  `unskipped` excludes it.
- A recording that is aborted leaves the recorder recording as well
  (`physical_ai_server.py:468`): the next session's PREPARE and START are refused,
  and its messages go to the bag that was left open (`unbroken`, `earlier`).
- A cancellation may forget worker process and timer before its clean-up thread
  has read the references: both then run on for ever (`physical_ai_server.py:1275`;
  `lost`).
- A callback of `call_async` that raises on a response is called a second time, with
  `None`, which it may take for a timeout (`service_client.py:401-407`).
- With a reset time of 0 the server never sees a retry, and with a warm-up time
  of 0 it sends no PREPARE (`data_manager.py:118`).
- An action's thread that dies of an exception, and a rotation that does not
  arrive, keep the tree running for ever (`rotate.py:125`).
- Interrupted while it turns, the node leaves the base turning: no zero velocity
  is published (`bt_node.py:225`).
- A rename that raises while one episode is deleted is logged and passed over, and
  the next rename overwrites the file that stayed (`data_editor.py:589-595`).
- A deletion repeated after a crash half-way deletes other episodes, or leaves
  gaps, because indices have moved; single deletion at a missing video raises
  after the parquet file is gone; a batch with an index that does not exist makes
  `total_episodes` too small; a video left behind by a deletion that raised becomes
  that of another episode, or is overwritten by a batch, and a left folder makes the
  batch fail half-way, although "deleted episodes are already gone"
  (`data_editor.py:810`); several episodes deleted at once after a crash can
  overwrite the video of one nobody asked for; merging into a directory in use
  overwrites parquet files and keeps its videos.

## 7. Plan

Done: all modules of section 2.  What would come next:

- The server's callbacks composed: recording, inference and training share the
  node, and only the first two share a timer.
