-------------------------- MODULE RecordingSession --------------------------
(***************************************************************************)
(* A recording with rosbag2: after each tick the server compares the       *)
(* status of the data manager with the one it saw last and, on some        *)
(* changes, sends the recorder a request, without waiting for an answer.   *)
(* The recorder, another process, handles the requests in order while the  *)
(* robot's messages keep coming. One recording session follows another.    *)
(***************************************************************************)
EXTENDS DataManagerProps, RosbagRecorder

CONSTANTS
  MaxSessions   \* bound on the number of recording sessions

ASSUME SessionAssumption == MaxSessions \in Nat \ {0}

VARIABLES
  available,  \* Communicator.rosbag_service_available
  previous,   \* PhysicalAIServer.previous_data_manager_status
  sessionNo,  \* which recording session this is
  dataset,    \* the dataset it records: the session that was its first
  take,       \* history: how many takes were begun
  earlier,    \* history: how many of them before this session
  saved,      \* history: the take that each episode of the dataset holds
  prompt,     \* history: the recorder handled each request before the next tick
  unskipped,  \* history: no SKIP_TASK was commanded
  unbroken    \* history: no session ended in the middle of a take

serverVars == <<available, previous, sessionNo, dataset, take, earlier, saved,
                prompt, unskipped, unbroken>>
sessionVars == <<vars, recorderVars, serverVars>>

----------------------------------------------------------------------------
(* handle_rosbag_recording.                                                *)

\* The uri of a bag: the directory of the dataset and the number of the
\* episode. (Episodes of a dataset are counted from the first of these
\* sessions; those it had before are left out.)
Bag(position) == <<dataset, position>>

\* The bag of an episode of this session, by its index in the session's table.
BagOf(index) == Bag(Len(saved) - Len(episodes) + index)

\* Without the recorder's service, which is looked for when the robot type is
\* set (here: before the first session), each request raises. The exception is
\* logged, and the change of status looked at again after the next tick.
Send(command, uri) ==
  IF available THEN Sent(Request(command, uri)) /\ previous' = status'
               ELSE UNCHANGED <<requests, previous>>

Ignore == UNCHANGED requests /\ previous' = status'

OnReset == IF previous = "run" THEN Send("STOP_AND_DELETE", NoUri) ELSE Ignore

\* Mutants of OnSaveOrStop: a save is not seen; saving is taken for a retry.
OnStopOnly ==
  IF previous = "run" /\ status' = "stop" THEN Send("STOP", NoUri) ELSE Ignore
OnSaveDeletes ==
  IF previous = "run" THEN Send("STOP_AND_DELETE", NoUri) ELSE Ignore

OnSaveOrStop == IF previous = "run" THEN Send("STOP", NoUri) ELSE Ignore

\* Without a buffer the index of the episode is not known yet: the change is
\* looked at again after the next tick.
OnRun ==
  IF buffer'.state = "none" THEN UNCHANGED <<requests, previous>>
  ELSE Send("START", BagOf(buffer'.index))

HandleRosbag ==
  \/ status' = previous /\ UNCHANGED <<requests, previous>>
  \/ /\ status' # previous
     /\ \/ status' = "warmup" /\ Send("PREPARE", NoUri)
        \/ status' = "run" /\ OnRun
        \/ status' \in {"save", "stop"} /\ OnSaveOrStop
        \/ status' = "finish" /\ Send("FINISH", NoUri)
        \/ status' = "reset" /\ OnReset
        \/ status' = "skip_task" /\ Ignore

----------------------------------------------------------------------------

SessionInit ==
  /\ Init /\ RecorderInit
  /\ available \in BOOLEAN
  /\ previous = "none" /\ sessionNo = 1 /\ dataset = 1
  /\ take = 0 /\ earlier = 0 /\ saved = << >>
  /\ prompt = TRUE /\ unskipped = TRUE /\ unbroken = TRUE

History ==
  /\ take' = IF Unsaved' /\ ~Unsaved THEN take + 1 ELSE take
  /\ saved' = IF Len(episodes') > Len(episodes) THEN Append(saved, take)
                                                ELSE saved
  /\ prompt' = (prompt /\ requests = << >>)

OtherRecorderVars ==
  <<recording, openBag, requested, typed, subscribed, bags, alive>>

\* The collection timer's callback: record, then the look at the status. The
\* first of a session finds the dataset on the disk if it has episodes.
SessionTick ==
  /\ Tick
  /\ saved # << >> /\ ~opened => held'
  /\ IF session' = "crashed" THEN UNCHANGED <<requests, previous>>
                             ELSE HandleRosbag
  /\ History
  /\ UNCHANGED <<available, sessionNo, dataset, earlier, unskipped, unbroken,
                 OtherRecorderVars>>

SessionAbort == Abort /\ UNCHANGED <<recorderVars, serverVars>>

\* No change to skip_task has a handler: the recorder goes on with the bag of
\* the take that was skipped. The manager offers no skip where it offers bags.
Operator ==
  /\ \/ (Stop \/ MoveToNext \/ Retry \/ Finish) /\ UNCHANGED unskipped
     \/ Skip /\ unskipped' = FALSE
  /\ UNCHANGED <<recorderVars, available, previous, sessionNo, dataset, take,
                 earlier, saved, prompt, unbroken>>

SessionEncoder == Encoder /\ UNCHANGED <<recorderVars, serverVars>>

\* The task of a new session has a dataset of its own, or that of the last
\* session, under the same uris. A session that did not complete may leave the
\* dataset without one of its folders: it is then removed and made anew.
OfDataset ==
  \/ dataset' = sessionNo' /\ saved' = << >>
  \/ dataset' = dataset /\ saved' = saved
  \/ session = "aborted" /\ dataset' = dataset /\ saved' = << >>

\* START_RECORD when nothing is recorded: a new data manager, while the last
\* status seen stays.
StartRecord ==
  /\ session \in {"completed", "aborted"} /\ sessionNo < MaxSessions
  /\ sessionNo' = sessionNo + 1 /\ OfDataset /\ earlier' = take
  /\ unbroken' = (unbroken /\ previous # "run")
  /\ status' = "warmup" /\ onSaving' = FALSE /\ stopSaved' = FALSE
  /\ count' = 0 /\ curTask' = 0 /\ scenario' = 0 /\ timing' = FALSE
  /\ opened' = FALSE /\ held' = FALSE /\ buffer' = NoBuffer
  /\ episodes' = << >> /\ encoders' = {}
  /\ session' = "recording" /\ uploaded' = 0
  /\ UNCHANGED <<commands, smooth, available, previous, take, prompt, unskipped,
                 recorderVars>>

RecorderHandles == Handle /\ UNCHANGED <<vars, serverVars>>

\* The robot publishes while a take is being recorded.
Message ==
  /\ status = "run" /\ Unsaved /\ session = "recording"
  /\ Write(take)
  /\ UNCHANGED <<vars, serverVars>>

SessionOver ==
  /\ requests = << >> /\ Over
  /\ UNCHANGED <<recorderVars, serverVars>>

SessionNext ==
  \/ SessionTick \/ SessionAbort \/ Operator \/ SessionEncoder \/ StartRecord
  \/ RecorderHandles \/ Message \/ SessionOver

SessionSpec == SessionInit /\ [][SessionNext]_sessionVars

\* As FairSpec, and the recorder's executor handles what it is sent.
SessionFairSpec ==
  /\ SessionSpec
  /\ WF_sessionVars(SessionTick) /\ WF_sessionVars(SessionEncoder)
  /\ WF_sessionVars(RecorderHandles)

----------------------------------------------------------------------------

\* Whatever is commanded and whatever fails, the directory of the bag that is
\* being written is never deleted under the writer.
OpenBagOnDisk == recording => openBag \in DOMAIN bags

\* While the recorder keeps up with its requests, what the bag of an episode of
\* the dataset holds is never deleted or started anew: by no later take, by no
\* retry, and by no later session on the dataset, though it uses the same uris
\* and the session before may have left the recorder recording. (After a skip
\* it may be.)
SavedBagsKept ==
  [][prompt /\ unskipped =>
       \A i \in DOMAIN saved :
         Bag(i - 1) \in DOMAIN bags =>
           /\ Bag(i - 1) \in DOMAIN bags'
           /\ bags[Bag(i - 1)] \subseteq bags'[Bag(i - 1)]]_sessionVars

\* The recorder would refuse the request r; the server never learns of it.
Refused(r) ==
  /\ alive
  /\ \/ r.command \in {"PREPARE", "START"} /\ recording
     \/ r.command \in {"STOP", "STOP_AND_DELETE"} /\ ~recording

\* What the server infers from the status agrees with what the recorder does,
\* however late: with a careful operator who skips nothing, no request meets a
\* recorder that refuses it, until a session breaks off in the middle of a take
\* and leaves the recorder recording for the next one.
NothingRefused ==
  smooth /\ unskipped /\ unbroken /\ requests # << >>
    => ~Refused(Head(requests))

\* While the recorder keeps up, the bag of an episode holds the messages of no
\* other take than its own, whatever is commanded but a skip. When a session
\* broke off and left the recorder recording, the next one goes on with its bag:
\* what may be there besides is of an earlier session. (With a reset time of 0
\* a retry may go unseen, and the bag goes on.)
OneTakePerBag ==
  prompt /\ unskipped => \A i \in DOMAIN saved : Bag(i - 1) \in DOMAIN bags =>
    \A t \in bags[Bag(i - 1)] : t = saved[i] \/ t <= earlier

\* With a careful operator and the recorder's service there when the robot type
\* was set: once it has handled what it was sent, the recorder writes the take
\* at hand, with its topics subscribed, to the bag of the episode the take will
\* be, and no other; and when a recording is complete, every episode of the
\* dataset has its bag, the recordings before included.
EpisodesHaveBags ==
  smooth /\ unskipped /\ unbroken /\ available /\ requests = << >> =>
    /\ Unsaved /\ status = "run" /\ previous = "run" /\ session = "recording"
         => /\ recording /\ subscribed /\ typed
            /\ openBag = Bag(Len(saved))
    /\ session = "completed"
         => ~recording /\ \A i \in DOMAIN saved : Bag(i - 1) \in DOMAIN bags

\* Once a recording in which nothing was skipped is complete the recorder stops.
RecorderStops == session = "completed" /\ unskipped ~> ~recording
=============================================================================
