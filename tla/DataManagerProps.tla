-------------------------- MODULE DataManagerProps --------------------------
(***************************************************************************)
(* What a recording session promises, stated over DataManager.             *)
(***************************************************************************)
EXTENDS DataManager

\* Every variable has its type.
TypeOK ==
  /\ status \in Statuses
  /\ onSaving \in BOOLEAN /\ stopSaved \in BOOLEAN
  /\ count \in Nat /\ curTask \in Nat /\ scenario \in Nat
  /\ timing \in BOOLEAN /\ opened \in BOOLEAN /\ held \in BOOLEAN
  /\ buffer \in Buffers
  /\ episodes \in Seq(Episodes)
  /\ encoders \subseteq DOMAIN episodes
  /\ session \in {"recording", "completed", "aborted", "crashed"}
  /\ uploaded \in Nat /\ commands \in Nat /\ smooth \in BOOLEAN

----------------------------------------------------------------------------
(* Whatever the operator does.                                             *)

\* An open buffer belongs to the next position of the table, a saved one to
\* the last; and a saved buffer is kept only while its saving is under way,
\* and gets no more frames.
\* So no take is saved twice, and none is refused by validate_episode_buffer
\* because the table moved on, whatever retries, skips and stops intervene.
BufferFits(b) ==
  /\ b.state = "open" => b.index = Len(episodes)
  /\ b.state = "saved" =>
       /\ onSaving /\ status \in {"save", "stop", "finish"}
       /\ b.index = Len(episodes) - 1
       /\ episodes # << >>

BufferMatchesTable == BufferFits(buffer)

\* The episodes are numbered as the dataset format asks: in order, no gaps.
EpisodesInOrder ==
  \A i \in DOMAIN episodes : episodes[i].index = i - 1

\* With a single task the images of at most one saved episode are in memory:
\* nothing is saved while an encoder is at work, whatever commands arrive
\* between the save and its end.
OneEncodingAtATime ==
  SingleTask => /\ ~onSaving => encoders = {}
                /\ encoders \subseteq {Len(episodes)}

\* Every encoder thread still at work is in the dictionary that the session
\* waits for, so no completion test can miss one.
NoEncoderForgotten ==
  \A i \in DOMAIN episodes :
    episodes[i].video \in {"queued", "encoding", "cut", "dead"}
      => i \in encoders

\* The session neither forgets an encoder nor has two of them busy with one task.
EncodersInHand == OneEncodingAtATime /\ NoEncoderForgotten

\* All frames of an episode were recorded for one instruction, but for the
\* first episode of a dataset that was new. Until something is saved, a retry
\* or a skip after the first task leaves the buffer as it is, and its frames
\* are saved with those of the next instruction: however many takes are
\* retried, skipped, stopped and saved, that is the only episode it spoils.
OneInstruction ==
  \A i \in DOMAIN episodes :
    Cardinality(episodes[i].tasks) = 1 \/ (i = 1 /\ ~held)

\* The scenario shown to the operator is the number of rounds of all tasks
\* gone through, through every save, stop, skip and restart.
ScenarioFollowsTask == scenario = curTask \div NumTasks

\* A dataset is pushed to the hub only with every video of it in its final
\* form, and never again.
UploadsFinishedVideos ==
  [][uploaded' # uploaded =>
       /\ session' = "completed"
       /\ \A i \in DOMAIN episodes' :
            episodes'[i].video
              \notin {"queued", "encoding", "cut", "dead"}]_vars

----------------------------------------------------------------------------
(* The dataset as a log of episodes: what a session does to it is what     *)
(* EpisodeLog allows.                                                      *)

VideoOf(v) ==
  CASE v = "absent" -> "none"
    [] v \in {"queued", "encoding", "cut"} -> "promised"
    [] v \in {"whole", "truncated"} -> "final"
    [] v = "dead" -> "lost"

Entry(e) == [index |-> e.index, frames |-> e.frames, tasks |-> e.tasks,
             video |-> VideoOf(e.video)]

LogOf(table) == [i \in DOMAIN table |-> Entry(table[i])]

Log == LogOf(episodes)

EL == INSTANCE EpisodeLog WITH log <- Log

\* Whatever the operator, the memory, the encoders and the data do: episodes are
\* only added, in order, and never changed; a promised video is settled once;
\* and the session completes, and pushes the dataset, only as a whole.
EpisodesAreLogged == EL!Spec

----------------------------------------------------------------------------
(* While all goes smoothly: a careful operator, who sends no command while *)
(* an episode is being saved, enough memory, and encoders that work.       *)

Unsaved == buffer.state = "open" /\ buffer.frames > 0

\* Recorded frames are thrown away only by a retry or a skip: completing an
\* episode never discards frames that were not saved.
NothingLost ==
  [][smooth /\ Unsaved /\ buffer'.state = "none"
       => count' = count /\ session' = "recording"]_vars

\* Between two saves, the number of episodes shown is the number of episodes
\* in the table: none is counted that was not saved, or saved uncounted.
CountIsSaved ==
  smooth /\ status \in {"run", "reset", "skip_task"} /\ ~onSaving
    => count = Len(episodes)

\* When the server reports the recording completed, every episode has its
\* whole video and no recorded frame is left behind.
CompletedIsComplete ==
  smooth /\ session = "completed" =>
    /\ ~Unsaved
    /\ \A i \in DOMAIN episodes : episodes[i].video = "whole"

\* The server survives the session.
NoCrash == smooth => session # "crashed"

----------------------------------------------------------------------------
(* What the manager's control panel says of its buttons (see the README).  *)

\* "Stop and save current episode": frames at hand when the session is
\* stopped are not thrown away while it stays stopped.
StopKeepsTake ==
  [][status = "stop" /\ status' = "stop" /\ Unsaved
       => buffer'.state # "none"]_vars

----------------------------------------------------------------------------
(* Progress.                                                               *)

\* Asked to finish, the server completes the session, unless the operator
\* sends another command.
FinishCompletes ==
  smooth /\ status = "finish"
    ~> session # "recording" \/ status # "finish" \/ ~smooth

\* A take on its way to the table gets there: saving always ends.
SavingEnds ==
  smooth /\ onSaving ~> ~onSaving \/ session # "recording" \/ ~smooth
=============================================================================
