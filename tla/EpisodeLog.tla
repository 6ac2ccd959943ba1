------------------------------ MODULE EpisodeLog ------------------------------
(***************************************************************************)
(* What a recording is to whoever uses the dataset: a log of episodes. It  *)
(* only grows, at its end, by episodes that have frames and the next       *)
(* number; what was recorded in one never changes. Videos are promised,    *)
(* with their episode or for all at once, and then finished or lost. A     *)
(* session ends as a whole: completed, when no promise is open or broken,  *)
(* and only then is the log pushed to the hub; or aborted, or by a crash,  *)
(* after which promises may still be settled.                              *)
(***************************************************************************)
EXTENDS Naturals, Sequences

VARIABLES
  log,       \* the episodes: index, frames, tasks, video
  session,   \* "recording", or how it ended
  uploaded   \* number of episodes pushed to the hub

vars == <<log, session, uploaded>>

Init == log = << >> /\ session = "recording" /\ uploaded = 0

\* The same recorded data, whatever became of the video.
SameTake(e, f) ==
  e.index = f.index /\ e.frames = f.frames /\ e.tasks = f.tasks

\* At most one episode more, and nothing recorded is changed.
Grows ==
  /\ Len(log') \in {Len(log), Len(log) + 1}
  /\ \A i \in DOMAIN log : SameTake(log'[i], log[i])
  /\ \A i \in DOMAIN log' \ DOMAIN log :
       log'[i].index = Len(log) /\ log'[i].frames > 0

Record ==
  /\ Grows /\ Len(log') > Len(log)
  /\ \A i \in DOMAIN log : log'[i] = log[i]

\* The videos of all episodes, and of one more, are asked for.
Promise ==
  /\ Grows /\ log' # << >>
  /\ \A i \in DOMAIN log' : log'[i].video = "promised"

Settle ==
  \E i \in DOMAIN log :
    /\ log[i].video = "promised"
    /\ \E v \in {"final", "lost"} : log' = [log EXCEPT ![i].video = v]

GoesOn == UNCHANGED <<session, uploaded>>
Breaks == session' \in {"aborted", "crashed"} /\ UNCHANGED uploaded
Completes ==
  /\ session' = "completed"
  /\ \A i \in DOMAIN log' : log'[i].video \in {"none", "final"}
  /\ uploaded' \in {uploaded, Len(log')}

Next ==
  \/ /\ session = "recording"
     /\ Record \/ Promise \/ Settle \/ UNCHANGED log
     /\ GoesOn \/ Breaks \/ Completes
  \/ session # "recording" /\ Settle /\ GoesOn

Spec == Init /\ [][Next]_vars
=============================================================================
