----------------------- MODULE RecordingSession_proofs -----------------------
(***************************************************************************)
(* Proofs about RecordingSession, for every value of its constants: of the *)
(* recorder, whatever the server sends it and however late; of the bags of *)
(* saved episodes while the recorder keeps up; and, with a careful         *)
(* operator, that server and recorder stay in step however late it is.     *)
(***************************************************************************)
EXTENDS RecordingSession, DataManagerProps_proofs

\* Each request the recorder handles keeps the open bag on disk: starting
\* anew is refused while it records, and what deletes a bag closes it.
LEMMA HandleKeepsBag ==
  ASSUME OpenBagOnDisk, Handle PROVE OpenBagOnDisk'
<1> DEFINE r == Head(requests)
<1>1. CASE Refuse
  BY <1>1 DEF Refuse, OpenBagOnDisk
<1>2. CASE Prepare
  BY <1>1, <1>2 DEF Prepare, OpenBagOnDisk
<1>3. CASE Start(r.uri)
  <2>1. CASE ~recording
    BY <2>1, <1>3 DEF Start, WithNew, OpenBagOnDisk
  <2> QED
    BY <1>1, <1>3, <2>1 DEF Start
<1>4. CASE StopRecording
  BY <1>4 DEF StopRecording, CloseBag, OpenBagOnDisk
<1>5. CASE StopAndDelete
  BY <1>1, <1>5 DEF StopAndDelete, CloseBag, OpenBagOnDisk
<1>6. CASE FinishRecording
  BY <1>4, <1>6 DEF FinishRecording, OpenBagOnDisk
<1> QED
  BY <1>1, <1>2, <1>3, <1>4, <1>5, <1>6 DEF Handle

\* Every step of the recording session does.
LEMMA NextKeepsBag ==
  ASSUME OpenBagOnDisk, [SessionNext]_sessionVars PROVE OpenBagOnDisk'
<1>1. CASE UNCHANGED <<recording, openBag, bags>>
  BY <1>1 DEF OpenBagOnDisk
<1>2. CASE RecorderHandles
  BY <1>2, HandleKeepsBag DEF RecorderHandles
<1>3. CASE Message
  BY <1>3 DEF Message, Write, OpenBagOnDisk
<1>4. CASE SessionTick \/ SessionAbort \/ Operator \/ SessionEncoder
  BY <1>1, <1>4
  DEF SessionTick, SessionAbort, Operator, SessionEncoder, OtherRecorderVars,
      recorderVars
<1>5. CASE StartRecord \/ SessionOver \/ UNCHANGED sessionVars
  BY <1>1, <1>5 DEF StartRecord, SessionOver, sessionVars, recorderVars
<1> QED
  BY <1>2, <1>3, <1>4, <1>5 DEF SessionNext

\* The bag that is being written is on disk, whatever is commanded, whatever
\* fails, and however late the recorder handles what it is sent.
THEOREM OpenBagOnDiskAlways == SessionSpec => []OpenBagOnDisk
<1>1. SessionInit => OpenBagOnDisk
  BY DEF SessionInit, RecorderInit, OpenBagOnDisk
<1> QED
  BY <1>1, NextKeepsBag, PTL DEF SessionSpec

----------------------------------------------------------------------------
(* A session seen as a recording, and the types.                           *)

\* A step of the session is a step of the recording, or starts a new one.
LEMMA StepOfRecording ==
  ASSUME [SessionNext]_sessionVars PROVE [Next]_vars \/ StartRecord
BY DEF SessionNext, SessionTick, SessionAbort, Operator, SessionEncoder,
       RecorderHandles, Message, SessionOver, Over, Next, sessionVars

\* The invariant of the recording holds for each session.
LEMMA SessionKeeps ==
  ASSUME IInv, [SessionNext]_sessionVars PROVE IInv'
<1>1. CASE StartRecord
  <2>1. buffer' \in Buffers
    BY <1>1, DataManagerAssumption DEF StartRecord, NoBuffer, Buffers
  <2>2. episodes' \in Seq(Episodes) /\ encoders' \subseteq DOMAIN episodes'
    BY <1>1, EmptySeq DEF StartRecord
  <2>3. TypeOK'
    BY <1>1, <2>1, <2>2 DEF StartRecord, IInv, TypeOK, Statuses
  <2>. QED
    BY <1>1, <2>3
    DEF StartRecord, IInv, BufferMatchesTable, BufferFits, NoBuffer,
        EpisodesInOrder, OneEncodingAtATime, NoEncoderForgotten
<1>. QED
  BY <1>1, StepOfRecording, NextKeeps

\* And so does that of a careful one.
LEMMA SessionCareful ==
  ASSUME IInv, IInv', CarefulInv, [SessionNext]_sessionVars PROVE CarefulInv'
<1>1. CASE StartRecord
  BY <1>1, DataManagerAssumption
  DEF StartRecord, CarefulInv, Careful, OpenFits, StageFits, CountFits,
      LimitFits, VideosFit, DoneFits, Unsaved, NoBuffer, SingleTask,
      EpisodeLimit, IInv, TypeOK
<1>. QED
  BY <1>1, StepOfRecording, NextCareful

\* Both, for all sessions.
LEMMA SessionInvariance == SessionSpec => [](IInv /\ CarefulInv)
<1>1. SessionInit => IInv /\ CarefulInv
  BY InitEstablishes, InitCareful DEF SessionInit, CarefulInv
<1>. QED
  BY <1>1, SessionKeeps, SessionCareful, PTL DEF SessionSpec

----------------------------------------------------------------------------
(* What a tick and what the other steps do to the take and the table.      *)

\* Nothing is in the buffer before the dataset is open.
OpenedFirst == opened \/ buffer.state = "none"

\* A tick saves the take at hand or leaves the table as long as it is. It
\* begins a take only in run, and comes to run without one only from a state
\* that waits, when its time has passed.
TickEffect ==
  /\ \/ Len(episodes') = Len(episodes)
     \/ /\ Len(episodes') = Len(episodes) + 1
        /\ Unsaved /\ ~Unsaved' /\ ~onSaving /\ session' # "crashed"
        /\ status \in {"save", "stop", "finish"} /\ status' = status
  /\ Unsaved' /\ ~Unsaved
       => status = "run" /\ status' = "run" /\ session' # "crashed"
  /\ status' = "run" /\ ~Unsaved' =>
       \/ status = "run" /\ ~Unsaved
       \/ status \in {"warmup", "reset", "skip_task"} /\ (timing \/ ZeroTimes)
  /\ status' = "warmup" => status = "warmup"
  /\ status = "warmup" => status' \in {"warmup", "run"}
  /\ status' \in {"save", "stop", "finish"}
       => status \in {"run", "save", "stop", "finish"}
  /\ status' = "skip_task" => status = "skip_task"
  /\ status' \in Statuses
  /\ session' = "crashed"
       => status \in {"save", "stop", "finish"} /\ status' = status

\* Each branch of a tick has this effect.
LEMMA TickDoes ==
  ASSUME IInv, OpenedFirst, Tick PROVE TickEffect
<1>1. PICK d \in Datasets :
        \/ Wait(d.buffer) \/ WaitOver(d.buffer)
        \/ RunFrame(d.buffer) \/ RunOver(d.buffer) \/ RunLowRam(d.buffer)
        \/ SaveBegin(d.buffer) \/ SaveWait(d.buffer)
        \/ SaveDone(d.buffer, d.held)
        \/ StopBegin(d.buffer) \/ StopWait(d.buffer)
        \/ StopDone(d.buffer, d.held)
        \/ FinishBegin(d.buffer) \/ FinishWait(d.buffer)
        \/ FinishDone(d.buffer, d.held)
  BY DEF Tick
<1>. DEFINE b == d.buffer
            h == d.held
            Full(c) == c.state = "open" /\ c.frames > 0
<1>2. /\ b \in Buffers /\ h \in BOOLEAN /\ BufferFits(b)
      /\ session = "recording" /\ status \in Statuses
      /\ Unsaved <=> Full(b)
  <2>1. CASE opened
    BY <2>1, DatasetFits DEF Datasets, Tick, IInv, TypeOK, Unsaved
  <2>2. CASE ~opened
    BY <2>2, DatasetFits
    DEF Datasets, Tick, IInv, TypeOK, Unsaved, OpenedFirst, FreshBuffer,
        NoBuffer
  <2>. QED
    BY <2>1, <2>2
<1>3. /\ ~Saves(b) => TableAfterSave(b) = episodes /\ BufferAfterSave(b) = b
      /\ Saves(b) => /\ Len(TableAfterSave(b)) = Len(episodes) + 1
                     /\ Full(b) /\ ~Full(BufferAfterSave(b))
  <2>1. CASE ~Saves(b)
    BY <1>2, <2>1, SaveAppends DEF BufferAfterSave
  <2>2. CASE Saves(b)
    BY <1>2, <2>2, SaveAppends DEF BufferAfterSave, Saves, Buffers, FreshBuffer
  <2>. QED
    BY <2>1, <2>2
<1>4. Len(TableAfterReset(b, h)) = Len(episodes)
      /\ (Full(BufferAfterReset(b, h)) => Full(b))
  BY <1>2, ResetKeepsTable DEF BufferAfterReset, NoBuffer
<1>5. Full(b) => Full(WithFrame(b))
  BY <1>2, DataManagerAssumption DEF WithFrame, Buffers
<1>6. LET T == TableAfterSave(b)
       IN  Len([i \in DOMAIN T |-> [T[i] EXCEPT !.video = "queued"]]) = Len(T)
  <2>1. TableAfterSave(b) \in Seq(Episodes)
    BY <1>2, SaveAppends
  <2>. QED
    BY <2>1
<1>. HIDE DEF b, h
<1>7. CASE Wait(b) \/ RunLowRam(b) \/ SaveWait(b) \/ StopWait(b) \/ FinishWait(b)
  BY <1>2, <1>7
  DEF TickEffect, Unsaved, Wait, RunLowRam, SaveWait, StopWait, FinishWait,
      Idle, KeepGoing, EndOfRecord, Statuses
<1>8. CASE WaitOver(b) \/ RunOver(b)
  BY <1>2, <1>8
  DEF TickEffect, Unsaved, WaitOver, RunOver, NoTime, EndOfRecord, KeepGoing,
      Statuses
<1>9. CASE RunFrame(b)
  BY <1>2, <1>5, <1>9
  DEF TickEffect, Unsaved, RunFrame, EndOfRecord, KeepGoing, Statuses
<1>10. CASE SaveBegin(b) \/ StopBegin(b)
  BY <1>2, <1>3, <1>10
  DEF TickEffect, Unsaved, SaveBegin, StopBegin, Save, Crash, EndOfRecord,
      KeepGoing
<1>11. CASE FinishBegin(b)
  BY <1>2, <1>3, <1>6, <1>11
  DEF TickEffect, Unsaved, FinishBegin, Save, Crash, EndOfRecord, KeepGoing
<1>12. CASE SaveDone(b, h) \/ StopDone(b, h) \/ FinishDone(b, h)
  BY <1>2, <1>4, <1>12
  DEF TickEffect, Unsaved, SaveDone, StopDone, FinishDone, EpisodeDone,
      EndOfRecord, KeepGoing, Statuses
<1>. QED
  BY <1>1, <1>7, <1>8, <1>9, <1>10, <1>11, <1>12 DEF b, h

\* The other steps of the server's process.
ServerStep == Operator \/ SessionAbort \/ SessionEncoder

\* None of them begins a take, saves one or comes to run.
LEMMA ServerStepDoes ==
  ASSUME IInv, ServerStep, unskipped \in BOOLEAN
  PROVE  /\ Len(episodes') = Len(episodes)
         /\ Unsaved' => Unsaved
         /\ status' \in {"warmup", "run"} => status' = status
         /\ status' = "run" => (Unsaved' <=> Unsaved)
         /\ status' = "reset" /\ timing' => status = "reset" /\ timing
         /\ status' = "skip_task" => status = "skip_task" \/ ~unskipped'
         /\ opened' = opened /\ (buffer' = buffer \/ buffer'.state = "none")
         /\ unskipped' => unskipped
         /\ unskipped' \in BOOLEAN
         /\ UNCHANGED <<recorderVars, available, previous, sessionNo, dataset,
                        take, earlier, saved, prompt, unbroken>>
<1>1. /\ episodes \in Seq(Episodes) /\ buffer \in Buffers /\ held \in BOOLEAN
      /\ BufferFits(buffer)
  BY DEF IInv, TypeOK, BufferMatchesTable
<1>2. CASE Operator
  <2>1. /\ UNCHANGED <<recorderVars, available, previous, sessionNo, dataset,
                       take, earlier, saved, prompt, unbroken>>
        /\ \/ (Stop \/ MoveToNext \/ Finish) /\ unskipped' = unskipped
           \/ Retry /\ unskipped' = unskipped
           \/ Skip /\ unskipped' = FALSE
    BY <1>2 DEF Operator
  <2>2. CASE (Stop \/ MoveToNext \/ Finish) /\ unskipped' = unskipped
    <3>1. /\ UNCHANGED <<timing, buffer, episodes, opened>>
          /\ status' \in {"stop", "save", "finish", status}
      BY <2>2 DEF Stop, MoveToNext, Finish, Command
    <3>. QED
      BY <2>1, <2>2, <3>1 DEF Unsaved
  <2>3. CASE \/ Retry /\ unskipped' = unskipped
             \/ Skip /\ unskipped' = FALSE
    <3>0. /\ unskipped' => unskipped
          /\ unskipped' \in BOOLEAN
      <4>1. CASE unskipped' = unskipped
        BY <4>1
      <4>2. CASE unskipped' = FALSE
        BY <4>2
      <4>. QED
        BY <2>3, <4>1, <4>2, Zenon
    <3>1. opened' = opened
      BY <2>3 DEF Retry, Skip, Command
    <3>2. CASE ResetFails
      <4>1. UNCHANGED <<status, timing, buffer, episodes>>
        BY <3>2 DEF ResetFails
      <4>3. (Unsaved' <=> Unsaved) /\ Len(episodes') = Len(episodes)
        BY <4>1 DEF Unsaved
      <4>. QED
        BY <2>1, <3>0, <3>1, <4>1, <4>3
    <3>3. CASE OperatorReset
      <4>1. Len(episodes') = Len(episodes)
            /\ (buffer' = buffer \/ buffer'.state = "none") /\ ~timing'
        BY <1>1, <3>3, ResetKeepsTable
        DEF OperatorReset, BufferAfterReset, NoBuffer
      <4>2. \/ /\ ResetFails \/ status' = "reset"
               /\ unskipped' = unskipped
            \/ /\ ResetFails \/ status' = "skip_task"
               /\ unskipped' = FALSE
        BY <2>3 DEF Retry, Skip
      <4>. QED
        BY <2>1, <2>3, <3>0, <3>1, <3>2, <4>1, <4>2 DEF Unsaved
    <3>. QED
      BY <2>3, <3>2, <3>3 DEF Retry, Skip
  <2>. QED
    BY <2>1, <2>2, <2>3
<1>3. CASE SessionAbort
  BY <1>3 DEF SessionAbort, Abort, serverVars, Unsaved
<1>4. CASE SessionEncoder
  <2>1. PICK i \in DOMAIN episodes : \E v :
               /\ episodes' = [episodes EXCEPT ![i].video = v]
               /\ UNCHANGED <<status, timing, opened, buffer>>
    BY <1>4 DEF SessionEncoder, Encoder, EncodeBegin, EncodeEnd, EncodeShort,
                EncodeFail, Encode
  <2>. QED
    BY <1>1, <1>4, <2>1 DEF SessionEncoder, serverVars, Unsaved
<1>. QED
  BY <1>2, <1>3, <1>4 DEF ServerStep

----------------------------------------------------------------------------
(* Types, and what the look at the status sends.                           *)

Uris == Nat \X Nat

Requests ==
  {r \in [command : Commands, uri : Uris \cup {NoUri}] :
     r.command = "START" => r.uri \in Uris}

\* The bag of the take at hand, or of the next one.
NextBag == Bag(Len(saved))

\* Without the recorder's service nothing is sent, and nothing recorded.
NothingSent ==
  /\ requests = << >> /\ ~recording /\ previous # "run" /\ DOMAIN bags = {}

SessionTypes ==
  /\ sessionNo \in Nat /\ dataset \in Nat /\ dataset <= sessionNo
  /\ take \in Nat /\ earlier \in Nat /\ saved \in Seq(Nat)
  /\ previous \in Statuses \cup {"none"}
  /\ prompt \in BOOLEAN /\ unskipped \in BOOLEAN /\ unbroken \in BOOLEAN
  /\ requests \in Seq(Requests)
  /\ recording \in BOOLEAN /\ alive \in BOOLEAN
  /\ recording => openBag \in Uris
  /\ DOMAIN bags \subseteq Uris
  /\ \A u \in DOMAIN bags : \A t \in bags[u] : t \in Nat /\ t <= take
  /\ Len(saved) >= Len(episodes)
  /\ ~available => NothingSent
  /\ OpenedFirst

\* The look sends nothing, or one request, which depends on the change only.
Looked ==
  \/ /\ requests' = requests /\ previous' = previous
     /\ \/ status' = previous \/ ~available
        \/ status' = "run" /\ buffer'.state = "none"
  \/ /\ requests' = requests /\ status' # previous /\ previous' = status'
     /\ \/ status' = "skip_task"
        \/ previous # "run" /\ status' \notin {"run", "warmup", "finish"}
  \/ /\ available /\ status' # previous /\ previous' = status'
     /\ \/ status' = "warmup" /\ Sent(Request("PREPARE", NoUri))
        \/ status' = "run" /\ buffer'.state # "none"
             /\ Sent(Request("START", NextBag'))
        \/ status' \in {"save", "stop"} /\ previous = "run"
             /\ Sent(Request("STOP", NoUri))
        \/ status' = "finish" /\ Sent(Request("FINISH", NoUri))
        \/ status' = "reset" /\ previous = "run"
             /\ Sent(Request("STOP_AND_DELETE", NoUri))

\* A tick adds to the table and to what is saved alike.
LEMMA TickSaves ==
  ASSUME IInv, IInv', SessionTypes, SessionTick
  PROVE  /\ Len(episodes) \in Nat /\ Len(episodes') \in Nat
         /\ Len(saved) \in Nat /\ saved' \in Seq(Nat) /\ Len(saved') \in Nat
         /\ Len(saved') - Len(saved) = Len(episodes') - Len(episodes)
         /\ \/ Len(saved') = Len(saved) /\ Len(episodes') = Len(episodes)
               /\ saved' = saved
            \/ Len(saved') = Len(saved) + 1 /\ saved' = Append(saved, take)
               /\ Len(episodes') = Len(episodes) + 1
         /\ TickEffect
<1>1. TickEffect
  BY TickDoes DEF SessionTick, SessionTypes
<1>2. saved' = IF Len(episodes') > Len(episodes) THEN Append(saved, take)
                                                 ELSE saved
  BY DEF SessionTick, History
<1>3. /\ Len(episodes) \in Nat /\ Len(episodes') \in Nat
      /\ saved \in Seq(Nat) /\ take \in Nat
      /\ Len(episodes') = Len(episodes) \/ Len(episodes') = Len(episodes) + 1
  BY <1>1 DEF SessionTypes, IInv, TypeOK, TickEffect
<1>4. CASE Len(episodes') = Len(episodes)
  BY <1>1, <1>2, <1>3, <1>4
<1>5. CASE Len(episodes') = Len(episodes) + 1
  <2>1. saved' = Append(saved, take)
    BY <1>2, <1>3, <1>5
  <2>2. /\ saved' \in Seq(Nat) /\ Len(saved') = Len(saved) + 1
        /\ Len(saved) \in Nat
    BY <1>3, <2>1
  <2>. QED
    BY <1>1, <1>3, <1>5, <2>1, <2>2
<1>. QED
  BY <1>3, <1>4, <1>5

\* The look at the status is one of these: a bag that is started is that of
\* the next episode.
LEMMA LookSends ==
  ASSUME IInv, IInv', SessionTypes, SessionTick, session' # "crashed"
  PROVE  Looked
<1>1. HandleRosbag
  BY DEF SessionTick
<1>2. status' = "run" /\ buffer'.state # "none"
        => BagOf(buffer'.index) = NextBag'
  <2>. SUFFICES ASSUME status' = "run", buffer'.state # "none"
                PROVE  BagOf(buffer'.index) = NextBag'
    OBVIOUS
  <2>1. buffer'.index = Len(episodes') /\ dataset' = dataset
    BY DEF IInv, TypeOK, Buffers, BufferMatchesTable, BufferFits, SessionTick
  <2>2. Len(saved) - Len(episodes) + Len(episodes') = Len(saved')
    BY TickSaves
  <2>. QED
    BY <2>1, <2>2 DEF BagOf, Bag, NextBag
<1>3. SUFFICES ASSUME status' # previous PROVE Looked
  BY <1>1 DEF HandleRosbag, Looked
<1>4. CASE status' = "run"
  BY <1>1, <1>2, <1>3, <1>4 DEF HandleRosbag, OnRun, Send, Looked
<1>5. CASE status' # "run"
  BY <1>1, <1>3, <1>5
  DEF HandleRosbag, OnSaveOrStop, OnReset, Ignore, Send, Looked
<1>. QED
  BY <1>4, <1>5

\* The requests the server makes are requests.
LEMMA RequestTypes ==
  /\ \A c \in Commands \ {"START"} : Request(c, NoUri) \in Requests
  /\ \A uri \in Uris : Request("START", uri) \in Requests
  /\ \A c, u : Request(c, u).command = c /\ Request(c, u).uri = u
BY DEF Request, Requests, Commands

\* Each step keeps the types.
LEMMA SessionKeepsTypes ==
  ASSUME IInv, IInv', SessionTypes, [SessionNext]_sessionVars
  PROVE  SessionTypes'
<1>. SUFFICES ASSUME SessionNext PROVE SessionTypes'
  BY DEF SessionTypes, OpenedFirst, NothingSent, sessionVars, vars,
         recorderVars, serverVars
<1>1. CASE SessionTick
  <2>1. TickEffect /\ saved' \in Seq(Nat) /\ Len(saved') >= Len(episodes')
    BY <1>1, TickSaves DEF SessionTypes
  <2>2. /\ take' \in Nat /\ take <= take' /\ prompt' \in BOOLEAN
        /\ UNCHANGED <<available, sessionNo, dataset, earlier, unskipped,
                       unbroken, recording, openBag, bags, alive>>
    BY <1>1 DEF SessionTick, History, OtherRecorderVars, SessionTypes
  <2>3. /\ requests' \in Seq(Requests) /\ previous' \in Statuses \cup {"none"}
        /\ ~available' => NothingSent'
    <3>1. CASE UNCHANGED <<requests, previous>>
      BY <2>2, <3>1 DEF SessionTypes, NothingSent
    <3>2. CASE session' # "crashed"
      <4>1. NextBag' \in Uris
        BY <2>1, <2>2 DEF NextBag, Bag, Uris, SessionTypes
      <4>2. \/ requests' = requests
            \/ available /\ \E r \in Requests : requests' = Append(requests, r)
        BY <1>1, <3>2, <4>1, LookSends, RequestTypes DEF Looked, Sent, Commands
      <4>3. previous' \in {previous, status'}
        BY <1>1, <3>2, LookSends DEF Looked
      <4>4. ~available => previous' # "run"
        BY <1>1, <3>2, LookSends DEF Looked, SessionTypes, NothingSent
      <4>5. requests' \in Seq(Requests)
        BY <4>2 DEF SessionTypes
      <4>6. ~available' => NothingSent'
        BY <2>2, <4>2, <4>4 DEF SessionTypes, NothingSent
      <4>. QED
        BY <2>1, <4>3, <4>5, <4>6 DEF SessionTypes, TickEffect
    <3>. QED
      BY <1>1, <3>1, <3>2 DEF SessionTick
  <2>4. \A u \in DOMAIN bags' : \A t \in bags'[u] : t \in Nat /\ t <= take'
    <3>. SUFFICES ASSUME NEW u \in DOMAIN bags, NEW t \in bags[u]
                  PROVE  t \in Nat /\ t <= take'
      BY <2>2
    <3>1. t \in Nat /\ t <= take /\ take \in Nat
      BY DEF SessionTypes
    <3>. QED
      BY <2>2, <3>1
  <2>. QED
    BY <1>1, <2>1, <2>2, <2>3, <2>4
    DEF SessionTick, Tick, SessionTypes, OpenedFirst
<1>2. CASE ServerStep
  BY <1>2, ServerStepDoes
  DEF SessionTypes, OpenedFirst, NothingSent, recorderVars
<1>3. CASE StartRecord
  <2>1. /\ sessionNo' = sessionNo + 1 /\ dataset' \in {dataset, sessionNo'}
        /\ saved' \in {saved, << >>} /\ earlier' = take
        /\ unbroken' \in BOOLEAN /\ episodes' = << >> /\ buffer' = NoBuffer
        /\ UNCHANGED <<available, previous, take, prompt, unskipped, recorderVars>>
    BY <1>3 DEF StartRecord, OfDataset, SessionTypes
  <2>2. /\ dataset' \in Nat /\ dataset' <= sessionNo' /\ sessionNo' \in Nat
        /\ saved' \in Seq(Nat) /\ Len(saved') >= Len(episodes')
    <3>1. /\ saved' \in Seq(Nat) /\ Len(episodes') = 0
      BY <2>1, EmptySeq DEF SessionTypes
    <3>. QED
      BY <2>1, <3>1 DEF SessionTypes
  <2>. QED
    BY <2>1, <2>2 DEF SessionTypes, OpenedFirst, NoBuffer, NothingSent,
                      recorderVars
<1>4. CASE RecorderHandles
  <2>1. /\ requests' \in Seq(Requests)
        /\ Head(requests) \in Requests
    BY <1>4 DEF RecorderHandles, Handle, SessionTypes
  <2>. DEFINE Good == /\ recording' \in BOOLEAN /\ alive' \in BOOLEAN
                      /\ recording' => openBag' \in Uris
                      /\ DOMAIN bags' \subseteq Uris
                      /\ \A x \in DOMAIN bags' : \A t \in bags'[x] :
                           t \in Nat /\ t <= take
  <2>2. Refuse \/ Prepare => Good
    BY DEF Refuse, Prepare, SessionTypes
  <2>3. Head(requests).command = "START" /\ Start(Head(requests).uri) => Good
    <3>. SUFFICES ASSUME Head(requests).command = "START",
                         Start(Head(requests).uri), ~recording
                  PROVE  Good
      BY <2>2 DEF Start
    <3>1. Head(requests).uri \in Uris
      BY <2>1 DEF Requests
    <3>2. /\ recording' \in {TRUE, FALSE} /\ alive' = alive
          /\ recording' => openBag' = Head(requests).uri
          /\ \/ bags' = WithNew(Head(requests).uri)
             \/ bags' = Without(Head(requests).uri)
      <4>1. recording = FALSE
        BY DEF SessionTypes
      <4>. QED
        BY <4>1 DEF Start
    <3>3. DOMAIN bags' \subseteq Uris
      BY <3>1, <3>2 DEF WithNew, Without, SessionTypes
    <3>4. \A x \in DOMAIN bags' : \A t \in bags'[x] : t \in Nat /\ t <= take
      BY <3>2 DEF WithNew, Without, SessionTypes
    <3>. QED
      BY <3>1, <3>2, <3>3, <3>4 DEF SessionTypes
  <2>4. StopAndDelete \/ FinishRecording => Good
    BY <2>2 DEF StopAndDelete, FinishRecording, StopRecording, CloseBag,
                Without, SessionTypes
  <2>5. StopRecording /\ UNCHANGED <<requested, subscribed, bags, alive>> => Good
    BY DEF StopRecording, CloseBag, SessionTypes
  <2>6. Good
    <3>. HIDE DEF Good
    <3>. QED
      BY <1>4, <2>2, <2>3, <2>4, <2>5 DEF RecorderHandles, Handle
  <2>7. available
    BY <1>4 DEF RecorderHandles, Handle, SessionTypes, NothingSent
  <2>. QED
    BY <1>4, <2>1, <2>6, <2>7
    DEF RecorderHandles, SessionTypes, OpenedFirst, vars, serverVars
<1>5. CASE Message
  <2>1. /\ bags' = [bags EXCEPT ![openBag] = bags[openBag] \cup {take}]
        /\ UNCHANGED <<vars, serverVars, requests, recording, openBag, alive>>
    BY <1>5 DEF Message, Write
  <2>2. \A u \in DOMAIN bags' : \A t \in bags'[u] : t \in Nat /\ t <= take
    BY <2>1 DEF SessionTypes
  <2>. QED
    BY <2>1, <2>2 DEF SessionTypes, OpenedFirst, NothingSent, vars, serverVars
<1>6. CASE SessionOver
  BY <1>6 DEF SessionOver, Over, SessionTypes, OpenedFirst, NothingSent, vars,
              serverVars, recorderVars
<1>. QED
  BY <1>1, <1>2, <1>3, <1>4, <1>5, <1>6 DEF SessionNext, ServerStep

----------------------------------------------------------------------------
(* The bags of saved episodes, while the recorder keeps up.                *)

\* The next request is one of these.
Due(C) == requests # << >> /\ Head(requests).command \in C

Closing == {"STOP", "STOP_AND_DELETE", "FINISH"}

\* No episode of the dataset has this bag.
Free(uri) == uri[1] = dataset => uri[2] >= Len(saved)

\* There is at most one request on its way. A bag is opened for an episode that
\* is not saved; and while it is written with a take at hand the status last
\* seen is run, so that no save goes unseen: when the take is saved, the
\* recorder has been told to stop. That holds of a recorder that was left
\* recording by an earlier session, too.
BagsFit == prompt /\ unskipped /\ alive =>
  /\ status # "skip_task"
  /\ Len(requests) <= 1
  /\ Due({"PREPARE"}) => previous # "run"
  /\ Due({"START"}) => /\ previous = "run" /\ Head(requests).uri[1] <= sessionNo
                       /\ Free(Head(requests).uri)
  /\ recording => openBag[1] <= sessionNo
  /\ recording /\ ~Due({"STOP", "FINISH"}) => Free(openBag)
  /\ Unsaved => status # "warmup"
  /\ Unsaved /\ recording /\ ~Due(Closing) => previous = "run"

\* A request that is sent when none is on its way is the next.
LEMMA OneSent ==
  ASSUME NEW r, requests = << >>, Sent(r)
  PROVE  requests' # << >> /\ Head(requests') = r /\ Len(requests') = 1
<1>1. requests' = << r >>
  BY DEF Sent
<1>. QED
  BY <1>1

\* When the only request is handled, none is left.
LEMMA NoneLeft ==
  ASSUME SessionTypes, requests # << >>, Len(requests) <= 1
  PROVE  Tail(requests) = << >>
<1>1. Tail(requests) \in Seq(Requests) /\ Len(Tail(requests)) = Len(requests) - 1
      /\ Len(requests) \in Nat \ {0}
  BY EmptySeq DEF SessionTypes
<1>. QED
  BY <1>1, EmptySeq

\* What is sent when nothing is on its way, and when.
LEMMA TickSends ==
  ASSUME IInv, IInv', SessionTypes, SessionTick, requests = << >>
  PROVE  /\ Len(requests') <= 1
         /\ Due(Closing)' => status' # "run"
         /\ Due({"PREPARE"})' => status' = "warmup" /\ previous' # "run"
         /\ Due({"START"})' => /\ Head(requests').uri = NextBag'
                               /\ previous # "run" /\ previous' = "run"
<1>1. CASE requests' = requests
  BY <1>1 DEF Due
<1>2. CASE requests' # requests
  <2>1. Looked
    BY <1>2, LookSends DEF SessionTick
  <2>2. PICK c, u :
          /\ Sent(Request(c, u))
          /\ c = "START" => /\ u = NextBag'
                            /\ previous # "run" /\ previous' = "run"
          /\ c \in Closing => status' # "run"
          /\ c = "PREPARE" => status' = "warmup" /\ previous' # "run"
    BY <1>2, <2>1 DEF Looked, Closing
  <2>3. /\ Len(requests') = 1 /\ Head(requests').command = c
        /\ Head(requests').uri = u
    BY <2>2, OneSent, RequestTypes
  <2>. QED
    BY <2>2, <2>3 DEF Due, Closing
<1>. QED
  BY <1>1, <1>2

\* A status seen to leave run is told to the recorder.
LEMMA TickCloses ==
  ASSUME IInv, IInv', SessionTypes, SessionTick, requests = << >>, recording,
         session' # "crashed", previous = "run", status' # "run",
         status' \notin {"warmup", "skip_task"}
  PROVE  /\ Due(Closing)'
         /\ status' \in {"save", "stop", "finish"} => Due({"STOP", "FINISH"})'
<1>1. Looked
  BY LookSends
<1>2. PICK c :
        /\ Sent(Request(c, NoUri)) /\ c \in Closing
        /\ status' \in {"save", "stop", "finish"} => c \in {"STOP", "FINISH"}
  <2>1. available
    BY DEF SessionTypes, NothingSent
  <2>. QED
    BY <1>1, <2>1 DEF Looked, Closing
<1>3. requests' # << >> /\ Head(requests').command = c
  BY <1>2, OneSent, RequestTypes
<1>. QED
  BY <1>2, <1>3 DEF Due

\* A tick starts the bag of the next episode, and stops it before the episode
\* is saved.
LEMMA TickBags ==
  ASSUME IInv, IInv', SessionTypes, SessionTypes', BagsFit, SessionTick
  PROVE  BagsFit'
<1>. SUFFICES ASSUME prompt', unskipped', alive' PROVE BagsFit'
  BY DEF BagsFit
<1>1. /\ prompt /\ unskipped /\ alive /\ requests = << >> /\ TickEffect
      /\ UNCHANGED <<recording, openBag, sessionNo, dataset, available>>
  BY TickDoes DEF SessionTick, History, OtherRecorderVars, SessionTypes
<1>2. /\ status # "skip_task" /\ status' # "skip_task"
      /\ recording => /\ openBag[1] <= sessionNo /\ Free(openBag)
                      /\ openBag \in Uris
      /\ Unsaved => status # "warmup"
      /\ Unsaved /\ recording => previous = "run"
  BY <1>1 DEF BagsFit, TickEffect, Due, SessionTypes
<1>3. Unsaved' => status' # "warmup"
  BY <1>1, <1>2 DEF TickEffect
<1>4. Unsaved' /\ recording /\ ~Due(Closing)' => previous' = "run"
  <2>. SUFFICES ASSUME Unsaved', recording, ~Due(Closing)'
                PROVE  previous' = "run"
    OBVIOUS
  <2>1. CASE session' = "crashed"
    BY <1>1, <1>2, <2>1 DEF SessionTick, TickEffect
  <2>2. CASE session' # "crashed" /\ status' = "run"
    <3>1. Looked /\ available
      BY <2>2, LookSends DEF SessionTypes, NothingSent
    <3>. QED
      BY <2>2, <3>1 DEF Looked, Unsaved
  <2>3. CASE session' # "crashed" /\ status' # "run"
    <3>1. previous = "run"
      BY <1>1, <1>2, <2>3 DEF TickEffect
    <3>. QED
      BY <1>1, <1>2, <1>3, <2>3, <3>1, TickCloses
  <2>. QED
    BY <2>1, <2>2, <2>3
<1>5. recording /\ ~Due({"STOP", "FINISH"})' => Free(openBag)'
  <2>. SUFFICES ASSUME recording, ~Due({"STOP", "FINISH"})'
                PROVE  Free(openBag)'
    OBVIOUS
  <2>1. Len(saved') = Len(saved)
    <3>. SUFFICES ASSUME Len(saved') # Len(saved) PROVE FALSE
      OBVIOUS
    <3>1. /\ Unsaved /\ session' # "crashed"
          /\ status' \in {"save", "stop", "finish"}
      <4>1. Len(episodes') # Len(episodes)
        BY TickSaves
      <4>. QED
        BY <1>1, <4>1 DEF TickEffect
    <3>. QED
      BY <1>1, <1>2, <3>1, TickCloses
  <2>. QED
    BY <1>1, <1>2, <2>1 DEF Free
<1>6. /\ Len(requests') <= 1
      /\ Due({"PREPARE"})' => previous' # "run"
      /\ Due({"START"})' => Head(requests').uri = NextBag' /\ previous' = "run"
  BY <1>1, TickSends
<1>7. NextBag'[1] <= sessionNo' /\ Free(NextBag)'
  BY DEF NextBag, Bag, Free, SessionTypes
<1>8. Due({"START"})' => Free(Head(requests).uri)'
  BY <1>6, <1>7 DEF Free
<1>. QED
  BY <1>1, <1>2, <1>3, <1>4, <1>5, <1>6, <1>7, <1>8 DEF BagsFit

\* What handling a request does to the recorder and the bags.
HandleEffect ==
  LET r == Head(requests)
  IN  /\ requests # << >> /\ requests' = Tail(requests)
      /\ r.command # "PREPARE" => alive' = alive
      /\ \/ /\ UNCHANGED <<recording, openBag, bags>>
            /\ \/ ~alive /\ alive' = alive
               \/ alive /\ r.command = "PREPARE"
                    /\ (alive' = alive \/ (TopicsMayVanish /\ ~recording))
               \/ alive /\ r.command = "START" /\ recording
         \/ /\ alive /\ r.command = "START" /\ ~recording
            /\ \/ recording' /\ openBag' = r.uri /\ bags' = WithNew(r.uri)
               \/ TopicsMayVanish /\ ~recording' /\ bags' = Without(r.uri)
         \/ /\ alive /\ r.command \in Closing /\ ~recording'
            /\ \/ bags' = bags /\ (recording => r.command # "STOP_AND_DELETE")
               \/ /\ r.command = "STOP_AND_DELETE" /\ recording
                  /\ bags' = Without(openBag)

\* Each handler has this effect.
LEMMA HandleDoes ==
  ASSUME SessionTypes, RecorderHandles
  PROVE  HandleEffect /\ UNCHANGED <<vars, serverVars>>
<1>. DEFINE r == Head(requests)
<1>1. Handle /\ UNCHANGED <<vars, serverVars>>
  BY DEF RecorderHandles
<1>2. recording \in BOOLEAN /\ alive \in BOOLEAN
  BY DEF SessionTypes
<1>3. requests # << >> /\ requests' = Tail(requests)
  BY <1>1 DEF Handle
<1>4. CASE ~alive
  BY <1>1, <1>3, <1>4 DEF Handle, Refuse, HandleEffect
<1>5. CASE alive /\ r.command = "PREPARE" /\ Prepare
  <2>1. /\ UNCHANGED <<recording, openBag, bags>>
        /\ alive' = alive \/ (TopicsMayVanish /\ ~recording)
    <3>1. CASE recording
      BY <1>5, <3>1 DEF Prepare, Refuse
    <3>2. CASE ~recording
      BY <1>5, <3>2 DEF Prepare, TopicsThere
    <3>. QED
      BY <3>1, <3>2
  <2>. QED
    BY <1>1, <1>3, <1>5, <2>1 DEF HandleEffect
<1>6. CASE alive /\ r.command = "START" /\ Start(r.uri)
  <2>1. CASE recording
    BY <1>1, <1>3, <1>6, <2>1 DEF Start, Refuse, HandleEffect
  <2>2. CASE ~recording
    <3>1. /\ alive' = alive
          /\ \/ recording' = TRUE /\ openBag' = r.uri /\ bags' = WithNew(r.uri)
             \/ /\ TopicsMayVanish /\ recording' = recording
                /\ bags' = Without(r.uri)
      BY <1>6, <2>2 DEF Start, TopicsThere
    <3>. QED
      BY <1>1, <1>3, <1>6, <2>2, <3>1 DEF HandleEffect
  <2>. QED
    BY <2>1, <2>2
<1>7. CASE alive /\ r.command = "STOP"
  BY <1>1, <1>2, <1>3, <1>7
  DEF Handle, StopRecording, CloseBag, Refuse, HandleEffect, Closing
<1>8. CASE alive /\ r.command = "STOP_AND_DELETE" /\ StopAndDelete
  BY <1>1, <1>2, <1>3, <1>8
  DEF StopAndDelete, CloseBag, Refuse, HandleEffect, Closing
<1>9. CASE alive /\ r.command = "FINISH" /\ FinishRecording
  BY <1>1, <1>2, <1>3, <1>9
  DEF FinishRecording, StopRecording, CloseBag, HandleEffect, Closing
<1>. QED
  BY <1>1, <1>4, <1>5, <1>6, <1>7, <1>8, <1>9 DEF Handle

\* Once its only request is handled the recorder is where that request put it.
LEMMA HandleBags ==
  ASSUME IInv, SessionTypes, SessionTypes', BagsFit, RecorderHandles
  PROVE  BagsFit'
<1>. SUFFICES ASSUME prompt', unskipped', alive' PROVE BagsFit'
  BY DEF BagsFit
<1>1. /\ HandleEffect
      /\ UNCHANGED <<status, previous, sessionNo, dataset, saved, prompt,
                     unskipped, buffer>>
  BY HandleDoes DEF vars, serverVars
<1>2. alive
  BY <1>1 DEF HandleEffect
<1>3. requests' = << >>
  BY <1>1, <1>2, NoneLeft DEF BagsFit, HandleEffect
<1>. QED
  BY <1>1, <1>2, <1>3
  DEF BagsFit, HandleEffect, Due, Free, Closing, SessionTypes, Unsaved

\* All steps keep the bags of saved episodes apart from the one written.
LEMMA SessionKeepsBags ==
  ASSUME IInv, IInv', SessionTypes, SessionTypes', BagsFit,
         [SessionNext]_sessionVars
  PROVE  BagsFit'
<1>1. CASE ServerStep
  <2>1. /\ Unsaved' => Unsaved
        /\ status' = "warmup" => status = "warmup"
        /\ unskipped' => unskipped
        /\ status' = "skip_task" => status = "skip_task" \/ ~unskipped'
        /\ UNCHANGED <<requests, recording, openBag, alive, previous,
                       sessionNo, dataset, saved, prompt>>
    BY <1>1, ServerStepDoes DEF SessionTypes, recorderVars
  <2>. QED
    BY <2>1 DEF BagsFit, Due, Free
<1>2. CASE StartRecord
  <2>1. /\ sessionNo' = sessionNo + 1 /\ sessionNo \in Nat
        /\ \/ dataset' = sessionNo'
           \/ dataset' = dataset /\ (saved' = saved \/ Len(saved') = 0)
        /\ status' = "warmup" /\ ~Unsaved'
        /\ UNCHANGED <<requests, recording, openBag, alive, previous, prompt,
                       unskipped>>
    BY <1>2, EmptySeq
    DEF StartRecord, OfDataset, Unsaved, NoBuffer, recorderVars, SessionTypes
  <2>2. /\ recording => openBag \in Uris
        /\ Due({"START"}) => Head(requests).uri \in Uris
    BY DEF SessionTypes, Due, Requests
  <2>3. ASSUME NEW uri \in Uris, Free(uri), uri[1] <= sessionNo
        PROVE  Free(uri)' /\ uri[1] <= sessionNo'
    BY <2>1, <2>3 DEF Free, Uris
  <2>4. Due({"START"}) /\ Free(Head(requests).uri)
          /\ Head(requests).uri[1] <= sessionNo
          => Free(Head(requests).uri)' /\ Head(requests).uri[1] <= sessionNo'
    BY <2>1, <2>2, <2>3 DEF Free
  <2>5. /\ recording /\ openBag[1] <= sessionNo => openBag[1] <= sessionNo'
        /\ recording /\ Free(openBag) /\ openBag[1] <= sessionNo => Free(openBag)'
    BY <2>1, <2>2, <2>3 DEF Free, Uris
  <2>6. \A C : Due(C)' <=> Due(C)
    BY <2>1 DEF Due
  <2>. QED
    BY <2>1, <2>4, <2>5, <2>6 DEF BagsFit
<1>3. CASE UNCHANGED <<status, buffer, requests, recording, openBag, alive,
                       previous, sessionNo, dataset, saved, prompt, unskipped>>
  BY <1>3 DEF BagsFit, Due, Free, Unsaved
<1>4. Message \/ SessionOver \/ UNCHANGED sessionVars
        => UNCHANGED <<status, buffer, requests, recording, openBag, alive,
                       previous, sessionNo, dataset, saved, prompt, unskipped>>
  BY DEF Message, Write, SessionOver, Over, sessionVars, vars, recorderVars,
         serverVars
<1>. QED
  BY <1>1, <1>2, <1>3, <1>4, TickBags, HandleBags DEF SessionNext, ServerStep

BagsInv == SessionTypes /\ BagsFit

\* For every reachable state.
LEMMA BagsInvariance == SessionSpec => [](IInv /\ BagsInv)
<1>1. SessionInit => BagsInv
  <2>. SUFFICES ASSUME SessionInit PROVE SessionTypes /\ BagsFit
    BY DEF BagsInv
  <2>1. /\ requests = << >> /\ bags = << >> /\ saved = << >>
        /\ episodes = << >> /\ buffer.state = "none" /\ status = "warmup"
        /\ recording = FALSE /\ alive = TRUE /\ prompt = TRUE /\ unskipped = TRUE
        /\ sessionNo = 1 /\ dataset = 1 /\ take = 0 /\ earlier = 0
        /\ previous = "none" /\ unbroken = TRUE /\ ~Unsaved
    BY DEF SessionInit, RecorderInit, Init, NoBuffer, Unsaved
  <2>2. SessionTypes
    <3>1. << >> \in Seq(Requests) /\ << >> \in Seq(Nat) /\ DOMAIN << >> = {}
      BY EmptySeq
    <3>2. Len(saved) >= Len(episodes)
      BY <2>1, EmptySeq
    <3>3. /\ sessionNo \in Nat /\ dataset \in Nat /\ dataset <= sessionNo
          /\ take \in Nat /\ earlier \in Nat
          /\ previous \in Statuses \cup {"none"}
      BY <2>1
    <3>5. /\ prompt \in BOOLEAN /\ unskipped \in BOOLEAN /\ unbroken \in BOOLEAN
          /\ recording \in BOOLEAN /\ alive \in BOOLEAN /\ ~recording
      BY <2>1, Zenon
    <3>6. NothingSent /\ OpenedFirst
      BY <2>1, <3>5 DEF OpenedFirst, NothingSent
    <3>4. DOMAIN bags = {} /\ requests \in Seq(Requests) /\ saved \in Seq(Nat)
      BY <2>1, <3>1
    <3>. QED
      BY <3>2, <3>3, <3>4, <3>5, <3>6 DEF SessionTypes
  <2>3. BagsFit
    BY <2>1, EmptySeq DEF BagsFit, Due
  <2>. QED
    BY <2>2, <2>3
<1>2. IInv /\ IInv' /\ BagsInv /\ [SessionNext]_sessionVars => BagsInv'
  BY SessionKeepsTypes, SessionKeepsBags DEF BagsInv
<1>. QED
  BY <1>1, <1>2, SessionInvariance, PTL DEF SessionSpec

\* Whatever is commanded but a skip, and whatever fails: while the recorder
\* keeps up with its requests, no later take, retry or session on the dataset
\* deletes the bag of a saved episode or starts it anew.
THEOREM SavedBagsKeptAlways == SessionSpec => SavedBagsKept
<1>. DEFINE Kept == \A i \in DOMAIN saved :
                      Bag(i - 1) \in DOMAIN bags =>
                        /\ Bag(i - 1) \in DOMAIN bags'
                        /\ bags[Bag(i - 1)] \subseteq bags'[Bag(i - 1)]
<1>1. ASSUME IInv, BagsInv, prompt, unskipped, [SessionNext]_sessionVars
      PROVE  Kept
  <2>1. CASE UNCHANGED bags
    BY <2>1
  <2>2. CASE RecorderHandles
    <3>1. CASE ~alive
      BY <1>1, <2>2, <3>1, HandleDoes DEF BagsInv, HandleEffect
    <3>2. SUFFICES ASSUME NEW i \in DOMAIN saved, alive,
                          Bag(i - 1) \in DOMAIN bags
                   PROVE  /\ Bag(i - 1) \in DOMAIN bags'
                          /\ bags[Bag(i - 1)] = bags'[Bag(i - 1)]
      BY <3>1
    <3>3. i \in Nat /\ i - 1 < Len(saved) /\ Len(saved) \in Nat
      BY <1>1 DEF BagsInv, SessionTypes
    <3>4. \A uri \in Uris : Free(uri) => uri # Bag(i - 1)
      BY <3>3 DEF Free, Bag, Uris
    <3>5. HandleEffect /\ BagsFit /\ SessionTypes
      BY <1>1, <2>2, HandleDoes DEF BagsInv
    <3>6. CASE Due({"START"}) /\ ~recording
      <4>1. Head(requests).uri # Bag(i - 1)
        BY <1>1, <3>2, <3>4, <3>5, <3>6 DEF BagsFit, Due, SessionTypes, Requests
      <4>. QED
        BY <3>2, <3>5, <3>6, <4>1 DEF HandleEffect, Due, WithNew, Without, Closing
    <3>7. CASE Due({"STOP_AND_DELETE"}) /\ recording
      <4>1. openBag # Bag(i - 1)
        BY <1>1, <3>2, <3>4, <3>5, <3>7 DEF BagsFit, Due, SessionTypes
      <4>. QED
        BY <3>2, <3>5, <3>7, <4>1 DEF HandleEffect, Due, Without
    <3>. QED
      BY <3>2, <3>5, <3>6, <3>7 DEF HandleEffect, Due, Closing
  <2>3. CASE Message
    BY <1>1, <2>3 DEF Message, Write, Bag, serverVars
  <2>4. SessionTick \/ ServerStep \/ StartRecord \/ SessionOver
          \/ UNCHANGED sessionVars => UNCHANGED bags
    BY <1>1, ServerStepDoes
    DEF SessionTick, OtherRecorderVars, ServerStep, Operator, SessionAbort,
        SessionEncoder, StartRecord, SessionOver, sessionVars, recorderVars
  <2>. QED
    BY <1>1, <2>1, <2>2, <2>3, <2>4 DEF SessionNext, ServerStep
<1>2. IInv /\ BagsInv /\ [SessionNext]_sessionVars
        => (prompt /\ unskipped => Kept)
  BY <1>1
<1>. QED
  BY <1>2, BagsInvariance, PTL DEF SessionSpec, SavedBagsKept

----------------------------------------------------------------------------
(* The takes in the bags, while the recorder keeps up.                     *)

\* What the bags hold is of earlier sessions.
NothingYet == \A u \in DOMAIN bags : \A t \in bags[u] : t <= earlier

\* The bag of the take at hand, or of the next one, holds messages of this
\* session already.
Dirty == NextBag \in DOMAIN bags /\ \E t \in bags[NextBag] : t > earlier

\* It is about to be started anew.
Restarts == Due({"START"}) /\ Head(requests).uri = NextBag

\* What the next bag holds is of the take at hand, or will go before anything
\* of it is saved. A recorder that was left recording by an earlier session, or
\* died in one, wrote nothing in this one.
TakesFit == prompt /\ unskipped =>
  /\ Len(requests) <= 1
  /\ Due(Closing) => status # "run"
  /\ Due({"START"}) /\ ~Restarts => NothingYet /\ status # "run"
  /\ ~alive \/ status = "warmup" \/ Due({"PREPARE"}) => NothingYet
  /\ alive /\ recording /\ previous # "run" /\ ~Due(Closing) => NothingYet
  /\ alive /\ recording /\ Due({"START"}) =>
       \A u \in DOMAIN bags : \A t \in bags[u] :
         t <= earlier \/ (t = take /\ (Unsaved \/ status # "run"))
  /\ Dirty =>
       /\ Unsaved
            => Restarts \/ \A t \in bags[NextBag] : t <= earlier \/ t = take
       /\ ~Unsaved /\ status = "run" => previous # "run" \/ Restarts
       /\ status = "reset" /\ timing => previous # "run"

TakesInv == TakesFit /\ OneTakePerBag

\* The bag of a saved episode is not the next.
LEMMA SavedBags ==
  ASSUME SessionTypes, NEW i \in DOMAIN saved
  PROVE  /\ i \in 1 .. Len(saved) /\ Len(saved) \in Nat
         /\ Bag(i - 1) # NextBag
         /\ Bag(i - 1)[1] = dataset /\ Bag(i - 1)[2] = i - 1
<1>1. i \in 1 .. Len(saved) /\ Len(saved) \in Nat
  BY DEF SessionTypes
<1>. QED
  BY <1>1 DEF Bag, NextBag

\* While nothing was recorded in the session the next bag is not dirty.
LEMMA NoneYet ==
  ASSUME SessionTypes, NothingYet PROVE ~Dirty
<1>1. \A u \in DOMAIN bags : \A t \in bags[u] :
         t \in Nat /\ earlier \in Nat /\ t <= earlier
  BY DEF NothingYet, SessionTypes
<1>2. \A t : t \in Nat /\ earlier \in Nat /\ t <= earlier => ~(t > earlier)
  OBVIOUS
<1>. QED
  BY <1>1, <1>2 DEF Dirty

\* What is not later than the session's begin is earlier.
LEMMA NotDirty ==
  ASSUME SessionTypes, ~Dirty, NextBag \in DOMAIN bags
  PROVE  \A t \in bags[NextBag] : t <= earlier
<1>1. \A t \in bags[NextBag] : t \in Nat /\ earlier \in Nat /\ ~(t > earlier)
  BY DEF Dirty, SessionTypes
<1>2. \A t : t \in Nat /\ earlier \in Nat /\ ~(t > earlier) => t <= earlier
  OBVIOUS
<1>. QED
  BY <1>1, <1>2

\* A tick saves the take that the next bag holds; it begins a take only when
\* that bag is empty or about to be started anew.
LEMMA TickTakes ==
  ASSUME IInv, IInv', SessionTypes, SessionTypes', BagsFit, TakesInv,
         ~ZeroTimes, SessionTick
  PROVE  TakesInv'
<1>. SUFFICES ASSUME prompt', unskipped' PROVE TakesInv'
  BY DEF TakesInv, TakesFit, OneTakePerBag
<1>1. /\ prompt /\ unskipped /\ requests = << >> /\ TickEffect
      /\ UNCHANGED <<recording, openBag, bags, alive, earlier, dataset>>
      /\ take' = IF Unsaved' /\ ~Unsaved THEN take + 1 ELSE take
  BY TickDoes DEF SessionTick, History, OtherRecorderVars, SessionTypes
<1>2. ~Due({"START"}) /\ ~Due(Closing) /\ ~Restarts /\ TakesFit
  BY <1>1 DEF Due, Restarts, TakesInv
<1>3. \A i : Bag(i)' = Bag(i)
  BY <1>1 DEF Bag
<1>4. NothingYet' <=> NothingYet
  BY <1>1 DEF NothingYet
<1>5. Dirty => /\ alive /\ status # "warmup" /\ status # "skip_task"
               /\ recording => previous = "run"
  <2>1. Dirty => ~NothingYet
    BY NoneYet
  <2>2. alive => status # "skip_task"
    BY <1>1 DEF BagsFit
  <2>. QED
    BY <1>1, <1>2, <2>1, <2>2 DEF TakesFit
<1>6. \/ session' = "crashed" /\ UNCHANGED <<requests, previous>>
      \/ session' # "crashed" /\ Looked
  BY LookSends DEF SessionTick
<1>7. /\ Len(requests') <= 1
      /\ Due(Closing)' => status' # "run"
      /\ Due({"PREPARE"})' => status' = "warmup"
      /\ Due({"START"})' => Restarts' /\ previous # "run"
  BY <1>1, TickSends DEF Restarts
<1>8. CASE saved' # saved
  <2>1. /\ saved' = Append(saved, take) /\ Len(saved') = Len(saved) + 1
        /\ Len(episodes') = Len(episodes) + 1 /\ Len(episodes) \in Nat
        /\ Len(saved) \in Nat /\ saved \in Seq(Nat) /\ take \in Nat
    BY <1>8, TickSaves DEF SessionTypes
  <2>2. /\ Unsaved /\ ~Unsaved' /\ status \in {"save", "stop", "finish"}
        /\ status' = status /\ session' # "crashed"
    <3>1. Len(episodes') # Len(episodes)
      BY <2>1
    <3>. QED
      BY <1>1, <3>1 DEF TickEffect
  <2>3. recording => previous = "run" \/ NothingYet
    BY <1>1, <1>2, <2>2 DEF TakesFit, BagsFit
  <2>4. TakesFit'
    <3>1. ~Due({"START"})'
      BY <1>6, <1>7, <2>2, <1>1, LookSends, OneSent, RequestTypes
      DEF Looked, Due
    <3>2. ~Due({"PREPARE"})' /\ ~Restarts'
      BY <1>7, <2>2, <3>1 DEF Restarts
    <3>3. ~alive => NothingYet
      BY <1>2, <1>1 DEF TakesFit
    <3>4. alive' /\ recording' /\ ~Due(Closing)' => NothingYet
      <4>1. previous = "run" /\ alive /\ recording => Due(Closing)'
        BY <1>1, <2>2, TickCloses
      <4>. QED
        BY <1>1, <2>3, <4>1
    <3>. QED
      BY <1>1, <1>4, <1>7, <2>2, <3>1, <3>2, <3>3, <3>4 DEF TakesFit
  <2>5. OneTakePerBag'
    <3>. SUFFICES ASSUME NEW i \in DOMAIN saved', Bag(i - 1) \in DOMAIN bags,
                         NEW t \in bags[Bag(i - 1)]
                  PROVE  t = saved'[i] \/ t <= earlier
      BY <1>1, <1>3 DEF OneTakePerBag
    <3>1. CASE i \in DOMAIN saved
      <4>1. saved'[i] = saved[i]
        BY <2>1, <3>1
      <4>. QED
        BY <1>1, <3>1, <4>1 DEF TakesInv, OneTakePerBag
    <3>2. CASE i \notin DOMAIN saved
      <4>1. i = Len(saved) + 1 /\ saved'[i] = take
        BY <2>1, <3>2
      <4>2. Bag(i - 1) = NextBag
        BY <2>1, <4>1 DEF NextBag
      <4>3. CASE Dirty
        BY <1>1, <1>2, <2>2, <4>1, <4>2, <4>3 DEF TakesFit
      <4>4. CASE ~Dirty
        BY <4>2, <4>4, NotDirty
      <4>. QED
        BY <4>3, <4>4
    <3>. QED
      BY <3>1, <3>2
  <2>. QED
    BY <2>4, <2>5 DEF TakesInv
<1>9. CASE saved' = saved
  <2>1. NextBag' = NextBag /\ (Dirty' <=> Dirty)
    BY <1>1, <1>9 DEF Dirty, NextBag, Bag
  <2>2. previous # "run" /\ status' = "run" /\ session' # "crashed"
          => Restarts' \/ (previous' = previous /\ buffer'.state = "none")
             \/ ~available
    <3>. SUFFICES ASSUME previous # "run", status' = "run", Looked, available,
                         buffer'.state # "none"
                  PROVE  Restarts'
      BY <1>6 DEF Looked
    <3>1. Sent(Request("START", NextBag'))
      BY DEF Looked
    <3>. QED
      BY <1>1, <3>1, OneSent, RequestTypes DEF Restarts, Due
  <2>3. Dirty => /\ available
                 /\ Unsaved => \A t \in bags[NextBag] : t <= earlier \/ t = take
                 /\ ~Unsaved /\ status = "run" => previous # "run"
                 /\ status = "reset" /\ timing => previous # "run"
    BY <1>1, <1>2 DEF TakesFit, SessionTypes, NothingSent, Dirty
  <2>4. ASSUME Dirty, Unsaved'
        PROVE  Restarts' \/ \A t \in bags'[NextBag'] : t <= earlier' \/ t = take'
    <3>1. CASE Unsaved
      BY <1>1, <2>1, <2>3, <2>4, <3>1
    <3>2. CASE ~Unsaved
      <4>1. status = "run" /\ status' = "run" /\ session' # "crashed"
        BY <1>1, <2>4, <3>2 DEF TickEffect
      <4>2. buffer'.state # "none"
        BY <2>4 DEF Unsaved
      <4>3. previous # "run" /\ available
        BY <2>3, <2>4, <3>2, <4>1
      <4>4. Looked
        BY <1>6, <4>1
      <4>5. Sent(Request("START", NextBag'))
        BY <4>1, <4>2, <4>3, <4>4 DEF Looked
      <4>. QED
        BY <1>1, <4>5, OneSent, RequestTypes DEF Restarts, Due
    <3>. QED
      BY <3>1, <3>2
  <2>5. Dirty /\ ~Unsaved' /\ status' = "run" => previous' # "run" \/ Restarts'
    <3>. SUFFICES ASSUME Dirty, ~Unsaved', status' = "run", previous' = "run"
                  PROVE  Restarts'
      OBVIOUS
    <3>1. \/ status = "run" /\ ~Unsaved
          \/ status \in {"reset", "skip_task", "warmup"} /\ timing
      BY <1>1 DEF TickEffect
    <3>2. previous # "run"
      BY <1>5, <2>3, <3>1
    <3>. QED
      BY <1>6, <2>2, <2>3, <3>2
  <2>6. status' = "reset" /\ session' # "crashed" => previous' # "run" \/ ~Dirty
    BY <1>6, <2>3 DEF Looked
  <2>7. session' = "crashed" => status' # "reset"
    BY <1>1 DEF TickEffect
  <2>8. ~alive' \/ status' = "warmup" \/ Due({"PREPARE"})' => NothingYet
    BY <1>1, <1>2, <1>7 DEF TakesFit, TickEffect
  <2>9. alive /\ recording /\ previous' # "run" /\ ~Due(Closing)' => NothingYet
    <3>. SUFFICES ASSUME alive, recording, previous' # "run", ~Due(Closing)',
                         previous = "run", status # "warmup"
                  PROVE  FALSE
      BY <1>1, <1>2 DEF TakesFit
    <3>1. session' # "crashed" /\ Looked /\ previous' = status'
      BY <1>6 DEF Looked
    <3>2. status' \notin {"run", "warmup", "skip_task"}
      BY <1>1, <3>1 DEF TickEffect, BagsFit
    <3>. QED
      BY <1>1, <3>1, <3>2, TickCloses
  <2>10. alive /\ recording /\ Due({"START"})' => NothingYet
    BY <1>1, <1>2, <1>7 DEF TakesFit
  <2>11. TakesFit'
    BY <1>1, <1>4, <1>7, <2>1, <2>4, <2>5, <2>6, <2>7, <2>8, <2>9, <2>10
    DEF TakesFit, NothingYet
  <2>12. OneTakePerBag'
    BY <1>1, <1>3, <1>9 DEF TakesInv, OneTakePerBag
  <2>. QED
    BY <2>11, <2>12 DEF TakesInv
<1>. QED
  BY <1>8, <1>9

\* Handling a request empties the next bag, closes one, or comes before
\* anything was recorded in the session.
LEMMA HandleTakes ==
  ASSUME IInv, IInv', SessionTypes, SessionTypes', BagsFit, TakesInv,
         RecorderHandles
  PROVE  TakesInv'
<1>. SUFFICES ASSUME prompt', unskipped' PROVE TakesInv'
  BY DEF TakesInv, TakesFit, OneTakePerBag
<1>1. HandleEffect /\ UNCHANGED <<vars, serverVars>>
  BY HandleDoes
<1>2. /\ prompt /\ unskipped
      /\ UNCHANGED <<status, timing, buffer, episodes, previous, dataset,
                     take, earlier, saved>>
      /\ (Unsaved' <=> Unsaved) /\ NextBag' = NextBag
      /\ \A i : Bag(i)' = Bag(i)
  BY <1>1 DEF vars, serverVars, Unsaved, NextBag, Bag
<1>3. TakesFit /\ requests # << >> /\ requests' = << >>
  BY <1>1, <1>2, NoneLeft DEF TakesInv, TakesFit, HandleEffect
<1>4. Len(requests') = 0 /\ ~Restarts' /\ \A C : ~Due(C)'
  BY <1>3, EmptySeq DEF Restarts, Due
<1>5. ASSUME \A u \in DOMAIN bags' : u # NextBag \/ bags'[u] # {} =>
               u \in DOMAIN bags /\ bags'[u] = bags[u]
      PROVE  OneTakePerBag' /\ (NothingYet => NothingYet')
             /\ (Dirty' => Dirty /\ bags'[NextBag] = bags[NextBag])
  <2>1. OneTakePerBag'
    <3>. SUFFICES ASSUME NEW i \in DOMAIN saved, Bag(i - 1) \in DOMAIN bags',
                         NEW t \in bags'[Bag(i - 1)]
                  PROVE  t = saved[i] \/ t <= earlier
      BY <1>2 DEF OneTakePerBag
    <3>1. Bag(i - 1) \in DOMAIN bags /\ t \in bags[Bag(i - 1)]
      BY <1>5
    <3>. QED
      BY <1>2, <3>1 DEF TakesInv, OneTakePerBag
  <2>2. NothingYet => NothingYet'
    BY <1>2, <1>5 DEF NothingYet
  <2>3. Dirty' => Dirty /\ bags'[NextBag] = bags[NextBag]
    BY <1>2, <1>5 DEF Dirty
  <2>. QED
    BY <2>1, <2>2, <2>3
<1>6. ASSUME NothingYet', OneTakePerBag'
      PROVE  TakesInv'
  <2>1. ~Dirty'
    BY <1>6, NoneYet, PTL
  <2>2. TakesFit'
    BY <1>4, <1>6, <2>1 DEF TakesFit
  <2>. QED
    BY <1>6, <2>2 DEF TakesInv
<1>7. CASE UNCHANGED bags
           /\ (~alive \/ Due({"PREPARE"}) \/ (Due({"START"}) /\ recording))
  <2>1. OneTakePerBag' /\ (NothingYet => NothingYet')
    BY <1>5, <1>7
  <2>2. CASE ~alive \/ Due({"PREPARE"})
    BY <1>2, <1>3, <1>6, <2>1, <2>2 DEF TakesFit
  <2>3. CASE alive /\ Due({"START"}) /\ recording
    <3>1. /\ \A u \in DOMAIN bags : \A t \in bags[u] :
               t <= earlier \/ (t = take /\ (Unsaved \/ status # "run"))
          /\ previous = "run"
      BY <1>2, <1>3, <2>3 DEF TakesFit, BagsFit
    <3>2. Unsaved' /\ NextBag \in DOMAIN bags' =>
            \A t \in bags'[NextBag] : t <= earlier' \/ t = take'
      BY <1>2, <1>7, <3>1
    <3>3. ~Unsaved' /\ status' = "run" => ~Dirty'
      <4>. SUFFICES ASSUME ~Unsaved, status = "run" PROVE ~Dirty'
        BY <1>2
      <4>1. NothingYet
        BY <3>1 DEF NothingYet
      <4>. QED
        BY <2>1, <4>1, NoneYet, PTL
    <3>4. status = "reset" => ~(status = "run")
      OBVIOUS
    <3>5. Dirty' => Dirty
      BY <1>5, <1>7
    <3>6. status' = "reset" /\ timing' /\ Dirty' => previous' # "run"
      BY <1>2, <1>3, <3>5 DEF TakesFit
    <3>7. (alive' /\ previous' = "run" /\ status' # "warmup") \/ NothingYet'
      BY <1>1, <1>2, <1>3, <2>1, <2>3, <3>1 DEF TakesFit, HandleEffect, Due
    <3>8. TakesFit'
      BY <1>2, <1>4, <2>1, <3>2, <3>3, <3>6, <3>7 DEF TakesFit, Dirty
    <3>. QED
      BY <2>1, <3>8 DEF TakesInv
  <2>. QED
    BY <1>7, <2>2, <2>3
<1>8. CASE /\ Due({"START"}) /\ ~recording /\ alive' = alive /\ alive
           /\ \/ /\ recording' /\ openBag' = Head(requests).uri
                 /\ bags' = WithNew(Head(requests).uri)
              \/ ~recording' /\ bags' = Without(Head(requests).uri)
  <2>. DEFINE u == Head(requests).uri
  <2>1. /\ \A x \in DOMAIN bags' : x # u => x \in DOMAIN bags /\ bags'[x] = bags[x]
        /\ u \in DOMAIN bags' => bags'[u] = {}
        /\ previous = "run"
    BY <1>2, <1>8 DEF WithNew, Without, BagsFit
  <2>. HIDE DEF u
  <2>2. \A x \in DOMAIN bags' : x # u \/ bags'[x] # {} =>
          x \in DOMAIN bags /\ bags'[x] = bags[x]
    BY <2>1
  <2>3. OneTakePerBag' /\ (NothingYet => NothingYet')
    <3>1. OneTakePerBag'
      <4>. SUFFICES ASSUME NEW i \in DOMAIN saved, Bag(i - 1) \in DOMAIN bags',
                           NEW t \in bags'[Bag(i - 1)]
                    PROVE  t = saved[i] \/ t <= earlier
        BY <1>2 DEF OneTakePerBag
      <4>1. Bag(i - 1) \in DOMAIN bags /\ t \in bags[Bag(i - 1)]
        BY <2>2
      <4>. QED
        BY <1>2, <4>1 DEF TakesInv, OneTakePerBag
    <3>2. NothingYet => NothingYet'
      BY <1>2, <2>2 DEF NothingYet
    <3>. QED
      BY <3>1, <3>2
  <2>4. CASE ~Restarts
    BY <1>2, <1>3, <1>6, <1>8, <2>3, <2>4 DEF TakesFit
  <2>5. CASE Restarts
    <3>1. ~Dirty'
      BY <1>2, <2>1, <2>5 DEF Dirty, Restarts, u
    <3>2. status' = "warmup" => NothingYet'
      BY <1>2, <1>3, <2>3 DEF TakesFit
    <3>3. TakesFit'
      BY <1>2, <1>4, <1>8, <2>1, <3>1, <3>2 DEF TakesFit
    <3>. QED
      BY <2>3, <3>3 DEF TakesInv
  <2>. QED
    BY <2>4, <2>5
<1>9. CASE /\ Due(Closing) /\ ~recording' /\ alive /\ alive' = alive
           /\ bags' = bags \/ bags' = Without(openBag)
  <2>1. \A u \in DOMAIN bags' : u \in DOMAIN bags /\ bags'[u] = bags[u]
    BY <1>9 DEF Without
  <2>2. /\ OneTakePerBag' /\ (NothingYet => NothingYet')
        /\ Dirty' => Dirty /\ bags'[NextBag] = bags[NextBag]
    BY <1>5, <2>1
  <2>3. status # "run" /\ ~Restarts
    BY <1>2, <1>3, <1>9 DEF TakesFit, Restarts, Due, Closing
  <2>4. TakesFit'
    BY <1>2, <1>3, <1>4, <1>9, <2>2, <2>3 DEF TakesFit
  <2>. QED
    BY <2>2, <2>4 DEF TakesInv
<1>. QED
  BY <1>1, <1>7, <1>8, <1>9 DEF HandleEffect, Due

\* A message of the take at hand is written to the next bag, or to one that an
\* earlier session left open.
LEMMA MessageTakes ==
  ASSUME IInv, IInv', SessionTypes, SessionTypes', BagsFit, TakesInv, Message
  PROVE  TakesInv'
<1>. SUFFICES ASSUME prompt', unskipped' PROVE TakesInv'
  BY DEF TakesInv, TakesFit, OneTakePerBag
<1>1. /\ prompt /\ unskipped /\ alive /\ recording
      /\ status = "run" /\ Unsaved
      /\ bags' = [bags EXCEPT ![openBag] = bags[openBag] \cup {take}]
      /\ UNCHANGED <<status, timing, previous, dataset, take, earlier, saved,
                     requests, recording, openBag, alive>>
      /\ (Unsaved' <=> Unsaved)
      /\ NextBag' = NextBag /\ \A i : Bag(i)' = Bag(i)
  BY DEF Message, Write, vars, serverVars, Unsaved, NextBag, Bag
<1>2. TakesFit
  BY DEF TakesInv
<1>3. /\ DOMAIN bags' = DOMAIN bags
      /\ \A u \in DOMAIN bags : u # openBag => bags'[u] = bags[u]
      /\ openBag \in DOMAIN bags => bags'[openBag] = bags[openBag] \cup {take}
      /\ (Restarts' <=> Restarts) /\ \A C : Due(C)' <=> Due(C)
  BY <1>1 DEF Restarts, Due
<1>4. ~Due(Closing)
  BY <1>1, <1>2 DEF TakesFit
<1>5. /\ previous = "run" /\ ~Due({"PREPARE"}) /\ (Due({"START"}) => Restarts)
      /\ Free(openBag)
  <2>1. previous = "run"
    BY <1>1, <1>4 DEF BagsFit
  <2>2. ~Due({"PREPARE"}) /\ Free(openBag)
    BY <1>1, <1>4, <2>1 DEF BagsFit, Due, Closing
  <2>. QED
    BY <1>1, <1>2, <2>1, <2>2 DEF TakesFit
<1>6. OneTakePerBag'
  <2>. SUFFICES ASSUME NEW i \in DOMAIN saved, Bag(i - 1) \in DOMAIN bags',
                       NEW t \in bags'[Bag(i - 1)]
                PROVE  t = saved[i] \/ t <= earlier
    BY <1>1 DEF OneTakePerBag
  <2>1. Bag(i - 1) # openBag
    <3>1. i \in 1 .. Len(saved) /\ Len(saved) \in Nat
          /\ Bag(i - 1)[1] = dataset /\ Bag(i - 1)[2] = i - 1
      BY SavedBags
    <3>2. ~(i - 1 >= Len(saved))
      BY <3>1
    <3>. QED
      BY <1>5, <3>1, <3>2 DEF Free
  <2>2. bags'[Bag(i - 1)] = bags[Bag(i - 1)] /\ Bag(i - 1) \in DOMAIN bags
    BY <1>3, <2>1
  <2>. QED
    BY <1>1, <2>2 DEF TakesInv, OneTakePerBag
<1>7. Due({"START"}) => \A u \in DOMAIN bags' : \A t \in bags'[u] :
                          t <= earlier \/ t = take
  BY <1>1, <1>2, <1>3 DEF TakesFit
<1>8. Dirty' => Restarts \/ \A t \in bags'[NextBag] : t <= earlier \/ t = take
  <2>. SUFFICES ASSUME NextBag \in DOMAIN bags, ~Restarts
                PROVE  \A t \in bags'[NextBag] : t <= earlier \/ t = take
    BY <1>1, <1>3 DEF Dirty
  <2>1. \A t \in bags[NextBag] : t <= earlier \/ t = take
    BY <1>1, <1>2, NotDirty DEF TakesFit
  <2>. QED
    BY <1>3, <2>1
<1>9. TakesFit'
  BY <1>1, <1>2, <1>3, <1>5, <1>7, <1>8 DEF TakesFit
<1>. QED
  BY <1>6, <1>9 DEF TakesInv

\* All steps keep one take to a bag.
LEMMA SessionKeepsTakes ==
  ASSUME IInv, IInv', SessionTypes, SessionTypes', BagsFit, TakesInv,
         ~ZeroTimes, [SessionNext]_sessionVars
  PROVE  TakesInv'
<1>1. CASE ServerStep
  <2>. SUFFICES ASSUME prompt', unskipped' PROVE TakesInv'
    BY DEF TakesInv, TakesFit, OneTakePerBag
  <2>1. /\ Unsaved' => Unsaved
        /\ status' \in {"warmup", "run"} => status' = status
        /\ status' = "run" => (Unsaved' <=> Unsaved)
        /\ status' = "reset" /\ timing' => status = "reset" /\ timing
        /\ unskipped
        /\ UNCHANGED <<recorderVars, previous, dataset, take, earlier, saved,
                       prompt>>
    BY <1>1, ServerStepDoes DEF SessionTypes
  <2>2. /\ UNCHANGED <<requests, recording, openBag, bags, alive>>
        /\ NextBag' = NextBag /\ \A i : Bag(i)' = Bag(i)
    BY <2>1 DEF recorderVars, NextBag, Bag
  <2>3. OneTakePerBag'
    BY <2>1, <2>2 DEF TakesInv, OneTakePerBag
  <2>4. /\ (Dirty' <=> Dirty) /\ (NothingYet' <=> NothingYet)
        /\ (Restarts' <=> Restarts) /\ \A C : Due(C)' <=> Due(C)
    BY <2>1, <2>2 DEF Dirty, NothingYet, Restarts, Due
  <2>5. TakesFit'
    BY <2>1, <2>2, <2>4 DEF TakesInv, TakesFit
  <2>. QED
    BY <2>3, <2>5 DEF TakesInv
<1>2. CASE StartRecord
  <2>. SUFFICES ASSUME prompt', unskipped' PROVE TakesInv'
    BY DEF TakesInv, TakesFit, OneTakePerBag
  <2>1. /\ status' = "warmup" /\ prompt /\ unskipped /\ earlier' = take
        /\ UNCHANGED <<requests, recording, openBag, alive, bags, take>>
    BY <1>2 DEF StartRecord, recorderVars
  <2>2. NothingYet'
    BY <2>1 DEF NothingYet, SessionTypes
  <2>3. ~Dirty'
    BY <2>2, NoneYet, PTL
  <2>4. /\ Len(requests') <= 1 /\ \A C : Due(C)' <=> Due(C)
    BY <2>1 DEF TakesInv, TakesFit, Due
  <2>5. alive' /\ recording' /\ Due({"START"})' =>
          \A u \in DOMAIN bags' : \A t \in bags'[u] : t <= earlier'
    BY <2>2 DEF NothingYet
  <2>6. TakesFit'
    BY <2>1, <2>2, <2>3, <2>4, <2>5 DEF TakesFit
  <2>7. OneTakePerBag'
    BY <2>2 DEF OneTakePerBag, NothingYet
  <2>. QED
    BY <2>6, <2>7 DEF TakesInv
<1>3. CASE SessionOver \/ UNCHANGED sessionVars
  <2>1. UNCHANGED <<vars, recorderVars, serverVars>>
    BY <1>3 DEF SessionOver, Over, sessionVars
  <2>2. /\ UNCHANGED <<status, timing, requests, recording, bags, alive,
                       previous, take, earlier, saved, prompt, unskipped>>
        /\ (Unsaved' <=> Unsaved) /\ NextBag' = NextBag
        /\ \A i : Bag(i)' = Bag(i)
    BY <2>1 DEF vars, recorderVars, serverVars, Unsaved, NextBag, Bag
  <2>3. /\ (Dirty' <=> Dirty) /\ (NothingYet' <=> NothingYet)
        /\ (Restarts' <=> Restarts) /\ \A C : Due(C)' <=> Due(C)
    BY <2>2 DEF Dirty, NothingYet, Restarts, Due
  <2>4. TakesFit'
    BY <2>2, <2>3 DEF TakesInv, TakesFit
  <2>5. OneTakePerBag'
    BY <2>2 DEF TakesInv, OneTakePerBag
  <2>. QED
    BY <2>4, <2>5 DEF TakesInv
<1>. QED
  BY <1>1, <1>2, <1>3, TickTakes, HandleTakes, MessageTakes
  DEF SessionNext, ServerStep

\* Whatever is commanded but a skip, and whatever fails: while the recorder
\* keeps up, the bag of an episode holds, of the messages of this session, its
\* own take's only, even when the session before left the recorder recording,
\* provided that the times the user sets are not zero.
THEOREM OneTakePerBagAlways ==
  ASSUME ~ZeroTimes PROVE SessionSpec => []OneTakePerBag
<1>1. SessionInit => TakesInv
  <2>. SUFFICES ASSUME SessionInit PROVE TakesInv
    OBVIOUS
  <2>1. /\ requests = << >> /\ bags = << >> /\ saved = << >>
        /\ recording = FALSE /\ alive = TRUE
    BY DEF SessionInit, RecorderInit
  <2>. QED
    BY <2>1, EmptySeq DEF TakesInv, TakesFit, OneTakePerBag, Due, Restarts,
                          Dirty, NothingYet
<1>2. IInv /\ IInv' /\ BagsInv /\ BagsInv' /\ TakesInv
        /\ [SessionNext]_sessionVars => TakesInv'
  BY SessionKeepsTakes DEF BagsInv
<1>3. TakesInv => OneTakePerBag
  BY DEF TakesInv
<1>. QED
  BY <1>1, <1>2, <1>3, BagsInvariance, PTL DEF SessionSpec

----------------------------------------------------------------------------
(* A careful operator who skips nothing, and the recorder, however late,   *)
(* until a session breaks off in the middle of a take.                     *)

\* Whether the recorder will record once the i-th request is handled.
WillRecord(i) == IF i = 0 THEN recording ELSE requests[i].command = "START"

\* Each request comes when the recorder can do it, and the last one leaves the
\* recorder as the status last seen has it.
InStep == smooth /\ unskipped /\ unbroken =>
  /\ alive /\ status # "skip_task"
  /\ \A i \in DOMAIN requests :
       /\ requests[i].command \in {"PREPARE", "START"} => ~WillRecord(i - 1)
       /\ requests[i].command \in {"STOP", "STOP_AND_DELETE"}
            => WillRecord(i - 1)
  /\ WillRecord(Len(requests)) <=> previous = "run"
  /\ previous = "run" =>
       /\ session \in {"recording", "aborted"} /\ status # "warmup"
       /\ ~onSaving /\ count < EpisodeLimit

\* Handling takes the first request off.
LEMMA Handled ==
  ASSUME SessionTypes, requests # << >>, requests' = Tail(requests)
  PROVE  /\ Len(requests) \in Nat \ {0} /\ Len(requests') = Len(requests) - 1
         /\ DOMAIN requests = 1 .. Len(requests)
         /\ DOMAIN requests' = 1 .. Len(requests')
         /\ \A i \in DOMAIN requests' : requests'[i] = requests[i + 1]
         /\ Head(requests) = requests[1]
BY DEF SessionTypes

\* And sending puts one behind the others.
LEMMA Added ==
  ASSUME SessionTypes, NEW r, Sent(r)
  PROVE  /\ Len(requests) \in Nat /\ Len(requests') = Len(requests) + 1
         /\ DOMAIN requests = 1 .. Len(requests)
         /\ DOMAIN requests' = 1 .. Len(requests')
         /\ \A i \in DOMAIN requests : requests'[i] = requests[i]
         /\ requests'[Len(requests')] = r
BY DEF SessionTypes, Sent

\* A session in which a take can be begun does not end in this tick.
LEMMA RunsOn ==
  ASSUME IInv, Careful, Tick, smooth', status' = "run",
         buffer'.state # "none" \/ count < EpisodeLimit
  PROVE  session' = "recording" /\ count' < EpisodeLimit
<1>1. PICK d \in Datasets :
        \/ Wait(d.buffer) \/ WaitOver(d.buffer)
        \/ RunFrame(d.buffer) \/ RunOver(d.buffer)
        \/ SaveBegin(d.buffer) \/ SaveWait(d.buffer)
        \/ SaveDone(d.buffer, d.held)
        \/ StopBegin(d.buffer) \/ StopWait(d.buffer)
        \/ StopDone(d.buffer, d.held)
        \/ FinishBegin(d.buffer) \/ FinishWait(d.buffer)
        \/ FinishDone(d.buffer, d.held)
  BY DEF Tick
<1>2. session = "recording" /\ count \in Nat
  BY DEF Tick, IInv, TypeOK
<1>3. CASE WaitOver(d.buffer)
  <2>1. buffer'.state # "none" => episodes = << >> /\ ~onSaving
    <3>1. /\ status \in {"reset", "skip_task"} => opened /\ ~onSaving
          /\ status \in {"reset", "skip_task"} /\ buffer.state # "none"
               => episodes = << >>
          /\ status = "warmup" => episodes = << >> /\ ~onSaving
      BY DEF Careful, OpenFits, StageFits, CountFits
    <3>2. opened => buffer' = buffer
      BY <1>3 DEF WaitOver, Datasets
    <3>. QED
      BY <1>3, <3>1, <3>2 DEF WaitOver
  <2>2. episodes = << >> /\ ~onSaving => count = 0
    <3>1. status # "finish"
      BY <1>3 DEF WaitOver
    <3>. QED
      BY <3>1, EmptySeq DEF Careful, CountFits
  <2>3. count' < EpisodeLimit
    BY <1>3, <2>1, <2>2, DataManagerAssumption DEF WaitOver, EpisodeLimit
  <2>. QED
    BY <1>2, <1>3, <2>3 DEF WaitOver, EndOfRecord, KeepGoing
<1>4. CASE RunFrame(d.buffer)
  <2>1. count' < EpisodeLimit
    BY <1>2, <1>4 DEF RunFrame, Careful, LimitFits
  <2>. QED
    BY <1>2, <1>4, <2>1 DEF RunFrame, EndOfRecord, KeepGoing
<1>. QED
  BY <1>1, <1>3, <1>4
  DEF Wait, RunOver, SaveBegin, SaveWait, SaveDone, StopBegin, StopWait,
      StopDone, FinishBegin, FinishWait, FinishDone, Save, Crash, Idle

\* A tick sends what the recorder will be able to do.
LEMMA TickInStep ==
  ASSUME IInv, IInv', SessionTypes, SessionTypes', CarefulInv, CarefulInv',
         InStep, SessionTick
  PROVE  InStep'
<1>. SUFFICES ASSUME smooth', unskipped', unbroken' PROVE InStep'
  BY DEF InStep
<1>1. /\ Tick /\ TickEffect /\ unskipped /\ unbroken
      /\ UNCHANGED <<recording, alive, available>>
  BY TickDoes DEF SessionTick, History, OtherRecorderVars, SessionTypes
<1>2. smooth
  BY <1>1 DEF Tick
<1>3. Careful /\ Careful'
  BY <1>2 DEF CarefulInv
<1>4. session' # "crashed" /\ Looked
  BY <1>3, LookSends DEF SessionTick, Careful, StageFits
<1>5. /\ alive' /\ status' # "skip_task"
      /\ status' = "warmup" => previous # "run"
      /\ WillRecord(Len(requests)) <=> previous = "run"
      /\ \A i \in DOMAIN requests :
           /\ requests[i].command \in {"PREPARE", "START"} => ~WillRecord(i - 1)
           /\ requests[i].command \in {"STOP", "STOP_AND_DELETE"}
                => WillRecord(i - 1)
  BY <1>1, <1>2 DEF InStep, TickEffect
<1>6. previous' = "run" =>
        /\ session' = "recording" /\ status' # "warmup"
        /\ ~onSaving' /\ count' < EpisodeLimit
  <2>1. previous' = "run" => status' = "run"
                             /\ (buffer'.state # "none" \/ previous = "run")
    BY <1>1, <1>4, <1>5 DEF Looked, SessionTypes, NothingSent
  <2>2. previous = "run" => count < EpisodeLimit
    BY <1>1, <1>2 DEF InStep
  <2>. QED
    BY <1>1, <1>3, <2>1, <2>2, RunsOn DEF Careful, StageFits
<1>7. CASE requests' = requests
  <2>1. \A r : ~Sent(r)
    BY <1>7, Added
  <2>2. previous' = "run" <=> previous = "run"
    BY <1>1, <1>4, <1>5, <2>1 DEF Looked, SessionTypes, NothingSent
  <2>. QED
    BY <1>1, <1>5, <1>6, <1>7, <2>2 DEF InStep, WillRecord
<1>8. CASE requests' # requests
  <2>1. PICK c, u :
          /\ Sent(Request(c, u)) /\ previous' = status'
          /\ c \in {"PREPARE", "START"} => previous # "run"
          /\ c \in {"STOP", "STOP_AND_DELETE"} => previous = "run"
          /\ c = "START" <=> status' = "run"
    BY <1>4, <1>5, <1>8 DEF Looked
  <2>2. /\ Len(requests) \in Nat /\ Len(requests') = Len(requests) + 1
        /\ DOMAIN requests = 1 .. Len(requests)
        /\ DOMAIN requests' = 1 .. Len(requests')
        /\ \A i \in DOMAIN requests : requests'[i] = requests[i]
        /\ requests'[Len(requests')].command = c
    BY <2>1, Added, RequestTypes
  <2>3. \A i \in DOMAIN requests' : WillRecord(i - 1)' <=> WillRecord(i - 1)
    BY <1>1, <2>2 DEF WillRecord
  <2>5. WillRecord(Len(requests))' <=> previous' = "run"
    BY <2>1, <2>2 DEF WillRecord
  <2>6. ASSUME NEW i \in DOMAIN requests'
        PROVE  /\ requests'[i].command \in {"PREPARE", "START"}
                    => ~WillRecord(i - 1)'
               /\ requests'[i].command \in {"STOP", "STOP_AND_DELETE"}
                    => WillRecord(i - 1)'
    <3>1. WillRecord(i - 1)' <=> WillRecord(i - 1)
      BY <2>3
    <3>2. CASE i \in DOMAIN requests
      BY <1>5, <2>2, <3>1, <3>2
    <3>3. CASE i = Len(requests) + 1
      <4>1. WillRecord(i - 1) <=> previous = "run"
        BY <1>5, <2>2, <3>3
      <4>. QED
        BY <2>1, <2>2, <3>1, <3>3, <4>1
    <3>. QED
      BY <2>2, <3>2, <3>3
  <2>. QED
    BY <1>5, <1>6, <2>5, <2>6 DEF InStep
<1>. QED
  BY <1>7, <1>8

\* Handling a request leaves the recorder as the next one expects it.
LEMMA HandleInStep ==
  ASSUME SessionTypes, InStep, ~TopicsMayVanish, RecorderHandles
  PROVE  InStep'
<1>. SUFFICES ASSUME smooth', unskipped', unbroken' PROVE InStep'
  BY DEF InStep
<1>1. HandleEffect
      /\ UNCHANGED <<smooth, unskipped, unbroken, status, previous, session,
                     onSaving, count>>
  BY HandleDoes DEF vars, serverVars
<1>2. /\ alive /\ status # "skip_task"
      /\ WillRecord(Len(requests)) <=> previous = "run"
      /\ previous = "run" =>
           /\ session \in {"recording", "aborted"} /\ status # "warmup"
           /\ ~onSaving /\ count < EpisodeLimit
  BY <1>1 DEF InStep
<1>3. \A i \in DOMAIN requests :
        /\ requests[i].command \in {"PREPARE", "START"} => ~WillRecord(i - 1)
        /\ requests[i].command \in {"STOP", "STOP_AND_DELETE"}
             => WillRecord(i - 1)
  BY <1>1 DEF InStep
<1>4. /\ requests # << >> /\ Len(requests) \in Nat \ {0}
      /\ Len(requests') = Len(requests) - 1
      /\ DOMAIN requests = 1 .. Len(requests)
      /\ DOMAIN requests' = 1 .. Len(requests')
      /\ \A i \in DOMAIN requests' : requests'[i] = requests[i + 1]
      /\ Head(requests) = requests[1]
  BY <1>1, Handled DEF HandleEffect
<1>5. alive' /\ (recording' <=> requests[1].command = "START")
  <2>1. /\ Head(requests).command \in {"PREPARE", "START"} => ~recording
        /\ Head(requests).command \in {"STOP", "STOP_AND_DELETE"} => recording
    BY <1>3, <1>4 DEF WillRecord
  <2>. DEFINE c == Head(requests).command
  <2>2. CASE c = "PREPARE"
    <3>1. ~recording /\ alive
      BY <1>2, <2>1, <2>2
    <3>2. recording' = recording /\ alive' = alive
      BY <1>1, <2>2, <3>1 DEF HandleEffect, Closing
    <3>. QED
      BY <1>4, <2>2, <3>1, <3>2
  <2>3. CASE c = "START"
    BY <1>1, <1>2, <1>4, <2>1, <2>3 DEF HandleEffect, Closing
  <2>4. CASE c \in Closing
    BY <1>1, <1>2, <1>4, <2>1, <2>4 DEF HandleEffect, Closing
  <2>5. c \in Commands
    BY <1>1 DEF SessionTypes, Requests, HandleEffect
  <2>. QED
    BY <2>2, <2>3, <2>4, <2>5 DEF Commands, Closing
<1>6. \A i \in 0 .. Len(requests') : WillRecord(i)' <=> WillRecord(i + 1)
  BY <1>4, <1>5 DEF WillRecord
<1>7. WillRecord(Len(requests))' <=> previous' = "run"
  <2>1. WillRecord(Len(requests))' <=> WillRecord(Len(requests))
    <3>1. CASE Len(requests) = 1
      BY <1>4, <1>5, <3>1 DEF WillRecord
    <3>2. CASE Len(requests) # 1
      BY <1>4, <3>2 DEF WillRecord
    <3>. QED
      BY <3>1, <3>2
  <2>. QED
    BY <1>1, <1>2, <2>1
<1>8. ASSUME NEW i \in DOMAIN requests'
      PROVE  /\ requests'[i].command \in {"PREPARE", "START"}
                  => ~WillRecord(i - 1)'
             /\ requests'[i].command \in {"STOP", "STOP_AND_DELETE"}
                  => WillRecord(i - 1)'
  <2>1. /\ i + 1 \in DOMAIN requests /\ requests'[i] = requests[i + 1]
        /\ i - 1 \in 0 .. Len(requests') /\ (i + 1) - 1 = i /\ (i - 1) + 1 = i
    BY <1>4
  <2>2. WillRecord(i - 1)' <=> WillRecord(i)
    BY <1>6, <2>1
  <2>. QED
    BY <1>3, <2>1, <2>2
<1>. QED
  BY <1>1, <1>2, <1>5, <1>7, <1>8 DEF InStep

\* All steps keep the recorder in step.
LEMMA SessionKeepsInStep ==
  ASSUME IInv, IInv', SessionTypes, SessionTypes', CarefulInv, CarefulInv',
         InStep, ~TopicsMayVanish, [SessionNext]_sessionVars
  PROVE  InStep'
<1>1. CASE Operator \/ SessionEncoder
  <2>1. ServerStep
    BY <1>1 DEF ServerStep
  <2>2. /\ status' = "warmup" => status = "warmup"
        /\ status' = "skip_task" => status = "skip_task" \/ ~unskipped'
        /\ unskipped' => unskipped
        /\ UNCHANGED <<requests, recording, alive, previous, unbroken>>
    BY <2>1, ServerStepDoes DEF SessionTypes, recorderVars
  <2>3. /\ smooth' => smooth
        /\ UNCHANGED <<session, onSaving, count>>
    <3>1. CASE Operator
      BY <3>1 DEF Operator, Stop, MoveToNext, Retry, Skip, Finish, Command
    <3>2. CASE SessionEncoder
      BY <3>2 DEF SessionEncoder, Encoder, EncodeBegin, EncodeEnd, EncodeShort,
                  EncodeFail, Encode
    <3>. QED
      BY <1>1, <3>1, <3>2
  <2>4. \A i \in Nat : WillRecord(i)' <=> WillRecord(i)
    BY <2>2 DEF WillRecord
  <2>. QED
    BY <2>2, <2>3, <2>4 DEF InStep, WillRecord
<1>2. CASE StartRecord
  <2>1. /\ unbroken' => unbroken /\ previous # "run"
        /\ status' = "warmup"
        /\ UNCHANGED <<smooth, unskipped, requests, recording, alive, previous>>
    BY <1>2 DEF StartRecord, recorderVars, SessionTypes
  <2>. QED
    BY <2>1 DEF InStep, WillRecord
<1>3. CASE Message \/ SessionOver \/ UNCHANGED sessionVars
  <2>1. UNCHANGED <<smooth, unskipped, unbroken, status, requests, recording,
                    alive, previous, session, onSaving, count>>
    BY <1>3 DEF Message, Write, SessionOver, Over, sessionVars, vars,
                recorderVars, serverVars
  <2>. QED
    BY <2>1 DEF InStep, WillRecord
<1>4. CASE SessionAbort
  <2>1. /\ session' = "aborted"
        /\ UNCHANGED <<smooth, unskipped, unbroken, status, requests, recording,
                       alive, previous, onSaving, count>>
    BY <1>4 DEF SessionAbort, Abort, recorderVars, serverVars
  <2>. QED
    BY <2>1 DEF InStep, WillRecord
<1>. QED
  BY <1>1, <1>2, <1>3, <1>4, TickInStep, HandleInStep DEF SessionNext

\* For every reachable state.
LEMMA StepInvariance ==
  ASSUME ~TopicsMayVanish
  PROVE  SessionSpec => [](IInv /\ CarefulInv /\ SessionTypes /\ InStep)
<1>1. SessionInit => InStep
  <2>. SUFFICES ASSUME SessionInit PROVE InStep
    OBVIOUS
  <2>1. /\ requests = << >> /\ recording = FALSE /\ alive = TRUE
        /\ previous = "none" /\ status = "warmup"
    BY DEF SessionInit, RecorderInit, Init
  <2>. QED
    BY <2>1, EmptySeq DEF InStep, WillRecord
<1>2. IInv /\ IInv' /\ CarefulInv /\ CarefulInv' /\ BagsInv /\ BagsInv' /\ InStep
        /\ [SessionNext]_sessionVars => InStep'
  BY SessionKeepsInStep DEF BagsInv
<1>3. BagsInv => SessionTypes
  BY DEF BagsInv
<1>. QED
  BY <1>1, <1>2, <1>3, BagsInvariance, SessionInvariance, PTL DEF SessionSpec

\* With a careful operator who skips nothing, and a robot whose topics stay, the
\* recorder refuses no request, however late it gets to it, until a session
\* breaks off in the middle of a take.
THEOREM NothingRefusedAlways ==
  ASSUME ~TopicsMayVanish PROVE SessionSpec => []NothingRefused
<1>1. SessionTypes /\ InStep => NothingRefused
  <2>. SUFFICES ASSUME SessionTypes, InStep, smooth, unskipped, unbroken,
                       requests # << >>
                PROVE  ~Refused(Head(requests))
    BY DEF NothingRefused
  <2>1. 1 \in DOMAIN requests /\ Head(requests) = requests[1]
    BY DEF SessionTypes
  <2>2. /\ requests[1].command \in {"PREPARE", "START"} => ~WillRecord(0)
        /\ requests[1].command \in {"STOP", "STOP_AND_DELETE"} => WillRecord(0)
    BY <2>1 DEF InStep
  <2>. QED
    BY <2>1, <2>2 DEF Refused, WillRecord
<1>. QED
  BY <1>1, StepInvariance, PTL

----------------------------------------------------------------------------
(* The topics of the recorder, for the same operator.                      *)

\* Whether the recorder will be subscribed once the i-th request is handled.
Ready(i) == IF i = 0 THEN subscribed ELSE requests[i].command # "FINISH"

\* A bag is started, stopped or deleted only by a recorder that was prepared
\* since it last finished; and it has been, once it has handled what it was
\* sent, but before the first tick of a session and after the first of a save
\* that ends it, when no careful command comes.
ReadyInv == smooth /\ unskipped /\ unbroken /\ available =>
  /\ subscribed => requested
  /\ recording => typed
  /\ \A i \in DOMAIN requests :
       requests[i].command \in {"START", "STOP", "STOP_AND_DELETE"}
         => Ready(i - 1)
  /\ previous \notin {"none", "finish"} => Ready(Len(requests))
  /\ session = "recording" /\ previous \in {"none", "finish"} =>
       \/ status = "warmup" /\ ~timing /\ ~opened
       \/ status = "finish" /\ onSaving

\* A tick that leaves the session in finish has begun to save.
LEMMA TickFinishes ==
  ASSUME IInv, Careful, Tick, smooth', status' = "finish",
         session' = "recording"
  PROVE  onSaving'
<1>1. PICK d \in Datasets :
        \/ Wait(d.buffer) \/ WaitOver(d.buffer)
        \/ RunFrame(d.buffer) \/ RunOver(d.buffer)
        \/ SaveBegin(d.buffer) \/ SaveWait(d.buffer)
        \/ SaveDone(d.buffer, d.held)
        \/ StopBegin(d.buffer) \/ StopWait(d.buffer)
        \/ StopDone(d.buffer, d.held)
        \/ FinishBegin(d.buffer) \/ FinishWait(d.buffer)
        \/ FinishDone(d.buffer, d.held)
  BY DEF Tick
<1>2. CASE SaveDone(d.buffer, d.held)
  <2>1. ~(count' < EpisodeLimit) /\ EndOfRecord(Pending)
        /\ status = "save" /\ (~SingleTask \/ Pending = {})
    BY <1>2 DEF SaveDone, EncodingCompleted
  <2>2. Pending = {}
    <3>1. ~SingleTask => encoders = {}
      BY <2>1 DEF Careful, VideosFit, Tick
    <3>. QED
      BY <2>1, <3>1 DEF Pending
  <2>3. {i \in Pending : episodes'[i].video \notin {"whole", "truncated"}} = {}
    BY <2>2
  <2>4. session' = "completed"
    BY <2>1, <2>3 DEF EndOfRecord
  <2>. QED
    BY <2>4
<1>3. CASE FinishBegin(d.buffer) \/ FinishWait(d.buffer) \/ FinishDone(d.buffer, d.held)
  BY <1>3 DEF FinishBegin, FinishWait, FinishDone, Save, Crash, Idle
<1>. QED
  BY <1>1, <1>2, <1>3
  DEF Wait, WaitOver, RunFrame, RunOver, SaveBegin, SaveWait, StopBegin,
      StopWait, StopDone, Save, Crash, Idle

\* A tick asks for a bag only of a recorder that has been told to prepare.
LEMMA TickReady ==
  ASSUME IInv, IInv', SessionTypes, SessionTypes', CarefulInv, CarefulInv',
         InStep, ReadyInv, ~ZeroTimes, SessionTick
  PROVE  ReadyInv'
<1>. SUFFICES ASSUME smooth', unskipped', unbroken', available' PROVE ReadyInv'
  BY DEF ReadyInv
<1>1. /\ Tick /\ TickEffect /\ unskipped /\ unbroken /\ available
      /\ UNCHANGED <<recording, requested, typed, subscribed>>
      /\ session = "recording" /\ opened'
  BY TickDoes DEF SessionTick, Tick, History, OtherRecorderVars, SessionTypes
<1>2. smooth /\ Careful /\ Careful'
  BY <1>1 DEF Tick, CarefulInv
<1>3. /\ subscribed => requested
      /\ recording => typed
      /\ \A i \in DOMAIN requests :
           requests[i].command \in {"START", "STOP", "STOP_AND_DELETE"}
             => Ready(i - 1)
      /\ previous \notin {"none", "finish"} => Ready(Len(requests))
      /\ previous \in {"none", "finish"} =>
           \/ status = "warmup" /\ ~timing /\ ~opened
           \/ status = "finish" /\ onSaving
  BY <1>1, <1>2 DEF ReadyInv
<1>4. session' # "crashed" /\ Looked
  BY <1>2, LookSends DEF SessionTick, Careful, StageFits
<1>5. status = "warmup" /\ ~timing => status' = "warmup"
  <2>. SUFFICES ASSUME status = "warmup", ~timing, status' = "run" PROVE FALSE
    BY <1>1 DEF TickEffect
  <2>1. ~Unsaved
    BY <1>2 DEF Careful, StageFits
  <2>. QED
    BY <1>1, <2>1 DEF TickEffect
<1>6. status = "finish" => status' = "finish"
  BY <1>1 DEF Tick, Wait, WaitOver, RunFrame, RunOver, RunLowRam, SaveBegin,
              SaveWait, SaveDone, StopBegin, StopWait, StopDone, FinishBegin,
              FinishWait, FinishDone, Save, Crash, Idle
<1>7. previous \in {"none", "finish"}
        => status' = "warmup" \/ (status' = "finish" /\ status = "finish")
  BY <1>3, <1>5, <1>6
<1>8. session' = "recording" /\ previous' \in {"none", "finish"}
        => status' = "finish" /\ onSaving'
  <2>. SUFFICES ASSUME session' = "recording", previous' \in {"none", "finish"}
                PROVE  status' = "finish" /\ onSaving'
    OBVIOUS
  <2>1. status' = "finish"
    BY <1>1, <1>4, <1>7 DEF Looked, TickEffect, Statuses
  <2>. QED
    BY <1>1, <1>2, <2>1, TickFinishes
<1>9. CASE requests' = requests
  <2>1. \A r : ~Sent(r)
    BY <1>9, Added
  <2>2. previous' \notin {"none", "finish"} => previous \notin {"none", "finish"}
    BY <1>1, <1>4, <1>7, <2>1 DEF Looked
  <2>3. \A i : Ready(i)' <=> Ready(i)
    BY <1>1, <1>9 DEF Ready
  <2>. QED
    BY <1>1, <1>3, <1>8, <1>9, <2>2, <2>3 DEF ReadyInv
<1>10. CASE requests' # requests
  <2>1. PICK c, u :
          /\ Sent(Request(c, u)) /\ previous' = status'
          /\ c \in {"START", "STOP", "STOP_AND_DELETE"}
               => previous \notin {"none", "finish"}
          /\ c = "FINISH" => status' = "finish"
    BY <1>4, <1>7, <1>10 DEF Looked
  <2>2. /\ Len(requests) \in Nat /\ Len(requests') = Len(requests) + 1
        /\ DOMAIN requests = 1 .. Len(requests)
        /\ DOMAIN requests' = 1 .. Len(requests')
        /\ \A i \in DOMAIN requests : requests'[i] = requests[i]
        /\ requests'[Len(requests')].command = c
    BY <2>1, Added, RequestTypes
  <2>3. \A i \in DOMAIN requests' : Ready(i - 1)' <=> Ready(i - 1)
    BY <1>1, <2>2 DEF Ready
  <2>4. previous' \notin {"none", "finish"} => Ready(Len(requests))'
    BY <2>1, <2>2 DEF Ready
  <2>5. ASSUME NEW i \in DOMAIN requests',
               requests'[i].command \in {"START", "STOP", "STOP_AND_DELETE"}
        PROVE  Ready(i - 1)'
    <3>1. Ready(i - 1)' <=> Ready(i - 1)
      BY <2>3
    <3>2. CASE i \in DOMAIN requests
      BY <1>3, <2>2, <2>5, <3>1, <3>2
    <3>3. CASE i = Len(requests) + 1
      <4>1. i - 1 = Len(requests) /\ Ready(Len(requests))
        BY <1>3, <2>1, <2>2, <2>5, <3>3
      <4>. QED
        BY <3>1, <4>1
    <3>. QED
      BY <2>2, <3>2, <3>3
  <2>. QED
    BY <1>1, <1>3, <1>8, <2>4, <2>5 DEF ReadyInv
<1>. QED
  BY <1>9, <1>10

\* Handling a request leaves the recorder subscribed or not as it says.
LEMMA HandleReady ==
  ASSUME SessionTypes, InStep, ReadyInv, ~TopicsMayVanish, RecorderHandles
  PROVE  ReadyInv'
<1>. SUFFICES ASSUME smooth', unskipped', unbroken', available' PROVE ReadyInv'
  BY DEF ReadyInv
<1>1. /\ HandleEffect
      /\ UNCHANGED <<smooth, unskipped, unbroken, available, status, previous,
                     session, onSaving, timing, opened>>
  BY HandleDoes DEF vars, serverVars
<1>2. /\ Len(requests) \in Nat \ {0} /\ Len(requests') = Len(requests) - 1
      /\ DOMAIN requests = 1 .. Len(requests)
      /\ DOMAIN requests' = 1 .. Len(requests')
      /\ \A i \in DOMAIN requests' : requests'[i] = requests[i + 1]
      /\ Head(requests) = requests[1]
  BY <1>1, Handled DEF HandleEffect
<1>3. /\ alive
      /\ requests[1].command \in {"PREPARE", "START"} => ~recording
      /\ requests[1].command \in {"START", "STOP", "STOP_AND_DELETE"}
           => subscribed
      /\ subscribed => requested
      /\ recording => typed
  BY <1>1, <1>2 DEF InStep, ReadyInv, WillRecord, Ready
<1>. DEFINE c == Head(requests).command
<1>4. /\ subscribed' => requested'
      /\ recording' => typed'
      /\ subscribed' <=> c # "FINISH"
  <2>1. CASE c = "PREPARE" /\ Prepare
    BY <1>2, <1>3, <2>1 DEF Prepare, TopicsThere
  <2>2. CASE c = "START" /\ Start(Head(requests).uri)
    BY <1>2, <1>3, <2>2 DEF Start, TopicsThere
  <2>3. CASE c = "STOP" /\ UNCHANGED <<requested, subscribed>>
             /\ (StopRecording \/ Refuse)
    <3>1. subscribed /\ requested' = requested /\ subscribed' = subscribed
      BY <1>2, <1>3, <2>3
    <3>2. ~recording' \/ (recording' = recording /\ typed' = typed)
      BY <2>3 DEF StopRecording, CloseBag, Refuse
    <3>. QED
      BY <1>3, <2>3, <3>1, <3>2
  <2>4. CASE c = "STOP_AND_DELETE" /\ StopAndDelete
    BY <1>2, <1>3, <2>4 DEF StopAndDelete, CloseBag, Refuse
  <2>5. CASE c = "FINISH" /\ FinishRecording
    BY <1>2, <1>3, <2>5 DEF FinishRecording, StopRecording, CloseBag
  <2>6. \/ c = "PREPARE" /\ Prepare
        \/ c = "START" /\ Start(Head(requests).uri)
        \/ /\ c = "STOP" /\ UNCHANGED <<requested, subscribed>>
           /\ StopRecording \/ Refuse
        \/ c = "STOP_AND_DELETE" /\ StopAndDelete
        \/ c = "FINISH" /\ FinishRecording
    BY <1>3 DEF RecorderHandles, Handle, Refuse
  <2>. QED
    BY <2>1, <2>2, <2>3, <2>4, <2>5, <2>6
<1>5. \A i \in 0 .. Len(requests') : Ready(i)' <=> Ready(i + 1)
  BY <1>2, <1>4 DEF Ready
<1>6. Ready(Len(requests))' <=> Ready(Len(requests))
  <2>1. Len(requests') \in 0 .. Len(requests')
        /\ Len(requests') + 1 = Len(requests)
    BY <1>2
  <2>2. CASE Len(requests) = 1
    BY <1>2, <1>4, <2>2 DEF Ready
  <2>3. CASE Len(requests) # 1
    BY <1>2, <2>3 DEF Ready
  <2>. QED
    BY <2>2, <2>3
<1>7. ASSUME NEW i \in DOMAIN requests',
             requests'[i].command \in {"START", "STOP", "STOP_AND_DELETE"}
      PROVE  Ready(i - 1)'
  <2>1. /\ i + 1 \in DOMAIN requests /\ requests'[i] = requests[i + 1]
        /\ i - 1 \in 0 .. Len(requests') /\ (i + 1) - 1 = i /\ (i - 1) + 1 = i
    BY <1>2
  <2>2. Ready(i - 1)' <=> Ready(i)
    BY <1>5, <2>1
  <2>3. Ready(i)
    BY <1>1, <1>7, <2>1 DEF ReadyInv
  <2>. QED
    BY <2>2, <2>3
<1>8. /\ previous \notin {"none", "finish"} => Ready(Len(requests))
      /\ session = "recording" /\ previous \in {"none", "finish"} =>
           \/ status = "warmup" /\ ~timing /\ ~opened
           \/ status = "finish" /\ onSaving
  BY <1>1 DEF ReadyInv
<1>. QED
  BY <1>1, <1>4, <1>6, <1>7, <1>8 DEF ReadyInv

\* All steps keep the recorder ready.
LEMMA SessionKeepsReady ==
  ASSUME IInv, IInv', SessionTypes, SessionTypes', CarefulInv, CarefulInv',
         InStep, ReadyInv, ~TopicsMayVanish, ~ZeroTimes,
         [SessionNext]_sessionVars
  PROVE  ReadyInv'
<1>1. CASE Operator
  <2>. SUFFICES ASSUME smooth', unskipped', unbroken', available'
                PROVE  ReadyInv'
    BY DEF ReadyInv
  <2>1. /\ smooth /\ unskipped /\ session = "recording"
        /\ UNCHANGED <<recorderVars, previous, unbroken, available, session>>
        /\ TakeInProgress \/ (opened /\ ~onSaving)
             \/ (~onSaving /\ buffer.state = "none" /\ episodes # << >>)
    BY <1>1, ServerStepDoes
    DEF ServerStep, SessionTypes, Operator, Stop, MoveToNext, Retry, Skip,
        Finish, Command
  <2>2. Careful
    BY <2>1 DEF CarefulInv
  <2>3. ~onSaving /\ (status = "warmup" => opened)
    BY <2>1, <2>2 DEF TakeInProgress, Careful, CountFits
  <2>4. previous \notin {"none", "finish"}
    BY <2>1, <2>3 DEF ReadyInv
  <2>. QED
    BY <2>1, <2>4 DEF ReadyInv, Ready, recorderVars
<1>2. CASE StartRecord
  <2>1. /\ status' = "warmup" /\ ~timing' /\ ~opened'
        /\ unbroken' => unbroken
        /\ UNCHANGED <<smooth, unskipped, available, recorderVars, previous>>
    BY <1>2 DEF StartRecord, SessionTypes
  <2>. QED
    BY <2>1 DEF ReadyInv, Ready, recorderVars
<1>3. CASE SessionAbort \/ SessionEncoder \/ Message \/ SessionOver
           \/ UNCHANGED sessionVars
  <2>1. /\ UNCHANGED <<unskipped, unbroken, available, status, timing, opened,
                       previous, onSaving, requests, recording, requested,
                       typed, subscribed>>
        /\ smooth' => smooth
        /\ session' = "recording" => session = "recording"
    BY <1>3
    DEF SessionAbort, Abort, SessionEncoder, Encoder, EncodeBegin, EncodeEnd,
        EncodeShort, EncodeFail, Encode, Message, Write, SessionOver, Over,
        sessionVars, vars, recorderVars, serverVars
  <2>. QED
    BY <2>1 DEF ReadyInv, Ready
<1>. QED
  BY <1>1, <1>2, <1>3, TickReady, HandleReady DEF SessionNext

----------------------------------------------------------------------------
(* The bags, for the same operator.                                        *)

\* The bag that is open when the i-th request is handled, if it is recording.
Target(i) == IF i = 1 THEN openBag ELSE requests[i - 1].uri

\* A request after the m-th deletes the bag x.
Deleted(x, m) ==
  \E k \in DOMAIN requests :
    k > m /\ requests[k].command = "STOP_AND_DELETE" /\ Target(k) = x

\* The bag x will be there once all requests are handled.
WillHave(x) ==
  \/ x \in DOMAIN bags /\ ~Deleted(x, 0)
  \/ \E m \in DOMAIN requests :
       requests[m].command = "START" /\ requests[m].uri = x /\ ~Deleted(x, m)

\* The take at hand, in a state that records or saves it.
ToSave == Unsaved /\ status \in {"run", "save", "stop", "finish"}

\* The episodes of the dataset, and the take at hand, will have their bags; what
\* a retry would delete is the bag of the take at hand.
BagsKept == smooth /\ unskipped /\ unbroken /\ available =>
  /\ \A i \in DOMAIN saved : WillHave(Bag(i - 1))
  /\ ToSave \/ previous = "run" => WillHave(NextBag)
  /\ previous = "run" => Target(Len(requests) + 1) = NextBag

\* A request that is sent disturbs no bag but the one it is to delete.
LEMMA SendKeeps ==
  ASSUME SessionTypes, NEW r, Sent(r), UNCHANGED <<openBag, bags>>,
         NEW x, WillHave(x),
         r.command = "STOP_AND_DELETE" => Target(Len(requests) + 1) # x
  PROVE  WillHave(x)'
<1>1. /\ Len(requests) \in Nat /\ Len(requests') = Len(requests) + 1
      /\ DOMAIN requests = 1 .. Len(requests)
      /\ DOMAIN requests' = 1 .. Len(requests')
      /\ \A i \in DOMAIN requests : requests'[i] = requests[i]
      /\ requests'[Len(requests')] = r
  BY Added
<1>2. \A k \in DOMAIN requests' : Target(k)' = Target(k)
  BY <1>1 DEF Target
<1>3. ASSUME NEW m \in Nat, Deleted(x, m)'
      PROVE  Deleted(x, m)
  <2>1. PICK k \in DOMAIN requests' :
          /\ k > m /\ requests'[k].command = "STOP_AND_DELETE"
          /\ Target(k)' = x
    BY <1>3 DEF Deleted
  <2>2. Target(k) = x
    BY <1>2, <2>1
  <2>3. k \in DOMAIN requests
    BY <1>1, <2>1, <2>2
  <2>. QED
    BY <1>1, <2>1, <2>2, <2>3 DEF Deleted
<1>4. CASE x \in DOMAIN bags /\ ~Deleted(x, 0)
  BY <1>3, <1>4 DEF WillHave
<1>5. ASSUME NEW m \in DOMAIN requests, ~Deleted(x, m),
             requests[m].command = "START", requests[m].uri = x
      PROVE  WillHave(x)'
  BY <1>1, <1>3, <1>5 DEF WillHave
<1>. QED
  BY <1>4, <1>5 DEF WillHave

\* A bag that is started last will be there, and a retry would delete it.
LEMMA StartHas ==
  ASSUME SessionTypes, NEW x, Sent(Request("START", x))
  PROVE  WillHave(x)' /\ \A i : i = Len(requests') + 1 => Target(i)' = x
<1>1. /\ Len(requests) \in Nat /\ Len(requests') = Len(requests) + 1
      /\ DOMAIN requests' = 1 .. Len(requests')
      /\ requests'[Len(requests')] = Request("START", x)
  BY Added
<1>. DEFINE n == Len(requests')
<1>2. requests'[n].command = "START" /\ requests'[n].uri = x
  BY <1>1, RequestTypes
<1>3. \A k \in DOMAIN requests' : ~(k > n)
  BY <1>1
<1>. QED
  BY <1>1, <1>2, <1>3 DEF WillHave, Deleted, Target

\* A tick asks for no bag to be deleted but that of the take thrown away.
LEMMA TickKeepsKept ==
  ASSUME IInv, IInv', SessionTypes, SessionTypes', CarefulInv, CarefulInv',
         InStep, BagsKept, SessionTick
  PROVE  BagsKept'
<1>. SUFFICES ASSUME smooth', unskipped', unbroken', available' PROVE BagsKept'
  BY DEF BagsKept
<1>1. /\ Tick /\ TickEffect /\ unskipped /\ unbroken /\ available
      /\ UNCHANGED <<openBag, bags, dataset>>
  BY TickDoes DEF SessionTick, History, OtherRecorderVars, SessionTypes
<1>2. smooth /\ Careful /\ Careful'
  BY <1>1 DEF Tick, CarefulInv
<1>3. Looked
  BY <1>2, LookSends DEF SessionTick, Careful, StageFits
<1>4. /\ \A i \in DOMAIN saved : WillHave(Bag(i - 1))
      /\ ToSave \/ previous = "run" => WillHave(NextBag)
      /\ previous = "run" => Target(Len(requests) + 1) = NextBag
  BY <1>1, <1>2 DEF BagsKept
<1>5. /\ DOMAIN saved = 1 .. Len(saved) /\ Len(saved) \in Nat
      /\ DOMAIN saved' = 1 .. Len(saved') /\ Len(saved') \in Nat
      /\ \A i : Bag(i)' = Bag(i)
  BY <1>1, TickSaves DEF SessionTypes, Bag
<1>13. /\ \/ Len(saved') = Len(saved) /\ Len(episodes') = Len(episodes)
          \/ Len(saved') = Len(saved) + 1 /\ Len(episodes') = Len(episodes) + 1
       /\ Len(episodes) \in Nat
  BY <1>1, TickSaves
<1>6. Len(saved') # Len(saved) =>
        /\ Len(saved') = Len(saved) + 1 /\ ToSave /\ ~ToSave'
        /\ status' \notin {"reset", "run"}
  <2>. SUFFICES ASSUME Len(saved') # Len(saved)
                PROVE  /\ Len(saved') = Len(saved) + 1 /\ ToSave /\ ~ToSave'
                       /\ status' \notin {"reset", "run"}
    OBVIOUS
  <2>1. Len(saved') = Len(saved) + 1 /\ Len(episodes') # Len(episodes)
    BY <1>13
  <2>2. /\ Unsaved /\ ~Unsaved' /\ status \in {"save", "stop", "finish"}
        /\ status' = status
    BY <1>1, <2>1 DEF TickEffect
  <2>. QED
    BY <2>1, <2>2 DEF ToSave
<1>7. ASSUME NEW x, WillHave(x), status' = "reset" => x # NextBag
      PROVE  WillHave(x)'
  <2>1. CASE requests' = requests
    BY <1>1, <1>7, <2>1 DEF WillHave, Deleted, Target
  <2>2. CASE requests' # requests
    <3>1. PICK c, u :
            /\ Sent(Request(c, u))
            /\ c = "STOP_AND_DELETE" => status' = "reset" /\ previous = "run"
      BY <1>3, <2>2 DEF Looked
    <3>. QED
      BY <1>1, <1>4, <1>7, <3>1, SendKeeps, RequestTypes
  <2>. QED
    BY <2>1, <2>2
<1>8. ASSUME NEW i \in DOMAIN saved'
      PROVE  WillHave(Bag(i - 1))'
  <2>1. PICK x : x = Bag(i - 1)
    OBVIOUS
  <2>2. CASE i \in DOMAIN saved
    <3>1. WillHave(x)
      BY <1>4, <2>1, <2>2
    <3>2. x # NextBag
      BY <2>1, <2>2, SavedBags
    <3>. QED
      BY <1>5, <1>7, <2>1, <3>1, <3>2
  <2>3. CASE i \notin DOMAIN saved
    <3>1. ToSave /\ x = NextBag /\ status' # "reset"
      <4>0. /\ DOMAIN saved = 1 .. Len(saved) /\ Len(saved) \in Nat
            /\ DOMAIN saved' = 1 .. Len(saved') /\ Len(saved') \in Nat
            /\ Len(saved') = Len(saved) \/ Len(saved') = Len(saved) + 1
        BY <1>5, <1>13
      <4>1. i - 1 = Len(saved) /\ Len(saved') # Len(saved)
        <5>1. \A n, m \in Nat : i \in 1 .. m /\ i \notin 1 .. n
                /\ (m = n \/ m = n + 1) => i - 1 = n /\ m # n
          OBVIOUS
        <5>2. i \in 1 .. Len(saved') /\ i \notin 1 .. Len(saved)
          BY <1>8, <2>3, <4>0
        <5>. QED
          BY <4>0, <5>1, <5>2
      <4>. QED
        BY <1>6, <2>1, <4>1 DEF NextBag
    <3>2. WillHave(x)
      BY <1>4, <3>1
    <3>. QED
      BY <1>5, <1>7, <2>1, <3>1, <3>2
  <2>. QED
    BY <2>2, <2>3
<1>9. CASE /\ Sent(Request("START", NextBag')) /\ buffer'.state # "none"
           /\ status' = "run" /\ previous' = "run"
  <2>1. PICK x : x = NextBag' /\ Sent(Request("START", x))
    BY <1>9
  <2>2. WillHave(x)' /\ \A i : i = Len(requests') + 1 => Target(i)' = x
    BY <2>1, StartHas
  <2>. QED
    BY <1>8, <2>1, <2>2 DEF BagsKept
<1>10. CASE /\ previous' = "run" => previous = "run" /\ status' = "run"
                                    /\ requests' = requests
            /\ status' = "run" /\ buffer'.state # "none" => previous = "run"
  <2>1. CASE Len(saved') = Len(saved)
    <3>1. PICK x : x = NextBag /\ x = NextBag'
      BY <1>1, <2>1 DEF NextBag, Bag
    <3>2. ToSave' \/ previous' = "run" => WillHave(x)'
      <4>1. ToSave' /\ status' = "run" => previous = "run"
        BY <1>10 DEF ToSave, Unsaved
      <4>2. ToSave' /\ status' # "run" => ToSave
        BY <1>1 DEF ToSave, TickEffect
      <4>3. ToSave' \/ previous' = "run" => status' # "reset" /\ WillHave(x)
        BY <1>4, <1>10, <3>1, <4>1, <4>2 DEF ToSave
      <4>. QED
        BY <1>7, <4>3
    <3>3. previous' = "run"
            => \A i : i = Len(requests') + 1 => Target(i)' = x
      <4>. SUFFICES ASSUME previous' = "run"
                    PROVE  \A i : i = Len(requests') + 1 => Target(i)' = x
        OBVIOUS
      <4>1. \A i : Target(i)' = Target(i)
        BY <1>1, <1>10 DEF Target
      <4>. QED
        BY <1>4, <1>10, <3>1, <4>1
    <3>. QED
      BY <1>8, <3>1, <3>2, <3>3 DEF BagsKept
  <2>2. CASE Len(saved') # Len(saved)
    <3>1. ~ToSave' /\ status' # "run"
      BY <1>6, <2>2
    <3>. QED
      BY <1>8, <1>10, <3>1 DEF BagsKept
  <2>. QED
    BY <2>1, <2>2
<1>. QED
  BY <1>1, <1>3, <1>9, <1>10 DEF Looked

\* Handling a request does what it was sent for.
LEMMA HandleKeepsKept ==
  ASSUME SessionTypes, InStep, BagsKept, ~TopicsMayVanish, RecorderHandles
  PROVE  BagsKept'
<1>. SUFFICES ASSUME smooth', unskipped', unbroken', available' PROVE BagsKept'
  BY DEF BagsKept
<1>1. HandleEffect
      /\ UNCHANGED <<smooth, unskipped, unbroken, available, status, previous,
                     saved, buffer, dataset>>
  BY HandleDoes DEF vars, serverVars
<1>2. /\ alive
      /\ \A i \in DOMAIN requests :
           /\ requests[i].command \in {"PREPARE", "START"} => ~WillRecord(i - 1)
           /\ requests[i].command \in {"STOP", "STOP_AND_DELETE"}
                => WillRecord(i - 1)
      /\ WillRecord(Len(requests)) <=> previous = "run"
  BY <1>1 DEF InStep
<1>3. /\ Len(requests) \in Nat \ {0} /\ Len(requests') = Len(requests) - 1
      /\ DOMAIN requests = 1 .. Len(requests)
      /\ DOMAIN requests' = 1 .. Len(requests')
      /\ \A i \in DOMAIN requests' : requests'[i] = requests[i + 1]
      /\ Head(requests) = requests[1]
  BY <1>1, Handled DEF HandleEffect
<1>. DEFINE c == Head(requests).command
            u == Head(requests).uri
<1>4. c = "START" => openBag' = u /\ bags' = WithNew(u)
  <2>. SUFFICES ASSUME c = "START" PROVE openBag' = u /\ bags' = WithNew(u)
    OBVIOUS
  <2>1. ~recording
    BY <1>2, <1>3 DEF WillRecord
  <2>. QED
    BY <1>1, <1>2, <2>1 DEF HandleEffect, Closing
<1>5. \A x \in DOMAIN bags :
        x \in DOMAIN bags' \/ (c = "STOP_AND_DELETE" /\ x = openBag)
  <2>1. \/ bags' = bags \/ bags' = WithNew(u)
        \/ c = "STOP_AND_DELETE" /\ bags' = Without(openBag)
    BY <1>1 DEF HandleEffect
  <2>. QED
    BY <2>1 DEF WithNew, Without
<1>6. requests[1].command = "START" => openBag' = requests[1].uri
  BY <1>3, <1>4
<1>7. ASSUME NEW x, NEW m \in Nat, Deleted(x, m)'
      PROVE  Deleted(x, m + 1)
  <2>1. PICK k \in DOMAIN requests' :
          /\ k > m /\ requests'[k].command = "STOP_AND_DELETE"
          /\ x = IF k = 1 THEN openBag' ELSE requests'[k - 1].uri
    BY <1>7 DEF Deleted, Target
  <2>2. /\ k + 1 \in DOMAIN requests /\ k + 1 > m + 1
        /\ requests[k + 1].command = "STOP_AND_DELETE"
        /\ k + 1 # 1 /\ (k + 1) - 1 = k /\ k # 0
    BY <1>3, <2>1
  <2>3. WillRecord(k)
    BY <1>2, <2>2
  <2>4. x = requests[k].uri
    <3>1. CASE k = 1
      BY <1>6, <2>1, <2>3, <3>1 DEF WillRecord
    <3>2. CASE k # 1
      BY <1>3, <2>1, <3>2
    <3>. QED
      BY <3>1, <3>2
  <2>5. Target(k + 1) = x
    BY <2>2, <2>4 DEF Target
  <2>. QED
    BY <2>2, <2>5 DEF Deleted
<1>8. ASSUME NEW x, WillHave(x)
      PROVE  WillHave(x)'
  <2>1. ASSUME NEW m \in Nat, ~Deleted(x, m) PROVE ~Deleted(x, m + 1)
    BY <1>3, <2>1 DEF Deleted
  <2>2. CASE x \in DOMAIN bags /\ ~Deleted(x, 0)
    <3>1. ~(c = "STOP_AND_DELETE" /\ x = openBag)
      <4>1. 1 \in DOMAIN requests /\ Target(1) = openBag
        BY <1>3 DEF Target
      <4>. QED
        BY <1>3, <2>2, <4>1 DEF Deleted
    <3>2. x \in DOMAIN bags'
      BY <1>5, <2>2, <3>1
    <3>3. ~Deleted(x, 0)'
      BY <1>7, <2>1, <2>2
    <3>. QED
      BY <3>2, <3>3 DEF WillHave
  <2>3. ASSUME NEW m \in DOMAIN requests, ~Deleted(x, m),
               requests[m].command = "START", requests[m].uri = x
        PROVE  WillHave(x)'
    <3>1. m - 1 \in Nat /\ (m - 1) + 1 = m
      BY <1>3
    <3>2. ~Deleted(x, m - 1)'
      BY <1>7, <2>3, <3>1
    <3>3. CASE m = 1
      <4>1. x \in DOMAIN bags'
        BY <1>3, <1>4, <2>3, <3>3 DEF WithNew
      <4>2. ~Deleted(x, 0)'
        BY <3>2, <3>3
      <4>. QED
        BY <4>1, <4>2 DEF WillHave
    <3>4. CASE m # 1
      <4>1. m - 1 \in DOMAIN requests' /\ requests'[m - 1] = requests[m]
        BY <1>3, <3>1, <3>4
      <4>. QED
        BY <2>3, <3>2, <4>1 DEF WillHave
    <3>. QED
      BY <3>3, <3>4
  <2>. QED
    BY <1>8, <2>2, <2>3 DEF WillHave
<1>9. /\ DOMAIN saved' = DOMAIN saved /\ (ToSave' <=> ToSave)
      /\ NextBag' = NextBag /\ \A i : Bag(i)' = Bag(i)
  BY <1>1 DEF ToSave, Unsaved, NextBag, Bag
<1>10. /\ \A i \in DOMAIN saved : WillHave(Bag(i - 1))
       /\ ToSave \/ previous = "run" => WillHave(NextBag)
       /\ previous = "run" => Target(Len(requests) + 1) = NextBag
  BY <1>1 DEF BagsKept
<1>11. PICK next : next = NextBag /\ next = NextBag'
  BY <1>9
<1>12. ASSUME NEW i \in DOMAIN saved PROVE WillHave(Bag(i - 1))'
  <2>1. PICK x : x = Bag(i - 1)
    OBVIOUS
  <2>. QED
    BY <1>8, <1>9, <1>10, <2>1
<1>13. ToSave \/ previous = "run" => WillHave(next)'
  BY <1>8, <1>10, <1>11
<1>14. previous = "run" => Target(Len(requests) + 1)' = next
  <2>. SUFFICES ASSUME previous = "run" PROVE Target(Len(requests) + 1)' = next
    OBVIOUS
  <2>. DEFINE n == Len(requests)
  <2>1. n \in Nat \ {0} /\ n + 1 # 1 /\ (n + 1) - 1 = n /\ Len(requests') + 1 = n
    BY <1>3
  <2>2. requests[n].uri = next /\ requests[n].command = "START"
    BY <1>2, <1>10, <1>11, <2>1 DEF Target, WillRecord
  <2>3. CASE n = 1
    BY <1>6, <2>1, <2>2, <2>3 DEF Target
  <2>4. CASE n # 1
    <3>1. requests'[n - 1] = requests[n]
      BY <1>3, <2>1, <2>4
    <3>. QED
      BY <2>1, <2>2, <2>4, <3>1 DEF Target
  <2>. QED
    BY <2>3, <2>4
<1>. QED
  BY <1>1, <1>9, <1>11, <1>12, <1>13, <1>14 DEF BagsKept

\* All steps keep the bags.
LEMMA SessionKeepsKept ==
  ASSUME IInv, IInv', SessionTypes, SessionTypes', CarefulInv, CarefulInv',
         InStep, BagsKept, ~TopicsMayVanish, [SessionNext]_sessionVars
  PROVE  BagsKept'
<1>1. ASSUME /\ ToSave' => ToSave
             /\ DOMAIN bags' = DOMAIN bags
             /\ unskipped' => unskipped
             /\ smooth' => smooth
             /\ unbroken' => unbroken
             /\ UNCHANGED <<requests, openBag, previous, available>>
             /\ \/ dataset' = dataset /\ saved' = saved
                \/ DOMAIN saved' = {} /\ ~ToSave' /\ (unbroken' => previous # "run")
      PROVE  BagsKept'
  <2>. SUFFICES ASSUME smooth', unskipped', unbroken', available' PROVE BagsKept'
    BY DEF BagsKept
  <2>1. /\ \A i \in DOMAIN saved : WillHave(Bag(i - 1))
        /\ ToSave \/ previous = "run" => WillHave(NextBag)
        /\ previous = "run" => Target(Len(requests) + 1) = NextBag
    <3>1. smooth /\ unskipped /\ unbroken
      BY <1>1
    <3>2. available
      BY <1>1
    <3>. QED
      BY <3>1, <3>2 DEF BagsKept
  <2>2. /\ \A x : WillHave(x)' <=> WillHave(x)
        /\ \A i : Target(i)' = Target(i)
    BY <1>1 DEF WillHave, Deleted, Target
  <2>3. Target(Len(requests) + 1)' = Target(Len(requests) + 1)
    BY <1>1 DEF Target
  <2>4. CASE dataset' = dataset /\ saved' = saved
    <3>1. PICK next : next = NextBag /\ next = NextBag'
      BY <2>4 DEF NextBag, Bag
    <3>2. \A i : Bag(i)' = Bag(i)
      BY <2>4 DEF Bag
    <3>3. ASSUME NEW i \in DOMAIN saved, WillHave(Bag(i - 1))
          PROVE  WillHave(Bag(i - 1))'
      <4>1. PICK x : x = Bag(i - 1)
        OBVIOUS
      <4>. QED
        BY <2>2, <3>2, <3>3, <4>1
    <3>4. WillHave(next)' <=> WillHave(next)
      BY <2>2
    <3>. QED
      BY <1>1, <2>1, <2>3, <2>4, <3>1, <3>3, <3>4 DEF BagsKept
  <2>5. CASE DOMAIN saved' = {} /\ ~ToSave' /\ (unbroken' => previous # "run")
    BY <1>1, <2>5 DEF BagsKept
  <2>. QED
    BY <1>1, <2>4, <2>5
<1>2. CASE Operator
  <2>1. /\ UNCHANGED <<requests, openBag, bags, previous, available, unbroken,
                       dataset, saved>>
        /\ unskipped' => unskipped
        /\ Unsaved' => Unsaved
    BY <1>2, ServerStepDoes DEF ServerStep, SessionTypes, recorderVars
  <2>2. smooth' => smooth /\ (ToSave' => ToSave)
    BY <1>2, <2>1
    DEF Operator, Stop, MoveToNext, Retry, Skip, Finish, Command, ResetFails,
        TakeInProgress, ToSave, Unsaved
  <2>3. CASE smooth'
    BY <1>1, <2>1, <2>2, <2>3
  <2>4. CASE ~smooth'
    BY <2>4 DEF BagsKept
  <2>. QED
    BY <2>3, <2>4
<1>3. CASE \/ SessionEncoder \/ SessionAbort
           \/ Message \/ SessionOver \/ UNCHANGED sessionVars
  <2>1. /\ UNCHANGED <<status, buffer, requests, openBag, previous, available,
                       unskipped, unbroken, dataset, saved>>
        /\ DOMAIN bags' = DOMAIN bags
        /\ smooth' => smooth
    BY <1>3
    DEF SessionAbort, Abort, SessionEncoder, Encoder, EncodeBegin, EncodeEnd,
        EncodeShort, EncodeFail, Encode, Message, Write, SessionOver, Over,
        sessionVars, vars, recorderVars, serverVars
  <2>. QED
    BY <1>1, <2>1 DEF ToSave, Unsaved
<1>4. CASE StartRecord
  <2>1. /\ ~ToSave' /\ (unbroken' => unbroken /\ previous # "run")
        /\ \/ DOMAIN saved' = {}
           \/ dataset' = dataset /\ saved' = saved
        /\ UNCHANGED <<smooth, unskipped, available, previous, requests,
                       openBag, bags>>
    <3>1. /\ status' = "warmup"
          /\ unbroken' = (unbroken /\ previous # "run")
          /\ saved' = << >> \/ (dataset' = dataset /\ saved' = saved)
          /\ UNCHANGED <<smooth, unskipped, available, previous, recorderVars>>
      BY <1>4 DEF StartRecord, OfDataset
    <3>2. unbroken' => unbroken /\ previous # "run"
      BY <3>1 DEF SessionTypes
    <3>. QED
      BY <3>1, <3>2 DEF ToSave, recorderVars
  <2>. QED
    BY <1>1, <2>1
<1>. QED
  BY <1>2, <1>3, <1>4, TickKeepsKept, HandleKeepsKept DEF SessionNext

\* With a careful operator who skips nothing, a robot whose topics stay, times
\* that are not zero, and the recorder there when the robot type was set: the
\* recorder writes the take at hand to its bag; and once a recording is complete
\* and the recorder has handled what it was sent, however late, every episode of
\* the dataset has its bag.
THEOREM EpisodesHaveBagsAlways ==
  ASSUME ~TopicsMayVanish, ~ZeroTimes
  PROVE  SessionSpec => []EpisodesHaveBags
<1>1. SessionInit => BagsKept /\ ReadyInv
  <2>. SUFFICES ASSUME SessionInit PROVE BagsKept /\ ReadyInv
    OBVIOUS
  <2>1. /\ previous = "none" /\ DOMAIN saved = {} /\ ~Unsaved
        /\ requests = << >> /\ recording = FALSE /\ subscribed = FALSE
        /\ status = "warmup" /\ timing = FALSE /\ opened = FALSE
    BY DEF SessionInit, RecorderInit, Init, NoBuffer, Unsaved
  <2>. QED
    BY <2>1, EmptySeq DEF BagsKept, ReadyInv, ToSave
<1>2. IInv /\ IInv' /\ CarefulInv /\ CarefulInv' /\ SessionTypes /\ SessionTypes'
        /\ InStep /\ BagsKept /\ ReadyInv /\ [SessionNext]_sessionVars
        => BagsKept' /\ ReadyInv'
  BY SessionKeepsKept, SessionKeepsReady
<1>3. SessionTypes /\ InStep /\ BagsKept /\ ReadyInv => EpisodesHaveBags
  <2>. SUFFICES ASSUME SessionTypes, InStep, BagsKept, ReadyInv, smooth,
                       unskipped, unbroken, available, requests = << >>
                PROVE  /\ previous = "run"
                            => /\ recording /\ subscribed /\ typed
                               /\ openBag = Bag(Len(saved))
                       /\ session = "completed"
                            => /\ ~recording
                               /\ \A i \in DOMAIN saved :
                                    Bag(i - 1) \in DOMAIN bags
    BY DEF EpisodesHaveBags
  <2>1. Len(requests) = 0 /\ DOMAIN requests = {}
    BY EmptySeq
  <2>2. (recording <=> previous = "run") /\ (previous = "run" => subscribed)
    BY <2>1 DEF InStep, WillRecord, ReadyInv, Ready
  <2>3. previous = "run" => openBag = NextBag /\ typed
    BY <2>1, <2>2 DEF BagsKept, Target, ReadyInv
  <2>4. session = "completed" => ~recording
    BY <2>2 DEF InStep
  <2>5. \A i \in DOMAIN saved : Bag(i - 1) \in DOMAIN bags
    BY <2>1 DEF BagsKept, WillHave
  <2>. QED
    BY <2>2, <2>3, <2>4, <2>5 DEF NextBag
<1>. QED
  BY <1>1, <1>2, <1>3, StepInvariance, PTL DEF SessionSpec
=============================================================================
