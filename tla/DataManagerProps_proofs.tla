----------------------- MODULE DataManagerProps_proofs -----------------------
(***************************************************************************)
(* Proofs about DataManager and DataManagerProps, for every value of their *)
(* constants. First, the consistency of buffer, table and encoders under   *)
(* any sequence of ticks, commands and encoder steps, and what it means    *)
(* for uploads. Second, that the recording implements EpisodeLog: each     *)
(* step, seen through Log, is a step of the log or leaves it alone; the    *)
(* first invariant says which encoders a session that completes has waited *)
(* for. Third, of a smooth recording, with a careful operator, enough      *)
(* memory and encoders that work: nothing recorded is lost or counted      *)
(* wrongly, no save raises, and a completed session is complete.           *)
(***************************************************************************)
EXTENDS DataManagerProps, SequenceTheorems, FiniteSetTheorems, TLAPS

\* The conjunction is inductive: the encoders at work are those of the last
\* episode (OneEncodingAtATime), so that saving, which needs ~onSaving,
\* meets no encoder; and a saved buffer belongs to a save under way, so that
\* no buffer is saved again.
IInv ==
  /\ TypeOK
  /\ BufferMatchesTable
  /\ EpisodesInOrder
  /\ OneEncodingAtATime
  /\ NoEncoderForgotten

----------------------------------------------------------------------------
(* The operators the ticks are built from.                                 *)

\* The two buffers a dataset starts with fit the table.
LEMMA NewBuffersFit ==
  ASSUME IInv
  PROVE  /\ FreshBuffer(episodes) \in Buffers
         /\ BufferFits(FreshBuffer(episodes))
         /\ NoBuffer \in Buffers /\ BufferFits(NoBuffer)
<1>1. Len(episodes) \in Nat /\ 0 \in 0 .. MaxFrames
  BY DataManagerAssumption DEF IInv, TypeOK
<1>. QED
  BY <1>1 DEF FreshBuffer, NoBuffer, Buffers, BufferFits

\* What a tick works on has the type of a buffer and fits the table.
LEMMA DatasetFits ==
  ASSUME IInv, NEW d \in Datasets
  PROVE  d.buffer \in Buffers /\ d.held \in BOOLEAN /\ BufferFits(d.buffer)
<1>1. CASE opened
  <2>1. d = [buffer |-> buffer, held |-> held]
    BY <1>1 DEF Datasets
  <2>. QED
    BY <2>1 DEF IInv, TypeOK, BufferMatchesTable
<1>2. CASE ~opened
  <2>1. \/ d.buffer = FreshBuffer(episodes) /\ d.held = FALSE
        \/ d.buffer = NoBuffer /\ d.held = TRUE
    BY <1>2 DEF Datasets
  <2>. QED
    BY <2>1, NewBuffersFit
<1>. QED
  BY <1>1, <1>2

\* A frame goes into the buffer of the next position.
LEMMA FrameFits ==
  ASSUME IInv, NEW b \in Buffers, BufferFits(b), b.state # "saved"
  PROVE  WithFrame(b) \in Buffers /\ BufferFits(WithFrame(b))
<1>1. curTask % NumTasks \in Tasks
  BY DataManagerAssumption DEF IInv, TypeOK, Tasks
<1>. DEFINE at == IF b.state = "none" THEN FreshBuffer(episodes) ELSE b
<1>2. at \in Buffers /\ at.state = "open" /\ at.index = Len(episodes)
  BY NewBuffersFit DEF FreshBuffer, Buffers, BufferFits
<1>3. WithFrame(b) = [at EXCEPT !.frames = IF @ < MaxFrames THEN @ + 1 ELSE @,
                                !.tasks = @ \cup {curTask % NumTasks}]
  BY DEF WithFrame
<1>. HIDE DEF at
<1>4. (IF at.frames < MaxFrames THEN at.frames + 1 ELSE at.frames)
        \in 0 .. MaxFrames
  BY <1>2, DataManagerAssumption DEF Buffers
<1>5. at.tasks \cup {curTask % NumTasks} \in SUBSET Tasks
  BY <1>1, <1>2 DEF Buffers
<1>6. WithFrame(b) = [state |-> "open", index |-> at.index,
                      frames |-> IF at.frames < MaxFrames THEN at.frames + 1
                                                          ELSE at.frames,
                      tasks |-> at.tasks \cup {curTask % NumTasks}]
  BY <1>2, <1>3 DEF Buffers
<1>7. WithFrame(b) \in Buffers
  BY <1>2, <1>4, <1>5, <1>6 DEF Buffers
<1>8. WithFrame(b).state = "open" /\ WithFrame(b).index = Len(episodes)
  BY <1>2, <1>6
<1>. QED
  BY <1>7, <1>8 DEF BufferFits

\* Saving appends one well-formed episode, numbered by its position, or
\* leaves the table alone.
LEMMA SaveAppends ==
  ASSUME IInv, NEW b \in Buffers, BufferFits(b)
  PROVE  /\ TableAfterSave(b) \in Seq(Episodes)
         /\ ~Saves(b) => TableAfterSave(b) = episodes
         /\ Saves(b) => /\ Len(TableAfterSave(b)) = Len(episodes) + 1
                        /\ \A i \in DOMAIN episodes :
                             TableAfterSave(b)[i] = episodes[i]
                        /\ TableAfterSave(b)[Len(episodes) + 1].index
                             = Len(episodes)
                        /\ TableAfterSave(b)[Len(episodes) + 1].video
                             = IF ~Optimized THEN "whole"
                               ELSE IF SingleTask THEN "queued" ELSE "absent"
<1>. DEFINE e == [index |-> b.index, frames |-> b.frames, tasks |-> b.tasks,
                  video |-> IF ~Optimized THEN "whole"
                            ELSE IF SingleTask THEN "queued" ELSE "absent"]
<1>1. CASE ~Saves(b)
  BY <1>1 DEF TableAfterSave, IInv, TypeOK
<1>2. CASE Saves(b)
  <2>1. e \in Episodes
    BY <1>2, DataManagerAssumption DEF Saves, Buffers, Episodes, Videos
  <2>2. TableAfterSave(b) = Append(episodes, e)
    BY <1>2 DEF TableAfterSave
  <2>3. episodes \in Seq(Episodes)
    BY DEF IInv, TypeOK
  <2>4. e.index = Len(episodes)
    BY <1>2 DEF Saves
  <2>. QED
    BY <1>2, <2>1, <2>2, <2>3, <2>4
<1>. QED BY <1>1, <1>2

\* The buffer a save leaves fits the table it leaves.
LEMMA SaveKeepsFit ==
  ASSUME IInv, NEW b \in Buffers, BufferFits(b), ~SaveRaises(b)
  PROVE  /\ BufferAfterSave(b) \in Buffers
         /\ BufferAfterSave(b).state = "open" =>
              BufferAfterSave(b).index = Len(TableAfterSave(b))
         /\ BufferAfterSave(b).state = "saved" =>
              /\ BufferAfterSave(b).index = Len(TableAfterSave(b)) - 1
              /\ TableAfterSave(b) # << >>
<1>0. TableAfterSave(b) \in Seq(Episodes)
  BY SaveAppends
<1>1. CASE ~Saves(b)
  <2>1. BufferAfterSave(b) = b /\ TableAfterSave(b) = episodes
    BY <1>1 DEF BufferAfterSave, TableAfterSave
  <2>. QED
    BY <2>1 DEF SaveRaises, BufferFits
<1>2. CASE Saves(b) /\ Optimized
  <2>1. BufferAfterSave(b) = [b EXCEPT !.state = "saved"]
    BY <1>2 DEF BufferAfterSave
  <2>2. Len(TableAfterSave(b)) = Len(episodes) + 1 /\ b.index = Len(episodes)
    BY <1>2, SaveAppends DEF Saves
  <2>3. TableAfterSave(b) # << >>
    BY <1>0, <2>2 DEF IInv, TypeOK
  <2>4. BufferAfterSave(b) = [state |-> "saved", index |-> b.index,
                              frames |-> b.frames, tasks |-> b.tasks]
    BY <2>1 DEF Buffers
  <2>. QED
    BY <1>0, <2>2, <2>3, <2>4 DEF Buffers, IInv, TypeOK
<1>3. CASE Saves(b) /\ ~Optimized
  <2>1. BufferAfterSave(b) = FreshBuffer(TableAfterSave(b))
    BY <1>3 DEF BufferAfterSave
  <2>2. Len(TableAfterSave(b)) \in Nat /\ 0 \in 0 .. MaxFrames
    BY <1>0, DataManagerAssumption
  <2>. QED
    BY <2>1, <2>2 DEF FreshBuffer, Buffers
<1>. QED
  BY <1>1, <1>2, <1>3

\* A reset keeps the length and numbering of the table, at most ends the
\* encoding of the last episode early, and never leaves a saved buffer.
LEMMA ResetKeepsTable ==
  ASSUME IInv, NEW b \in Buffers, BufferFits(b), NEW h \in BOOLEAN
  PROVE  /\ BufferAfterReset(b, h) \in Buffers
         /\ BufferAfterReset(b, h).state # "saved"
         /\ BufferFits(BufferAfterReset(b, h))
         /\ TableAfterReset(b, h) \in Seq(Episodes)
         /\ Len(TableAfterReset(b, h)) = Len(episodes)
         /\ DOMAIN TableAfterReset(b, h) = DOMAIN episodes
         /\ \A i \in DOMAIN episodes :
              /\ TableAfterReset(b, h)[i].index = episodes[i].index
              /\ TableAfterReset(b, h)[i].video
                   \in {"queued", "encoding", "cut", "dead"}
                 <=> episodes[i].video \in {"queued", "encoding", "cut", "dead"}
              /\ TableAfterReset(b, h)[i].video \in {"whole", "truncated"}
                 <=> episodes[i].video \in {"whole", "truncated"}
<1>1. /\ BufferAfterReset(b, h) \in Buffers
      /\ BufferAfterReset(b, h).state # "saved"
      /\ BufferFits(BufferAfterReset(b, h))
  BY NewBuffersFit DEF BufferAfterReset, ResetReaches, BufferFits, NoBuffer
<1>2. CASE TableAfterReset(b, h) = episodes
  BY <1>1, <1>2 DEF IInv, TypeOK
<1>3. CASE TableAfterReset(b, h) # episodes
  <2>. DEFINE n == Len(episodes)
              v == CASE episodes[n].video = "queued" -> "dead"
                     [] episodes[n].video = "encoding" -> "cut"
                     [] OTHER -> episodes[n].video
              e == [index |-> episodes[n].index, frames |-> episodes[n].frames,
                    tasks |-> episodes[n].tasks, video |-> v]
  <2>1. b.state = "saved"
    BY <1>3 DEF TableAfterReset
  <2>2. n \in DOMAIN episodes /\ episodes[n] \in Episodes
    BY <2>1 DEF BufferFits, IInv, TypeOK
  <2>3. TableAfterReset(b, h) = [episodes EXCEPT ![n].video = v]
    BY <1>3 DEF TableAfterReset
  <2>4. v \in Videos
    BY <2>2 DEF Episodes, Videos
  <2>5. [episodes[n] EXCEPT !.video = v] = e
    BY <2>2 DEF Episodes
  <2>6. TableAfterReset(b, h) = [episodes EXCEPT ![n] = e]
    BY <2>3, <2>5
  <2>7. e \in Episodes
    BY <2>2, <2>4 DEF Episodes
  <2>8. /\ v \in {"queued", "encoding", "cut", "dead"}
            <=> episodes[n].video \in {"queued", "encoding", "cut", "dead"}
        /\ v \in {"whole", "truncated"}
            <=> episodes[n].video \in {"whole", "truncated"}
    OBVIOUS
  <2>. HIDE DEF v
  <2>. QED
    BY <1>1, <2>2, <2>6, <2>7, <2>8 DEF IInv, TypeOK
<1>. QED
  BY <1>2, <1>3

\* The end of record drops no encoder that is still at work.
LEMMA EndOfRecordKeeps ==
  ASSUME IInv, NEW enc, enc \subseteq DOMAIN episodes',
         episodes' \in Seq(Episodes),
         session = "recording", EndOfRecord(enc)
  PROVE  /\ encoders' \subseteq enc
         /\ \A i \in enc : episodes'[i].video \notin {"whole", "truncated"}
                             => i \in encoders'
         /\ session' \in {"recording", "completed", "aborted", "crashed"}
         /\ uploaded' \in Nat
         /\ uploaded' # uploaded =>
              session' = "completed" /\ encoders' = {}
BY DEF EndOfRecord, KeepGoing, Upload, IInv, TypeOK

----------------------------------------------------------------------------
(* Steps, by what they do to the table.                                    *)

\* The conjuncts of TypeOK that are about one plain variable each.
Plain ==
  /\ status \in Statuses
  /\ onSaving \in BOOLEAN /\ stopSaved \in BOOLEAN
  /\ count \in Nat /\ curTask \in Nat /\ scenario \in Nat
  /\ timing \in BOOLEAN /\ opened \in BOOLEAN /\ held \in BOOLEAN
  /\ session \in {"recording", "completed", "aborted", "crashed"}
  /\ uploaded \in Nat /\ commands \in Nat /\ smooth \in BOOLEAN

\* A step that leaves the table alone, ends no save, and drops only encoders
\* that are done.
LEMMA TableUntouched ==
  ASSUME IInv, Plain', episodes' = episodes,
         buffer' \in Buffers, BufferFits(buffer)',
         ~onSaving' => ~onSaving,
         encoders' \subseteq encoders,
         \A i \in encoders :
            episodes[i].video \notin {"whole", "truncated"} => i \in encoders'
  PROVE  IInv'
<1>1. TypeOK'
  BY DEF IInv, TypeOK, Plain
<1>2. BufferMatchesTable' /\ EpisodesInOrder'
  BY DEF IInv, EpisodesInOrder, BufferMatchesTable
<1>3. OneEncodingAtATime'
  BY DEF IInv, OneEncodingAtATime, SingleTask
<1>4. NoEncoderForgotten'
  BY DEF IInv, NoEncoderForgotten
<1>. QED
  BY <1>1, <1>2, <1>3, <1>4 DEF IInv

\* A step that saves the buffer b.
LEMMA TableSaved ==
  ASSUME IInv, NEW b \in Buffers, BufferFits(b), ~SaveRaises(b),
         ~onSaving, onSaving', status \in {"save", "stop", "finish"},
         status' = status, session = "recording",
         Plain', episodes' = TableAfterSave(b), buffer' = BufferAfterSave(b),
         encoders' \subseteq EncodersAfterSave(b),
         \A i \in EncodersAfterSave(b) :
            episodes'[i].video \notin {"whole", "truncated"} => i \in encoders'
  PROVE  IInv'
<1>1. episodes' \in Seq(Episodes) /\ buffer' \in Buffers
  BY SaveAppends, SaveKeepsFit
<1>2. EncodersAfterSave(b) \subseteq DOMAIN episodes'
  BY SaveAppends DEF EncodersAfterSave, IInv, TypeOK
<1>3. TypeOK'
  BY <1>1, <1>2 DEF TypeOK, Plain
<1>4. BufferMatchesTable'
  BY SaveKeepsFit DEF BufferMatchesTable, BufferFits
<1>5. EpisodesInOrder'
  BY <1>1, SaveAppends DEF EpisodesInOrder, IInv, TypeOK
<1>6. OneEncodingAtATime'
  BY <1>1, SaveAppends
  DEF OneEncodingAtATime, EncodersAfterSave, SingleTask, IInv, TypeOK
<1>7. NoEncoderForgotten'
  <2>. SUFFICES ASSUME NEW i \in DOMAIN episodes',
                       episodes'[i].video
                         \in {"queued", "encoding", "cut", "dead"}
                PROVE  i \in EncodersAfterSave(b)
    BY DEF NoEncoderForgotten
  <2>1. CASE i \in DOMAIN episodes
    BY <2>1, SaveAppends DEF EncodersAfterSave, IInv, NoEncoderForgotten
  <2>2. CASE i \notin DOMAIN episodes
    <3>1. Saves(b) /\ i = Len(episodes) + 1
      BY <1>1, <2>2, SaveAppends DEF IInv, TypeOK
    <3>. QED
      BY <3>1, SaveAppends DEF EncodersAfterSave
  <2>. QED
    BY <2>1, <2>2
<1>. QED
  BY <1>3, <1>4, <1>5, <1>6, <1>7 DEF IInv

\* A step that resets the buffer b: the end of a save, which has waited for
\* the encoders, or an operator's command, which keeps them all.
LEMMA TableReset ==
  ASSUME IInv, NEW b \in Buffers, BufferFits(b), NEW h \in BOOLEAN,
         Plain', episodes' = TableAfterReset(b, h),
         buffer' = BufferAfterReset(b, h),
         \/ encoders' = encoders /\ onSaving' = onSaving
         \/ /\ encoders' = Pending
            /\ SingleTask => EncodingCompleted
  PROVE  IInv'
<1>1. encoders' \subseteq DOMAIN episodes'
  BY ResetKeepsTable DEF Pending, IInv, TypeOK
<1>2. TypeOK'
  BY <1>1, ResetKeepsTable DEF TypeOK, Plain
<1>3. BufferMatchesTable'
  BY ResetKeepsTable DEF BufferMatchesTable, BufferFits
<1>4. EpisodesInOrder'
  BY ResetKeepsTable DEF EpisodesInOrder, IInv
<1>5. OneEncodingAtATime'
  BY ResetKeepsTable
  DEF OneEncodingAtATime, SingleTask, EncodingCompleted, IInv
<1>6. NoEncoderForgotten'
  BY ResetKeepsTable
  DEF NoEncoderForgotten, Pending, Completed, IInv
<1>. QED
  BY <1>2, <1>3, <1>4, <1>5, <1>6 DEF IInv

----------------------------------------------------------------------------
(* The ticks.                                                              *)

\* The counters of tasks stay natural numbers.
LEMMA NextTaskTypes ==
  ASSUME IInv, NextTask
  PROVE  curTask' \in Nat /\ scenario' \in Nat
BY DEF NextTask, IInv, TypeOK

\* With several tasks, finishing queues the video of every episode.
LEMMA FinishManyKeeps ==
  ASSUME IInv, NEW b \in Buffers, BufferFits(b), ~SaveRaises(b), ~SingleTask,
         Save(b), session = "recording", status = "finish", Plain',
         episodes' = [i \in DOMAIN TableAfterSave(b) |->
                       [TableAfterSave(b)[i] EXCEPT !.video = "queued"]],
         EndOfRecord(encoders \cup DOMAIN TableAfterSave(b))
  PROVE  IInv'
<1>. DEFINE T == TableAfterSave(b)
<1>1. T \in Seq(Episodes) /\ \A i \in DOMAIN T : T[i].index = i - 1
  <2>1. episodes \in Seq(Episodes) /\ T \in Seq(Episodes)
    BY SaveAppends DEF IInv, TypeOK
  <2>2. \A i \in DOMAIN episodes : episodes[i].index = i - 1
    BY DEF IInv, EpisodesInOrder
  <2>3. CASE ~Saves(b)
    <3>1. T = episodes
      BY <2>3, SaveAppends
    <3>. QED
      BY <2>1, <2>2, <3>1
  <2>4. CASE Saves(b)
    <3>1. /\ Len(T) = Len(episodes) + 1
          /\ \A i \in DOMAIN episodes : T[i] = episodes[i]
          /\ T[Len(episodes) + 1].index = Len(episodes)
      BY <2>4, SaveAppends
    <3>. HIDE DEF T
    <3>. QED
      BY <2>1, <2>2, <3>1
  <2>. QED
    BY <2>3, <2>4
<1>2. encoders \subseteq DOMAIN T
  BY <1>1, SaveAppends DEF IInv, TypeOK
<1>. HIDE DEF T
<1>3. \A i \in DOMAIN T : [T[i] EXCEPT !.video = "queued"] \in Episodes
  <2>. SUFFICES ASSUME NEW i \in DOMAIN T
                PROVE  [T[i] EXCEPT !.video = "queued"] \in Episodes
    OBVIOUS
  <2>1. T[i] \in Episodes
    BY <1>1
  <2>. QED
    BY <2>1 DEF Episodes, Videos
<1>4. episodes' = [i \in 1 .. Len(T) |-> [T[i] EXCEPT !.video = "queued"]]
  BY <1>1 DEF T
<1>5. episodes' \in Seq(Episodes) /\ Len(episodes') = Len(T)
      /\ DOMAIN episodes' = DOMAIN T
  BY <1>1, <1>3, <1>4
<1>6. \A i \in DOMAIN episodes' : /\ episodes'[i].index = i - 1
                                  /\ episodes'[i].video = "queued"
  BY <1>1, <1>3, <1>4, <1>5 DEF Episodes
<1>7. /\ encoders' \subseteq DOMAIN episodes'
      /\ \A i \in DOMAIN episodes' : i \in encoders'
  <2>. DEFINE enc == encoders \cup DOMAIN T
  <2>1. enc \subseteq DOMAIN episodes' /\ EndOfRecord(enc)
    BY <1>2, <1>5 DEF T
  <2>. HIDE DEF enc
  <2>2. /\ encoders' \subseteq enc
        /\ \A i \in enc : episodes'[i].video \notin {"whole", "truncated"}
                             => i \in encoders'
    BY <1>5, <2>1, EndOfRecordKeeps
  <2>. QED
    BY <1>5, <1>6, <2>1, <2>2 DEF enc
<1>8. TypeOK'
  BY <1>5, <1>7, SaveKeepsFit DEF TypeOK, Plain, Save
<1>9. BufferMatchesTable'
  <2>1. T = << >> => episodes' = << >> /\ Len(T) = 0
    BY <1>1, <1>5
  <2>2. episodes' = << >> => T = << >>
    BY <1>1, <1>5, EmptySeq
  <2>. QED
    BY <1>5, <2>2, SaveKeepsFit DEF BufferMatchesTable, BufferFits, Save, T
<1>10. EpisodesInOrder' /\ NoEncoderForgotten'
  BY <1>6, <1>7 DEF EpisodesInOrder, NoEncoderForgotten
<1>11. OneEncodingAtATime'
  BY DEF OneEncodingAtATime, SingleTask
<1>. QED
  BY <1>8, <1>9, <1>10, <1>11 DEF IInv

\* A tick preserves the invariant: one step per branch of record.
LEMMA TickKeeps ==
  ASSUME IInv, Tick
  PROVE  IInv'
<1>1. PICK d \in Datasets :
        /\ held' = d.held /\ smooth' \in {smooth, FALSE}
        /\ \/ Wait(d.buffer) \/ WaitOver(d.buffer)
           \/ RunFrame(d.buffer) \/ RunOver(d.buffer) \/ RunLowRam(d.buffer)
           \/ SaveBegin(d.buffer) \/ SaveWait(d.buffer)
           \/ SaveDone(d.buffer, d.held)
           \/ StopBegin(d.buffer) \/ StopWait(d.buffer)
           \/ StopDone(d.buffer, d.held)
           \/ FinishBegin(d.buffer) \/ FinishWait(d.buffer)
           \/ FinishDone(d.buffer, d.held)
  BY DEF Tick
<1>. DEFINE b == d.buffer
            h == d.held
<1>2. /\ session = "recording" /\ opened' = TRUE /\ commands' = commands
      /\ b \in Buffers /\ h \in BOOLEAN /\ BufferFits(b)
      /\ held' \in BOOLEAN /\ opened' \in BOOLEAN /\ commands' \in Nat
      /\ smooth' \in BOOLEAN
  BY <1>1, DatasetFits DEF Tick, IInv, TypeOK
<1>3. \A enc : /\ enc \subseteq DOMAIN episodes'
               /\ episodes' \in Seq(Episodes)
               /\ EndOfRecord(enc)
               => /\ encoders' \subseteq enc
                  /\ \A i \in enc :
                       episodes'[i].video \notin {"whole", "truncated"}
                         => i \in encoders'
                  /\ session' \in {"recording", "completed", "aborted",
                                   "crashed"}
                  /\ uploaded' \in Nat
  BY <1>2, EndOfRecordKeeps
<1>4. /\ Pending \subseteq encoders /\ encoders \subseteq DOMAIN episodes
      /\ \A i \in encoders \ Pending :
           episodes[i].video \in {"whole", "truncated"}
  BY DEF Pending, Completed, IInv, TypeOK
<1>5. IInv => /\ status \in Statuses /\ onSaving \in BOOLEAN
              /\ stopSaved \in BOOLEAN /\ count \in Nat /\ curTask \in Nat
              /\ scenario \in Nat /\ uploaded \in Nat /\ timing \in BOOLEAN
              /\ episodes \in Seq(Episodes)
  BY DEF IInv, TypeOK
<1>. HIDE DEF b, h
<1>6. CASE Crash(b)
  <2>1. Plain'
    BY <1>2, <1>5, <1>6 DEF Crash, Plain
  <2>2. BufferFits(buffer)'
    BY <1>2, <1>6 DEF Crash, BufferFits
  <2>. QED
    BY <1>2, <1>6, <2>1, <2>2, TableUntouched DEF Crash
<1>7. CASE Wait(b)
  <2>1. Plain'
    BY <1>2, <1>5, <1>7 DEF Wait, Idle, FirstTask, KeepGoing, Plain
  <2>2. BufferFits(buffer)'
    BY <1>2, <1>7 DEF Wait, Idle, BufferFits
  <2>. QED
    BY <1>2, <1>7, <2>1, <2>2, TableUntouched DEF Wait, Idle
<1>8. CASE WaitOver(b)
  <2>1. encoders \subseteq DOMAIN episodes' /\ episodes' = episodes
        /\ EndOfRecord(encoders)
    BY <1>4, <1>8 DEF WaitOver
  <2>4. curTask' \in Nat /\ scenario' \in Nat
    BY <1>5, <1>8 DEF WaitOver, FirstTask
  <2>5. uploaded' \in Nat
        /\ session' \in {"recording", "completed", "aborted", "crashed"}
    BY <1>3, <1>5, <2>1
  <2>2. Plain'
    BY <1>2, <1>5, <1>8, <2>4, <2>5 DEF WaitOver, Plain, Statuses
  <2>3. BufferFits(buffer)'
    BY <1>2, <1>8 DEF WaitOver, BufferFits
  <2>. QED
    BY <1>2, <1>3, <1>5, <1>8, <2>1, <2>2, <2>3, TableUntouched DEF WaitOver
<1>9. CASE RunFrame(b)
  <2>1. encoders \subseteq DOMAIN episodes' /\ episodes' = episodes
        /\ EndOfRecord(encoders)
    BY <1>4, <1>9 DEF RunFrame
  <2>2. Plain'
    BY <1>2, <1>3, <1>5, <1>9, <2>1 DEF RunFrame, Plain
  <2>3. b.state # "saved"
    BY <1>2, <1>9 DEF RunFrame, BufferFits
  <2>4. buffer' \in Buffers /\ BufferFits(WithFrame(b))
    BY <1>2, <1>9, <2>3, FrameFits DEF RunFrame
  <2>5. BufferFits(buffer)'
    BY <1>9, <2>4 DEF RunFrame, BufferFits
  <2>. QED
    BY <1>3, <1>5, <1>9, <2>1, <2>2, <2>4, <2>5, TableUntouched DEF RunFrame
<1>10. CASE RunOver(b)
  <2>1. encoders \subseteq DOMAIN episodes' /\ episodes' = episodes
        /\ EndOfRecord(encoders)
    BY <1>4, <1>10 DEF RunOver
  <2>2. Plain'
    BY <1>2, <1>3, <1>5, <1>10, <2>1 DEF RunOver, Plain, Statuses
  <2>3. BufferFits(buffer)'
    BY <1>2, <1>10 DEF RunOver, BufferFits
  <2>. QED
    BY <1>2, <1>3, <1>5, <1>10, <2>1, <2>2, <2>3, TableUntouched DEF RunOver
<1>11. CASE RunLowRam(b)
  <2>1. Plain'
    BY <1>2, <1>5, <1>11 DEF RunLowRam, KeepGoing, Plain, Statuses
  <2>2. BufferFits(buffer)'
    BY <1>2, <1>11 DEF RunLowRam, BufferFits
  <2>. QED
    BY <1>2, <1>11, <2>1, <2>2, TableUntouched DEF RunLowRam
<1>12. CASE SaveBegin(b)
  <2>1. CASE SaveRaises(b) /\ Crash(b)
    BY <1>6, <2>1
  <2>2. CASE /\ ~SaveRaises(b) /\ Save(b) /\ episodes' = TableAfterSave(b)
             /\ EndOfRecord(EncodersAfterSave(b))
    <3>1. episodes' \in Seq(Episodes)
          /\ EncodersAfterSave(b) \subseteq DOMAIN episodes'
      BY <1>2, <1>4, <1>5, <2>2, SaveAppends DEF EncodersAfterSave
    <3>2. Plain'
      BY <1>2, <1>3, <1>5, <1>12, <2>2, <3>1 DEF Save, Plain, SaveBegin
    <3>. QED
      BY <1>2, <1>3, <1>12, <2>2, <3>1, <3>2, TableSaved DEF Save, SaveBegin
  <2>. QED
    BY <1>12, <2>1, <2>2 DEF SaveBegin, Save
<1>13. CASE SaveWait(b)
  <2>1. Pending \subseteq DOMAIN episodes' /\ episodes' = episodes
        /\ EndOfRecord(Pending)
    BY <1>4, <1>13 DEF SaveWait, Idle
  <2>2. Plain'
    BY <1>2, <1>3, <1>5, <1>13, <2>1 DEF SaveWait, Idle, Plain
  <2>3. BufferFits(buffer)'
    BY <1>2, <1>13 DEF SaveWait, Idle, BufferFits
  <2>. QED
    BY <1>2, <1>3, <1>4, <1>5, <1>13, <2>1, <2>2, <2>3, TableUntouched
    DEF SaveWait, Idle
<1>14. CASE SaveDone(b, h)
  <2>1. /\ episodes' = TableAfterReset(b, h) /\ buffer' = BufferAfterReset(b, h)
        /\ EndOfRecord(Pending) /\ (~SingleTask \/ EncodingCompleted)
    BY <1>14 DEF SaveDone, EpisodeDone
  <2>2. episodes' \in Seq(Episodes) /\ Pending \subseteq DOMAIN episodes'
    BY <1>2, <1>4, <2>1, ResetKeepsTable
  <2>5. curTask' \in Nat /\ scenario' \in Nat
    BY <1>14, NextTaskTypes DEF SaveDone, EpisodeDone
  <2>6. uploaded' \in Nat
        /\ session' \in {"recording", "completed", "aborted", "crashed"}
    BY <1>3, <2>1, <2>2
  <2>8. count' \in Nat
    BY <1>5, <1>14 DEF SaveDone, EpisodeDone
  <2>7. /\ onSaving' = FALSE /\ timing' = FALSE
        /\ stopSaved' = stopSaved /\ status' \in {"reset", "finish"}
    BY <1>14 DEF SaveDone, EpisodeDone
  <2>3. Plain'
    BY <1>2, <1>5, <2>5, <2>6, <2>7, <2>8 DEF Plain, Statuses
  <2>4. encoders' = Pending
    BY <1>2, <1>4, <2>1, ResetKeepsTable
    DEF EndOfRecord, Pending, Completed
  <2>. QED
    BY <1>2, <2>1, <2>3, <2>4, TableReset
<1>15. CASE StopBegin(b)
  <2>1. CASE SaveRaises(b) /\ Crash(b)
    BY <1>6, <2>1
  <2>2. CASE /\ ~SaveRaises(b) /\ Save(b) /\ episodes' = TableAfterSave(b)
             /\ KeepGoing /\ encoders' = EncodersAfterSave(b)
    <3>1. Plain'
      BY <1>2, <1>5, <2>2 DEF Save, Plain, KeepGoing
    <3>. QED
      BY <1>2, <1>15, <2>2, <3>1, TableSaved DEF Save, StopBegin
  <2>. QED
    BY <1>15, <2>1, <2>2 DEF StopBegin, Save
<1>16. CASE StopWait(b)
  <2>1. Plain'
    BY <1>2, <1>5, <1>16 DEF StopWait, Idle, KeepGoing, Plain
  <2>2. BufferFits(buffer)'
    BY <1>2, <1>16 DEF StopWait, Idle, BufferFits
  <2>3. encoders' = encoders \/ encoders' = Pending
    BY <1>16 DEF StopWait
  <2>. QED
    BY <1>2, <1>4, <1>16, <2>1, <2>2, <2>3, TableUntouched
    DEF StopWait, Idle
<1>17. CASE StopDone(b, h)
  <2>1. /\ episodes' = TableAfterReset(b, h) /\ buffer' = BufferAfterReset(b, h)
        /\ encoders' = Pending /\ EncodingCompleted
    BY <1>17 DEF StopDone, EpisodeDone
  <2>2. curTask' \in Nat /\ scenario' \in Nat
    BY <1>17, NextTaskTypes DEF StopDone, EpisodeDone
  <2>5. count' \in Nat
    BY <1>5, <1>17 DEF StopDone, EpisodeDone
  <2>4. /\ onSaving' = FALSE /\ timing' = FALSE
        /\ stopSaved' = TRUE /\ status' = status /\ session' = session
        /\ uploaded' = uploaded
    BY <1>17 DEF StopDone, EpisodeDone, KeepGoing
  <2>3. Plain'
    BY <1>2, <1>5, <2>2, <2>4, <2>5 DEF Plain
  <2>. QED
    BY <1>2, <2>1, <2>3, TableReset
<1>18. CASE FinishBegin(b)
  <2>1. CASE Crash(b)
    BY <1>6, <2>1
  <2>2. CASE /\ ~SaveRaises(b) /\ Save(b) /\ SingleTask
             /\ episodes' = TableAfterSave(b)
             /\ EndOfRecord(EncodersAfterSave(b))
    <3>1. episodes' \in Seq(Episodes)
          /\ EncodersAfterSave(b) \subseteq DOMAIN episodes'
      BY <1>2, <1>4, <1>5, <2>2, SaveAppends DEF EncodersAfterSave
    <3>2. Plain'
      BY <1>2, <1>3, <1>5, <1>18, <2>2, <3>1 DEF Save, Plain, FinishBegin
    <3>. QED
      BY <1>2, <1>3, <1>18, <2>2, <3>1, <3>2, TableSaved
      DEF Save, FinishBegin
  <2>3. CASE /\ ~SaveRaises(b) /\ Save(b) /\ ~SingleTask
             /\ episodes' = [i \in DOMAIN TableAfterSave(b) |->
                              [TableAfterSave(b)[i] EXCEPT !.video = "queued"]]
             /\ EndOfRecord(encoders \cup DOMAIN TableAfterSave(b))
    <3>1. session' \in {"recording", "completed", "aborted", "crashed"}
          /\ uploaded' \in Nat
      <4>1. Len(episodes') \in Nat
        <5>1. TableAfterSave(b) \in Seq(Episodes)
          BY <1>2, SaveAppends
        <5>2. episodes' = [i \in 1 .. Len(TableAfterSave(b)) |-> episodes'[i]]
          BY <2>3, <5>1
        <5>. QED
          BY <5>1, <5>2
      <4>. QED
        BY <1>2, <1>5, <2>3, <4>1 DEF EndOfRecord, KeepGoing, Upload
    <3>2. Plain'
      BY <1>2, <1>5, <2>3, <3>1 DEF Save, Plain
    <3>. QED
      BY <1>2, <1>18, <2>3, <3>2, FinishManyKeeps DEF FinishBegin
  <2>. QED
    BY <1>18, <2>1, <2>2, <2>3 DEF FinishBegin, FinishRaises
<1>19. CASE FinishWait(b)
  <2>1. Pending \subseteq DOMAIN episodes' /\ episodes' = episodes
        /\ EndOfRecord(Pending)
    BY <1>4, <1>19 DEF FinishWait, Idle
  <2>2. Plain'
    BY <1>2, <1>3, <1>5, <1>19, <2>1 DEF FinishWait, Idle, Plain
  <2>3. BufferFits(buffer)'
    BY <1>2, <1>19 DEF FinishWait, Idle, BufferFits
  <2>. QED
    BY <1>2, <1>3, <1>4, <1>5, <1>19, <2>1, <2>2, <2>3, TableUntouched
    DEF FinishWait, Idle
<1>20. CASE FinishDone(b, h)
  <2>1. /\ episodes' = TableAfterReset(b, h) /\ buffer' = BufferAfterReset(b, h)
        /\ encoders' = Pending /\ EncodingCompleted
        /\ session' = "completed" /\ Upload
    BY <1>20 DEF FinishDone
  <2>2. episodes' \in Seq(Episodes)
    BY <1>2, <2>1, ResetKeepsTable
  <2>3. uploaded' \in Nat
    BY <1>5, <2>1, <2>2 DEF Upload
  <2>4. Plain'
    BY <1>2, <1>5, <1>20, <2>1, <2>3 DEF FinishDone, Plain
  <2>. QED
    BY <1>2, <2>1, <2>4, TableReset
<1>. QED
  BY <1>1, <1>7, <1>8, <1>9, <1>10, <1>11, <1>12, <1>13, <1>14,
     <1>15, <1>16, <1>17, <1>18, <1>19, <1>20
  DEF b, h

----------------------------------------------------------------------------
(* Commands and encoder threads.                                           *)

\* A command that only changes the status, to one where saving may go on.
LEMMA StatusCommandKeeps ==
  ASSUME IInv, NEW c, Command(c),
         status' \in {"save", "stop", "finish", status},
         UNCHANGED <<stopSaved, curTask, scenario, timing, buffer, episodes>>
  PROVE  IInv'
<1>1. commands' \in Nat /\ smooth' \in BOOLEAN
  BY DEF Command, IInv, TypeOK
<1>2. status' \in Statuses
  BY DEF IInv, TypeOK, Statuses
<1>3. Plain'
  BY <1>1, <1>2 DEF Command, IInv, TypeOK, Plain
<1>4. buffer' \in Buffers /\ BufferFits(buffer)'
  BY DEF Command, IInv, TypeOK, BufferMatchesTable, BufferFits
<1>. QED
  BY <1>3, <1>4, TableUntouched DEF Command

\* A retry or a skip, whether its reset reaches the buffer or not.
LEMMA ResetCommandKeeps ==
  ASSUME IInv, NEW c, Command(c), OperatorReset, status' \in Statuses,
         curTask' \in Nat, scenario' \in Nat
  PROVE  IInv'
<1>1. commands' \in Nat /\ smooth' \in BOOLEAN
  BY DEF Command, IInv, TypeOK
<1>2. Plain'
  BY <1>1 DEF Command, OperatorReset, IInv, TypeOK, Plain
<1>3. buffer \in Buffers /\ BufferFits(buffer) /\ held \in BOOLEAN
  BY DEF IInv, TypeOK, BufferMatchesTable
<1>. QED
  BY <1>2, <1>3, TableReset DEF Command, OperatorReset

\* One that finds no dataset clears only _stop_save_completed.
LEMMA FailedCommandKeeps ==
  ASSUME IInv, NEW c, Command(c), ResetFails
  PROVE  IInv'
<1>1. commands' \in Nat /\ smooth' \in BOOLEAN
  BY DEF Command, IInv, TypeOK
<1>2. Plain'
  BY <1>1 DEF Command, ResetFails, IInv, TypeOK, Plain
<1>3. buffer' \in Buffers /\ BufferFits(buffer)'
  BY DEF Command, ResetFails, IInv, TypeOK, BufferMatchesTable, BufferFits
<1>. QED
  BY <1>2, <1>3, TableUntouched DEF Command, ResetFails

\* A step of an encoder thread changes one video, which was not finished.
LEMMA EncodeKeeps ==
  ASSUME IInv, NEW i \in DOMAIN episodes,
         NEW from \in SUBSET {"queued", "encoding", "cut"},
         NEW to \in Videos, Encode(i, from, to), smooth' \in BOOLEAN
  PROVE  IInv'
<1>. DEFINE e == [index |-> episodes[i].index, frames |-> episodes[i].frames,
                  tasks |-> episodes[i].tasks, video |-> to]
<1>1. episodes \in Seq(Episodes) /\ episodes[i] \in Episodes
  BY DEF IInv, TypeOK
<1>2. [episodes[i] EXCEPT !.video = to] = e /\ e \in Episodes
  BY <1>1 DEF Episodes
<1>3. episodes' = [episodes EXCEPT ![i] = e]
  BY <1>2 DEF Encode
<1>4. /\ episodes' \in Seq(Episodes) /\ Len(episodes') = Len(episodes)
      /\ DOMAIN episodes' = DOMAIN episodes
      /\ \A j \in DOMAIN episodes :
           /\ episodes'[j].index = episodes[j].index
           /\ j # i => episodes'[j].video = episodes[j].video
  BY <1>1, <1>2, <1>3
<1>5. i \in encoders
  BY DEF Encode, IInv, NoEncoderForgotten
<1>6. TypeOK'
  BY <1>4 DEF IInv, TypeOK, Encode
<1>7. BufferMatchesTable'
  <2>1. episodes = << >> <=> episodes' = << >>
    BY <1>1, <1>4, EmptySeq
  <2>. QED
    BY <1>4, <2>1 DEF IInv, BufferMatchesTable, BufferFits, Encode
<1>8. EpisodesInOrder' /\ OneEncodingAtATime'
  BY <1>4 DEF IInv, EpisodesInOrder, OneEncodingAtATime, SingleTask, Encode
<1>9. NoEncoderForgotten'
  BY <1>4, <1>5 DEF IInv, NoEncoderForgotten, Encode
<1>. QED
  BY <1>6, <1>7, <1>8, <1>9 DEF IInv

----------------------------------------------------------------------------
(* The theorems.                                                           *)

\* The invariant holds initially.
LEMMA InitEstablishes == Init => IInv
<1>. SUFFICES ASSUME Init PROVE IInv
  OBVIOUS
<1>1. buffer \in Buffers
  BY DataManagerAssumption DEF Init, NoBuffer, Buffers
<1>2. episodes \in Seq(Episodes) /\ encoders \subseteq DOMAIN episodes
  BY EmptySeq DEF Init
<1>3. TypeOK
  BY <1>1, <1>2 DEF Init, TypeOK, Statuses
<1>. QED
  BY <1>3
  DEF Init, IInv, BufferMatchesTable, BufferFits, NoBuffer, EpisodesInOrder,
      OneEncodingAtATime, NoEncoderForgotten

\* Every step preserves it: one case per action of Next.
LEMMA NextKeeps == IInv /\ [Next]_vars => IInv'
<1>. SUFFICES ASSUME IInv, [Next]_vars PROVE IInv'
  OBVIOUS
<1>1. CASE Tick
  BY <1>1, TickKeeps
<1>2. CASE Stop
  BY <1>2, StatusCommandKeeps DEF Stop
<1>3. CASE MoveToNext
  BY <1>3, StatusCommandKeeps DEF MoveToNext
<1>4. CASE Finish
  BY <1>4, StatusCommandKeeps DEF Finish
<1>5. CASE Retry
  <2>1. CASE ResetFails
    BY <1>5, <2>1, FailedCommandKeeps DEF Retry
  <2>2. CASE OperatorReset /\ status' = "reset"
             /\ UNCHANGED <<curTask, scenario>>
    <3>1. status' \in Statuses /\ curTask' \in Nat /\ scenario' \in Nat
      BY <2>2 DEF Statuses, IInv, TypeOK
    <3>. QED
      BY <1>5, <2>2, <3>1, ResetCommandKeeps DEF Retry
  <2>. QED
    BY <1>5, <2>1, <2>2 DEF Retry
<1>6. CASE Skip
  <2>1. CASE ResetFails
    BY <1>6, <2>1, FailedCommandKeeps DEF Skip
  <2>2. CASE OperatorReset /\ status' = "skip_task" /\ NextTask
    <3>1. status' \in Statuses /\ curTask' \in Nat /\ scenario' \in Nat
      BY <2>2, NextTaskTypes DEF Statuses
    <3>. QED
      BY <1>6, <2>2, <3>1, ResetCommandKeeps DEF Skip
  <2>. QED
    BY <1>6, <2>1, <2>2 DEF Skip
<1>7. CASE Encoder
  <2>1. PICK i \in DOMAIN episodes :
          EncodeBegin(i) \/ EncodeEnd(i) \/ EncodeShort(i) \/ EncodeFail(i)
    BY <1>7 DEF Encoder
  <2>. smooth \in BOOLEAN
    BY DEF IInv, TypeOK
  <2>2. CASE EncodeBegin(i)
    BY <2>2, EncodeKeeps DEF EncodeBegin, Videos
  <2>3. CASE EncodeEnd(i)
    BY <2>3, EncodeKeeps DEF EncodeEnd, Videos
  <2>4. CASE EncodeShort(i)
    BY <2>4, EncodeKeeps DEF EncodeShort, Videos
  <2>5. CASE EncodeFail(i)
    BY <2>5, EncodeKeeps DEF EncodeFail, Videos
  <2>. QED
    BY <2>1, <2>2, <2>3, <2>4, <2>5
<1>8. CASE UNCHANGED vars
  BY <1>8
  DEF vars, IInv, TypeOK, BufferMatchesTable, BufferFits, EpisodesInOrder,
      OneEncodingAtATime, NoEncoderForgotten, SingleTask
<1>9. CASE Abort
  <2>1. Plain' /\ buffer' \in Buffers /\ BufferFits(buffer)'
    BY <1>9
    DEF Abort, Plain, IInv, TypeOK, BufferMatchesTable, BufferFits
  <2>. QED
    BY <1>9, <2>1, TableUntouched DEF Abort
<1>. QED
  BY <1>1, <1>2, <1>3, <1>4, <1>5, <1>6, <1>7, <1>8, <1>9 DEF Next, Over

\* The inductive invariant is an invariant.
THEOREM Invariance == Spec => []IInv
BY InitEstablishes, NextKeeps, PTL DEF Spec

\* Every variable of a recording session keeps its type.
THEOREM TypeCorrect == Spec => []TypeOK
<1>1. IInv => TypeOK
  BY DEF IInv
<1>. QED
  BY <1>1, Invariance, PTL

\* No take is saved twice or refused because the table moved on.
THEOREM BufferMatchesTableAlways == Spec => []BufferMatchesTable
<1>1. IInv => BufferMatchesTable
  BY DEF IInv
<1>. QED
  BY <1>1, Invariance, PTL

\* The episodes of the table are numbered in order, without gaps.
THEOREM EpisodesInOrderAlways == Spec => []EpisodesInOrder
<1>1. IInv => EpisodesInOrder
  BY DEF IInv
<1>. QED
  BY <1>1, Invariance, PTL

\* With one task, at most one saved episode is being encoded at any time.
THEOREM OneEncodingAlways == Spec => []OneEncodingAtATime
<1>1. IInv => OneEncodingAtATime
  BY DEF IInv
<1>. QED
  BY <1>1, Invariance, PTL

\* No encoder thread at work is missing from those the session waits for.
THEOREM NoEncoderForgottenAlways == Spec => []NoEncoderForgotten
<1>1. IInv => NoEncoderForgotten
  BY DEF IInv
<1>. QED
  BY <1>1, Invariance, PTL

\* What is pushed to the hub has no video that is still to be finished: an
\* upload happens when no encoder is left, and none is forgotten.
THEOREM UploadsFinished == Spec => UploadsFinishedVideos
<1>. DEFINE A == uploaded' # uploaded =>
                   /\ session' = "completed"
                   /\ \A i \in DOMAIN episodes' : episodes'[i].video
                        \notin {"queued", "encoding", "cut", "dead"}
<1>1. IInv /\ IInv' /\ [Next]_vars => A
  <2>. SUFFICES ASSUME IInv, IInv', [Next]_vars, uploaded' # uploaded
                PROVE  A
    OBVIOUS
  <2>1. Tick
    BY DEF Next, vars, Abort, Stop, MoveToNext, Finish, Retry, Skip, Command,
           Encoder, EncodeBegin, EncodeEnd, EncodeShort, EncodeFail, Encode,
           Over
  <2>2. PICK d \in Datasets :
          \/ \E enc : EndOfRecord(enc)
          \/ FinishDone(d.buffer, d.held)
    BY <2>1
    DEF Tick, Wait, WaitOver, RunFrame, RunOver, RunLowRam, SaveBegin,
        SaveWait, SaveDone, StopBegin, StopWait, StopDone, FinishBegin,
        FinishWait, Crash, KeepGoing
  <2>3. session' = "completed" /\ encoders' = {}
    BY <2>2 DEF EndOfRecord, KeepGoing, FinishDone, EncodingCompleted
  <2>. QED
    BY <2>3 DEF IInv, NoEncoderForgotten
<1>. QED
  BY <1>1, Invariance, PTL DEF Spec, UploadsFinishedVideos

\* Neither is an encoder forgotten, nor are two at work for one task.
THEOREM EncodersInHandAlways == Spec => []EncodersInHand
<1>1. IInv => EncodersInHand
  BY DEF IInv, EncodersInHand
<1>. QED
  BY <1>1, Invariance, PTL

----------------------------------------------------------------------------
(* The scenario counter.                                                   *)

\* A quotient goes up by one when the remainder comes back to zero.
LEMMA QuotientSteps ==
  ASSUME NEW c \in Nat, NEW n \in Nat \ {0}
  PROVE  (c + 1) \div n = IF (c + 1) % n = 0 THEN (c \div n) + 1 ELSE c \div n
<1>. DEFINE q == c \div n
            p == (c + 1) \div n
            r == c % n
            s == (c + 1) % n
<1>1. q \in Int /\ r \in 0 .. n - 1 /\ c = n * q + r
  OBVIOUS
<1>2. p \in Int /\ s \in 0 .. n - 1 /\ c + 1 = n * p + s
  OBVIOUS
<1>. HIDE DEF q, p, r, s
<1>3. n * (p - q) = r + 1 - s
  BY <1>1, <1>2
<1>4. p - q < 2 /\ p - q > -1
  <2>. DEFINE k == p - q
  <2>1. k \in Int /\ n * k = r + 1 - s
    BY <1>1, <1>2, <1>3
  <2>. HIDE DEF k
  <2>2. n * k <= n /\ n * k > -n
    BY <1>1, <1>2, <2>1
  <2>3. k < 2
    BY <2>1, <2>2
  <2>4. k > -1
    BY <2>1, <2>2
  <2>. QED
    BY <2>3, <2>4 DEF k
<1>5. p = q \/ p = q + 1
  BY <1>1, <1>2, <1>4
<1>6. s = 0 => p = q + 1
  BY <1>1, <1>2, <1>3, <1>5
<1>7. s # 0 => p = q
  BY <1>1, <1>2, <1>3, <1>5
<1>. QED
  BY <1>6, <1>7 DEF p, q, s

\* The scenario is the number of rounds through all tasks, whatever saves, stops,
\* skips and new warm-ups come in between.
THEOREM ScenarioAlways == Spec => []ScenarioFollowsTask
<1>1. Init => ScenarioFollowsTask
  BY DataManagerAssumption DEF Init, ScenarioFollowsTask
<1>2. IInv /\ ScenarioFollowsTask /\ [Next]_vars => ScenarioFollowsTask'
  <2>. SUFFICES ASSUME IInv, ScenarioFollowsTask, [Next]_vars
                PROVE  ScenarioFollowsTask'
    OBVIOUS
  <2>1. \/ UNCHANGED <<curTask, scenario>>
        \/ curTask' = 0 /\ scenario' = 0
        \/ NextTask
    BY DEF Next, vars, Over, Tick, Abort, Encoder, EncodeBegin, EncodeEnd,
           EncodeShort, EncodeFail, Encode, Stop, MoveToNext, Retry, Skip,
           Finish, ResetFails, OperatorReset, RunLowRam, Wait, WaitOver,
           FirstTask, RunFrame, RunOver, SaveBegin, SaveWait, SaveDone,
           StopBegin, StopWait, StopDone, FinishBegin, FinishWait, FinishDone,
           Crash, Save, Idle, EpisodeDone
  <2>2. CASE UNCHANGED <<curTask, scenario>>
    BY <2>2 DEF ScenarioFollowsTask
  <2>3. CASE curTask' = 0 /\ scenario' = 0
    BY <2>3, DataManagerAssumption DEF ScenarioFollowsTask
  <2>4. CASE NextTask
    <3>1. curTask \in Nat /\ NumTasks \in Nat \ {0}
      BY DataManagerAssumption DEF IInv, TypeOK
    <3>2. (curTask + 1) \div NumTasks
            = IF (curTask + 1) % NumTasks = 0 THEN (curTask \div NumTasks) + 1
                                              ELSE curTask \div NumTasks
      BY ONLY <3>1, QuotientSteps
    <3>. QED
      BY <2>4, <3>2 DEF NextTask, ScenarioFollowsTask
  <2>. QED
    BY <2>1, <2>2, <2>3, <2>4
<1>. QED
  BY <1>1, <1>2, Invariance, PTL DEF Spec

----------------------------------------------------------------------------
(* The instructions of an episode.                                         *)

\* A buffer b with frames has instructions; it has none at warm-up; and once
\* the dataset holds frames, so that every reset reaches the buffer, it has
\* none but the task at hand's.
InstructionsFit(b, h) ==
  b.state = "open" =>
    /\ b.frames > 0 => b.tasks # {}
    /\ status = "warmup" => b.tasks = {}
    /\ h \/ episodes # << >> => b.tasks \subseteq {curTask % NumTasks}

InstructionsInv ==
  /\ ~opened => episodes = << >>
  /\ InstructionsFit(buffer, held)
  /\ OneInstruction

\* So does the buffer a tick works on.
LEMMA DatasetInstructions ==
  ASSUME IInv, InstructionsInv, NEW d \in Datasets
  PROVE  /\ InstructionsFit(d.buffer, d.held)
         /\ episodes # << >> => d.held = held
<1>1. CASE opened
  BY <1>1 DEF Datasets, InstructionsInv
<1>2. CASE ~opened
  <2>1. \/ d.buffer = FreshBuffer(episodes) /\ d.held = FALSE
        \/ d.buffer = NoBuffer /\ d.held = TRUE
    BY <1>2 DEF Datasets
  <2>. QED
    BY <1>2, <2>1 DEF FreshBuffer, NoBuffer, InstructionsInv, InstructionsFit
<1>. QED
  BY <1>1, <1>2

\* A step that leaves the table alone and goes on with the buffer b, or with
\* one more frame of the task at hand.
LEMMA InstructionsKept ==
  ASSUME IInv, IInv', InstructionsInv, NEW b \in Buffers, InstructionsFit(b, held'),
         episodes' = episodes, episodes # << >> => held' = held, opened',
         status' = "warmup" => status = "warmup",
         \/ curTask' = curTask
         \/ status = "warmup",
         \/ buffer' = b
         \/ /\ status = "run" /\ b.state # "saved" /\ buffer' = WithFrame(b)
            /\ status' = "run" /\ curTask' = curTask
  PROVE  InstructionsInv'
<1>1. OneInstruction'
  BY DEF OneInstruction, InstructionsInv, IInv, TypeOK
<1>2. CASE buffer' = b
  BY <1>1, <1>2 DEF InstructionsInv, InstructionsFit
<1>3. CASE buffer' # b
  <2>. DEFINE at == IF b.state = "none" THEN FreshBuffer(episodes) ELSE b
  <2>1. /\ at \in Buffers /\ at.state = "open"
        /\ held' \/ episodes # << >> => at.tasks \subseteq {curTask % NumTasks}
    BY <1>3, NewBuffersFit DEF FreshBuffer, InstructionsFit, Buffers
  <2>2. buffer' = [at EXCEPT !.frames = IF @ < MaxFrames THEN @ + 1 ELSE @,
                             !.tasks = @ \cup {curTask % NumTasks}]
    BY <1>3 DEF WithFrame
  <2>. HIDE DEF at
  <2>3. buffer'.tasks = at.tasks \cup {curTask % NumTasks}
    BY <2>1, <2>2 DEF Buffers
  <2>4. status' # "warmup" /\ curTask' = curTask /\ episodes' = episodes
    BY <1>3
  <2>5. InstructionsFit(buffer, held)'
    BY <2>1, <2>3, <2>4 DEF InstructionsFit
  <2>. QED
    BY <1>1, <2>5 DEF InstructionsInv
<1>. QED
  BY <1>2, <1>3

\* A step that saves the buffer b: the new episode has its instructions.
LEMMA InstructionsSaved ==
  ASSUME IInv, IInv', InstructionsInv, NEW b \in Buffers, BufferFits(b),
         InstructionsFit(b, held'), ~SaveRaises(b),
         episodes # << >> => held' = held, opened',
         status' # "warmup", curTask' = curTask, buffer' = BufferAfterSave(b),
         DOMAIN episodes' = DOMAIN TableAfterSave(b),
         \A i \in DOMAIN episodes' :
           episodes'[i].tasks = TableAfterSave(b)[i].tasks
  PROVE  InstructionsInv'
<1>1. episodes \in Seq(Episodes) /\ episodes' \in Seq(Episodes)
      /\ TableAfterSave(b) \in Seq(Episodes)
  BY SaveAppends DEF IInv, TypeOK
<1>2. CASE ~Saves(b)
  <2>1. TableAfterSave(b) = episodes /\ buffer' = b
    BY <1>2, SaveAppends DEF BufferAfterSave
  <2>2. Len(episodes') = Len(episodes) /\ (episodes' = << >> <=> episodes = << >>)
    BY <1>1, <2>1
  <2>3. OneInstruction'
    BY <1>1, <2>1, <2>2 DEF OneInstruction, InstructionsInv
  <2>4. InstructionsFit(buffer, held)'
    BY <2>1, <2>2 DEF InstructionsFit
  <2>. QED
    BY <2>3, <2>4 DEF InstructionsInv
<1>3. CASE Saves(b)
  <2>1. /\ Len(TableAfterSave(b)) = Len(episodes) + 1
        /\ \A i \in DOMAIN episodes : TableAfterSave(b)[i] = episodes[i]
    BY <1>3, SaveAppends
  <2>2. TableAfterSave(b)[Len(episodes) + 1].tasks = b.tasks
    BY <1>1, <1>3 DEF TableAfterSave
  <2>3. b.tasks # {} /\ (held' \/ episodes # << >>
          => b.tasks = {curTask % NumTasks})
    BY <1>3 DEF Saves, InstructionsFit
  <2>4. held' \/ episodes # << >> => Cardinality(b.tasks) = 1
    BY <2>3, FS_Singleton
  <2>5. \A i \in DOMAIN episodes' :
          i \in DOMAIN episodes \/ i = Len(episodes) + 1
    BY <1>1, <2>1
  <2>6. Len(episodes) + 1 = 1 <=> episodes = << >>
    BY <1>1, EmptySeq
  <2>7. OneInstruction'
    <3>. SUFFICES ASSUME NEW i \in DOMAIN episodes'
                  PROVE  Cardinality(episodes'[i].tasks) = 1
                           \/ (i = 1 /\ ~held')
      BY DEF OneInstruction
    <3>1. CASE i \in DOMAIN episodes
      <4>1. episodes # << >>
        BY <1>1, <3>1, EmptySeq
      <4>2. Cardinality(episodes[i].tasks) = 1 \/ (i = 1 /\ ~held)
        BY <3>1 DEF InstructionsInv, OneInstruction
      <4>3. episodes'[i].tasks = episodes[i].tasks
        BY <2>1, <3>1
      <4>. QED
        BY <4>1, <4>2, <4>3
    <3>2. CASE i = Len(episodes) + 1
      <4>1. episodes'[i].tasks = b.tasks
        BY <2>2, <3>2
      <4>. QED
        BY <2>4, <2>6, <3>2, <4>1
    <3>. QED
      BY <2>5, <3>1, <3>2
  <2>8. InstructionsFit(buffer, held)'
    <3>1. CASE Optimized
      BY <1>3, <3>1 DEF BufferAfterSave, Buffers, InstructionsFit
    <3>2. CASE ~Optimized
      <4>1. buffer' = FreshBuffer(TableAfterSave(b))
        BY <1>3, <3>2 DEF BufferAfterSave
      <4>. QED
        BY <4>1 DEF FreshBuffer, InstructionsFit
    <3>. QED
      BY <3>1, <3>2
  <2>. QED
    BY <2>7, <2>8 DEF InstructionsInv
<1>. QED
  BY <1>2, <1>3

\* A step that resets the buffer b: gone, or kept when nothing was saved. The
\* instructions of the episodes stay.
LEMMA InstructionsReset ==
  ASSUME IInv, IInv', InstructionsInv, NEW b \in Buffers, BufferFits(b),
         InstructionsFit(b, held'),
         episodes # << >> => held' = held, ~opened' => ~opened,
         status' # "warmup", buffer' = BufferAfterReset(b, held'),
         episodes' = TableAfterReset(b, held')
  PROVE  InstructionsInv'
<1>1. /\ Len(episodes') = Len(episodes) /\ DOMAIN episodes' = DOMAIN episodes
      /\ episodes \in Seq(Episodes) /\ episodes' \in Seq(Episodes)
      /\ episodes' = << >> <=> episodes = << >>
  <2>1. episodes \in Seq(Episodes) /\ held' \in BOOLEAN
    BY DEF IInv, TypeOK
  <2>2. /\ episodes' \in Seq(Episodes) /\ Len(episodes') = Len(episodes)
        /\ DOMAIN episodes' = DOMAIN episodes
    BY <2>1, ResetKeepsTable
  <2>. QED
    BY <2>1, <2>2, EmptySeq
<1>2. \A i \in DOMAIN episodes : episodes'[i].tasks = episodes[i].tasks
  <2>1. CASE episodes' = episodes
    BY <2>1
  <2>2. CASE episodes' # episodes
    <3>. DEFINE n == Len(episodes)
                v == CASE episodes[n].video = "queued" -> "dead"
                       [] episodes[n].video = "encoding" -> "cut"
                       [] OTHER -> episodes[n].video
    <3>1. episodes' = [episodes EXCEPT ![n].video = v]
      BY <2>2 DEF TableAfterReset
    <3>2. episodes' = [episodes EXCEPT ![n] = [episodes[n] EXCEPT !.video = v]]
      BY <3>1
    <3>. HIDE DEF n, v
    <3>3. \A i \in DOMAIN episodes : episodes[i] \in Episodes
      BY <1>1
    <3>4. \A i \in DOMAIN episodes : i # n => episodes'[i] = episodes[i]
      BY <3>2
    <3>5. n \in DOMAIN episodes
            => episodes'[n] = [episodes[n] EXCEPT !.video = v]
      BY <3>2
    <3>6. n \in DOMAIN episodes
            => [episodes[n] EXCEPT !.video = v].tasks = episodes[n].tasks
      BY <3>3 DEF Episodes
    <3>. QED
      BY <3>4, <3>5, <3>6
  <2>. QED
    BY <2>1, <2>2
<1>3. OneInstruction'
  BY <1>1, <1>2, EmptySeq DEF OneInstruction, InstructionsInv
<1>4. InstructionsFit(buffer, held)'
  <2>1. CASE ResetReaches(held')
    BY <2>1 DEF BufferAfterReset, NoBuffer, InstructionsFit
  <2>2. CASE ~ResetReaches(held')
    BY <1>1, <2>2 DEF BufferAfterReset, ResetReaches, InstructionsFit
  <2>. QED
    BY <2>1, <2>2
<1>. QED
  BY <1>1, <1>3, <1>4 DEF InstructionsInv

\* A tick.
LEMMA TickInstructs ==
  ASSUME IInv, IInv', InstructionsInv, Tick
  PROVE  InstructionsInv'
<1>1. PICK d \in Datasets :
        /\ held' = d.held
        /\ \/ Wait(d.buffer) \/ WaitOver(d.buffer)
           \/ RunFrame(d.buffer) \/ RunOver(d.buffer) \/ RunLowRam(d.buffer)
           \/ SaveBegin(d.buffer) \/ SaveWait(d.buffer)
           \/ SaveDone(d.buffer, d.held)
           \/ StopBegin(d.buffer) \/ StopWait(d.buffer)
           \/ StopDone(d.buffer, d.held)
           \/ FinishBegin(d.buffer) \/ FinishWait(d.buffer)
           \/ FinishDone(d.buffer, d.held)
  BY DEF Tick
<1>. DEFINE b == d.buffer
<1>2. /\ b \in Buffers /\ BufferFits(b) /\ InstructionsFit(b, held') /\ opened'
      /\ episodes # << >> => held' = held
  BY <1>1, DatasetFits, DatasetInstructions DEF Tick
<1>3. /\ held' = d.held
      /\ \/ Wait(b) \/ WaitOver(b) \/ RunFrame(b) \/ RunOver(b)
         \/ RunLowRam(b) \/ SaveBegin(b) \/ SaveWait(b)
         \/ SaveDone(b, d.held) \/ StopBegin(b) \/ StopWait(b)
         \/ StopDone(b, d.held) \/ FinishBegin(b) \/ FinishWait(b)
         \/ FinishDone(b, d.held)
  BY <1>1
<1>. HIDE DEF b
<1>4. CASE Wait(b) \/ WaitOver(b)
  BY <1>2, <1>4, InstructionsKept DEF Wait, WaitOver, Idle, FirstTask
<1>5. CASE RunOver(b) \/ RunLowRam(b)
  BY <1>2, <1>5, InstructionsKept DEF RunOver, RunLowRam
<1>6. CASE RunFrame(b)
  <2>1. b.state # "saved"
    BY <1>2, <1>6 DEF RunFrame, BufferFits
  <2>. QED
    BY <1>2, <1>6, <2>1, InstructionsKept DEF RunFrame
<1>7. CASE SaveWait(b) \/ StopWait(b) \/ FinishWait(b)
  BY <1>2, <1>7, InstructionsKept DEF SaveWait, StopWait, FinishWait, Idle
<1>8. CASE Crash(b)
  BY <1>2, <1>8, InstructionsKept DEF Crash
<1>9. CASE /\ ~SaveRaises(b) /\ Save(b) /\ status # "warmup"
           /\ episodes' = TableAfterSave(b)
  BY <1>2, <1>9, InstructionsSaved DEF Save
<1>10. CASE /\ ~SaveRaises(b) /\ Save(b) /\ status # "warmup"
            /\ episodes' = [i \in DOMAIN TableAfterSave(b) |->
                 [TableAfterSave(b)[i] EXCEPT !.video = "queued"]]
  <2>1. \A i \in DOMAIN TableAfterSave(b) : TableAfterSave(b)[i] \in Episodes
    BY <1>2, SaveAppends
  <2>2. DOMAIN episodes' = DOMAIN TableAfterSave(b)
    BY <1>10
  <2>3. \A i \in DOMAIN episodes' :
          episodes'[i].tasks = TableAfterSave(b)[i].tasks
    BY <1>10, <2>1 DEF Episodes
  <2>. QED
    BY <1>2, <1>10, <2>2, <2>3, InstructionsSaved DEF Save
<1>11. CASE SaveDone(b, d.held) \/ StopDone(b, d.held) \/ FinishDone(b, d.held)
  <2>1. /\ buffer' = BufferAfterReset(b, held')
        /\ episodes' = TableAfterReset(b, held') /\ status' # "warmup"
    BY <1>3, <1>11 DEF SaveDone, StopDone, FinishDone, EpisodeDone
  <2>. QED
    BY <1>2, <2>1, InstructionsReset
<1>12. CASE SaveBegin(b) \/ StopBegin(b)
  <2>1. /\ status # "warmup"
        /\ \/ Crash(b)
           \/ ~SaveRaises(b) /\ Save(b) /\ episodes' = TableAfterSave(b)
    BY <1>12 DEF SaveBegin, StopBegin, Save
  <2>. QED
    BY <1>8, <1>9, <2>1
<1>13. CASE FinishBegin(b)
  <2>1. status # "warmup" /\ (~FinishRaises(b) => ~SaveRaises(b))
    BY <1>13 DEF FinishBegin, FinishRaises
  <2>. QED
    BY <1>8, <1>9, <1>10, <1>13, <2>1 DEF FinishBegin
<1>. QED
  BY <1>3, <1>4, <1>5, <1>6, <1>7, <1>11, <1>12, <1>13

\* A step of the operator or of an encoder.
LEMMA OtherInstructs ==
  ASSUME IInv, IInv', InstructionsInv,
         Abort \/ Stop \/ MoveToNext \/ Retry \/ Skip \/ Finish \/ Encoder
           \/ UNCHANGED vars
  PROVE  InstructionsInv'
<1>0. buffer \in Buffers /\ BufferFits(buffer)
  BY DEF IInv, TypeOK, BufferMatchesTable
<1>1. CASE /\ UNCHANGED <<curTask, opened, held, buffer, episodes>>
           /\ status' = "warmup" => status = "warmup"
  BY <1>1 DEF InstructionsInv, InstructionsFit, OneInstruction
<1>2. CASE /\ OperatorReset /\ status' # "warmup"
           /\ UNCHANGED <<opened, held>>
  BY <1>0, <1>2, InstructionsReset DEF OperatorReset, InstructionsInv
<1>3. CASE Encoder
  <2>1. PICK i \in DOMAIN episodes, v \in Videos, from \in SUBSET Videos :
          Encode(i, from, v)
    BY <1>3
    DEF Encoder, EncodeBegin, EncodeEnd, EncodeShort, EncodeFail, Videos
  <2>2. /\ episodes' = [episodes EXCEPT ![i].video = v]
        /\ UNCHANGED <<status, curTask, opened, held, buffer>>
    BY <2>1 DEF Encode
  <2>3. episodes' = [episodes EXCEPT ![i] = [episodes[i] EXCEPT !.video = v]]
        /\ episodes[i] \in Episodes
    BY <2>2 DEF IInv, TypeOK
  <2>4. [episodes[i] EXCEPT !.video = v].tasks = episodes[i].tasks
    BY <2>3 DEF Episodes
  <2>5. DOMAIN episodes' = DOMAIN episodes /\ episodes # << >>
    BY <2>3, EmptySeq DEF IInv, TypeOK
  <2>6. \A j \in DOMAIN episodes : episodes'[j].tasks = episodes[j].tasks
    BY <2>3, <2>4
  <2>. QED
    BY <2>2, <2>5, <2>6 DEF InstructionsInv, InstructionsFit, OneInstruction
<1>. QED
  BY <1>1, <1>2, <1>3
  DEF Abort, Stop, MoveToNext, Retry, Skip, Finish, Command, ResetFails, vars

\* Whatever is retried, skipped, stopped and saved, an episode has frames of one
\* instruction, unless it is the first of a dataset that was new.
THEOREM OneInstructionAlways == Spec => []OneInstruction
<1>1. Init => InstructionsInv
  BY DEF Init, InstructionsInv, InstructionsFit, OneInstruction, NoBuffer
<1>2. IInv /\ IInv' /\ InstructionsInv /\ [Next]_vars => InstructionsInv'
  BY TickInstructs, OtherInstructs DEF Next, Over
<1>3. InstructionsInv => OneInstruction
  BY DEF InstructionsInv
<1>. QED
  BY <1>1, <1>2, <1>3, Invariance, PTL DEF Spec

----------------------------------------------------------------------------
(* The refinement of EpisodeLog.                                           *)

\* The log of a table is as long as the table.
LEMMA LogOfTable ==
  ASSUME NEW T \in Seq(Episodes)
  PROVE  /\ Len(LogOf(T)) = Len(T)
         /\ DOMAIN LogOf(T) = 1 .. Len(T) /\ DOMAIN T = 1 .. Len(T)
         /\ \A i \in 1 .. Len(T) : LogOf(T)[i] = Entry(T[i])
<1>1. LogOf(T) = [i \in 1 .. Len(T) |-> Entry(T[i])]
  BY DEF LogOf
<1>. QED
  BY <1>1

\* The log's view of an episode.
LEMMA EntryFields ==
  ASSUME NEW e
  PROVE  /\ Entry(e).index = e.index /\ Entry(e).frames = e.frames
         /\ Entry(e).tasks = e.tasks /\ Entry(e).video = VideoOf(e.video)
BY DEF Entry

\* What a step does to the table, as a step of the log.
LogStep == EL!Record \/ EL!Promise \/ EL!Settle \/ UNCHANGED Log

----------------------------------------------------------------------------

\* A save records one episode, or nothing.
LEMMA SaveIsRecord ==
  ASSUME IInv, NEW b \in Buffers, BufferFits(b),
         episodes' = TableAfterSave(b)
  PROVE  LogStep
<1>1. episodes \in Seq(Episodes) /\ episodes' \in Seq(Episodes)
  BY SaveAppends DEF IInv, TypeOK
<1>2. CASE ~Saves(b)
  BY <1>2, SaveAppends DEF LogStep, Log
<1>3. CASE Saves(b)
  <2>. DEFINE n == Len(episodes)
  <2>1. /\ n \in Nat /\ Len(episodes') = n + 1
        /\ \A i \in 1 .. n : episodes'[i] = episodes[i]
        /\ episodes'[n + 1].index = n
    BY <1>1, <1>3, SaveAppends
  <2>2. episodes'[n + 1] \in Episodes
    BY <1>1, <2>1
  <2>3. episodes'[n + 1].frames > 0
    BY <2>2, DataManagerAssumption DEF Episodes
  <2>. HIDE DEF n
  <2>4. /\ Len(Log) = n /\ DOMAIN Log = 1 .. n
        /\ \A i \in 1 .. n : Log[i] = Entry(episodes[i])
    BY <1>1, LogOfTable DEF Log, n
  <2>5. /\ Len(Log') = n + 1 /\ DOMAIN Log' = 1 .. n + 1
        /\ \A i \in 1 .. n + 1 : Log'[i] = Entry(episodes'[i])
    BY <1>1, <2>1, LogOfTable DEF Log
  <2>6. \A i \in 1 .. n : Log'[i] = Log[i]
    BY <2>1, <2>4, <2>5
  <2>7. Log'[n + 1].index = n /\ Log'[n + 1].frames > 0
    BY <2>1, <2>3, <2>5, EntryFields
  <2>8. DOMAIN Log' \ DOMAIN Log = {n + 1}
    BY <2>1, <2>4, <2>5
  <2>. QED
    BY <2>1, <2>4, <2>5, <2>6, <2>7, <2>8
    DEF LogStep, EL!Record, EL!Grows, EL!SameTake
<1>. QED
  BY <1>2, <1>3

\* The end of several tasks promises a video of every episode.
LEMMA FinishIsPromise ==
  ASSUME IInv, NEW b \in Buffers, BufferFits(b), TableAfterSave(b) # << >>,
         episodes' = [i \in DOMAIN TableAfterSave(b) |->
                       [TableAfterSave(b)[i] EXCEPT !.video = "queued"]]
  PROVE  LogStep
<1>. DEFINE T == TableAfterSave(b)
            n == Len(episodes)
            m == Len(T)
<1>1. episodes \in Seq(Episodes) /\ T \in Seq(Episodes)
  BY SaveAppends DEF IInv, TypeOK
<1>2. /\ n \in Nat /\ m \in {n, n + 1} /\ m # 0
      /\ \A i \in 1 .. n : T[i] = episodes[i]
      /\ m = n + 1 => T[m].index = n
  BY <1>1, SaveAppends
<1>3. \A i \in 1 .. m : T[i] \in Episodes
  BY <1>1
<1>4. episodes' = [i \in 1 .. m |-> [T[i] EXCEPT !.video = "queued"]]
  BY <1>1
<1>. HIDE DEF T, n, m
<1>5. \A i \in 1 .. m :
        /\ episodes'[i].index = T[i].index /\ episodes'[i].frames = T[i].frames
        /\ episodes'[i].tasks = T[i].tasks /\ episodes'[i].video = "queued"
        /\ episodes'[i] \in Episodes
  BY <1>3, <1>4 DEF Episodes, Videos
<1>6. episodes' \in Seq(Episodes) /\ Len(episodes') = m
  BY <1>2, <1>4, <1>5
<1>7. /\ Len(Log) = n /\ DOMAIN Log = 1 .. n
      /\ \A i \in 1 .. n : Log[i] = Entry(episodes[i])
  BY <1>1, LogOfTable DEF Log, n
<1>8. /\ Len(Log') = m /\ DOMAIN Log' = 1 .. m
      /\ \A i \in 1 .. m : Log'[i] = Entry(episodes'[i])
  BY <1>6, LogOfTable DEF Log
<1>9. \A i \in 1 .. n : EL!SameTake(Log'[i], Log[i])
  <2>. SUFFICES ASSUME NEW i \in 1 .. n PROVE EL!SameTake(Log'[i], Log[i])
    OBVIOUS
  <2>1. i \in 1 .. m
    BY <1>2
  <2>. QED
    <3>1. Log'[i] = Entry(episodes'[i]) /\ Log[i] = Entry(T[i])
      BY <2>1, <1>2, <1>7, <1>8
    <3>2. /\ Log'[i].index = episodes'[i].index /\ Log[i].index = T[i].index
          /\ Log'[i].frames = episodes'[i].frames /\ Log[i].frames = T[i].frames
          /\ Log'[i].tasks = episodes'[i].tasks /\ Log[i].tasks = T[i].tasks
      BY ONLY <3>1, EntryFields
    <3>. QED
      BY <2>1, <3>2, <1>5 DEF EL!SameTake
<1>10. \A i \in 1 .. m : Log'[i].video = "promised"
  <2>. SUFFICES ASSUME NEW i \in 1 .. m PROVE Log'[i].video = "promised"
    OBVIOUS
  <2>1. Log'[i] = Entry(episodes'[i]) /\ episodes'[i].video = "queued"
    BY <1>5, <1>8
  <2>. QED
    BY <2>1 DEF Entry, VideoOf
<1>11. \A i \in DOMAIN Log' \ DOMAIN Log :
         Log'[i].index = Len(Log) /\ Log'[i].frames > 0
  <2>. SUFFICES ASSUME NEW i \in DOMAIN Log' \ DOMAIN Log
                PROVE  Log'[i].index = n /\ Log'[i].frames > 0
    BY <1>7
  <2>1. i = m /\ m = n + 1 /\ i \in 1 .. m
    BY <1>2, <1>7, <1>8
  <2>2. T[i].index = n /\ T[i].frames > 0
    BY <2>1, <1>2, <1>3, DataManagerAssumption DEF Episodes
  <2>. QED
    <3>1. Log'[i] = Entry(episodes'[i])
      BY <2>1, <1>8
    <3>2. /\ Log'[i].index = episodes'[i].index
          /\ Log'[i].frames = episodes'[i].frames
      BY ONLY <3>1, EntryFields
    <3>. QED
      BY <2>1, <2>2, <3>2, <1>5
<1>12. Log' # << >>
  BY <1>2, <1>8
<1>. QED
  BY <1>2, <1>7, <1>8, <1>9, <1>10, <1>11, <1>12
  DEF LogStep, EL!Promise, EL!Grows

\* A step that changes the video of one episode: the log does not see it, or
\* it settles a promise.
LEMMA VideoChanges ==
  ASSUME IInv, NEW i \in DOMAIN episodes, NEW v \in Videos,
         episodes' = [episodes EXCEPT ![i].video = v],
         VideoOf(v) # VideoOf(episodes[i].video) =>
           /\ VideoOf(episodes[i].video) = "promised"
           /\ VideoOf(v) \in {"final", "lost"}
  PROVE  EL!Settle \/ UNCHANGED Log
<1>. DEFINE n == Len(episodes)
<1>1. episodes \in Seq(Episodes) /\ i \in 1 .. n /\ n \in Nat
  BY DEF IInv, TypeOK
<1>2. \A k \in 1 .. n : episodes[k] \in Episodes
  BY <1>1
<1>3. episodes' = [k \in 1 .. n |-> IF k = i THEN [episodes[i] EXCEPT !.video = v]
                                              ELSE episodes[k]]
  <2>1. DOMAIN episodes = 1 .. n
    BY <1>1
  <2>. HIDE DEF n
  <2>. QED
    BY <1>1, <2>1
<1>. HIDE DEF n
<1>4. /\ episodes'[i].index = episodes[i].index
      /\ episodes'[i].frames = episodes[i].frames
      /\ episodes'[i].tasks = episodes[i].tasks /\ episodes'[i].video = v
      /\ episodes'[i] \in Episodes
      /\ \A k \in 1 .. n \ {i} : episodes'[k] = episodes[k]
  BY <1>1, <1>2, <1>3 DEF Episodes
<1>5. episodes' \in Seq(Episodes) /\ Len(episodes') = n
  BY <1>1, <1>2, <1>3, <1>4
<1>6. Log = [k \in 1 .. n |-> Entry(episodes[k])]
  BY <1>1 DEF Log, LogOf, n
<1>7. Log' = [k \in 1 .. n |-> Entry(episodes'[k])]
  BY <1>3 DEF Log, LogOf
<1>. DEFINE w == VideoOf(v)
<1>8. Entry(episodes'[i]) = [Entry(episodes[i]) EXCEPT !.video = w]
  BY <1>4 DEF Entry
<1>9. Log' = [Log EXCEPT ![i].video = w]
  <2>. HIDE DEF w
  <2>1. Log' = [k \in 1 .. n |-> IF k = i THEN [Log[i] EXCEPT !.video = w]
                                          ELSE Log[k]]
    BY <1>1, <1>4, <1>6, <1>7, <1>8
  <2>2. DOMAIN Log = 1 .. n
    BY <1>6
  <2>. QED
    BY <1>1, <2>1, <2>2
<1>10. CASE w = VideoOf(episodes[i].video)
  <2>1. Entry(episodes'[i]) = Entry(episodes[i])
    BY <1>4, <1>10 DEF Entry
  <2>. QED
    BY <1>4, <1>6, <1>7, <2>1
<1>11. CASE w # VideoOf(episodes[i].video)
  <2>1. Log[i].video = "promised" /\ w \in {"final", "lost"}
    BY <1>1, <1>6, <1>11, EntryFields
  <2>2. i \in DOMAIN Log
    BY <1>1, <1>6
  <2>. QED
    BY <1>9, <2>1, <2>2 DEF EL!Settle
<1>. QED
  BY <1>10, <1>11

\* A reset that takes the images of an encoder that has not begun loses its
\* video; the log does not see that one at work is cut short.
LEMMA ResetSettles ==
  ASSUME IInv, NEW b \in Buffers, BufferFits(b), NEW h,
         episodes' = TableAfterReset(b, h)
  PROVE  EL!Settle \/ UNCHANGED Log
<1>1. CASE episodes' = episodes
  BY <1>1 DEF Log
<1>2. CASE episodes' # episodes
  <2>. DEFINE n == Len(episodes)
              v == CASE episodes[n].video = "queued" -> "dead"
                     [] episodes[n].video = "encoding" -> "cut"
                     [] OTHER -> episodes[n].video
  <2>1. b.state = "saved" /\ episodes' = [episodes EXCEPT ![n].video = v]
    BY <1>2 DEF TableAfterReset
  <2>2. n \in DOMAIN episodes /\ episodes[n] \in Episodes
    BY <2>1 DEF BufferFits, IInv, TypeOK
  <2>3. v \in Videos
    BY <2>2 DEF Episodes, Videos
  <2>4. VideoOf(v) # VideoOf(episodes[n].video) =>
          /\ VideoOf(episodes[n].video) = "promised"
          /\ VideoOf(v) \in {"final", "lost"}
    BY DEF VideoOf
  <2>. HIDE DEF n, v
  <2>. QED
    BY <2>1, <2>2, <2>3, <2>4, VideoChanges
<1>. QED
  BY <1>1, <1>2

\* An encoder thread's step.
LEMMA EncoderSettles ==
  ASSUME IInv, Encoder
  PROVE  /\ EL!Settle \/ UNCHANGED Log
         /\ UNCHANGED <<session, uploaded>>
<1>1. PICK i \in DOMAIN episodes, v \in {"encoding", "whole", "truncated", "dead"},
           from \in SUBSET {"queued", "encoding", "cut"} :
        /\ Encode(i, from, v)
        /\ v = "encoding" => from = {"queued"}
  BY DEF Encoder, EncodeBegin, EncodeEnd, EncodeShort, EncodeFail
<1>2. /\ episodes' = [episodes EXCEPT ![i].video = v]
      /\ episodes[i].video \in {"queued", "encoding", "cut"}
      /\ v = "encoding" => episodes[i].video = "queued"
      /\ UNCHANGED <<session, uploaded>>
  BY <1>1 DEF Encode
<1>3. VideoOf(v) # VideoOf(episodes[i].video) =>
        /\ VideoOf(episodes[i].video) = "promised"
        /\ VideoOf(v) \in {"final", "lost"}
  BY <1>1, <1>2 DEF VideoOf
<1>4. v \in Videos
  BY <1>1 DEF Videos
<1>. QED
  BY <1>2, <1>3, <1>4, VideoChanges

----------------------------------------------------------------------------
(* The session.                                                            *)

\* A step that ends a session as completed leaves no promise open.
LEMMA NoPromiseOpen ==
  ASSUME IInv', encoders' = {}
  PROVE  \A i \in DOMAIN Log' : Log'[i].video \in {"none", "final"}
<1>1. episodes' \in Seq(Episodes)
  BY DEF IInv, TypeOK
<1>. SUFFICES ASSUME NEW i \in DOMAIN Log'
              PROVE  Log'[i].video \in {"none", "final"}
  OBVIOUS
<1>2. i \in DOMAIN episodes' /\ Log'[i].video = VideoOf(episodes'[i].video)
  BY <1>1, LogOfTable, EntryFields DEF Log
<1>3. episodes'[i].video \in Videos
  <2>1. episodes'[i] \in Episodes
    BY <1>1, <1>2
  <2>. QED
    BY <2>1 DEF Episodes
<1>4. episodes'[i].video \notin {"queued", "encoding", "cut", "dead"}
  BY <1>2 DEF IInv, NoEncoderForgotten
<1>. QED
  BY <1>2, <1>3, <1>4 DEF Videos, VideoOf

\* The pushed episodes are those of the log.
LEMMA UploadIsLog ==
  ASSUME IInv', Upload
  PROVE  uploaded' \in {uploaded, Len(Log')}
<1>1. Len(Log') = Len(episodes')
  BY LogOfTable DEF IInv, TypeOK, Log
<1>. QED
  BY <1>1 DEF Upload

\* The end of record goes on or completes.
LEMMA EndOfRecordCompletes ==
  ASSUME IInv', NEW enc, EndOfRecord(enc)
  PROVE  EL!GoesOn \/ EL!Completes
<1>1. \/ UNCHANGED <<session, uploaded>>
      \/ encoders' = {} /\ session' = "completed" /\ Upload
  BY DEF EndOfRecord, KeepGoing
<1>. QED
  BY <1>1, NoPromiseOpen, UploadIsLog DEF EL!GoesOn, EL!Completes

SessionStep == EL!GoesOn \/ EL!Breaks \/ EL!Completes

\* An exception of a save ends the session.
LEMMA CrashBreaks ==
  ASSUME NEW b, Crash(b)
  PROVE  SessionStep /\ UNCHANGED Log
BY DEF Crash, SessionStep, EL!Breaks, Log

\* A tick is a step of the log and of the session.
LEMMA TickIsStep ==
  ASSUME IInv, IInv', Tick
  PROVE  LogStep /\ SessionStep
<1>1. PICK d \in Datasets :
        \/ RunLowRam(d.buffer) \/ Wait(d.buffer) \/ WaitOver(d.buffer)
        \/ RunFrame(d.buffer) \/ RunOver(d.buffer)
        \/ SaveBegin(d.buffer) \/ SaveWait(d.buffer)
        \/ SaveDone(d.buffer, d.held)
        \/ StopBegin(d.buffer) \/ StopWait(d.buffer)
        \/ StopDone(d.buffer, d.held)
        \/ FinishBegin(d.buffer) \/ FinishWait(d.buffer)
        \/ FinishDone(d.buffer, d.held)
  BY DEF Tick
<1>. DEFINE b == d.buffer
            h == d.held
<1>2. b \in Buffers /\ BufferFits(b)
  BY DatasetFits
<1>. HIDE DEF b, h
<1>3. CASE RunLowRam(b) \/ Wait(b)
  BY <1>3 DEF RunLowRam, Wait, Idle, KeepGoing, LogStep, SessionStep,
              EL!GoesOn, Log
<1>4. CASE WaitOver(b) \/ RunFrame(b) \/ RunOver(b) \/ SaveWait(b)
           \/ FinishWait(b)
  <2>1. episodes' = episodes /\ \E enc : EndOfRecord(enc)
    BY <1>4 DEF WaitOver, RunFrame, RunOver, SaveWait, FinishWait, Idle
  <2>. QED
    BY <2>1, EndOfRecordCompletes DEF LogStep, SessionStep, Log
<1>5. CASE StopWait(b)
  BY <1>5 DEF StopWait, Idle, KeepGoing, LogStep, SessionStep, EL!GoesOn, Log
<1>6. CASE SaveBegin(b)
  <2>1. CASE Crash(b)
    BY <2>1, CrashBreaks DEF LogStep
  <2>2. CASE episodes' = TableAfterSave(b) /\ EndOfRecord(EncodersAfterSave(b))
    BY <1>2, <2>2, SaveIsRecord, EndOfRecordCompletes DEF SessionStep
  <2>. QED
    BY <1>6, <2>1, <2>2 DEF SaveBegin
<1>7. CASE StopBegin(b)
  <2>1. CASE Crash(b)
    BY <2>1, CrashBreaks DEF LogStep
  <2>2. CASE episodes' = TableAfterSave(b) /\ KeepGoing
    BY <1>2, <2>2, SaveIsRecord DEF SessionStep, KeepGoing, EL!GoesOn
  <2>. QED
    BY <1>7, <2>1, <2>2 DEF StopBegin
<1>8. CASE SaveDone(b, h)
  <2>1. episodes' = TableAfterReset(b, h) /\ EndOfRecord(Pending)
    BY <1>8 DEF SaveDone, EpisodeDone
  <2>. QED
    BY <1>2, <2>1, ResetSettles, EndOfRecordCompletes DEF LogStep, SessionStep
<1>9. CASE StopDone(b, h)
  <2>1. episodes' = TableAfterReset(b, h) /\ KeepGoing
    BY <1>9 DEF StopDone, EpisodeDone
  <2>. QED
    BY <1>2, <2>1, ResetSettles DEF LogStep, SessionStep, KeepGoing, EL!GoesOn
<1>10. CASE FinishBegin(b)
  <2>1. CASE Crash(b)
    BY <2>1, CrashBreaks DEF LogStep
  <2>2. CASE /\ episodes' = TableAfterSave(b)
             /\ EndOfRecord(EncodersAfterSave(b))
    BY <1>2, <2>2, SaveIsRecord, EndOfRecordCompletes DEF SessionStep
  <2>3. CASE /\ ~FinishRaises(b) /\ ~SingleTask
             /\ episodes' = [i \in DOMAIN TableAfterSave(b) |->
                     [TableAfterSave(b)[i] EXCEPT !.video = "queued"]]
             /\ EndOfRecord(encoders \cup DOMAIN TableAfterSave(b))
    <3>1. TableAfterSave(b) # << >>
      BY <2>3 DEF FinishRaises
    <3>2. LogStep
      BY <1>2, <2>3, <3>1, FinishIsPromise
    <3>. QED
      BY <2>3, <3>2, EndOfRecordCompletes DEF SessionStep
  <2>. QED
    BY <1>10, <2>1, <2>2, <2>3 DEF FinishBegin
<1>11. CASE FinishDone(b, h)
  <2>1. /\ episodes' = TableAfterReset(b, h) /\ encoders' = {}
        /\ session' = "completed" /\ Upload
    BY <1>11 DEF FinishDone, EncodingCompleted
  <2>2. EL!Completes
    BY <2>1, NoPromiseOpen, UploadIsLog DEF EL!Completes
  <2>. QED
    BY <1>2, <2>1, <2>2, ResetSettles DEF LogStep, SessionStep
<1>. QED
  BY <1>1, <1>3, <1>4, <1>5, <1>6, <1>7, <1>8, <1>9, <1>10, <1>11 DEF b, h

\* A command leaves the table alone, or resets it.
LEMMA CommandIsStep ==
  ASSUME IInv, Stop \/ MoveToNext \/ Retry \/ Skip \/ Finish
  PROVE  session = "recording" /\ LogStep /\ EL!GoesOn
<1>1. session = "recording" /\ UNCHANGED <<session, uploaded>>
  BY DEF Stop, MoveToNext, Retry, Skip, Finish, Command
<1>2. buffer \in Buffers /\ BufferFits(buffer)
  BY DEF IInv, TypeOK, BufferMatchesTable
<1>3. episodes' = episodes \/ episodes' = TableAfterReset(buffer, held)
  BY DEF Stop, MoveToNext, Retry, Skip, Finish, ResetFails, OperatorReset
<1>. QED
  BY <1>1, <1>2, <1>3, ResetSettles DEF LogStep, EL!GoesOn, Log

\* Each step of a session is one of the log, or leaves it alone.
LEMMA StepSimulates ==
  IInv /\ IInv' /\ [Next]_vars => [EL!Next]_(EL!vars)
<1>. SUFFICES ASSUME IInv, IInv', [Next]_vars PROVE [EL!Next]_(EL!vars)
  OBVIOUS
<1>1. CASE Tick
  <2>1. session = "recording"
    BY <1>1 DEF Tick
  <2>. QED
    BY <1>1, <2>1, TickIsStep DEF LogStep, SessionStep, EL!Next
<1>2. CASE Stop \/ MoveToNext \/ Retry \/ Skip \/ Finish
  BY <1>2, CommandIsStep DEF LogStep, EL!Next
<1>3. CASE Encoder
  <2>1. (EL!Settle \/ UNCHANGED Log) /\ EL!GoesOn
    BY <1>3, EncoderSettles DEF EL!GoesOn
  <2>. QED
    BY <2>1 DEF EL!Next, EL!vars, EL!GoesOn
<1>4. CASE Abort
  <2>1. session = "recording" /\ UNCHANGED Log /\ EL!Breaks
    BY <1>4 DEF Abort, EL!Breaks, Log
  <2>. QED
    BY <2>1 DEF EL!Next
<1>5. CASE UNCHANGED vars
  BY <1>5 DEF vars, EL!vars, Log
<1>. QED
  BY <1>1, <1>2, <1>3, <1>4, <1>5 DEF Next, Over

\* A recording session implements the episode log: episodes are only added, in
\* order, and never changed, promised videos are settled once, and it completes
\* and uploads only as a whole, whatever the operator and the encoders do.
THEOREM Implements == Spec => EpisodesAreLogged
<1>1. Init => EL!Init
  BY DEF Init, EL!Init, Log, LogOf
<1>. QED
  BY <1>1, StepSimulates, Invariance, PTL DEF Spec, EL!Spec, EpisodesAreLogged

----------------------------------------------------------------------------
(* The inductive invariant, on top of IInv, in parts.                      *)

\* Nothing is in hand before the dataset is open.
OpenFits == ~opened => status = "warmup" /\ buffer.state = "none"

\* Saved and reset, with something to show for it.
Cleared == buffer.state = "none" /\ episodes # << >>

\* What the buffer holds in each state: frames to save when a save is ahead,
\* none when one is under way or over.
StageFits ==
  /\ session # "crashed"
  /\ stopSaved => status \in {"stop", "finish"}
  /\ onSaving => status \in {"save", "stop", "finish"} /\ ~Unsaved
  /\ ~onSaving =>
       /\ status = "warmup" => ~Unsaved
       /\ status = "run" /\ timing => Unsaved
       /\ status \in {"reset", "skip_task"} /\ buffer.state # "none"
            => episodes = << >>
       /\ session = "recording" =>
            /\ status = "save" => Unsaved
            /\ status = "stop" => IF stopSaved THEN Cleared ELSE Unsaved
            /\ status = "finish" => Unsaved \/ Cleared

\* The counter is behind the table by the episode whose saving is under way.
CountFits ==
  /\ status = "warmup" => episodes = << >>
  /\ onSaving => episodes # << >>
  /\ status # "finish" \/ (~onSaving /\ session = "recording")
       => Len(episodes) = IF onSaving THEN count + 1 ELSE count

\* Nothing is recorded beyond the target; and with several tasks each episode
\* counted has been asked for.
LimitFits ==
  /\ session = "recording" /\ (status \in {"run", "save"} \/ Unsaved)
       => count < EpisodeLimit
  /\ ~SingleTask =>
       /\ count <= commands
       /\ status = "save" \/ (status = "stop" /\ ~stopSaved)
            => count < commands
  /\ commands <= MaxCommands

\* No encoder fails or is cut short; a session of several tasks has its videos
\* made at the end, and no sooner.
VideosFit ==
  /\ \A i \in DOMAIN episodes :
       /\ episodes[i].video \in {"absent", "queued", "encoding", "whole"}
       /\ episodes[i].video = "absent"
            => ~SingleTask /\ ~(onSaving /\ status = "finish")
  /\ ~SingleTask /\ session = "recording" /\ encoders # {}
       => onSaving /\ status = "finish"

\* The limit on episodes of several tasks is out of the operator's reach.
Limited == SingleTask \/ MaxCommands < EpisodeLimit

DoneFits ==
  session = "completed" /\ Limited =>
    /\ ~Unsaved
    /\ \A i \in DOMAIN episodes : episodes[i].video = "whole"

\* All parts.
Careful ==
  /\ OpenFits /\ StageFits /\ CountFits /\ LimitFits /\ VideosFit
  /\ DoneFits

CarefulInv == smooth => Careful

----------------------------------------------------------------------------
(* What the steps are built from, as long as all goes smoothly.            *)

\* A tick after the first works on the session's own dataset; the first finds
\* no frames.
LEMMA DatasetAtHand ==
  ASSUME IInv, Careful, NEW d \in Datasets
  PROVE  /\ status # "warmup" => d.buffer = buffer /\ d.held = held
         /\ status = "warmup" => ~(d.buffer.state = "open" /\ d.buffer.frames > 0)
                                 /\ d.buffer.state # "saved"
<1>1. CASE opened
  <2>1. d.buffer = buffer /\ d.held = held
    BY <1>1 DEF Datasets
  <2>2. status = "warmup" => buffer.state # "saved" /\ ~onSaving
    BY DEF IInv, BufferMatchesTable, BufferFits, Careful, StageFits
  <2>. QED
    BY <2>1, <2>2 DEF Careful, OpenFits, StageFits, Unsaved
<1>2. CASE ~opened
  <2>1. \/ d.buffer = FreshBuffer(episodes) /\ d.held = FALSE
        \/ d.buffer = NoBuffer /\ d.held = TRUE
    BY <1>2 DEF Datasets
  <2>2. status = "warmup"
    BY <1>2 DEF Careful, OpenFits
  <2>. QED
    BY <1>2, <2>1, <2>2 DEF FreshBuffer, NoBuffer
<1>. QED
  BY <1>1, <1>2

\* A frame goes into the buffer.
LEMMA FrameInBuffer ==
  ASSUME IInv, Careful, status = "run"
  PROVE  LET b == WithFrame(buffer)
         IN  b.state = "open" /\ b.frames > 0
<1>. DEFINE at == IF buffer.state = "none" THEN FreshBuffer(episodes)
                                           ELSE buffer
<1>1. buffer \in Buffers /\ buffer.state \in {"none", "open"}
  BY DEF IInv, TypeOK, Buffers, BufferMatchesTable, BufferFits
<1>2. at \in Buffers /\ at.state = "open"
  BY <1>1, NewBuffersFit DEF FreshBuffer
<1>3. at.frames \in 0 .. MaxFrames
  BY <1>2 DEF Buffers
<1>4. WithFrame(buffer)
        = [at EXCEPT !.frames = IF @ < MaxFrames THEN @ + 1 ELSE @,
                     !.tasks = @ \cup {curTask % NumTasks}]
  BY DEF WithFrame
<1>. HIDE DEF at
<1>5. /\ WithFrame(buffer).state = at.state
      /\ WithFrame(buffer).frames
           = IF at.frames < MaxFrames THEN at.frames + 1 ELSE at.frames
  BY <1>2, <1>4 DEF Buffers
<1>. QED
  BY <1>2, <1>3, <1>5, DataManagerAssumption

\* A take at hand is saved: nothing raises, the table grows by one episode,
\* and what stays in the buffer needs no saving.
LEMMA SaveOfTake ==
  ASSUME IInv, Careful, Unsaved
  PROVE  /\ Saves(buffer) /\ ~SaveRaises(buffer)
         /\ TableAfterSave(buffer) # << >>
         /\ Len(TableAfterSave(buffer)) = Len(episodes) + 1
         /\ \A i \in DOMAIN TableAfterSave(buffer) :
              \/ i \in DOMAIN episodes
                   /\ TableAfterSave(buffer)[i] = episodes[i]
              \/ TableAfterSave(buffer)[i].video
                   = IF ~Optimized THEN "whole"
                     ELSE IF SingleTask THEN "queued" ELSE "absent"
         /\ LET b == BufferAfterSave(buffer)
            IN  ~(b.state = "open" /\ b.frames > 0)
<1>1. buffer \in Buffers /\ BufferFits(buffer) /\ episodes \in Seq(Episodes)
  BY DEF IInv, TypeOK, BufferMatchesTable
<1>2. Saves(buffer) /\ ~SaveRaises(buffer)
  BY <1>1 DEF Unsaved, Saves, SaveRaises, BufferFits, Buffers
<1>. DEFINE T == TableAfterSave(buffer)
            n == Len(episodes)
<1>3. /\ T \in Seq(Episodes) /\ Len(T) = n + 1
      /\ \A i \in DOMAIN episodes : T[i] = episodes[i]
      /\ T[n + 1].video = IF ~Optimized THEN "whole"
                          ELSE IF SingleTask THEN "queued" ELSE "absent"
  BY <1>1, <1>2, SaveAppends
<1>5. \A i \in DOMAIN T : i \in DOMAIN episodes \/ i = n + 1
  BY <1>1, <1>3
<1>7. LET b == BufferAfterSave(buffer)
      IN  ~(b.state = "open" /\ b.frames > 0)
  <2>1. CASE Optimized
    BY <1>1, <1>2, <2>1 DEF BufferAfterSave, Buffers
  <2>2. CASE ~Optimized
    BY <1>2, <2>2 DEF BufferAfterSave, FreshBuffer
  <2>. QED
    BY <2>1, <2>2
<1>8. T # << >>
  BY <1>1, <1>3
<1>. HIDE DEF T, n
<1>9. \A i \in DOMAIN T :
        \/ i \in DOMAIN episodes /\ T[i] = episodes[i]
        \/ T[i].video = IF ~Optimized THEN "whole"
                        ELSE IF SingleTask THEN "queued" ELSE "absent"
  BY <1>1, <1>3, <1>5
<1>. QED
  BY <1>2, <1>3, <1>7, <1>8, <1>9 DEF T, n

\* A reset leaves no buffer, and the table as it is: the encoders it could
\* disturb are done, or there are none.
LEMMA ResetIsHarmless ==
  ASSUME IInv, NEW h, h \/ episodes # << >>,
         buffer.state = "saved" /\ SingleTask => EncodingCompleted
  PROVE  /\ BufferAfterReset(buffer, h) = NoBuffer
         /\ TableAfterReset(buffer, h) = episodes
<1>1. ResetReaches(h)
  BY DEF ResetReaches
<1>2. CASE buffer.state = "saved" /\ SingleTask
  <2>. DEFINE n == Len(episodes)
              v == CASE episodes[n].video = "queued" -> "dead"
                     [] episodes[n].video = "encoding" -> "cut"
                     [] OTHER -> episodes[n].video
  <2>1. n \in DOMAIN episodes /\ episodes \in Seq(Episodes)
    BY <1>2 DEF IInv, TypeOK, BufferMatchesTable, BufferFits
  <2>2. episodes[n].video \notin {"queued", "encoding"}
    BY <1>2, <2>1
    DEF IInv, NoEncoderForgotten, EncodingCompleted, Pending, Completed
  <2>3. TableAfterReset(buffer, h) = [episodes EXCEPT ![n].video = v]
    BY <1>1, <1>2 DEF TableAfterReset
  <2>4. v = episodes[n].video
    BY <2>2
  <2>. HIDE DEF v
  <2>5. [episodes[n] EXCEPT !.video = v] = episodes[n]
    <3>1. episodes[n] \in Episodes
      BY <2>1
    <3>. QED
      BY <2>4, <3>1 DEF Episodes
  <2>6. [episodes EXCEPT ![n].video = v] = episodes
    BY <2>1, <2>5
  <2>. QED
    BY <1>1, <2>3, <2>6 DEF BufferAfterReset
<1>3. CASE ~(buffer.state = "saved" /\ SingleTask)
  BY <1>1, <1>3 DEF BufferAfterReset, TableAfterReset
<1>. QED
  BY <1>2, <1>3

\* The end of record ends the session only when the target is reached and no
\* encoder is left.
LEMMA EndOfRecordEnds ==
  ASSUME IInv, session = "recording", NEW enc, EndOfRecord(enc),
         count' \in Nat
  PROVE  /\ session' \in {"recording", "completed"}
         /\ count' < EpisodeLimit => session' = "recording"
         /\ session' = "completed" => encoders' = {}
BY DEF EndOfRecord, KeepGoing

\* When the target ends a session, all is done.
LEMMA TargetIsDone ==
  ASSUME IInv', VideosFit', LimitFits', Careful,
         session' = "completed" =>
           ~Unsaved' /\ encoders' = {} /\ ~(count' < EpisodeLimit)
  PROVE  DoneFits'
<1>. SUFFICES ASSUME session' = "completed", Limited'
              PROVE  \A i \in DOMAIN episodes' : episodes'[i].video = "whole"
  BY DEF DoneFits
<1>1. commands' \in Nat /\ count' \in Nat /\ commands' <= MaxCommands
  BY DEF LimitFits, IInv, TypeOK
<1>2. ~SingleTask => count' <= commands'
  BY <1>1 DEF LimitFits, SingleTask
<1>3. EpisodeLimit \in Nat /\ MaxCommands \in Nat
  BY DataManagerAssumption DEF EpisodeLimit
<1>4. SingleTask \/ MaxCommands < EpisodeLimit
  BY DEF Limited, SingleTask, EpisodeLimit
<1>5. SingleTask
  BY <1>1, <1>2, <1>3, <1>4 DEF EpisodeLimit
<1>. QED
  BY <1>5 DEF VideosFit, IInv, NoEncoderForgotten, SingleTask

----------------------------------------------------------------------------
(* The ticks.                                                              *)

\* Types of what the parts speak of.
LEMMA Types ==
  ASSUME IInv
  PROVE  /\ status \in Statuses /\ onSaving \in BOOLEAN
         /\ stopSaved \in BOOLEAN /\ timing \in BOOLEAN
         /\ count \in Nat /\ curTask \in Nat /\ commands \in Nat
         /\ buffer \in Buffers /\ buffer.frames \in Nat
         /\ episodes \in Seq(Episodes) /\ Len(episodes) \in Nat
         /\ EpisodeLimit \in Nat \ {0} /\ NumTasks \in Nat \ {0}
         /\ buffer.state = "saved"
              => onSaving /\ status \in {"save", "stop", "finish"}
BY DataManagerAssumption
DEF IInv, TypeOK, Buffers, EpisodeLimit, BufferMatchesTable, BufferFits

\* warmup, reset and skip_task, waiting or over.
LEMMA WaitCareful ==
  ASSUME IInv, IInv', Careful, NEW d \in Datasets, session = "recording",
         Wait(d.buffer) \/ WaitOver(d.buffer),
         opened', held' = d.held, UNCHANGED commands
  PROVE  Careful'
<1>. DEFINE b == d.buffer
<1>1. /\ status \in {"warmup", "reset", "skip_task"}
      /\ status' \in {status, "run"} /\ (status' = "run" => timing' = FALSE)
      /\ UNCHANGED <<onSaving, stopSaved, count, episodes, commands>>
      /\ buffer' = b
      /\ \/ UNCHANGED <<status, session, encoders>>
         \/ status' = "run" /\ EndOfRecord(encoders)
  BY DEF Wait, WaitOver, Idle, KeepGoing
<1>2. /\ ~onSaving /\ ~stopSaved
      /\ status = "warmup" => episodes = << >> /\ count = 0
      /\ Len(episodes) = count
  BY <1>1, Types DEF Careful, StageFits, CountFits
<1>3. /\ b.state # "saved"
      /\ status = "warmup" => ~(b.state = "open" /\ b.frames > 0)
      /\ status # "warmup" => b = buffer
  BY <1>1, <1>2, DatasetAtHand, Types
<1>. HIDE DEF b
<1>5. OpenFits'
  BY DEF OpenFits
<1>6. Unsaved' => Unsaved /\ status # "warmup" /\ count < EpisodeLimit
  BY <1>1, <1>3 DEF Unsaved, Careful, LimitFits
<1>7. /\ session' \in {"recording", "completed"}
      /\ count' < EpisodeLimit => session' = "recording"
      /\ session' = "completed" => encoders' = {} /\ ~(count' < EpisodeLimit)
  BY <1>1, <1>2, Types, EndOfRecordEnds
<1>8. StageFits'
  <2>1. status' \in {"reset", "skip_task"} /\ buffer'.state # "none"
          => episodes' = << >>
    BY <1>1, <1>2, <1>3 DEF Careful, StageFits
  <2>. QED
    BY <1>1, <1>2, <1>3, <1>6, <1>7, <2>1 DEF StageFits
<1>9. CountFits'
  BY <1>1, <1>2 DEF CountFits, Careful
<1>10. LimitFits'
  <2>1. session' = "recording" /\ status' \in {"run", "save"}
          => count' < EpisodeLimit
    <3>1. encoders = {}
      BY <1>2 DEF Careful, VideosFit, IInv, OneEncodingAtATime
    <3>2. CASE status' = "run" /\ EndOfRecord(encoders)
      BY <3>1, <3>2, <1>7 DEF EndOfRecord
    <3>3. CASE status' # "run"
      BY <1>1, <3>3
    <3>. QED
      BY <1>1, <3>2, <3>3, Types
  <2>. QED
    BY <1>1, <1>6, <2>1 DEF LimitFits, Careful, SingleTask
<1>11. VideosFit'
  <2>1. encoders' = {}
    BY <1>1, <1>2 DEF Careful, VideosFit, IInv, OneEncodingAtATime, Wait,
                      EndOfRecord
  <2>. QED
    BY <1>1, <1>2, <2>1 DEF VideosFit, Careful, SingleTask
<1>12. DoneFits'
  BY <1>1, <1>6, <1>7, <1>10, <1>11, TargetIsDone
<1>. QED
  BY <1>5, <1>8, <1>9, <1>10, <1>11, <1>12 DEF Careful

\* run: a frame, or the end of the time.
LEMMA RunCareful ==
  ASSUME IInv, IInv', Careful, session = "recording",
         RunFrame(buffer) \/ RunOver(buffer),
         opened', UNCHANGED <<held, commands>>
  PROVE  Careful'
<1>1. /\ status = "run" /\ ~onSaving /\ ~stopSaved /\ count < EpisodeLimit
      /\ UNCHANGED <<onSaving, stopSaved, count, curTask, episodes, held,
                     commands>>
      /\ EndOfRecord(encoders)
      /\ Len(episodes) = count
  BY Types
  DEF RunFrame, RunOver, Careful, StageFits, CountFits, LimitFits
<1>2. session' = session /\ encoders' = encoders
  BY <1>1 DEF EndOfRecord, KeepGoing
<1>3. /\ buffer'.state = "open" /\ buffer'.frames > 0
      /\ status' = "run" \/ (status' = "save" /\ SingleTask)
  <2>1. CASE RunFrame(buffer)
    BY <1>1, <2>1, FrameInBuffer DEF RunFrame
  <2>2. CASE RunOver(buffer)
    BY <2>2, <1>1 DEF RunOver, Careful, StageFits, Unsaved
  <2>. QED
    BY <2>1, <2>2
<1>4. Unsaved'
  BY <1>3 DEF Unsaved
<1>5. OpenFits' /\ StageFits' /\ CountFits'
  BY <1>1, <1>2, <1>3, <1>4 DEF Careful, OpenFits, StageFits, CountFits
<1>6. LimitFits'
  BY <1>1, <1>2, <1>3 DEF Careful, LimitFits, SingleTask
<1>7. VideosFit' /\ DoneFits'
  BY <1>1, <1>2, <1>3 DEF Careful, VideosFit, DoneFits, SingleTask
<1>. QED
  BY <1>5, <1>6, <1>7 DEF Careful

\* The first tick of save and stop.
LEMMA BeginCareful ==
  ASSUME IInv, IInv', Careful, session = "recording",
         SaveBegin(buffer) \/ StopBegin(buffer),
         opened', UNCHANGED <<held, commands>>
  PROVE  Careful'
<1>1. /\ status \in {"save", "stop"} /\ ~onSaving /\ ~stopSaved /\ Unsaved
      /\ count < EpisodeLimit
  BY Types DEF SaveBegin, StopBegin, Careful, StageFits, LimitFits
<1>2. /\ ~SaveRaises(buffer) /\ episodes' = TableAfterSave(buffer)
      /\ buffer' = BufferAfterSave(buffer) /\ onSaving' = TRUE
      /\ UNCHANGED <<status, stopSaved, count, curTask>>
  BY <1>1, SaveOfTake DEF SaveBegin, StopBegin, Save
<1>3. session' = session /\ (~SingleTask => encoders' = encoders)
  BY <1>1, <1>2, SaveOfTake
  DEF SaveBegin, StopBegin, EndOfRecord, KeepGoing, EncodersAfterSave
<1>4. /\ Len(episodes') = Len(episodes) + 1 /\ episodes' # << >>
      /\ \A i \in DOMAIN episodes' :
           \/ i \in DOMAIN episodes /\ episodes'[i] = episodes[i]
           \/ episodes'[i].video = IF ~Optimized THEN "whole"
                                   ELSE IF SingleTask THEN "queued"
                                                      ELSE "absent"
      /\ ~Unsaved'
  BY <1>1, <1>2, SaveOfTake DEF Unsaved
<1>5. OpenFits' /\ StageFits'
  BY <1>1, <1>2, <1>3, <1>4 DEF Careful, OpenFits, StageFits
<1>6. CountFits'
  BY <1>1, <1>2, <1>4, Types DEF Careful, CountFits
<1>7. LimitFits'
  BY <1>1, <1>2, <1>3, <1>4 DEF Careful, LimitFits, SingleTask
<1>8. VideosFit'
  BY <1>1, <1>2, <1>3, <1>4 DEF Careful, VideosFit, SingleTask
<1>9. DoneFits'
  BY <1>3 DEF DoneFits
<1>. QED
  BY <1>5, <1>6, <1>7, <1>8, <1>9 DEF Careful

\* Waiting for the encoders.
LEMMA EncodersAwaited ==
  ASSUME IInv, IInv', Careful, session = "recording",
         SaveWait(buffer) \/ StopWait(buffer) \/ FinishWait(buffer),
         opened', UNCHANGED <<held, commands>>
  PROVE  Careful'
<1>1. /\ status \in {"save", "stop", "finish"}
      /\ UNCHANGED <<status, onSaving, stopSaved, count, curTask, episodes,
                     held, buffer, commands>>
      /\ timing' = TRUE
  BY DEF SaveWait, StopWait, FinishWait, Idle
<1>2. /\ session' = session
      /\ encoders' \subseteq encoders
  <2>1. CASE StopWait(buffer)
    BY <2>1 DEF StopWait, KeepGoing, Pending
  <2>2. CASE SaveWait(buffer) \/ FinishWait(buffer)
    <3>1. ~EncodingCompleted /\ EndOfRecord(Pending)
      BY <2>2 DEF SaveWait, FinishWait
    <3>2. \A i \in Pending : episodes'[i].video \notin {"whole", "truncated"}
      BY <1>1 DEF Pending, Completed
    <3>3. {i \in Pending : episodes'[i].video \notin {"whole", "truncated"}}
            = Pending
      BY <3>2
    <3>. QED
      BY <3>1, <3>3 DEF EndOfRecord, KeepGoing, EncodingCompleted, Pending
  <2>. QED
    BY <2>1, <2>2
<1>3. Unsaved' = Unsaved /\ Cleared' = Cleared
  BY <1>1 DEF Unsaved, Cleared
<1>4. OpenFits' /\ StageFits' /\ CountFits' /\ LimitFits'
  BY <1>1, <1>2, <1>3
  DEF Careful, OpenFits, StageFits, CountFits, LimitFits, SingleTask
<1>5. VideosFit' /\ DoneFits'
  BY <1>1, <1>2, <1>3 DEF Careful, VideosFit, DoneFits, SingleTask
<1>. QED
  BY <1>4, <1>5 DEF Careful

\* The end of a save: the next task begins with an empty buffer.
LEMMA DoneCareful ==
  ASSUME IInv, IInv', Careful, session = "recording",
         SaveDone(buffer, held) \/ StopDone(buffer, held),
         opened', UNCHANGED <<held, commands>>
  PROVE  Careful'
<1>1. /\ onSaving
      /\ SingleTask => EncodingCompleted
      /\ EpisodeDone(buffer, held)
      /\ \/ status = "save" /\ status' \in {"reset", "finish"}
              /\ UNCHANGED stopSaved
         \/ status = "stop" /\ status' = "stop" /\ ~stopSaved /\ stopSaved'
  BY DEF SaveDone, StopDone
<1>2. /\ Len(episodes) = count + 1 /\ episodes # << >>
      /\ status = "save" => ~stopSaved
  BY <1>1, Types, EmptySeq DEF Careful, CountFits, StageFits
<1>3. buffer' = NoBuffer /\ episodes' = episodes
  BY <1>1, <1>2, ResetIsHarmless DEF EpisodeDone
<1>4. onSaving' = FALSE /\ count' = count + 1 /\ timing' = FALSE
  BY <1>1 DEF EpisodeDone
<1>5. /\ session' \in {"recording", "completed"}
      /\ encoders' = {}
      /\ session' = "completed" => ~(count' < EpisodeLimit)
      /\ status' = "finish" => session' = "completed"
  <2>1. Pending = {}
    BY <1>1 DEF EncodingCompleted, Pending, Careful, VideosFit
  <2>2. CASE SaveDone(buffer, held)
    BY <2>1, <2>2 DEF SaveDone, EndOfRecord, KeepGoing
  <2>3. CASE StopDone(buffer, held)
    BY <2>1, <2>3 DEF StopDone, KeepGoing
  <2>. QED
    BY <2>2, <2>3
<1>6. ~Unsaved' /\ Cleared'
  BY <1>2, <1>3 DEF Unsaved, NoBuffer, Cleared
<1>7. OpenFits' /\ StageFits'
  BY <1>1, <1>2, <1>3, <1>4, <1>5, <1>6
  DEF OpenFits, StageFits, NoBuffer
<1>8. CountFits' /\ LimitFits'
  <2>1. ~SingleTask => count' <= commands'
    BY <1>1, <1>4, Types DEF Careful, LimitFits, SingleTask
  <2>. QED
    BY <1>1, <1>2, <1>3, <1>4, <1>6, <2>1
    DEF Careful, CountFits, LimitFits, SingleTask
<1>9. VideosFit'
  BY <1>3, <1>4, <1>5 DEF Careful, VideosFit, SingleTask
<1>10. DoneFits'
  BY <1>5, <1>6, <1>8, <1>9, TargetIsDone
<1>. QED
  BY <1>7, <1>8, <1>9, <1>10 DEF Careful

\* The first tick of finish.
LEMMA FinishBeginCareful ==
  ASSUME IInv, IInv', Careful, session = "recording",
         FinishBegin(buffer), opened', UNCHANGED <<held, commands>>
  PROVE  Careful'
<1>. DEFINE T == TableAfterSave(buffer)
<1>1. status = "finish" /\ ~onSaving /\ (Unsaved \/ Cleared)
  BY DEF FinishBegin, Careful, StageFits
<1>2. /\ ~SaveRaises(buffer) /\ T # << >> /\ T \in Seq(Episodes)
      /\ \A i \in DOMAIN T :
           \/ i \in DOMAIN episodes /\ T[i] = episodes[i]
           \/ T[i].video = IF ~Optimized THEN "whole"
                           ELSE IF SingleTask THEN "queued" ELSE "absent"
      /\ LET b == BufferAfterSave(buffer)
         IN  ~(b.state = "open" /\ b.frames > 0)
      /\ Cleared => EncodersAfterSave(buffer) = encoders
  <2>1. T \in Seq(Episodes)
    BY SaveAppends DEF IInv, TypeOK, BufferMatchesTable
  <2>2. CASE Unsaved
    BY <2>1, <2>2, SaveOfTake DEF Unsaved, Cleared
  <2>3. CASE Cleared
    BY <2>1, <2>3
    DEF Cleared, SaveRaises, TableAfterSave, BufferAfterSave, Saves,
        EncodersAfterSave
  <2>. QED
    BY <1>1, <2>2, <2>3
<1>. HIDE DEF T
<1>3. /\ buffer' = BufferAfterSave(buffer) /\ onSaving' = TRUE
      /\ UNCHANGED <<status, stopSaved, count, curTask>>
      /\ \/ /\ SingleTask /\ episodes' = T
            /\ EndOfRecord(EncodersAfterSave(buffer))
         \/ /\ ~SingleTask
            /\ episodes' = [i \in DOMAIN T |-> [T[i] EXCEPT !.video = "queued"]]
            /\ EndOfRecord(encoders \cup DOMAIN T)
  BY <1>2 DEF FinishBegin, FinishRaises, Save, T
<1>4. ~Unsaved'
  BY <1>2, <1>3 DEF Unsaved
<1>5. /\ session' \in {"recording", "completed"}
      /\ session' = "completed" => encoders' = {} /\ ~(count' < EpisodeLimit)
  BY <1>3, Types, EndOfRecordEnds
<1>6. episodes' # << >> /\ \A i \in DOMAIN episodes' :
        episodes'[i].video \in {"queued", "encoding", "whole"}
  <2>1. CASE SingleTask
    BY <1>2, <1>3, <2>1 DEF Careful, VideosFit
  <2>2. CASE ~SingleTask
    <3>1. episodes' = [i \in DOMAIN T |-> [T[i] EXCEPT !.video = "queued"]]
      BY <1>3, <2>2
    <3>2. \A i \in DOMAIN T : T[i] \in Episodes
      BY <1>2
    <3>3. \A i \in DOMAIN T : episodes'[i].video = "queued"
      BY <3>1, <3>2 DEF Episodes
    <3>4. DOMAIN episodes' = DOMAIN T /\ DOMAIN T # {}
      BY <1>2, <3>1
    <3>. QED
      BY <1>2, <3>3, <3>4
  <2>. QED
    BY <2>1, <2>2
<1>7. OpenFits' /\ StageFits' /\ CountFits'
  BY <1>1, <1>3, <1>4, <1>5, <1>6
  DEF Careful, OpenFits, StageFits, CountFits
<1>8. LimitFits'
  BY <1>1, <1>3, <1>4 DEF Careful, LimitFits, SingleTask
<1>9. VideosFit'
  BY <1>1, <1>3, <1>6 DEF VideosFit
<1>10. DoneFits'
  BY <1>4, <1>5, <1>8, <1>9, TargetIsDone
<1>. QED
  BY <1>7, <1>8, <1>9, <1>10 DEF Careful

\* The end of finish ends the session with every video whole.
LEMMA FinishDoneCareful ==
  ASSUME IInv, IInv', Careful, session = "recording",
         FinishDone(buffer, held), opened', UNCHANGED <<held, commands>>
  PROVE  Careful'
<1>1. /\ status = "finish" /\ onSaving /\ EncodingCompleted
      /\ onSaving' = FALSE /\ session' = "completed"
      /\ UNCHANGED <<status, stopSaved, count, curTask>>
      /\ buffer' = BufferAfterReset(buffer, held)
      /\ episodes' = TableAfterReset(buffer, held)
      /\ encoders' = Pending
  BY DEF FinishDone
<1>2. buffer' = NoBuffer /\ episodes' = episodes
  BY <1>1, ResetIsHarmless DEF Careful, CountFits
<1>3. ~Unsaved'
  BY <1>2 DEF Unsaved, NoBuffer
<1>4. \A i \in DOMAIN episodes : episodes[i].video = "whole"
  BY <1>1
  DEF Careful, VideosFit, IInv, NoEncoderForgotten, EncodingCompleted, Pending,
      Completed
<1>5. OpenFits' /\ StageFits' /\ CountFits' /\ LimitFits'
  BY <1>1, <1>2, <1>3
  DEF Careful, OpenFits, StageFits, CountFits, LimitFits, SingleTask, NoBuffer
<1>6. VideosFit' /\ DoneFits'
  BY <1>1, <1>2, <1>3, <1>4 DEF Careful, VideosFit, DoneFits
<1>. QED
  BY <1>5, <1>6 DEF Careful

\* A tick preserves all parts: one step per branch of record.
LEMMA TickCareful ==
  ASSUME IInv, IInv', Careful, smooth', Tick
  PROVE  Careful'
<1>1. PICK d \in Datasets :
        /\ held' = d.held
        /\ \/ Wait(d.buffer) \/ WaitOver(d.buffer)
           \/ RunFrame(d.buffer) \/ RunOver(d.buffer)
           \/ SaveBegin(d.buffer) \/ SaveWait(d.buffer)
           \/ SaveDone(d.buffer, d.held)
           \/ StopBegin(d.buffer) \/ StopWait(d.buffer)
           \/ StopDone(d.buffer, d.held)
           \/ FinishBegin(d.buffer) \/ FinishWait(d.buffer)
           \/ FinishDone(d.buffer, d.held)
  BY DEF Tick
<1>2. session = "recording" /\ opened' /\ UNCHANGED commands
  BY DEF Tick
<1>3. CASE Wait(d.buffer) \/ WaitOver(d.buffer)
  BY <1>1, <1>2, <1>3, WaitCareful
<1>4. CASE status # "warmup"
  <2>1. d.buffer = buffer /\ d.held = held
    BY <1>4, DatasetAtHand
  <2>2. held' = held
    BY <1>1, <2>1
  <2>3. CASE RunFrame(buffer) \/ RunOver(buffer)
    BY <1>2, <2>2, <2>3, RunCareful
  <2>4. CASE SaveBegin(buffer) \/ StopBegin(buffer)
    BY <1>2, <2>2, <2>4, BeginCareful
  <2>5. CASE SaveWait(buffer) \/ StopWait(buffer) \/ FinishWait(buffer)
    BY <1>2, <2>2, <2>5, EncodersAwaited
  <2>6. CASE SaveDone(buffer, held) \/ StopDone(buffer, held)
    BY <1>2, <2>2, <2>6, DoneCareful
  <2>7. CASE FinishBegin(buffer)
    BY <1>2, <2>2, <2>7, FinishBeginCareful
  <2>8. CASE FinishDone(buffer, held)
    BY <1>2, <2>2, <2>8, FinishDoneCareful
  <2>. QED
    BY <1>1, <1>3, <2>1, <2>3, <2>4, <2>5, <2>6, <2>7, <2>8
<1>. QED
  BY <1>1, <1>3, <1>4
  DEF RunFrame, RunOver, SaveBegin, SaveWait, SaveDone, StopBegin, StopWait,
      StopDone, FinishBegin, FinishWait, FinishDone

----------------------------------------------------------------------------
(* Commands, encoders, and the whole.                                      *)

\* A careful operator stops, saves and finishes with a take in hand, or
\* finishes with nothing in hand.
LEMMA StatusCommandCareful ==
  ASSUME IInv, IInv', Careful, smooth', Stop \/ MoveToNext \/ Finish
  PROVE  Careful'
<1>1. /\ session = "recording" /\ commands' = commands + 1
      /\ ~onSaving /\ commands < MaxCommands
      /\ status' \in {"stop", "save", "finish"}
      /\ \/ TakeInProgress
         \/ status' = "finish" /\ Cleared
      /\ UNCHANGED <<onSaving, count, opened, held, encoders, session,
                     stopSaved, curTask, timing, buffer, episodes>>
  BY DEF Stop, MoveToNext, Finish, Command, TakeInProgress, Cleared
<1>2. /\ TakeInProgress => Unsaved /\ status = "run" /\ ~stopSaved
      /\ opened
  BY <1>1 DEF TakeInProgress, Unsaved, Careful, StageFits, OpenFits, Cleared,
              CountFits
<1>3. Unsaved' = Unsaved /\ Cleared' = Cleared
  BY <1>1 DEF Unsaved, Cleared
<1>4. OpenFits' /\ StageFits' /\ CountFits'
  BY <1>1, <1>2, <1>3 DEF Careful, OpenFits, StageFits, CountFits
<1>5. LimitFits'
  BY <1>1, <1>2, <1>3, Types, DataManagerAssumption
  DEF Careful, LimitFits, SingleTask, Cleared, Unsaved
<1>6. VideosFit' /\ DoneFits'
  BY <1>1, <1>3 DEF Careful, VideosFit, DoneFits, SingleTask
<1>. QED
  BY <1>4, <1>5, <1>6 DEF Careful

\* A careful retry or skip drops the take in hand, or nothing.
LEMMA ResetCommandCareful ==
  ASSUME IInv, IInv', Careful, smooth', Retry \/ Skip
  PROVE  Careful'
<1>1. /\ session = "recording" /\ commands' = commands + 1
      /\ ~onSaving /\ opened /\ commands < MaxCommands
      /\ \/ UNCHANGED <<status, timing, buffer, episodes>>
         \/ OperatorReset /\ status' \in {"reset", "skip_task"}
      /\ stopSaved' = FALSE
      /\ UNCHANGED <<onSaving, count, opened, held, encoders, session>>
  BY DEF Retry, Skip, Command, ResetFails, OperatorReset
<1>2. ~ResetFails
  BY <1>1 DEF ResetFails, ResetRaises
<1>3. status' \in {"reset", "skip_task"} /\ OperatorReset
  BY <1>2 DEF Retry, Skip
<1>4. buffer' \in {buffer, NoBuffer} /\ episodes' = episodes
  BY <1>1, <1>3, Types DEF OperatorReset, BufferAfterReset, TableAfterReset
<1>5. Unsaved' => Unsaved
  BY <1>4 DEF Unsaved, NoBuffer
<1>6. OpenFits' /\ StageFits' /\ CountFits'
  <2>1. buffer'.state # "none" => episodes' = << >>
    BY <1>3, <1>4 DEF OperatorReset, BufferAfterReset, ResetReaches, NoBuffer
  <2>. QED
    BY <1>1, <1>3, <1>4, <1>5, <2>1, Types
    DEF Careful, OpenFits, StageFits, CountFits
<1>7. LimitFits'
  BY <1>1, <1>3, <1>4, <1>5, Types, DataManagerAssumption
  DEF Careful, LimitFits, SingleTask
<1>8. VideosFit' /\ DoneFits'
  BY <1>1, <1>3, <1>4 DEF Careful, VideosFit, DoneFits, SingleTask
<1>. QED
  BY <1>6, <1>7, <1>8 DEF Careful

\* An encoder that works moves its video on.
LEMMA EncoderCareful ==
  ASSUME IInv, IInv', Careful, smooth', Encoder
  PROVE  Careful'
<1>1. PICK i \in DOMAIN episodes :
        EncodeBegin(i) \/ EncodeEnd(i) \/ EncodeShort(i) \/ EncodeFail(i)
  BY DEF Encoder
<1>2. PICK to \in {"encoding", "whole"} :
        Encode(i, {"queued", "encoding"}, to)
  <2>1. episodes[i].video # "cut"
    BY DEF Careful, VideosFit
  <2>. QED
    BY <1>1, <2>1
    DEF EncodeBegin, EncodeEnd, EncodeShort, EncodeFail, Encode
<1>3. episodes \in Seq(Episodes) /\ episodes[i] \in Episodes
  BY Types
<1>4. /\ episodes' = [episodes EXCEPT ![i].video = to]
      /\ episodes[i].video \in {"queued", "encoding"}
      /\ UNCHANGED <<status, onSaving, stopSaved, count, curTask, timing,
                     opened, held, buffer, encoders, session, commands>>
  BY <1>2 DEF Encode
<1>5. /\ DOMAIN episodes' = DOMAIN episodes /\ Len(episodes') = Len(episodes)
      /\ episodes' = << >> <=> episodes = << >>
      /\ \A j \in DOMAIN episodes :
           episodes'[j].video \in {episodes[j].video, "encoding", "whole"}
  <2>1. episodes' = [episodes EXCEPT ![i] = [episodes[i] EXCEPT !.video = to]]
    BY <1>4
  <2>2. [episodes[i] EXCEPT !.video = to].video = to
    BY <1>3 DEF Episodes
  <2>3. DOMAIN episodes' = DOMAIN episodes /\ episodes' \in Seq(Episodes)
    BY <1>3, <2>1, Types DEF IInv, TypeOK
  <2>4. Len(episodes') = Len(episodes)
    BY <1>3, <2>3
  <2>5. episodes' = << >> <=> episodes = << >>
    BY <1>3, <2>3, <2>4, EmptySeq
  <2>. QED
    BY <1>3, <2>1, <2>2, <2>3, <2>4, <2>5
<1>6. Unsaved' = Unsaved /\ Cleared' = Cleared
  BY <1>4, <1>5 DEF Unsaved, Cleared
<1>7. OpenFits' /\ StageFits' /\ CountFits' /\ LimitFits'
  BY <1>4, <1>5, <1>6
  DEF Careful, OpenFits, StageFits, CountFits, LimitFits, SingleTask
<1>8. VideosFit'
  BY <1>4, <1>5, <1>6 DEF Careful, VideosFit, SingleTask
<1>9. DoneFits'
  BY <1>4 DEF Careful, DoneFits, Limited, SingleTask, EpisodeLimit
<1>. QED
  BY <1>7, <1>8, <1>9 DEF Careful

\* The parts hold initially.
LEMMA InitCareful == Init => Careful
BY DataManagerAssumption
DEF Init, Careful, OpenFits, StageFits, CountFits, LimitFits, VideosFit,
    DoneFits, Unsaved, NoBuffer, SingleTask, EpisodeLimit

\* Every smooth step preserves them.
LEMMA NextCareful ==
  ASSUME IInv, IInv', CarefulInv, [Next]_vars
  PROVE  CarefulInv'
<1>. SUFFICES ASSUME smooth' PROVE Careful'
  BY DEF CarefulInv
<1>1. smooth /\ Careful
  BY DEF CarefulInv, Next, vars, Over, Tick, Abort, Stop, MoveToNext, Retry,
         Skip, Finish, Command, Encoder, EncodeBegin, EncodeEnd, EncodeShort,
         EncodeFail, IInv, TypeOK
<1>2. CASE Abort \/ UNCHANGED vars
  <2>1. /\ UNCHANGED <<status, onSaving, stopSaved, count, curTask, timing,
                       opened, held, buffer, episodes, encoders, commands>>
        /\ session' \in {session, "aborted"}
    BY <1>2 DEF Abort, vars
  <2>2. Unsaved' = Unsaved /\ Cleared' = Cleared
    BY <2>1 DEF Unsaved, Cleared
  <2>. QED
    BY <1>1, <2>1, <2>2
    DEF Careful, OpenFits, StageFits, CountFits, LimitFits, VideosFit,
        DoneFits, SingleTask, Limited, EpisodeLimit
<1>. QED
  BY <1>1, <1>2, TickCareful, StatusCommandCareful, ResetCommandCareful,
     EncoderCareful
  DEF Next, Over

\* The invariant of a smooth recording.
LEMMA CarefulInvariance == Spec => []CarefulInv
<1>1. Init => CarefulInv
  BY InitCareful DEF CarefulInv
<1>. QED
  BY <1>1, NextCareful, Invariance, PTL DEF Spec

----------------------------------------------------------------------------
(* The theorems.                                                           *)

\* Between two saves the counter shown is the number of episodes saved.
THEOREM CountIsSavedAlways == Spec => []CountIsSaved
<1>1. CarefulInv => CountIsSaved
  BY DEF CarefulInv, Careful, CountFits, CountIsSaved
<1>. QED
  BY <1>1, CarefulInvariance, PTL

\* No save, stop or finish of a careful operator raises in the timer callback.
THEOREM NoCrashAlways == Spec => []NoCrash
<1>1. CarefulInv => NoCrash
  BY DEF CarefulInv, Careful, StageFits, NoCrash
<1>. QED
  BY <1>1, CarefulInvariance, PTL

\* A completed recording has every video whole and no frame left behind, as
\* long as several tasks do not reach the code's limit of episodes, at which
\* the session would end without its videos.
THEOREM CompletedIsCompleteAlways ==
  ASSUME Limited PROVE Spec => []CompletedIsComplete
<1>1. CarefulInv => CompletedIsComplete
  BY DEF CarefulInv, Careful, DoneFits, CompletedIsComplete
<1>. QED
  BY <1>1, CarefulInvariance, PTL

\* Only a retry or a skip throws recorded frames away: in no other step does
\* an unsaved buffer disappear.
LEMMA OnlyResetsLose ==
  ASSUME IInv, Careful, [Next]_vars, smooth, Unsaved, buffer'.state = "none"
  PROVE  count' = count /\ session' = "recording"
<1>1. buffer' # buffer
  BY DEF Unsaved
<1>2. ~onSaving /\ status # "warmup" /\ opened
  BY DEF Careful, StageFits, OpenFits, Unsaved
<1>3. CASE Tick
  <2>1. PICK d \in Datasets :
          \/ Wait(d.buffer) \/ WaitOver(d.buffer)
          \/ RunFrame(d.buffer) \/ RunOver(d.buffer) \/ RunLowRam(d.buffer)
          \/ SaveBegin(d.buffer) \/ SaveWait(d.buffer)
          \/ SaveDone(d.buffer, d.held)
          \/ StopBegin(d.buffer) \/ StopWait(d.buffer)
          \/ StopDone(d.buffer, d.held)
          \/ FinishBegin(d.buffer) \/ FinishWait(d.buffer)
          \/ FinishDone(d.buffer, d.held)
    BY <1>3 DEF Tick
  <2>2. d.buffer = buffer
    BY <1>2 DEF Datasets
  <2>3. RunFrame(buffer) => status = "run" /\ buffer' = WithFrame(buffer)
    BY DEF RunFrame
  <2>4. BufferAfterSave(buffer).state # "none"
    BY SaveOfTake DEF BufferAfterSave, FreshBuffer, IInv, TypeOK, Buffers
  <2>. QED
    BY <1>1, <1>2, <2>1, <2>2, <2>3, <2>4, FrameInBuffer
    DEF Wait, WaitOver, RunOver, RunLowRam, SaveBegin, SaveWait, SaveDone,
        StopBegin, StopWait, StopDone, FinishBegin, FinishWait, FinishDone,
        Crash, Save, Idle
<1>4. CASE Retry \/ Skip
  BY <1>4 DEF Retry, Skip, Command
<1>. QED
  BY <1>1, <1>3, <1>4
  DEF Next, vars, Over, Abort, Stop, MoveToNext, Finish, Encoder, EncodeBegin,
      EncodeEnd, EncodeShort, EncodeFail, Encode

\* Recorded frames are thrown away only by a retry or a skip.
THEOREM NothingLostAlways == Spec => NothingLost
<1>1. IInv /\ CarefulInv /\ [Next]_vars
        => (smooth /\ Unsaved /\ buffer'.state = "none"
              => count' = count /\ session' = "recording")
  BY OnlyResetsLose DEF CarefulInv
<1>. QED
  BY <1>1, Invariance, CarefulInvariance, PTL DEF Spec, NothingLost
=============================================================================
