------------------------ MODULE SessionControl_proofs ------------------------
(***************************************************************************)
(* Proofs about SessionControl, for every value of its constants, of a     *)
(* careful operator: the timer manager holds the one timer that runs, so   *)
(* that no stop raises. The timer's robot is ready, or its next tick would *)
(* end the node, and what a recording is told to save is there.            *)
(***************************************************************************)
EXTENDS SessionControl, TLAPS

\* What a careful operator keeps.
InHand ==
  careful =>
    /\ alive = TRUE
    /\ timers \subseteq {manager}
    /\ timers # {} => robot = "ready" /\ manager.mode = operationMode

\* The flags speak of the timer that runs, unless inferences record.
Flags ==
  careful /\ ~RecordInference =>
    /\ onRecording = TRUE => timers # {} /\ operationMode = "collection"
    /\ onInference = TRUE => timers # {} /\ operationMode = "inference"

\* No recording is to save a buffer that was never filled, or to finish several
\* tasks of which none was saved.
Ready ==
  careful /\ timers # {} /\ operationMode = "collection" =>
    /\ content = "closed" => status = "take" /\ saving = FALSE
    /\ content = "empty" /\ task.optimized = TRUE
         => status = "take" /\ saving = FALSE
    /\ task.several = TRUE /\ status = "finish" /\ saving = FALSE
         => stored = TRUE \/ content = "some"

IInv == TypeOK /\ InHand /\ Flags /\ Ready

\* The initial state satisfies the invariant.
LEMMA InitIInv == Init => IInv
<1> SUFFICES ASSUME Init PROVE IInv
  OBVIOUS
<1>1. TypeOK
  <2>1. /\ onRecording \in BOOLEAN /\ onInference \in BOOLEAN
        /\ saving \in BOOLEAN /\ stored \in BOOLEAN
        /\ alive \in BOOLEAN /\ careful \in BOOLEAN
    BY Zenon DEF Init
  <2>2. manager \in Timers \cup {NoManager}
    BY Zenon DEF Init
  <2>3. commands \in 0 .. MaxCommands
    BY SessionControlAssumption DEF SessionControlAssumption, Init
  <2> QED
    BY <2>1, <2>2, <2>3, Zenon DEF Init, TypeOK
<1>2. InHand /\ Flags /\ Ready
  BY DEF Init, InHand, Flags, Ready
<1> QED
  BY <1>1, <1>2 DEF IInv

\* What stopping a timer, and starting one, leave.
LEMMA StopTimerTyped ==
  ASSUME TypeOK, StopTimer
  PROVE  /\ manager' \in Timers \cup {NoManager} /\ timers' \subseteq timers
         /\ alive' \in BOOLEAN
         /\ manager.mode = operationMode
              => alive' = alive /\ timers' = timers \ {manager}
<1>1. CASE StopRaises
  BY <1>1 DEF TypeOK, StopTimer, StopRaises
<1>2. CASE ~StopRaises
  <2>1. CASE manager = NoManager
    BY <1>2, <2>1 DEF TypeOK, StopTimer, StopRaises, NoManager, Timers
  <2>2. CASE manager \in Timers
    <3>1. manager' = [mode |-> manager.mode, id |-> 0]
      BY <1>2, <2>2 DEF StopTimer, Timers
    <3>2. manager' \in Timers
      BY <2>2, <3>1 DEF Timers
    <3> QED
      BY <1>2, <3>2 DEF TypeOK, StopTimer
  <2> QED
    BY <2>1, <2>2 DEF TypeOK
<1> QED
  BY <1>1, <1>2

LEMMA NewTimerTyped ==
  ASSUME TypeOK, Command, NEW mode \in Modes, NewTimer(mode)
  PROVE  /\ manager' \in Timers /\ timers' \subseteq Timers
         /\ manager'.mode = mode
         /\ timers' = timers \cup {manager'}
<1>1. commands' \in Nat
  BY SessionControlAssumption
  DEF TypeOK, Command, SessionControlAssumption
<1>2. [mode |-> mode, id |-> commands'] \in Timers
  BY <1>1 DEF Timers
<1> QED
  BY <1>2 DEF NewTimer, TypeOK

\* A command is counted, and leaves the node alive.
LEMMA CommandTyped ==
  ASSUME TypeOK, Command
  PROVE  commands' \in 0 .. MaxCommands /\ alive' = TRUE /\ alive = TRUE
BY SessionControlAssumption DEF SessionControlAssumption, TypeOK, Command

\* The data manager's variables, at its creation, and after a retry.
ManagerTyped ==
  /\ task \in TaskInfos /\ status \in {"take", "save", "finish"}
  /\ saving \in BOOLEAN /\ stored \in BOOLEAN
  /\ content \in {"closed", "empty", "some", "nothing"}
  /\ encoding \in {"none", "working", "failed"}

LEMMA NewTyped == NewDataManager => ManagerTyped'
BY Zenon DEF NewDataManager, ManagerTyped

LEMMA RetakeTyped == ManagerTyped /\ Retake => ManagerTyped'
BY Zenon DEF Retake, Reset, ManagerTyped

\* What is common to a recording's ticks: types, the end, and what they leave.
LEMMA CollectionTyped ==
  ASSUME TypeOK, CollectionTick
  PROVE  /\ ManagerTyped'
         /\ \/ GoesOn \/ Ends
            \/ alive' = FALSE /\ UNCHANGED <<onRecording, manager, timers>>
         /\ careful' \in BOOLEAN
         /\ careful' => careful
<1>0. ManagerTyped /\ careful \in BOOLEAN
  BY DEF TypeOK, ManagerTyped
<1>1. CASE CollectFails
  <2>1. UNCHANGED managerVars => ManagerTyped'
    BY <1>0 DEF managerVars, ManagerTyped
  <2> QED
    BY <1>0, <1>1, <2>1 DEF CollectFails
<1>2. ASSUME NEW c \in Found,
             \/ Take(c) \/ Crash(c) \/ Begin(c)
             \/ SaveDone(c) \/ FinishDone(c) \/ SaveWaits(c)
      PROVE  /\ ManagerTyped'
             /\ \/ GoesOn \/ Ends
                \/ alive' = FALSE /\ UNCHANGED <<onRecording, manager, timers>>
             /\ careful' \in BOOLEAN
             /\ careful' => careful
  <2>0. c \in {"empty", "some", "nothing"}
    BY <1>0 DEF Found, ManagerTyped
  <2>1. CASE Take(c)
    <3>1. ManagerTyped'
      BY <1>0, <2>0, <2>1 DEF Take, ManagerTyped
    <3>2. GoesOn \/ Ends
      BY <2>1, Zenon DEF Take, MayEnd
    <3>3. careful' = careful \/ careful' = (careful /\ Savable(c))
      BY <2>1, Zenon DEF Take
    <3>4. careful' \in BOOLEAN
      BY <1>0, <3>3, Zenon
    <3>5. careful' => careful
      BY <3>3, Zenon
    <3> QED
      BY <3>1, <3>2, <3>4, <3>5
  <2>2. CASE Crash(c)
    BY <1>0, <2>0, <2>2 DEF Crash, ManagerTyped
  <2>3. CASE Begin(c)
    <3>1. ManagerTyped'
      <4>1. stored' \in BOOLEAN /\ saving' \in BOOLEAN
        BY <1>0, <2>3, Zenon DEF Begin
      <4> QED
        BY <1>0, <2>0, <2>3, <4>1 DEF Begin, ManagerTyped
    <3> QED
      BY <1>0, <2>3, <3>1 DEF Begin, MayEnd
  <2>4. CASE SaveDone(c)
    BY <1>0, <2>0, <2>4 DEF SaveDone, Reset, ManagerTyped
  <2>5. CASE FinishDone(c)
    BY <1>0, <2>0, <2>5 DEF FinishDone, Reset, ManagerTyped
  <2>6. CASE SaveWaits(c)
    BY <1>0, <2>0, <2>6 DEF SaveWaits, ManagerTyped
  <2> QED
    BY <1>2, <2>1, <2>2, <2>3, <2>4, <2>5, <2>6
<1> QED
  BY <1>1, <1>2 DEF CollectionTick

\* The commands to a recording that runs.
Telling == Stop \/ MoveToNext \/ Retry \/ Finish

LEMMA TellingTyped ==
  ASSUME TypeOK, Telling
  PROVE  /\ ManagerTyped' /\ commands' \in 0 .. MaxCommands
         /\ alive' = TRUE /\ careful' \in BOOLEAN
         /\ careful' => careful
         /\ onInference' = onInference \/ onInference' = FALSE
         /\ UNCHANGED <<onRecording, operationMode, robot, manager, timers,
                        policy>>
<1>0. ManagerTyped
  BY DEF TypeOK, ManagerTyped
<1>1. ASSUME NEW asShown, Told(asShown)
      PROVE  /\ commands' \in 0 .. MaxCommands
             /\ alive' = TRUE /\ careful' \in BOOLEAN
             /\ careful' => careful
             /\ UNCHANGED <<onRecording, operationMode, robot, manager, timers,
                            policy>>
  BY <1>1, CommandTyped, Zenon DEF Told, Noted
<1>2. CASE Stop
  BY <1>0, <1>1, <1>2 DEF Stop, ManagerTyped
<1>3. CASE MoveToNext
  BY <1>0, <1>1, <1>3 DEF MoveToNext, ManagerTyped
<1>4. CASE Retry
  BY <1>0, <1>1, <1>4, RetakeTyped DEF Retry
<1>5. CASE Finish
  BY <1>0, <1>1, <1>5 DEF Finish, ManagerTyped
<1> QED
  BY <1>2, <1>3, <1>4, <1>5 DEF Telling

\* Every step keeps the types.
LEMMA NextTyped == TypeOK /\ [Next]_vars => TypeOK'
<1> SUFFICES ASSUME TypeOK, [Next]_vars PROVE TypeOK'
  OBVIOUS
<1> USE DEF Modes
<1>0. ManagerTyped
  BY DEF TypeOK, ManagerTyped
<1>a. UNCHANGED managerVars => ManagerTyped'
  BY <1>0 DEF managerVars, ManagerTyped
<1>b. /\ ManagerTyped' /\ commands' \in 0 .. MaxCommands
      /\ alive' \in BOOLEAN /\ careful' \in BOOLEAN
      /\ onRecording' \in BOOLEAN /\ onInference' \in BOOLEAN
      /\ operationMode' \in Modes \cup {"none"}
      /\ robot' \in {"unset", "broken", "ready"}
      /\ manager' \in Timers \cup {NoManager} /\ timers' \subseteq Timers
      /\ policy' \in {"none", "valid", "bad", "loaded"}
      => TypeOK'
  BY DEF ManagerTyped, TypeOK
<1>c. /\ onRecording \in BOOLEAN /\ onInference \in BOOLEAN
      /\ operationMode \in Modes \cup {"none"}
      /\ robot \in {"unset", "broken", "ready"}
      /\ manager \in Timers \cup {NoManager} /\ timers \subseteq Timers
      /\ policy \in {"none", "valid", "bad", "loaded"}
      /\ alive \in BOOLEAN /\ careful \in BOOLEAN
      /\ commands \in 0 .. MaxCommands
  BY DEF TypeOK
<1>1. CASE StartRecord
  <2>0. commands' \in 0 .. MaxCommands /\ alive' = TRUE /\ careful' \in BOOLEAN
    BY <1>1, CommandTyped, Zenon DEF StartRecord, Noted
  <2>1. CASE Restart
    <3>1. ManagerTyped'
      BY <1>0, <2>1, RetakeTyped DEF Restart
    <3> QED
      BY <1>1, <1>b, <1>c, <2>0, <2>1, <3>1 DEF StartRecord, Restart
  <2>2. CASE FailToRecord
    <3>1. ManagerTyped'
      BY <1>a, <2>2, NewTyped DEF FailToRecord
    <3> QED
      BY <1>1, <1>b, <1>c, <2>0, <2>2, <3>1 DEF StartRecord, FailToRecord
  <2>3. CASE Record
    <3>1. manager' \in Timers /\ timers' \subseteq Timers
      BY <1>1, <2>3, NewTimerTyped DEF StartRecord, Record, InitFromTask
    <3>2. ManagerTyped'
      BY <2>3, NewTyped DEF Record, InitFromTask
    <3> QED
      BY <1>1, <1>b, <1>c, <2>0, <2>3, <3>1, <3>2 DEF StartRecord, Record
  <2> QED
    BY <1>1, <2>1, <2>2, <2>3 DEF StartRecord
<1>2. CASE StartInference
  <2>0. commands' \in 0 .. MaxCommands /\ alive' = TRUE /\ careful' \in BOOLEAN
    BY <1>2, CommandTyped, Zenon DEF StartInference, Noted
  <2>1. CASE RefuseInference
    <3>1. ManagerTyped'
      BY <1>a, <2>1 DEF RefuseInference
    <3> QED
      BY <1>2, <1>b, <1>c, <2>0, <2>1, <3>1 DEF StartInference, RefuseInference
  <2>2. CASE BeginInference
    <3>1. manager' \in Timers /\ timers' \subseteq Timers
      BY <1>2, <2>2, NewTimerTyped
      DEF StartInference, BeginInference, InitFromTask
    <3>2. policy' \in {"none", "valid", "bad", "loaded"}
      BY <2>2 DEF BeginInference, PathSet
    <3>3. onRecording' \in BOOLEAN
      BY <2>2, Zenon DEF BeginInference
    <3>4. ManagerTyped'
      BY <2>2, NewTyped DEF BeginInference, InitFromTask
    <3> QED
      BY <1>2, <1>b, <1>c, <2>0, <2>2, <3>1, <3>2, <3>3, <3>4
      DEF StartInference, BeginInference
  <2> QED
    BY <1>2, <2>1, <2>2 DEF StartInference
<1>3. CASE Telling
  BY <1>3, <1>b, <1>c, TellingTyped
<1>4. CASE SetRobotType
  <2>0. commands' \in 0 .. MaxCommands /\ alive' = TRUE /\ careful' \in BOOLEAN
    BY <1>4, CommandTyped, Zenon DEF SetRobotType, Noted
  <2>1. ManagerTyped'
    BY <1>4, <1>a DEF SetRobotType
  <2> QED
    BY <1>4, <1>b, <1>c, <2>0, <2>1 DEF SetRobotType
<1>5. ASSUME NEW t \in timers, Tick(t) PROVE TypeOK'
  <2>1. CASE Raises
    <3>1. ManagerTyped'
      BY <1>a, <2>1 DEF Raises
    <3> QED
      BY <1>b, <1>c, <2>1, <3>1 DEF Raises
  <2>2. CASE CollectionTick
    <3>1. UNCHANGED <<onInference, operationMode, robot, policy, commands>>
      BY <2>2 DEF CollectionTick
    <3>2. ManagerTyped' /\ careful' \in BOOLEAN
      BY <2>2, CollectionTyped
    <3>3. CASE GoesOn
      BY <1>b, <1>c, <3>1, <3>2, <3>3 DEF GoesOn
    <3>4. CASE Ends
      BY <1>b, <1>c, <3>1, <3>2, <3>4, StopTimerTyped DEF Ends
    <3>5. CASE alive' = FALSE /\ UNCHANGED <<onRecording, manager, timers>>
      BY <1>b, <1>c, <3>1, <3>2, <3>5
    <3> QED
      BY <2>2, <3>3, <3>4, <3>5, CollectionTyped
  <2>3. CASE InferenceTick
    <3>1. policy' \in {"none", "valid", "bad", "loaded"}
      BY <2>3 DEF InferenceTick, NotConverted, LoadFails, Infer, InferenceEnds,
                  Cleared, TypeOK
    <3>2. onRecording' \in BOOLEAN /\ onInference' \in BOOLEAN
      BY <2>3 DEF InferenceTick, NotConverted, LoadFails, Infer, TypeOK
    <3>3. ManagerTyped'
      BY <1>a, <2>3 DEF InferenceTick
    <3>4. UNCHANGED <<operationMode, robot, commands, careful>>
      BY <2>3 DEF InferenceTick
    <3>5. CASE UNCHANGED <<manager, timers, alive>>
      BY <1>b, <1>c, <3>1, <3>2, <3>3, <3>4, <3>5
    <3>6. CASE StopTimer
      BY <1>b, <1>c, <3>1, <3>2, <3>3, <3>4, <3>6, StopTimerTyped
    <3> QED
      BY <2>3, <3>5, <3>6
      DEF InferenceTick, NotConverted, LoadFails, Infer, InferenceEnds
  <2> QED
    BY <1>5, <2>1, <2>2, <2>3 DEF Tick
<1>6. CASE UNCHANGED vars \/ Over
  <2>1. ManagerTyped'
    BY <1>a, <1>6 DEF vars, Over
  <2> QED
    BY <1>6, <1>b, <1>c, <2>1 DEF vars, Over
<1>7. CASE Encode
  <2>1. ManagerTyped'
    BY <1>0, <1>7 DEF Encode, ManagerTyped
  <2> QED
    BY <1>7, <1>b, <1>c, <2>1 DEF Encode
<1> QED
  BY <1>1, <1>2, <1>3, <1>4, <1>5, <1>6, <1>7 DEF Next, Telling

\* Who is careful was so before.
LEMMA CarefulBefore ==
  ASSUME TypeOK, [Next]_vars, careful' PROVE careful
<1>1. CASE Telling
  BY <1>1, TellingTyped
<1>2. ASSUME NEW t \in timers, Tick(t) PROVE careful
  BY <1>2, CollectionTyped DEF Tick, Raises, InferenceTick
<1>3. CASE StartRecord \/ StartInference \/ SetRobotType
  BY <1>3 DEF StartRecord, StartInference, SetRobotType, Noted
<1> QED
  BY <1>1, <1>2, <1>3 DEF Next, Telling, Encode, Over, vars

\* No tick of a careful operator's recording raises.
LEMMA NoSaveRaises ==
  ASSUME TypeOK, Ready, careful, timers # {}, operationMode = "collection",
         NEW c \in Found
  PROVE  ~Crash(c)
<1> SUFFICES ASSUME Crash(c) PROVE FALSE
  OBVIOUS
<1>1. /\ status # "take" /\ saving # TRUE
      /\ \/ task.optimized = TRUE /\ c = "empty"
         \/ /\ status = "finish" /\ task.several = TRUE
            /\ c = "nothing" /\ stored # TRUE
  <2>1. task.optimized \in BOOLEAN /\ task.several \in BOOLEAN
    BY DEF TypeOK, TaskInfos
  <2> QED
    BY <2>1 DEF Crash, SaveRaises, TypeOK
<1>2. saving = FALSE
  BY <1>1 DEF TypeOK
<1>3. c = content \/ content = "closed"
  BY DEF Found
<1>4. content # "closed"
  BY <1>1 DEF Ready
<1> QED
  BY <1>1, <1>2, <1>3, <1>4 DEF Ready

\* Nor does any step leave it one that would.
ReadyFor(c, s, sv, st, tk) ==
  /\ c = "closed" => s = "take" /\ sv = FALSE
  /\ c = "empty" /\ tk.optimized = TRUE => s = "take" /\ sv = FALSE
  /\ tk.several = TRUE /\ s = "finish" /\ sv = FALSE
       => st = TRUE \/ c = "some"

LEMMA CollectionReady ==
  ASSUME TypeOK, Ready, careful', timers # {}, operationMode = "collection",
         CollectionTick
  PROVE  ReadyFor(content', status', saving', stored', task') \/ Ends
<1>0. careful
  BY CollectionTyped
<1>1. ReadyFor(content, status, saving, stored, task)
  BY <1>0 DEF Ready, ReadyFor
<1>2. CASE CollectFails
  BY <1>2 DEF CollectFails
<1>3. ASSUME NEW c \in Found,
             \/ Take(c) \/ Crash(c) \/ Begin(c)
             \/ SaveDone(c) \/ FinishDone(c) \/ SaveWaits(c)
      PROVE  ReadyFor(content', status', saving', stored', task') \/ Ends
  <2>0. /\ c \in {"empty", "some", "nothing"}
        /\ c = content \/ content = "closed"
    BY DEF Found, TypeOK
  <2>t. /\ saving \in BOOLEAN /\ stored \in BOOLEAN
        /\ task.optimized \in BOOLEAN /\ task.several \in BOOLEAN
        /\ status \in {"take", "save", "finish"}
    BY DEF TypeOK, TaskInfos
  <2>1. CASE Take(c)
    <3>1. UNCHANGED <<task, saving, stored>>
      BY <2>1 DEF Take
    <3>2. CASE status' = "take" /\ content' \in {c, "some"}
      <4>1. content = "closed" => saving = FALSE
        BY <1>1 DEF ReadyFor
      <4>2. c = "empty" /\ task.optimized = TRUE => saving = FALSE
        BY <1>1, <2>0, <4>1 DEF ReadyFor
      <4> QED
        BY <2>0, <3>1, <3>2, <4>2 DEF ReadyFor
    <3>3. CASE ~task.several /\ c # "empty" /\ status' = "save" /\ content' = c
      BY <2>0, <3>1, <3>3 DEF ReadyFor
    <3>4. CASE /\ status' = IF task.several THEN "finish"
                            ELSE IF c # "nothing" THEN "save" ELSE status
               /\ content' = c /\ Savable(c)
      <4>1. c # "empty" /\ (c = "some" \/ stored = TRUE)
        BY <3>4 DEF Savable
      <4> QED
        BY <2>0, <3>1, <3>4, <4>1 DEF ReadyFor
    <3> QED
      BY <2>1, <3>2, <3>3, <3>4 DEF Take
  <2>2. CASE Crash(c)
    BY <1>0, <2>2, NoSaveRaises
  <2>3. CASE Begin(c)
    <3>1. /\ saving' = TRUE /\ task' = task /\ ~SaveRaises(c)
          /\ content' = IF c = "some" /\ ~task.optimized THEN "empty" ELSE c
      BY <2>3 DEF Begin
    <3>2. content' # "closed"
      BY <2>0, <3>1
    <3>3. ~(content' = "empty" /\ task.optimized = TRUE)
      BY <2>0, <3>1 DEF SaveRaises
    <3> QED
      BY <3>1, <3>2, <3>3 DEF ReadyFor
  <2>4. CASE SaveDone(c)
    <3>1. CASE Ends
      BY <3>1
    <3>2. CASE status' \in {"take", "save"}
      <4>1. /\ saving = TRUE /\ saving' = FALSE /\ task' = task
            /\ content' \in {"nothing", c}
        BY <2>4, <2>t DEF SaveDone, Reset
      <4>2. content # "closed"
        BY <1>1, <4>1 DEF ReadyFor
      <4>3. ~(c = "empty" /\ task.optimized = TRUE)
        BY <1>1, <2>0, <4>1, <4>2 DEF ReadyFor
      <4> QED
        BY <2>0, <3>2, <4>1, <4>3 DEF ReadyFor
    <3> QED
      BY <2>4, <3>1, <3>2 DEF SaveDone
  <2>5. CASE FinishDone(c)
    BY <2>5 DEF FinishDone
  <2>6. CASE SaveWaits(c)
    <3>1. /\ saving = TRUE /\ content' = c
          /\ UNCHANGED <<task, status, saving, stored>>
      BY <2>6, <2>t DEF SaveWaits
    <3>2. content = c
      BY <1>1, <2>0, <3>1 DEF ReadyFor
    <3> QED
      BY <1>1, <3>1, <3>2
  <2> QED
    BY <1>3, <2>1, <2>2, <2>3, <2>4, <2>5, <2>6
<1> QED
  BY <1>2, <1>3 DEF CollectionTick

LEMMA TellingReady ==
  ASSUME TypeOK, Ready, careful', timers # {}, operationMode = "collection",
         Telling
  PROVE  ReadyFor(content', status', saving', stored', task')
<1>0. careful
  BY TellingTyped
<1>1. ReadyFor(content, status, saving, stored, task)
  BY <1>0 DEF Ready, ReadyFor
<1>2. ASSUME NEW shown, Told(shown) PROVE shown
  BY <1>2 DEF Told, Noted
<1>3. ASSUME Savable(content), UNCHANGED <<task, saving, content, stored>>
      PROVE  ReadyFor(content', status', saving', stored', task')
  <2>1. content # "closed" /\ content # "empty"
        /\ (content = "some" \/ stored = TRUE)
    BY <1>3 DEF Savable
  <2> QED
    BY <1>3, <2>1 DEF ReadyFor
<1>4. CASE Retry
  <2>1. CASE content = "closed"
    BY <1>1, <1>4, <2>1 DEF Retry, Retake, ReadyFor
  <2>2. CASE content # "closed"
    <3>1. /\ status' = "take" /\ content' \in {content, "nothing"}
          /\ UNCHANGED <<task, saving, stored>>
      BY <1>4, <2>2 DEF Retry, Retake, Reset
    <3> QED
      BY <1>1, <2>2, <3>1 DEF ReadyFor
  <2> QED
    BY <2>1, <2>2
<1>5. CASE Stop
  BY <1>2, <1>3, <1>5 DEF Stop
<1>6. CASE MoveToNext
  BY <1>2, <1>3, <1>6 DEF MoveToNext
<1>7. CASE Finish
  BY <1>2, <1>3, <1>7 DEF Finish
<1> QED
  BY <1>4, <1>5, <1>6, <1>7 DEF Telling

LEMMA NextReady == IInv /\ [Next]_vars => Ready'
<1> SUFFICES ASSUME IInv, [Next]_vars, careful', timers' # {},
                    operationMode' = "collection"
             PROVE  ReadyFor(content', status', saving', stored', task')
  BY DEF Ready, ReadyFor
<1>0. careful
  BY CarefulBefore DEF IInv
<1>a. /\ TypeOK /\ Ready /\ alive = TRUE /\ timers \subseteq {manager}
      /\ timers # {} => robot = "ready" /\ manager.mode = operationMode
  BY <1>0 DEF IInv, InHand
<1>b. ASSUME timers # {}, operationMode = "collection",
             UNCHANGED <<task, status, saving, content, stored>>
      PROVE  ReadyFor(content', status', saving', stored', task')
  BY <1>0, <1>a, <1>b DEF Ready, ReadyFor
<1>1. CASE StartRecord
  <2>1. timers = {}
    BY <1>1 DEF StartRecord, Noted, Quiet
  <2>2. CASE Record
    BY <2>2 DEF Record, InitFromTask, NewDataManager, ReadyFor
  <2> QED
    BY <1>1, <2>1, <2>2 DEF StartRecord, Restart, FailToRecord
<1>2. CASE StartInference
  <2>1. timers = {}
    BY <1>2 DEF StartInference, Noted, Quiet
  <2>2. ~RefuseInference
    BY <2>1 DEF RefuseInference
  <2> QED
    BY <1>2, <2>2 DEF StartInference, BeginInference
<1>3. CASE Telling
  BY <1>a, <1>3, TellingReady, TellingTyped
<1>4. CASE SetRobotType
  BY <1>4 DEF SetRobotType, Noted, Quiet
<1>5. ASSUME NEW t \in timers, Tick(t)
      PROVE  ReadyFor(content', status', saving', stored', task')
  <2>0. t = manager /\ robot = "ready" /\ t.mode = operationMode
    BY <1>a
  <2>1. CASE InferenceTick
    <3>1. UNCHANGED <<operationMode, task, status, saving, content, stored>>
      BY <2>1 DEF InferenceTick, managerVars
    <3> QED
      BY <1>b, <3>1
  <2>2. CASE CollectionTick
    <3>1. operationMode = "collection"
      BY <2>2 DEF CollectionTick
    <3>2. ~Ends
      <4>1. ASSUME Ends PROVE timers' = {}
        BY <1>a, <2>0, <4>1, StopTimerTyped DEF Ends
      <4> QED
        BY <4>1
    <3> QED
      BY <1>a, <2>2, <3>1, <3>2, CollectionReady
  <2> QED
    BY <1>5, <2>0, <2>1, <2>2 DEF Tick, Raises
<1>6. CASE UNCHANGED vars \/ Over \/ Encode
  BY <1>b, <1>6 DEF vars, managerVars, Over, Encode
<1> QED
  BY <1>1, <1>2, <1>3, <1>4, <1>5, <1>6 DEF Next, Telling

\* Every step keeps the one timer in the manager's hands, and the flags with it.
LEMMA NextInHand == IInv /\ [Next]_vars => InHand' /\ Flags'
<1> SUFFICES ASSUME IInv, [Next]_vars, careful'
             PROVE  InHand' /\ Flags'
  BY DEF InHand, Flags
<1>0. careful
  BY CarefulBefore DEF IInv
<1>a. /\ TypeOK /\ Ready /\ Flags /\ alive = TRUE /\ timers \subseteq {manager}
      /\ timers # {} => robot = "ready" /\ manager.mode = operationMode
  BY <1>0 DEF IInv, InHand
<1>1. CASE StartRecord
  <2>0. alive' = TRUE /\ timers = {} /\ robot = "ready"
    BY <1>1, <1>a, CommandTyped DEF StartRecord, Noted, Quiet
  <2>1. CASE Restart
    BY <1>0, <1>a, <1>1, <2>0, <2>1 DEF StartRecord, Restart, InHand, Flags
  <2>2. CASE Record
    <3>1. timers' = {manager'} /\ manager'.mode = "collection"
      BY <1>1, <1>a, <2>0, <2>2, NewTimerTyped
      DEF StartRecord, Record, InitFromTask, Modes
    <3>2. InHand'
      BY <1>1, <2>0, <2>2, <3>1 DEF StartRecord, Record, InHand
    <3>3. onInference = TRUE => RecordInference
      BY <1>0, <1>a, <2>0 DEF Flags
    <3> QED
      BY <1>1, <2>0, <2>2, <3>1, <3>2, <3>3 DEF StartRecord, Record, Flags
  <2> QED
    BY <1>1, <2>0, <2>1, <2>2 DEF StartRecord, FailToRecord
<1>2. CASE StartInference
  <2>0. alive' = TRUE /\ timers = {} /\ robot = "ready"
    BY <1>2, <1>a, CommandTyped DEF StartInference, Noted, Quiet
  <2>1. CASE RefuseInference
    BY <1>0, <1>a, <1>2, <2>0, <2>1
    DEF StartInference, RefuseInference, InHand, Flags
  <2>2. CASE BeginInference
    <3>1. timers' = {manager'} /\ manager'.mode = "inference"
      BY <1>2, <1>a, <2>0, <2>2, NewTimerTyped
      DEF StartInference, BeginInference, InitFromTask, Modes
    <3>2. InHand'
      BY <1>2, <2>0, <2>2, <3>1 DEF StartInference, BeginInference, InHand
    <3>3. ~RecordInference => onRecording' = FALSE
      <4>1. ~RecordInference => onRecording # TRUE
        BY <1>0, <1>a, <2>0 DEF Flags
      <4> QED
        BY <1>a, <2>2, <4>1, Zenon DEF BeginInference, TypeOK
    <3> QED
      BY <2>2, <3>1, <3>2, <3>3 DEF BeginInference, Flags
  <2> QED
    BY <1>2, <2>1, <2>2 DEF StartInference
<1>3. CASE Telling
  BY <1>0, <1>a, <1>3, TellingTyped DEF InHand, Flags
<1>4. CASE SetRobotType
  <2>0. alive' = TRUE /\ timers = {}
    BY <1>4, <1>a, CommandTyped DEF SetRobotType, Noted, Quiet
  <2> QED
    BY <1>0, <1>a, <1>4, <2>0 DEF SetRobotType, InHand, Flags
<1>5. ASSUME NEW t \in timers, Tick(t) PROVE InHand' /\ Flags'
  <2>0. t = manager /\ robot = "ready" /\ t.mode = operationMode
    BY <1>a
  <2>1. UNCHANGED <<operationMode, robot>>
    BY <1>5 DEF Tick, Raises, CollectionTick, InferenceTick
  <2>2. CASE UNCHANGED <<manager, timers, alive, onRecording>>
             /\ (onInference' = onInference \/ onInference' = FALSE)
    BY <1>0, <1>a, <2>1, <2>2 DEF InHand, Flags
  <2>3. CASE t.mode = "collection" /\ StopTimer /\ onRecording' = FALSE
             /\ UNCHANGED onInference
    <3>1. timers' = {} /\ alive' = TRUE
      BY <1>a, <2>0, <2>3, StopTimerTyped
    <3>2. onInference = TRUE => RecordInference
      BY <1>0, <1>a, <2>0, <2>3 DEF Flags
    <3> QED
      BY <2>3, <3>1, <3>2 DEF InHand, Flags
  <2>4. CASE t.mode = "inference" /\ StopTimer
             /\ (onRecording' = onRecording \/ onRecording' = FALSE)
             /\ (\/ onInference' = FALSE
                 \/ onInference' = onInference /\ ~onInference)
    <3>1. timers' = {} /\ alive' = TRUE
      BY <1>a, <2>0, <2>4, StopTimerTyped
    <3>2. onRecording = TRUE => RecordInference
      BY <1>0, <1>a, <2>0, <2>4 DEF Flags
    <3> QED
      BY <2>4, <3>1, <3>2 DEF InHand, Flags
  <2>5. CASE t.mode = "collection" /\ CollectionTick
    <3>1. UNCHANGED onInference
      BY <2>5 DEF CollectionTick
    <3>2. GoesOn \/ Ends
      <4>1. ASSUME NEW c \in Found PROVE ~Crash(c)
        BY <1>0, <1>a, <2>0, <2>5, NoSaveRaises
      <4>2. CASE CollectFails
        BY <4>2 DEF CollectFails
      <4>3. CASE \E c \in Found :
                   \/ Take(c) \/ Begin(c)
                   \/ SaveDone(c) \/ FinishDone(c) \/ SaveWaits(c)
        BY <4>3, Zenon DEF Take, Begin, SaveDone, FinishDone, SaveWaits, MayEnd
      <4> QED
        BY <2>5, <4>1, <4>2, <4>3 DEF CollectionTick
    <3>3. CASE GoesOn
      BY <2>2, <3>1, <3>3 DEF GoesOn
    <3>4. CASE Ends
      BY <2>3, <2>5, <3>1, <3>4 DEF Ends
    <3> QED
      BY <3>2, <3>3, <3>4
  <2>6. CASE t.mode = "inference" /\ InferenceTick
    <3>1. CASE NotConverted
      BY <2>4, <2>6, <3>1, Zenon DEF NotConverted, InferenceEnds
    <3>2. CASE LoadFails
      BY <2>2, <3>2 DEF LoadFails
    <3>3. CASE Infer
      BY <2>2, <2>4, <2>6, <3>3, Zenon DEF Infer, InferenceEnds
    <3> QED
      BY <2>6, <3>1, <3>2, <3>3 DEF InferenceTick
  <2> QED
    BY <1>5, <2>0, <2>5, <2>6 DEF Tick, Raises
<1>6. CASE UNCHANGED vars \/ Over \/ Encode
  BY <1>0, <1>a, <1>6 DEF vars, Over, Encode, InHand, Flags
<1> QED
  BY <1>1, <1>2, <1>3, <1>4, <1>5, <1>6 DEF Next, Telling

LEMMA Invariant == Spec => []IInv
<1>1. IInv /\ [Next]_vars => IInv'
  BY NextTyped, NextInHand, NextReady DEF IInv
<1> QED
  BY InitIInv, <1>1, PTL DEF Spec

\* Every variable keeps its type.
THEOREM TypeCorrect == Spec => []TypeOK
<1>1. IInv => TypeOK
  BY DEF IInv
<1> QED
  BY Invariant, <1>1, PTL

\* As long as the operator is careful, a timer that runs is the one that the
\* server stops under its operation mode.
THEOREM TimerIsManagedAlways == Spec => []TimerIsManaged
<1>1. IInv => TimerIsManaged
  BY DEF IInv, InHand, TimerIsManaged
<1> QED
  BY Invariant, <1>1, PTL

\* Such an operator's server survives all starts, ends, saves and failures.
THEOREM SurvivesAlways == Spec => []Survives
<1>1. IInv => Survives
  BY DEF IInv, InHand, Survives
<1> QED
  BY Invariant, <1>1, PTL

\* Where inferences do not record, the flags of such an operator's server are
\* set only while the timer they speak of runs.
THEOREM FlagsFollowTimersAlways ==
  ASSUME ~RecordInference PROVE Spec => []FlagsFollowTimers
<1>1. IInv => FlagsFollowTimers
  <2> SUFFICES ASSUME IInv, careful PROVE FlagsFollowTimers
    BY DEF FlagsFollowTimers
  <2>1. ASSUME timers # {}
        PROVE  \E t \in timers : t.mode = operationMode
    BY <2>1 DEF IInv, InHand
  <2> QED
    BY <2>1 DEF IInv, Flags, FlagsFollowTimers, TypeOK
<1> QED
  BY Invariant, <1>1, PTL
==============================================================================
