------------------------ MODULE TrainingControl_proofs ------------------------
(***************************************************************************)
(* Proofs about TrainingControl, for every bound on the commands. The      *)
(* invariant has two halves: Numbered, which holds whatever is commanded,  *)
(* and InHand, which a careful operator keeps.                             *)
(***************************************************************************)
EXTENDS TrainingControl, TLAPS

\* While START is under way its manager, and then its timer, is the latest.
Numbered ==
  /\ manager <= commands
  /\ pc = "managed" => manager = commands
  /\ pc \in {"managed", "timed", "shown", "started"} => manager # 0
  /\ pc \in {"timed", "shown"} => timer = manager

\* START goes on only without a training thread, and whatever can still be
\* cleaned up has its manager and timer: the latest ones.
OwnTraining ==
  /\ pc \in {"managed", "timed", "shown"} => ~ThreadAlive
  /\ ThreadAlive \/ pc = "stopping" => manager # 0 /\ timer = manager
  /\ thread = "training" => trains = manager

\* A status timer that runs is the latest; it runs until the training is told
\* to stop, and never without a training or a START that may begin one.
OwnTimer ==
  /\ timers \subseteq {timer}
  /\ ThreadAlive => timer \in timers \/ manager \in stopped
  /\ thread \in {"signalled", "leaving"} \/ pc = "stopping"
       => manager \in stopped
  /\ pc = "shown" => timer \in timers
  /\ (~ThreadAlive \/ thread = "leaving") /\ pc # "shown" => timers = {}

InHand == careful => alive /\ OwnTraining /\ OwnTimer

IInv == TypeOK /\ Numbered /\ InHand

\* The initial state satisfies the invariant.
LEMMA InitIInv == Init => IInv
<1> SUFFICES ASSUME Init PROVE IInv
  OBVIOUS
<1> USE TrainingControlAssumption DEF TrainingControlAssumption, Init
<1>1. TypeOK
  <2>1. isTraining \in BOOLEAN /\ alive \in BOOLEAN /\ careful \in BOOLEAN
    BY Zenon
  <2> QED
    BY <2>1 DEF TypeOK, Numbers
<1>2. Numbered
  BY DEF Numbered
<1>3. alive /\ OwnTraining /\ OwnTimer
  BY DEF OwnTraining, OwnTimer, ThreadAlive
<1> QED
  BY <1>1, <1>2, <1>3 DEF IInv, InHand

\* Setting an event keeps the events those of managers.
LEMMA SignalTyped ==
  ASSUME TypeOK, Signal
  PROVE  stopped \subseteq stopped' /\ stopped' \subseteq 1 .. manager
<1>1. CASE manager = 0
  BY <1>1 DEF TypeOK, Signal
<1>2. CASE manager # 0
  <2>1. manager \in 1 .. manager
    BY <1>2, TrainingControlAssumption
    DEF TypeOK, Numbers, TrainingControlAssumption
  <2> QED
    BY <1>2, <2>1 DEF TypeOK, Signal
<1> QED
  BY <1>1, <1>2

\* What a clean-up of the service leaves.
LEMMA CleanUpTyped ==
  ASSUME TypeOK, CleanUp
  PROVE  /\ isTraining' = FALSE /\ alive' \in BOOLEAN
         /\ timers' \subseteq timers
         /\ stopped \subseteq stopped' /\ stopped' \subseteq 1 .. manager
         /\ manager # 0 /\ timer # 0
              => alive' = alive /\ timers' = timers \ {timer}
<1>1. Signal
  BY DEF CleanUp
<1>2. stopped \subseteq stopped' /\ stopped' \subseteq 1 .. manager
  BY <1>1, SignalTyped
<1>3. CASE manager = 0 \/ timer = 0
  BY <1>2, <1>3, Zenon DEF CleanUp, TypeOK
<1>4. CASE ~(manager = 0 \/ timer = 0)
  BY <1>2, <1>4, Zenon DEF CleanUp, TypeOK
<1> QED
  BY <1>3, <1>4

\* Every step keeps the types and the numbering.
LEMMA NextNumbered == TypeOK /\ Numbered /\ [Next]_vars => TypeOK' /\ Numbered'
<1> SUFFICES ASSUME TypeOK, Numbered, [Next]_vars
             PROVE  TypeOK' /\ Numbered'
  OBVIOUS
<1> USE TrainingControlAssumption DEF TrainingControlAssumption, TypeOK,
        Numbered, Numbers, mainVars, threadVars
<1>1. CASE Start
  BY <1>1 DEF Start, Command, Noted, ThreadAlive
<1>2. CASE Finish
  <2>1. stopped' \subseteq 1 .. manager
    BY <1>2, SignalTyped DEF Finish
  <2>2. careful' \in BOOLEAN /\ isTraining' \in BOOLEAN /\ alive' \in BOOLEAN
    BY <1>2, Zenon DEF Finish, Command, Noted
  <2> QED
    BY <1>2, <2>1, <2>2 DEF Finish, Command
<1>3. CASE SetRobotType
  BY <1>3 DEF SetRobotType, Command, Noted, ThreadAlive
<1>4. CASE MakeTimer
  BY <1>4 DEF MakeTimer
<1>5. CASE ShowStatus
  BY <1>5 DEF ShowStatus
<1>6. CASE AlreadyTraining
  BY <1>6 DEF AlreadyTraining
<1>7. CASE Invalid
  <2>1. /\ stopped' \subseteq 1 .. manager /\ timers' \subseteq timers
        /\ isTraining' \in BOOLEAN /\ alive' \in BOOLEAN
    BY <1>7, CleanUpTyped DEF Invalid
  <2> QED
    BY <1>7, <2>1 DEF Invalid
<1>8. CASE StartThread
  BY <1>8 DEF StartThread
<1>9. CASE Started
  BY <1>9 DEF Started
<1>10. CASE Finished
  <2>1. /\ stopped' \subseteq 1 .. manager /\ timers' \subseteq timers
        /\ isTraining' \in BOOLEAN /\ alive' \in BOOLEAN
    BY <1>10, CleanUpTyped DEF Finished
  <2> QED
    BY <1>10, <2>1 DEF Finished
<1>11. CASE ThreadGoesOn \/ EndTraining
  <2>1. CASE BeginTraining
    BY <2>1 DEF BeginTraining
  <2>2. CASE EndTraining
    BY <2>2 DEF EndTraining
  <2>3. CASE ClearFlag
    BY <2>3 DEF ClearFlag
  <2>4. CASE SignalOwnEnd
    BY <2>4 DEF SignalOwnEnd, Signal
  <2>5. CASE StopStatus
    BY <2>5 DEF StopStatus
  <2>6. CASE Leave
    BY <2>6 DEF Leave
  <2> QED
    BY <1>11, <2>1, <2>2, <2>3, <2>4, <2>5, <2>6
    DEF ThreadGoesOn, StopTraining
<1>12. CASE UNCHANGED vars \/ Over
  BY <1>12 DEF vars, Over
<1> QED
  BY <1>1, <1>2, <1>3, <1>4, <1>5, <1>6, <1>7, <1>8, <1>9, <1>10, <1>11, <1>12
  DEF Next, Service

\* Every step of a careful operator, and of the two threads, keeps the training
\* and its timer in hand.
LEMMA NextInHand == IInv /\ [Next]_vars => InHand'
<1> SUFFICES ASSUME IInv, [Next]_vars, careful'
             PROVE  (alive /\ OwnTraining /\ OwnTimer)'
  BY DEF InHand
<1>0. careful
  BY DEF Next, Start, Finish, SetRobotType, Noted, Service, MakeTimer,
         ShowStatus, AlreadyTraining, Invalid, StartThread, Started, Finished,
         ThreadGoesOn, BeginTraining, StopTraining, EndTraining, ClearFlag,
         SignalOwnEnd, StopStatus, Leave, Over, mainVars, vars
<1>a. TypeOK /\ Numbered /\ alive /\ OwnTraining /\ OwnTimer
  BY <1>0 DEF IInv, InHand
<1> USE <1>a DEF TypeOK, Numbered, OwnTraining, OwnTimer, ThreadAlive, Numbers,
        mainVars, threadVars
<1>1. CASE Start
  BY <1>1 DEF Start, Command, Noted
<1>2. CASE Finish
  BY <1>2 DEF Finish, Command, Noted, Signal
<1>3. CASE SetRobotType
  BY <1>3 DEF SetRobotType, Command, Noted
<1>4. CASE MakeTimer
  BY <1>4 DEF MakeTimer
<1>5. CASE ShowStatus
  BY <1>5 DEF ShowStatus
<1>6. CASE AlreadyTraining
  BY <1>6 DEF AlreadyTraining
<1>7. CASE Invalid
  BY <1>7, CleanUpTyped DEF Invalid
<1>8. CASE StartThread
  BY <1>8 DEF StartThread
<1>9. CASE Started
  BY <1>9 DEF Started
<1>10. CASE Finished
  BY <1>10, CleanUpTyped DEF Finished
<1>11. CASE ThreadGoesOn \/ EndTraining
  <2>1. CASE BeginTraining
    BY <2>1 DEF BeginTraining
  <2>2. CASE EndTraining
    BY <2>2 DEF EndTraining
  <2>3. CASE ClearFlag
    BY <2>3 DEF ClearFlag
  <2>4. CASE SignalOwnEnd
    BY <2>4 DEF SignalOwnEnd, Signal
  <2>5. CASE StopStatus
    BY <2>5 DEF StopStatus
  <2>6. CASE Leave
    BY <2>6 DEF Leave
  <2> QED
    BY <1>11, <2>1, <2>2, <2>3, <2>4, <2>5, <2>6
    DEF ThreadGoesOn, StopTraining
<1>12. CASE UNCHANGED vars \/ Over
  BY <1>12 DEF vars, Over
<1> QED
  BY <1>1, <1>2, <1>3, <1>4, <1>5, <1>6, <1>7, <1>8, <1>9, <1>10, <1>11, <1>12
  DEF Next, Service

LEMMA Invariant == Spec => []IInv
<1>1. IInv /\ [Next]_vars => IInv'
  BY NextNumbered, NextInHand DEF IInv
<1> QED
  BY InitIInv, <1>1, PTL DEF Spec

\* Every variable keeps its type, and no timer or training is newer than the
\* latest manager.
THEOREM TypeCorrect == Spec => []TypeOK
<1>1. IInv => TypeOK
  BY DEF IInv
<1> QED
  BY Invariant, <1>1, PTL

\* For a careful operator, a training that nobody asked to stop shows its
\* status and is the one that FINISH would reach.
THEOREM TrainingInHandAlways == Spec => []TrainingInHand
<1>1. IInv => TrainingInHand
  BY DEF IInv, InHand, OwnTraining, OwnTimer, TrainingInHand, ThreadAlive
<1> QED
  BY Invariant, <1>1, PTL

\* For a careful operator no status timer outlives its training.
THEOREM NoTimerLeftAlways == Spec => []NoTimerLeft
<1>1. IInv => NoTimerLeft
  BY DEF IInv, InHand, OwnTimer, NoTimerLeft
<1> QED
  BY Invariant, <1>1, PTL

\* The server survives a careful operator.
THEOREM SurvivesAlways == Spec => []Survives
<1>1. IInv => Survives
  BY DEF IInv, InHand, Survives
<1> QED
  BY Invariant, <1>1, PTL
===============================================================================
