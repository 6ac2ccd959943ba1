---------------------------- MODULE BehaviorTree ----------------------------
(***************************************************************************)
(* A behaviour tree: one Sequence whose children are actions, as the       *)
(* tree that the node loads. The tick timer and the sensors' callbacks run *)
(* one at a time (they share the node's callback group); each action has a *)
(* thread of its own that commands the robot and compares the latest       *)
(* message with its target. A nested Sequence behaves as its children      *)
(* would in its place.                                                     *)
(***************************************************************************)
EXTENDS Integers, Sequences, FiniteSets

CONSTANTS
  Kinds,          \* of the children in order: "move" (arms, head, lift) or "rotate"
  NumJoints,      \* joints that a move compares, one after the other
  Limit,          \* MOVE_*_TIMEOUT_TICKS, ROTATE_INIT_TIMEOUT_TICKS
  PositionsMayLack   \* a joint state may hold fewer positions than names

ASSUME TreeAssumption ==
  /\ Kinds \in Seq({"move", "rotate"}) /\ Kinds # << >>
  /\ NumJoints \in Nat \ {0} /\ Limit \in Nat
  /\ PositionsMayLack \in BOOLEAN

VARIABLES
  mode,      \* tree_execution_mode; "interrupted" is Ctrl-C
  outcome,   \* what the tree's last tick returned
  index,     \* Sequence.current_child_index, from 1
  callback,  \* where tick_callback is; "idle" is between callbacks
  actions,   \* per child: its thread, stop event, result and latest message
  threads,   \* the threads in the order they were started
  moving     \* the base was last told to turn

vars == <<mode, outcome, index, callback, actions, threads, moving>>

Children == DOMAIN Kinds
Joints == 1 .. NumJoints

\* Where a thread has ended.
Ended == {"dead", "raised", "succeeded", "failed"}

\* A message is the set of joints that are at their targets; odometry is all
\* or nothing. NoMessage is None.
NoMessage == {0}
Messages(c) == IF Kinds[c] = "rotate" THEN {{}, Joints} ELSE SUBSET Joints

\* thread is the number of the thread the action refers to, 0 is None.
NewAction ==
  [thread |-> 0, stop |-> FALSE, result |-> "none", message |-> NoMessage]

\* The history met: the joints that some message since the thread was started
\* had at their targets.
NewThread(c) ==
  [child |-> c, joint |-> 1, count |-> 0, at |-> "begin", met |-> {}]

Init ==
  /\ mode = "running" /\ outcome = "RUNNING" /\ index = 1 /\ callback = "idle"
  /\ actions = [c \in Children |-> NewAction]
  /\ threads = << >> /\ moving = FALSE

----------------------------------------------------------------------------
(* tick_callback and Sequence.tick.                                        *)

Current == actions[index]

\* A mutant of Started: the latest message is kept.
StartedKeeping(c) ==
  [NewAction EXCEPT !.thread = Len(threads) + 1, !.message = actions[c].message]

\* action.tick() without a thread.
Started(c) == [NewAction EXCEPT !.thread = Len(threads) + 1]

\* Mutants of Status: a result that is not there yet is a failure; a failure
\* is taken for no result.
StatusHasty(c) == IF actions[c].result = "true" THEN "SUCCESS" ELSE "FAILURE"
StatusPatient(c) == IF actions[c].result = "true" THEN "SUCCESS" ELSE "RUNNING"

\* What action.tick() returns with a thread.
Status(c) ==
  CASE actions[c].result = "none" -> "RUNNING"
    [] actions[c].result = "true" -> "SUCCESS"
    [] actions[c].result = "false" -> "FAILURE"

TickBegin ==
  /\ mode = "running" /\ callback = "idle"
  /\ callback' = "tick"
  /\ UNCHANGED <<mode, outcome, index, actions, threads, moving>>

TickStart ==
  /\ callback = "tick" /\ index \in Children /\ Current.thread = 0
  /\ actions' = [actions EXCEPT ![index] = Started(index)]
  /\ threads' = Append(threads, NewThread(index))
  /\ callback' = "idle"
  /\ UNCHANGED <<mode, outcome, index, moving>>

TickRunning ==
  /\ callback = "tick" /\ index \in Children /\ Current.thread # 0
  /\ Status(index) = "RUNNING"
  /\ callback' = "idle"
  /\ UNCHANGED <<mode, outcome, index, actions, threads, moving>>

\* current_child.reset() sets the event and joins the thread ...
TickReset ==
  /\ callback = "tick" /\ index \in Children /\ Current.thread # 0
  /\ Status(index) # "RUNNING"
  /\ actions' = [actions EXCEPT ![index].stop = TRUE]
  /\ callback' = Status(index)
  /\ UNCHANGED <<mode, outcome, index, threads, moving>>

\* The state after a reset; the stop event stays set.
Reset(a) == [NewAction EXCEPT !.stop = TRUE]

\* ... for a second at most, and forgets it, whether it has ended or not.
\* After a success the same tick goes on with the next child.
TickJoined ==
  /\ callback \in {"SUCCESS", "FAILURE"} /\ index \in Children
  /\ actions' = [actions EXCEPT ![index] = Reset(@)]
  /\ IF callback = "SUCCESS"
     THEN index' = index + 1 /\ callback' = "tick"
     ELSE callback' = "failed" /\ UNCHANGED index
  /\ UNCHANGED <<mode, outcome, threads, moving>>

\* _handle_tree_completion: the tree is reset, which finds no thread left, and
\* the node shuts down.
TickEnd ==
  /\ \/ callback = "failed" /\ outcome' = "FAILURE"
     \/ callback = "tick" /\ index \notin Children /\ outcome' = "SUCCESS"
  /\ actions' = [c \in Children |-> Reset(actions[c])]
  /\ index' = 1 /\ mode' = "stopped" /\ callback' = "idle"
  /\ UNCHANGED <<threads, moving>>

TickStep ==
  TickBegin \/ TickStart \/ TickRunning \/ TickReset \/ TickJoined \/ TickEnd

\* _joint_state_callback, _odom_callback: the first odometry after the start
\* is where the rotation starts.
Message(c) ==
  /\ mode = "running" /\ callback = "idle"
  /\ \E m \in Messages(c) :
       /\ Kinds[c] = "rotate" /\ actions[c].message = NoMessage => m = {}
       /\ actions' = [actions EXCEPT ![c].message = m]
       /\ threads' = [t \in DOMAIN threads |->
            IF t = actions[c].thread
            THEN [threads[t] EXCEPT !.met = @ \cup m] ELSE threads[t]]
  /\ UNCHANGED <<mode, outcome, index, callback, moving>>

\* Ctrl-C ends the executor, and with the process its daemon threads.
Interrupt ==
  /\ mode = "running" /\ callback = "idle"
  /\ mode' = "interrupted"
  /\ threads' = [t \in DOMAIN threads |->
                   IF threads[t].at \in Ended THEN threads[t]
                   ELSE [threads[t] EXCEPT !.at = "dead"]]
  /\ UNCHANGED <<outcome, index, callback, actions, moving>>

----------------------------------------------------------------------------
(* _control_loop, of the thread t.                                         *)

ChildOf(t) == threads[t].child
ActionOf(t) == actions[ChildOf(t)]
Step(t, kind, from) ==
  t \in DOMAIN threads /\ threads[t].at = from /\ Kinds[ChildOf(t)] = kind
Go(t, to) == threads' = [threads EXCEPT ![t].at = to]
Sleep(t, to) ==
  threads' = [threads EXCEPT ![t].at = to, ![t].count = @ + 1]
OnlyThreads == <<mode, outcome, index, callback, actions, moving>>

\* The trajectory is published.
MoveBegin(t) ==
  Step(t, "move", "begin") /\ Go(t, "check") /\ UNCHANGED OnlyThreads

Expired(t) == ActionOf(t).stop \/ threads[t].count >= Limit

MoveCheck(t) ==
  /\ Step(t, "move", "check")
  /\ \/ Expired(t) /\ Go(t, "late")
     \/ /\ ~Expired(t) /\ ActionOf(t).message = NoMessage
        /\ Sleep(t, "check")
     \/ /\ ~Expired(t) /\ ActionOf(t).message # NoMessage
        /\ threads' = [threads EXCEPT ![t].at = "look", ![t].joint = 1]
  /\ UNCHANGED OnlyThreads

\* One joint, in the message that is there now. The code takes the joint's place
\* from the message it checked and its position from this one: they agree as
\* long as all messages name the joints in one order, as those of a single
\* broadcaster do.
MoveLook(t) ==
  /\ Step(t, "move", "look") /\ ActionOf(t).message # NoMessage
  /\ \/ /\ threads[t].joint \notin ActionOf(t).message
        /\ Sleep(t, "check")
     \/ /\ threads[t].joint \in ActionOf(t).message
        /\ IF threads[t].joint = NumJoints
           THEN Go(t, "reached")
           ELSE threads' = [threads EXCEPT ![t].joint = @ + 1]
  /\ UNCHANGED OnlyThreads

\* The message is None by now, or has no position for the joint: the exception
\* ends the thread, and the result stays None.
MoveRaises(t) ==
  /\ Step(t, "move", "look")
  /\ ActionOf(t).message = NoMessage \/ PositionsMayLack
  /\ Go(t, "raised") /\ UNCHANGED OnlyThreads

\* Up to ROTATE_INIT_TIMEOUT_TICKS for the first odometry, stop or not.
RotateBegin(t) ==
  /\ Step(t, "rotate", "begin")
  /\ \/ ActionOf(t).message # NoMessage /\ Go(t, "turn")
     \/ /\ ActionOf(t).message = NoMessage
        /\ IF threads[t].count < Limit THEN Sleep(t, "begin") ELSE Go(t, "late")
  /\ UNCHANGED OnlyThreads

\* A mutant of StandsStill: the base is not stopped at the end.
TurnsOn == UNCHANGED moving
StandsStill == moving' = FALSE

\* The loop has no timeout; a stop leaves no result.
RotateTurn(t) ==
  /\ Step(t, "rotate", "turn")
  /\ \/ ActionOf(t).stop /\ Go(t, "dead") /\ UNCHANGED moving
     \/ /\ ~ActionOf(t).stop /\ ActionOf(t).message = NoMessage
        /\ UNCHANGED <<threads, moving>>
     \/ /\ ~ActionOf(t).stop /\ ActionOf(t).message = Joints
        /\ StandsStill /\ Go(t, "reached")
     \/ /\ ~ActionOf(t).stop /\ ActionOf(t).message = {}
        /\ moving' = TRUE /\ UNCHANGED threads
  /\ UNCHANGED <<mode, outcome, index, callback, actions>>

\* self._result = True, or False after the timeout.
Write(t) ==
  /\ t \in DOMAIN threads /\ threads[t].at \in {"reached", "late"}
  /\ LET reached == threads[t].at = "reached" IN
       /\ actions' = [actions EXCEPT ![ChildOf(t)].result =
                        IF reached THEN "true" ELSE "false"]
       /\ Go(t, IF reached THEN "succeeded" ELSE "failed")
  /\ UNCHANGED <<mode, outcome, index, callback, moving>>

ThreadStep(t) ==
  \/ MoveBegin(t) \/ MoveCheck(t) \/ MoveLook(t) \/ MoveRaises(t)
  \/ RotateBegin(t) \/ RotateTurn(t) \/ Write(t)

----------------------------------------------------------------------------

\* The node has shut down, or waits for an action whose thread is dead.
Over == mode # "running" /\ UNCHANGED vars

Next ==
  \/ TickStep \/ Interrupt \/ Over
  \/ \E c \in Children : Message(c)
  \/ \E t \in DOMAIN threads : ThreadStep(t)

Spec == Init /\ [][Next]_vars

\* The timer fires, and threads run. Nothing is assumed of messages.
FairSpec ==
  /\ Spec /\ WF_vars(TickStep)
  /\ \A t \in Children : WF_vars(ThreadStep(t))

----------------------------------------------------------------------------

\* Every variable has its type.
TypeOK ==
  /\ mode \in {"running", "stopped", "interrupted"}
  /\ outcome \in {"RUNNING", "SUCCESS", "FAILURE"}
  /\ index \in 1 .. Len(Kinds) + 1
  /\ callback \in {"idle", "tick", "SUCCESS", "FAILURE", "failed"}
  /\ actions \in [Children ->
       [thread : Nat, stop : BOOLEAN, result : {"none", "true", "false"},
        message : (SUBSET Joints) \cup {NoMessage}]]
  /\ threads \in Seq([child : Children, joint : Joints, count : Nat,
       met : SUBSET Joints,
       at : Ended \cup {"begin", "check", "look", "turn", "reached", "late"}])
  /\ moving \in BOOLEAN

\* A thread that can still read its action's messages or write its result is
\* the one the action refers to, of the child whose turn it is: the second a
\* reset waits is always enough, no thread meets a message that a reset took
\* away, none writes into a later run, and two never command the robot at once.
NoStrayThread ==
  mode = "running" =>
    \A t \in DOMAIN threads : threads[t].at \notin Ended =>
      /\ actions[ChildOf(t)].thread = t /\ ~actions[ChildOf(t)].stop
      /\ ChildOf(t) = index

\* An action succeeds only on what was measured after it began: each joint,
\* though not all in one message, was at its target at some time since.
Measured ==
  \A t \in DOMAIN threads :
    threads[t].at = "succeeded" => threads[t].met = Joints

\* The children run in order, each once and only when all before it succeeded,
\* and the tree succeeds when all have.
InOrder ==
  /\ \A t \in DOMAIN threads :
       /\ ChildOf(t) = t
       /\ \A u \in 1 .. t - 1 :
            threads[u].at = "succeeded"
  /\ outcome = "SUCCESS" =>
       /\ Len(threads) = Len(Kinds)
       /\ \A t \in DOMAIN threads : threads[t].at = "succeeded"

\* No success is left over from another run or taken for granted: neither of
\* an action nor of the tree.
SuccessIsEarned == Measured /\ InOrder

\* The base stands when no Rotate is at work, unless the node was interrupted.
BaseStands ==
  moving => \/ mode = "interrupted"
            \/ \E t \in DOMAIN threads : Step(t, "rotate", "turn")

\* The tree ends, unless a thread died of an exception, a rotation that does
\* not get where it should goes on, or the node is interrupted.
TreeEnds ==
  <>[]( \/ mode # "running"
      \/ \E t \in DOMAIN threads :
           \/ threads[t].at = "raised"
           \/ Step(t, "rotate", "turn"))
=============================================================================
