------------------------ MODULE BehaviorTree_proofs ------------------------
(***************************************************************************)
(* Proofs about BehaviorTree, for any sequence of moves and rotations, any *)
(* number of joints and any timeout: whose turn it is, which thread is at  *)
(* work, and what a success rests on.                                      *)
(***************************************************************************)
EXTENDS BehaviorTree, SequenceTheorems, TLAPS

Places == Ended \cup {"begin", "check", "look", "turn", "reached", "late"}
ThreadType == [child : Children, joint : Joints, count : Nat,
               met : SUBSET Joints, at : Places]
ActionType == [thread : Nat, stop : BOOLEAN, result : {"none", "true", "false"},
               message : (SUBSET Joints) \cup {NoMessage}]

Alive(t) == threads[t].at \notin Ended

\* The threads are those of the first children, in order, and each was started
\* when the one before it had succeeded.
Order ==
  /\ Len(threads) <= Len(Kinds)
  /\ \A t \in DOMAIN threads :
       /\ threads[t].child = t
       /\ \A u \in 1 .. t - 1 : threads[u].at = "succeeded"

\* While the tree runs, the last thread is that of the child whose turn it is,
\* and no other action refers to a thread; or that child has none yet.
Turn ==
  mode = "running" =>
    /\ Len(threads) = index \/ Len(threads) = index - 1
    /\ \A c \in Children : c > Len(threads) => actions[c].thread = 0
    /\ Len(threads) = index - 1 =>
         /\ callback \in {"idle", "tick"}
         /\ \A t \in DOMAIN threads : threads[t].at = "succeeded"

\* The action's result is what its thread has ended with, until it is reset.
Result ==
  mode = "running" /\ Len(threads) = index =>
    /\ callback # "failed" =>
         /\ actions[index].thread = index
         /\ actions[index].result = "true" <=> threads[index].at = "succeeded"
         /\ actions[index].result = "false" <=> threads[index].at = "failed"
    /\ callback \in {"idle", "tick"} => ~actions[index].stop
    /\ callback = "SUCCESS" => threads[index].at = "succeeded"
    /\ callback \in {"FAILURE", "failed"} => threads[index].at = "failed"

\* When the node has shut down no thread is left.
Rest ==
  /\ mode # "running" => callback = "idle" /\ \A t \in DOMAIN threads : ~Alive(t)
  /\ mode = "running" => outcome = "RUNNING"
  /\ outcome = "SUCCESS" =>
       /\ Len(threads) = Len(Kinds)
       /\ \A t \in DOMAIN threads : threads[t].at = "succeeded"

\* What a thread has looked at, and what it may look at, was met.
Looked(th) ==
  /\ th.at = "look" => 1 .. th.joint - 1 \subseteq th.met
  /\ th.at \in {"reached", "succeeded"} => th.met = Joints

Met ==
  \A t \in DOMAIN threads :
    /\ Looked(threads[t])
    /\ Alive(t) /\ mode = "running" =>
         \/ actions[t].message = NoMessage
         \/ actions[t].message \subseteq threads[t].met

IInv == TypeOK /\ Order /\ Turn /\ Result /\ Rest /\ Met

----------------------------------------------------------------------------

\* What the type invariant says of the children and of the threads.
LEMMA TypesSpelled ==
  ASSUME TypeOK
  PROVE  /\ Children = 1 .. Len(Kinds) /\ Len(Kinds) \in Nat \ {0}
         /\ threads \in Seq(ThreadType) /\ Len(threads) \in Nat
         /\ DOMAIN threads = 1 .. Len(threads)
         /\ \A t \in DOMAIN threads : threads[t] \in ThreadType
         /\ actions \in [Children -> ActionType]
         /\ index \in 1 .. Len(Kinds) + 1
<1>1. threads \in Seq(ThreadType)
  BY DEF TypeOK, ThreadType, Places
<1>2. Len(threads) \in Nat /\ DOMAIN threads = 1 .. Len(threads)
  BY <1>1
<1>3. \A t \in DOMAIN threads : threads[t] \in ThreadType
  BY <1>1, <1>2, ElementOfSeq
<1>4. actions \in [Children -> ActionType] /\ index \in 1 .. Len(Kinds) + 1
  BY DEF TypeOK, ActionType
<1>5. Children = 1 .. Len(Kinds) /\ Len(Kinds) \in Nat \ {0}
  BY TreeAssumption DEF Children
<1>. QED
  BY <1>1, <1>2, <1>3, <1>4, <1>5

\* What a new action, one that was started and one that was reset refer to.
LEMMA NewActions ==
  ASSUME NEW n \in Nat
  PROVE  /\ NewAction \in ActionType /\ NewAction.thread = 0
         /\ LET a == [NewAction EXCEPT !.thread = n] IN
              /\ a \in ActionType /\ a.thread = n /\ ~a.stop /\ a.result = "none"
              /\ a.message = NoMessage
         /\ \A a : Reset(a) \in ActionType /\ Reset(a).thread = 0
<1>. DEFINE msgs == (SUBSET Joints) \cup {NoMessage}
            none == NoMessage
<1>1. none \in msgs
  OBVIOUS
<1>2. /\ NewAction = [thread |-> 0, stop |-> FALSE, result |-> "none", message |-> none]
      /\ ActionType = [thread : Nat, stop : BOOLEAN,
                       result : {"none", "true", "false"}, message : msgs]
      /\ \A a : Reset(a) = [NewAction EXCEPT !.stop = TRUE]
      /\ none = NoMessage
  BY DEF NewAction, ActionType, Reset
<1>. HIDE DEF msgs, none
<1>. QED
  BY <1>1, <1>2

\* The one thread that lives while the tree runs.
LEMMA OneAlive ==
  ASSUME IInv, NEW t \in DOMAIN threads, Alive(t)
  PROVE  /\ mode = "running" /\ t = index /\ Len(threads) = index
         /\ threads[t].child = t /\ t \in Children
         /\ actions[t].thread = t /\ callback \in {"idle", "tick"}
         /\ ~actions[t].stop
<1>0. TypeOK
  BY DEF IInv
<1>1. mode = "running"
  BY DEF IInv, Rest
<1>2. Len(threads) = index
  BY <1>1 DEF IInv, Turn, Alive, Ended
<1>3. t = index
  <2>1. CASE t # index
    <3>1. t \in 1 .. index - 1 /\ index \in DOMAIN threads
      BY <1>0, <1>2, <2>1, TypesSpelled
    <3>2. threads[t].at = "succeeded"
      BY <3>1 DEF IInv, Order
    <3>. QED
      BY <3>2 DEF Alive, Ended
  <2>. QED
    BY <2>1
<1>4. threads[t].child = t /\ t \in Children
  BY <1>0, <1>2, <1>3, TypesSpelled DEF IInv, Order
<1>5. callback \in {"idle", "tick"}
  BY <1>0, <1>1, <1>2, <1>3 DEF IInv, Result, Alive, Ended, TypeOK
<1>. QED
  BY <1>1, <1>2, <1>3, <1>4, <1>5 DEF IInv, Result

\* One thread's record is replaced.
LEMMA OneThread ==
  ASSUME TypeOK, NEW t \in DOMAIN threads, NEW th \in ThreadType,
         threads' = [threads EXCEPT ![t] = th]
  PROVE  /\ threads' \in Seq(ThreadType) /\ Len(threads') = Len(threads)
         /\ DOMAIN threads' = DOMAIN threads /\ threads'[t] = th
         /\ \A u \in DOMAIN threads \ {t} : threads'[u] = threads[u]
<1>1. threads \in Seq(ThreadType)
  BY TypesSpelled
<1>. HIDE DEF ThreadType
<1>. QED
  BY <1>1

\* A thread's record after a sleep.
LEMMA Slept ==
  ASSUME NEW th \in ThreadType, NEW to \in Places
  PROVE  LET new == [th EXCEPT !.at = to, !.count = th.count + 1] IN
           new \in ThreadType /\ new.child = th.child /\ new.met = th.met /\ new.at = to
<1>. DEFINE mid == [th EXCEPT !.at = to]
<1>1. /\ mid \in ThreadType /\ mid.child = th.child /\ mid.met = th.met
      /\ mid.at = to /\ th.count + 1 \in Nat
  BY DEF ThreadType
<1>2. [th EXCEPT !.at = to, !.count = th.count + 1] = [mid EXCEPT !.count = th.count + 1]
  OBVIOUS
<1>. HIDE DEF mid
<1>. DEFINE n == th.count + 1
<1>. HIDE DEF n
<1>3. [mid EXCEPT !.count = n] \in ThreadType
  BY <1>1 DEF ThreadType, n
<1>. QED
  BY <1>1, <1>2, <1>3 DEF ThreadType, n

\* A thread that works on, without an end that it shows in its action's result.
LEMMA WorkKeeps ==
  ASSUME IInv, NEW t \in DOMAIN threads, Alive(t),
         NEW th \in ThreadType, threads' = [threads EXCEPT ![t] = th],
         th.child = threads[t].child, th.met = threads[t].met,
         th.at \notin {"succeeded", "failed"}, Looked(th),
         UNCHANGED <<mode, outcome, index, callback, actions>>,
         moving' \in BOOLEAN
  PROVE  IInv'
<1>0. TypeOK
  BY DEF IInv
<1>1. /\ threads' \in Seq(ThreadType) /\ Len(threads') = Len(threads)
      /\ DOMAIN threads' = DOMAIN threads /\ threads'[t] = th
      /\ \A u \in DOMAIN threads \ {t} : threads'[u] = threads[u]
  BY <1>0, OneThread
<1>2. /\ mode = "running" /\ t = index /\ Len(threads) = index /\ index \in Nat
      /\ DOMAIN threads = 1 .. index
  BY <1>0, OneAlive, TypesSpelled
<1>3. TypeOK'
  BY <1>0, <1>1 DEF TypeOK, ThreadType, Places
<1>4. Order'
  BY <1>1, <1>2 DEF IInv, Order
<1>5. Turn'
  BY <1>1, <1>2 DEF IInv, Turn
<1>8. Result'
  <2>1. threads[index].at \notin {"succeeded", "failed"}
    BY <1>2 DEF Alive, Ended
  <2>2. /\ actions[index].thread = index
        /\ actions[index].result \notin {"true", "false"}
        /\ callback \in {"idle", "tick"} /\ ~actions[index].stop
    BY <1>2, <2>1, OneAlive DEF IInv, Result
  <2>. QED
    BY <1>1, <1>2, <2>1, <2>2 DEF Result
<1>6. Rest'
  BY <1>1, <1>2 DEF IInv, Rest
<1>7. Met'
  BY <1>1, <1>2 DEF IInv, Met, Looked, Alive
<1>. QED
  BY <1>3, <1>4, <1>5, <1>8, <1>6, <1>7 DEF IInv

----------------------------------------------------------------------------
(* The threads.                                                            *)

\* Every step of a thread but its last leaves the action's result alone.
LEMMA WorkingKeeps ==
  ASSUME IInv, NEW t \in DOMAIN threads,
         \/ MoveBegin(t) \/ MoveCheck(t) \/ MoveLook(t) \/ MoveRaises(t)
         \/ RotateBegin(t) \/ RotateTurn(t)
  PROVE  IInv'
<1>0. /\ TypeOK /\ threads[t] \in ThreadType /\ moving \in BOOLEAN
      /\ Looked(threads[t])
  BY TypesSpelled DEF IInv, TypeOK, Met
<1>. DEFINE th == threads[t]
<1>1. /\ Alive(t) /\ UNCHANGED <<mode, outcome, index, callback, actions>>
      /\ moving' \in BOOLEAN
  BY <1>0 DEF MoveBegin, MoveCheck, MoveLook, MoveRaises, RotateBegin, RotateTurn,
              Step, OnlyThreads, Alive, Ended, StandsStill
<1>2. /\ mode = "running" /\ t = index /\ ChildOf(t) = t /\ ActionOf(t) = actions[t]
      /\ ~actions[t].stop
  BY <1>1, OneAlive DEF ChildOf, ActionOf
<1>3. actions[t].message = NoMessage \/ actions[t].message \subseteq th.met
  BY <1>1, <1>2 DEF IInv, Met
<1>4. CASE UNCHANGED threads
  BY <1>0, <1>1, <1>4
  DEF IInv, TypeOK, Order, Turn, Result, Rest, Met, Alive, Looked
<1>5. ASSUME NEW to \in Places \ {"succeeded", "failed", "look"},
             threads' = [threads EXCEPT ![t].at = to],
             to = "reached" => th.met = Joints
      PROVE  IInv'
  <2>. DEFINE new == [th EXCEPT !.at = to]
  <2>1. /\ new \in ThreadType /\ new.child = th.child /\ new.met = th.met
        /\ new.at = to /\ threads' = [threads EXCEPT ![t] = new]
    BY <1>0, <1>5 DEF ThreadType
  <2>2. Looked(new)
    BY <1>5, <2>1 DEF Looked
  <2>. HIDE DEF new
  <2>. QED
    BY <1>1, <2>1, <2>2, WorkKeeps
<1>6. ASSUME NEW to \in {"begin", "check"}, Sleep(t, to) PROVE IInv'
  <2>. DEFINE new == [th EXCEPT !.at = to, !.count = th.count + 1]
  <2>1. /\ new \in ThreadType /\ new.child = th.child /\ new.met = th.met
        /\ new.at = to
    BY <1>0, Slept DEF Places
  <2>2. threads' = [threads EXCEPT ![t] = new]
    BY <1>6 DEF Sleep
  <2>3. Looked(new)
    BY <2>1 DEF Looked
  <2>. HIDE DEF new
  <2>. QED
    BY <1>1, <2>1, <2>2, <2>3, WorkKeeps
<1>7. ASSUME NEW j \in Joints, 1 .. j - 1 \subseteq th.met,
             threads' = [threads EXCEPT ![t] = [th EXCEPT !.at = "look", !.joint = j]]
      PROVE  IInv'
  <2>. DEFINE new == [th EXCEPT !.at = "look", !.joint = j]
  <2>1. /\ new \in ThreadType /\ new.child = th.child /\ new.met = th.met
        /\ new.at = "look" /\ new.joint = j /\ threads' = [threads EXCEPT ![t] = new]
    BY <1>0, <1>7 DEF ThreadType, Places
  <2>2. Looked(new)
    BY <1>7, <2>1 DEF Looked
  <2>. HIDE DEF new
  <2>. QED
    BY <1>1, <2>1, <2>2, WorkKeeps
<1>8. NumJoints \in Nat \ {0} /\ Joints = 1 .. NumJoints /\ 1 \in Joints
  BY TreeAssumption DEF Joints
<1>9. CASE MoveBegin(t)
  BY <1>5, <1>9 DEF MoveBegin, Go, Places
<1>10. CASE MoveCheck(t)
  <2>1. \/ Go(t, "late") \/ Sleep(t, "check")
        \/ threads' = [threads EXCEPT ![t] = [th EXCEPT !.at = "look", !.joint = 1]]
    BY <1>10 DEF MoveCheck
  <2>2. 1 .. 1 - 1 \subseteq th.met
    OBVIOUS
  <2>. QED
    BY <1>5, <1>6, <1>7, <1>8, <2>1, <2>2 DEF Go, Places
<1>11. CASE MoveLook(t)
  <2>1. CASE Sleep(t, "check")
    BY <1>6, <2>1
  <2>2. CASE ~Sleep(t, "check")
    <3>1. th.joint \in actions[t].message /\ actions[t].message # NoMessage
      BY <1>2, <1>11, <2>2 DEF MoveLook
    <3>2. th.at = "look" /\ th.joint \in Joints /\ th.met \subseteq Joints
      BY <1>0, <1>11 DEF MoveLook, Step, ThreadType
    <3>3. 1 .. th.joint \subseteq th.met
      <4>1. 1 .. th.joint - 1 \subseteq th.met /\ th.joint \in th.met
        BY <1>0, <1>3, <3>1, <3>2 DEF Looked
      <4>. QED
        BY <1>8, <3>2, <4>1
    <3>4. CASE th.joint = NumJoints
      <4>1. Go(t, "reached")
        BY <1>2, <1>11, <2>2, <3>1, <3>4 DEF MoveLook
      <4>2. th.met = Joints
        BY <1>8, <3>2, <3>3, <3>4
      <4>. QED
        BY <1>5, <4>1, <4>2 DEF Go, Places
    <3>5. CASE th.joint # NumJoints
      <4>1. threads' = [threads EXCEPT ![t].joint = th.joint + 1]
        BY <1>2, <1>11, <2>2, <3>1, <3>5 DEF MoveLook
      <4>2. threads' = [threads EXCEPT ![t] =
                          [th EXCEPT !.at = "look", !.joint = th.joint + 1]]
        BY <1>0, <3>2, <4>1 DEF ThreadType
      <4>3. th.joint + 1 \in Joints /\ 1 .. (th.joint + 1) - 1 \subseteq th.met
        BY <1>8, <3>2, <3>3, <3>5
      <4>. QED
        BY <1>7, <4>2, <4>3
    <3>. QED
      BY <3>4, <3>5
  <2>. QED
    BY <2>1, <2>2
<1>12. CASE MoveRaises(t)
  BY <1>5, <1>12 DEF MoveRaises, Go, Places, Ended
<1>13. CASE RotateBegin(t)
  BY <1>5, <1>6, <1>13 DEF RotateBegin, Go, Places
<1>14. CASE RotateTurn(t)
  <2>1. CASE actions[t].message = Joints
    <3>1. th.met = Joints
      <4>1. actions[t].message # NoMessage
        BY <1>8, <2>1 DEF NoMessage
      <4>. QED
        BY <1>0, <1>3, <2>1, <4>1 DEF ThreadType
    <3>2. Go(t, "reached") \/ UNCHANGED threads
      BY <1>2, <1>14 DEF RotateTurn
    <3>. QED
      BY <1>4, <1>5, <3>1, <3>2 DEF Go, Places
  <2>2. CASE actions[t].message # Joints
    <3>1. UNCHANGED threads
      BY <1>2, <1>14, <2>2 DEF RotateTurn
    <3>. QED
      BY <1>4, <3>1
  <2>. QED
    BY <2>1, <2>2
<1>. QED
  BY <1>9, <1>10, <1>11, <1>12, <1>13, <1>14

\* A thread's last step writes the result of its own action, whose turn it is.
LEMMA WriteKeeps ==
  ASSUME IInv, NEW t \in DOMAIN threads, Write(t)
  PROVE  IInv'
<1>0. TypeOK /\ threads[t] \in ThreadType /\ Looked(threads[t])
  BY TypesSpelled DEF IInv, Met
<1>. DEFINE th == threads[t]
            reached == th.at = "reached"
            new == [th EXCEPT !.at = IF reached THEN "succeeded" ELSE "failed"]
            result == IF reached THEN "true" ELSE "false"
<1>1. /\ Alive(t) /\ th.at \in {"reached", "late"}
      /\ UNCHANGED <<mode, outcome, index, callback, moving>>
  BY DEF Write, Alive, Ended
<1>2. /\ mode = "running" /\ t = index /\ Len(threads) = index /\ index \in Nat
      /\ DOMAIN threads = 1 .. index /\ threads[t].child = t /\ t \in Children
      /\ actions[t].thread = t /\ ~actions[t].stop /\ callback \in {"idle", "tick"}
      /\ Children = 1 .. Len(Kinds)
  BY <1>0, <1>1, OneAlive, TypesSpelled
<1>3. /\ new \in ThreadType /\ new.child = t /\ new.met = th.met
      /\ new.at = IF reached THEN "succeeded" ELSE "failed"
      /\ threads' = [threads EXCEPT ![t] = new]
  BY <1>0, <1>2 DEF Write, Go, ThreadType, Places, Ended
<1>4. Looked(new)
  BY <1>0, <1>3 DEF Looked
<1>. HIDE DEF new
<1>5. /\ threads' \in Seq(ThreadType) /\ Len(threads') = Len(threads)
      /\ DOMAIN threads' = DOMAIN threads /\ threads'[t] = new
      /\ \A u \in DOMAIN threads \ {t} : threads'[u] = threads[u]
  BY <1>0, <1>3, OneThread
<1>6. /\ actions' \in [Children -> ActionType]
      /\ actions'[t].thread = t /\ ~actions'[t].stop /\ actions'[t].result = result
      /\ actions'[t].message = actions[t].message
      /\ \A c \in Children \ {t} : actions'[c] = actions[c]
  <2>1. actions \in [Children -> ActionType] /\ actions[t] \in ActionType
    BY <1>0, <1>2, TypesSpelled
  <2>. DEFINE a == [actions[t] EXCEPT !.result = result]
  <2>2. /\ a \in ActionType /\ a.thread = t /\ ~a.stop /\ a.result = result
        /\ a.message = actions[t].message
    BY <1>2, <2>1 DEF ActionType
  <2>3. actions' = [actions EXCEPT ![t] = a]
    BY <1>2 DEF Write, ChildOf
  <2>. HIDE DEF a, ActionType
  <2>. QED
    BY <1>2, <2>1, <2>2, <2>3
<1>7. TypeOK'
  BY <1>0, <1>1, <1>5, <1>6 DEF TypeOK, ActionType, ThreadType, Places
<1>8. Order'
  BY <1>2, <1>3, <1>5 DEF IInv, Order
<1>9. Turn'
  BY <1>1, <1>2, <1>5, <1>6 DEF IInv, Turn
<1>10. Result'
  BY <1>1, <1>2, <1>3, <1>5, <1>6 DEF Result
<1>11. Rest'
  BY <1>1, <1>2 DEF IInv, Rest
<1>12. Met'
  <2>1. ~Alive(t)'
    BY <1>3, <1>5 DEF Alive, Ended
  <2>2. ASSUME NEW u \in DOMAIN threads, u # t PROVE ~Alive(u)'
    BY <1>2, <1>5, <2>2, OneAlive DEF Alive
  <2>. QED
    BY <1>4, <1>5, <2>1, <2>2 DEF IInv, Met
<1>. QED
  BY <1>7, <1>8, <1>9, <1>10, <1>11, <1>12 DEF IInv

----------------------------------------------------------------------------
(* The ticks.                                                              *)

LEMMA BeginKeeps == ASSUME IInv, TickBegin \/ TickRunning PROVE IInv'
<1>1. /\ UNCHANGED <<mode, outcome, index, actions, threads, moving>>
      /\ callback \in {"idle", "tick"} /\ callback' \in {"idle", "tick"}
      /\ mode = "running"
  BY DEF TickBegin, TickRunning, IInv, Rest
<1>2. TypeOK' /\ Order'
  BY <1>1 DEF IInv, TypeOK, Order
<1>3. Turn' /\ Result'
  BY <1>1 DEF IInv, Turn, Result
<1>4. Rest' /\ Met'
  BY <1>1 DEF IInv, Rest, Met, Alive
<1>. QED
  BY <1>2, <1>3, <1>4 DEF IInv

\* The turn comes to a child, and its thread begins.
LEMMA StartKeeps == ASSUME IInv, TickStart PROVE IInv'
<1>0. TypeOK
  BY DEF IInv
<1>1. /\ mode = "running" /\ callback = "tick" /\ index \in Children
      /\ actions[index].thread = 0
      /\ UNCHANGED <<mode, outcome, index, moving>> /\ callback' = "idle"
  BY DEF TickStart, Current, IInv, Rest
<1>2. /\ Len(threads) = index - 1 /\ index \in Nat /\ index > 0
      /\ DOMAIN threads = 1 .. index - 1 /\ Children = 1 .. Len(Kinds)
      /\ Len(Kinds) \in Nat /\ index <= Len(Kinds)
  BY <1>0, <1>1, TypesSpelled DEF IInv, Turn, Result
<1>3. \A t \in DOMAIN threads : threads[t].at = "succeeded" /\ threads[t].child = t
  BY <1>1, <1>2 DEF IInv, Turn, Order
<1>. DEFINE th == NewThread(index)
            a == Started(index)
<1>4. /\ th \in ThreadType /\ th.child = index /\ th.at = "begin"
  <2>1. 1 \in Joints
    BY TreeAssumption DEF Joints
  <2>. QED
    BY <1>1, <2>1 DEF NewThread, ThreadType, Places
<1>5. /\ a \in ActionType /\ a.thread = index /\ ~a.stop /\ a.result = "none"
      /\ a.message = NoMessage
  BY <1>2, NewActions DEF Started
<1>. HIDE DEF th, a
<1>6. /\ threads' \in Seq(ThreadType) /\ Len(threads') = index
      /\ DOMAIN threads' = 1 .. index /\ threads'[index] = th
      /\ \A t \in DOMAIN threads : threads'[t] = threads[t]
  <2>1. threads' = Append(threads, th) /\ threads \in Seq(ThreadType)
    BY <1>0, TypesSpelled DEF TickStart, th
  <2>. HIDE DEF ThreadType
  <2>. QED
    BY <1>2, <1>4, <2>1
<1>7. /\ actions' \in [Children -> ActionType] /\ actions'[index] = a
      /\ \A c \in Children \ {index} : actions'[c] = actions[c]
  <2>1. actions' = [actions EXCEPT ![index] = a] /\ actions \in [Children -> ActionType]
    BY <1>0, TypesSpelled DEF TickStart, a
  <2>. HIDE DEF ActionType
  <2>. QED
    BY <1>1, <1>5, <2>1
<1>8. TypeOK'
  BY <1>0, <1>1, <1>6, <1>7 DEF TypeOK, ActionType, ThreadType, Places
<1>9. Order'
  <2>1. ASSUME NEW t \in DOMAIN threads'
        PROVE  /\ threads'[t].child = t
               /\ \A u \in 1 .. t - 1 : threads'[u].at = "succeeded"
    <3>1. \A u \in 1 .. t - 1 : u \in DOMAIN threads
      BY <1>2, <1>6
    <3>2. t = index \/ t \in DOMAIN threads
      BY <1>2, <1>6
    <3>. QED
      BY <1>3, <1>4, <1>6, <3>1, <3>2
  <2>. QED
    BY <1>2, <1>6, <2>1 DEF Order
<1>10. Turn'
  BY <1>0, <1>1, <1>2, <1>6, <1>7 DEF IInv, Turn
<1>11. Result'
  BY <1>1, <1>4, <1>5, <1>6, <1>7 DEF Result
<1>12. Rest'
  BY <1>1 DEF IInv, Rest
<1>13. Met'
  <2>1. Looked(th)
    BY <1>4 DEF Looked
  <2>2. ASSUME NEW t \in DOMAIN threads, t # index PROVE ~Alive(t)' /\ Looked(threads'[t])
    BY <1>3, <1>6 DEF Alive, Ended, IInv, Met
  <2>3. \A t \in DOMAIN threads' : t = index \/ (t \in DOMAIN threads /\ t # index)
    BY <1>2, <1>6
  <2>. QED
    BY <1>5, <1>6, <1>7, <2>1, <2>2, <2>3 DEF Met
<1>. QED
  BY <1>8, <1>9, <1>10, <1>11, <1>12, <1>13 DEF IInv

\* The result is there, and the action's reset begins.
LEMMA ResetKeeps == ASSUME IInv, TickReset PROVE IInv'
<1>0. TypeOK
  BY DEF IInv
<1>1. /\ mode = "running" /\ callback = "tick" /\ index \in Children
      /\ actions[index].thread # 0
      /\ UNCHANGED <<mode, outcome, index, threads, moving>>
      /\ callback' = Status(index) /\ Status(index) # "RUNNING"
  BY DEF TickReset, Current, IInv, Rest
<1>2. Len(threads) = index /\ index \in Nat
  BY <1>0, <1>1, TypesSpelled DEF IInv, Turn
<1>3. actions \in [Children -> ActionType] /\ actions[index] \in ActionType
  BY <1>0, <1>1, TypesSpelled
<1>4. /\ actions[index].thread = index
      /\ actions[index].result = "true" <=> threads[index].at = "succeeded"
      /\ actions[index].result = "false" <=> threads[index].at = "failed"
  BY <1>1, <1>2 DEF IInv, Result
<1>5. /\ callback' \in {"SUCCESS", "FAILURE"}
      /\ callback' = "SUCCESS" => threads[index].at = "succeeded"
      /\ callback' = "FAILURE" => threads[index].at = "failed"
  <2>1. actions[index].result \in {"none", "true", "false"}
    BY <1>3 DEF ActionType
  <2>. QED
    BY <1>1, <1>4, <2>1 DEF Status
<1>. DEFINE a == [actions[index] EXCEPT !.stop = TRUE]
<1>6. /\ a \in ActionType /\ a.thread = index
      /\ a.result = actions[index].result /\ a.message = actions[index].message
  BY <1>3, <1>4 DEF ActionType
<1>7. actions' = [actions EXCEPT ![index] = a]
  BY DEF TickReset
<1>. HIDE DEF a
<1>8. /\ actions' \in [Children -> ActionType] /\ actions'[index] = a
      /\ \A c \in Children \ {index} : actions'[c] = actions[c]
  <2>. HIDE DEF ActionType
  <2>. QED
    BY <1>1, <1>3, <1>6, <1>7
<1>9. TypeOK' /\ Order'
  BY <1>0, <1>1, <1>5, <1>8 DEF IInv, TypeOK, ActionType, Order
<1>10. Turn' /\ Rest'
  <2>1. \A c \in Children : c > Len(threads) => c # index
    BY <1>2
  <2>. QED
    BY <1>0, <1>1, <1>2, <1>8, <2>1 DEF IInv, Turn, Rest
<1>11. Result'
  BY <1>1, <1>2, <1>4, <1>5, <1>6, <1>8 DEF Result
<1>12. Met'
  BY <1>0, <1>1, <1>2, <1>6, <1>8, OneAlive DEF IInv, Met, Alive
<1>. QED
  BY <1>9, <1>10, <1>11, <1>12 DEF IInv

\* The reset is over: the next child's turn, or the end.
LEMMA JoinedKeeps == ASSUME IInv, TickJoined PROVE IInv'
<1>0. TypeOK
  BY DEF IInv
<1>1. /\ mode = "running" /\ callback \in {"SUCCESS", "FAILURE"} /\ index \in Children
      /\ UNCHANGED <<mode, outcome, threads, moving>>
      /\ IF callback = "SUCCESS" THEN index' = index + 1 /\ callback' = "tick"
         ELSE index' = index /\ callback' = "failed"
  BY DEF TickJoined, IInv, Rest
<1>2. /\ Len(threads) = index /\ index \in Nat /\ index <= Len(Kinds)
      /\ Len(Kinds) \in Nat /\ DOMAIN threads = 1 .. index
  BY <1>0, <1>1, TypesSpelled DEF IInv, Turn
<1>3. /\ callback = "SUCCESS" => threads[index].at = "succeeded"
      /\ callback = "FAILURE" => threads[index].at = "failed"
  BY <1>1, <1>2 DEF IInv, Result
<1>. DEFINE a == Reset(actions[index])
<1>4. a \in ActionType /\ a.thread = 0
  BY NewActions
<1>. HIDE DEF a
<1>5. /\ actions' \in [Children -> ActionType] /\ actions'[index] = a
      /\ \A c \in Children \ {index} : actions'[c] = actions[c]
  <2>1. actions' = [actions EXCEPT ![index] = a] /\ actions \in [Children -> ActionType]
    BY <1>0, TypesSpelled DEF TickJoined, a
  <2>. HIDE DEF ActionType
  <2>. QED
    BY <1>1, <1>4, <2>1
<1>6. TypeOK'
  BY <1>0, <1>1, <1>2, <1>5 DEF TypeOK, ActionType
<1>7. Order'
  BY <1>1 DEF IInv, Order
<1>8. \A c \in Children : c > Len(threads) => actions'[c].thread = 0
  <2>1. \A c \in Children : c > Len(threads) => actions[c].thread = 0
    BY <1>1 DEF IInv, Turn
  <2>. QED
    BY <1>4, <1>5, <2>1
<1>9. \A t \in DOMAIN threads : ~Alive(t)
  BY <1>1, OneAlive
<1>10. CASE callback = "SUCCESS"
  <2>1. \A t \in DOMAIN threads : threads[t].at = "succeeded"
    BY <1>2, <1>3, <1>10 DEF IInv, Order
  <2>. QED
    BY <1>1, <1>2, <1>6, <1>7, <1>8, <1>9, <1>10, <2>1
    DEF IInv, Turn, Result, Rest, Met, Alive
<1>11. CASE callback = "FAILURE"
  BY <1>1, <1>2, <1>3, <1>6, <1>7, <1>8, <1>9, <1>11
  DEF IInv, Turn, Result, Rest, Met, Alive
<1>. QED
  BY <1>1, <1>10, <1>11

\* The tree has failed with its last thread, or all its children succeeded.
LEMMA EndKeeps == ASSUME IInv, TickEnd PROVE IInv'
<1>0. TypeOK
  BY DEF IInv
<1>1. /\ mode = "running" /\ mode' = "stopped" /\ callback' = "idle" /\ index' = 1
      /\ UNCHANGED <<threads, moving>>
  BY DEF TickEnd, IInv, Rest
<1>2. TypeOK' /\ Order'
  <2>1. actions' \in [Children -> ActionType]
    <3>1. actions' = [c \in Children |-> Reset(actions[c])]
      BY DEF TickEnd
    <3>. HIDE DEF ActionType
    <3>. QED
      BY <3>1, NewActions
  <2>2. outcome' \in {"SUCCESS", "FAILURE"} /\ 1 \in 1 .. Len(Kinds) + 1
    BY <1>0, TypesSpelled DEF TickEnd
  <2>. QED
    BY <1>0, <1>1, <2>1, <2>2 DEF IInv, TypeOK, ActionType, Order
<1>3. /\ \A t \in DOMAIN threads : ~Alive(t)
      /\ outcome' = "SUCCESS" => /\ Len(threads) = Len(Kinds)
                                /\ \A t \in DOMAIN threads : threads[t].at = "succeeded"
  <2>1. CASE callback = "failed"
    BY <2>1, OneAlive DEF TickEnd
  <2>2. CASE callback = "tick"
    <3>1. index = Len(Kinds) + 1 /\ Len(Kinds) \in Nat
      BY <1>0, <2>2, TypesSpelled DEF TickEnd
    <3>2. Len(threads) = Len(Kinds)
      <4>1. Len(threads) <= Len(Kinds) /\ Len(threads) \in Nat
        BY <1>0, TypesSpelled DEF IInv, Order
      <4>2. Len(threads) = index \/ Len(threads) = index - 1
        BY <1>1 DEF IInv, Turn
      <4>. QED
        BY <3>1, <4>1, <4>2
    <3>. QED
      BY <1>1, <3>1, <3>2 DEF IInv, Turn, Alive, Ended
  <2>. QED
    BY <2>1, <2>2 DEF TickEnd
<1>4. Turn' /\ Result' /\ Rest' /\ Met'
  BY <1>1, <1>3 DEF IInv, Turn, Result, Rest, Met, Alive
<1>. QED
  BY <1>2, <1>4 DEF IInv

----------------------------------------------------------------------------
(* Messages and the interrupt.                                             *)

\* A message adds to what the action's thread has met.
LEMMA MessageKeeps == ASSUME IInv, NEW c \in Children, Message(c) PROVE IInv'
<1>0. TypeOK
  BY DEF IInv
<1>1. /\ mode = "running" /\ callback = "idle"
      /\ UNCHANGED <<mode, outcome, index, callback, moving>>
  BY DEF Message
<1>2. PICK m \in SUBSET Joints :
        /\ actions' = [actions EXCEPT ![c].message = m]
        /\ threads' = [t \in DOMAIN threads |->
             IF t = actions[c].thread
             THEN [threads[t] EXCEPT !.met = threads[t].met \cup m] ELSE threads[t]]
  BY DEF Message, Messages
<1>3. actions \in [Children -> ActionType] /\ actions[c] \in ActionType
  BY <1>0, TypesSpelled
<1>. DEFINE a == [actions[c] EXCEPT !.message = m]
<1>4. /\ a \in ActionType /\ a.thread = actions[c].thread /\ a.stop = actions[c].stop
      /\ a.result = actions[c].result /\ a.message = m
  BY <1>3 DEF ActionType
<1>. HIDE DEF a
<1>5. /\ actions' \in [Children -> ActionType] /\ actions'[c] = a
      /\ \A d \in Children \ {c} : actions'[d] = actions[d]
  <2>1. actions' = [actions EXCEPT ![c] = a]
    BY <1>2 DEF a
  <2>. HIDE DEF ActionType
  <2>. QED
    BY <1>3, <1>4, <2>1
<1>6. \A d \in Children : /\ actions'[d].thread = actions[d].thread
                         /\ actions'[d].stop = actions[d].stop
                         /\ actions'[d].result = actions[d].result
  BY <1>4, <1>5
<1>7. ASSUME NEW t \in DOMAIN threads
      PROVE  /\ threads'[t] \in ThreadType /\ threads'[t].at = threads[t].at
             /\ threads'[t].child = threads[t].child
             /\ threads'[t].joint = threads[t].joint
             /\ threads[t].met \subseteq threads'[t].met
             /\ threads'[t].met \subseteq Joints
             /\ t = actions[c].thread => m \subseteq threads'[t].met
  <2>1. threads[t] \in ThreadType
    BY <1>0, TypesSpelled
  <2>2. CASE t = actions[c].thread
    <3>. DEFINE n == threads[t].met \cup m
    <3>1. n \subseteq Joints
      BY <1>2, <2>1 DEF ThreadType
    <3>2. threads'[t] = [threads[t] EXCEPT !.met = n]
      BY <1>2, <2>2
    <3>3. threads[t].met \subseteq n /\ m \subseteq n
      OBVIOUS
    <3>. HIDE DEF n
    <3>. QED
      BY <2>1, <3>1, <3>2, <3>3 DEF ThreadType
  <2>3. CASE t # actions[c].thread
    <3>1. threads'[t] = threads[t]
      BY <1>2, <2>3
    <3>. QED
      BY <2>1, <2>3, <3>1 DEF ThreadType
  <2>. QED
    BY <2>2, <2>3
<1>8. /\ DOMAIN threads' = DOMAIN threads /\ threads' \in Seq(ThreadType)
      /\ Len(threads') = Len(threads) /\ Len(threads) \in Nat
      /\ DOMAIN threads = 1 .. Len(threads)
  <2>1. DOMAIN threads' = DOMAIN threads /\ DOMAIN threads = 1 .. Len(threads)
        /\ Len(threads) \in Nat
    BY <1>0, <1>2, TypesSpelled
  <2>2. threads' \in [1 .. Len(threads) -> ThreadType]
    <3>. HIDE DEF ThreadType
    <3>. QED
      BY <1>2, <1>7, <2>1
  <2>. HIDE DEF ThreadType
  <2>. QED
    BY <2>1, <2>2
<1>9. TypeOK'
  BY <1>0, <1>1, <1>5, <1>8 DEF TypeOK, ActionType, ThreadType, Places
<1>10. Order'
  <2>1. \A t \in DOMAIN threads : \A u \in 1 .. t - 1 : u \in DOMAIN threads
    BY <1>8
  <2>. QED
    BY <1>7, <1>8, <2>1 DEF IInv, Order
<1>11. Turn' /\ Rest'
  BY <1>1, <1>6, <1>7, <1>8 DEF IInv, Turn, Rest
<1>12. Result'
  <2>1. Len(threads) = index => index \in Children /\ index \in DOMAIN threads
    BY <1>0, <1>8, TypesSpelled DEF IInv, Order
  <2>. QED
    BY <1>1, <1>6, <1>7, <1>8, <2>1 DEF IInv, Result
<1>13. Met'
  <2>1. ASSUME NEW t \in DOMAIN threads PROVE Looked(threads'[t])
    <3>1. Looked(threads[t])
      BY DEF IInv, Met
    <3>. QED
      BY <1>7, <3>1 DEF Looked
  <2>2. ASSUME NEW t \in DOMAIN threads, Alive(t)
        PROVE  \/ actions'[t].message = NoMessage
               \/ actions'[t].message \subseteq threads'[t].met
    <3>1. t \in Children /\ actions[t].thread = t
      BY <2>2, OneAlive
    <3>2. CASE t = c
      BY <1>4, <1>5, <1>7, <3>1, <3>2
    <3>3. CASE t # c
      <4>1. \/ actions[t].message = NoMessage
            \/ actions[t].message \subseteq threads[t].met
        BY <1>1, <2>2 DEF IInv, Met
      <4>. QED
        BY <1>5, <1>7, <3>1, <3>3, <4>1
    <3>. QED
      BY <3>2, <3>3
  <2>. QED
    BY <1>7, <1>8, <2>1, <2>2 DEF Met, Alive
<1>. QED
  BY <1>9, <1>10, <1>11, <1>12, <1>13 DEF IInv

\* The process takes its threads with it.
LEMMA InterruptKeeps == ASSUME IInv, Interrupt PROVE IInv'
<1>0. TypeOK
  BY DEF IInv
<1>1. /\ mode = "running" /\ callback = "idle" /\ mode' = "interrupted"
      /\ UNCHANGED <<outcome, index, callback, actions, moving>>
  BY DEF Interrupt
<1>2. ASSUME NEW t \in DOMAIN threads
      PROVE  /\ threads'[t] \in ThreadType /\ threads'[t].at \in Ended
             /\ threads'[t].child = threads[t].child
             /\ threads'[t].met = threads[t].met
             /\ threads[t].at = "succeeded" <=> threads'[t].at = "succeeded"
  <2>1. threads[t] \in ThreadType
    BY <1>0, TypesSpelled
  <2>2. CASE threads[t].at \in Ended
    BY <2>1, <2>2 DEF Interrupt
  <2>3. CASE threads[t].at \notin Ended
    BY <2>1, <2>3 DEF Interrupt, ThreadType, Places, Ended
  <2>. QED
    BY <2>2, <2>3
<1>3. /\ DOMAIN threads' = DOMAIN threads /\ threads' \in Seq(ThreadType)
      /\ Len(threads') = Len(threads) /\ DOMAIN threads = 1 .. Len(threads)
      /\ Len(threads) \in Nat
  <2>1. /\ DOMAIN threads = 1 .. Len(threads) /\ Len(threads) \in Nat
        /\ DOMAIN threads' = DOMAIN threads
        /\ threads' = [t \in DOMAIN threads |-> threads'[t]]
    BY <1>0, TypesSpelled DEF Interrupt
  <2>2. threads' \in [1 .. Len(threads) -> ThreadType]
    <3>. HIDE DEF ThreadType
    <3>. QED
      BY <1>2, <2>1
  <2>. HIDE DEF ThreadType
  <2>. QED
    BY <2>1, <2>2
<1>4. TypeOK'
  BY <1>0, <1>1, <1>3 DEF TypeOK, ThreadType, Places
<1>5. Order'
  <2>1. \A t \in DOMAIN threads : \A u \in 1 .. t - 1 : u \in DOMAIN threads
    BY <1>3
  <2>. QED
    BY <1>2, <1>3, <2>1 DEF IInv, Order
<1>6. Turn' /\ Result' /\ Rest'
  BY <1>1, <1>2, <1>3 DEF IInv, Turn, Result, Rest, Alive
<1>7. Met'
  <2>1. ASSUME NEW t \in DOMAIN threads PROVE Looked(threads'[t])
    <3>1. Looked(threads[t])
      BY DEF IInv, Met
    <3>. QED
      BY <1>2, <3>1 DEF Looked, Ended
  <2>. QED
    BY <1>1, <1>3, <2>1 DEF Met
<1>. QED
  BY <1>4, <1>5, <1>6, <1>7 DEF IInv

----------------------------------------------------------------------------
(* The theorems.                                                           *)

LEMMA Initially == Init => IInv
<1>. SUFFICES ASSUME Init PROVE IInv
  OBVIOUS
<1>1. /\ mode = "running" /\ outcome = "RUNNING" /\ index = 1 /\ callback = "idle"
      /\ threads = << >> /\ Len(threads) = 0 /\ DOMAIN threads = {} /\ moving = FALSE
  BY DEF Init
<1>2. Len(Kinds) \in Nat \ {0}
  BY TreeAssumption
<1>3. /\ actions \in [Children -> ActionType]
      /\ \A c \in Children : actions[c].thread = 0
  BY NewActions DEF Init
<1>4. TypeOK
  <2>1. threads \in Seq(ThreadType) /\ index \in 1 .. Len(Kinds) + 1
    BY <1>1, <1>2
  <2>. QED
    BY <1>1, <1>3, <2>1 DEF TypeOK, ActionType, ThreadType, Places
<1>5. Order /\ Turn /\ Result /\ Rest /\ Met
  BY <1>1, <1>2, <1>3 DEF Order, Turn, Result, Rest, Met
<1>. QED
  BY <1>4, <1>5 DEF IInv

LEMMA Invariance == IInv /\ [Next]_vars => IInv'
<1>. SUFFICES ASSUME IInv, [Next]_vars PROVE IInv'
  OBVIOUS
<1>1. CASE TickStep
  BY <1>1, BeginKeeps, StartKeeps, ResetKeeps, JoinedKeeps, EndKeeps DEF TickStep
<1>2. CASE Interrupt
  BY <1>2, InterruptKeeps
<1>3. CASE UNCHANGED vars
  BY <1>3 DEF vars, IInv, TypeOK, Order, Turn, Result, Rest, Met, Alive
<1>4. ASSUME NEW c \in Children, Message(c) PROVE IInv'
  BY <1>4, MessageKeeps
<1>5. ASSUME NEW t \in DOMAIN threads, ThreadStep(t) PROVE IInv'
  BY <1>5, WorkingKeeps, WriteKeeps DEF ThreadStep
<1>. QED
  BY <1>1, <1>2, <1>3, <1>4, <1>5 DEF Next, Over

\* Every variable of the tree keeps its type, for any tree of moves and
\* rotations, any number of joints and any timeout.
THEOREM TypeCorrect == Spec => []TypeOK
<1>1. IInv => TypeOK
  BY DEF IInv
<1>. QED
  BY <1>1, Initially, Invariance, PTL DEF Spec

\* The thread that is at work is the one its action refers to, of the child
\* whose turn it is, and no stop was asked of it: Sequence resets an action only
\* when its thread has written its result.
THEOREM NoStrayThreadAlways == Spec => []NoStrayThread
<1>1. IInv => NoStrayThread
  BY OneAlive DEF NoStrayThread, ChildOf, Alive
<1>. QED
  BY <1>1, Initially, Invariance, PTL DEF Spec

\* No action succeeds but on what was measured since it began, and no tree but
\* with all its children, in order.
THEOREM SuccessIsEarnedAlways == Spec => []SuccessIsEarned
<1>1. IInv => SuccessIsEarned
  BY DEF IInv, SuccessIsEarned, Measured, InOrder, ChildOf, Order, Rest, Met, Looked
<1>. QED
  BY <1>1, Initially, Invariance, PTL DEF Spec

\* Who commands the base stops it before the turn goes to another child.
LEMMA BaseKept == IInv /\ BaseStands /\ [Next]_vars => BaseStands'
<1>. SUFFICES ASSUME IInv, BaseStands, [Next]_vars PROVE BaseStands'
  OBVIOUS
<1>0. TypeOK /\ threads \in Seq(ThreadType)
      /\ \A t \in DOMAIN threads : threads[t] \in ThreadType
  BY TypesSpelled DEF IInv
<1>1. CASE UNCHANGED <<threads, moving>> /\ mode # "interrupted"
  BY <1>1 DEF BaseStands, Step, ChildOf
<1>2. CASE mode = "interrupted" \/ Interrupt
  <2>1. CASE Interrupt
    BY <2>1 DEF Interrupt, BaseStands
  <2>2. CASE mode = "interrupted"
    <3>1. callback = "idle" /\ \A t \in DOMAIN threads : ~Alive(t)
      BY <2>2 DEF IInv, Rest
    <3>2. mode' = "interrupted"
      BY <2>2, <3>1, OneAlive
      DEF Next, TickStep, TickBegin, TickStart, TickRunning, TickReset, TickJoined,
          TickEnd, Interrupt, Over, vars, Message, ThreadStep, MoveBegin, MoveCheck,
          MoveLook, MoveRaises, RotateBegin, RotateTurn, Write, OnlyThreads
    <3>. QED
      BY <3>2 DEF BaseStands
  <2>. QED
    BY <1>2, <2>1, <2>2
<1>3. CASE TickStart
  <2>1. threads' = Append(threads, NewThread(index)) /\ UNCHANGED <<mode, moving>>
    BY <1>3 DEF TickStart
  <2>2. /\ \A t \in DOMAIN threads : threads'[t] = threads[t]
        /\ DOMAIN threads \subseteq DOMAIN threads'
    <3>. HIDE DEF ThreadType
    <3>1. DOMAIN threads = 1 .. Len(threads) /\ Len(threads) \in Nat
      BY <1>0
    <3>2. DOMAIN threads' = 1 .. Len(threads) + 1
      BY <1>0, <2>1
    <3>. QED
      BY <1>0, <2>1, <3>1, <3>2
  <2>. QED
    BY <2>1, <2>2 DEF BaseStands, Step, ChildOf
<1>4. ASSUME NEW c \in Children, Message(c) PROVE BaseStands'
  <2>1. UNCHANGED <<mode, moving>> /\ DOMAIN threads' = DOMAIN threads
    BY <1>4 DEF Message
  <2>2. \A t \in DOMAIN threads :
          threads'[t].at = threads[t].at /\ threads'[t].child = threads[t].child
    BY <1>0, <1>4 DEF Message, ThreadType
  <2>. QED
    BY <2>1, <2>2 DEF BaseStands, Step, ChildOf
<1>5. ASSUME NEW t \in DOMAIN threads, ThreadStep(t), ~RotateTurn(t)
      PROVE  BaseStands'
  <2>1. /\ UNCHANGED <<mode, moving>> /\ threads[t].at # "turn"
        /\ DOMAIN threads' = DOMAIN threads
        /\ \A u \in DOMAIN threads \ {t} : threads'[u] = threads[u]
    BY <1>5 DEF ThreadStep, MoveBegin, MoveCheck, MoveLook, MoveRaises, RotateBegin,
                Write, Step, Go, Sleep, OnlyThreads
  <2>. QED
    BY <2>1 DEF BaseStands, Step, ChildOf
<1>6. ASSUME NEW t \in DOMAIN threads, RotateTurn(t) PROVE BaseStands'
  <2>1. Step(t, "rotate", "turn") /\ mode' = mode
    BY <1>6 DEF RotateTurn
  <2>2. ~ActionOf(t).stop
    <3>1. Alive(t)
      BY <2>1 DEF Step, Alive, Ended
    <3>. QED
      BY <3>1, OneAlive DEF ActionOf, ChildOf
  <2>3. moving' = FALSE \/ UNCHANGED threads
    BY <1>6, <2>2 DEF RotateTurn, StandsStill
  <2>. QED
    BY <2>1, <2>3 DEF BaseStands, Step, ChildOf
<1>7. CASE TickEnd /\ mode # "interrupted"
  BY <1>1, <1>7 DEF TickEnd
<1>. QED
  BY <1>1, <1>2, <1>3, <1>4, <1>5, <1>6, <1>7
  DEF Next, Over, vars, TickStep, TickBegin, TickRunning, TickReset, TickJoined,
      ThreadStep

\* The base stands when no rotation is at work, unless the node was interrupted
\* in one.
THEOREM BaseStandsAlways == Spec => []BaseStands
<1>1. Init => BaseStands
  BY DEF Init, BaseStands
<1>. QED
  BY <1>1, Initially, Invariance, BaseKept, PTL DEF Spec
=============================================================================
