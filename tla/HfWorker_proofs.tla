--------------------------- MODULE HfWorker_proofs ---------------------------
(***************************************************************************)
(* Proofs about HfWorker, for any number of requests and cancellations.    *)
(***************************************************************************)
EXTENDS HfWorker, TLAPS

\* A worker's queues are empty until its process is started, and the process
\* that is being started is that of the newest worker, unless a clean-up took
\* the reference away.
Fresh ==
  /\ \A w \in Workers :
       process[w] = "new" => ~processing[w] /\ sent[w] = 0 /\ answers[w] = 0
  /\ \A w \in Workers : w > made => process[w] = "new"
  /\ pc = "create" => made <= commands
  /\ pc = "start" => worker \in {0, made} /\ process[made] = "new"

\* Answers match requests, inductively.
AInv == TypeOK /\ Fresh /\ AnswersMatchRequests

\* What the server must keep hold of: all but what cancellations forgot.
Up == {w \in Workers : process[w] = "up"} \ lost
Live == timers \ lost
NothingLeft == Up = {} /\ Live = {}

\* What a clean-up in hand still has to do: until it has destroyed the timer,
\* until it has found the worker, until it has stopped it.
CleanupInHand(k) ==
  /\ cleaner[k].at \in {"timer", "destroy"} =>
       Live \subseteq {timer} /\ Up \subseteq {worker}
  /\ cleaner[k].at = "destroy" => timer # 0 \/ NothingLeft
  /\ cleaner[k].at \in {"forget", "worker", "stop"} =>
       Live = {} /\ Up \subseteq {worker}
  /\ cleaner[k].at = "stop" => worker # 0 \/ NothingLeft
  /\ cleaner[k].at = "kill" => Live = {} /\ Up \subseteq {cleaner[k].target}
  /\ cleaner[k].at = "drop" => NothingLeft

NoneActive == \A k \in Cleaners : ~Active(k)

\* No worker and no timer is lost but by a cancellation, wherever the callback
\* stands.
InHand ==
  /\ pc \in {"idle", "send"} /\ NoneActive =>
       /\ Up \subseteq {worker} /\ Live \subseteq {timer}
       /\ Up = {} => Live = {}
  /\ pc \in {"create", "start"} => NothingLeft
  /\ pc = "start" => worker # 0 /\ worker \notin lost
  /\ pc \in {"make timer", "set timer"} => Up = {worker} /\ Live = {}
  /\ pc = "set timer" => timer # 0

\* Where clean-ups may stand: one at a time, and only while its cancellation
\* is on the way, or in the timer's callback, or when nothing is referred to;
\* and a cancellation's has the worker, or there is nothing for it to do.
OneCleanup ==
  /\ \A k, l \in Cleaners : Active(k) /\ Active(l) => k = l
  /\ pc \in {"create", "start", "make timer", "set timer", "send"} => NoneActive
  /\ pc = "idle" => \A k \in Cleaners : Active(k) =>
       (HoldsWorker(k) \/ NothingLeft) /\ worker = 0 /\ timer = 0
  /\ pc \in {"forget timer", "forget worker"} =>
       /\ cleaner[commands].at # "none"
       /\ \A k \in Cleaners : Active(k) => k = commands
       /\ cleaner[commands].at = "done" => NothingLeft
  /\ pc = "forget worker" => (HoldsWorker(commands) \/ NothingLeft) /\ timer = 0
  /\ pc = "clean up" =>
       /\ cleaner[0].at # "none"
       /\ \A k \in Cleaners : Active(k) => k = 0
       /\ cleaner[0].at = "done" => NothingLeft

\* Nothing leaks, inductively.
LInv ==
  orderly => OneCleanup /\ InHand /\ \A k \in Cleaners : CleanupInHand(k)

----------------------------------------------------------------------------
(* Types, and answers.                                                     *)

\* The place of one clean-up changes.
LEMMA PlaceChanges ==
  ASSUME TypeOK, NEW k \in Cleaners, NEW to,
         to \in {"none", "timer", "destroy", "forget", "worker", "stop",
                 "kill", "drop", "done"},
         cleaner' = [cleaner EXCEPT ![k].at = to]
  PROVE  /\ cleaner' \in [Cleaners -> Cleanups]
         /\ cleaner'[k].at = to /\ cleaner'[k].target = cleaner[k].target
         /\ \A l \in Cleaners : l # k => cleaner'[l] = cleaner[l]
<1>1. cleaner \in [Cleaners -> Cleanups] /\ cleaner[k] \in Cleanups
  BY DEF TypeOK, Places
<1>. DEFINE c == [at |-> to, target |-> cleaner[k].target]
<1>2. [cleaner[k] EXCEPT !.at = to] = c /\ c \in Cleanups
  BY <1>1 DEF Cleanups
<1>3. cleaner' = [cleaner EXCEPT ![k] = c]
  BY <1>2
<1>4. c.at = to /\ c.target = cleaner[k].target
  OBVIOUS
<1>. HIDE DEF c
<1>. QED
  BY <1>1, <1>2, <1>3, <1>4

\* The worker and the timer referred to are workers.
LEMMA RefsAreWorkers ==
  ASSUME TypeOK
  PROVE  /\ made \in Workers /\ worker \in Workers \cup {0}
         /\ timer \in Workers \cup {0}
         /\ commands \in Cleaners /\ 0 \in Cleaners
         /\ made \in Nat /\ commands \in Nat
BY HfWorkerAssumption DEF HfWorkerAssumption, TypeOK, Numbers, Workers, Cleaners

\* The numbers change in few ways.
LEMMA NumbersKept ==
  ASSUME Numbers, worker' \in {worker, 0, made}, timer' \in {timer, 0, made},
         timers' \subseteq timers \cup ({timer} \ {0}), made' = made,
         commands' \in {commands, commands + 1} \cap 0 .. MaxCommands,
         idle' \in 0 .. IdleCycles,
         lost' \subseteq lost \cup ({timer, worker} \ {0})
  PROVE  Numbers'
<1>. MaxCommands \in Nat
  BY HfWorkerAssumption DEF HfWorkerAssumption
<1>1. made \in Nat /\ commands \in Nat /\ made >= 1 /\ made <= commands + 1
  BY DEF Numbers
<1>2. worker' \in 0 .. made' /\ timer' \in 0 .. made'
  BY <1>1 DEF Numbers
<1>3. timers' \subseteq 1 .. made'
  BY <1>1 DEF Numbers
<1>4. made' \in 1 .. commands' + 1
  <2>1. commands' = commands \/ commands' = commands + 1
    OBVIOUS
  <2>2. made' = made /\ commands + 1 \in Nat /\ commands + 2 \in Nat
    BY <1>1
  <2>3. CASE commands' = commands
    BY <1>1, <2>2, <2>3
  <2>4. CASE commands' = commands + 1
    <3>1. made <= commands + 1 + 1
      BY <1>1
    <3>. QED
      BY <1>1, <2>2, <2>4, <3>1
  <2>. QED
    BY <2>1, <2>3, <2>4
<1>5. lost' \subseteq 1 .. made'
  BY <1>1 DEF Numbers
<1>. QED
  BY <1>2, <1>3, <1>4, <1>5 DEF Numbers

LEMMA AnswersInit == Init => AInv
<1>. SUFFICES ASSUME Init PROVE AInv
  OBVIOUS
<1>1. /\ \A k \in Cleaners : cleaner[k] \in Cleanups
      /\ cleaner \in [Cleaners -> Cleanups]
  BY HfWorkerAssumption DEF HfWorkerAssumption, Init, Cleanups
<1>2. TypeOK
  BY <1>1, HfWorkerAssumption
  DEF HfWorkerAssumption, Init, TypeOK, Numbers, Queues, Places, Workers,
      IdleCycles
<1>3. Fresh /\ AnswersMatchRequests
  BY HfWorkerAssumption
  DEF HfWorkerAssumption, Init, Fresh, Workers, AnswersMatchRequests
<1>. QED
  BY <1>2, <1>3 DEF AInv

\* The steps of the service on a request.
LEMMA AnswersRequest ==
  ASSUME AInv,
         Request \/ CreateWorker \/ StartProcess \/ MakeTimer \/ SetTimer
           \/ Send
  PROVE  AInv'
<1>. USE HfWorkerAssumption DEF HfWorkerAssumption, Goto, history
<1>0. TypeOK /\ Fresh /\ AnswersMatchRequests
  BY DEF AInv
<1>1. CASE Request
  <2>1. TypeOK'
    <3>1. Numbers'
      BY <1>0, <1>1 DEF TypeOK, Numbers, Request, Command, queues, refs
    <3>2. Queues'
      BY <1>0, <1>1 DEF TypeOK, Queues, Request, Command, queues, refs
    <3>3. Places'
      BY <1>0, <1>1 DEF TypeOK, Places, Request, Command, queues, refs
    <3>. QED
      BY <3>1, <3>2, <3>3 DEF TypeOK
  <2>2. Fresh' /\ AnswersMatchRequests'
    <3>1. Fresh'
      <4>1. /\ UNCHANGED <<process, processing, sent, answers, made>>
            /\ commands' = commands + 1 /\ pc' \in {"send", "create"}
        BY <1>1 DEF Request, Command, queues, refs
      <4>2. made <= commands + 1
        BY <1>0, RefsAreWorkers DEF TypeOK, Numbers
      <4>. QED
        BY <1>0, <4>1, <4>2 DEF Fresh
    <3>2. AnswersMatchRequests'
      BY <1>0, <1>1, RefsAreWorkers DEF TypeOK, Queues, AnswersMatchRequests,
         Request, Command, queues, refs
    <3>. QED
      BY <3>1, <3>2
  <2>. QED
    BY <2>1, <2>2 DEF AInv
<1>2. CASE CreateWorker
  <2>1. TypeOK'
    <3>1. Numbers'
      BY <1>0, <1>2 DEF TypeOK, Numbers, Fresh, CreateWorker, queues
    <3>2. Queues'
      BY <1>0, <1>2 DEF TypeOK, Queues, Fresh, CreateWorker, queues
    <3>3. Places'
      BY <1>0, <1>2 DEF TypeOK, Places, Fresh, CreateWorker, queues
    <3>. QED
      BY <3>1, <3>2, <3>3 DEF TypeOK
  <2>2. Fresh' /\ AnswersMatchRequests'
    <3>1. Fresh'
      <4>1. /\ UNCHANGED <<process, processing, sent, answers, commands>>
            /\ worker' = made' /\ made' = made + 1 /\ pc' = "start"
            /\ made <= commands
        BY <1>0, <1>2 DEF CreateWorker, queues, Fresh
      <4>2. made' \in Workers /\ made' > made /\ made \in Nat
        BY <1>0, <4>1, RefsAreWorkers DEF Workers, Cleaners
      <4>3. \A w \in Workers : w > made' => w > made
        BY <4>1, <4>2 DEF Workers
      <4>. QED
        BY <1>0, <4>1, <4>2, <4>3 DEF Fresh
    <3>2. AnswersMatchRequests'
      BY <1>0, <1>2, RefsAreWorkers DEF TypeOK, Queues, AnswersMatchRequests,
         CreateWorker, queues, Workers
    <3>. QED
      BY <3>1, <3>2
  <2>. QED
    BY <2>1, <2>2 DEF AInv
<1>3. CASE StartProcess
  <2>1. TypeOK'
    <3>1. Numbers'
      <4>1. /\ UNCHANGED <<worker, timer, timers, made, commands, lost>>
            /\ idle' \in {idle, 0}
        BY <1>0, <1>3 DEF StartProcess, refs
      <4>2. commands \in 0 .. MaxCommands /\ idle \in 0 .. IdleCycles
        BY <1>0 DEF TypeOK, Numbers
      <4>3. idle' \in 0 .. IdleCycles
        BY <4>1, <4>2 DEF IdleCycles
      <4>. QED
        BY <1>0, <4>3, <4>1, <4>2, NumbersKept DEF TypeOK
    <3>2. Queues'
      BY <1>0, <1>3 DEF TypeOK, Queues, StartProcess, refs, IdleCycles
    <3>3. Places'
      BY <1>0, <1>3 DEF TypeOK, Places, StartProcess, refs, IdleCycles
    <3>. QED
      BY <3>1, <3>2, <3>3 DEF TypeOK
  <2>2. Fresh' /\ AnswersMatchRequests'
    <3>0. /\ UNCHANGED <<processing, sent, answers, made>>
          /\ \/ UNCHANGED process
             \/ /\ worker = made /\ process[made] = "new"
                /\ process' = [process EXCEPT ![made] = "up"]
          /\ pc' \notin {"create", "start"}
      BY <1>0, <1>3 DEF StartProcess, refs, Fresh
    <3>3. made \in Workers /\ made \in Nat
          /\ process \in [Workers -> {"new", "up", "down"}]
      BY <1>0, RefsAreWorkers DEF TypeOK, Queues
    <3>4. \A w \in Workers : /\ process'[w] # process[w] => w = made
                             /\ process'[w] = "new" => process[w] = "new"
      BY <3>0, <3>3
    <3>5. \A w \in Workers : w > made => w # made
      BY <3>3 DEF Workers
    <3>1. Fresh'
      BY <1>0, <3>0, <3>4, <3>5 DEF Fresh
    <3>2. AnswersMatchRequests'
      <4>. SUFFICES ASSUME NEW w \in Workers, process'[w] = "up"
                    PROVE  sent[w] + answers[w] = IF processing[w] THEN 1 ELSE 0
        BY <3>0 DEF AnswersMatchRequests
      <4>1. CASE w = made /\ process[w] = "new"
        BY <1>0, <4>1 DEF Fresh
      <4>2. CASE process[w] = "up"
        BY <1>0, <4>2 DEF AnswersMatchRequests
      <4>. QED
        BY <3>0, <3>3, <4>1, <4>2
    <3>. QED
      BY <3>1, <3>2
  <2>. QED
    BY <2>1, <2>2 DEF AInv
<1>4. CASE MakeTimer
  <2>1. TypeOK'
    <3>1. Numbers'
      <4>1. /\ UNCHANGED <<worker, timers, made, commands, idle, lost>>
            /\ timer' = made
        BY <1>0, <1>4 DEF MakeTimer
      <4>2. commands \in 0 .. MaxCommands /\ idle \in 0 .. IdleCycles
        BY <1>0 DEF TypeOK, Numbers
      <4>. QED
        BY <1>0, <4>1, <4>2, NumbersKept DEF TypeOK
    <3>2. Queues'
      BY <1>0, <1>4 DEF TypeOK, Queues, MakeTimer, queues
    <3>3. Places'
      BY <1>0, <1>4 DEF TypeOK, Places, MakeTimer, queues
    <3>. QED
      BY <3>1, <3>2, <3>3 DEF TypeOK
  <2>2. Fresh' /\ AnswersMatchRequests'
    <3>1. Fresh'
      BY <1>0, <1>4, RefsAreWorkers DEF TypeOK, Queues, Fresh, MakeTimer,
         queues
    <3>2. AnswersMatchRequests'
      BY <1>0, <1>4, RefsAreWorkers DEF TypeOK, Queues, AnswersMatchRequests,
         MakeTimer, queues
    <3>. QED
      BY <3>1, <3>2
  <2>. QED
    BY <2>1, <2>2 DEF AInv
<1>5. CASE SetTimer
  <2>1. TypeOK'
    <3>1. Numbers'
      <4>1. /\ UNCHANGED <<worker, timer, made, commands, idle, lost>>
            /\ timers' = timers \cup ({timer} \ {0})
        BY <1>0, <1>5 DEF SetTimer
      <4>2. commands \in 0 .. MaxCommands /\ idle \in 0 .. IdleCycles
        BY <1>0 DEF TypeOK, Numbers
      <4>. QED
        BY <1>0, <4>1, <4>2, NumbersKept DEF TypeOK
    <3>2. Queues'
      BY <1>0, <1>5 DEF TypeOK, Queues, SetTimer, queues
    <3>3. Places'
      BY <1>0, <1>5 DEF TypeOK, Places, SetTimer, queues
    <3>. QED
      BY <3>1, <3>2, <3>3 DEF TypeOK
  <2>2. Fresh' /\ AnswersMatchRequests'
    <3>1. Fresh'
      BY <1>0, <1>5, RefsAreWorkers DEF TypeOK, Queues, Fresh, SetTimer,
         queues
    <3>2. AnswersMatchRequests'
      BY <1>0, <1>5, RefsAreWorkers DEF TypeOK, Queues, AnswersMatchRequests,
         SetTimer, queues
    <3>. QED
      BY <3>1, <3>2
  <2>. QED
    BY <2>1, <2>2 DEF AInv
<1>6. CASE Send
  <2>0. /\ UNCHANGED <<process, answers>>
        /\ \/ /\ worker \in Workers /\ process[worker] = "up"
              /\ ~processing[worker]
              /\ sent' = [sent EXCEPT ![worker] = @ + 1]
              /\ processing' = [processing EXCEPT ![worker] = TRUE]
           \/ UNCHANGED <<sent, processing>>
    BY <1>0, <1>6, RefsAreWorkers DEF Send, Accepts, IsAlive
  <2>1. TypeOK'
    <3>1. Numbers'
      BY <1>0, <1>6 DEF TypeOK, Numbers, Send, refs
    <3>2. Queues'
      <4>1. sent' \in [Workers -> Nat]
        BY <1>0, <2>0 DEF TypeOK, Queues
      <4>2. processing' \in [Workers -> BOOLEAN]
        BY <1>0, <2>0, Zenon DEF TypeOK, Queues
      <4>. QED
        BY <1>0, <2>0, <4>1, <4>2 DEF TypeOK, Queues
    <3>3. Places'
      BY <1>0, <1>6 DEF TypeOK, Places, Send, refs
    <3>. QED
      BY <3>1, <3>2, <3>3 DEF TypeOK
  <2>2. Fresh' /\ AnswersMatchRequests'
    <3>1. Fresh'
      BY <1>0, <1>6, RefsAreWorkers DEF TypeOK, Queues, Fresh, Send, Accepts,
         IsAlive, refs, Workers
    <3>2. AnswersMatchRequests'
      <4>. SUFFICES ASSUME NEW w \in Workers, process'[w] = "up"
                    PROVE  sent'[w] + answers'[w]
                             = IF processing'[w] THEN 1 ELSE 0
        BY DEF AnswersMatchRequests
      <4>1. /\ sent[w] + answers[w] = IF processing[w] THEN 1 ELSE 0
            /\ sent[w] \in Nat /\ answers[w] \in Nat
            /\ sent \in [Workers -> Nat] /\ processing \in [Workers -> BOOLEAN]
        BY <1>0, <2>0 DEF AnswersMatchRequests, TypeOK, Queues
      <4>2. CASE UNCHANGED <<sent, processing>>
        BY <2>0, <4>1, <4>2
      <4>3. CASE w # worker
        BY <2>0, <4>1, <4>3
      <4>4. CASE /\ w = worker /\ ~processing[w]
                 /\ sent' = [sent EXCEPT ![w] = @ + 1]
                 /\ processing' = [processing EXCEPT ![w] = TRUE]
        <5>1. sent'[w] = sent[w] + 1 /\ processing'[w]
          BY <4>1, <4>4
        <5>2. sent[w] + answers[w] = 0
          BY <4>1, <4>4
        <5>. QED
          BY <2>0, <4>1, <5>1, <5>2
      <4>. QED
        BY <2>0, <4>2, <4>3, <4>4
    <3>. QED
      BY <3>1, <3>2
  <2>. QED
    BY <2>1, <2>2 DEF AInv
<1>. QED
  BY <1>1, <1>2, <1>3, <1>4, <1>5, <1>6

\* Cancellations and polls.
LEMMA AnswersCancelPoll ==
  ASSUME AInv,
         Cancel \/ ForgetTimer \/ ForgetWorker \/ Poll \/ CleanedUp
  PROVE  AInv'
<1>. USE HfWorkerAssumption DEF HfWorkerAssumption, Goto, history
<1>0. TypeOK /\ Fresh /\ AnswersMatchRequests
  BY DEF AInv
<1>1. CASE Cancel
  <2>0. commands' \in Cleaners /\ commands' \in 0 .. MaxCommands
    <3>1. commands' = commands + 1 /\ commands < MaxCommands
      BY <1>1 DEF Cancel, Command
    <3>2. commands \in 0 .. MaxCommands
      BY <1>0 DEF TypeOK, Numbers
    <3>. QED
      BY <3>1, <3>2 DEF Cleaners
  <2>3. cleaner' \in [Cleaners -> Cleanups]
    BY <1>0, <1>1, <2>0, PlaceChanges DEF Cancel, TypeOK, Places
  <2>1. TypeOK'
    <3>1. Numbers'
      <4>1. /\ UNCHANGED <<worker, timer, timers, made, idle, lost>>
            /\ commands' = commands + 1
        BY <1>0, <1>1, <2>0 DEF Cancel, Command, refs
      <4>2. commands \in 0 .. MaxCommands /\ idle \in 0 .. IdleCycles
        BY <1>0 DEF TypeOK, Numbers
      <4>. QED
        BY <1>0, <2>0, <4>1, <4>2, NumbersKept DEF TypeOK
    <3>2. Queues'
      BY <1>0, <1>1, <2>0, <2>3 DEF TypeOK, Queues, Cancel, Command, queues,
         refs
    <3>3. Places'
      BY <1>0, <1>1, <2>0, <2>3 DEF TypeOK, Places, Cancel, Command, queues,
         refs
    <3>. QED
      BY <3>1, <3>2, <3>3 DEF TypeOK
  <2>2. Fresh' /\ AnswersMatchRequests'
    <3>1. Fresh'
      BY <1>0, <1>1, RefsAreWorkers DEF TypeOK, Queues, Fresh, Cancel,
         Command, queues, refs
    <3>2. AnswersMatchRequests'
      BY <1>0, <1>1, RefsAreWorkers DEF TypeOK, Queues, AnswersMatchRequests,
         Cancel, Command, queues, refs
    <3>. QED
      BY <3>1, <3>2
  <2>. QED
    BY <2>1, <2>2 DEF AInv
<1>2. CASE ForgetTimer \/ ForgetWorker
  <2>1. TypeOK'
    <3>1. Numbers'
      <4>1. /\ UNCHANGED <<timers, made, commands, idle>>
            /\ worker' \in {worker, 0} /\ timer' \in {timer, 0}
            /\ lost' \subseteq lost \cup ({timer, worker} \ {0})
        BY <1>0, <1>2 DEF ForgetTimer, ForgetWorker
      <4>2. commands \in 0 .. MaxCommands /\ idle \in 0 .. IdleCycles
        BY <1>0 DEF TypeOK, Numbers
      <4>. QED
        BY <1>0, <4>1, <4>2, NumbersKept DEF TypeOK
    <3>2. Queues'
      BY <1>0, <1>2, RefsAreWorkers DEF TypeOK, Queues, ForgetTimer,
         ForgetWorker, queues
    <3>3. Places'
      BY <1>0, <1>2, RefsAreWorkers DEF TypeOK, Places, ForgetTimer,
         ForgetWorker, queues
    <3>. QED
      BY <3>1, <3>2, <3>3 DEF TypeOK
  <2>2. Fresh' /\ AnswersMatchRequests'
    <3>1. Fresh'
      BY <1>0, <1>2, RefsAreWorkers DEF TypeOK, Queues, Fresh, ForgetTimer,
         ForgetWorker, queues
    <3>2. AnswersMatchRequests'
      BY <1>0, <1>2, RefsAreWorkers DEF TypeOK, Queues, AnswersMatchRequests,
         ForgetTimer, ForgetWorker, queues
    <3>. QED
      BY <3>1, <3>2
  <2>. QED
    BY <2>1, <2>2 DEF AInv
<1>3. CASE Poll
  <2>0. worker \in Workers
    BY <1>0, <1>3, RefsAreWorkers DEF Poll
  <2>1. CASE Answered
    <3>1. TypeOK'
      <4>1. Numbers'
        BY <1>0, <1>3, <2>0, <2>1 DEF TypeOK, Numbers, Poll, Answered, refs,
           IdleCycles
      <4>2. Queues'
        BY <1>0, <1>3, <2>0, <2>1 DEF TypeOK, Queues, Poll, Answered, refs,
           IdleCycles
      <4>3. Places'
        BY <1>0, <1>3, <2>0, <2>1 DEF TypeOK, Places, Poll, Answered, refs,
           IdleCycles
      <4>. QED
        BY <4>1, <4>2, <4>3 DEF TypeOK
    <3>2. Fresh' /\ AnswersMatchRequests'
      <4>1. Fresh'
        BY <1>0, <1>3, <2>0, <2>1, RefsAreWorkers DEF TypeOK, Queues, Fresh,
           Poll, Answered, refs
      <4>2. AnswersMatchRequests'
        BY <1>0, <1>3, <2>0, <2>1, RefsAreWorkers DEF TypeOK, Queues,
           AnswersMatchRequests, Poll, Answered, refs
      <4>. QED
        BY <4>1, <4>2
    <3>. QED
      BY <3>1, <3>2 DEF AInv
  <2>2. CASE Busy \/ Dead
    <3>1. TypeOK'
      <4>1. Numbers'
        BY <1>0, <1>3, <2>2 DEF TypeOK, Numbers, Poll, Busy, Dead, refs,
           IdleCycles
      <4>2. Queues'
        BY <1>0, <1>3, <2>2 DEF TypeOK, Queues, Poll, Busy, Dead, refs,
           IdleCycles
      <4>3. Places'
        BY <1>0, <1>3, <2>2 DEF TypeOK, Places, Poll, Busy, Dead, refs,
           IdleCycles
      <4>. QED
        BY <4>1, <4>2, <4>3 DEF TypeOK
    <3>2. Fresh' /\ AnswersMatchRequests'
      <4>1. Fresh'
        BY <1>0, <1>3, <2>2, RefsAreWorkers DEF TypeOK, Queues, Fresh, Poll,
           Busy, Dead, refs
      <4>2. AnswersMatchRequests'
        BY <1>0, <1>3, <2>2, RefsAreWorkers DEF TypeOK, Queues,
           AnswersMatchRequests, Poll, Busy, Dead, refs
      <4>. QED
        BY <4>1, <4>2
    <3>. QED
      BY <3>1, <3>2 DEF AInv
  <2>3. CASE Idle
    <3>0. cleaner' \in [Cleaners -> Cleanups]
      BY <1>0, <2>3, PlaceChanges, RefsAreWorkers DEF Idle, TypeOK, Places
    <3>1. TypeOK'
      <4>1. Numbers'
        <5>1. /\ UNCHANGED <<worker, timer, timers, made, commands, lost>>
              /\ idle' = IF idle < IdleCycles THEN idle + 1 ELSE idle
          BY <1>0, <1>3, <2>3 DEF Poll, Idle, refs
        <5>2. commands \in 0 .. MaxCommands /\ idle \in 0 .. IdleCycles
          BY <1>0 DEF TypeOK, Numbers
        <5>3. idle' \in 0 .. IdleCycles
          BY <5>1, <5>2 DEF IdleCycles
        <5>. QED
          BY <1>0, <5>3, <5>1, <5>2, NumbersKept DEF TypeOK
      <4>2. Queues'
        BY <1>0, <1>3, <2>3, <3>0 DEF TypeOK, Queues, Poll, Idle, refs,
           IdleCycles
      <4>3. Places'
        BY <1>0, <1>3, <2>3, <3>0 DEF TypeOK, Places, Poll, Idle, refs,
           IdleCycles
      <4>. QED
        BY <4>1, <4>2, <4>3 DEF TypeOK
    <3>2. Fresh' /\ AnswersMatchRequests'
      <4>1. Fresh'
        BY <1>0, <1>3, <2>3, RefsAreWorkers DEF TypeOK, Queues, Fresh, Poll,
           Idle, refs
      <4>2. AnswersMatchRequests'
        BY <1>0, <1>3, <2>3, RefsAreWorkers DEF TypeOK, Queues,
           AnswersMatchRequests, Poll, Idle, refs
      <4>. QED
        BY <4>1, <4>2
    <3>. QED
      BY <3>1, <3>2 DEF AInv
  <2>. QED
    BY <1>3, <2>1, <2>2, <2>3 DEF Poll
<1>4. CASE CleanedUp
  BY <1>0, <1>4
  DEF AInv, TypeOK, Numbers, Queues, Places, Fresh, AnswersMatchRequests,
      CleanedUp, queues, refs
<1>. QED
  BY <1>1, <1>2, <1>3, <1>4

\* Clean-ups.
LEMMA AnswersCleanUp ==
  ASSUME AInv, NEW k \in Cleaners, CleanUp(k)
  PROVE  AInv'
<1>. USE HfWorkerAssumption DEF HfWorkerAssumption, history
<1>0. TypeOK /\ Fresh /\ AnswersMatchRequests
  BY DEF AInv
<1>1. CASE LookAtTimer(k) \/ LookAtWorker(k)
  <2>0. cleaner' \in [Cleaners -> Cleanups]
    BY <1>0, <1>1, PlaceChanges DEF LookAtTimer, LookAtWorker, At
  <2>. QED
    BY <1>0, <1>1, <2>0
    DEF AInv, TypeOK, Numbers, Queues, Places, Fresh, AnswersMatchRequests,
        LookAtTimer, LookAtWorker,
        At
<1>2. CASE DestroyTimer(k)
  <2>0. cleaner' \in [Cleaners -> Cleanups]
    BY <1>0, <1>2, PlaceChanges DEF DestroyTimer, At
  <2>. QED
    BY <1>0, <1>2, <2>0
    DEF AInv, TypeOK, Numbers, Queues, Places, Fresh, AnswersMatchRequests,
        DestroyTimer, At
<1>3. CASE DropTimer(k) \/ DropWorker(k)
  <2>0. cleaner' \in [Cleaners -> Cleanups]
    BY <1>0, <1>3, PlaceChanges DEF DropTimer, DropWorker, At
  <2>1. /\ UNCHANGED <<timers, made, commands, idle, lost>>
        /\ worker' \in {worker, 0} /\ timer' \in {timer, 0}
    BY <1>3 DEF DropTimer, DropWorker, At
  <2>2. commands \in 0 .. MaxCommands /\ idle \in 0 .. IdleCycles
    BY <1>0 DEF TypeOK, Numbers
  <2>3. Numbers'
    BY <1>0, <2>1, <2>2, NumbersKept DEF TypeOK
  <2>4. Queues' /\ Places'
    BY <1>0, <1>3, <2>0 DEF TypeOK, Queues, Places, DropTimer, DropWorker, At
  <2>5. Fresh' /\ AnswersMatchRequests'
    BY <1>0, <1>3 DEF Fresh, AnswersMatchRequests, DropTimer, DropWorker, At
  <2>. QED
    BY <2>3, <2>4, <2>5 DEF AInv, TypeOK
<1>4. CASE StopWorker(k)
  <2>1. worker \in 0 .. MaxCommands + 1
    BY <1>0, RefsAreWorkers, HfWorkerAssumption
    DEF HfWorkerAssumption, Workers
  <2>0. cleaner' \in [Cleaners -> Cleanups]
    BY <1>0, <1>4, <2>1 DEF StopWorker, TypeOK, Places, Cleanups
  <2>. QED
    BY <1>0, <1>4, <2>0
    DEF AInv, TypeOK, Numbers, Queues, Places, Fresh, AnswersMatchRequests,
        StopWorker, queues, refs
<1>5. CASE KillProcess(k)
  <2>0. cleaner' \in [Cleaners -> Cleanups]
    BY <1>0, <1>5, PlaceChanges DEF KillProcess, At
  <2>1. TypeOK'
    <3>1. Numbers'
      BY <1>0, <1>5, <2>0 DEF TypeOK, Numbers, KillProcess, At
    <3>2. Queues'
      BY <1>0, <1>5, <2>0 DEF TypeOK, Queues, KillProcess, At
    <3>3. Places'
      BY <1>0, <1>5, <2>0 DEF TypeOK, Places, KillProcess, At
    <3>. QED
      BY <3>1, <3>2, <3>3 DEF TypeOK
  <2>2. Fresh' /\ AnswersMatchRequests'
    <3>1. Fresh'
      BY <1>0, <1>5, RefsAreWorkers DEF TypeOK, Queues, Fresh, KillProcess,
         At, IsAlive
    <3>2. AnswersMatchRequests'
      BY <1>0, <1>5, RefsAreWorkers DEF TypeOK, Queues, AnswersMatchRequests,
         KillProcess, At, IsAlive
    <3>. QED
      BY <3>1, <3>2
  <2>. QED
    BY <2>1, <2>2 DEF AInv
<1>. QED
  BY <1>1, <1>2, <1>3, <1>4, <1>5 DEF CleanUp

\* Every step preserves the invariant.
LEMMA AnswersNext == AInv /\ [Next]_vars => AInv'
<1>. SUFFICES ASSUME AInv, [Next]_vars PROVE AInv'
  OBVIOUS
<1>. USE HfWorkerAssumption DEF HfWorkerAssumption, history
<1>0. TypeOK /\ Fresh /\ AnswersMatchRequests
  BY DEF AInv
<1>1. ASSUME NEW w \in Workers, Answer(w)
      PROVE  AInv'
  <2>1. TypeOK'
    <3>1. Numbers'
      BY <1>0, <1>1 DEF TypeOK, Numbers, Answer, refs
    <3>2. Queues'
      BY <1>0, <1>1 DEF TypeOK, Queues, Answer, refs
    <3>3. Places'
      BY <1>0, <1>1 DEF TypeOK, Places, Answer, refs
    <3>. QED
      BY <3>1, <3>2, <3>3 DEF TypeOK
  <2>2. Fresh' /\ AnswersMatchRequests'
    <3>1. Fresh'
      BY <1>0, <1>1, RefsAreWorkers DEF TypeOK, Queues, Fresh, Answer,
         IsAlive, refs
    <3>2. AnswersMatchRequests'
      BY <1>0, <1>1, RefsAreWorkers DEF TypeOK, Queues, AnswersMatchRequests,
         Answer, IsAlive, refs
    <3>. QED
      BY <3>1, <3>2
  <2>. QED
    BY <2>1, <2>2 DEF AInv
<1>2. ASSUME NEW w \in Workers, Die(w)
      PROVE  AInv'
  <2>1. TypeOK'
    <3>1. Numbers'
      BY <1>0, <1>2 DEF TypeOK, Numbers, Die, refs
    <3>2. Queues'
      BY <1>0, <1>2 DEF TypeOK, Queues, Die, refs
    <3>3. Places'
      BY <1>0, <1>2 DEF TypeOK, Places, Die, refs
    <3>. QED
      BY <3>1, <3>2, <3>3 DEF TypeOK
  <2>2. Fresh' /\ AnswersMatchRequests'
    <3>1. Fresh'
      BY <1>0, <1>2, RefsAreWorkers DEF TypeOK, Queues, Fresh, Die, IsAlive,
         refs
    <3>2. AnswersMatchRequests'
      BY <1>0, <1>2, RefsAreWorkers DEF TypeOK, Queues, AnswersMatchRequests,
         Die, IsAlive, refs
    <3>. QED
      BY <3>1, <3>2
  <2>. QED
    BY <2>1, <2>2 DEF AInv
<1>3. CASE UNCHANGED vars
  BY <1>0, <1>3
  DEF AInv, TypeOK, Numbers, Queues, Places, Fresh, AnswersMatchRequests,
        vars, queues, refs
<1>. QED
  BY <1>1, <1>2, <1>3, AnswersRequest, AnswersCancelPoll, AnswersCleanUp
  DEF Next, Service, Over

LEMMA AnswersInvariance == Spec => []AInv
BY AnswersInit, AnswersNext, PTL DEF Spec

\* Every variable of the worker's server side keeps its type.
THEOREM TypeCorrect == Spec => []TypeOK
<1>1. AInv => TypeOK
  BY DEF AInv
<1>. QED
  BY <1>1, AnswersInvariance, PTL

\* However requests, cancellations, clean-up threads and deaths of processes
\* interleave, no answer is taken for that of another request.
THEOREM AnswersMatchRequestsAlways == Spec => []AnswersMatchRequests
<1>1. AInv => AnswersMatchRequests
  BY DEF AInv
<1>. QED
  BY <1>1, AnswersInvariance, PTL

----------------------------------------------------------------------------
(* Leaks.                                                                  *)

LeaksNothing == OneCleanup /\ InHand /\ \A k \in Cleaners : CleanupInHand(k)

\* A clean-up that is not at work has nothing in hand.
LEMMA InactiveHoldsNothing ==
  ASSUME NEW k \in Cleaners, ~Active(k)
  PROVE  CleanupInHand(k)
BY DEF Active, CleanupInHand

LEMMA LeaksInit == Init => LInv
<1>. SUFFICES ASSUME Init PROVE LeaksNothing
  BY DEF LInv, LeaksNothing
<1>1. \A k \in Cleaners : cleaner[k].at = "none"
  BY DEF Init
<1>2. \A k \in Cleaners : ~Active(k)
  BY <1>1 DEF Active
<1>3. Up \subseteq {1}
  BY DEF Up, Init, Workers
<1>4. 1 \in Up
  BY HfWorkerAssumption DEF HfWorkerAssumption, Up, Init, Workers
<1>5. OneCleanup
  BY <1>2 DEF OneCleanup, Init
<1>6. InHand
  BY <1>3, <1>4 DEF InHand, Init, Live
<1>. QED
  BY <1>2, <1>5, <1>6, InactiveHoldsNothing DEF LeaksNothing

\* From a request to its sending no clean-up is at work.
LEMMA LeaksRequest ==
  ASSUME TypeOK, LeaksNothing, orderly',
         Request \/ CreateWorker \/ StartProcess \/ MakeTimer \/ SetTimer
           \/ Send
  PROVE  LeaksNothing'
<1>. USE DEF Goto, history, NothingLeft
<1>0. OneCleanup /\ InHand
  BY DEF LeaksNothing
<1>1. NoneActive /\ cleaner' = cleaner
  BY <1>0
  DEF OneCleanup, NoneActive, Request, CreateWorker, StartProcess, MakeTimer,
      SetTimer, Send
<1>2. \A k \in Cleaners : ~Active(k)' /\ CleanupInHand(k)'
  BY <1>1 DEF NoneActive, Active, CleanupInHand
<1>3. OneCleanup'
  <2>1. pc' \in {"create", "start", "make timer", "set timer", "send", "idle"}
    BY DEF Request, CreateWorker, StartProcess, MakeTimer, SetTimer, Send
  <2>. QED
    BY <1>2, <2>1 DEF OneCleanup, NoneActive
<1>4. CASE Request
  <2>1. UNCHANGED <<worker, timer, timers, process, lost>> /\ pc = "idle"
        /\ pc' = IF IsAlive(worker) THEN "send" ELSE "create"
    BY <1>4 DEF Request, Command, queues, refs
  <2>2. Up' = Up /\ Live' = Live
    BY <2>1 DEF Up, Live
  <2>3. /\ Up \subseteq {worker} /\ Live \subseteq {timer}
        /\ Up = {} => Live = {}
    BY <1>0, <1>1, <2>1 DEF InHand
  <2>4. ~IsAlive(worker) => Up = {}
    BY <2>3 DEF Up, IsAlive, Workers
  <2>. QED
    BY <1>2, <1>3, <2>1, <2>2, <2>3, <2>4 DEF LeaksNothing, InHand
<1>5. CASE CreateWorker
  <2>1. /\ NothingLeft /\ pc' = "start"
        /\ UNCHANGED <<timers, process, lost>>
        /\ worker' = made + 1
    BY <1>0, <1>5 DEF CreateWorker, InHand, queues
  <2>2. NothingLeft' /\ worker' # 0 /\ worker' \notin lost
    <3>1. made \in Nat /\ lost \subseteq 1 .. made
      BY RefsAreWorkers DEF TypeOK, Numbers
    <3>. QED
      BY <2>1, <3>1 DEF Up, Live
  <2>. QED
    BY <1>2, <1>3, <2>1, <2>2 DEF LeaksNothing, InHand
<1>6. CASE StartProcess
  <2>1. /\ NothingLeft /\ UNCHANGED <<worker, timer, timers, lost>>
        /\ worker \in Workers /\ worker \notin lost
        /\ \/ pc' = "send" /\ process' = process
           \/ pc' = "make timer" /\ process' = [process EXCEPT ![worker] = "up"]
    BY <1>0, <1>6, RefsAreWorkers DEF StartProcess, InHand, refs
  <2>2. CASE process' = process /\ pc' = "send"
    <3>1. NothingLeft'
      BY <2>1, <2>2 DEF Up, Live
    <3>. QED
      BY <1>2, <1>3, <2>2, <3>1 DEF LeaksNothing, InHand
  <2>3. CASE pc' = "make timer" /\ process' = [process EXCEPT ![worker] = "up"]
    <3>1. Up' = {worker} /\ Live' = {}
      BY <2>1, <2>3 DEF Up, Live, TypeOK, Queues
    <3>. QED
      BY <1>2, <1>3, <2>1, <2>3, <3>1 DEF LeaksNothing, InHand
  <2>. QED
    BY <2>1, <2>2, <2>3
<1>7. CASE MakeTimer
  <2>1. /\ Up = {worker} /\ Live = {} /\ UNCHANGED <<worker, timers, process, lost>>
        /\ timer' = made /\ pc' = "set timer"
    BY <1>0, <1>7 DEF MakeTimer, InHand, queues
  <2>2. Up' = Up /\ Live' = Live
    BY <2>1 DEF Up, Live
  <2>3. timer' # 0
    <3>1. made \in Workers /\ 0 \notin Workers
      BY RefsAreWorkers DEF Workers
    <3>. QED
      BY <2>1, <3>1
  <2>. QED
    BY <1>2, <1>3, <2>1, <2>2, <2>3 DEF LeaksNothing, InHand
<1>8. CASE SetTimer
  <2>1. /\ Up = {worker} /\ Live = {} /\ UNCHANGED <<worker, timer, process, lost>>
        /\ timers' \subseteq timers \cup {timer} /\ pc' = "send"
    BY <1>0, <1>8 DEF SetTimer, InHand, queues
  <2>2. Up' = Up /\ Live' \subseteq {timer}
    BY <2>1 DEF Up, Live
  <2>. QED
    BY <1>2, <1>3, <2>1, <2>2 DEF LeaksNothing, InHand
<1>9. CASE Send
  <2>1. UNCHANGED <<worker, timer, timers, process, lost>>
        /\ pc = "send" /\ pc' = "idle"
    BY <1>9 DEF Send, refs
  <2>2. Up' = Up /\ Live' = Live
    BY <2>1 DEF Up, Live
  <2>. QED
    BY <1>0, <1>1, <1>2, <1>3, <2>1, <2>2 DEF LeaksNothing, InHand
<1>. QED
  BY <1>4, <1>5, <1>6, <1>7, <1>8, <1>9

\* A cancellation hands worker and timer over to its clean-up.
LEMMA LeaksCancel ==
  ASSUME TypeOK, LeaksNothing, orderly', Cancel \/ ForgetTimer \/ ForgetWorker
  PROVE  LeaksNothing'
<1>. USE DEF Goto, history, NothingLeft
<1>0. OneCleanup /\ InHand /\ \A k \in Cleaners : CleanupInHand(k)
  BY DEF LeaksNothing
<1>1. CASE Cancel
  <2>1. UNCHANGED <<worker, timer, timers, process, lost>> /\ pc = "idle"
        /\ commands' = commands + 1 /\ commands < MaxCommands
    BY <1>1 DEF Cancel, Command, queues, refs
  <2>2. Up' = Up /\ Live' = Live
    BY <2>1 DEF Up, Live
  <2>3. commands' \in Cleaners
    BY <2>1, HfWorkerAssumption
    DEF HfWorkerAssumption, TypeOK, Numbers, Cleaners
  <2>4. CASE UNCHANGED <<cleaner, pc>>
    BY <1>0, <2>1, <2>2, <2>4
    DEF LeaksNothing, OneCleanup, InHand, NoneActive, Active, CleanupInHand,
        HoldsWorker
  <2>5. CASE /\ ~(worker = 0 /\ timer = 0)
             /\ cleaner' = [cleaner EXCEPT ![commands'].at = "timer"]
             /\ pc' = "forget timer"
    <3>1. NoneActive
      BY <1>0, <2>1, <2>5 DEF OneCleanup, NoneActive
    <3>2. cleaner'[commands'].at = "timer"
          /\ \A k \in Cleaners : k # commands' => cleaner'[k] = cleaner[k]
      BY <2>3, <2>5, PlaceChanges
    <3>3. \A k \in Cleaners : k # commands' => ~Active(k)'
      BY <3>1, <3>2 DEF NoneActive, Active
    <3>4. OneCleanup'
      BY <2>5, <3>2, <3>3 DEF OneCleanup
    <3>5. InHand'
      BY <2>5 DEF InHand
    <3>6. Up \subseteq {worker} /\ Live \subseteq {timer}
      BY <1>0, <2>1, <3>1 DEF InHand
    <3>7. ASSUME NEW k \in Cleaners, k = commands'
          PROVE  CleanupInHand(k)'
      BY <2>1, <2>2, <3>2, <3>6, <3>7 DEF CleanupInHand
    <3>8. \A k \in Cleaners : k # commands' => CleanupInHand(k)'
      BY <3>3 DEF Active, CleanupInHand
    <3>. QED
      BY <3>4, <3>5, <3>7, <3>8 DEF LeaksNothing
  <2>. QED
    BY <1>1, <2>4, <2>5 DEF Cancel
<1>2. CASE ForgetTimer
  <2>1. /\ UNCHANGED <<worker, timers, process, cleaner, commands>>
        /\ pc = "forget timer" /\ pc' = "forget worker" /\ timer' = 0
        /\ lost' = IF HoldsWorker(commands) THEN lost
                   ELSE lost \cup ({timer, worker} \ {0})
    BY <1>2 DEF ForgetTimer, queues
  <2>2. /\ commands \in Cleaners /\ Up' \subseteq Up /\ Live' \subseteq Live
        /\ 0 \notin Up /\ 0 \notin Live
    <3>1. commands \in Cleaners /\ 0 \notin Workers /\ 0 \notin timers
      BY RefsAreWorkers DEF Workers, TypeOK, Numbers
    <3>2. lost \subseteq lost'
      BY <2>1
    <3>. QED
      BY <2>1, <3>1, <3>2 DEF Up, Live
  <2>3. ~HoldsWorker(commands) => Up \subseteq {worker} /\ Live \subseteq {timer}
    BY <1>0, <2>1, <2>2
    DEF OneCleanup, CleanupInHand, HoldsWorker, TypeOK, Places, Cleanups
  <2>4. HoldsWorker(commands) \/ NothingLeft'
    BY <2>1, <2>2, <2>3 DEF Up, Live
  <2>5. OneCleanup'
    BY <1>0, <2>1, <2>2, <2>4 DEF OneCleanup, Active, HoldsWorker
  <2>6. \A k \in Cleaners : Active(k) => k = commands
    BY <1>0, <2>1 DEF OneCleanup
  <2>7. \A k \in Cleaners : CleanupInHand(k)'
    BY <1>0, <2>1, <2>2, <2>4, <2>6 DEF CleanupInHand, Active, HoldsWorker
  <2>8. InHand'
    BY <2>1 DEF InHand
  <2>. QED
    BY <2>5, <2>7, <2>8 DEF LeaksNothing
<1>3. CASE ForgetWorker
  <2>1. /\ UNCHANGED <<timer, timers, process, lost, cleaner, commands>>
        /\ pc = "forget worker" /\ pc' = "idle" /\ worker' = 0 /\ timer = 0
        /\ HoldsWorker(commands) \/ NothingLeft
    BY <1>0, <1>3 DEF ForgetWorker, OneCleanup, queues
  <2>2. Up' = Up /\ Live' = Live /\ commands \in Cleaners
    BY <2>1, RefsAreWorkers DEF Up, Live
  <2>4. \A k \in Cleaners : Active(k) => k = commands
    BY <1>0, <2>1 DEF OneCleanup
  <2>3. OneCleanup'
    BY <1>0, <2>1, <2>2, <2>4 DEF OneCleanup, Active, HoldsWorker
  <2>5. \A k \in Cleaners : CleanupInHand(k)'
    BY <1>0, <2>1, <2>2, <2>4 DEF CleanupInHand, Active, HoldsWorker
  <2>6. InHand'
    <3>1. NoneActive => NothingLeft
      BY <1>0, <2>1, <2>2 DEF OneCleanup, NoneActive, Active, HoldsWorker
    <3>2. NoneActive' = NoneActive
      BY <2>1 DEF NoneActive, Active
    <3>. QED
      BY <2>1, <2>2, <3>1, <3>2 DEF InHand
  <2>. QED
    BY <2>3, <2>5, <2>6 DEF LeaksNothing
<1>. QED
  BY <1>1, <1>2, <1>3

\* The timer's callback starts a clean-up only where no other is at work.
LEMMA LeaksPoll ==
  ASSUME TypeOK, LeaksNothing, orderly', Poll \/ CleanedUp
  PROVE  LeaksNothing'
<1>. USE DEF Goto, history, NothingLeft
<1>0. OneCleanup /\ InHand /\ \A k \in Cleaners : CleanupInHand(k)
  BY DEF LeaksNothing
<1>1. /\ UNCHANGED <<worker, timer, timers, process, lost, commands>>
      /\ Up' = Up /\ Live' = Live
  BY DEF Poll, CleanedUp, refs, queues, Up, Live
<1>2. CASE UNCHANGED <<cleaner, pc>>
  BY <1>0, <1>1, <1>2
  DEF LeaksNothing, OneCleanup, InHand, NoneActive, Active, CleanupInHand,
      HoldsWorker
<1>3. CASE /\ Poll /\ pc' = "clean up"
           /\ cleaner' = [cleaner EXCEPT ![0].at = "timer"]
  <2>0. 0 \in Cleaners
    BY RefsAreWorkers
  <2>1. pc = "idle" /\ NoneActive
    BY <1>0, <1>3 DEF Poll, OneCleanup, NoneActive
  <2>2. cleaner'[0].at = "timer"
        /\ \A k \in Cleaners : k # 0 => cleaner'[k] = cleaner[k]
    BY <1>3, <2>0, PlaceChanges
  <2>3. \A k \in Cleaners : k # 0 => ~Active(k)'
    BY <2>1, <2>2 DEF NoneActive, Active
  <2>4. OneCleanup'
    BY <1>3, <2>2, <2>3 DEF OneCleanup
  <2>5. InHand'
    BY <1>3 DEF InHand
  <2>6. Up \subseteq {worker} /\ Live \subseteq {timer}
    BY <1>0, <2>1 DEF InHand
  <2>7. CleanupInHand(0)'
    BY <1>1, <2>2, <2>6 DEF CleanupInHand
  <2>8. \A k \in Cleaners : k # 0 => CleanupInHand(k)'
    BY <2>3 DEF Active, CleanupInHand
  <2>. QED
    BY <2>4, <2>5, <2>7, <2>8 DEF LeaksNothing
<1>4. CASE CleanedUp
  <2>1. /\ pc = "clean up" /\ cleaner[0].at = "done" /\ pc' = "idle"
        /\ cleaner' = cleaner
    BY <1>4 DEF CleanedUp
  <2>2. NothingLeft /\ \A k \in Cleaners : ~Active(k)
    BY <1>0, <2>1 DEF OneCleanup, Active
  <2>3. \A k \in Cleaners : ~Active(k)' /\ CleanupInHand(k)'
    BY <2>1, <2>2 DEF Active, CleanupInHand
  <2>. QED
    BY <1>1, <2>1, <2>2, <2>3 DEF LeaksNothing, OneCleanup, InHand, NoneActive
<1>. QED
  BY <1>2, <1>3, <1>4 DEF Poll, Answered, Busy, Dead, Idle

\* What a clean-up stops or drops is gone.
LEMMA CleanUpsEnd ==
  ASSUME TypeOK, NEW k \in Cleaners, CleanUp(k)
  PROVE  Up' \subseteq Up /\ Live' \subseteq Live /\ lost' = lost
<1>1. /\ lost' = lost /\ timers' \subseteq timers
      /\ \/ process' = process
         \/ process' = [process EXCEPT ![cleaner[k].target] = "down"]
  BY DEF CleanUp, LookAtTimer, DestroyTimer, DropTimer, LookAtWorker, StopWorker,
         KillProcess, DropWorker, At, queues, refs, history
<1>2. \A w \in Workers : process'[w] = "up" => process[w] = "up"
  BY <1>1 DEF TypeOK, Queues
<1>. QED
  BY <1>1, <1>2 DEF Up, Live

\* A step of a clean-up that has everything in hand keeps it in hand, and when
\* it is done nothing is left.
LEMMA StepOfCleanUp ==
  ASSUME TypeOK, LeaksNothing, NEW k \in Cleaners, CleanUp(k)
  PROVE  /\ Active(k) /\ cleaner'[k].at # "none" /\ CleanupInHand(k)'
         /\ cleaner'[k].at = "done" => NothingLeft'
         /\ HoldsWorker(k) => cleaner'[k].at \in {"kill", "drop", "done"}
         /\ \A l \in Cleaners : l # k => cleaner'[l] = cleaner[l]
         /\ worker' \in {worker, 0} /\ timer' \in {timer, 0}
         /\ UNCHANGED <<pc, commands, lost>>
<1>. USE DEF NothingLeft, Live, history
<1>0. CleanupInHand(k) /\ OneCleanup
  BY DEF LeaksNothing
<1>1. CASE LookAtTimer(k)
  <2>1. /\ UNCHANGED <<worker, timer, timers, process, lost, pc, commands>>
        /\ cleaner[k].at = "timer"
        /\ cleaner' = [cleaner EXCEPT ![k].at =
                         IF timer # 0 THEN "destroy" ELSE "worker"]
    BY <1>1 DEF LookAtTimer, At
  <2>2. /\ cleaner'[k].at = IF timer # 0 THEN "destroy" ELSE "worker"
        /\ \A l \in Cleaners : l # k => cleaner'[l] = cleaner[l]
    BY <2>1, PlaceChanges
  <2>3. timer = 0 => Live = {}
    BY <1>0, <2>1 DEF CleanupInHand, TypeOK, Numbers
  <2>4. Up' = Up /\ Live' = Live
    BY <2>1 DEF Up, Live
  <2>5. CleanupInHand(k)'
    BY <1>0, <2>1, <2>2, <2>3, <2>4 DEF CleanupInHand
  <2>. QED
    BY <2>1, <2>2, <2>5 DEF Active, HoldsWorker
<1>2. CASE DestroyTimer(k)
  <2>1. /\ UNCHANGED <<worker, timer, process, pc, commands, lost>>
        /\ cleaner[k].at = "destroy" /\ timers' = timers \ {timer}
    BY <1>2 DEF DestroyTimer, At
  <2>2. /\ timer # 0 \/ NothingLeft
        /\ pc # "set timer"
    BY <1>0, <2>1 DEF CleanupInHand, OneCleanup, NoneActive, Active
  <2>3. cleaner' = [cleaner EXCEPT
                     ![k].at = IF timer = 0 THEN "done" ELSE "forget"]
    BY <1>2, <2>2 DEF DestroyTimer, At
  <2>4. /\ cleaner'[k].at = IF timer = 0 THEN "done" ELSE "forget"
        /\ \A m \in Cleaners : m # k => cleaner'[m] = cleaner[m]
    BY <2>3, PlaceChanges
  <2>5. Live' = {} /\ Up' = Up
    BY <1>0, <2>1 DEF CleanupInHand, Up
  <2>6. CleanupInHand(k)'
    BY <1>0, <2>1, <2>4, <2>5 DEF CleanupInHand
  <2>7. cleaner'[k].at = "done" => NothingLeft'
    BY <2>2, <2>4, <2>5
  <2>. QED
    BY <2>1, <2>4, <2>6, <2>7 DEF Active, HoldsWorker
<1>3. CASE DropTimer(k)
  <2>1. /\ UNCHANGED <<worker, timers, process, lost, pc, commands>>
        /\ cleaner[k].at = "forget" /\ timer' = 0
        /\ cleaner' = [cleaner EXCEPT ![k].at = "worker"]
    BY <1>3 DEF DropTimer, At
  <2>2. /\ cleaner'[k].at = "worker"
        /\ \A l \in Cleaners : l # k => cleaner'[l] = cleaner[l]
    BY <2>1, PlaceChanges
  <2>3. CleanupInHand(k)'
    BY <1>0, <2>1, <2>2 DEF CleanupInHand, Up
  <2>. QED
    BY <2>1, <2>2, <2>3 DEF Active, HoldsWorker
<1>4. CASE LookAtWorker(k)
  <2>1. /\ UNCHANGED <<worker, timer, timers, process, lost, pc, commands>>
        /\ cleaner[k].at = "worker"
        /\ cleaner' = [cleaner EXCEPT ![k].at =
                         IF worker # 0 THEN "stop" ELSE "done"]
    BY <1>4 DEF LookAtWorker, At
  <2>2. /\ cleaner'[k].at = IF worker # 0 THEN "stop" ELSE "done"
        /\ \A l \in Cleaners : l # k => cleaner'[l] = cleaner[l]
    BY <2>1, PlaceChanges
  <2>3. /\ Up' = Up /\ Live = {} /\ Up \subseteq {worker}
        /\ 0 \notin Up
    BY <1>0, <2>1 DEF CleanupInHand, Up, Workers
  <2>4. CleanupInHand(k)'
    BY <1>0, <2>1, <2>2, <2>3 DEF CleanupInHand
  <2>5. cleaner'[k].at = "done" => NothingLeft'
    BY <2>1, <2>2, <2>3
  <2>. QED
    BY <2>1, <2>2, <2>4, <2>5 DEF Active, HoldsWorker
<1>5. CASE StopWorker(k)
  <2>1. /\ UNCHANGED <<worker, timer, timers, process, lost, pc, commands>>
        /\ cleaner[k].at = "stop"
    BY <1>5 DEF StopWorker, queues, refs
  <2>2. /\ worker # 0 \/ Up = {}
        /\ Up \subseteq {worker} /\ Live = {} /\ Up' = Up /\ Live' = Live
    BY <1>0, <2>1 DEF CleanupInHand, Up
  <2>3. cleaner' = [cleaner EXCEPT
           ![k] = [at |-> IF worker # 0 THEN "kill" ELSE "done", target |-> worker]]
    BY <1>5 DEF StopWorker
  <2>4. /\ cleaner'[k].at = IF worker # 0 THEN "kill" ELSE "done"
        /\ cleaner'[k].target = worker
        /\ \A l \in Cleaners : l # k => cleaner'[l] = cleaner[l]
    BY <2>3 DEF TypeOK, Places
  <2>5. CleanupInHand(k)'
    BY <2>1, <2>2, <2>4 DEF CleanupInHand
  <2>6. cleaner'[k].at = "done" => NothingLeft'
    BY <2>2, <2>4
  <2>. QED
    BY <2>1, <2>4, <2>5, <2>6 DEF Active, HoldsWorker
<1>6. CASE KillProcess(k)
  <2>. DEFINE w == cleaner[k].target
  <2>1. /\ UNCHANGED <<worker, timer, timers, pc, commands, lost>>
        /\ cleaner[k].at = "kill"
        /\ cleaner' = [cleaner EXCEPT ![k].at = "drop"]
        /\ IF IsAlive(w) THEN process' = [process EXCEPT ![w] = "down"]
                         ELSE process' = process
    BY <1>6 DEF KillProcess, At
  <2>2. /\ cleaner'[k].at = "drop"
        /\ \A l \in Cleaners : l # k => cleaner'[l] = cleaner[l]
    BY <2>1, PlaceChanges
  <2>3. Live = {} /\ Up \subseteq {w}
    BY <1>0, <2>1 DEF CleanupInHand
  <2>4. Up' = {}
    <3>1. process \in [Workers -> {"new", "up", "down"}] /\ 0 \notin Workers
      BY DEF TypeOK, Queues, Workers
    <3>2. \A v \in Workers : process'[v] = "up" => process[v] = "up" /\ v # w
      BY <2>1, <3>1 DEF IsAlive
    <3>. QED
      BY <2>1, <2>3, <3>2 DEF Up
  <2>5. CleanupInHand(k)'
    BY <2>1, <2>2, <2>3, <2>4 DEF CleanupInHand
  <2>. QED
    BY <2>1, <2>2, <2>5 DEF Active, HoldsWorker
<1>7. CASE DropWorker(k)
  <2>1. /\ UNCHANGED <<timer, timers, process, lost, pc, commands>>
        /\ cleaner[k].at = "drop" /\ worker' = 0
        /\ cleaner' = [cleaner EXCEPT ![k].at = "done"]
    BY <1>7 DEF DropWorker, At
  <2>2. /\ cleaner'[k].at = "done"
        /\ \A l \in Cleaners : l # k => cleaner'[l] = cleaner[l]
    BY <2>1, PlaceChanges
  <2>3. NothingLeft'
    BY <1>0, <2>1 DEF CleanupInHand, Up
  <2>4. CleanupInHand(k)'
    BY <2>2 DEF CleanupInHand
  <2>. QED
    BY <2>1, <2>2, <2>3, <2>4 DEF Active, HoldsWorker
<1>. QED
  BY <1>1, <1>2, <1>3, <1>4, <1>5, <1>6, <1>7 DEF CleanUp

LEMMA LeaksCleanUp ==
  ASSUME TypeOK, LeaksNothing, NEW k \in Cleaners, CleanUp(k)
  PROVE  LeaksNothing'
<1>. USE DEF NothingLeft
<1>0. OneCleanup /\ \A l \in Cleaners : CleanupInHand(l)
  BY DEF LeaksNothing
<1>1. /\ Active(k) /\ cleaner'[k].at # "none" /\ CleanupInHand(k)'
      /\ cleaner'[k].at = "done" => NothingLeft'
      /\ HoldsWorker(k) => cleaner'[k].at \in {"kill", "drop", "done"}
      /\ \A l \in Cleaners : l # k => cleaner'[l] = cleaner[l]
      /\ worker' \in {worker, 0} /\ timer' \in {timer, 0}
      /\ UNCHANGED <<pc, commands, lost>> /\ (NothingLeft => NothingLeft')
  BY StepOfCleanUp, CleanUpsEnd
<1>2. \A l \in Cleaners : l # k => ~Active(l) /\ ~Active(l)'
  BY <1>0, <1>1 DEF OneCleanup, Active
<1>3. \A l \in Cleaners : CleanupInHand(l)'
  BY <1>1, <1>2 DEF CleanupInHand, Active
<1>4. pc \in {"idle", "forget timer", "forget worker", "clean up"}
  BY <1>0, <1>1 DEF TypeOK, Places, OneCleanup, NoneActive
<1>5. InHand'
  <2>1. NoneActive' => cleaner'[k].at = "done"
    BY <1>1 DEF NoneActive, Active
  <2>. QED
    BY <1>1, <1>4, <2>1 DEF InHand
<1>6. OneCleanup'
  <2>1. CASE pc = "idle"
    BY <1>0, <1>1, <1>2, <2>1 DEF OneCleanup, HoldsWorker
  <2>2. CASE pc \in {"forget timer", "forget worker"}
    <3>1. k = commands
      BY <1>0, <1>1, <2>2 DEF OneCleanup
    <3>. QED
      BY <1>0, <1>1, <1>2, <2>2, <3>1 DEF OneCleanup, HoldsWorker
  <2>3. CASE pc = "clean up"
    <3>1. k = 0
      BY <1>0, <1>1, <2>3 DEF OneCleanup
    <3>. QED
      BY <1>0, <1>1, <1>2, <2>3, <3>1 DEF OneCleanup
  <2>. QED
    BY <1>4, <2>1, <2>2, <2>3
<1>. QED
  BY <1>3, <1>5, <1>6 DEF LeaksNothing

\* Every step preserves the invariant; a death ends what it says.
LEMMA LeaksNext == TypeOK /\ LInv /\ [Next]_vars => LInv'
<1>. SUFFICES ASSUME TypeOK, LInv, [Next]_vars, orderly'
              PROVE  LeaksNothing'
  BY DEF LInv, LeaksNothing
<1>1. orderly /\ ~\E w \in Workers : Die(w)
  BY DEF Next, vars, history, Request, Cancel, Service, CreateWorker, StartProcess,
     MakeTimer, SetTimer, Send, ForgetTimer, ForgetWorker, CleanedUp, Poll,
     CleanUp, LookAtTimer, DestroyTimer, DropTimer, LookAtWorker, StopWorker,
     KillProcess, DropWorker, At, Answer, Die, Over
<1>2. LeaksNothing
  BY <1>1 DEF LInv, LeaksNothing
<1>3. ASSUME UNCHANGED <<worker, timer, timers, process, lost, pc, cleaner,
                       commands>>
      PROVE  LeaksNothing'
  BY <1>2, <1>3
  DEF LeaksNothing, OneCleanup, InHand, NoneActive, Active, CleanupInHand,
      HoldsWorker, Up, Live, NothingLeft
<1>4. ASSUME NEW w \in Workers, Answer(w)
      PROVE  LeaksNothing'
  BY <1>3, <1>4 DEF Answer, refs, history
<1>5. CASE UNCHANGED vars
  BY <1>3, <1>5 DEF vars, queues, refs, history
<1>. QED
  BY <1>1, <1>2, <1>4, <1>5, LeaksRequest, LeaksCancel, LeaksPoll, LeaksCleanUp
  DEF Next, Service, Over

\* As long as no process dies and no request comes in the middle of a clean-up,
\* the server loses no worker process and no status timer but those that a
\* cancellation forgets before its thread holds the worker, however many requests
\* and cancellations come.
THEOREM NothingLeaksAlways == Spec => []NothingLeaks
<1>1. LInv => NothingLeaks
  BY DEF LInv, NothingLeaks, InHand, NoneActive, Up, Live
<1>2. AInv => TypeOK
  BY DEF AInv
<1>. QED
  BY <1>1, <1>2, AnswersInvariance, LeaksInit, LeaksNext, PTL DEF Spec
==============================================================================
