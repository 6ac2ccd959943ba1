------------------------------ MODULE HfWorker ------------------------------
(***************************************************************************)
(* The Hugging Face worker of physical_ai_server: a process that uploads   *)
(* and downloads, the service /huggingface/control that starts it when     *)
(* needed, sends it one request at a time and cancels, the timer that      *)
(* polls it and shuts it down when idle, and the threads that cancelling   *)
(* leaves behind to clean up.                                              *)
(*                                                                         *)
(* The service and the timers share the one thread of rclpy.spin, but the  *)
(* clean-up threads read and write hf_api_worker and hf_status_timer       *)
(* beside it: every access of these two is a step.                         *)
(***************************************************************************)
EXTENDS Naturals, FiniteSets

CONSTANTS
  ProcessMayDie,  \* whether a worker process can be killed, or not start
  MaxCommands     \* bound on the number of requests and cancellations

ASSUME HfWorkerAssumption == ProcessMayDie \in BOOLEAN /\ MaxCommands \in Nat

VARIABLES
  worker,      \* hf_api_worker: the number of a worker, 0 for None
  timer,       \* hf_status_timer: the number of its worker, 0 for None
  timers,      \* the status timers that run in the node
  process,     \* each worker's process: not started, up or down
  processing,  \* each worker's is_processing
  sent,        \* requests each worker was sent and has not answered
  answers,     \* answers in each worker's output queue
  made,        \* number of workers made
  idle,        \* _hf_idle_count
  status,      \* the status last published
  pc,          \* where the service or timer callback is
  cleaner,     \* where each clean-up is: 0 for the callback's own
  commands,    \* number of requests and cancellations received
  orderly,     \* history: no process died, and no request came in the middle
               \* of a clean-up
  lost         \* history: the workers, and the timers of the same number, that
               \* a cancellation forgot before its thread held the worker

queues == <<process, processing, sent, answers>>
refs == <<worker, timer, timers, made>>
history == <<orderly, lost>>
vars == <<queues, refs, idle, status, pc, cleaner, commands, history>>

----------------------------------------------------------------------------

Workers == 1 .. MaxCommands + 1
Cleaners == 0 .. MaxCommands
IdleCycles == 5   \* _hf_idle_count is counted up to here

\* A clean-up, and the worker it is stopping.
Cleanups == [at : {"none", "timer", "destroy", "forget", "worker", "stop",
                   "kill", "drop", "done"},
             target : 0 .. MaxCommands + 1]

Active(k) == cleaner[k].at \notin {"none", "done"}

\* The thread holds the worker it is to stop: it needs hf_api_worker no more.
HoldsWorker(k) == cleaner[k].at \in {"kill", "drop", "done"}

IsAlive(w) == w # 0 /\ process[w] = "up"

\* The node starts with a worker and its timer.
Init ==
  /\ worker = 1 /\ timer = 1 /\ timers = {1} /\ made = 1
  /\ process = [w \in Workers |-> IF w = 1 THEN "up" ELSE "new"]
  /\ processing = [w \in Workers |-> FALSE]
  /\ sent = [w \in Workers |-> 0] /\ answers = [w \in Workers |-> 0]
  /\ idle = 0 /\ status = "none" /\ pc = "idle"
  /\ cleaner = [k \in Cleaners |-> [at |-> "none", target |-> 0]]
  /\ commands = 0 /\ orderly = TRUE /\ lost = {}

----------------------------------------------------------------------------
(* control_hf_server_callback.                                             *)

Command ==
  /\ pc = "idle" /\ commands < MaxCommands
  /\ commands' = commands + 1

Goto(to) == pc' = to

\* A request that finds no running worker makes one first.
Request ==
  /\ Command
  /\ orderly' = (orderly /\ \A k \in Cleaners : ~Active(k))
  /\ Goto(IF IsAlive(worker) THEN "send" ELSE "create")
  /\ UNCHANGED <<queues, refs, idle, status, cleaner, lost>>

\* _init_hf_api_worker, up to the start of the process. The timer that was
\* there before is not stopped.
CreateWorker ==
  /\ pc = "create"
  /\ made' = made + 1 /\ worker' = made'
  /\ Goto("start")
  /\ UNCHANGED <<queues, timer, timers, idle, status, cleaner, commands,
                 history>>

\* Where hf_api_worker is None by now, the exception is caught.
StartProcess ==
  /\ pc = "start"
  /\ \/ /\ worker = 0 \/ ProcessMayDie
        /\ Goto("send") /\ UNCHANGED <<process, idle>>
     \/ /\ worker # 0
        /\ process' = [process EXCEPT ![worker] = "up"]
        /\ idle' = 0 /\ Goto("make timer")
  /\ UNCHANGED <<processing, sent, answers, refs, status, cleaner, commands,
                 history>>

MakeTimer ==
  /\ pc = "make timer"
  /\ timer' = made /\ Goto("set timer")
  /\ UNCHANGED <<queues, worker, timers, made, idle, status, cleaner, commands,
                 history>>

\* Where hf_status_timer is None by now, the exception is caught.
SetTimer ==
  /\ pc = "set timer"
  /\ timers' = timers \cup ({timer} \ {0})
  /\ Goto("send")
  /\ UNCHANGED <<queues, worker, timer, made, idle, status, cleaner, commands,
                 history>>

\* A mutant of Accepts: is_busy is not asked.
AcceptsMore(w) == IsAlive(w)

Accepts(w) == IsAlive(w) /\ ~processing[w]

\* is_busy and send_request. A request that is not accepted is refused, or
\* ends in an exception that is caught.
Send ==
  /\ pc = "send" /\ Goto("idle")
  /\ IF Accepts(worker)
     THEN /\ sent' = [sent EXCEPT ![worker] = @ + 1]
          /\ processing' = [processing EXCEPT ![worker] = TRUE]
     ELSE UNCHANGED <<sent, processing>>
  /\ UNCHANGED <<process, answers, refs, idle, status, cleaner, commands,
                 history>>

\* cancel: the clean-up starts in a thread of its own, and the references are
\* dropped, in this order, without waiting for it. hf_cancel_on_progress is
\* set only while the callback runs, so no other callback ever finds it set. The
\* clean-up in the callback itself, for a thread that cannot be started, is left
\* out.
Cancel ==
  /\ Command
  /\ IF worker = 0 /\ timer = 0
     THEN UNCHANGED <<cleaner, pc>>
     ELSE /\ cleaner' = [cleaner EXCEPT ![commands'].at = "timer"]
          /\ Goto("forget timer")
  /\ UNCHANGED <<queues, refs, idle, status, history>>

ForgetTimer ==
  /\ pc = "forget timer"
  /\ timer' = 0 /\ Goto("forget worker")
  /\ lost' = IF HoldsWorker(commands) THEN lost
             ELSE lost \cup ({timer, worker} \ {0})
  /\ UNCHANGED <<queues, worker, timers, made, idle, status, cleaner,
                 commands, orderly>>

\* Then the cancellation is published.
ForgetWorker ==
  /\ pc = "forget worker"
  /\ worker' = 0 /\ status' = "Idle" /\ Goto("idle")
  /\ UNCHANGED <<queues, timer, timers, made, idle, cleaner, commands, history>>

----------------------------------------------------------------------------
(* _hf_status_timer_callback and check_task_status, for whichever timer.   *)

\* A mutant of Answered: the task is not ended.
AnsweredOnly ==
  /\ processing[worker] /\ answers[worker] > 0
  /\ answers' = [answers EXCEPT ![worker] = @ - 1]
  /\ status' \in {"Success", "Failed"}
  /\ idle' = 0 /\ UNCHANGED <<processing, pc, cleaner>>

\* An answer ends the task, a success or a failure; it is published, and the
\* idle cycles start anew.
Answered ==
  /\ processing[worker] /\ answers[worker] > 0
  /\ processing' = [processing EXCEPT ![worker] = FALSE]
  /\ answers' = [answers EXCEPT ![worker] = @ - 1]
  /\ status' \in {"Success", "Failed"}
  /\ idle' = 0 /\ UNCHANGED <<pc, cleaner>>

\* "Uploading", "Downloading" and the like, whether the process lives or not:
\* the "Failed" of a dead process is overwritten.
Busy ==
  /\ processing[worker] /\ answers[worker] = 0
  /\ status' = "Busy"
  /\ idle' = 0 /\ UNCHANGED <<processing, answers, pc, cleaner>>

Dead ==
  /\ ~processing[worker] /\ ~IsAlive(worker)
  /\ status' = "Failed"
  /\ idle' = 0 /\ UNCHANGED <<processing, answers, pc, cleaner>>

Idle ==
  /\ ~processing[worker] /\ IsAlive(worker)
  /\ status' = "Idle"
  /\ idle' = IF idle < IdleCycles THEN idle + 1 ELSE idle
  /\ IF idle' >= IdleCycles
     THEN Goto("clean up") /\ cleaner' = [cleaner EXCEPT ![0].at = "timer"]
     ELSE UNCHANGED <<pc, cleaner>>
  /\ UNCHANGED <<processing, answers>>

Poll ==
  /\ pc = "idle" /\ timers # {} /\ worker # 0
  /\ Answered \/ Busy \/ Dead \/ Idle
  /\ UNCHANGED <<process, sent, refs, commands, history>>

CleanedUp ==
  /\ pc = "clean up" /\ cleaner[0].at = "done"
  /\ Goto("idle")
  /\ UNCHANGED <<queues, refs, idle, status, cleaner, commands, history>>

----------------------------------------------------------------------------
(* _cleanup_hf_api_worker, in a thread or in the timer's callback. None is *)
(* looked for before each use, and met in it if the other thread got there *)
(* in between: the exception is caught and ends the clean-up.              *)

At(k, from, to) ==
  /\ cleaner[k].at = from
  /\ cleaner' = [cleaner EXCEPT ![k].at = to]
  /\ UNCHANGED <<sent, answers, made, idle, status, pc, commands, history>>

LookAtTimer(k) ==
  /\ At(k, "timer", IF timer # 0 THEN "destroy" ELSE "worker")
  /\ UNCHANGED <<worker, timer, timers, process, processing>>

\* A mutant of DestroyTimer: the reference goes, the timer stays.
DestroyNothing(k) ==
  /\ At(k, "destroy", "forget")
  /\ UNCHANGED <<worker, timer, timers, process, processing>>

\* The timer manager does not know the name before set_timer.
DestroyTimer(k) ==
  /\ At(k, "destroy", IF timer = 0 \/ (pc = "set timer" /\ timer = made)
                      THEN "done" ELSE "forget")
  /\ timers' = timers \ {timer}
  /\ UNCHANGED <<worker, timer, process, processing>>

DropTimer(k) ==
  /\ At(k, "forget", "worker") /\ timer' = 0
  /\ UNCHANGED <<worker, timers, process, processing>>

LookAtWorker(k) ==
  /\ At(k, "worker", IF worker # 0 THEN "stop" ELSE "done")
  /\ UNCHANGED <<worker, timer, timers, process, processing>>

StopWorker(k) ==
  /\ cleaner[k].at = "stop"
  /\ cleaner' = [cleaner EXCEPT
                   ![k] = [at |-> IF worker # 0 THEN "kill" ELSE "done",
                           target |-> worker]]
  /\ UNCHANGED <<queues, refs, idle, status, pc, commands, history>>

\* HfApiWorker.stop: whatever it is doing, the process is gone after it.
KillProcess(k) ==
  /\ At(k, "kill", "drop")
  /\ LET w == cleaner[k].target
     IN  IF IsAlive(w)
         THEN /\ process' = [process EXCEPT ![w] = "down"]
              /\ processing' = [processing EXCEPT ![w] = FALSE]
         ELSE UNCHANGED <<process, processing>>
  /\ UNCHANGED <<worker, timer, timers>>

\* Whichever worker is there by now.
DropWorker(k) ==
  /\ At(k, "drop", "done") /\ worker' = 0
  /\ UNCHANGED <<timer, timers, process, processing>>

CleanUp(k) ==
  \/ LookAtTimer(k) \/ DestroyTimer(k) \/ DropTimer(k)
  \/ LookAtWorker(k) \/ StopWorker(k) \/ KillProcess(k) \/ DropWorker(k)

----------------------------------------------------------------------------
(* The worker processes, _worker_process_loop.                             *)

\* Every request, of whatever mode and however it fails, has one answer.
Answer(w) ==
  /\ IsAlive(w) /\ sent[w] > 0
  /\ sent' = [sent EXCEPT ![w] = @ - 1]
  /\ answers' = [answers EXCEPT ![w] = @ + 1]
  /\ UNCHANGED <<process, processing, refs, idle, status, pc, cleaner, commands,
                 history>>

Die(w) ==
  /\ ProcessMayDie /\ IsAlive(w)
  /\ process' = [process EXCEPT ![w] = "down"]
  /\ orderly' = FALSE
  /\ UNCHANGED <<processing, sent, answers, refs, idle, status, pc, cleaner,
                 commands, lost>>

\* Nothing more is asked, and nothing is polled.
Over ==
  /\ pc = "idle" /\ commands = MaxCommands /\ (timers = {} \/ worker = 0)
  /\ \A k \in Cleaners : ~Active(k)
  /\ UNCHANGED vars

Service ==
  \/ CreateWorker \/ StartProcess \/ MakeTimer \/ SetTimer \/ Send
  \/ ForgetTimer \/ ForgetWorker \/ CleanedUp

Next ==
  \/ Request \/ Cancel \/ Service \/ Poll
  \/ \E k \in Cleaners : CleanUp(k)
  \/ \E w \in Workers : Answer(w) \/ Die(w)
  \/ Over

Spec == Init /\ [][Next]_vars

\* The node's thread and the clean-up threads are scheduled and the timer
\* fires; that an upload comes to its end is not assumed.
FairSpec ==
  /\ Spec
  /\ WF_vars(Service) /\ WF_vars(Poll)
  /\ WF_vars(\E k \in Cleaners : CleanUp(k))

----------------------------------------------------------------------------

Numbers ==
  /\ worker \in 0 .. made /\ timer \in 0 .. made
  /\ timers \subseteq 1 .. made
  /\ made \in 1 .. commands + 1 /\ commands \in 0 .. MaxCommands
  /\ idle \in 0 .. IdleCycles
  /\ lost \subseteq 1 .. made

Queues ==
  /\ process \in [Workers -> {"new", "up", "down"}]
  /\ processing \in [Workers -> BOOLEAN]
  /\ sent \in [Workers -> Nat] /\ answers \in [Workers -> Nat]

Places ==
  /\ status \in {"none", "Idle", "Busy", "Success", "Failed"}
  /\ pc \in {"idle", "create", "start", "make timer", "set timer", "send",
             "forget timer", "forget worker", "clean up"}
  /\ cleaner \in [Cleaners -> Cleanups]
  /\ orderly \in BOOLEAN

\* Every variable has its type; no reference or timer is of a worker that was
\* not made, and no request makes two.
TypeOK == Numbers /\ Queues /\ Places

\* However requests, cancellations, clean-ups and deaths interleave, a living
\* worker has exactly one request, or its answer, for each task it is said to
\* be processing: no answer is ever taken for that of another request.
AnswersMatchRequests ==
  \A w \in Workers :
    process[w] = "up"
      => sent[w] + answers[w] = IF processing[w] THEN 1 ELSE 0

\* As long as no process dies and no request comes in the middle of a clean-up:
\* when nothing is going on, the only worker process and the only status timer
\* are those the server knows, so that the next shutdown or cancellation reaches
\* them, but for those of a cancellation that forgot them before its thread held
\* the worker. Such a cancellation, that is, costs no other worker than its own.
NothingLeaks ==
  orderly /\ pc = "idle" /\ (\A k \in Cleaners : ~Active(k)) =>
    /\ {w \in Workers : process[w] = "up"} \subseteq {worker} \cup lost
    /\ timers \subseteq {timer} \cup lost

\* Then, too, a running worker without an unanswered request is shut down in
\* the end: its answer is published, then the idle cycles pass, unless it gets
\* another request, or a cancellation loses it.
IdleWorkerStops ==
  \A w \in Workers :
    orderly /\ w \notin lost /\ process[w] = "up" /\ sent[w] = 0
      ~> process[w] # "up" \/ sent[w] > 0 \/ w \in lost \/ ~orderly

=============================================================================
