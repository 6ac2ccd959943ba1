---------------------------- MODULE ServiceQueue ----------------------------
(***************************************************************************)
(* The services of the zenoh SDK: threads that share one ROS2ServiceClient *)
(* call a ROS2ServiceServer. A request carries the client's gid and a      *)
(* sequence number, its key; the server answers at once, from a callback,  *)
(* or puts the request in a queue, keeps the query under its key, and lets *)
(* worker threads take requests and send responses. There is one client:   *)
(* the keys of two differ in the gid. A reply reaches the closure of its   *)
(* own call at once; a delayed one is one that is sent later.              *)
(***************************************************************************)
EXTENDS Integers, Sequences, FiniteSets

CONSTANTS
  Threads,     \* the threads that call the service
  NoThread,    \* who waits for a call with an outcome
  ACallback,   \* what is told the outcome of a call_async
  Workers,     \* the threads that take requests from the queue
  Depths,      \* queue depths of the server's QoS; 0 is no limit (KEEP_ALL)
  MaxCalls,    \* bound on the number of calls
  MaxAsync     \* bound on the number of those made with call_async

ASSUME QueueAssumption ==
  /\ NoThread \notin Threads /\ ACallback \notin Threads \cup {NoThread}
  /\ IsFiniteSet(Workers) /\ IsFiniteSet(Threads)
  /\ Depths \subseteq Nat /\ MaxCalls \in Nat /\ MaxAsync \in Nat

VARIABLES
  mode,             \* ROS2ServiceServer.mode
  depth,            \* history_depth of the server's QoS
  ready,            \* the server's constructor has made the queue and its lock
  closed,           \* the server's queryable is undeclared
  sequence_number,  \* ROS2ServiceClient.sequence_number
  threads,          \* the client's threads: where they are in call()
  calls,            \* the calls sent, in order: key, outcome, answer, the thread
                    \* that waits, whether the callback was called once more
  net,              \* the queries on their way to the server
  queue,            \* _queue: (key, request); a request is the number of its call
  pending,          \* _pending_queries: from a key to the call of the query
  workers,          \* the server's threads: where they are, what they took
  abandoned,        \* history: requests that were taken and never answered
  raced             \* history: two threads numbered their calls at once

clientVars == <<sequence_number, threads, raced>>
serverVars == <<queue, pending, workers, abandoned>>
settings == <<mode, depth, ready, closed>>
vars == <<settings, clientVars, serverVars, calls, net>>

Call(key, outcome, answer, by, again) ==
  [key |-> key, outcome |-> outcome, answer |-> answer, by |-> by, again |-> again]
Entry(key, request) == [key |-> key, request |-> request]
NoEntry == Entry(0, 0)

Thread(at, key, next) == [at |-> at, key |-> key, next |-> next]
Idle == Thread("idle", 0, 0)

At(w) == workers[w].at
Waiting == {w \in Workers : At(w) = "wait"}
Woken == {w \in Workers : At(w) = "woken"}
Working == {w \in Workers : At(w) = "work"}
Become(w, at, entry) == [workers EXCEPT ![w] = [at |-> at, entry |-> entry]]

----------------------------------------------------------------------------

\* The queryable is declared before the queue, its lock and the dictionary of
\* pending queries exist.
Init ==
  /\ mode \in {"queue", "callback"} /\ depth \in Depths
  /\ ready = FALSE /\ closed = FALSE
  /\ sequence_number = 1
  /\ threads = [t \in Threads |-> Idle]
  /\ calls = << >> /\ net = {}
  /\ queue = << >> /\ pending = << >>
  /\ workers = [w \in Workers |-> [at |-> "out", entry |-> NoEntry]]
  /\ abandoned = {} /\ raced = FALSE

----------------------------------------------------------------------------
(* The client. Neither call() nor call_async() takes the client's lock for *)
(* sequence_id = self.sequence_number; self.sequence_number += 1.          *)

\* A synchronous call blocks its thread until it has an outcome.
Free(t) ==
  /\ threads[t].at = "idle"
  /\ \A c \in DOMAIN calls : calls[c].by # t

Async == {c \in DOMAIN calls : calls[c].by = ACallback}
Numbering == {t \in Threads : threads[t].at # "idle"}

Number(t) ==
  /\ Free(t) /\ Len(calls) + Cardinality(Numbering) < MaxCalls
  /\ threads' = [threads EXCEPT ![t] = Thread("numbered", sequence_number, 0)]
  /\ raced' = (raced \/ Numbering # {})
  /\ UNCHANGED <<settings, serverVars, sequence_number, calls, net>>

Load(t) ==
  /\ threads[t].at = "numbered"
  /\ threads' = [threads EXCEPT ![t] =
                   Thread("adding", @.key, sequence_number + 1)]
  /\ UNCHANGED <<settings, serverVars, sequence_number, raced, calls, net>>

\* The rest of call() up to its wait, and all of call_async(): no state is
\* shared from here to the query.
Send(t) ==
  /\ threads[t].at = "adding"
  /\ sequence_number' = threads[t].next
  /\ \E by \in {ACallback, t} :  \* call_async, call
       /\ by = ACallback => Cardinality(Async) < MaxAsync
       /\ calls' = Append(calls, Call(threads[t].key, "open", 0, by, FALSE))
  /\ net' = IF closed THEN net ELSE net \cup {Len(calls) + 1}
  /\ threads' = [threads EXCEPT ![t] = Idle]
  /\ UNCHANGED <<settings, serverVars, raced>>

\* Whether the callback of call_async may be called once more, with None: when
\* it raises, on a response or on the None of an error.
Again(c) == IF c \in Async THEN {calls[c].again, TRUE} ELSE {calls[c].again}

\* Who waits for the call when it has an outcome.
StillBy(c) == IF c \in Async THEN ACallback ELSE NoThread

\* A mutant of Settled: a reply that comes after the timeout is the outcome.
SettledLate(c, outcome, answer) ==
  {[calls EXCEPT ![c] = Call(@.key, outcome, answer, StillBy(c), again)] :
     again \in Again(c)}

\* What can happen to the call c; a reply that comes after the timeout is not
\* looked at by anyone.
Settled(c, outcome, answer) ==
  IF calls[c].outcome = "open"
  THEN {[calls EXCEPT ![c] = Call(@.key, outcome, answer, StillBy(c), again)] :
          again \in Again(c)}
  ELSE {calls}

\* response_event.wait(timeout) ends, or zenoh ends the query.
Timeout(c) ==
  /\ calls[c].outcome = "open"
  /\ calls' \in Settled(c, "timeout", 0)
  /\ UNCHANGED <<settings, clientVars, serverVars, net>>

----------------------------------------------------------------------------
(* The server's _query_handler.                                            *)

Arrives(c) == c \in net /\ net' = net \ {c}

\* mode="callback": the callback answers, or raises.
Callback(c) ==
  /\ mode = "callback" /\ Arrives(c)
  /\ \/ calls' \in Settled(c, "answered", c)
     \/ calls' \in Settled(c, "error", 0)
  /\ UNCHANGED <<settings, clientVars, serverVars>>

\* The attribute _cv does not exist yet; the handler answers with an error.
TooEarly(c) ==
  /\ mode = "queue" /\ ~ready /\ Arrives(c)
  /\ calls' \in Settled(c, "error", 0)
  /\ UNCHANGED <<settings, clientVars, serverVars>>

\* A mutant of IsDuplicate: only what is still in the queue is looked at.
InQueue(key) == \E i \in DOMAIN queue : queue[i].key = key

IsDuplicate(key) == key \in DOMAIN pending

Duplicate(c) ==
  /\ mode = "queue" /\ ready /\ IsDuplicate(calls[c].key) /\ Arrives(c)
  /\ calls' \in Settled(c, "duplicate", 0)
  /\ UNCHANGED <<settings, clientVars, serverVars>>

\* How many of the oldest requests are dropped to make room for one.
Dropped ==
  IF depth > 0 /\ Len(queue) >= depth THEN Len(queue) - depth + 1 ELSE 0

\* A mutant of Kept: the queries of the dropped requests are kept.
KeptAll == DOMAIN pending

\* The keys whose queries stay.
Kept == DOMAIN pending \ {queue[i].key : i \in 1 .. Dropped}

\* Mutants of Notified: notify() for the first request only; not at all.
NotifiedOnce ==
  IF Waiting = {} \/ queue # << >> THEN {workers}
  ELSE {Become(w, "woken", NoEntry) : w \in Waiting}
NotNotified == {workers}

\* notify() wakes one of the threads that wait, if there is one.
Notified ==
  IF Waiting = {} THEN {workers}
  ELSE {Become(w, "woken", NoEntry) : w \in Waiting}

Enqueue(c) ==
  LET key == calls[c].key IN
  /\ mode = "queue" /\ ready /\ ~IsDuplicate(key) /\ Arrives(c)
  /\ queue' = Append(SubSeq(queue, Dropped + 1, Len(queue)), Entry(key, c))
  /\ pending' = [k \in Kept \cup {key} |-> IF k = key THEN c ELSE pending[k]]
  /\ workers' \in Notified
  /\ UNCHANGED <<settings, clientVars, abandoned, calls>>

----------------------------------------------------------------------------
(* take_request and send_response.                                         *)

Take(w) ==
  /\ ready /\ At(w) \in {"out", "woken"} /\ queue # << >>
  /\ queue' = Tail(queue)
  /\ workers' = Become(w, "work", Head(queue))
  /\ UNCHANGED <<settings, clientVars, calls, net, pending, abandoned>>

Wait(w) ==
  /\ mode = "queue" /\ ready
  /\ At(w) \in {"out", "woken"} /\ queue = << >>
  /\ workers' = Become(w, "wait", NoEntry)
  /\ UNCHANGED <<settings, clientVars, calls, net, queue, pending, abandoned>>

\* The timeout of a wait: the thread looks at the queue once more.
Expire(w) ==
  /\ At(w) = "wait"
  /\ workers' = Become(w, "woken", NoEntry)
  /\ UNCHANGED <<settings, clientVars, calls, net, queue, pending, abandoned>>

\* TimeoutError.
GiveUp(w) ==
  /\ At(w) = "woken" /\ queue = << >>
  /\ workers' = Become(w, "out", NoEntry)
  /\ UNCHANGED <<settings, clientVars, calls, net, queue, pending, abandoned>>

\* Without a query under the key, KeyError; otherwise the query answers the
\* call that it came from, unless the response cannot be serialized, after the
\* query was taken out.
SendResponse(w) ==
  LET key == workers[w].entry.key IN
  /\ At(w) = "work"
  /\ workers' = Become(w, "out", NoEntry)
  /\ \/ /\ key \in DOMAIN pending
        /\ pending' = [k \in DOMAIN pending \ {key} |-> pending[k]]
        /\ \/ calls' \in Settled(pending[key], "answered", workers[w].entry.request)
           \/ calls' = calls
     \/ /\ key \notin DOMAIN pending
        /\ UNCHANGED <<pending, calls>>
  /\ UNCHANGED <<settings, clientVars, net, queue, abandoned>>

\* The user's code fails between take_request and send_response.
Abandon(w) ==
  /\ At(w) = "work"
  /\ workers' = Become(w, "out", NoEntry)
  /\ abandoned' = abandoned \cup {workers[w].entry.request}
  /\ UNCHANGED <<settings, clientVars, calls, net, queue, pending>>

----------------------------------------------------------------------------

\* The end of the server's constructor.
MakeQueue ==
  /\ ~ready /\ ready' = TRUE
  /\ UNCHANGED <<mode, depth, closed, clientVars, serverVars, calls, net>>

\* Undeclares the queryable: no query arrives any more. Who waits in
\* take_request is not woken.
Close ==
  /\ ready /\ ~closed /\ closed' = TRUE
  /\ net' = {}
  /\ UNCHANGED <<mode, depth, ready, clientVars, serverVars, calls>>

\* All calls were made and have an outcome, and nobody has anything to do.
Over ==
  /\ Len(calls) >= MaxCalls /\ \A c \in DOMAIN calls : calls[c].outcome # "open"
  /\ UNCHANGED vars

Next ==
  \/ \E t \in Threads : Number(t) \/ Load(t) \/ Send(t)
  \/ \E c \in DOMAIN calls :
       Timeout(c) \/ Callback(c) \/ TooEarly(c) \/ Duplicate(c) \/ Enqueue(c)
  \/ \E w \in Workers :
       \/ Take(w) \/ Wait(w) \/ Expire(w) \/ GiveUp(w)
       \/ SendResponse(w) \/ Abandon(w)
  \/ MakeQueue \/ Close \/ Over

Spec == Init /\ [][Next]_vars

\* A server's threads loop: they take the next request when they have dealt
\* with one. Nothing is assumed of timeouts, callers and the network.
FairSpec ==
  Spec /\ WF_vars(\E w \in Workers : Take(w) \/ SendResponse(w))

----------------------------------------------------------------------------

CallNumbers == DOMAIN calls

\* Every variable has its type.
TypeOK ==
  /\ mode \in {"queue", "callback"} /\ depth \in Nat
  /\ ready \in BOOLEAN /\ closed \in BOOLEAN /\ raced \in BOOLEAN
  /\ sequence_number \in Nat
  /\ threads \in [Threads -> [at : {"idle", "numbered", "adding"}, key : Nat,
                              next : Nat]]
  /\ calls \in Seq([key : Nat, answer : Nat, by : Threads \cup {NoThread, ACallback},
                     again : BOOLEAN,
                     outcome : {"open", "answered", "error", "duplicate",
                                "timeout"}])
  /\ net \subseteq CallNumbers
  /\ queue \in Seq([key : Nat, request : CallNumbers])
  /\ DOMAIN pending \subseteq Nat
  /\ pending \in [DOMAIN pending -> CallNumbers]
  /\ workers \in [Workers -> [at : {"out", "wait", "woken", "work"},
                              entry : [key : Nat, request : Nat]]]
  /\ abandoned \subseteq CallNumbers

\* A response is the response to the request of the call that gets it.
OwnAnswers ==
  \A c \in CallNumbers : calls[c].outcome = "answered" => calls[c].answer = c

\* Threads that number their calls one after the other are never refused one
\* as a duplicate.
NoDuplicates ==
  ~raced => \A c \in CallNumbers : calls[c].outcome # "duplicate"

\* Whatever keys two threads came to share, whatever is dropped, given up or
\* answered late, no call gets the answer of another; and none is refused as
\* a duplicate, unless two threads numbered their calls at once.
AnswersFitCalls == OwnAnswers /\ NoDuplicates

\* The requests that were taken and are being worked on.
InHand == {workers[w].entry.request : w \in Working}
Queued == {queue[i].request : i \in DOMAIN queue}

\* The dictionary of pending queries holds what the server owes an answer and
\* nothing else: each queued or taken request finds its own query, so that
\* send_response never raises, and no dropped or answered one stays behind.
PendingIsOwed ==
  /\ \A i \in DOMAIN queue :
       /\ queue[i].key \in DOMAIN pending
       /\ pending[queue[i].key] = queue[i].request
  /\ \A w \in Working :
       /\ workers[w].entry.key \in DOMAIN pending
       /\ pending[workers[w].entry.key] = workers[w].entry.request
  /\ {pending[k] : k \in DOMAIN pending} = Queued \cup InHand \cup abandoned

\* The calls with one of these outcomes.
With(outcomes) == {c \in CallNumbers : calls[c].outcome \in outcomes}
CalledAgain == {c \in CallNumbers : calls[c].again}

RC == INSTANCE RemoteCalls WITH
        issued <- Len(calls), async <- Async,
        again <- CalledAgain, sent <- net \cup Queued,
        executing <- InHand, answered <- With({"answered"}),
        failed <- With({"error", "duplicate", "timeout"})

\* Whatever is dropped, late, refused, given up or numbered twice: no call is
\* carried out twice, what carries it out answers that call and no other, and the
\* first outcome that a call has stays. A thread that waits is told that outcome
\* and no other; a callback may be called once more when it raised, with None,
\* by the reply that it raised on and by no later one.
CalledAtMostOnce == RC!Spec

\* No request lies in the queue while a thread sleeps, unless another one was
\* woken for it: the notifications are never fewer than the requests.
NoLostWakeup == Waiting # {} => Len(queue) <= Cardinality(Woken)

\* A request does not stay in the queue.
QueueDrains == \A c \in 1 .. MaxCalls : c \in Queued ~> c \notin Queued
=============================================================================
