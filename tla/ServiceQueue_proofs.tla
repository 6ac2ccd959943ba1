------------------------ MODULE ServiceQueue_proofs ------------------------
(***************************************************************************)
(* Proofs about ServiceQueue, for any number of threads, workers and calls *)
(* and any depth of the queue: what the dictionary of pending queries      *)
(* holds, that answers reach their own calls, who is refused as a          *)
(* duplicate, and that no notification is lost.                            *)
(***************************************************************************)
EXTENDS ServiceQueue, SequenceTheorems, FiniteSetTheorems, TLAPS

Outcomes == {"open", "answered", "error", "duplicate", "timeout"}
CallType == [key : Nat, answer : Nat, by : Threads \cup {NoThread, ACallback},
             again : BOOLEAN,
             outcome : Outcomes]
EntryType == [key : Nat, request : Nat]
PendingCalls == {pending[k] : k \in DOMAIN pending}

\* A request is in one place: queued, in one worker's hands, or abandoned.
Distinct ==
  /\ \A i, j \in DOMAIN queue : queue[i].request = queue[j].request => i = j
  /\ \A v, w \in Working :
       workers[v].entry.request = workers[w].entry.request => v = w
  /\ \A i \in DOMAIN queue : \A w \in Working :
       queue[i].request # workers[w].entry.request
  /\ \A i \in DOMAIN queue : queue[i].request \notin abandoned
  /\ \A w \in Working : workers[w].entry.request \notin abandoned

\* The dictionary's keys are those of its calls, so that two keys never lead to
\* the same call; and what is pending has left the net.
KeysFit == \A k \in DOMAIN pending : calls[pending[k]].key = k
Arrived == \A c \in net : c \notin PendingCalls

\* Calls that are numbered one after the other have the keys below the counter,
\* each once, and the thread at it has the counter's value.
NumberedInTurn ==
  ~raced =>
    /\ \A t, u \in Numbering : t = u
    /\ \A t \in Numbering :
         /\ threads[t].key = sequence_number
         /\ threads[t].at = "adding" => threads[t].next = sequence_number + 1
    /\ \A c \in CallNumbers : calls[c].key < sequence_number
    /\ \A c, d \in CallNumbers : calls[c].key = calls[d].key => c = d

QueueInv == PendingIsOwed /\ Distinct /\ KeysFit /\ Arrived

IInv == TypeOK /\ QueueInv /\ OwnAnswers /\ NumberedInTurn /\ NoDuplicates

----------------------------------------------------------------------------
(* The operators.                                                          *)

\* A sequence over a set is one over any larger set.
LEMMA SeqMonotone ==
  ASSUME NEW S, NEW T, S \subseteq T, NEW s \in Seq(S)
  PROVE  s \in Seq(T)
<1>1. \A i \in 1 .. Len(s) : s[i] \in T
  OBVIOUS
<1>. QED
  BY <1>1

\* The list of calls keeps its length and keys when one of them is settled.
LEMMA SettledCalls ==
  ASSUME TypeOK, NEW c \in CallNumbers, NEW o \in Outcomes, NEW a \in Nat,
         NEW settled \in Settled(c, o, a)
  PROVE  /\ settled \in Seq(CallType) /\ DOMAIN settled = CallNumbers
         /\ \A d \in CallNumbers :
              /\ settled[d].key = calls[d].key
              /\ \/ /\ settled[d].outcome = calls[d].outcome
                    /\ settled[d].answer = calls[d].answer
                 \/ /\ d = c /\ settled[d].outcome = o
                    /\ settled[d].answer = a
              /\ settled[d].by = ACallback <=> calls[d].by = ACallback
              /\ \/ settled[d].again = calls[d].again
                 \/ /\ d = c /\ c \in Async /\ calls[c].outcome = "open"
                    /\ settled[d].again
<1>1. calls \in Seq(CallType) /\ calls[c] \in CallType
  <2>1. calls \in Seq(CallType)
    BY DEF TypeOK, CallType, Outcomes
  <2>. QED
    BY <2>1 DEF CallNumbers
<1>2. CASE calls[c].outcome = "open"
  <2>1. PICK again \in Again(c) :
          settled = [calls EXCEPT ![c] = Call(calls[c].key, o, a, StillBy(c), again)]
    BY <1>2 DEF Settled
  <2>. DEFINE e == Call(calls[c].key, o, a, StillBy(c), again)
  <2>2. /\ StillBy(c) \in Threads \cup {NoThread, ACallback}
        /\ StillBy(c) = ACallback <=> calls[c].by = ACallback
            BY QueueAssumption DEF StillBy, Async, CallNumbers
  <2>7. /\ again \in BOOLEAN
        /\ again = calls[c].again \/ (c \in Async /\ again = TRUE)
    BY <1>1 DEF Again, CallType
  <2>3. /\ e \in CallType /\ e.key = calls[c].key /\ e.outcome = o /\ e.answer = a
        /\ e.by = ACallback <=> calls[c].by = ACallback
        /\ e.again = again
    BY <1>1, <2>2, <2>7 DEF Call, CallType
  <2>4. settled = [calls EXCEPT ![c] = e]
    BY <2>1
  <2>. HIDE DEF e
  <2>5. /\ settled \in Seq(CallType) /\ DOMAIN settled = CallNumbers
        /\ settled[c] = e
        /\ \A d \in CallNumbers \ {c} : settled[d] = calls[d]
    BY <1>1, <2>3, <2>4 DEF CallNumbers
  <2>6. settled[c].again = calls[c].again \/ (c \in Async /\ settled[c].again)
    BY <2>3, <2>5, <2>7
  <2>. QED
    BY <1>2, <2>3, <2>5, <2>6
<1>3. CASE calls[c].outcome # "open"
  BY <1>1, <1>3 DEF Settled, CallNumbers
<1>. QED
  BY <1>2, <1>3

\* The type of a queue, of the dictionary and of the workers, spelled out.
LEMMA TypesSpelled ==
  ASSUME TypeOK
  PROVE  /\ calls \in Seq(CallType) /\ queue \in Seq([key : Nat, request : CallNumbers])
         /\ DOMAIN queue = 1 .. Len(queue) /\ Len(queue) \in Nat
         /\ CallNumbers = 1 .. Len(calls) /\ Len(calls) \in Nat
         /\ \A i \in DOMAIN queue :
              queue[i].key \in Nat /\ queue[i].request \in CallNumbers
         /\ \A k \in DOMAIN pending : k \in Nat /\ pending[k] \in CallNumbers
<1>1. calls \in Seq(CallType) /\ queue \in Seq([key : Nat, request : CallNumbers])
  BY DEF TypeOK, CallType, Outcomes
<1>2. /\ DOMAIN queue = 1 .. Len(queue) /\ Len(queue) \in Nat
      /\ CallNumbers = 1 .. Len(calls) /\ Len(calls) \in Nat
  BY <1>1 DEF CallNumbers
<1>3. ASSUME NEW i \in DOMAIN queue
      PROVE  queue[i].key \in Nat /\ queue[i].request \in CallNumbers
  <2>1. queue[i] \in [key : Nat, request : CallNumbers]
    BY <1>1, <1>2, ElementOfSeq
  <2>. QED
    BY <2>1
<1>4. \A k \in DOMAIN pending : k \in Nat /\ pending[k] \in CallNumbers
  BY DEF TypeOK
<1>. QED
  BY <1>1, <1>2, <1>3, <1>4

----------------------------------------------------------------------------
(* The client.                                                             *)

\* A thread that takes the counter, or adds one to it, leaves the calls alone.
LEMMA NumberKeeps ==
  ASSUME IInv, NEW t \in Threads, Number(t) \/ Load(t)
  PROVE  IInv'
<1>1. TypeOK'
  <2>1. /\ sequence_number \in Nat
        /\ threads \in [Threads -> [at : {"idle", "numbered", "adding"},
                                    key : Nat, next : Nat]]
        /\ raced \in BOOLEAN
    BY DEF IInv, TypeOK
  <2>2. threads[t].key \in Nat
    BY <2>1
  <2>3. /\ threads' \in [Threads -> [at : {"idle", "numbered", "adding"},
                                     key : Nat, next : Nat]]
        /\ sequence_number' \in Nat /\ raced' \in BOOLEAN
    <3>1. /\ sequence_number' = sequence_number
          /\ raced' = (raced \/ Numbering # {}) \/ raced' = raced
      BY DEF Number, Load
    <3>2. sequence_number' \in Nat /\ raced' \in BOOLEAN
      BY <2>1, <3>1
    <3>3. PICK th \in [at : {"idle", "numbered", "adding"}, key : Nat, next : Nat] :
            threads' = [threads EXCEPT ![t] = th]
      <4>1. CASE Number(t)
        <5>1. [at |-> "numbered", key |-> sequence_number, next |-> 0]
                \in [at : {"idle", "numbered", "adding"}, key : Nat, next : Nat]
          BY <2>1
        <5>2. threads' = [threads EXCEPT ![t] =
                [at |-> "numbered", key |-> sequence_number, next |-> 0]]
          BY <4>1 DEF Number, Thread
        <5>. QED
          BY <5>1, <5>2
      <4>2. CASE Load(t)
        <5>1. [at |-> "adding", key |-> threads[t].key, next |-> sequence_number + 1]
                \in [at : {"idle", "numbered", "adding"}, key : Nat, next : Nat]
          BY <2>1, <2>2
        <5>2. threads' = [threads EXCEPT ![t] = [at |-> "adding",
                key |-> threads[t].key, next |-> sequence_number + 1]]
          BY <4>2 DEF Load, Thread
        <5>. QED
          BY <5>1, <5>2
      <4>. QED
        BY <4>1, <4>2
    <3>. QED
      BY <2>1, <3>2, <3>3
  <2>4. UNCHANGED <<settings, serverVars, calls, net>>
    BY DEF Number, Load
  <2>. QED
    BY <2>3, <2>4 DEF IInv, TypeOK, settings, serverVars, CallNumbers
<1>2. QueueInv' /\ OwnAnswers'
  BY DEF IInv, QueueInv, PendingIsOwed, Distinct, KeysFit, Arrived, OwnAnswers,
         PendingCalls, Queued, InHand, Working, At, CallNumbers, Number, Load,
         settings, serverVars
<1>3. NumberedInTurn' /\ NoDuplicates'
  <2>1. sequence_number \in Nat /\ threads \in [Threads ->
          [at : {"idle", "numbered", "adding"}, key : Nat, next : Nat]]
    BY DEF IInv, TypeOK
  <2>2. CASE Number(t)
    <3>1. /\ threads' = [threads EXCEPT ![t] =
                [at |-> "numbered", key |-> sequence_number, next |-> 0]]
          /\ UNCHANGED <<sequence_number, calls>>
          /\ raced' = (raced \/ Numbering # {})
      BY <2>1, <2>2 DEF Number, Thread
    <3>2. ~raced' => ~raced /\ Numbering' = {t}
      BY <2>1, <3>1 DEF Numbering
    <3>3. threads'[t].key = sequence_number /\ threads'[t].at = "numbered"
      BY <2>1, <3>1
    <3>. QED
      BY <3>1, <3>2, <3>3 DEF NumberedInTurn, NoDuplicates, CallNumbers, IInv
  <2>3. CASE Load(t)
    <3>1. /\ threads' = [threads EXCEPT ![t] =
                [at |-> "adding", key |-> threads[t].key,
                 next |-> sequence_number + 1]]
          /\ UNCHANGED <<sequence_number, calls, raced>>
          /\ t \in Numbering
      BY <2>1, <2>3 DEF Load, Numbering, Thread
    <3>2. Numbering' = Numbering
      BY <2>1, <3>1 DEF Numbering
    <3>. QED
      BY <2>1, <3>1, <3>2 DEF NumberedInTurn, NoDuplicates, CallNumbers, IInv
  <2>. QED
    BY <2>2, <2>3
<1>. QED
  BY <1>1, <1>2, <1>3 DEF IInv

\* A call that is sent is open, has its thread's key and is under way.
LEMMA SendKeeps ==
  ASSUME IInv, NEW t \in Threads, Send(t)
  PROVE  IInv'
<1>. DEFINE n == Len(calls) + 1
<1>0. TypeOK
  BY DEF IInv
<1>1. PICK by \in Threads \cup {NoThread, ACallback} :
        calls' = Append(calls, Call(threads[t].key, "open", 0, by, FALSE))
  BY DEF Send
<1>. DEFINE e == Call(threads[t].key, "open", 0, by, FALSE)
<1>2. e \in CallType /\ e.key = threads[t].key /\ e.outcome = "open"
  BY <1>0 DEF Call, CallType, Outcomes, TypeOK
<1>8. calls' = Append(calls, e) /\ calls \in Seq(CallType)
  BY <1>0, <1>1, TypesSpelled
<1>. HIDE DEF e
<1>3. /\ calls' \in Seq(CallType) /\ Len(calls') = n /\ n \in Nat
      /\ CallNumbers' = CallNumbers \cup {n} /\ n \notin CallNumbers
      /\ CallNumbers = 1 .. n - 1
      /\ \A c \in CallNumbers : calls'[c] = calls[c]
      /\ calls'[n] = e
  BY <1>2, <1>8 DEF CallNumbers
<1>. HIDE DEF n
<1>4. TypeOK'
  <2>1. net' \subseteq CallNumbers'
    BY <1>0, <1>3 DEF Send, TypeOK, n
  <2>2. /\ queue' \in Seq([key : Nat, request : CallNumbers'])
        /\ pending' \in [DOMAIN pending' -> CallNumbers']
        /\ abandoned' \subseteq CallNumbers'
    <3>1. queue' = queue /\ pending' = pending /\ abandoned' = abandoned
      BY DEF Send, serverVars
    <3>2. queue \in Seq([key : Nat, request : CallNumbers'])
      <4>1. queue \in Seq([key : Nat, request : CallNumbers])
        BY <1>0 DEF TypeOK
      <4>2. [key : Nat, request : CallNumbers]
              \subseteq [key : Nat, request : CallNumbers']
        BY <1>3
      <4>. HIDE DEF CallNumbers
      <4>. QED
        BY <4>1, <4>2, SeqMonotone
    <3>. QED
      BY <1>0, <1>3, <3>1, <3>2 DEF TypeOK
  <2>3. threads' \in [Threads -> [at : {"idle", "numbered", "adding"},
                                  key : Nat, next : Nat]]
        /\ sequence_number' \in Nat
    BY <1>0 DEF Send, TypeOK, Idle, Thread
  <2>. QED
    BY <1>0, <1>3, <2>1, <2>2, <2>3
    DEF Send, TypeOK, settings, serverVars, CallType, Outcomes
<1>5. QueueInv'
  <2>1. UNCHANGED <<queue, pending, workers, abandoned>>
    BY DEF Send, serverVars
  <2>2. PendingCalls \subseteq CallNumbers
    BY <1>0, TypesSpelled DEF PendingCalls
  <2>3. net' \subseteq net \cup {n}
    BY DEF Send, n
  <2>4. KeysFit'
    BY <1>0, <1>3, <2>1, TypesSpelled DEF IInv, QueueInv, KeysFit
  <2>5. Arrived'
    <3>1. PendingCalls' = PendingCalls /\ Arrived
      BY <2>1 DEF IInv, QueueInv, PendingCalls
    <3>. QED
      BY <1>3, <2>2, <2>3, <3>1 DEF Arrived
  <2>. QED
    BY <2>1, <2>4, <2>5
    DEF IInv, QueueInv, PendingIsOwed, Distinct, Queued, InHand, Working, At
<1>6. OwnAnswers' /\ NoDuplicates'
  <2>1. raced' = raced
    BY DEF Send
  <2>. QED
    BY <1>2, <1>3, <2>1 DEF IInv, OwnAnswers, NoDuplicates
<1>7. NumberedInTurn'
  <2>. SUFFICES ASSUME ~raced PROVE NumberedInTurn'
    BY DEF NumberedInTurn, Send
  <2>1. t \in Numbering /\ threads[t].at = "adding"
    BY DEF Send, Numbering
  <2>2. /\ Numbering = {t} /\ threads[t].key = sequence_number
        /\ threads[t].next = sequence_number + 1
        /\ \A c \in CallNumbers : calls[c].key < sequence_number
        /\ \A c, d \in CallNumbers : calls[c].key = calls[d].key => c = d
    BY <2>1 DEF IInv, NumberedInTurn
  <2>3. Numbering' = {} /\ sequence_number' = sequence_number + 1
    BY <1>0, <2>2 DEF Numbering, Send, TypeOK, Idle, Thread
  <2>4. ASSUME NEW c \in CallNumbers PROVE calls[c].key \in Nat
    <3>1. calls \in Seq(CallType) /\ CallNumbers = 1 .. Len(calls)
      BY <1>0, TypesSpelled
    <3>2. calls[c] \in CallType
      BY <3>1
    <3>. QED
      BY <3>2 DEF CallType
  <2>. QED
    <3>1. sequence_number \in Nat
      BY <1>0 DEF TypeOK
    <3>2. calls'[n].key = sequence_number
      BY <1>2, <1>3, <2>2
    <3>3. \A c \in CallNumbers' : calls'[c].key < sequence_number'
      BY <1>3, <2>2, <2>3, <2>4, <3>1, <3>2
    <3>4. ASSUME NEW c \in CallNumbers', NEW d \in CallNumbers',
                 calls'[c].key = calls'[d].key
          PROVE  c = d
      BY <1>3, <2>2, <2>4, <3>1, <3>2, <3>4
    <3>. QED
      BY <2>3, <3>3, <3>4 DEF NumberedInTurn
<1>. QED
  BY <1>4, <1>5, <1>6, <1>7 DEF IInv

----------------------------------------------------------------------------
(* Steps that settle a call and leave the queue alone.                     *)

\* A call is settled otherwise than by a response, or by its own.
LEMMA SettleKeeps ==
  ASSUME IInv, NEW c \in CallNumbers, NEW o \in Outcomes, NEW a \in Nat,
         calls' \in Settled(c, o, a), net' \subseteq net,
         o = "answered" => a = c,
         o = "duplicate" => raced,
         UNCHANGED <<settings, clientVars, serverVars>>
  PROVE  IInv'
<1>0. TypeOK
  BY DEF IInv
<1>1. /\ calls' \in Seq(CallType) /\ CallNumbers' = CallNumbers
      /\ \A d \in CallNumbers :
           /\ calls'[d].key = calls[d].key
           /\ \/ calls'[d].outcome = calls[d].outcome
                 /\ calls'[d].answer = calls[d].answer
              \/ d = c /\ calls'[d].outcome = o /\ calls'[d].answer = a
  BY <1>0, SettledCalls DEF CallNumbers
<1>2. TypeOK'
  BY <1>0, <1>1 DEF TypeOK, settings, clientVars, serverVars, CallType, Outcomes
<1>3. QueueInv'
  <2>1. UNCHANGED <<queue, pending, workers, abandoned>>
    BY DEF serverVars
  <2>3. KeysFit'
    <3>1. \A k \in DOMAIN pending : pending[k] \in CallNumbers
      BY <1>0, TypesSpelled
    <3>2. KeysFit
      BY DEF IInv, QueueInv
    <3>. QED
      BY <1>1, <2>1, <3>1, <3>2 DEF KeysFit
  <2>4. Arrived'
    <3>1. PendingCalls' = PendingCalls /\ Arrived
      BY <2>1 DEF IInv, QueueInv, PendingCalls
    <3>. QED
      BY <3>1 DEF Arrived
  <2>. QED
    BY <2>1, <2>3, <2>4 DEF IInv, QueueInv, PendingIsOwed, Distinct, Queued, InHand,
                      Working, At
<1>4. OwnAnswers' /\ NoDuplicates'
  BY <1>1 DEF IInv, OwnAnswers, NoDuplicates, clientVars
<1>5. NumberedInTurn'
  BY <1>1 DEF IInv, NumberedInTurn, Numbering, clientVars
<1>. QED
  BY <1>2, <1>3, <1>4, <1>5 DEF IInv

\* Nobody is refused as a duplicate while calls are numbered in turn: a pending
\* query of the same key would be the call itself, which has only now arrived.
LEMMA NoFalseDuplicate ==
  ASSUME IInv, NEW c \in CallNumbers, Duplicate(c)
  PROVE  raced
<1>. SUFFICES ASSUME ~raced PROVE FALSE
  OBVIOUS
<1>. DEFINE k == calls[c].key
<1>1. k \in DOMAIN pending /\ c \in net
  BY DEF Duplicate, IsDuplicate, Arrives
<1>2. pending[k] \in CallNumbers /\ calls[pending[k]].key = k
  BY <1>1, TypesSpelled DEF IInv, QueueInv, KeysFit
<1>3. pending[k] = c
  BY <1>2 DEF IInv, NumberedInTurn
<1>. QED
  BY <1>1, <1>3 DEF IInv, QueueInv, Arrived, PendingCalls

----------------------------------------------------------------------------
(* The queue and its workers.                                              *)

\* What a worker's step leaves of the workers.
LEMMA BecomeOne ==
  ASSUME TypeOK, NEW w \in Workers, NEW at \in {"out", "wait", "woken", "work"},
         NEW e \in EntryType, workers' = Become(w, at, e)
  PROVE  /\ workers' \in [Workers -> [at : {"out", "wait", "woken", "work"},
                                      entry : EntryType]]
         /\ workers'[w].at = at /\ workers'[w].entry = e
         /\ \A v \in Workers \ {w} : workers'[v] = workers[v]
<1>1. workers \in [Workers -> [at : {"out", "wait", "woken", "work"},
                              entry : EntryType]]
  BY DEF TypeOK, EntryType
<1>2. [at |-> at, entry |-> e]
        \in [at : {"out", "wait", "woken", "work"}, entry : EntryType]
  OBVIOUS
<1>. QED
  BY <1>1, <1>2 DEF Become

LEMMA NoEntryType == NoEntry \in EntryType
BY DEF NoEntry, Entry, EntryType

\* A step of a worker that holds nothing before or after it.
LEMMA IdleKeeps ==
  ASSUME IInv, NEW w \in Workers, Wait(w) \/ Expire(w) \/ GiveUp(w)
  PROVE  IInv'
<1>0. TypeOK
  BY DEF IInv
<1>1. PICK at \in {"out", "wait", "woken"} : workers' = Become(w, at, NoEntry)
  BY DEF Wait, Expire, GiveUp
<1>2. /\ w \notin Working
      /\ UNCHANGED <<settings, clientVars, calls, net, queue, pending, abandoned>>
  BY DEF Wait, Expire, GiveUp, Working
<1>3. /\ workers' \in [Workers -> [at : {"out", "wait", "woken", "work"},
                                   entry : EntryType]]
      /\ workers'[w].at = at
      /\ \A v \in Workers \ {w} : workers'[v] = workers[v]
  BY <1>0, <1>1, BecomeOne, NoEntryType
<1>4. Working' = Working /\ \A v \in Working : workers'[v] = workers[v]
  BY <1>2, <1>3 DEF Working, At
<1>5. TypeOK'
  BY <1>0, <1>2, <1>3
  DEF TypeOK, settings, clientVars, CallNumbers, EntryType
<1>6. QueueInv'
  BY <1>2, <1>4
  DEF IInv, QueueInv, PendingIsOwed, Distinct, KeysFit, Arrived, PendingCalls,
      Queued, InHand
<1>7. OwnAnswers' /\ NoDuplicates' /\ NumberedInTurn'
  BY <1>2 DEF IInv, OwnAnswers, NoDuplicates, NumberedInTurn, Numbering,
              CallNumbers, clientVars
<1>. QED
  BY <1>5, <1>6, <1>7 DEF IInv

\* The oldest request goes from the queue into a worker's hands.
LEMMA TakeKeeps ==
  ASSUME IInv, NEW w \in Workers, Take(w)
  PROVE  IInv'
<1>0. TypeOK
  BY DEF IInv
<1>. DEFINE ET == [key : Nat, request : CallNumbers]
            h == Head(queue)
<1>1. /\ queue # << >> /\ queue' = Tail(queue) /\ w \notin Working
      /\ workers' = Become(w, "work", h)
      /\ UNCHANGED <<settings, clientVars, calls, net, pending, abandoned>>
  BY DEF Take, Working
<1>2. queue \in Seq(ET)
  BY <1>0, TypesSpelled
<1>3. /\ DOMAIN queue = 1 .. Len(queue) /\ Len(queue) \in Nat \ {0}
      /\ queue' \in Seq(ET) /\ h = queue[1] /\ h \in ET
      /\ DOMAIN queue' = 1 .. Len(queue) - 1
      /\ \A i \in DOMAIN queue' : i + 1 \in DOMAIN queue /\ queue'[i] = queue[i + 1]
  <2>. HIDE DEF ET
  <2>. QED
    BY <1>1, <1>2
<1>4. h \in EntryType
  BY <1>0, <1>3, TypesSpelled DEF EntryType
<1>. HIDE DEF h, ET
<1>5. /\ workers' \in [Workers -> [at : {"out", "wait", "woken", "work"},
                                   entry : EntryType]]
      /\ workers'[w].at = "work" /\ workers'[w].entry = h
      /\ \A v \in Workers \ {w} : workers'[v] = workers[v]
  BY <1>0, <1>1, <1>4, BecomeOne
<1>6. Working' = Working \cup {w} /\ \A v \in Working : workers'[v] = workers[v]
  BY <1>1, <1>5 DEF Working, At
<1>7. TypeOK'
  BY <1>0, <1>1, <1>3, <1>5
  DEF TypeOK, settings, clientVars, CallNumbers, EntryType, ET
<1>8. /\ \A i \in DOMAIN queue' : queue'[i].request # h.request
      /\ \A v \in Working : workers[v].entry.request # h.request
      /\ 1 \in DOMAIN queue
  BY <1>3 DEF IInv, QueueInv, Distinct
<1>9. PendingIsOwed'
  <2>1. \A i \in DOMAIN queue' : /\ queue'[i].key \in DOMAIN pending'
                                 /\ pending'[queue'[i].key] = queue'[i].request
    BY <1>1, <1>3 DEF IInv, QueueInv, PendingIsOwed
  <2>2. \A v \in Working' :
          /\ workers'[v].entry.key \in DOMAIN pending'
          /\ pending'[workers'[v].entry.key] = workers'[v].entry.request
    BY <1>1, <1>3, <1>5, <1>6, <1>8 DEF IInv, QueueInv, PendingIsOwed
  <2>3. Queued \subseteq Queued' \cup {h.request}
    <3>1. ASSUME NEW i \in DOMAIN queue
          PROVE  queue[i].request \in Queued' \cup {h.request}
      <4>1. CASE i = 1
        BY <1>3, <4>1
      <4>2. CASE i # 1
        <5>1. i - 1 \in DOMAIN queue' /\ queue'[i - 1] = queue[i]
          BY <1>3, <4>2
        <5>. QED
          BY <5>1 DEF Queued
      <4>. QED
        BY <4>1, <4>2
    <3>. QED
      BY <3>1 DEF Queued
  <2>4. Queued' \cup {h.request} \subseteq Queued
    BY <1>3, <1>8 DEF Queued
  <2>5. InHand' = InHand \cup {h.request}
    BY <1>5, <1>6 DEF InHand
  <2>6. {pending'[k] : k \in DOMAIN pending'} = Queued' \cup InHand' \cup abandoned'
    BY <1>1, <2>3, <2>4, <2>5 DEF IInv, QueueInv, PendingIsOwed
  <2>. QED
    BY <2>1, <2>2, <2>6 DEF PendingIsOwed
<1>10. Distinct'
  <2>1. Distinct
    BY DEF IInv, QueueInv
  <2>2. \A i, j \in DOMAIN queue' : queue'[i].request = queue'[j].request => i = j
    <3>1. ASSUME NEW i \in DOMAIN queue', NEW j \in DOMAIN queue',
                 queue'[i].request = queue'[j].request
          PROVE  i = j
      <4>1. i + 1 = j + 1
        BY <1>3, <2>1, <3>1 DEF Distinct
      <4>. QED
        BY <1>3, <4>1
    <3>. QED
      BY <3>1
  <2>3. \A u, v \in Working' :
          workers'[u].entry.request = workers'[v].entry.request => u = v
    BY <1>5, <1>6, <1>8, <2>1 DEF Distinct
  <2>4. \A i \in DOMAIN queue' : \A v \in Working' :
          queue'[i].request # workers'[v].entry.request
    BY <1>3, <1>5, <1>6, <1>8, <2>1 DEF Distinct
  <2>5. /\ \A i \in DOMAIN queue' : queue'[i].request \notin abandoned'
        /\ \A v \in Working' : workers'[v].entry.request \notin abandoned'
    BY <1>1, <1>3, <1>5, <1>6, <1>8, <2>1 DEF Distinct
  <2>. QED
    BY <2>2, <2>3, <2>4, <2>5 DEF Distinct
<1>11. KeysFit' /\ Arrived'
  BY <1>1 DEF IInv, QueueInv, KeysFit, Arrived, PendingCalls
<1>12. OwnAnswers' /\ NoDuplicates' /\ NumberedInTurn'
  BY <1>1 DEF IInv, OwnAnswers, NoDuplicates, NumberedInTurn, Numbering,
              CallNumbers, clientVars
<1>. QED
  BY <1>7, <1>9, <1>10, <1>11, <1>12 DEF IInv, QueueInv

\* A new request goes to the end of the queue, after the oldest ones were
\* dropped with their queries.
LEMMA EnqueueKeeps ==
  ASSUME IInv, NEW c \in CallNumbers, Enqueue(c)
  PROVE  IInv'
<1>0. TypeOK /\ QueueInv /\ Distinct /\ PendingIsOwed
  BY DEF IInv, QueueInv
<1>. DEFINE ET == [key : Nat, request : CallNumbers]
            key == calls[c].key
            e == Entry(key, c)
            D == Dropped
            n == Len(queue) - D + 1
<1>1. /\ c \in net /\ net' = net \ {c} /\ key \notin DOMAIN pending
      /\ queue' = Append(SubSeq(queue, D + 1, Len(queue)), e)
      /\ pending' = [k \in Kept \cup {key} |-> IF k = key THEN c ELSE pending[k]]
      /\ workers' \in Notified
      /\ UNCHANGED <<settings, clientVars, abandoned, calls>>
  BY DEF Enqueue, Arrives, IsDuplicate
<1>2. /\ queue \in Seq(ET) /\ Len(queue) \in Nat
      /\ DOMAIN queue = 1 .. Len(queue)
  BY <1>0, TypesSpelled
<1>3. D \in 0 .. Len(queue)
  BY <1>0, <1>2 DEF Dropped, TypeOK
<1>4. key \in Nat /\ e \in ET /\ e.key = key /\ e.request = c /\ c \in Nat
  <2>1. calls \in Seq(CallType) /\ CallNumbers = 1 .. Len(calls)
    BY <1>0, TypesSpelled
  <2>2. calls[c] \in CallType
    BY <2>1
  <2>. QED
    BY <2>1, <2>2 DEF CallType, Entry
<1>. HIDE DEF ET, key, e, D
<1>5. /\ queue' \in Seq(ET) /\ n \in Nat \ {0} /\ DOMAIN queue' = 1 .. n
      /\ \A i \in 1 .. n - 1 : i + D \in DOMAIN queue /\ queue'[i] = queue[i + D]
      /\ queue'[n] = e
  <2>. DEFINE q == SubSeq(queue, D + 1, Len(queue))
  <2>1. /\ q \in Seq(ET) /\ Len(q) = n - 1
        /\ \A i \in 1 .. n - 1 : q[i] = queue[i + D]
    BY <1>2, <1>3, SubSeqProperties
  <2>2. queue' = Append(q, e)
    BY <1>1
  <2>. HIDE DEF q
  <2>. QED
    BY <1>2, <1>3, <1>4, <2>1, <2>2
<1>6. /\ workers' \in [Workers -> [at : {"out", "wait", "woken", "work"},
                                   entry : EntryType]]
      /\ Working' = Working /\ \A w \in Working : workers'[w] = workers[w]
  <2>1. CASE workers' = workers
    BY <1>0, <2>1 DEF TypeOK, Working, At, EntryType
  <2>2. CASE workers' # workers
    <3>1. PICK w \in Waiting : workers' = Become(w, "woken", NoEntry)
      BY <1>1, <2>2 DEF Notified
    <3>2. w \in Workers \ Working
      BY DEF Waiting, Working
    <3>3. /\ workers' \in [Workers -> [at : {"out", "wait", "woken", "work"},
                                       entry : EntryType]]
          /\ workers'[w].at = "woken"
          /\ \A v \in Workers \ {w} : workers'[v] = workers[v]
      BY <1>0, <3>1, <3>2, BecomeOne, NoEntryType
    <3>. QED
      BY <3>2, <3>3 DEF Working, At
  <2>. QED
    BY <2>1, <2>2
<1>7. /\ Kept \subseteq DOMAIN pending /\ DOMAIN pending' = Kept \cup {key}
      /\ pending'[key] = c /\ \A k \in Kept : pending'[k] = pending[k]
      /\ \A k \in DOMAIN pending \ Kept :
           \E i \in 1 .. D : i \in DOMAIN queue /\ k = queue[i].key
      /\ \A i \in 1 .. D : queue[i].key \notin Kept
  BY <1>1, <1>2, <1>3 DEF Kept, D
<1>8. TypeOK'
  <2>1. CallNumbers' = CallNumbers
    BY <1>1 DEF CallNumbers
  <2>2. queue' \in Seq([key : Nat, request : CallNumbers'])
    BY <1>5, <2>1 DEF ET
  <2>3. /\ DOMAIN pending' \subseteq Nat
        /\ pending' \in [DOMAIN pending' -> CallNumbers']
    BY <1>0, <1>1, <1>4, <1>7, <2>1 DEF TypeOK
  <2>. QED
    BY <1>0, <1>1, <1>6, <2>1, <2>2, <2>3
    DEF TypeOK, settings, clientVars, EntryType
\* The request is new, wherever one looks.
<1>9. /\ \A i \in DOMAIN queue : queue[i].request # c
      /\ \A w \in Working : workers[w].entry.request # c
      /\ c \notin abandoned
  <2>1. c \notin PendingCalls
    BY <1>0, <1>1 DEF QueueInv, Arrived
  <2>. QED
    BY <1>0, <2>1 DEF PendingIsOwed, PendingCalls, Queued, InHand
\* Who stays in the queue or in a worker's hands keeps the query.
<1>10. \A i \in 1 .. n - 1 : queue'[i].key \in Kept
  <2>1. ASSUME NEW i \in 1 .. n - 1, queue'[i].key \notin Kept PROVE FALSE
    <3>1. PICK j \in 1 .. D : j \in DOMAIN queue /\ queue[i + D].key = queue[j].key
      BY <1>0, <1>5, <1>7, <2>1 DEF PendingIsOwed
    <3>2. queue[i + D].request = queue[j].request
      BY <1>0, <1>5, <3>1 DEF PendingIsOwed
    <3>3. i + D = j
      BY <1>0, <1>5, <3>1, <3>2 DEF Distinct
    <3>. QED
      BY <1>3, <1>5, <3>3
  <2>. QED
    BY <2>1
<1>11. \A w \in Working : workers[w].entry.key \in Kept
  <2>1. ASSUME NEW w \in Working, workers[w].entry.key \notin Kept PROVE FALSE
    <3>1. PICK j \in 1 .. D :
            j \in DOMAIN queue /\ workers[w].entry.key = queue[j].key
      BY <1>0, <1>7, <2>1 DEF PendingIsOwed
    <3>. QED
      BY <1>0, <3>1 DEF PendingIsOwed, Distinct
  <2>. QED
    BY <2>1
<1>12. PendingIsOwed'
  <2>1. ASSUME NEW i \in DOMAIN queue'
        PROVE  /\ queue'[i].key \in DOMAIN pending'
               /\ pending'[queue'[i].key] = queue'[i].request
    <3>1. CASE i = n
      BY <1>4, <1>5, <1>7, <3>1
    <3>2. CASE i # n
      <4>1. i \in 1 .. n - 1
        BY <1>5, <3>2
      <4>. QED
        BY <1>0, <1>5, <1>7, <1>10, <4>1 DEF PendingIsOwed
    <3>. QED
      BY <3>1, <3>2
  <2>2. \A w \in Working' :
          /\ workers'[w].entry.key \in DOMAIN pending'
          /\ pending'[workers'[w].entry.key] = workers'[w].entry.request
    BY <1>0, <1>6, <1>7, <1>11 DEF PendingIsOwed
  <2>3. InHand' = InHand /\ abandoned' = abandoned
    BY <1>1, <1>6 DEF InHand
  <2>4. ASSUME NEW k \in DOMAIN pending'
        PROVE  pending'[k] \in Queued' \cup InHand' \cup abandoned'
    <3>1. CASE k = key
      BY <1>4, <1>5, <1>7, <3>1 DEF Queued
    <3>2. CASE k # key
      <4>1. k \in Kept /\ k \in DOMAIN pending /\ pending'[k] = pending[k]
        BY <1>7, <3>2
      <4>2. CASE pending[k] \in Queued
        <5>1. PICK i \in DOMAIN queue : pending[k] = queue[i].request
          BY <4>2 DEF Queued
        <5>2. queue[i].key = k
          <6>1. queue[i].key \in DOMAIN pending
                /\ pending[queue[i].key] = pending[k]
            BY <1>0, <5>1 DEF PendingIsOwed
          <6>. QED
            BY <1>0, <4>1, <6>1 DEF QueueInv, KeysFit
        <5>3. i \notin 1 .. D
          BY <1>7, <4>1, <5>2
        <5>4. i - D \in 1 .. n - 1 /\ (i - D) + D = i
          BY <1>2, <1>3, <5>3
        <5>5. i - D \in DOMAIN queue' /\ queue'[i - D] = queue[i]
          BY <1>5, <5>4
        <5>. QED
          BY <4>1, <5>1, <5>5 DEF Queued
      <4>3. CASE pending[k] \notin Queued
        BY <1>0, <2>3, <4>1, <4>3 DEF PendingIsOwed
      <4>. QED
        BY <4>2, <4>3
    <3>. QED
      BY <3>1, <3>2
  <2>5. ASSUME NEW x \in abandoned
        PROVE  \E k \in DOMAIN pending' : pending'[k] = x
    <3>1. PICK k \in DOMAIN pending : pending[k] = x
      BY <1>0 DEF PendingIsOwed
    <3>2. k \in Kept
      <4>1. ASSUME NEW i \in DOMAIN queue, k = queue[i].key PROVE FALSE
        BY <1>0, <3>1, <4>1 DEF PendingIsOwed, Distinct
      <4>. QED
        BY <1>7, <4>1
    <3>. QED
      BY <1>7, <3>1, <3>2
  <2>6. \A x \in Queued' \cup InHand' :
          \E k \in DOMAIN pending' : pending'[k] = x
    BY <2>1, <2>2 DEF Queued, InHand
  <2>7. {pending'[k] : k \in DOMAIN pending'} = Queued' \cup InHand' \cup abandoned'
    BY <2>3, <2>4, <2>5, <2>6
  <2>. QED
    BY <2>1, <2>2, <2>7 DEF PendingIsOwed
<1>13. Distinct'
  <2>1. ASSUME NEW i \in DOMAIN queue', i # n
        PROVE  /\ i \in 1 .. n - 1 /\ i + D \in DOMAIN queue
               /\ queue'[i] = queue[i + D]
    BY <1>5, <2>1
  <2>2. queue'[n].request = c
    BY <1>4, <1>5
  <2>3. ASSUME NEW i \in DOMAIN queue', NEW j \in DOMAIN queue',
               queue'[i].request = queue'[j].request
        PROVE  i = j
    <3>1. CASE i = n \/ j = n
      BY <1>9, <2>1, <2>2, <2>3, <3>1
    <3>2. CASE i # n /\ j # n
      <4>1. i + D = j + D
        BY <1>0, <2>1, <2>3, <3>2 DEF Distinct
      <4>. QED
        BY <1>3, <1>5, <4>1
    <3>. QED
      BY <3>1, <3>2
  <2>4. \A i \in DOMAIN queue' : \A w \in Working' :
          queue'[i].request # workers'[w].entry.request
    BY <1>0, <1>6, <1>9, <2>1, <2>2 DEF Distinct
  <2>5. \A i \in DOMAIN queue' : queue'[i].request \notin abandoned'
    BY <1>0, <1>1, <1>9, <2>1, <2>2 DEF Distinct
  <2>6. /\ \A u, v \in Working' :
             workers'[u].entry.request = workers'[v].entry.request => u = v
        /\ \A v \in Working' : workers'[v].entry.request \notin abandoned'
    <3>1. abandoned' = abandoned
      BY <1>1
    <3>2. /\ \A u, v \in Working :
               workers[u].entry.request = workers[v].entry.request => u = v
          /\ \A v \in Working : workers[v].entry.request \notin abandoned
      BY <1>0 DEF Distinct
    <3>. QED
      BY ONLY <1>6, <3>1, <3>2
  <2>. QED
    BY <2>3, <2>4, <2>5, <2>6 DEF Distinct
<1>14. KeysFit' /\ Arrived'
  <2>1. KeysFit'
    <3>1. ASSUME NEW k \in DOMAIN pending' PROVE calls'[pending'[k]].key = k
      <4>1. CASE k = key
        BY <1>1, <1>7, <4>1 DEF key
      <4>2. CASE k # key
        BY <1>0, <1>1, <1>7, <4>2 DEF QueueInv, KeysFit
      <4>. QED
        BY <4>1, <4>2
    <3>. QED
      BY <3>1 DEF KeysFit
  <2>2. PendingCalls' \subseteq PendingCalls \cup {c}
    BY <1>7 DEF PendingCalls
  <2>. QED
    BY <1>0, <1>1, <2>1, <2>2 DEF QueueInv, Arrived
<1>15. OwnAnswers' /\ NoDuplicates' /\ NumberedInTurn'
  BY <1>1 DEF IInv, OwnAnswers, NoDuplicates, NumberedInTurn, Numbering,
              CallNumbers, clientVars
<1>. QED
  BY <1>8, <1>12, <1>13, <1>14, <1>15 DEF IInv, QueueInv

\* A response, or a failure of the user's code, takes the request out of the
\* worker's hands; with a response the query goes too.
LEMMA DoneKeeps ==
  ASSUME IInv, NEW w \in Workers, SendResponse(w) \/ Abandon(w)
  PROVE  IInv'
<1>0. TypeOK /\ QueueInv /\ Distinct /\ PendingIsOwed
  BY DEF IInv, QueueInv
<1>. DEFINE key == workers[w].entry.key
            rq == workers[w].entry.request
<1>1. /\ w \in Working /\ workers' = Become(w, "out", NoEntry)
      /\ key \in DOMAIN pending /\ pending[key] = rq
      /\ UNCHANGED <<settings, clientVars, net, queue>>
  BY <1>0 DEF SendResponse, Abandon, Working, PendingIsOwed
<1>2. /\ workers' \in [Workers -> [at : {"out", "wait", "woken", "work"},
                                   entry : EntryType]]
      /\ Working' = Working \ {w}
      /\ \A v \in Working \ {w} : workers'[v] = workers[v]
  <2>1. /\ workers' \in [Workers -> [at : {"out", "wait", "woken", "work"},
                                     entry : EntryType]]
        /\ workers'[w].at = "out"
        /\ \A v \in Workers \ {w} : workers'[v] = workers[v]
    BY <1>0, <1>1, BecomeOne, NoEntryType
  <2>. QED
    BY <2>1 DEF Working, At
<1>3. rq \in CallNumbers /\ rq \in Nat
  BY <1>0, <1>1, TypesSpelled
\* Every other pending call has another key and another place.
<1>4. /\ \A i \in DOMAIN queue : queue[i].request # rq /\ queue[i].key # key
      /\ \A v \in Working \ {w} : /\ workers[v].entry.request # rq
                                 /\ workers[v].entry.key # key
      /\ rq \notin abandoned
      /\ \A k \in DOMAIN pending : pending[k] = rq => k = key
  BY <1>0, <1>1 DEF Distinct, PendingIsOwed, QueueInv, KeysFit
<1>5. Queued' = Queued /\ InHand' = InHand \ {rq}
  BY <1>1, <1>2, <1>4 DEF Queued, InHand
<1>. HIDE DEF key, rq
<1>6. CASE SendResponse(w)
  <2>1. /\ pending' = [k \in DOMAIN pending \ {key} |-> pending[k]]
        /\ calls' \in Settled(rq, "answered", rq) \/ calls' = calls
        /\ abandoned' = abandoned
    BY <1>1, <1>6 DEF SendResponse, key, rq
  <2>2. /\ calls' \in Seq(CallType) /\ CallNumbers' = CallNumbers
        /\ \A d \in CallNumbers :
             /\ calls'[d].key = calls[d].key
             /\ \/ calls'[d].outcome = calls[d].outcome
                   /\ calls'[d].answer = calls[d].answer
                \/ d = rq /\ calls'[d].outcome = "answered" /\ calls'[d].answer = rq
    <3>1. CASE calls' \in Settled(rq, "answered", rq)
      BY <1>0, <1>3, <3>1, SettledCalls DEF CallNumbers, Outcomes
    <3>2. CASE calls' = calls
      BY <1>0, <3>2 DEF TypeOK, CallNumbers, CallType, Outcomes
    <3>. QED
      BY <2>1, <3>1, <3>2
  <2>3. TypeOK'
    <3>1. /\ DOMAIN pending' \subseteq Nat
          /\ pending' \in [DOMAIN pending' -> CallNumbers]
      BY <1>0, <2>1 DEF TypeOK
    <3>. QED
      BY <1>0, <1>1, <1>2, <2>1, <2>2, <3>1
      DEF TypeOK, settings, clientVars, CallType, Outcomes, EntryType
  <2>4. PendingIsOwed'
    <3>1. {pending'[k] : k \in DOMAIN pending'} =
            {pending[k] : k \in DOMAIN pending} \ {rq}
      <4>1. /\ DOMAIN pending' = DOMAIN pending \ {key}
            /\ \A k \in DOMAIN pending \ {key} : pending'[k] = pending[k]
        BY <2>1
      <4>2. /\ pending[key] = rq
            /\ \A k \in DOMAIN pending : pending[k] = rq => k = key
        BY <1>1, <1>4
      <4>. QED
        BY <4>1, <4>2
    <3>2. {pending'[k] : k \in DOMAIN pending'} =
            Queued' \cup InHand' \cup abandoned'
      <4>1. rq \notin Queued
        BY <1>4 DEF Queued
      <4>. QED
        BY <1>0, <1>4, <1>5, <2>1, <3>1, <4>1 DEF PendingIsOwed
    <3>. QED
      BY <1>0, <1>1, <1>2, <1>4, <2>1, <3>2 DEF PendingIsOwed
  <2>5. Distinct'
    BY <1>0, <1>1, <1>2, <2>1 DEF Distinct
  <2>6. KeysFit' /\ Arrived'
    <3>1. /\ DOMAIN pending' \subseteq DOMAIN pending
          /\ \A k \in DOMAIN pending' :
               pending'[k] = pending[k] /\ pending[k] \in CallNumbers
      BY <1>0, <2>1, TypesSpelled
    <3>2. PendingCalls' \subseteq PendingCalls
      BY <3>1 DEF PendingCalls
    <3>. QED
      BY <1>0, <1>1, <2>2, <3>1, <3>2 DEF QueueInv, KeysFit, Arrived
  <2>7. OwnAnswers' /\ NoDuplicates'
    BY <1>1, <2>2 DEF IInv, OwnAnswers, NoDuplicates, clientVars
  <2>8. NumberedInTurn'
    BY <1>1, <2>2 DEF IInv, NumberedInTurn, Numbering, clientVars
  <2>. QED
    BY <2>3, <2>4, <2>5, <2>6, <2>7, <2>8 DEF IInv, QueueInv
<1>7. CASE Abandon(w)
  <2>1. abandoned' = abandoned \cup {rq} /\ UNCHANGED <<pending, calls>>
    BY <1>7 DEF Abandon, rq
  <2>2. TypeOK'
    BY <1>0, <1>1, <1>2, <1>3, <2>1
    DEF TypeOK, settings, clientVars, CallNumbers, EntryType
  <2>3. PendingIsOwed'
    <3>1. rq \in InHand
      BY <1>1 DEF InHand, rq
    <3>2. {pending'[k] : k \in DOMAIN pending'} =
            Queued' \cup InHand' \cup abandoned'
      BY <1>0, <1>5, <2>1, <3>1 DEF PendingIsOwed
    <3>. QED
      BY <1>0, <1>1, <1>2, <2>1, <3>2 DEF PendingIsOwed
  <2>4. Distinct'
    BY <1>0, <1>1, <1>2, <1>4, <2>1 DEF Distinct
  <2>5. KeysFit' /\ Arrived'
    BY <1>0, <1>1, <2>1 DEF QueueInv, KeysFit, Arrived, PendingCalls
  <2>6. OwnAnswers' /\ NoDuplicates' /\ NumberedInTurn'
    BY <1>1, <2>1 DEF IInv, OwnAnswers, NoDuplicates, NumberedInTurn, Numbering,
                      CallNumbers, clientVars
  <2>. QED
    BY <2>2, <2>3, <2>4, <2>5, <2>6 DEF IInv, QueueInv
<1>. QED
  BY <1>6, <1>7

----------------------------------------------------------------------------
(* The inductive invariant.                                                *)

LEMMA Initially == Init => IInv
<1>. SUFFICES ASSUME Init PROVE IInv
  OBVIOUS
<1>1. /\ calls = << >> /\ queue = << >> /\ pending = << >> /\ net = {}
      /\ abandoned = {} /\ DOMAIN calls = {} /\ DOMAIN queue = {}
      /\ DOMAIN pending = {} /\ Working = {} /\ Numbering = {}
  BY DEF Init, Working, Numbering, At, Idle, Thread
<1>2. TypeOK
  <2>1. /\ threads \in [Threads -> [at : {"idle", "numbered", "adding"},
                                    key : Nat, next : Nat]]
        /\ workers \in [Workers -> [at : {"out", "wait", "woken", "work"},
                                    entry : [key : Nat, request : Nat]]]
    BY DEF Init, Idle, Thread, NoEntry, Entry
  <2>2. pending \in [DOMAIN pending -> CallNumbers]
    BY <1>1
  <2>3. calls \in Seq([key : Nat, answer : Nat, by : Threads \cup {NoThread, ACallback},
                     again : BOOLEAN,
                      outcome : {"open", "answered", "error", "duplicate", "timeout"}])
        /\ queue \in Seq([key : Nat, request : CallNumbers])
    BY <1>1
  <2>4. /\ mode \in {"queue", "callback"} /\ depth \in Nat /\ sequence_number \in Nat
        /\ ready \in BOOLEAN /\ closed \in BOOLEAN /\ raced \in BOOLEAN
    BY QueueAssumption DEF Init
  <2>. QED
    BY <1>1, <2>1, <2>2, <2>3, <2>4 DEF TypeOK
<1>3. QueueInv /\ OwnAnswers /\ NumberedInTurn /\ NoDuplicates
  BY <1>1 DEF QueueInv, PendingIsOwed, Distinct, KeysFit, Arrived, PendingCalls,
              Queued, InHand, OwnAnswers, NumberedInTurn, NoDuplicates, CallNumbers
<1>. QED
  BY <1>2, <1>3 DEF IInv

LEMMA Invariance == IInv /\ [Next]_vars => IInv'
<1>. SUFFICES ASSUME IInv, [Next]_vars PROVE IInv'
  OBVIOUS
<1>1. ASSUME NEW t \in Threads, Number(t) \/ Load(t) \/ Send(t) PROVE IInv'
  BY <1>1, NumberKeeps, SendKeeps
<1>2. ASSUME NEW c \in DOMAIN calls,
             Timeout(c) \/ Callback(c) \/ TooEarly(c) \/ Duplicate(c) \/ Enqueue(c)
      PROVE  IInv'
  <2>1. c \in CallNumbers /\ c \in Nat
    <3>1. CallNumbers = 1 .. Len(calls)
      BY TypesSpelled DEF IInv
    <3>. QED
      BY <3>1 DEF CallNumbers
  <2>2. CASE Enqueue(c)
    BY <2>1, <2>2, EnqueueKeeps
  <2>3. CASE Timeout(c)
    BY <2>1, <2>3, SettleKeeps DEF Timeout, Outcomes
  <2>4. CASE Callback(c)
    BY <2>1, <2>4, SettleKeeps DEF Callback, Arrives, Outcomes
  <2>5. CASE TooEarly(c)
    BY <2>1, <2>5, SettleKeeps DEF TooEarly, Arrives, Outcomes
  <2>6. CASE Duplicate(c)
    BY <2>1, <2>6, SettleKeeps, NoFalseDuplicate DEF Duplicate, Arrives, Outcomes
  <2>. QED
    BY <1>2, <2>2, <2>3, <2>4, <2>5, <2>6
<1>3. ASSUME NEW w \in Workers,
             \/ Take(w) \/ Wait(w) \/ Expire(w) \/ GiveUp(w)
             \/ SendResponse(w) \/ Abandon(w)
      PROVE  IInv'
  BY <1>3, TakeKeeps, IdleKeeps, DoneKeeps
<1>4. ASSUME \/ MakeQueue \/ Close \/ Over \/ UNCHANGED vars
      PROVE  IInv'
  <2>1. /\ UNCHANGED <<clientVars, serverVars, calls, mode, depth>>
        /\ net' \subseteq net
    BY <1>4 DEF MakeQueue, Close, Over, vars, settings
  <2>2. ready' \in BOOLEAN /\ closed' \in BOOLEAN
    BY <1>4 DEF IInv, TypeOK, MakeQueue, Close, Over, vars, settings
  <2>3. TypeOK'
    BY <2>1, <2>2 DEF IInv, TypeOK, clientVars, serverVars, CallNumbers
  <2>4. QueueInv'
    BY <2>1 DEF IInv, QueueInv, PendingIsOwed, Distinct, KeysFit, Arrived,
                PendingCalls, Queued, InHand, Working, At, serverVars
  <2>5. OwnAnswers' /\ NoDuplicates' /\ NumberedInTurn'
    BY <2>1 DEF IInv, OwnAnswers, NoDuplicates, NumberedInTurn, Numbering,
                CallNumbers, clientVars
  <2>. QED
    BY <2>3, <2>4, <2>5 DEF IInv
<1>. QED
  BY <1>1, <1>2, <1>3, <1>4 DEF Next

\* Every variable of the services keeps its type, for any number of threads,
\* workers and calls.
THEOREM TypeCorrect == Spec => []TypeOK
<1>1. IInv => TypeOK
  BY DEF IInv
<1>. QED
  BY <1>1, Initially, Invariance, PTL DEF Spec

\* The dictionary of pending queries holds the queries of the requests that are
\* queued, in a worker's hands or given up by one, each under its key:
\* take_request, send_response and the dropping of old requests agree.
THEOREM PendingIsOwedAlways == Spec => []PendingIsOwed
<1>1. IInv => PendingIsOwed
  BY DEF IInv, QueueInv
<1>. QED
  BY <1>1, Initially, Invariance, PTL DEF Spec

\* No call gets the answer of another one, and none is refused as a duplicate
\* unless two threads numbered their calls at once.
THEOREM AnswersFitCallsAlways == Spec => []AnswersFitCalls
<1>1. IInv => AnswersFitCalls
  BY DEF IInv, AnswersFitCalls
<1>. QED
  BY <1>1, Initially, Invariance, PTL DEF Spec

----------------------------------------------------------------------------
(* The notifications.                                                      *)

\* Worker w moves to the place at: the workers that wait and those woken.
LEMMA Moves ==
  ASSUME TypeOK, NEW w \in Workers, NEW at \in {"out", "wait", "woken", "work"},
         NEW e \in EntryType, workers' = Become(w, at, e)
  PROVE  /\ IsFiniteSet(Woken) /\ Cardinality(Woken) \in Nat
         /\ at = "wait" \/ Waiting' \subseteq Waiting
         /\ Cardinality(Woken') \in Nat
         /\ at = "woken" /\ At(w) # "woken"
              => Cardinality(Woken') = Cardinality(Woken) + 1
         /\ at # "woken" /\ At(w) = "woken"
              => Cardinality(Woken') = Cardinality(Woken) - 1
         /\ at # "woken" /\ At(w) # "woken"
              => Cardinality(Woken') = Cardinality(Woken)
<1>1. /\ workers'[w].at = at
      /\ \A v \in Workers \ {w} : workers'[v] = workers[v]
  BY BecomeOne
<1>2. IsFiniteSet(Woken) /\ Cardinality(Woken) \in Nat
  <2>1. Woken \subseteq Workers
    BY DEF Woken
  <2>. QED
    BY <2>1, QueueAssumption, FS_Subset, FS_CardinalityType
<1>3. at = "wait" \/ Waiting' \subseteq Waiting
  BY <1>1 DEF Waiting, At
<1>4. CASE at = "woken"
  <2>1. Woken' = Woken \cup {w}
    BY <1>1, <1>4 DEF Woken, At
  <2>2. Cardinality(Woken') =
          IF w \in Woken THEN Cardinality(Woken) ELSE Cardinality(Woken) + 1
    BY <1>2, <2>1, FS_AddElement
  <2>3. w \in Woken <=> At(w) = "woken"
    BY DEF Woken
  <2>. QED
    BY ONLY <1>2, <1>3, <1>4, <2>2, <2>3
<1>5. CASE at # "woken"
  <2>1. Woken' = Woken \ {w}
    BY <1>1, <1>5 DEF Woken, At
  <2>2. Cardinality(Woken') =
          IF w \in Woken THEN Cardinality(Woken) - 1 ELSE Cardinality(Woken)
    BY <1>2, <2>1, FS_RemoveElement
  <2>3. w \in Woken <=> At(w) = "woken"
    BY DEF Woken
  <2>4. Cardinality(Woken') \in Nat
    BY <1>2, <2>1, FS_RemoveElement, FS_CardinalityType
  <2>. QED
    BY ONLY <1>2, <1>3, <1>5, <2>2, <2>3, <2>4
<1>. QED
  BY <1>4, <1>5

LEMMA NotificationKept ==
  IInv /\ NoLostWakeup /\ [Next]_vars => NoLostWakeup'
<1>. SUFFICES ASSUME IInv, NoLostWakeup, [Next]_vars PROVE NoLostWakeup'
  OBVIOUS
<1>0. /\ TypeOK /\ Len(queue) \in Nat /\ queue \in Seq(EntryType)
      /\ workers \in [Workers -> [at : {"out", "wait", "woken", "work"},
                                  entry : EntryType]]
  <2>1. TypeOK /\ Len(queue) \in Nat /\ DOMAIN queue = 1 .. Len(queue)
    BY TypesSpelled DEF IInv
  <2>2. queue \in Seq([key : Nat, request : CallNumbers]) /\ CallNumbers \subseteq Nat
    BY <2>1, TypesSpelled
  <2>3. [key : Nat, request : CallNumbers] \subseteq EntryType
    BY <2>2 DEF EntryType
  <2>. HIDE DEF CallNumbers, EntryType
  <2>4. queue \in Seq(EntryType)
    BY <2>2, <2>3, SeqMonotone
  <2>. QED
    BY <2>1, <2>4 DEF TypeOK, EntryType
<1>1. CASE UNCHANGED <<queue, workers>>
  BY <1>1 DEF NoLostWakeup, Waiting, Woken, At
<1>2. ASSUME NEW c \in DOMAIN calls, Enqueue(c) PROVE NoLostWakeup'
  <2>1. Len(queue') \in Nat /\ Len(queue') <= Len(queue) + 1
    <3>1. /\ queue' = Append(SubSeq(queue, Dropped + 1, Len(queue)),
                             Entry(calls[c].key, c))
          /\ Dropped \in 0 .. Len(queue)
      BY <1>0, <1>2 DEF Enqueue, Dropped, TypeOK
    <3>. DEFINE q == SubSeq(queue, Dropped + 1, Len(queue))
    <3>2. q \in Seq(EntryType) /\ Len(q) = Len(queue) - Dropped
      BY <1>0, <3>1, SubSeqProperties
    <3>3. Len(queue') = Len(q) + 1
      <4>. HIDE DEF q
      <4>1. queue' = Append(q, Entry(calls[c].key, c))
        BY <3>1 DEF q
      <4>. QED
        BY <3>2, <4>1
    <3>. QED
      BY <1>0, <3>1, <3>2, <3>3
  <2>2. CASE Waiting = {}
    BY <1>2, <2>2 DEF Enqueue, Notified, NoLostWakeup, Waiting, At
  <2>3. CASE Waiting # {}
    <3>1. PICK w \in Waiting : workers' = Become(w, "woken", NoEntry)
      BY <1>2, <2>3 DEF Enqueue, Notified
    <3>2. w \in Workers /\ At(w) = "wait"
      BY DEF Waiting
    <3>3. /\ Cardinality(Woken) \in Nat
          /\ Cardinality(Woken') = Cardinality(Woken) + 1
      BY <1>0, <3>1, <3>2, Moves, NoEntryType
    <3>. QED
      BY <1>0, <2>1, <2>3, <3>3 DEF NoLostWakeup
  <2>. QED
    BY <2>2, <2>3
<1>3. ASSUME NEW w \in Workers, Take(w) PROVE NoLostWakeup'
  <2>1. /\ queue # << >> /\ queue' = Tail(queue) /\ At(w) \in {"out", "woken"}
        /\ workers' = Become(w, "work", Head(queue))
    BY <1>3 DEF Take
  <2>2. Head(queue) \in EntryType /\ Len(queue') = Len(queue) - 1 /\ Len(queue) > 0
    <3>. HIDE DEF EntryType
    <3>. QED
      BY <1>0, <2>1
  <2>3. /\ Cardinality(Woken) \in Nat /\ Waiting' \subseteq Waiting
        /\ Cardinality(Woken') \in Nat
        /\ \/ Cardinality(Woken') = Cardinality(Woken) - 1
           \/ Cardinality(Woken') = Cardinality(Woken)
    BY <1>0, <2>1, <2>2, Moves
  <2>. QED
    BY <1>0, <2>2, <2>3 DEF NoLostWakeup
<1>4. ASSUME NEW w \in Workers, Wait(w) \/ GiveUp(w) PROVE NoLostWakeup'
  <2>1. queue' = << >>
    BY <1>4 DEF Wait, GiveUp
  <2>2. Woken' \subseteq Workers
    BY DEF Woken
  <2>3. Cardinality(Woken') \in Nat
    BY <2>2, QueueAssumption, FS_Subset, FS_CardinalityType
  <2>. QED
    BY <2>1, <2>3 DEF NoLostWakeup
<1>5. ASSUME NEW w \in Workers, Expire(w) PROVE NoLostWakeup'
  <2>1. /\ At(w) = "wait" /\ workers' = Become(w, "woken", NoEntry)
        /\ queue' = queue /\ w \in Waiting
    BY <1>5 DEF Expire, Waiting
  <2>2. /\ Cardinality(Woken) \in Nat
        /\ Cardinality(Woken') = Cardinality(Woken) + 1
    BY <1>0, <2>1, Moves, NoEntryType
  <2>. QED
    BY <1>0, <2>1, <2>2 DEF NoLostWakeup
<1>6. ASSUME NEW w \in Workers, SendResponse(w) \/ Abandon(w) PROVE NoLostWakeup'
  <2>1. /\ At(w) = "work" /\ workers' = Become(w, "out", NoEntry) /\ queue' = queue
    BY <1>6 DEF SendResponse, Abandon
  <2>2. /\ Cardinality(Woken) \in Nat /\ Waiting' \subseteq Waiting
        /\ Cardinality(Woken') = Cardinality(Woken)
    BY <1>0, <2>1, Moves, NoEntryType
  <2>. QED
    BY <1>0, <2>1, <2>2 DEF NoLostWakeup
<1>. QED
  BY <1>1, <1>2, <1>3, <1>4, <1>5, <1>6
  DEF Next, vars, serverVars, Number, Load, Send, Timeout, Callback, TooEarly,
      Duplicate, MakeQueue, Close, Over

\* While a thread sleeps in take_request there is, for every queued request, a
\* thread that was woken and has not looked yet: no notification is lost, for
\* any number of threads and requests.
THEOREM NoLostWakeupAlways == Spec => []NoLostWakeup
<1>1. Init => NoLostWakeup
  BY DEF Init, NoLostWakeup, Waiting, At
<1>. QED
  BY <1>1, Initially, Invariance, NotificationKept, PTL DEF Spec
----------------------------------------------------------------------------
(* The calls: a refinement of RemoteCalls.                                 *)

\* What the server keeps of a call is kept of one that was made, and a call
\* that is on its way lies in no queue.
LEMMA CallsApart ==
  ASSUME IInv
  PROVE  /\ CallNumbers = 1 .. Len(calls) /\ Len(calls) \in Nat
         /\ net \subseteq CallNumbers /\ Queued \subseteq CallNumbers
         /\ InHand \subseteq CallNumbers
         /\ net \cap Queued = {}
<1>1. TypeOK /\ PendingIsOwed /\ Arrived
  BY DEF IInv, QueueInv
<1>2. CallNumbers = 1 .. Len(calls) /\ Len(calls) \in Nat
  BY <1>1, TypesSpelled
<1>3. net \subseteq CallNumbers
  BY <1>1 DEF TypeOK
<1>4. PendingCalls \subseteq CallNumbers
  BY <1>1, TypesSpelled DEF PendingCalls
<1>5. Queued \subseteq PendingCalls /\ InHand \subseteq PendingCalls
  BY <1>1 DEF PendingIsOwed, PendingCalls
<1>6. net \cap PendingCalls = {}
  BY <1>1 DEF Arrived
<1>. QED
  BY <1>2, <1>3, <1>4, <1>5, <1>6

\* The calls with an outcome change only when the list of calls does.
LEMMA WithKept ==
  ASSUME calls' = calls
  PROVE  /\ Len(calls') = Len(calls) /\ Async' = Async /\ CalledAgain' = CalledAgain
         /\ With({"answered"})' = With({"answered"})
         /\ With({"error", "duplicate", "timeout"})'
              = With({"error", "duplicate", "timeout"})
BY DEF With, CallNumbers, Async, CalledAgain

\* What is settled is answered or has failed, unless it was already.
LEMMA SettledOutcomes ==
  ASSUME TypeOK, NEW c \in CallNumbers, NEW o \in Outcomes \ {"open"},
         NEW a \in Nat, calls' \in Settled(c, o, a)
  PROVE  /\ Len(calls') = Len(calls) /\ Async' = Async
         /\ o = "answered" => RC!Answered(c)
         /\ o # "answered" => RC!Failed(c)
<1>. DEFINE A == With({"answered"})
            F == With({"error", "duplicate", "timeout"})
<1>1. /\ calls \in Seq(CallType) /\ CallNumbers = 1 .. Len(calls)
      /\ Len(calls) \in Nat /\ calls[c] \in CallType
  <2>1. /\ calls \in Seq(CallType) /\ CallNumbers = 1 .. Len(calls)
        /\ Len(calls) \in Nat
    BY TypesSpelled
  <2>. QED
    BY <2>1
<1>2. calls' \in Seq(CallType) /\ CallNumbers' = CallNumbers
  BY SettledCalls DEF CallNumbers
<1>3. Len(calls') = Len(calls)
  BY <1>1, <1>2 DEF CallNumbers
<1>6. Async' = Async
  <2>1. \A d \in CallNumbers : calls'[d].by = ACallback <=> calls[d].by = ACallback
    BY SettledCalls
  <2>. QED
    BY <1>2, <2>1 DEF Async, CallNumbers
<1>7. RC!ToldAgain(c)
  <2>1. \A d \in CallNumbers :
          \/ calls'[d].again = calls[d].again
          \/ d = c /\ c \in Async /\ calls[c].outcome = "open" /\ calls'[d].again
    BY SettledCalls
  <2>2. CalledAgain' \in {CalledAgain, CalledAgain \cup {c}}
    BY <1>2, <2>1 DEF CalledAgain
  <2>3. CASE CalledAgain' = CalledAgain
    BY <2>3 DEF RC!ToldAgain
  <2>4. CASE CalledAgain' # CalledAgain
    <3>1. c \in Async /\ calls[c].outcome = "open"
      BY <1>2, <2>1, <2>4 DEF CalledAgain
    <3>2. c \notin A /\ c \notin F
      BY <3>1 DEF With
    <3>3. ({c} \cap Async) \ (A \cup F) = {c}
      BY <3>1, <3>2
    <3>. HIDE DEF A, F
    <3>. QED
      BY <2>2, <2>4, <3>3 DEF RC!ToldAgain, A, F
  <2>. QED
    BY <2>3, <2>4
<1>4. CASE calls[c].outcome = "open"
  <2>1. PICK again \in Again(c) :
          calls' = [calls EXCEPT ![c] = Call(calls[c].key, o, a, StillBy(c), again)]
    BY <1>4 DEF Settled
  <2>. DEFINE e == Call(calls[c].key, o, a, StillBy(c), again)
  <2>2. e.outcome = o /\ calls' = [calls EXCEPT ![c] = e]
    BY <2>1 DEF Call
  <2>. HIDE DEF e
  <2>3. /\ calls'[c].outcome = o
        /\ \A d \in CallNumbers \ {c} : calls'[d].outcome = calls[d].outcome
    BY <1>1, <2>2
  <2>4. c \notin A /\ c \notin F
    BY <1>4 DEF With
  <2>5. CASE o = "answered"
    <3>1. A' = A \cup {c} /\ F' = F
      BY <1>2, <2>3, <2>4, <2>5 DEF With
    <3>. QED
      BY <1>3, <1>6, <1>7, <2>4, <2>5, <3>1 DEF RC!Answered
  <2>6. CASE o # "answered"
    <3>1. o \in {"error", "duplicate", "timeout"}
      BY <2>6 DEF Outcomes
    <3>2. A' = A /\ F' = F \cup {c}
      BY <1>2, <2>3, <2>4, <2>6, <3>1 DEF With
    <3>. QED
      BY <1>3, <1>6, <1>7, <2>4, <2>6, <3>2 DEF RC!Failed
  <2>. QED
    BY <2>5, <2>6
<1>5. CASE calls[c].outcome # "open"
  <2>1. calls' = calls
    BY <1>5 DEF Settled
  <2>2. A' = A /\ F' = F
    BY <2>1, WithKept
  <2>3. c \in A \/ c \in F
    BY <1>1, <1>5 DEF With, CallType, Outcomes
  <2>. QED
    BY <1>3, <1>6, <1>7, <2>2, <2>3 DEF RC!Answered, RC!Failed
<1>. QED
  BY <1>4, <1>5

\* A step that changes the calls, the net, the queue and what is worked on not
\* at all changes nothing that a caller sees.
LEMMA Stutters ==
  ASSUME UNCHANGED <<calls, net, queue>>, InHand' = InHand
  PROVE  UNCHANGED RC!vars
<1>1. /\ Len(calls') = Len(calls) /\ Async' = Async /\ CalledAgain' = CalledAgain
      /\ With({"answered"})' = With({"answered"})
      /\ With({"error", "duplicate", "timeout"})'
           = With({"error", "duplicate", "timeout"})
  BY WithKept
<1>2. (net \cup Queued)' = net \cup Queued
  BY DEF Queued
<1>. QED
  BY <1>1, <1>2 DEF RC!vars, RC!outcomes

\* A thread that sends a call issues it; the other steps of the client do not
\* concern the calls.
LEMMA ClientCalls ==
  ASSUME IInv, NEW t \in Threads, Number(t) \/ Load(t) \/ Send(t)
  PROVE  [RC!Next]_RC!vars
<1>1. Queued' = Queued /\ InHand' = InHand
  BY DEF Number, Load, Send, serverVars, Queued, InHand, Working, At
<1>2. CASE Number(t) \/ Load(t)
  BY <1>1, <1>2, Stutters DEF Number, Load, serverVars
<1>3. CASE Send(t)
  <2>. DEFINE n == Len(calls) + 1
  <2>0. TypeOK
    BY DEF IInv
  <2>1. PICK by \in Threads \cup {NoThread, ACallback} :
          calls' = Append(calls, Call(threads[t].key, "open", 0, by, FALSE))
    BY <1>3 DEF Send
  <2>. DEFINE e == Call(threads[t].key, "open", 0, by, FALSE)
  <2>2. e \in CallType /\ e.outcome = "open"
    BY <2>0 DEF Call, CallType, Outcomes, TypeOK
  <2>8. calls' = Append(calls, e) /\ calls \in Seq(CallType)
    BY <2>0, <2>1, TypesSpelled
  <2>. HIDE DEF e
  <2>3. /\ Len(calls') = n /\ n \in Nat
        /\ CallNumbers' = CallNumbers \cup {n} /\ n \notin CallNumbers
        /\ \A c \in CallNumbers : calls'[c] = calls[c]
        /\ calls'[n] = e
    BY <2>2, <2>8 DEF CallNumbers
  <2>4. net' = net \/ net' = net \cup {n}
    BY <1>3 DEF Send
  <2>5. /\ With({"answered"})' = With({"answered"})
        /\ With({"error", "duplicate", "timeout"})'
             = With({"error", "duplicate", "timeout"})
    BY <2>2, <2>3 DEF With
  <2>7. Async' \in {Async, Async \cup {n}} /\ CalledAgain' = CalledAgain
    <3>1. ~calls'[n].again
      BY <2>3 DEF Call, e
    <3>2. CalledAgain' = CalledAgain
      BY <2>3, <3>1 DEF CalledAgain
    <3>3. Async' \in {Async, Async \cup {n}}
      BY <2>3 DEF Async, CallNumbers
    <3>. QED
      BY <3>2, <3>3
  <2>6. RC!Issue
    BY <1>1, <2>3, <2>4, <2>5, <2>7 DEF RC!Issue, RC!outcomes
  <2>. QED
    BY <2>6 DEF RC!Next
<1>. QED
  BY <1>2, <1>3

\* A call that is settled without the queue was given up by its caller, or was
\* dealt with when it arrived.
LEMMA SettledCall ==
  ASSUME IInv, NEW c \in CallNumbers, NEW o \in Outcomes \ {"open"}, NEW a \in Nat,
         calls' \in Settled(c, o, a), UNCHANGED <<queue, workers>>,
         \/ net' = net /\ o # "answered"
         \/ c \in net /\ net' = net \ {c}
  PROVE  RC!Next
<1>1. /\ Len(calls') = Len(calls) /\ Async' = Async
      /\ o = "answered" => RC!Answered(c)
      /\ o # "answered" => RC!Failed(c)
  BY SettledOutcomes DEF IInv
<1>2. Queued' = Queued /\ InHand' = InHand
  BY DEF Queued, InHand, Working, At
<1>3. c \in 1 .. Len(calls) /\ net \cap Queued = {}
  BY CallsApart
<1>4. CASE net' = net /\ o # "answered"
  <2>1. RC!GiveUp(c)
    BY <1>1, <1>2, <1>4 DEF RC!GiveUp
  <2>. QED
    BY <1>3, <2>1 DEF RC!Next
<1>5. CASE c \in net /\ net' = net \ {c}
  <2>1. (net \cup Queued)' = (net \cup Queued) \ {c}
    BY <1>2, <1>3, <1>5
  <2>2. RC!AtOnce(c)
    BY <1>1, <1>2, <1>5, <2>1 DEF RC!AtOnce
  <2>. QED
    BY <1>3, <2>2 DEF RC!Next
<1>. QED
  BY <1>4, <1>5

\* A request goes from the net to the queue; those that are dropped are lost.
LEMMA EnqueuedCall ==
  ASSUME IInv, NEW c \in CallNumbers, Enqueue(c)
  PROVE  RC!Next
<1>. DEFINE ET == [key : Nat, request : CallNumbers]
            e == Entry(calls[c].key, c)
            D == Dropped
            n == Len(queue) - D + 1
            Lost == {queue[i].request : i \in 1 .. D}
<1>0. TypeOK /\ Distinct
  BY DEF IInv, QueueInv
<1>1. /\ c \in net /\ net' = net \ {c}
      /\ queue' = Append(SubSeq(queue, D + 1, Len(queue)), e)
      /\ workers' \in Notified /\ calls' = calls
  BY DEF Enqueue, Arrives
<1>2. /\ queue \in Seq(ET) /\ Len(queue) \in Nat
      /\ DOMAIN queue = 1 .. Len(queue)
  BY <1>0, TypesSpelled
<1>3. D \in 0 .. Len(queue)
  BY <1>0, <1>2 DEF Dropped, TypeOK
<1>4. e \in ET /\ e.request = c
  <2>1. calls \in Seq(CallType) /\ CallNumbers = 1 .. Len(calls)
    BY <1>0, TypesSpelled
  <2>2. calls[c] \in CallType
    BY <2>1
  <2>. QED
    BY <2>2 DEF CallType, Entry
<1>. HIDE DEF ET, e, D
<1>5. /\ n \in Nat \ {0} /\ DOMAIN queue' = 1 .. n
      /\ \A i \in 1 .. n - 1 : i + D \in DOMAIN queue /\ queue'[i] = queue[i + D]
      /\ queue'[n] = e
  <2>. DEFINE q == SubSeq(queue, D + 1, Len(queue))
  <2>1. /\ q \in Seq(ET) /\ Len(q) = n - 1
        /\ \A i \in 1 .. n - 1 : q[i] = queue[i + D]
    BY <1>2, <1>3, SubSeqProperties
  <2>2. queue' = Append(q, e)
    BY <1>1
  <2>. HIDE DEF q
  <2>. QED
    BY <1>2, <1>3, <1>4, <2>1, <2>2
<1>6. InHand' = InHand
  <2>1. CASE workers' = workers
    BY <2>1 DEF InHand, Working, At
  <2>2. CASE workers' # workers
    <3>1. PICK w \in Waiting : workers' = Become(w, "woken", NoEntry)
      BY <1>1, <2>2 DEF Notified
    <3>2. w \in Workers \ Working
      BY DEF Waiting, Working
    <3>3. /\ workers'[w].at = "woken"
          /\ \A v \in Workers \ {w} : workers'[v] = workers[v]
      BY <1>0, <3>1, <3>2, BecomeOne, NoEntryType
    <3>. QED
      BY <3>2, <3>3 DEF InHand, Working, At
  <2>. QED
    BY <2>1, <2>2
\* What is queued afterwards is c and what was queued behind the dropped ones.
<1>7. Queued' = (Queued \ Lost) \cup {c}
  <2>1. ASSUME NEW i \in DOMAIN queue'
        PROVE  queue'[i].request \in (Queued \ Lost) \cup {c}
    <3>1. CASE i = n
      BY <1>4, <1>5, <3>1
    <3>2. CASE i # n
      <4>1. i \in 1 .. n - 1
        BY <1>5, <3>2
      <4>2. i + D \in DOMAIN queue /\ queue'[i] = queue[i + D]
        BY <1>5, <4>1
      <4>3. ASSUME NEW j \in 1 .. D PROVE queue[j].request # queue[i + D].request
        <5>1. j \in DOMAIN queue /\ j # i + D
          BY <1>2, <1>3, <1>5, <4>1
        <5>. QED
          BY <1>0, <4>2, <5>1 DEF Distinct
      <4>. QED
        BY <4>2, <4>3 DEF Queued
    <3>. QED
      BY <3>1, <3>2
  <2>2. ASSUME NEW i \in DOMAIN queue, i \notin 1 .. D
        PROVE  queue[i].request \in Queued'
    <3>1. i - D \in 1 .. n - 1 /\ (i - D) + D = i
      BY <1>2, <1>3, <2>2
    <3>2. i - D \in DOMAIN queue' /\ queue'[i - D] = queue[i]
      BY <1>5, <3>1
    <3>. QED
      BY <3>2 DEF Queued
  <2>3. c \in Queued'
    <3>1. n \in DOMAIN queue' /\ queue'[n].request = c
      BY <1>4, <1>5
    <3>. QED
      BY <3>1 DEF Queued
  <2>4. Queued' \subseteq (Queued \ Lost) \cup {c}
    BY <2>1 DEF Queued
  <2>5. Queued \ Lost \subseteq Queued'
    BY <2>2 DEF Queued
  <2>. QED
    BY <2>3, <2>4, <2>5
<1>8. Lost \subseteq Queued
  <2>1. 1 .. D \subseteq DOMAIN queue
    BY <1>2, <1>3
  <2>. QED
    BY <2>1 DEF Queued
<1>. HIDE DEF Lost
<1>9. net \cap Queued = {}
  BY CallsApart
<1>10. (net \cup Queued)' = (net \cup Queued) \ Lost
  BY <1>1, <1>7, <1>8, <1>9
<1>11. RC!Lose
  BY <1>1, <1>6, <1>8, <1>10, WithKept DEF RC!Lose, RC!outcomes
<1>. QED
  BY <1>11 DEF RC!Next

\* The thread that takes the oldest request carries the call out.
LEMMA TakenCall ==
  ASSUME IInv, NEW w \in Workers, Take(w)
  PROVE  RC!Next
<1>. DEFINE ET == [key : Nat, request : CallNumbers]
            h == Head(queue)
<1>0. TypeOK /\ Distinct
  BY DEF IInv, QueueInv
<1>1. /\ queue # << >> /\ queue' = Tail(queue) /\ w \notin Working
      /\ workers' = Become(w, "work", h) /\ UNCHANGED <<calls, net>>
  BY DEF Take, Working
<1>2. queue \in Seq(ET)
  BY <1>0, TypesSpelled
<1>3. /\ DOMAIN queue = 1 .. Len(queue) /\ Len(queue) \in Nat \ {0}
      /\ h = queue[1] /\ h \in ET
      /\ DOMAIN queue' = 1 .. Len(queue) - 1
      /\ \A i \in DOMAIN queue' : i + 1 \in DOMAIN queue /\ queue'[i] = queue[i + 1]
  <2>. HIDE DEF ET
  <2>. QED
    BY <1>1, <1>2
<1>4. h \in EntryType /\ h.request \in CallNumbers
  BY <1>0, <1>3, TypesSpelled DEF EntryType
<1>. HIDE DEF h, ET
<1>5. /\ workers'[w].at = "work" /\ workers'[w].entry = h
      /\ \A v \in Workers \ {w} : workers'[v] = workers[v]
  BY <1>0, <1>1, <1>4, BecomeOne
<1>6. InHand' = InHand \cup {h.request}
  <2>1. Working' = Working \cup {w} /\ \A v \in Working : workers'[v] = workers[v]
    BY <1>1, <1>5 DEF Working, At
  <2>. QED
    BY <1>5, <2>1 DEF InHand
<1>7. Queued' = Queued \ {h.request} /\ h.request \in Queued
  <2>1. 1 \in DOMAIN queue
    BY <1>3
  <2>2. ASSUME NEW i \in DOMAIN queue'
        PROVE  queue'[i].request \in Queued \ {h.request}
    <3>1. i + 1 \in DOMAIN queue /\ queue'[i] = queue[i + 1] /\ i + 1 # 1
      BY <1>3
    <3>2. queue[i + 1].request # h.request
      BY <1>0, <1>3, <2>1, <3>1 DEF Distinct
    <3>. QED
      BY <3>1, <3>2 DEF Queued
  <2>3. ASSUME NEW i \in DOMAIN queue, queue[i].request # h.request
        PROVE  queue[i].request \in Queued'
    <3>1. i # 1
      BY <1>3, <2>3
    <3>2. i - 1 \in DOMAIN queue' /\ (i - 1) + 1 = i
      BY <1>3, <3>1
    <3>3. queue'[i - 1] = queue[i]
      BY <1>3, <3>2
    <3>. QED
      BY <3>2, <3>3 DEF Queued
  <2>4. Queued' \subseteq Queued \ {h.request}
    BY <2>2 DEF Queued
  <2>5. Queued \ {h.request} \subseteq Queued'
    BY <2>3 DEF Queued
  <2>6. h.request \in Queued
    BY <1>3, <2>1 DEF Queued
  <2>. QED
    BY <2>4, <2>5, <2>6
<1>8. h.request \in 1 .. Len(calls) /\ net \cap Queued = {}
  BY <1>4, CallsApart
<1>9. (net \cup Queued)' = (net \cup Queued) \ {h.request}
  BY <1>1, <1>7, <1>8
<1>10. RC!Execute(h.request)
  BY <1>1, <1>6, <1>7, <1>9, WithKept DEF RC!Execute, RC!outcomes
<1>. QED
  BY <1>8, <1>10 DEF RC!Next

\* A thread is done with a request: only that call can get an answer from it.
LEMMA DoneCall ==
  ASSUME IInv, NEW w \in Workers, SendResponse(w) \/ Abandon(w)
  PROVE  RC!Next
<1>. DEFINE rq == workers[w].entry.request
<1>0. TypeOK /\ Distinct /\ PendingIsOwed
  BY DEF IInv, QueueInv
<1>1. /\ w \in Working /\ workers' = Become(w, "out", NoEntry)
      /\ workers[w].entry.key \in DOMAIN pending
      /\ pending[workers[w].entry.key] = rq
      /\ UNCHANGED <<net, queue>>
  BY <1>0 DEF SendResponse, Abandon, Working, PendingIsOwed
<1>2. calls' \in Settled(rq, "answered", rq) \/ calls' = calls
  BY <1>1 DEF SendResponse, Abandon
<1>3. InHand' = InHand \ {rq} /\ rq \in InHand
  <2>1. /\ workers'[w].at = "out"
        /\ \A v \in Workers \ {w} : workers'[v] = workers[v]
    BY <1>0, <1>1, BecomeOne, NoEntryType
  <2>2. Working' = Working \ {w} /\ \A v \in Working' : workers'[v] = workers[v]
    BY <2>1 DEF Working, At
  <2>3. \A v \in Working \ {w} : workers[v].entry.request # rq
    BY <1>0, <1>1 DEF Distinct
  <2>. QED
    BY <1>1, <2>2, <2>3 DEF InHand
<1>. HIDE DEF rq
<1>4. rq \in CallNumbers /\ rq \in 1 .. Len(calls) /\ rq \in Nat
  <2>1. rq \in CallNumbers
    BY <1>3, CallsApart
  <2>2. CallNumbers = 1 .. Len(calls)
    BY CallsApart
  <2>. QED
    BY <2>1, <2>2
<1>5. (net \cup Queued)' = net \cup Queued
  BY <1>1 DEF Queued
<1>6. /\ Len(calls') = Len(calls) /\ Async' = Async
      /\ \/ RC!Answered(rq)
         \/ UNCHANGED RC!outcomes
  <2>1. CASE calls' \in Settled(rq, "answered", rq)
    <3>1. "answered" \in Outcomes \ {"open"}
      BY DEF Outcomes
    <3>. QED
      BY <1>0, <1>4, <2>1, <3>1, SettledOutcomes
  <2>2. CASE calls' = calls
    BY <2>2, WithKept DEF RC!outcomes
  <2>. QED
    BY <1>2, <2>1, <2>2
<1>7. RC!Finish(rq)
  BY <1>3, <1>5, <1>6 DEF RC!Finish
<1>. QED
  BY <1>4, <1>7 DEF RC!Next

LEMMA CallsStep == IInv /\ [Next]_vars => [RC!Next]_RC!vars
<1>. SUFFICES ASSUME IInv, [Next]_vars PROVE [RC!Next]_RC!vars
  OBVIOUS
<1>1. ASSUME NEW t \in Threads, Number(t) \/ Load(t) \/ Send(t)
      PROVE  [RC!Next]_RC!vars
  BY <1>1, ClientCalls
<1>2. ASSUME NEW c \in DOMAIN calls,
             Timeout(c) \/ Callback(c) \/ TooEarly(c) \/ Duplicate(c) \/ Enqueue(c)
      PROVE  RC!Next
  <2>1. c \in CallNumbers /\ c \in Nat
    <3>1. CallNumbers = 1 .. Len(calls)
      BY CallsApart
    <3>. QED
      BY <3>1 DEF CallNumbers
  <2>2. {"answered", "error", "duplicate", "timeout"} = Outcomes \ {"open"}
    BY DEF Outcomes
  <2>3. CASE Enqueue(c)
    BY <2>1, <2>3, EnqueuedCall
  <2>4. CASE Timeout(c)
    BY <2>1, <2>2, <2>4, SettledCall DEF Timeout, serverVars
  <2>5. CASE Callback(c)
    BY <2>1, <2>2, <2>5, SettledCall DEF Callback, Arrives, serverVars
  <2>6. CASE TooEarly(c)
    BY <2>1, <2>2, <2>6, SettledCall DEF TooEarly, Arrives, serverVars
  <2>7. CASE Duplicate(c)
    BY <2>1, <2>2, <2>7, SettledCall DEF Duplicate, Arrives, serverVars
  <2>. QED
    BY <1>2, <2>3, <2>4, <2>5, <2>6, <2>7
<1>3. ASSUME NEW w \in Workers,
             Take(w) \/ SendResponse(w) \/ Abandon(w)
      PROVE  RC!Next
  BY <1>3, TakenCall, DoneCall
<1>4. ASSUME NEW w \in Workers, Wait(w) \/ Expire(w) \/ GiveUp(w)
      PROVE  UNCHANGED RC!vars
  <2>1. PICK at \in {"out", "wait", "woken"} : workers' = Become(w, at, NoEntry)
    BY <1>4 DEF Wait, Expire, GiveUp
  <2>2. w \notin Working /\ UNCHANGED <<calls, net, queue>>
    BY <1>4 DEF Wait, Expire, GiveUp, Working
  <2>3. /\ workers'[w].at = at
        /\ \A v \in Workers \ {w} : workers'[v] = workers[v]
    BY <2>1, BecomeOne, NoEntryType DEF IInv
  <2>4. InHand' = InHand
    BY <2>2, <2>3 DEF InHand, Working, At
  <2>. QED
    BY <2>2, <2>4, Stutters
<1>5. CASE Close
  <2>1. UNCHANGED <<calls, queue, workers>> /\ net' = {}
    BY <1>5 DEF Close, serverVars
  <2>2. Queued' = Queued /\ InHand' = InHand /\ net \cap Queued = {}
    BY <2>1, CallsApart DEF Queued, InHand, Working, At
  <2>3. (net \cup Queued)' = (net \cup Queued) \ net
    BY <2>1, <2>2
  <2>4. RC!Lose
    BY <2>1, <2>2, <2>3, WithKept DEF RC!Lose, RC!outcomes
  <2>. QED
    BY <2>4 DEF RC!Next
<1>6. CASE MakeQueue \/ Over \/ UNCHANGED vars
  <2>1. UNCHANGED <<calls, net, queue, workers>>
    BY <1>6 DEF MakeQueue, Over, vars, serverVars
  <2>2. InHand' = InHand
    BY <2>1 DEF InHand, Working, At
  <2>. QED
    BY <2>1, <2>2, Stutters
<1>. QED
  BY <1>1, <1>2, <1>3, <1>4, <1>5, <1>6 DEF Next

\* To its callers, with requests dropped, refused, given up, answered late or
\* numbered twice, a service carries each call out at most once, by one thread,
\* and what a call's outcome is first stays; for any number of threads and calls.
THEOREM CalledAtMostOnceAlways == Spec => CalledAtMostOnce
<1>1. Init => RC!Init
  <2>. SUFFICES ASSUME Init PROVE RC!Init
    OBVIOUS
  <2>1. calls = << >> /\ queue = << >> /\ net = {} /\ Working = {}
    BY DEF Init, Working, At
  <2>2. Len(calls) = 0 /\ CallNumbers = {} /\ DOMAIN queue = {}
    BY <2>1 DEF CallNumbers
  <2>. QED
    BY <2>1, <2>2 DEF RC!Init, Queued, InHand, With, Async, CalledAgain
<1>. QED
  BY <1>1, Initially, Invariance, CallsStep, PTL
  DEF Spec, CalledAtMostOnce, RC!Spec
=============================================================================
