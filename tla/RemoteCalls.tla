----------------------------- MODULE RemoteCalls -----------------------------
(***************************************************************************)
(* What a service is to its callers: each call is carried out at most      *)
(* once, by one server's thread, and gets at most one outcome. It is       *)
(* answered only by what carried it out, and the first outcome stays; a    *)
(* call without an answer may have been carried out, or not. The callback  *)
(* of an asynchronous call may be called once more, with no answer, when   *)
(* it is told the outcome.                                               *)
(***************************************************************************)
EXTENDS Naturals

VARIABLES
  issued,     \* the number of calls
  async,      \* those that nobody waits for: a callback is called
  sent,       \* the calls that are on their way, or lie in a queue
  executing,  \* those that are being carried out
  answered,   \* those with an answer
  failed,     \* those that were given up or refused
  again       \* those whose callback was called once more

outcomes == <<answered, failed, again>>
vars == <<issued, async, sent, executing, outcomes>>

Init ==
  /\ issued = 0
  /\ async = {} /\ sent = {} /\ executing = {}
  /\ answered = {} /\ failed = {} /\ again = {}

\* A call to a service that is gone reaches nobody.
Issue ==
  /\ issued' = issued + 1
  /\ async' \in {async, async \cup {issued + 1}}
  /\ sent' \in {sent, sent \cup {issued + 1}}
  /\ UNCHANGED <<executing, outcomes>>

Execute(c) ==
  /\ c \in sent /\ sent' = sent \ {c}
  /\ executing' = executing \cup {c}
  /\ UNCHANGED <<issued, async, outcomes>>

\* An outcome that comes after the first one changes nothing, and no callback
\* is called for it.
ToldAgain(c) == again' \in {again, again \cup (({c} \cap async) \ (answered \cup failed))}
Answered(c) ==
  /\ answered' = answered \cup ({c} \ failed) /\ UNCHANGED failed
  /\ ToldAgain(c)
Failed(c) ==
  /\ failed' = failed \cup ({c} \ answered) /\ UNCHANGED answered
  /\ ToldAgain(c)

\* With an answer, or without.
Finish(c) ==
  /\ c \in executing /\ executing' = executing \ {c}
  /\ Answered(c) \/ UNCHANGED outcomes
  /\ UNCHANGED <<issued, async, sent>>

\* Carried out at once, or refused.
AtOnce(c) ==
  /\ c \in sent /\ sent' = sent \ {c}
  /\ Answered(c) \/ Failed(c)
  /\ UNCHANGED <<issued, async, executing>>

Lose ==
  /\ sent' \subseteq sent
  /\ UNCHANGED <<issued, async, executing, outcomes>>

\* The caller waits no longer.
GiveUp(c) ==
  /\ Failed(c)
  /\ UNCHANGED <<issued, async, sent, executing>>

Next ==
  \/ Issue \/ Lose
  \/ \E c \in 1 .. issued : Execute(c) \/ Finish(c) \/ AtOnce(c) \/ GiveUp(c)

Spec == Init /\ [][Next]_vars
=============================================================================
