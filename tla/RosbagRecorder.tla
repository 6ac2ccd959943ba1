--------------------------- MODULE RosbagRecorder ---------------------------
(***************************************************************************)
(* The node rosbag_recorder (service_bag_recorder.cpp): one request of     *)
(* send_command after the other, and the messages of the recorded topics.  *)
(* A mutex makes each handler and each message callback atomic.            *)
(*                                                                         *)
(* The topics are requested and recorded together, so that which of them   *)
(* has a type or a subscription is one bit.                                *)
(***************************************************************************)
EXTENDS Naturals, Sequences

CONSTANTS
  TopicsMayVanish,  \* whether a requested topic can be gone from the graph
  MaxRequests       \* bound on the requests on their way to the recorder

ASSUME RecorderAssumption ==
  TopicsMayVanish \in BOOLEAN /\ MaxRequests \in Nat \ {0}

VARIABLES
  requests,    \* requests sent and not handled yet, in order
  recording,   \* is_recording_
  openBag,     \* current_bag_uri_; the empty sequence is the empty string
  requested,   \* topics_to_record_ is not empty
  typed,       \* type_for_topic_ is filled
  subscribed,  \* subscriptions_ is not empty
  bags,        \* the bag directories on disk and what was written to each
  alive        \* the process runs

recorderVars ==
  <<requests, recording, openBag, requested, typed, subscribed, bags, alive>>

NoUri == << >>

\* A request; only START carries a uri.
Request(command, uri) == [command |-> command, uri |-> uri]

Commands == {"PREPARE", "START", "STOP", "STOP_AND_DELETE", "FINISH"}

RecorderInit ==
  /\ requests = << >> /\ recording = FALSE /\ openBag = NoUri
  /\ requested = FALSE /\ typed = FALSE /\ subscribed = FALSE
  /\ bags = << >> /\ alive = TRUE

\* The bag directories without that of uri (delete_bag_directory; the empty
\* uri deletes nothing), and with an empty bag at uri.
Without(uri) == [u \in DOMAIN bags \ {uri} |-> bags[u]]
WithNew(uri) == [u \in DOMAIN bags \cup {uri} |->
                   IF u = uri THEN {} ELSE bags[u]]

TopicsThere == IF TopicsMayVanish THEN {TRUE, FALSE} ELSE {TRUE}

Refuse == UNCHANGED <<recording, openBag, requested, typed, subscribed, bags,
                      alive>>

\* A topic that is not in the graph makes handle_prepare read through the end
\* iterator of names_and_types: the types and subscriptions are then whatever
\* it got to, or the process dies.
Prepare ==
  IF recording THEN Refuse
  ELSE /\ requested' = TRUE
       /\ UNCHANGED <<recording, openBag, bags>>
       /\ \E there \in TopicsThere :
            IF there
            THEN typed' = TRUE /\ subscribed' = TRUE /\ UNCHANGED alive
            ELSE /\ typed' \in BOOLEAN /\ subscribed' \in BOOLEAN
                 /\ alive' \in BOOLEAN

\* A bag already at the uri is deleted first. With no topics requested
\* nothing can be missing, and the bag stays empty.
Start(uri) ==
  IF recording THEN Refuse
  ELSE /\ UNCHANGED <<requested, subscribed, alive>>
       /\ \E there \in TopicsThere :
            IF there \/ ~requested
            THEN /\ recording' = TRUE /\ openBag' = uri
                 /\ bags' = WithNew(uri)
                 /\ typed' = (typed \/ requested)
            ELSE /\ openBag' = NoUri /\ bags' = Without(uri)
                 /\ typed' = FALSE /\ UNCHANGED recording

CloseBag ==
  /\ recording' = FALSE /\ openBag' = NoUri /\ typed' = FALSE

\* A mutant of StopRecording: the recorder keeps recording.
StopForgotten == typed' = FALSE /\ UNCHANGED <<recording, openBag>>

StopRecording == CloseBag

\* A mutant of StopAndDelete: the recorder keeps recording.
DeleteOnly ==
  IF ~recording THEN Refuse
  ELSE /\ bags' = Without(openBag)
       /\ UNCHANGED <<recording, openBag, requested, typed, subscribed, alive>>

StopAndDelete ==
  IF ~recording THEN Refuse
  ELSE /\ CloseBag /\ bags' = Without(openBag)
       /\ UNCHANGED <<requested, subscribed, alive>>

\* The subscriptions go, recording or not.
FinishRecording ==
  /\ subscribed' = FALSE
  /\ IF recording
     THEN StopRecording
     ELSE UNCHANGED <<recording, openBag, typed>>
  /\ UNCHANGED <<requested, bags, alive>>

\* handle_send_command, for the next request. Its answer is only logged.
Handle ==
  /\ requests # << >>
  /\ requests' = Tail(requests)
  /\ LET r == Head(requests)
     IN  \/ ~alive /\ Refuse
         \/ /\ alive
            /\ \/ r.command = "PREPARE" /\ Prepare
               \/ r.command = "START" /\ Start(r.uri)
               \/ /\ r.command = "STOP"
                  /\ IF recording
                     THEN StopRecording
                          /\ UNCHANGED <<requested, subscribed, bags, alive>>
                     ELSE Refuse
               \/ r.command = "STOP_AND_DELETE" /\ StopAndDelete
               \/ r.command = "FINISH" /\ FinishRecording

\* handle_serialized_message: a message, of the kind x, goes to the open bag.
Write(x) ==
  /\ alive /\ recording /\ subscribed /\ typed
  /\ x \notin bags[openBag]
  /\ bags' = [bags EXCEPT ![openBag] = @ \cup {x}]
  /\ UNCHANGED <<requests, recording, openBag, requested, typed, subscribed,
                 alive>>

\* The client of the server sends without waiting for the answer.
Sent(r) ==
  /\ Len(requests) < MaxRequests
  /\ requests' = Append(requests, r)
=============================================================================
