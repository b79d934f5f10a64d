----------------------------- MODULE IpcPromise -----------------------------
(***************************************************************************)
(* What the socket promises its clients, without headers, payloads and     *)
(* buffers: requests are handled in the order they were made and once      *)
(* each; the answer comes after the events the request caused; events go   *)
(* to those who asked for them; what is sent to a client that stays is     *)
(* received whole, in order and once.  The only failure is that the server *)
(* ends a connection, after which the client may still read what it had    *)
(* been sent up to some point.                                             *)
(***************************************************************************)
EXTENDS Sequences, SequencesExt

CONSTANTS Clients, Requests, TagEvent, Answer(_)

VARIABLES
  asked,    \* the requests of a client that are not handled yet
  queue,    \* the messages a client has been sent and has not received
  follows,  \* the client has asked to be told of changed tags
  here      \* the client has not closed its end

vars == <<asked, queue, follows, here>>

Init ==
  /\ asked = [c \in Clients |-> <<>>]
  /\ queue = [c \in Clients |-> <<>>]
  /\ follows = [c \in Clients |-> FALSE]
  /\ here = [c \in Clients |-> FALSE]

Arrive(c) ==
  /\ ~here[c]
  /\ asked[c] = <<>> /\ ~follows[c]
  /\ here' = [here EXCEPT ![c] = TRUE]
  /\ UNCHANGED <<asked, queue, follows>>

Ask(c, r) ==
  /\ here[c]
  /\ asked' = [asked EXCEPT ![c] = Append(@, r)]
  /\ UNCHANGED <<queue, follows, here>>

\* Append the events and the answers for everyone whose connection stays.
Send(lost, told, answers) ==
  LET before == queue
      after  == queue'
      stays(c) == IF ~here[c] THEN <<>>
                  ELSE before[c] \o (IF told /\ follows[c] THEN <<TagEvent>> ELSE <<>>)
                                 \o answers[c]
  IN  /\ DOMAIN after = Clients
      /\ \A c \in Clients : IF c \in lost THEN IsPrefix(after[c], before[c])
                                          ELSE after[c] = stays(c)

AnswersTo(r) ==
  CASE ~r.full -> <<>>
    [] r.full /\ r.type \in {"unknown", "malformed"} -> <<>>
    [] r.full /\ r.type = "subscribe" /\ "tick" \in r.events ->
         <<Answer("subscribe"), Answer("tick")>>
    [] OTHER -> <<Answer(r.type)>>

Subscribes(r) == r.full /\ r.type = "subscribe" /\ "workspace" \in r.events

Handle(c, lost) ==
  LET r == Head(asked[c])
  IN  /\ asked[c] # <<>>
      /\ \E told \in BOOLEAN :
           /\ told => r.full /\ r.type = "command"
           /\ Send(lost, told, [d \in Clients |-> IF d = c THEN AnswersTo(r) ELSE <<>>])
      /\ asked' = [d \in Clients |-> IF d \in lost THEN <<>>
                                     ELSE IF d = c THEN Tail(asked[d]) ELSE asked[d]]
      /\ follows' = [d \in Clients |->
           d \notin lost /\ (follows[d] \/ (d = c /\ Subscribes(r)))]
      /\ UNCHANGED here

TagsChange(lost) ==
  /\ Send(lost, TRUE, [c \in Clients |-> <<>>])
  /\ asked' = [c \in Clients |-> IF c \in lost THEN <<>> ELSE asked[c]]
  /\ follows' = [c \in Clients |-> c \notin lost /\ follows[c]]
  /\ UNCHANGED here

Take(c) ==
  /\ queue[c] # <<>>
  /\ queue' = [queue EXCEPT ![c] = Tail(@)]
  /\ UNCHANGED <<asked, follows, here>>

Leave(c) ==
  /\ here[c]
  /\ here' = [here EXCEPT ![c] = FALSE]
  /\ queue' = [queue EXCEPT ![c] = <<>>]
  /\ UNCHANGED <<asked, follows>>

Drop(lost) ==
  /\ Send(lost, FALSE, [c \in Clients |-> <<>>])
  /\ asked' = [c \in Clients |-> IF c \in lost THEN <<>> ELSE asked[c]]
  /\ follows' = [c \in Clients |-> c \notin lost /\ follows[c]]
  /\ UNCHANGED here

Next ==
  \/ \E c \in Clients : Arrive(c) \/ Take(c) \/ Leave(c)
  \/ \E c \in Clients, r \in Requests : Ask(c, r)
  \/ \E lost \in SUBSET Clients : TagsChange(lost) \/ Drop(lost)
  \/ \E c \in Clients, lost \in SUBSET Clients : Handle(c, lost)

Spec == Init /\ [][Next]_vars
=============================================================================
