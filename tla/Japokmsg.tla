------------------------------ MODULE Japokmsg ------------------------------
(***************************************************************************)
(* The programs at the other end of the socket of module IpcServer:        *)
(* japokmsg (src/japokmsg/main.c, src/japokmsg/ipc-client.c), which sends  *)
(* one command and waits for the answer, and status bars, which subscribe  *)
(* and read when they like.                                                *)
(***************************************************************************)
EXTENDS IpcServer

CONSTANTS
  Messengers,   \* the clients that are japokmsg; the others are bars
  MaxUnread     \* bound: parts a bar sends before the server has read any

ASSUME MessengersAssumption == Messengers \subseteq Clients

Bars == Clients \ Messengers

VARIABLES
  pc,    \* what a japokmsg does: "idle" (not started), "connected", "asking"
         \* (header sent), "waiting", "reading" (header of the answer read),
         \* "printed", "aborted", "spinning" (in the loop of ipc_recv_response)
  empty, \* the command line of a japokmsg holds no command
  got    \* the header of the message a client reads the payload of

vars == <<serverVars, pc, empty, got>>

clientVars == <<clients, status>>

\* japokmsg's only request, which is empty without a command.
Commands   == [type : {"command"}, full : BOOLEAN, events : {{}}]
Command(c) == CHOOSE r \in Commands : r.full = ~empty[c]

ToServer(c, part) == inbox' = [inbox EXCEPT ![c] = Append(@, part)]
GoTo(c, place)    == pc' = [pc EXCEPT ![c] = place]

-----------------------------------------------------------------------------
(* Both kinds of clients *)

Connect(c) ==
  /\ status = "running"
  /\ socket[c] = "none"
  /\ ~clients[c].open
  /\ socket' = [socket EXCEPT ![c] = "connected"]
  /\ outbox' = [outbox EXCEPT ![c] = <<>>]
  /\ got' = [got EXCEPT ![c] = <<>>]
  /\ UNCHANGED <<clientVars, inbox>>

\* The end of the process or a close: what is under way to it is lost.
Close(c) ==
  /\ socket' = [socket EXCEPT ![c] = IF @ = "connected" THEN "hung_up" ELSE "none"]
  /\ outbox' = [outbox EXCEPT ![c] = <<>>]
  /\ got' = [got EXCEPT ![c] = <<>>]
  /\ UNCHANGED <<clientVars, inbox>>

\* The next part of what the server sent is read.
Receive(c) ==
  /\ outbox[c] # <<>>
  /\ outbox' = [outbox EXCEPT ![c] = Tail(@)]
  /\ LET part == Head(outbox[c])
     IN  got' = [got EXCEPT ![c] = IF part.part = "header" /\ part.msg.full
                                   THEN <<part>> ELSE <<>>]
  /\ UNCHANGED <<clientVars, socket, inbox>>

EndOfStream(c) == outbox[c] = <<>> /\ socket[c] \in {"shut", "reset"}

-----------------------------------------------------------------------------
(* japokmsg *)

\* main up to ipc_open_socket.
Start(c) ==
  /\ pc[c] = "idle"
  /\ Connect(c)
  /\ \E b \in BOOLEAN : empty' = [empty EXCEPT ![c] = b]
  /\ GoTo(c, "connected")

\* A write to a socket that the server has shut ends the process by SIGPIPE.
\* An empty payload is written without reaching the socket.
WriteHeader(c) ==
  /\ pc[c] = "connected"
  /\ \/ /\ socket[c] = "connected"
        /\ ToServer(c, Part("header", Command(c)))
        /\ GoTo(c, "asking")
     \/ /\ socket[c] # "connected"
        /\ GoTo(c, "aborted")
        /\ UNCHANGED inbox
  /\ UNCHANGED <<clientVars, socket, outbox, empty, got>>

WritePayload(c) ==
  /\ pc[c] = "asking"
  /\ \/ /\ empty[c]
        /\ GoTo(c, "waiting")
        /\ UNCHANGED inbox
     \/ /\ ~empty[c]
        /\ socket[c] = "connected"
        /\ ToServer(c, Part("payload", Command(c)))
        /\ GoTo(c, "waiting")
     \/ /\ ~empty[c]
        /\ socket[c] # "connected"
        /\ GoTo(c, "aborted")
        /\ UNCHANGED inbox
  /\ UNCHANGED <<clientVars, socket, outbox, empty, got>>

\* ipc_recv_response: the loop that reads the header ...
ReceiveHeader(c) ==
  /\ pc[c] = "waiting"
  /\ \/ /\ Receive(c)
        /\ GoTo(c, "reading")
     \/ /\ EndOfStream(c)
        /\ GoTo(c, "aborted")
        /\ UNCHANGED <<serverVars, got>>
  /\ UNCHANGED empty

\* ... and the one that reads the payload, which takes the end of the stream for
\* a payload of which nothing has come yet and reads on for ever.
ReceivePayload(c) ==
  /\ pc[c] = "reading"
  /\ \/ /\ Receive(c)
        /\ GoTo(c, "printed")
     \/ /\ EndOfStream(c)
        /\ GoTo(c, IF socket[c] = "reset" THEN "aborted" ELSE "spinning")
        /\ UNCHANGED <<serverVars, got>>
  /\ UNCHANGED empty

\* ipc_set_recv_timeout: nothing came for three seconds.
Timeout(c) ==
  /\ pc[c] \in {"waiting", "reading"}
  /\ outbox[c] = <<>>
  /\ socket[c] = "connected"
  /\ GoTo(c, "aborted")
  /\ UNCHANGED <<serverVars, empty, got>>

\* main returns, or sway_abort.
Exit(c) ==
  /\ pc[c] \in {"printed", "aborted"}
  /\ Close(c)
  /\ GoTo(c, "idle")
  /\ UNCHANGED empty

MessengerStep(c) ==
  WriteHeader(c) \/ WritePayload(c) \/ ReceiveHeader(c) \/ ReceivePayload(c) \/ Exit(c)

-----------------------------------------------------------------------------
(* Bars *)

BarConnect(c) == Connect(c) /\ UNCHANGED <<pc, empty>>

\* A request in one write.
BarAsks(c) ==
  /\ socket[c] = "connected"
  /\ \E r \in Requests :
       /\ Len(inbox[c]) + Len(Parts(r)) <= MaxUnread
       /\ inbox' = [inbox EXCEPT ![c] = @ \o Parts(r)]
  /\ UNCHANGED <<clientVars, socket, outbox, pc, empty, got>>

BarReads(c) == Receive(c) /\ UNCHANGED <<pc, empty>>

BarCloses(c) ==
  /\ socket[c] \in {"connected", "shut", "reset"}
  /\ Close(c)
  /\ UNCHANGED <<pc, empty>>

-----------------------------------------------------------------------------
Init ==
  /\ ServerInit
  /\ pc = [c \in Messengers |-> "idle"]
  /\ empty = [c \in Messengers |-> FALSE]
  /\ got = [c \in Clients |-> <<>>]

Next ==
  \/ ServerNext /\ UNCHANGED <<pc, empty, got>>
  \/ \E c \in Messengers : Start(c) \/ MessengerStep(c) \/ Timeout(c)
  \/ \E c \in Bars : BarConnect(c) \/ BarAsks(c) \/ BarReads(c) \/ BarCloses(c)

\* The event loop calls every handler that is ready and a started japokmsg goes
\* on; nothing makes bars read, users type or the three seconds pass.
Spec ==
  /\ Init /\ [][Next]_vars
  /\ ServerFairness
  /\ \A c \in Messengers : WF_vars(MessengerStep(c))

-----------------------------------------------------------------------------
TypeOK ==
  /\ ServerTypeOK
  /\ pc \in [Messengers -> {"idle", "connected", "asking", "waiting", "reading",
                            "printed", "aborted", "spinning"}]
  /\ empty \in [Messengers -> BOOLEAN]
  /\ got \in [Clients -> {<<>>} \cup {<<Part("header", m)>> : m \in {n \in Message : n.full}}]

\* The last part of a message is under way exactly as long as the message is.
IsLast(part) == part.part = "payload" \/ ~part.msg.full
Whole(parts) ==
  LET upTo[n \in 0..Len(parts)] ==
        IF n = 0 THEN <<>>
        ELSE IF IsLast(parts[n]) THEN Append(upTo[n - 1], parts[n].msg) ELSE upTo[n - 1]
  IN  upTo[Len(parts)]

Listens(c) == socket[c] \notin {"none", "hung_up"}

Promise == INSTANCE IpcPromise WITH
  Clients <- Clients, Requests <- Requests \cup Commands,
  TagEvent <- TagEvent, Answer <- Answer,
  asked   <- [c \in Clients |-> Whole(inbox[c])],
  queue   <- [c \in Clients |-> IF Listens(c) THEN Whole(outbox[c] \o clients[c].buffer) ELSE <<>>],
  follows <- [c \in Clients |-> "workspace" \in clients[c].subscribed],
  here    <- [c \in Clients |-> Listens(c)]

\* The sockets, the buffers that are written in pieces and the handlers that run
\* other handlers keep the promise of module IpcPromise: no answer is lost,
\* doubled, torn or sent before an event it caused, and no event goes to a client
\* that did not ask for it, unless the server ends the connection.
PromiseKept == Promise!Spec

\* A header that announces a payload is followed by it, unless it is the last part,
\* and nothing else is a payload.
Paired(parts) ==
  \A i \in DOMAIN parts :
    /\ parts[i].part = "header" /\ parts[i].msg.full /\ i < Len(parts) =>
         parts[i + 1] = Part("payload", parts[i].msg)
    /\ parts[i].part = "payload" =>
         parts[i].msg.full /\ i > 1 /\ parts[i - 1] = Part("header", parts[i].msg)
Open(parts) == parts # <<>> /\ ~IsLast(parts[Len(parts)])

\* What a client has read, what is on the wire and what is in the write buffer are
\* whole messages: where one goes over into the other, too, and whatever was
\* written in part.
StreamIsWhole ==
  \A c \in Clients : clients[c].open /\ socket[c] = "connected" =>
    LET stream == got[c] \o outbox[c] \o clients[c].buffer
    IN  Paired(stream) /\ ~Open(stream)

\* So are the requests, but for the one of a japokmsg between its two writes: the
\* header it has written stays the last part until the payload follows.
RequestsAreWhole ==
  \A c \in Clients :
    /\ Paired(inbox[c])
    /\ Open(inbox[c]) => c \in Messengers /\ pc[c] = "asking" /\ ~empty[c]
    /\ c \in Messengers /\ pc[c] = "asking" /\ ~empty[c] /\ socket[c] = "connected" =>
         inbox[c] # <<>> /\ inbox[c][Len(inbox[c])] = Part("header", Command(c))

\* The struct of a client, its socket and what is on the way agree, whoever closed
\* the connection: nothing is left for the next one that uses them.
ConnectionsAgree ==
  \A c \in Clients :
    /\ ~clients[c].open => clients[c] = Freed
    /\ socket[c] \in {"none", "shut", "reset"} => ~clients[c].open /\ inbox[c] = <<>>
    /\ ~Listens(c) \/ (socket[c] = "connected" /\ ~clients[c].open) =>
         outbox[c] = <<>> /\ got[c] = <<>>
    /\ c \in Messengers => (pc[c] = "idle" <=> ~Listens(c))

\* What has been sent and what is still to be sent can be read, in both directions
\* (ipc_client_handle_writable, ipc_client_disconnect).
StreamSound == TypeOK /\ StreamIsWhole /\ RequestsAreWhole /\ ConnectionsAgree

\* Everyone who asked for something gets it or is told that nothing will come: a
\* japokmsg with a command does not wait for its time to run out, however its
\* header and payload, the bars and the other answers interleave.  The exception
\* is a compositor that ends between the two halves of an answer.
EveryCommandEnds ==
  \A c \in Messengers :
    pc[c] \in {"waiting", "reading"} /\ ~empty[c] ~>
      pc[c] \in {"printed", "aborted"} \/ status = "undefined"
        \/ (pc[c] = "spinning" /\ status = "stopped")
=============================================================================
