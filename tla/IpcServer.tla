----------------------------- MODULE IpcServer -----------------------------
(***************************************************************************)
(* The server of the i3-style socket (src/src/ipc/ipc.c,                   *)
(* src/src/ipc/ipc-server.c, src/src/command.c) and the two socket buffers *)
(* of every connection.  The event loop calls one handler at a time; each  *)
(* handler is one action.  A message is a header and, unless its payload   *)
(* is empty, a payload; a socket moves these parts in order, but may have  *)
(* moved only some of them when the other side reads.                      *)
(*                                                                         *)
(* Both C files are built, and each has an ipc_client_list, an ipc_init    *)
(* and handlers of its own, some of the same names (src/src/meson.build).  *)
(* This module is the one server that they are meant to be: the socket and *)
(* the list of ipc-server.c, with the senders and readers of ipc.c.        *)
(***************************************************************************)
EXTENDS Integers, SequencesExt

CONSTANTS
  Clients,     \* the connections that may exist at once
  Requests,    \* the requests a client may send
  BufferLimit, \* parts a write buffer holds: 128 bytes doubled while below 4e6
  SocketSize   \* bound: parts a socket takes in each direction

RequestTypes == {"command", "get_tags", "get_tree", "get_bar_config",
                 "subscribe", "unknown", "malformed"}
EventNames   == {"workspace", "tick", "mode", "unsupported"}
Request      == [type : RequestTypes, full : BOOLEAN, events : SUBSET EventNames]

ASSUME RequestsAssumption == Requests \subseteq Request
ASSUME BufferAssumption == BufferLimit \in Nat \ {0} /\ SocketSize \in Nat \ {0}

\* What the server sends.  The event for the tags has an empty payload.
Answer(type)   == [type |-> type, full |-> TRUE]
TagEvent       == [type |-> "workspace", full |-> FALSE]
Message        == {Answer(t) : t \in RequestTypes \cup {"tick"}} \cup {TagEvent}

Part(name, m)  == [part |-> name, msg |-> m]
Parts(m)       == <<Part("header", m)>> \o (IF m.full THEN <<Part("payload", m)>> ELSE <<>>)

VARIABLES
  clients,  \* ipc_client_list: the struct ipc_client of every connection
  socket,   \* the connection: "none", "connected", "hung_up" by the client,
            \* "shut" by the server or "reset", shut with unread requests
  inbox,    \* the parts on the way to the server
  outbox,   \* the parts on the way to the client
  status    \* of the compositor: "running", "stopped" or "undefined"

serverVars == <<clients, socket, inbox, outbox, status>>

Freed == [open |-> FALSE, subscribed |-> {}, buffer |-> <<>>, armed |-> FALSE]
Fresh == [open |-> TRUE,  subscribed |-> {}, buffer |-> <<>>, armed |-> FALSE]

-----------------------------------------------------------------------------
(* Sending.  The operators return the struct, or all of them, afterwards.  *)

\* Mutant: a message is queued without asking to be told when to write it.
ReplyUnarmed(cl, m) ==
  IF Len(cl.buffer) + Len(Parts(m)) >= BufferLimit THEN Freed
  ELSE [cl EXCEPT !.buffer = @ \o Parts(m)]

\* ipc_send_reply: a client whose buffer would grow too big is disconnected.
Reply(cl, m) ==
  IF Len(cl.buffer) + Len(Parts(m)) >= BufferLimit THEN Freed
  ELSE [cl EXCEPT !.buffer = @ \o Parts(m), !.armed = TRUE]

SendEvent(cls, event, m) ==
  [c \in Clients |-> IF event \in cls[c].subscribed THEN Reply(cls[c], m) ELSE cls[c]]

EventTag(cls) == SendEvent(cls, "workspace", TagEvent)

-----------------------------------------------------------------------------
(* Handling one request of client c.  Each returns the set with the structs *)
(* afterwards, or the empty set when the handler uses memory it has freed,  *)
(* and what follows is undefined.                                           *)

\* execute_command: the script runs and may change tags.
ExecuteCommand(cls, changesTags) == IF changesTags THEN EventTag(cls) ELSE cls

\* handle_ipc_command.  The client may have been disconnected by the event its
\* own command caused.
HandleCommand(cls, c, changesTags) ==
  LET after == ExecuteCommand(cls, changesTags)
  IN  IF after[c].open THEN {[after EXCEPT ![c] = Reply(@, Answer("command"))]} ELSE {}

HandleQuery(cls, c, type) == {[cls EXCEPT ![c] = Reply(@, Answer(type))]}

\* handle_ipc_subscribe.  After an event it does not know it gives up the parsed
\* request and goes on reading it.
HandleSubscribe(cls, c, events) ==
  LET named   == [cls[c] EXCEPT !.subscribed = @ \cup events]
      granted == Reply(named, Answer("subscribe"))
      ticked  == IF "tick" \in events THEN Reply(granted, Answer("tick")) ELSE granted
  IN  IF "unsupported" \in events \/ ("tick" \in events /\ ~granted.open) THEN {}
      ELSE {[cls EXCEPT ![c] = ticked]}

\* dispatch_ipc_command
Dispatch(cls, c, r, changesTags) ==
  CASE r.type = "command"   -> HandleCommand(cls, c, changesTags)
    [] r.type = "subscribe" -> HandleSubscribe(cls, c, r.events)
    [] r.type = "unknown"   -> {cls}
    [] OTHER                -> HandleQuery(cls, c, r.type)

-----------------------------------------------------------------------------
(* The handlers of the event loop *)

\* Store the structs; the sockets of those that were freed are shut and what
\* was not read of them is lost.
Store(cls, in) ==
  LET freed == {c \in Clients : clients[c].open /\ ~cls[c].open}
  IN  /\ clients' = cls
      /\ inbox' = [c \in Clients |-> IF c \in freed THEN <<>> ELSE in[c]]
      /\ socket' = [c \in Clients |->
           IF c \notin freed THEN socket[c]
           ELSE IF socket[c] = "hung_up" THEN "none"
           ELSE IF in[c] = <<>> THEN "shut" ELSE "reset"]

\* ipc_client_disconnect
Disconnect(c, in) == Store([clients EXCEPT ![c] = Freed], in)

\* ipc_handle_connection
Accept(c) ==
  /\ status = "running"
  /\ ~clients[c].open
  /\ socket[c] \in {"connected", "hung_up"}
  /\ clients' = [clients EXCEPT ![c] = Fresh]
  /\ UNCHANGED <<socket, inbox, outbox, status>>

\* check_socket_errors, and the same test in ipc_client_handle_writable.
HangUp(c) ==
  /\ status = "running"
  /\ clients[c].open
  /\ socket[c] = "hung_up"
  /\ Disconnect(c, inbox)
  /\ outbox' = [outbox EXCEPT ![c] = <<>>]
  /\ UNCHANGED status

\* receive_and_verify_payload without a payload to receive.
NoPayload(c, rest) == Disconnect(c, [inbox EXCEPT ![c] = rest])

\* Mutant: the request stays in the socket and is answered again.
AfterRequest(c) == inbox

WithoutRequest(c) == [inbox EXCEPT ![c] = SubSeq(@, 3, Len(@))]

\* handle_client_payload: a request with a payload is received and answered in
\* the call that received its header; one without a payload is never answered.
HandleClientPayload(c, r) ==
  \/ /\ ~r.full
     /\ inbox' = [inbox EXCEPT ![c] = Tail(@)]
     /\ UNCHANGED <<clients, socket, status>>
  \/ /\ r.full
     /\ Len(inbox[c]) = 1
     /\ NoPayload(c, <<>>)
     /\ UNCHANGED status
  \/ /\ r.full
     /\ Len(inbox[c]) > 1
     /\ \E changesTags \in BOOLEAN :
          LET results == Dispatch(clients, c, r, changesTags)
          IN  \/ /\ \E cls \in results : Store(cls, WithoutRequest(c))
                 /\ UNCHANGED status
              \/ /\ results = {}
                 /\ status' = "undefined"
                 /\ UNCHANGED <<clients, socket, inbox>>

\* read_client_header
ReadClientHeader(c) ==
  LET r == Head(inbox[c]).msg
  IN  \/ /\ r.type = "malformed"
         /\ Disconnect(c, [inbox EXCEPT ![c] = Tail(@)])
         /\ UNCHANGED status
      \/ /\ r.type # "malformed"
         /\ HandleClientPayload(c, r)

\* ipc_client_handle_readable.  A client that hung up after the event loop looked
\* is still answered.
Readable(c) ==
  /\ status = "running"
  /\ clients[c].open
  /\ inbox[c] # <<>>
  /\ ReadClientHeader(c)
  /\ UNCHANGED outbox

\* Mutant: what was written is not moved out of the buffer.
Unmoved(buffer, written) == buffer

\* The memmove of ipc_client_handle_writable.
Moved(buffer, written) == SubSeq(buffer, written + 1, Len(buffer))

\* ipc_client_handle_writable.  The kernel takes what there is room for, or
\* less; a client that hung up after the event loop looked fails the write.
Writable(c) ==
  /\ status = "running"
  /\ clients[c].armed
  /\ \/ /\ socket[c] = "connected"
        /\ \E written \in 1..Min({Len(clients[c].buffer), SocketSize - Len(outbox[c])}) :
             LET left == Moved(clients[c].buffer, written)
             IN  /\ outbox' = [outbox EXCEPT ![c] = @ \o SubSeq(clients[c].buffer, 1, written)]
                 /\ clients' = [clients EXCEPT ![c].buffer = left, ![c].armed = left # <<>>]
        /\ UNCHANGED <<socket, inbox>>
     \/ /\ socket[c] = "hung_up"
        /\ Disconnect(c, inbox)
        /\ outbox' = [outbox EXCEPT ![c] = <<>>]
  /\ UNCHANGED status

\* A key, the pointer or a window changes the tags: ipc_event_tag.
TagsChange ==
  /\ status = "running"
  /\ Store(EventTag(clients), inbox)
  /\ UNCHANGED <<outbox, status>>

\* The compositor ends and the kernel closes its sockets.
Stop ==
  /\ status = "running"
  /\ status' = "stopped"
  /\ clients' = [c \in Clients |-> Freed]
  /\ inbox' = [c \in Clients |-> <<>>]
  /\ socket' = [c \in Clients |-> CASE socket[c] \in {"none", "hung_up"} -> "none"
                                    [] socket[c] = "connected" /\ inbox[c] = <<>> -> "shut"
                                    [] socket[c] = "connected" /\ inbox[c] # <<>> -> "reset"
                                    [] OTHER -> socket[c]]
  /\ UNCHANGED outbox

ServerInit ==
  /\ clients = [c \in Clients |-> Freed]
  /\ socket = [c \in Clients |-> "none"]
  /\ inbox = [c \in Clients |-> <<>>]
  /\ outbox = [c \in Clients |-> <<>>]
  /\ status = "running"

ServerNext ==
  \/ \E c \in Clients : Accept(c) \/ HangUp(c) \/ Readable(c) \/ Writable(c)
  \/ TagsChange
  \/ Stop

ServerFairness ==
  \A c \in Clients : WF_serverVars(Accept(c)) /\ WF_serverVars(HangUp(c))
                       /\ WF_serverVars(Readable(c)) /\ WF_serverVars(Writable(c))

-----------------------------------------------------------------------------
PartOf(messages) == [part : {"header", "payload"}, msg : messages]

Client == [open : BOOLEAN, subscribed : SUBSET EventNames,
           buffer : Seq(PartOf(Message)), armed : BOOLEAN]

ServerTypeOK ==
  /\ clients \in [Clients -> Client]
  /\ socket \in [Clients -> {"none", "connected", "hung_up", "shut", "reset"}]
  /\ inbox \in [Clients -> Seq(PartOf(Request))]
  /\ outbox \in [Clients -> Seq(PartOf(Message))]
  /\ status \in {"running", "stopped", "undefined"}
=============================================================================
