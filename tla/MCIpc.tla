------------------------------- MODULE MCIpc -------------------------------
(* One japokmsg and one bar. *)
EXTENDS Japokmsg

MCRequests ==
  { [type |-> "get_tags",  full |-> TRUE,  events |-> {}],
    [type |-> "command",   full |-> TRUE,  events |-> {}],
    [type |-> "unknown",   full |-> TRUE,  events |-> {}],
    [type |-> "malformed", full |-> FALSE, events |-> {}],
    [type |-> "subscribe", full |-> TRUE,  events |-> {"workspace", "tick"}],
    [type |-> "subscribe", full |-> TRUE,  events |-> {"unsupported"}] }
=============================================================================
