------------------------------- MODULE State -------------------------------
(***************************************************************************)
(* The connection state machine of src/state_machine.rl as Ragel compiled  *)
(* it into State_exec (src/state.c).  One call of State_exec consumes one  *)
(* event: it runs zero, one or two callbacks of the StateActions table and *)
(* moves to another state.                                                 *)
(*                                                                         *)
(* A state is named as in state_machine.rl; "Identified" is the unnamed    *)
(* state between the two events of an Idle transition, "ProxyStart" is     *)
(* Proxy.start, and "error" is Ragel's state 0.                            *)
(***************************************************************************)
EXTENDS Sequences

VARIABLES
    cs,     \* state->cs
    calls   \* callbacks that the State_exec in progress has still to run

CONNECTION_STATES ==
    {"start", "Accepting", "Identifying", "Registered", "HTTPRouting",
     "Responding", "Idle", "Identified", "MSGRouting", "Queueing", "final", "error"}

PROXY_STATES == {"ProxyStart", "Sending", "Receiving", "Proxying", "Closing"}

(* action proxy_exit_routing: close the proxy, then route the same event. *)
proxy_exit_routing_NoClose(callback) == <<callback>>  \* mutant: proxy left open

proxy_exit_routing(callback) == <<"proxy_close", callback>>

(* CLOSE is also the end of the input: eof in the final state runs finish. *)
close_eof_NoClose == <<"finish">>  \* mutant: destroyed without being closed

close_eof == <<"close", "finish">>

(* The error callback; the generated code jumps to state 0 after it. *)
error_callback_Finish == <<"error", "error">>  \* mutant: also run at eof

error_callback == <<"error">>

(***************************************************************************)
(* <<state, event, callbacks, next state>>.  CLOSE is also the end of the  *)
(* input: reaching final with it runs finish after close.  Closing hands   *)
(* its CLOSE to Idle, and Proxying hands a change of backend to            *)
(* HTTPRouting after closing the proxy, both within the same State_exec.   *)
(***************************************************************************)
Table ==
    { <<"start",       "OPEN",         <<"open">>,                 "Accepting">>,
      <<"Accepting",   "ACCEPT",       <<"parse">>,                "Identifying">>,
      <<"Identifying", "REQ_RECV",     <<"register_request">>,     "Registered">>,
      <<"Identifying", "CLOSE",        close_eof,                  "final">>,
      <<"Registered",  "HTTP_REQ",     <<"route_request">>,        "HTTPRouting">>,
      <<"Registered",  "MSG_REQ",      <<"route_request">>,        "MSGRouting">>,
      <<"Registered",  "SOCKET_REQ",   <<"send_socket_response">>, "Responding">>,
      <<"Registered",  "CLOSE",        close_eof,                  "final">>,
      <<"Idle",        "REQ_RECV",     <<"identify_request">>,     "Identified">>,
      <<"Idle",        "CLOSE",        close_eof,                  "final">>,
      <<"Identified",  "HTTP_REQ",     <<"route_request">>,        "HTTPRouting">>,
      <<"Identified",  "MSG_REQ",      <<"route_request">>,        "MSGRouting">>,
      <<"Identified",  "SOCKET_REQ",   <<"send_socket_response">>, "Responding">>,
      <<"MSGRouting",  "HANDLER",      <<"msg_to_handler">>,       "Queueing">>,
      <<"HTTPRouting", "HANDLER",      <<"http_to_handler">>,      "Queueing">>,
      <<"HTTPRouting", "PROXY",        <<"http_to_proxy">>,        "ProxyStart">>,
      <<"HTTPRouting", "DIRECTORY",    <<"http_to_directory">>,    "Responding">>,
      <<"HTTPRouting", "CLOSE",        close_eof,                  "final">>,
      <<"Queueing",    "REQ_SENT",     <<"parse">>,                "Idle">>,
      <<"Responding",  "RESP_SENT",    <<"parse">>,                "Idle">>,
      <<"Responding",  "CLOSE",        close_eof,                  "final">>,
      <<"final",       "OPEN",         <<"open">>,                 "Accepting">>,
      <<"ProxyStart",  "CONNECT",      <<"proxy_deliver">>,        "Sending">>,
      <<"ProxyStart",  "FAILED",       <<"proxy_failed">>,         "Closing">>,
      <<"Sending",     "REQ_SENT",     <<"proxy_reply_parse">>,    "Receiving">>,
      <<"Sending",     "REMOTE_CLOSE", <<"proxy_close">>,          "Closing">>,
      <<"Receiving",   "REQ_RECV",     <<"proxy_req_parse">>,      "Proxying">>,
      <<"Receiving",   "REMOTE_CLOSE", <<"proxy_close">>,          "Closing">>,
      <<"Proxying",    "HTTP_REQ",     <<"proxy_deliver">>,        "Sending">>,
      <<"Proxying",    "HANDLER",      proxy_exit_routing("http_to_handler"),   "Queueing">>,
      <<"Proxying",    "PROXY",        proxy_exit_routing("http_to_proxy"),     "ProxyStart">>,
      <<"Proxying",    "DIRECTORY",    proxy_exit_routing("http_to_directory"), "Responding">>,
      <<"Proxying",    "REMOTE_CLOSE", <<"proxy_close">>,          "Closing">>,
      <<"Closing",     "CLOSE",        close_eof,                  "final">> }

State_init ==
    /\ cs = "start"
    /\ calls = <<>>

Matches(t, event) == t[1] = cs /\ t[2] = event

(* An event the current state has a transition for. *)
Accepted(event) ==
    \E t \in Table : /\ Matches(t, event)
                     /\ calls' = t[3]
                     /\ cs' = t[4]

(***************************************************************************)
(* Any other event runs the error callback and enters the error state.     *)
(* The start state and Proxy.start have no error callback, and an event in *)
(* the error state itself falls through the generated switch into state 1. *)
(***************************************************************************)
Refused(event) ==
    /\ \A t \in Table : ~Matches(t, event)
    /\ calls' = IF cs \in {"start", "ProxyStart", "error"} THEN <<>> ELSE error_callback
    /\ cs' = IF cs = "error" THEN "Accepting" ELSE "error"

State_exec(event) ==
    /\ calls = <<>>
    /\ Accepted(event) \/ Refused(event)
=============================================================================
