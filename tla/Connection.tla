----------------------------- MODULE Connection -----------------------------
(***************************************************************************)
(* One connection task of src/connection.c: Connection_task feeds the      *)
(* state machine of module State with the event that the last callback     *)
(* returned, until that event is CLOSE, and feeds it CLOSE once more.      *)
(*                                                                         *)
(* Each connection_* callback is an action.  What the peers do (a client   *)
(* that sends, stalls or hangs up, an upstream server that answers or not, *)
(* a handler socket that accepts a message or not) is the choice of the    *)
(* event a callback returns.  Request bytes are abstracted to the kind of  *)
(* request, its host, its path and its Connection header.                  *)
(***************************************************************************)
EXTENDS State, Naturals

CONSTANTS
    Hosts,         \* the configured virtual hosts
    HostNames,     \* names a Host header may carry, configured or not
    Paths,         \* request paths
    Backends,      \* one Backend is allocated for each route of each host
    Route,         \* [Hosts -> [Paths -> Backends \cup {None}]]
    BackendType,   \* [Backends -> HANDLER, DIRECTORY or PROXY]
    default_host,  \* srv->default_host
    None

ASSUME ConnectionAssumption ==
    /\ Hosts \subseteq HostNames
    /\ default_host \in Hosts
    /\ None \notin HostNames \cup Backends \cup Paths
    /\ Route \in [Hosts -> [Paths -> Backends \cup {None}]]
    /\ BackendType \in [Backends -> {"HANDLER", "DIRECTORY", "PROXY"}]

VARIABLES
    task,         \* Connection_task: in its loop, in the last State_exec, or ended
    next,         \* the event returned by the last callback; "none" is 0
    req,          \* the request being served: conn->req and conn->close
    action,       \* req->action, the Backend it was routed to
    target_host,  \* req->target_host
    pattern,      \* req->pattern, identified with the Backend of its route
    registered,   \* REGISTRATIONS[conn->fd].conn_type, "none" for 0
    fdcloses,     \* how often the task has closed conn->fd
    proxy_fd,     \* conn->proxy_fd: "none" for 0, "failed" for -1, or "open"
    upstream,     \* sockets to upstream servers this task holds open
    destroyed,    \* Connection_destroy has run
    replies,      \* responses the server has begun for the current request
    announced     \* the response to req said "Connection: close"

routing   == <<action, target_host, pattern>>
resources == <<registered, fdcloses, proxy_fd, upstream, destroyed>>
reply     == <<replies, announced>>
vars      == <<cs, calls, task, next, req, routing, resources, reply>>

Kinds == {"HTTP", "MSG", "SOCKET"}

(* MSG and SOCKET requests carry no headers. *)
Requests ==
    [kind : {"HTTP"}, host : HostNames \cup {None}, path : Paths, close : BOOLEAN]
    \cup [kind : {"MSG", "SOCKET"}, host : {None}, path : Paths, close : {FALSE}]

NoRequest == [kind |-> "none", host |-> None, path |-> None, close |-> FALSE]

Events == {"none", "ACCEPT", "CLOSE", "CONNECT", "DIRECTORY", "FAILED", "HANDLER",
           "HTTP_REQ", "MSG_REQ", "OPEN", "PROXY", "REMOTE_CLOSE", "REQ_RECV",
           "REQ_SENT", "RESP_SENT", "SOCKET_REQ"}

Init ==
    /\ State_init
    /\ task = "loop"
    /\ next = "OPEN"
    /\ req = NoRequest
    /\ action = None /\ target_host = None /\ pattern = None
    /\ registered = "none"
    /\ fdcloses = 0
    /\ proxy_fd = "none"
    /\ upstream = 0
    /\ destroyed = FALSE
    /\ replies = 0
    /\ announced = FALSE

-----------------------------------------------------------------------------
(* Connection_task. *)

(* The loop: State_exec with the last event, as long as it is a valid one. *)
Connection_task_loop ==
    /\ task = "loop"
    /\ next \notin {"none", "CLOSE"}
    /\ State_exec(next)
    /\ next' = "none"
    /\ UNCHANGED <<task, req, routing, resources, reply>>

(* The loop ends, and the machine is given CLOSE once more. *)
Connection_task_close ==
    /\ task = "loop"
    /\ next = "CLOSE"
    /\ State_exec("CLOSE")
    /\ task' = "closing"
    /\ next' = "none"
    /\ UNCHANGED <<req, routing, resources, reply>>

(***************************************************************************)
(* "Invalid next event, Tell ZED": State_exec ran no callback.  The code   *)
(* then sends a 500 and CLOSE; NoInvalidEvent shows it never comes here,   *)
(* so no action is given for it.                                           *)
(***************************************************************************)
InvalidEvent == task = "loop" /\ calls = <<>> /\ next = "none"

Connection_task_return ==
    /\ task = "closing"
    /\ calls = <<>>
    /\ task' = "done"
    /\ UNCHANGED <<cs, calls, next, req, routing, resources, reply>>

(* The callback c runs and returns event e. *)
Callback(c) ==
    /\ calls # <<>>
    /\ Head(calls) = c
    /\ calls' = Tail(calls)
    /\ UNCHANGED <<cs, task>>

Returns(e) == next' = e

(* Response_send_status: every status response announces the close. *)
Response_send_status ==
    /\ replies' = replies + 1
    /\ announced' = TRUE

-----------------------------------------------------------------------------
(* Reading a request. *)

(***************************************************************************)
(* Connection_read_header clears the request's own parts (not its action,  *)
(* target_host or pattern), reads and parses.  The client may hang up, or  *)
(* send what the parser refuses, which is answered with a 400.             *)
(***************************************************************************)
Connection_read_header(r) ==
    /\ req' = r
    /\ replies' = 0
    /\ announced' = FALSE

read_header_closed ==
    /\ req' = NoRequest
    /\ replies' = 0
    /\ announced' = FALSE

read_header_400 ==
    /\ req' = NoRequest
    /\ replies' = 1
    /\ announced' = TRUE

connection_open ==
    /\ Callback("open")
    /\ Returns("ACCEPT")
    /\ UNCHANGED <<req, routing, resources, reply>>

connection_parse ==
    /\ Callback("parse")
    /\ \/ \E r \in Requests : Connection_read_header(r) /\ Returns("REQ_RECV")
       \/ read_header_closed /\ Returns("CLOSE")
       \/ read_header_400 /\ Returns("CLOSE")
    /\ UNCHANGED <<routing, resources>>

ident_and_register ==
    Returns(CASE req.kind = "SOCKET" -> "SOCKET_REQ"
              [] req.kind = "MSG"    -> "MSG_REQ"
              [] OTHER               -> "HTTP_REQ")

connection_register_request ==
    /\ Callback("register_request")
    /\ ident_and_register
    /\ registered' = req.kind
    /\ UNCHANGED <<req, routing, fdcloses, proxy_fd, upstream, destroyed, reply>>

connection_identify_request ==
    /\ Callback("identify_request")
    /\ ident_and_register
    /\ UNCHANGED <<req, routing, resources, reply>>

-----------------------------------------------------------------------------
(* Routing. *)

(* Server_match_backend: the host a name stands for. *)
Server_match_backend(name) == IF name \in Hosts THEN name ELSE None

RequestHost(r) == IF r.host = None THEN default_host ELSE Server_match_backend(r.host)

Host_match_backend(host, path) == IF host = None THEN None ELSE Route[host][path]

(* The backend that routing request r from scratch selects. *)
Selected(r) == Host_match_backend(RequestHost(r), r.path)

Connection_backend_event(found) == BackendType[found]

Request_set_action(found) == action' = found

connection_route_request ==
    /\ Callback("route_request")
    /\ \/ /\ Selected(req) = None
          /\ Response_send_status
          /\ Returns("CLOSE")
          /\ UNCHANGED routing
       \/ /\ Selected(req) # None
          /\ Request_set_action(Selected(req))
          /\ target_host' = RequestHost(req)
          /\ pattern' = Selected(req)
          /\ Returns(Connection_backend_event(Selected(req)))
          /\ UNCHANGED reply
    /\ UNCHANGED <<req, resources>>

-----------------------------------------------------------------------------
(* Backends that answer at once or queue the request. *)

connection_send_socket_response ==
    /\ Callback("send_socket_response")
    /\ \/ Returns("RESP_SENT")
       \/ Returns("CLOSE")
    /\ replies' = replies + 1
    /\ UNCHANGED <<req, routing, resources, announced>>

(* A ping or a delivered message, or a handler socket that refuses. *)
connection_msg_to_handler ==
    /\ Callback("msg_to_handler")
    /\ \/ Returns("REQ_SENT")
       \/ Returns("CLOSE")
    /\ UNCHANGED <<req, routing, resources, reply>>

(***************************************************************************)
(* Delivered; or the body could not be read (or stored) and the connection *)
(* closes without a word; or 413 (upload refused) or 502 (not delivered).  *)
(***************************************************************************)
connection_http_to_handler_Sent ==  \* mutant: goes on although it was not delivered
    /\ Callback("http_to_handler")
    /\ \/ Returns("REQ_SENT") /\ UNCHANGED reply
       \/ Returns("CLOSE") /\ UNCHANGED reply
       \/ Returns("REQ_SENT") /\ Response_send_status
    /\ UNCHANGED <<req, routing, resources>>

connection_http_to_handler ==
    /\ Callback("http_to_handler")
    /\ \/ Returns("REQ_SENT") /\ UNCHANGED reply
       \/ Returns("CLOSE") /\ UNCHANGED reply
       \/ Returns("CLOSE") /\ Response_send_status
    /\ UNCHANGED <<req, routing, resources>>

(***************************************************************************)
(* Dir_serve_file sends the file, or a status response (304, 404, 412...)  *)
(* that counts as served; a 405 or a failed send closes.  Afterwards       *)
(* conn->close decides.                                                    *)
(***************************************************************************)
connection_http_to_directory ==
    /\ Callback("http_to_directory")
    /\ \/ /\ replies' = replies + 1 /\ UNCHANGED announced
          /\ Returns(IF req.close THEN "CLOSE" ELSE "RESP_SENT")
       \/ /\ Response_send_status
          /\ Returns(IF req.close THEN "CLOSE" ELSE "RESP_SENT")
       \/ /\ replies' = replies + 1 /\ UNCHANGED announced
          /\ Returns("CLOSE")
       \/ /\ Response_send_status
          /\ Returns("CLOSE")
    /\ UNCHANGED <<req, routing, resources>>

-----------------------------------------------------------------------------
(* Proxying. *)

connection_http_to_proxy_RemoteClose ==  \* mutant: REMOTE_CLOSE, not FAILED
    /\ Callback("http_to_proxy")
    /\ \/ proxy_fd' = "open" /\ upstream' = upstream + 1 /\ Returns("CONNECT")
       \/ proxy_fd' = "failed" /\ Returns("REMOTE_CLOSE") /\ UNCHANGED upstream
    /\ UNCHANGED <<req, routing, registered, fdcloses, destroyed, reply>>

connection_http_to_proxy ==
    /\ Callback("http_to_proxy")
    /\ \/ /\ proxy_fd' = "open"
          /\ upstream' = upstream + 1
          /\ Returns("CONNECT")
       \/ /\ proxy_fd' = "failed"
          /\ Returns("FAILED")
          /\ UNCHANGED upstream
    /\ UNCHANGED <<req, routing, registered, fdcloses, destroyed, reply>>

connection_proxy_deliver ==
    /\ Callback("proxy_deliver")
    /\ \/ Returns("REQ_SENT")
       \/ Returns("REMOTE_CLOSE")
    /\ UNCHANGED <<req, routing, resources, reply>>

connection_proxy_reply_parse_502 ==  \* mutant: a failed stream sends a 502
    /\ Callback("proxy_reply_parse")
    /\ \/ Returns("REQ_RECV") /\ replies' = replies + 1
       \/ Returns("FAILED") /\ replies' = replies + 2
    /\ UNCHANGED <<req, routing, resources, announced>>

(* The whole response is streamed, or it fails before or after its start. *)
connection_proxy_reply_parse ==
    /\ Callback("proxy_reply_parse")
    /\ \/ Returns("REQ_RECV") /\ replies' = replies + 1
       \/ Returns("FAILED") /\ replies' = replies + 1
       \/ Returns("FAILED") /\ UNCHANGED replies
    /\ UNCHANGED <<req, routing, resources, announced>>

(***************************************************************************)
(* The next request of a proxied connection is matched against the host of *)
(* the previous one.  The comparison of the Host headers compares the new  *)
(* header with a copy of itself, so its PROXY branch is never taken; the   *)
(* pattern of the new route is not asked for.                              *)
(***************************************************************************)
connection_proxy_req_parse ==
    /\ Callback("proxy_req_parse")
    /\ \/ /\ read_header_closed \/ read_header_400
          /\ Returns("REMOTE_CLOSE")
          /\ UNCHANGED action
       \/ \E r \in Requests :
            /\ req' = r
            /\ \/ /\ r.kind # "HTTP" \/ Host_match_backend(target_host, r.path) = None
                  /\ replies' = 1 /\ announced' = TRUE
                  /\ Returns("REMOTE_CLOSE")
                  /\ UNCHANGED action
               \/ /\ r.kind = "HTTP"
                  /\ Host_match_backend(target_host, r.path) # None
                  /\ replies' = 0 /\ announced' = FALSE
                  /\ LET found == Host_match_backend(target_host, r.path) IN
                       \/ /\ found # action
                          /\ Request_set_action(found)
                          /\ Returns(Connection_backend_event(found))
                       \/ /\ found = action
                          /\ Returns("HTTP_REQ")
                          /\ UNCHANGED action
    /\ UNCHANGED <<target_host, pattern, resources>>

connection_proxy_failed ==
    /\ Callback("proxy_failed")
    /\ Response_send_status
    /\ Returns("CLOSE")
    /\ UNCHANGED <<req, routing, resources>>

CloseProxy_Unchecked ==  \* mutant: closes whatever proxy_fd holds
    /\ upstream' = upstream - 1
    /\ proxy_fd' = "none"

(* fdclose ignores -1; proxy_fd is zeroed whatever it was. *)
CloseProxy ==
    /\ upstream' = IF proxy_fd = "open" THEN upstream - 1 ELSE upstream
    /\ proxy_fd' = "none"

connection_proxy_close_NoEvent ==  \* mutant: returns 0, as connection_close does
    /\ Callback("proxy_close")
    /\ CloseProxy
    /\ Returns("none")
    /\ UNCHANGED <<req, routing, registered, fdcloses, destroyed, reply>>

connection_proxy_close ==
    /\ Callback("proxy_close")
    /\ CloseProxy
    /\ Returns("CLOSE")
    /\ UNCHANGED <<req, routing, registered, fdcloses, destroyed, reply>>

-----------------------------------------------------------------------------
(* The end of the connection. *)

(* Closes the proxy, then Register_disconnect, which always closes fd. *)
close_or_error ==
    /\ IF proxy_fd # "none" THEN CloseProxy ELSE UNCHANGED <<proxy_fd, upstream>>
    /\ registered' = "none"
    /\ fdcloses' = fdcloses + 1

connection_close ==
    /\ Callback("close")
    /\ close_or_error
    /\ Returns("none")
    /\ UNCHANGED <<req, routing, destroyed, reply>>

connection_error ==
    /\ Callback("error")
    /\ close_or_error
    /\ Returns("CLOSE")
    /\ UNCHANGED <<req, routing, destroyed, reply>>

connection_finish ==
    /\ Callback("finish")
    /\ destroyed' = TRUE
    /\ Returns("CLOSE")
    /\ UNCHANGED <<req, routing, registered, fdcloses, proxy_fd, upstream, reply>>

(* The task has returned. *)
Terminated == task = "done" /\ UNCHANGED vars

-----------------------------------------------------------------------------
(* Steps that wait for nobody: bookkeeping and closing. *)
Prompt ==
    \/ Connection_task_loop
    \/ Connection_task_close
    \/ Connection_task_return
    \/ connection_proxy_close
    \/ connection_close
    \/ connection_error
    \/ connection_finish

(* Steps that may wait for a client, an upstream server or a handler. *)
Waiting ==
    \/ connection_parse
    \/ connection_send_socket_response
    \/ connection_msg_to_handler
    \/ connection_http_to_handler
    \/ connection_http_to_directory
    \/ connection_http_to_proxy
    \/ connection_proxy_deliver
    \/ connection_proxy_reply_parse
    \/ connection_proxy_req_parse
    \/ connection_proxy_failed
    \/ connection_route_request

Next ==
    \/ Prompt
    \/ Waiting
    \/ connection_open
    \/ connection_register_request
    \/ connection_identify_request
    \/ Terminated

Spec == Init /\ [][Next]_vars

(* Fairness is asked only of the steps that wait for nobody. *)
FairSpec == Spec /\ WF_vars(Prompt)

-----------------------------------------------------------------------------
TypeOK ==
    /\ cs \in CONNECTION_STATES \cup PROXY_STATES
    /\ task \in {"loop", "closing", "done"}
    /\ next \in Events
    /\ req \in Requests \cup {NoRequest}
    /\ action \in Backends \cup {None}
    /\ target_host \in Hosts \cup {None}
    /\ pattern \in Backends \cup {None}
    /\ registered \in Kinds \cup {"none"}
    /\ fdcloses \in Nat
    /\ proxy_fd \in {"none", "failed", "open"}
    /\ upstream \in Nat
    /\ destroyed \in BOOLEAN
    /\ replies \in Nat
    /\ announced \in BOOLEAN

(***************************************************************************)
(* The event a callback returns always has a meaning: the "Invalid next    *)
(* event, Tell ZED" branch of Connection_task is dead code, so the         *)
(* callbacks, the event order and Ragel's table fit together.              *)
(***************************************************************************)
NoInvalidEvent == ~InvalidEvent

(***************************************************************************)
(* Whatever the peers do, the task closes its descriptor exactly once      *)
(* before it returns, is then no longer registered and holds no socket to  *)
(* an upstream server; it never closes the descriptor (whose number may by *)
(* then belong to another connection) a second time.                       *)
(***************************************************************************)
ReleasedExactlyOnce ==
    /\ fdcloses <= 1
    /\ fdcloses = 1 => registered = "none"
    /\ task = "done" => fdcloses = 1 /\ upstream = 0

(***************************************************************************)
(* The only upstream socket is the one conn->proxy_fd names, and it is     *)
(* held only in the proxy states: switching between proxies, handlers and  *)
(* directories on a keep-alive connection leaks none.                      *)
(***************************************************************************)
UpstreamIsProxyFd ==
    /\ upstream = (IF proxy_fd = "open" THEN 1 ELSE 0)
    /\ calls = <<>> /\ proxy_fd # "none" => cs \in PROXY_STATES

IOCallbacks ==
    {"parse", "send_socket_response", "route_request", "msg_to_handler",
     "http_to_handler", "http_to_directory", "http_to_proxy", "proxy_deliver",
     "proxy_reply_parse", "proxy_req_parse", "proxy_failed"}

(* No callback uses the descriptor or the Connection after its release. *)
NoUseAfterRelease ==
    calls # <<>> =>
        /\ Head(calls) \in IOCallbacks \cup {"close", "error"} => fdcloses = 0
        /\ ~destroyed

(***************************************************************************)
(* A backend is called with a request that its own route selected: the     *)
(* callback fits the type of req->action (the target is a C union), and    *)
(* req->action is the route of the current path under target_host, also    *)
(* for the later requests of a proxied connection.                         *)
(***************************************************************************)
CallbackType(c) ==
    CASE c \in {"http_to_handler", "msg_to_handler"} -> "HANDLER"
      [] c = "http_to_directory" -> "DIRECTORY"
      [] c \in {"http_to_proxy", "proxy_deliver", "proxy_reply_parse"} -> "PROXY"
      [] OTHER -> "any"

BackendCallback(c) == CallbackType(c) # "any"

BackendFitsRequest ==
    \A i \in DOMAIN calls : BackendCallback(calls[i]) =>
        /\ action = Host_match_backend(target_host, req.path)
        /\ action # None
        /\ BackendType[action] = CallbackType(calls[i])

(***************************************************************************)
(* A request is answered at most once by the server: no status response    *)
(* follows a response that has begun.                                      *)
(***************************************************************************)
AtMostOneResponse == replies <= 1

(***************************************************************************)
(* A response that says "Connection: close" (response.c:115) is the        *)
(* connection's last, through keep-alive and the reuse of a proxied        *)
(* connection, unless a directory sent it: Dir_serve_file counts its       *)
(* status responses as served and the connection reads another request.    *)
(***************************************************************************)
DirectoryAnswers == action # None /\ BackendType[action] = "DIRECTORY"

AnnouncedCloseIsKept ==
    [][(announced /\ ~DirectoryAnswers) => req' \in {req, NoRequest}]_vars

(***************************************************************************)
(* Once a callback has reported that a side is gone, the task closes the   *)
(* connection and ends without waiting for anyone.                         *)
(***************************************************************************)
HangupReported == calls = <<>> /\ next \in {"CLOSE", "REMOTE_CLOSE"}

HangupEndsTask == HangupReported ~> (task = "done")

-----------------------------------------------------------------------------
(* What the task promises, as the rest of the server sees it. *)
phase ==
    IF task = "done" THEN "ended"
    ELSE IF fdcloses > 0 THEN "released"
    ELSE IF registered # "none" THEN "registered"
    ELSE "accepted"

Life == INSTANCE ConnectionLife WITH phase <- phase, link <- upstream

(***************************************************************************)
(* The task implements ConnectionLife: every callback it runs is one of    *)
(* the abstract steps, in their order, or invisible from outside.          *)
(***************************************************************************)
ImplementsLife == Life!Spec

(***************************************************************************)
(* connection.c: a request is given to a backend of the type its route     *)
(* names, and is answered at most once.                                    *)
(***************************************************************************)
AnswersFitRequests ==
    /\ BackendFitsRequest /\ AtMostOneResponse
=============================================================================
