-------------------------- MODULE ConnectionProofs --------------------------
(***************************************************************************)
(* Proofs about the connection task, for every configuration of hosts,     *)
(* routes and backends.  NoInvalidEvent, ReleasedExactlyOnce and the       *)
(* refinement of ConnectionLife all depend on where in the state machine   *)
(* the task is: Positions lists the events with which it can be at rest in *)
(* a state and the callbacks that can be pending there; the other parts    *)
(* tie the descriptors and the registration to these positions.  AnswersInv*)
(* does the same for the request, its route and its answer, and gives      *)
(* AnswersFitRequests and AnnouncedCloseIsKept.                            *)
(***************************************************************************)
EXTENDS Connection, TLAPS

(* <<state, event>>: between two calls of State_exec, in the loop. *)
AtRest ==
    {<<"start", "OPEN">>, <<"Accepting", "ACCEPT">>,
     <<"Identifying", "REQ_RECV">>, <<"Identifying", "CLOSE">>,
     <<"Registered", "HTTP_REQ">>, <<"Registered", "MSG_REQ">>,
     <<"Registered", "SOCKET_REQ">>,
     <<"Idle", "REQ_RECV">>, <<"Idle", "CLOSE">>,
     <<"Identified", "HTTP_REQ">>, <<"Identified", "MSG_REQ">>,
     <<"Identified", "SOCKET_REQ">>,
     <<"HTTPRouting", "HANDLER">>, <<"HTTPRouting", "PROXY">>,
     <<"HTTPRouting", "DIRECTORY">>, <<"HTTPRouting", "CLOSE">>,
     <<"MSGRouting", "HANDLER">>, <<"MSGRouting", "PROXY">>,
     <<"MSGRouting", "DIRECTORY">>, <<"MSGRouting", "CLOSE">>,
     <<"Queueing", "REQ_SENT">>, <<"Queueing", "CLOSE">>,
     <<"Responding", "RESP_SENT">>, <<"Responding", "CLOSE">>,
     <<"ProxyStart", "CONNECT">>, <<"ProxyStart", "FAILED">>,
     <<"Sending", "REQ_SENT">>, <<"Sending", "REMOTE_CLOSE">>,
     <<"Receiving", "REQ_RECV">>, <<"Receiving", "FAILED">>,
     <<"Proxying", "HTTP_REQ">>, <<"Proxying", "HANDLER">>, <<"Proxying", "PROXY">>,
     <<"Proxying", "DIRECTORY">>, <<"Proxying", "REMOTE_CLOSE">>,
     <<"Closing", "CLOSE">>, <<"error", "CLOSE">>}

(* <<state, callbacks>>: within a State_exec of the loop. *)
InCall ==
    {<<"Accepting", <<"open">>>>, <<"Identifying", <<"parse">>>>,
     <<"Registered", <<"register_request">>>>,
     <<"HTTPRouting", <<"route_request">>>>, <<"MSGRouting", <<"route_request">>>>,
     <<"Responding", <<"send_socket_response">>>>, <<"Idle", <<"parse">>>>,
     <<"Identified", <<"identify_request">>>>,
     <<"Queueing", <<"msg_to_handler">>>>, <<"Queueing", <<"http_to_handler">>>>,
     <<"Queueing", <<"proxy_close", "http_to_handler">>>>,
     <<"Responding", <<"http_to_directory">>>>,
     <<"Responding", <<"proxy_close", "http_to_directory">>>>,
     <<"ProxyStart", <<"http_to_proxy">>>>,
     <<"ProxyStart", <<"proxy_close", "http_to_proxy">>>>,
     <<"Sending", <<"proxy_deliver">>>>, <<"Closing", <<"proxy_failed">>>>,
     <<"Receiving", <<"proxy_reply_parse">>>>, <<"Closing", <<"proxy_close">>>>,
     <<"Proxying", <<"proxy_req_parse">>>>, <<"error", <<"error">>>>}

(* The same within the last State_exec. *)
InClose ==
    {<<"final", <<"close", "finish">>>>, <<"final", <<"finish">>>>, <<"final", <<>>>>,
     <<"error", <<"error">>>>, <<"error", <<>>>>, <<"Accepting", <<>>>>}

Positions ==
    /\ task = "loop" => \/ calls = <<>> /\ <<cs, next>> \in AtRest
                        \/ <<cs, calls>> \in InCall
    /\ task = "closing" => <<cs, calls>> \in InClose
    /\ task = "done" => calls = <<>>

(* The descriptor has been closed at exactly these positions. *)
Released ==
    \/ task = "done"
    \/ cs = "error" /\ calls = <<>>
    \/ task = "closing" /\ cs \in {"final", "Accepting"} /\ calls # <<"close", "finish">>

Releases ==
    /\ fdcloses = IF Released THEN 1 ELSE 0
    /\ Released => registered = "none" /\ proxy_fd = "none"
    /\ destroyed => cs = "final" /\ calls = <<>>

(* An upstream socket, or its failure, is remembered only where it is closed again. *)
Links ==
    /\ upstream = IF proxy_fd = "open" THEN 1 ELSE 0
    /\ proxy_fd # "none" =>
          \/ cs \in PROXY_STATES /\ calls # <<"http_to_proxy">>
          \/ calls \in {<<"proxy_close", "http_to_handler">>,
                        <<"proxy_close", "http_to_directory">>,
                        <<"error">>, <<"close", "finish">>}

(* The states before the first request is registered. *)
Unregistered == {"start", "Accepting", "Identifying"}

Registers ==
    /\ task = "loop" /\ cs \in Unregistered => registered = "none"
    /\ calls = <<"register_request">> => registered = "none"
    /\ registered = "none" =>
          \/ Released
          \/ cs \in Unregistered
          \/ calls \in {<<"register_request">>, <<"close", "finish">>}

(* From REQ_RECV until it is routed, the task has a request that was parsed. *)
Requested ==
    /\ calls \in {<<"register_request">>, <<"identify_request">>, <<"route_request">>} =>
          req \in Requests
    /\ calls = <<>> /\ cs \in {"Identifying", "Idle"} /\ next = "REQ_RECV" =>
          req \in Requests
    /\ calls = <<>> /\ cs \in {"Registered", "Identified"} => req \in Requests

IndInv == TypeOK /\ Positions /\ Releases /\ Links /\ Registers /\ Requested

-----------------------------------------------------------------------------
(* The sequences of callbacks that occur, taken apart. *)
LEMMA CallSequences ==
    /\ \A a : Head(<<a>>) = a /\ Tail(<<a>>) = <<>> /\ <<a>> # <<>>
    /\ \A a, b : /\ Head(<<a, b>>) = a
                 /\ Tail(<<a, b>>) = <<b>>
                 /\ <<a, b>> # <<>>
                 /\ \A c : <<a, b>> # <<c>>
  OBVIOUS

(***************************************************************************)
(* The transitions out of the positions at rest.  Every event is answered  *)
(* by a callback; the upstream socket stays where it is accounted for, and *)
(* registration follows the first request.                                 *)
(***************************************************************************)
LEMMA LoopExec ==
    ASSUME <<cs, next>> \in AtRest, next # "CLOSE", State_exec(next)
    PROVE  /\ <<cs', calls'>> \in InCall
           /\ cs \in PROXY_STATES =>
                 \/ cs' \in PROXY_STATES /\ calls' # <<"http_to_proxy">>
                 \/ calls' \in {<<"proxy_close", "http_to_handler">>,
                                <<"proxy_close", "http_to_directory">>, <<"error">>}
           /\ cs' \in Unregistered => cs \in Unregistered
           /\ cs \in Unregistered =>
                 cs' \in Unregistered \/ calls' = <<"register_request">>
           /\ calls' = <<"register_request">> => cs \in Unregistered
           /\ calls' \in {<<"register_request">>, <<"identify_request">>,
                          <<"route_request">>} =>
                 \/ cs \in {"Identifying", "Idle"} /\ next = "REQ_RECV"
                 \/ cs \in {"Registered", "Identified"}
<1> USE CallSequences DEF Unregistered, PROXY_STATES
<1>1. CASE Accepted(next)
  <2>1. PICK t \in Table : t[1] = cs /\ t[2] = next /\ calls' = t[3] /\ cs' = t[4]
    BY <1>1 DEF Accepted, Matches
  <2> QED BY <2>1 DEF Table, AtRest, InCall, proxy_exit_routing, close_eof
<1>2. CASE Refused(next)
  BY <1>2 DEF Refused, Table, Matches, AtRest, InCall, error_callback
<1> QED BY <1>1, <1>2 DEF State_exec

(* The transitions of the last CLOSE. *)
LEMMA CloseExec ==
    ASSUME <<cs, "CLOSE">> \in AtRest, State_exec("CLOSE")
    PROVE  \/ cs = "error" /\ cs' = "Accepting" /\ calls' = <<>>
           \/ cs # "error" /\ cs' = "final" /\ calls' = <<"close", "finish">>
           \/ cs \notin Unregistered \cup PROXY_STATES \cup {"error"} /\ cs' = "error"
                                                   /\ calls' = <<"error">>
<1> USE CallSequences DEF Unregistered, PROXY_STATES
<1>1. CASE Accepted("CLOSE")
  <2>1. PICK t \in Table : t[1] = cs /\ t[2] = "CLOSE" /\ calls' = t[3] /\ cs' = t[4]
    BY <1>1 DEF Accepted, Matches
  <2> QED BY <2>1 DEF Table, AtRest, proxy_exit_routing, close_eof
<1>2. CASE Refused("CLOSE")
  BY <1>2 DEF Refused, Table, Matches, AtRest, error_callback
<1> QED BY <1>1, <1>2 DEF State_exec

(* Where each callback is called from. *)
LEMMA Sites ==
    ASSUME Positions, task \in {"loop", "closing", "done"}, calls # <<>>
    PROVE  /\ Head(calls) = "open" => task = "loop" /\ cs = "Accepting" /\ calls = <<"open">>
           /\ Head(calls) = "parse" =>
                 task = "loop" /\ cs \in {"Identifying", "Idle"} /\ calls = <<"parse">>
           /\ Head(calls) = "register_request" =>
                 task = "loop" /\ cs = "Registered" /\ calls = <<"register_request">>
           /\ Head(calls) = "identify_request" =>
                 task = "loop" /\ cs = "Identified" /\ calls = <<"identify_request">>
           /\ Head(calls) = "route_request" =>
                 task = "loop" /\ cs \in {"HTTPRouting", "MSGRouting"}
                               /\ calls = <<"route_request">>
           /\ Head(calls) = "send_socket_response" =>
                 task = "loop" /\ cs = "Responding" /\ calls = <<"send_socket_response">>
           /\ Head(calls) = "msg_to_handler" =>
                 task = "loop" /\ cs = "Queueing" /\ calls = <<"msg_to_handler">>
           /\ Head(calls) = "http_to_handler" =>
                 task = "loop" /\ cs = "Queueing" /\ calls = <<"http_to_handler">>
           /\ Head(calls) = "http_to_directory" =>
                 task = "loop" /\ cs = "Responding" /\ calls = <<"http_to_directory">>
           /\ Head(calls) = "http_to_proxy" =>
                 task = "loop" /\ cs = "ProxyStart" /\ calls = <<"http_to_proxy">>
           /\ Head(calls) = "proxy_deliver" =>
                 task = "loop" /\ cs = "Sending" /\ calls = <<"proxy_deliver">>
           /\ Head(calls) = "proxy_reply_parse" =>
                 task = "loop" /\ cs = "Receiving" /\ calls = <<"proxy_reply_parse">>
           /\ Head(calls) = "proxy_req_parse" =>
                 task = "loop" /\ cs = "Proxying" /\ calls = <<"proxy_req_parse">>
           /\ Head(calls) = "proxy_failed" =>
                 task = "loop" /\ cs = "Closing" /\ calls = <<"proxy_failed">>
           /\ Head(calls) = "proxy_close" =>
                 /\ task = "loop"
                 /\ \/ cs = "Closing" /\ calls = <<"proxy_close">>
                    \/ cs = "Queueing" /\ calls = <<"proxy_close", "http_to_handler">>
                    \/ cs = "Responding" /\ calls = <<"proxy_close", "http_to_directory">>
                    \/ cs = "ProxyStart" /\ calls = <<"proxy_close", "http_to_proxy">>
           /\ Head(calls) = "close" =>
                 task = "closing" /\ cs = "final" /\ calls = <<"close", "finish">>
           /\ Head(calls) = "finish" =>
                 task = "closing" /\ cs = "final" /\ calls = <<"finish">>
           /\ Head(calls) = "error" =>
                 task \in {"loop", "closing"} /\ cs = "error" /\ calls = <<"error">>
<1>1. \/ task = "loop" /\ <<cs, calls>> \in InCall
      \/ task = "closing" /\ <<cs, calls>> \in InClose
  BY Zenon DEF Positions
<1>2. CASE <<cs, calls>> \in InCall /\ task = "loop"
  BY <1>2, CallSequences DEF InCall
<1>3. CASE <<cs, calls>> \in InClose /\ task = "closing"
  BY <1>3, CallSequences DEF InClose
<1> QED BY <1>1, <1>2, <1>3

(* The first event is OPEN, and nothing is held. *)
LEMMA InitIndInv == Init => IndInv
<1> SUFFICES ASSUME Init PROVE IndInv
  OBVIOUS
<1> USE DEF Init, State_init
<1>1. TypeOK
  BY DEF TypeOK, CONNECTION_STATES, Events
<1>2. Positions
  BY DEF Positions, AtRest
<1>3. ~Released
  BY DEF Released
<1>4. Releases
  BY <1>3 DEF Releases
<1>5. Links
  BY DEF Links
<1>6. Registers
  BY CallSequences DEF Registers, Unregistered
<1>7. Requested
  BY CallSequences DEF Requested
<1> QED BY <1>1, <1>2, <1>4, <1>5, <1>6, <1>7 DEF IndInv

(* A step of the loop: State_exec with the event of the last callback. *)
LEMMA LoopIndInv ==
    ASSUME IndInv, Connection_task_loop
    PROVE  IndInv'
<1> USE CallSequences DEF IndInv
<1>1. /\ task = "loop" /\ calls = <<>> /\ <<cs, next>> \in AtRest /\ next # "CLOSE"
      /\ State_exec(next)
      /\ next' = "none"
      /\ UNCHANGED <<task, req, action, target_host, pattern, registered, fdcloses,
                     proxy_fd, upstream, destroyed, replies, announced>>
  BY DEF Connection_task_loop, Positions, State_exec, InCall, routing, resources, reply
<1>2. <<cs', calls'>> \in InCall
  BY <1>1, LoopExec
<1>3. calls' # <<>> /\ calls' # <<"close", "finish">> /\ cs' \in CONNECTION_STATES \cup PROXY_STATES
  BY <1>2 DEF InCall, CONNECTION_STATES, PROXY_STATES
<1>4. ~Released /\ ~Released'
  <2>1. cs # "error"
    BY <1>1 DEF AtRest
  <2> QED BY <1>1, <1>3, <2>1 DEF Released
<1>5. TypeOK'
  BY <1>1, <1>3 DEF TypeOK, Events
<1>6. Positions'
  BY <1>1, <1>2 DEF Positions
<1>7. Releases'
  <2>1. cs # "final"
    BY <1>1 DEF AtRest
  <2> QED BY <1>1, <1>4, <2>1 DEF Releases
<1>8. Links'
  BY <1>1, LoopExec DEF Links
<1>9. Registers'
  <2>1. /\ calls' = <<"register_request">> => registered' = "none"
        /\ cs' \in Unregistered => registered' = "none"
    BY <1>1, LoopExec DEF Registers
  <2>2. registered' = "none" =>
            cs' \in Unregistered \/ calls' = <<"register_request">>
    BY <1>1, <1>4, LoopExec DEF Registers
  <2> QED BY <2>1, <2>2 DEF Registers
<1>10. Requested'
  BY <1>1, <1>3, LoopExec DEF Requested
<1> QED BY <1>5, <1>6, <1>7, <1>8, <1>9, <1>10

(* The loop ends: State_exec with CLOSE. *)
LEMMA CloseIndInv ==
    ASSUME IndInv, Connection_task_close
    PROVE  IndInv'
<1> USE CallSequences DEF IndInv
<1>1. /\ task = "loop" /\ calls = <<>> /\ <<cs, "CLOSE">> \in AtRest
      /\ State_exec("CLOSE")
      /\ task' = "closing" /\ next' = "none"
      /\ UNCHANGED <<req, action, target_host, pattern, registered, fdcloses,
                     proxy_fd, upstream, destroyed, replies, announced>>
  BY DEF Connection_task_close, Positions, State_exec, InCall, routing, resources, reply
<1>2. cs # "final"
  BY <1>1 DEF AtRest
<1>3. ~destroyed
  BY <1>2 DEF Releases
<1>4. <<cs', calls'>> \in InClose /\ cs' \in {"Accepting", "final", "error"}
  BY <1>1, CloseExec DEF InClose
<1>5. TypeOK'
  BY <1>1, <1>4 DEF TypeOK, CONNECTION_STATES, Events
<1>6. Positions'
  BY <1>1, <1>4 DEF Positions
<1>7. Requested'
  BY <1>1, <1>4, CloseExec DEF Requested
<1>8. Registers' /\ Releases' /\ Links'
  <2>1. CASE cs = "error" /\ cs' = "Accepting" /\ calls' = <<>>
    <3>1. Released /\ Released'
      BY <1>1, <2>1 DEF Released
    <3> QED BY <1>1, <1>3, <2>1, <3>1 DEF Releases, Links, Registers
  <2>2. CASE cs # "error" /\ cs' = "final" /\ calls' = <<"close", "finish">>
    <3>1. ~Released /\ ~Released'
      BY <1>1, <2>2 DEF Released
    <3> QED BY <1>1, <1>3, <2>2, <3>1 DEF Releases, Links, Registers
  <2>3. CASE /\ cs \notin Unregistered \cup PROXY_STATES \cup {"error"}
             /\ cs' = "error" /\ calls' = <<"error">>
    <3>1. ~Released /\ ~Released'
      BY <1>1, <2>3 DEF Released
    <3> QED BY <1>1, <1>3, <2>3, <3>1 DEF Releases, Links, Registers
  <2> QED BY <1>1, <2>1, <2>2, <2>3, CloseExec
<1> QED BY <1>5, <1>6, <1>7, <1>8

(* The task returns, having released everything. *)
LEMMA ReturnIndInv ==
    ASSUME IndInv, Connection_task_return
    PROVE  IndInv' /\ Released
<1> USE CallSequences DEF IndInv
<1>1. /\ task = "closing" /\ calls = <<>> /\ task' = "done"
      /\ UNCHANGED <<cs, calls, next, req, action, target_host, pattern, registered,
                     fdcloses, proxy_fd, upstream, destroyed, replies, announced>>
  BY DEF Connection_task_return, routing, resources, reply
<1>2. cs \in {"Accepting", "final", "error"}
  BY <1>1 DEF Positions, InClose
<1>3. Released /\ Released'
  BY <1>1, <1>2 DEF Released
<1>4. TypeOK'
  BY <1>1 DEF TypeOK
<1>5. Positions' /\ Links' /\ Requested'
  BY <1>1, <1>2 DEF Positions, Links, Requested
<1>6. Releases' /\ Registers'
  BY <1>1, <1>3 DEF Releases, Registers
<1> QED BY <1>3, <1>4, <1>5, <1>6

-----------------------------------------------------------------------------
(***************************************************************************)
(* A callback that is the last of its State_exec and touches neither the   *)
(* registration nor a descriptor preserves the invariant when it returns   *)
(* an event that its state can be at rest with.                            *)
(***************************************************************************)
LEMMA QuietCallback ==
    ASSUME IndInv, TypeOK', NEW c, c \notin {"register_request", "error"},
           task = "loop", cs # "error", calls = <<c>>, calls' = <<>>,
           UNCHANGED <<cs, task, registered, fdcloses, proxy_fd, upstream, destroyed>>,
           <<cs, next'>> \in AtRest,
           c # "http_to_proxy", cs # "Registered",
           cs = "Identified" => req' = req /\ c = "identify_request",
           cs \in {"Identifying", "Idle"} /\ next' = "REQ_RECV" => req' \in Requests
    PROVE  IndInv'
<1> USE CallSequences DEF IndInv
<1>1. ~Released /\ ~Released'
  BY DEF Released
<1>2. Positions'
  BY DEF Positions
<1>3. Releases'
  BY <1>1 DEF Releases
<1>4. Links'
  BY DEF Links
<1>5. Registers'
  BY <1>1 DEF Registers
<1>6. Requested'
  BY DEF Requested
<1> QED BY <1>2, <1>3, <1>4, <1>5, <1>6

(* What routing looks up is a backend or nothing. *)
LEMMA RouteType ==
    ASSUME NEW h \in Hosts \cup {None}, NEW p \in Paths
    PROVE  Host_match_backend(h, p) \in Backends \cup {None}
  BY ConnectionAssumption DEF Host_match_backend

(* What a request that was read has, and where it may be routed. *)
LEMMA RequestType ==
    ASSUME NEW r \in Requests
    PROVE  /\ r.kind \in Kinds /\ r.path \in Paths
           /\ RequestHost(r) \in Hosts \cup {None}
           /\ Selected(r) \in Backends \cup {None}
<1>1. r.kind \in Kinds /\ r.path \in Paths
  BY DEF Requests, Kinds
<1>2. RequestHost(r) \in Hosts \cup {None}
  BY ConnectionAssumption DEF RequestHost, Server_match_backend
<1> QED BY <1>1, <1>2, RouteType DEF Selected

(* The event of a backend is its type. *)
LEMMA BackendEvents ==
    ASSUME NEW b \in Backends
    PROVE  Connection_backend_event(b) \in {"HANDLER", "DIRECTORY", "PROXY"}
  BY ConnectionAssumption DEF Connection_backend_event

(* The callbacks that only read, answer or forward. *)
LEMMA OpenIndInv ==
    ASSUME IndInv, connection_open
    PROVE  IndInv'
<1>1. task = "loop" /\ cs = "Accepting" /\ calls = <<"open">>
  BY Sites DEF IndInv, TypeOK, connection_open, Callback
<1>2. TypeOK' /\ calls' = <<>> /\ <<cs, next'>> \in AtRest
  BY <1>1, CallSequences
  DEF IndInv, TypeOK, connection_open, Callback, Returns, Events, AtRest, routing,
      resources, reply
<1> QED
  BY <1>1, <1>2, QuietCallback DEF connection_open, Callback, resources

(* A request, a closed client or a 400: another request is ready only in REQ_RECV. *)
LEMMA ParseIndInv ==
    ASSUME IndInv, connection_parse
    PROVE  IndInv'
<1>1. task = "loop" /\ cs \in {"Identifying", "Idle"} /\ calls = <<"parse">>
  BY Sites DEF IndInv, TypeOK, connection_parse, Callback
<1>2. /\ req' \in Requests \cup {NoRequest} /\ replies' \in Nat
      /\ next' \in {"REQ_RECV", "CLOSE"}
      /\ next' = "REQ_RECV" => req' \in Requests
      /\ announced' \in BOOLEAN
  <2>1. \/ \E r \in Requests : req' = r /\ replies' = 0 /\ next' = "REQ_RECV"
        \/ req' = NoRequest /\ replies' \in {0, 1} /\ next' = "CLOSE"
    BY Zenon DEF connection_parse, Connection_read_header, read_header_closed,
                 read_header_400, Returns
  <2>2. announced' \in BOOLEAN
    BY Zenon DEF IndInv, TypeOK, connection_parse, Connection_read_header,
                 read_header_closed, read_header_400
  <2> QED BY <2>1, <2>2
<1>3. calls' = <<>> /\ <<cs, next'>> \in AtRest
  BY <1>1, <1>2, CallSequences DEF connection_parse, Callback, AtRest
<1>4. TypeOK'
  BY <1>2 DEF IndInv, TypeOK, connection_parse, Callback, Events, routing, resources
<1> QED
  BY <1>1, <1>2, <1>3, <1>4, QuietCallback DEF connection_parse, Callback, resources

(* The later requests of a connection are not registered again. *)
LEMMA IdentifyIndInv ==
    ASSUME IndInv, connection_identify_request
    PROVE  IndInv'
<1>1. task = "loop" /\ cs = "Identified" /\ calls = <<"identify_request">>
  BY Sites DEF IndInv, TypeOK, connection_identify_request, Callback
<1>2. next' \in {"SOCKET_REQ", "MSG_REQ", "HTTP_REQ"}
  BY DEF connection_identify_request, ident_and_register, Returns
<1>3. TypeOK' /\ calls' = <<>> /\ <<cs, next'>> \in AtRest
  BY <1>1, <1>2, CallSequences
  DEF IndInv, TypeOK, connection_identify_request, Callback, Events, AtRest, routing,
      resources, reply
<1> QED
  BY <1>1, <1>3, QuietCallback DEF connection_identify_request, Callback, resources

(* A route gives the event of its backend, and no route CLOSE. *)
LEMMA RouteIndInv ==
    ASSUME IndInv, connection_route_request
    PROVE  IndInv'
<1>1. task = "loop" /\ cs \in {"HTTPRouting", "MSGRouting"} /\ calls = <<"route_request">>
  BY Sites DEF IndInv, TypeOK, connection_route_request, Callback
<1>2. req \in Requests
  BY <1>1 DEF IndInv, Requested
<1>3. /\ next' \in {"CLOSE", "HANDLER", "DIRECTORY", "PROXY"}
      /\ action' \in Backends \cup {None}
      /\ target_host' \in Hosts \cup {None}
      /\ pattern' \in Backends \cup {None}
      /\ replies' \in Nat
  BY <1>2, RequestType, BackendEvents
  DEF IndInv, TypeOK, connection_route_request, Request_set_action, Returns,
      Response_send_status, routing, reply
<1>4. announced' \in BOOLEAN
  BY Zenon DEF IndInv, TypeOK, connection_route_request, Response_send_status, reply
<1>5. TypeOK' /\ calls' = <<>> /\ <<cs, next'>> \in AtRest
  BY <1>1, <1>3, <1>4, CallSequences
  DEF IndInv, TypeOK, connection_route_request, Callback, Events, AtRest, resources
<1> QED
  BY <1>1, <1>5, QuietCallback DEF connection_route_request, Callback, resources

(* The answer to a socket request leaves the task in Responding. *)
LEMMA SocketResponseIndInv ==
    ASSUME IndInv, connection_send_socket_response
    PROVE  IndInv'
<1>1. task = "loop" /\ cs = "Responding" /\ calls = <<"send_socket_response">>
  BY Sites DEF IndInv, TypeOK, connection_send_socket_response, Callback
<1>2. next' \in {"RESP_SENT", "CLOSE"} /\ replies' \in Nat /\ announced' \in BOOLEAN
  BY DEF IndInv, TypeOK, connection_send_socket_response, Returns
<1>3. TypeOK' /\ calls' = <<>> /\ <<cs, next'>> \in AtRest
  BY <1>1, <1>2, CallSequences
  DEF IndInv, TypeOK, connection_send_socket_response, Callback, Events, AtRest,
      routing, resources
<1> QED
  BY <1>1, <1>3, QuietCallback DEF connection_send_socket_response, Callback, resources

(* A message that was queued, or not. *)
LEMMA MsgToHandlerIndInv ==
    ASSUME IndInv, connection_msg_to_handler
    PROVE  IndInv'
<1>1. task = "loop" /\ cs = "Queueing" /\ calls = <<"msg_to_handler">>
  BY Sites DEF IndInv, TypeOK, connection_msg_to_handler, Callback
<1>2. next' \in {"REQ_SENT", "CLOSE"} /\ replies' \in Nat /\ announced' \in BOOLEAN
  BY DEF IndInv, TypeOK, connection_msg_to_handler, Returns, reply
<1>3. TypeOK' /\ calls' = <<>> /\ <<cs, next'>> \in AtRest
  BY <1>1, <1>2, CallSequences
  DEF IndInv, TypeOK, connection_msg_to_handler, Callback, Events, AtRest,
      routing, resources
<1> QED
  BY <1>1, <1>3, QuietCallback DEF connection_msg_to_handler, Callback, resources

(* A request that was queued, or answered and closed. *)
LEMMA HttpToHandlerIndInv ==
    ASSUME IndInv, connection_http_to_handler
    PROVE  IndInv'
<1>1. task = "loop" /\ cs = "Queueing" /\ calls = <<"http_to_handler">>
  BY Sites DEF IndInv, TypeOK, connection_http_to_handler, Callback
<1>2. next' \in {"REQ_SENT", "CLOSE"} /\ replies' \in Nat /\ announced' \in BOOLEAN
  <2>1. next' \in {"REQ_SENT", "CLOSE"} /\ replies' \in Nat
    BY DEF IndInv, TypeOK, connection_http_to_handler, Returns, Response_send_status, reply
  <2>2. announced' \in BOOLEAN
    BY Zenon DEF IndInv, TypeOK, connection_http_to_handler, Response_send_status, reply
  <2> QED BY <2>1, <2>2
<1>3. TypeOK' /\ calls' = <<>> /\ <<cs, next'>> \in AtRest
  BY <1>1, <1>2, CallSequences
  DEF IndInv, TypeOK, connection_http_to_handler, Callback, Events, AtRest,
      routing, resources
<1> QED
  BY <1>1, <1>3, QuietCallback DEF connection_http_to_handler, Callback, resources

(* A file that was served, or a connection to close. *)
LEMMA HttpToDirectoryIndInv ==
    ASSUME IndInv, connection_http_to_directory
    PROVE  IndInv'
<1>1. task = "loop" /\ cs = "Responding" /\ calls = <<"http_to_directory">>
  BY Sites DEF IndInv, TypeOK, connection_http_to_directory, Callback
<1>2. next' \in {"RESP_SENT", "CLOSE"} /\ replies' \in Nat /\ announced' \in BOOLEAN
  <2>1. next' \in {"RESP_SENT", "CLOSE"} /\ replies' \in Nat
    BY DEF IndInv, TypeOK, connection_http_to_directory, Returns, Response_send_status
  <2>2. announced' \in BOOLEAN
    BY Zenon DEF IndInv, TypeOK, connection_http_to_directory, Response_send_status
  <2> QED BY <2>1, <2>2
<1>3. TypeOK' /\ calls' = <<>> /\ <<cs, next'>> \in AtRest
  BY <1>1, <1>2, CallSequences
  DEF IndInv, TypeOK, connection_http_to_directory, Callback, Events, AtRest,
      routing, resources
<1> QED
  BY <1>1, <1>3, QuietCallback DEF connection_http_to_directory, Callback, resources

(* The upstream server takes the request or is gone. *)
LEMMA ProxyDeliverIndInv ==
    ASSUME IndInv, connection_proxy_deliver
    PROVE  IndInv'
<1>1. task = "loop" /\ cs = "Sending" /\ calls = <<"proxy_deliver">>
  BY Sites DEF IndInv, TypeOK, connection_proxy_deliver, Callback
<1>2. next' \in {"REQ_SENT", "REMOTE_CLOSE"} /\ replies' \in Nat /\ announced' \in BOOLEAN
  BY DEF IndInv, TypeOK, connection_proxy_deliver, Returns, reply
<1>3. TypeOK' /\ calls' = <<>> /\ <<cs, next'>> \in AtRest
  BY <1>1, <1>2, CallSequences
  DEF IndInv, TypeOK, connection_proxy_deliver, Callback, Events, AtRest,
      routing, resources
<1> QED
  BY <1>1, <1>3, QuietCallback DEF connection_proxy_deliver, Callback, resources

(* The upstream server answers or fails. *)
LEMMA ProxyReplyIndInv ==
    ASSUME IndInv, connection_proxy_reply_parse
    PROVE  IndInv'
<1>1. task = "loop" /\ cs = "Receiving" /\ calls = <<"proxy_reply_parse">>
  BY Sites DEF IndInv, TypeOK, connection_proxy_reply_parse, Callback
<1>2. next' \in {"REQ_RECV", "FAILED"} /\ replies' \in Nat /\ announced' \in BOOLEAN
  BY DEF IndInv, TypeOK, connection_proxy_reply_parse, Returns
<1>3. TypeOK' /\ calls' = <<>> /\ <<cs, next'>> \in AtRest
  BY <1>1, <1>2, CallSequences
  DEF IndInv, TypeOK, connection_proxy_reply_parse, Callback, Events, AtRest,
      routing, resources
<1> QED
  BY <1>1, <1>3, QuietCallback DEF connection_proxy_reply_parse, Callback, resources

(* The upstream server failed: the task answers and closes. *)
LEMMA ProxyFailedIndInv ==
    ASSUME IndInv, connection_proxy_failed
    PROVE  IndInv'
<1>1. task = "loop" /\ cs = "Closing" /\ calls = <<"proxy_failed">>
  BY Sites DEF IndInv, TypeOK, connection_proxy_failed, Callback
<1>2. next' \in {"CLOSE"} /\ replies' \in Nat /\ announced' \in BOOLEAN
  BY DEF IndInv, TypeOK, connection_proxy_failed, Returns, Response_send_status
<1>3. TypeOK' /\ calls' = <<>> /\ <<cs, next'>> \in AtRest
  BY <1>1, <1>2, CallSequences
  DEF IndInv, TypeOK, connection_proxy_failed, Callback, Events, AtRest,
      routing, resources
<1> QED
  BY <1>1, <1>3, QuietCallback DEF connection_proxy_failed, Callback, resources

(* The next request of a proxied connection stays, or leaves the proxy. *)
LEMMA ProxyRequestIndInv ==
    ASSUME IndInv, connection_proxy_req_parse
    PROVE  IndInv'
<1>1. task = "loop" /\ cs = "Proxying" /\ calls = <<"proxy_req_parse">>
  BY Sites DEF IndInv, TypeOK, connection_proxy_req_parse, Callback
<1>2. /\ req' \in Requests \cup {NoRequest}
      /\ replies' \in Nat /\ announced' \in BOOLEAN
      /\ action' \in Backends \cup {None}
      /\ next' \in {"REMOTE_CLOSE", "HTTP_REQ", "HANDLER", "DIRECTORY", "PROXY"}
  <2>1. \/ /\ req' = NoRequest /\ replies' \in {0, 1} /\ action' = action
           /\ next' = "REMOTE_CLOSE"
        \/ /\ \E r \in Requests : req' = r
           /\ replies' = 1 /\ action' = action /\ next' = "REMOTE_CLOSE"
        \/ \E r \in Requests :
             /\ req' = r /\ replies' = 0
             /\ Host_match_backend(target_host, r.path) # None
             /\ \/ /\ action' = Host_match_backend(target_host, r.path)
                   /\ next' = Connection_backend_event(Host_match_backend(target_host, r.path))
                \/ action' = action /\ next' = "HTTP_REQ"
    BY Zenon DEF connection_proxy_req_parse, read_header_closed, read_header_400,
                 Returns, Request_set_action
  <2>2. announced' \in BOOLEAN
    BY Zenon DEF IndInv, TypeOK, connection_proxy_req_parse, read_header_closed,
                 read_header_400
  <2> QED
    BY <2>1, <2>2, RouteType, RequestType, BackendEvents DEF IndInv, TypeOK
<1>3. TypeOK' /\ calls' = <<>> /\ <<cs, next'>> \in AtRest
  BY <1>1, <1>2, CallSequences
  DEF IndInv, TypeOK, connection_proxy_req_parse, Callback, Events, AtRest, resources
<1> QED
  BY <1>1, <1>3, QuietCallback DEF connection_proxy_req_parse, Callback, resources

-----------------------------------------------------------------------------
(* The callbacks that change what the rest of the server sees. *)

(* The first request registers the descriptor; it is not registered yet. *)
LEMMA RegisterIndInv ==
    ASSUME IndInv, connection_register_request
    PROVE  IndInv' /\ ~Released /\ registered = "none" /\ registered' # "none"
<1> USE CallSequences
<1>1. task = "loop" /\ cs = "Registered" /\ calls = <<"register_request">>
  BY Sites DEF IndInv, TypeOK, connection_register_request, Callback
<1>2. /\ calls' = <<>> /\ registered' = req.kind
      /\ UNCHANGED <<cs, task, req, action, target_host, pattern, fdcloses, proxy_fd,
                     upstream, destroyed, replies, announced>>
  BY <1>1 DEF connection_register_request, Callback, routing, reply
<1>3. next' \in {"SOCKET_REQ", "MSG_REQ", "HTTP_REQ"}
  BY DEF connection_register_request, ident_and_register, Returns
<1>4. req \in Requests /\ registered' \in Kinds
  BY <1>1, <1>2, RequestType DEF IndInv, Requested
<1>5. ~Released /\ ~Released'
  BY <1>1, <1>2 DEF Released
<1>6. TypeOK'
  BY <1>2, <1>3, <1>4 DEF IndInv, TypeOK, Events
<1>7. Positions' /\ Requested'
  BY <1>1, <1>2, <1>3, <1>4 DEF Positions, AtRest, Requested
<1>8. Releases' /\ Links'
  BY <1>1, <1>2, <1>5 DEF IndInv, Releases, Links, PROXY_STATES
<1>9. registered = "none" /\ registered' # "none"
  BY <1>1, <1>4 DEF IndInv, Registers, Kinds
<1>10. Registers'
  BY <1>1, <1>2, <1>9 DEF Registers, Unregistered
<1> QED BY <1>5, <1>6, <1>7, <1>8, <1>9, <1>10 DEF IndInv

(* A proxy is dialled only when no other upstream socket is held. *)
LEMMA ProxyConnectIndInv ==
    ASSUME IndInv, connection_http_to_proxy
    PROVE  /\ IndInv' /\ ~Released /\ registered # "none"
           /\ upstream = 0 /\ upstream' \in {0, 1}
           /\ UNCHANGED <<task, registered, fdcloses>>
<1> USE CallSequences
<1>1. task = "loop" /\ cs = "ProxyStart" /\ calls = <<"http_to_proxy">>
  BY Sites DEF IndInv, TypeOK, connection_http_to_proxy, Callback
<1>2. /\ calls' = <<>>
      /\ UNCHANGED <<cs, task, req, action, target_host, pattern, registered, fdcloses,
                     destroyed, replies, announced>>
      /\ \/ proxy_fd' = "open" /\ upstream' = upstream + 1 /\ next' = "CONNECT"
         \/ proxy_fd' = "failed" /\ upstream' = upstream /\ next' = "FAILED"
  BY <1>1 DEF connection_http_to_proxy, Callback, Returns, routing, reply
<1>3. upstream = 0 /\ upstream' = IF proxy_fd' = "open" THEN 1 ELSE 0
  BY <1>1, <1>2 DEF IndInv, Links, PROXY_STATES
<1>4. ~Released /\ ~Released'
  BY <1>1, <1>2 DEF Released
<1>5. registered # "none"
  BY <1>1, <1>4 DEF IndInv, Registers, Unregistered
<1>6. TypeOK'
  BY <1>2, <1>3 DEF IndInv, TypeOK, Events
<1>7. Positions' /\ Requested'
  BY <1>1, <1>2 DEF Positions, AtRest, Requested
<1>8. Releases' /\ Links'
  BY <1>1, <1>2, <1>3, <1>4 DEF IndInv, Releases, Links, PROXY_STATES
<1>9. Registers'
  BY <1>1, <1>2, <1>5 DEF Registers, Unregistered
<1> QED BY <1>2, <1>3, <1>4, <1>5, <1>6, <1>7, <1>8, <1>9 DEF IndInv

(* The proxy is closed: at the end of proxying or before another backend. *)
LEMMA ProxyCloseIndInv ==
    ASSUME IndInv, connection_proxy_close
    PROVE  /\ IndInv' /\ upstream \in {0, 1} /\ upstream' = 0
           /\ UNCHANGED <<task, registered, fdcloses>>
<1> USE CallSequences
<1>1. /\ task = "loop"
      /\ \/ cs = "Closing" /\ calls = <<"proxy_close">> /\ calls' = <<>>
         \/ /\ cs = "Queueing" /\ calls = <<"proxy_close", "http_to_handler">>
            /\ calls' = <<"http_to_handler">>
         \/ /\ cs = "Responding" /\ calls = <<"proxy_close", "http_to_directory">>
            /\ calls' = <<"http_to_directory">>
         \/ /\ cs = "ProxyStart" /\ calls = <<"proxy_close", "http_to_proxy">>
            /\ calls' = <<"http_to_proxy">>
  <2>1. calls # <<>> /\ Head(calls) = "proxy_close" /\ calls' = Tail(calls)
    BY DEF connection_proxy_close, Callback
  <2>2. Positions /\ task \in {"loop", "closing", "done"}
    BY DEF IndInv, TypeOK
  <2>3. /\ task = "loop"
        /\ \/ cs = "Closing" /\ calls = <<"proxy_close">>
           \/ cs = "Queueing" /\ calls = <<"proxy_close", "http_to_handler">>
           \/ cs = "Responding" /\ calls = <<"proxy_close", "http_to_directory">>
           \/ cs = "ProxyStart" /\ calls = <<"proxy_close", "http_to_proxy">>
    BY <2>1, <2>2, Sites
  <2>4. /\ Tail(<<"proxy_close">>) = <<>>
        /\ Tail(<<"proxy_close", "http_to_handler">>) = <<"http_to_handler">>
        /\ Tail(<<"proxy_close", "http_to_directory">>) = <<"http_to_directory">>
        /\ Tail(<<"proxy_close", "http_to_proxy">>) = <<"http_to_proxy">>
    OBVIOUS
  <2> QED BY <2>1, <2>3, <2>4, Zenon
<1>2. /\ next' = "CLOSE" /\ proxy_fd' = "none"
      /\ upstream' = IF proxy_fd = "open" THEN upstream - 1 ELSE upstream
      /\ UNCHANGED <<cs, task, req, action, target_host, pattern, registered, fdcloses,
                     destroyed, replies, announced>>
  BY DEF connection_proxy_close, Callback, CloseProxy, Returns, routing, reply
<1>3. upstream \in {0, 1} /\ upstream' = 0
  BY <1>2 DEF IndInv, Links
<1>4. ~Released /\ ~Released'
  BY <1>1, <1>2 DEF Released
<1>5. registered # "none"
  BY <1>1, <1>4 DEF IndInv, Registers, Unregistered
<1>6. TypeOK'
  BY <1>2, <1>3 DEF IndInv, TypeOK, Events
<1>7. Positions' /\ Requested'
  BY <1>1, <1>2 DEF Positions, AtRest, InCall, Requested
<1>8. Releases' /\ Links'
  BY <1>1, <1>2, <1>3, <1>4 DEF IndInv, Releases, Links
<1>9. Registers'
  BY <1>1, <1>2, <1>5 DEF Registers, Unregistered
<1> QED BY <1>2, <1>3, <1>6, <1>7, <1>8, <1>9 DEF IndInv

(* Closing the descriptor, by either callback: it was not closed before. *)
LEMMA CloseCallbackIndInv ==
    ASSUME IndInv, connection_close \/ connection_error
    PROVE  /\ IndInv' /\ ~Released /\ fdcloses = 0 /\ fdcloses' = 1
           /\ upstream' = 0 /\ task # "done" /\ UNCHANGED task
<1> USE CallSequences
<1>1. \/ /\ task = "closing" /\ cs = "final" /\ calls = <<"close", "finish">>
         /\ calls' = <<"finish">> /\ next' = "none"
      \/ /\ task \in {"loop", "closing"} /\ cs = "error" /\ calls = <<"error">>
         /\ calls' = <<>> /\ next' = "CLOSE"
  <2>1. Positions /\ task \in {"loop", "closing", "done"}
    BY DEF IndInv, TypeOK
  <2>2. CASE connection_close
    <3>1. /\ calls # <<>> /\ Head(calls) = "close" /\ calls' = Tail(calls)
          /\ next' = "none"
      BY <2>2 DEF connection_close, Callback, Returns
    <3>2. task = "closing" /\ cs = "final" /\ calls = <<"close", "finish">>
      BY <2>1, <3>1, Sites
    <3> QED BY <3>1, <3>2
  <2>3. CASE connection_error
    <3>1. /\ calls # <<>> /\ Head(calls) = "error" /\ calls' = Tail(calls)
          /\ next' = "CLOSE"
      BY <2>3 DEF connection_error, Callback, Returns
    <3>2. task \in {"loop", "closing"} /\ cs = "error" /\ calls = <<"error">>
      BY <2>1, <3>1, Sites
    <3> QED BY <3>1, <3>2
  <2> QED BY <2>2, <2>3
<1>2. /\ registered' = "none" /\ fdcloses' = fdcloses + 1
      /\ UNCHANGED <<cs, task, req, action, target_host, pattern, destroyed, replies,
                     announced>>
  BY DEF connection_close, connection_error, close_or_error, Callback, routing, reply
<1>3. proxy_fd' = "none" /\ upstream' = 0
  BY DEF IndInv, Links, connection_close, connection_error, close_or_error, CloseProxy
<1>4. ~Released /\ Released'
  BY <1>1, <1>2 DEF Released
<1>5. fdcloses = 0 /\ fdcloses' = 1 /\ ~destroyed
  BY <1>1, <1>2, <1>4 DEF IndInv, Releases
<1>6. TypeOK'
  BY <1>1, <1>2, <1>3, <1>5 DEF IndInv, TypeOK, Events
<1>7. Positions' /\ Requested'
  BY <1>1, <1>2 DEF Positions, AtRest, InClose, Requested
<1>8. Releases'
  BY <1>2, <1>3, <1>4, <1>5 DEF Releases
<1>9. Links' /\ Registers'
  BY <1>1, <1>2, <1>3, <1>4 DEF Links, Registers
<1> QED BY <1>1, <1>2, <1>3, <1>4, <1>5, <1>6, <1>7, <1>8, <1>9 DEF IndInv

(* Connection_destroy runs last. *)
LEMMA FinishIndInv ==
    ASSUME IndInv, connection_finish
    PROVE  IndInv' /\ UNCHANGED <<task, registered, fdcloses, upstream>>
<1> USE CallSequences
<1>1. task = "closing" /\ cs = "final" /\ calls = <<"finish">> /\ calls' = <<>>
  <2>1. calls # <<>> /\ Head(calls) = "finish" /\ calls' = Tail(calls)
    BY DEF connection_finish, Callback
  <2>2. Positions /\ task \in {"loop", "closing", "done"}
    BY DEF IndInv, TypeOK
  <2>3. task = "closing" /\ cs = "final" /\ calls = <<"finish">>
    BY <2>1, <2>2, Sites
  <2> QED BY <2>1, <2>3
<1>2. /\ next' = "CLOSE" /\ destroyed' = TRUE
      /\ UNCHANGED <<cs, task, req, action, target_host, pattern, registered, fdcloses,
                     proxy_fd, upstream, replies, announced>>
  BY DEF connection_finish, Callback, Returns, routing, reply
<1>3. Released /\ Released'
  BY <1>1, <1>2 DEF Released
<1>4. TypeOK'
  BY <1>1, <1>2 DEF IndInv, TypeOK, Events
<1>5. Positions' /\ Requested'
  BY <1>1, <1>2 DEF Positions, InClose, Requested
<1>6. Releases'
  BY <1>1, <1>2, <1>3 DEF IndInv, Releases
<1>7. Links' /\ Registers'
  BY <1>1, <1>2, <1>3 DEF IndInv, Releases, Links, Registers
<1> QED BY <1>2, <1>4, <1>5, <1>6, <1>7 DEF IndInv

-----------------------------------------------------------------------------
(* The callbacks of QuietCallback, which the rest of the server cannot see. *)
Quiet ==
    \/ connection_open
    \/ connection_parse
    \/ connection_identify_request
    \/ connection_route_request
    \/ connection_send_socket_response
    \/ connection_msg_to_handler
    \/ connection_http_to_handler
    \/ connection_http_to_directory
    \/ connection_proxy_deliver
    \/ connection_proxy_reply_parse
    \/ connection_proxy_req_parse
    \/ connection_proxy_failed

(* The quiet callbacks together. *)
LEMMA QuietIndInv ==
    ASSUME IndInv, Quiet
    PROVE  IndInv' /\ UNCHANGED <<task, registered, fdcloses, upstream>>
<1>1. IndInv'
  BY OpenIndInv, ParseIndInv, IdentifyIndInv, RouteIndInv, SocketResponseIndInv,
     MsgToHandlerIndInv, HttpToHandlerIndInv, HttpToDirectoryIndInv, ProxyDeliverIndInv,
     ProxyReplyIndInv, ProxyRequestIndInv, ProxyFailedIndInv, Zenon
  DEF Quiet
<1>2. UNCHANGED <<task, resources>>
  BY Zenon
  DEF Quiet, connection_open, connection_parse, connection_identify_request,
      connection_route_request, connection_send_socket_response,
      connection_msg_to_handler, connection_http_to_handler,
      connection_http_to_directory, connection_proxy_deliver,
      connection_proxy_reply_parse, connection_proxy_req_parse,
      connection_proxy_failed, Callback
<1> QED BY <1>1, <1>2 DEF resources

(* Every step is one of the cases above. *)
LEMMA NextCases ==
    ASSUME [Next]_vars
    PROVE  \/ Connection_task_loop \/ Connection_task_close \/ Connection_task_return
           \/ connection_register_request \/ connection_http_to_proxy
           \/ connection_proxy_close \/ connection_close \/ connection_error
           \/ connection_finish \/ Quiet \/ UNCHANGED vars
  BY Zenon DEF Next, Prompt, Waiting, Quiet, Terminated

(* A step that changes nothing. *)
LEMMA StutterIndInv ==
    ASSUME IndInv, UNCHANGED vars
    PROVE  IndInv'
<1>1. UNCHANGED <<cs, calls, task, next, req, action, target_host, pattern, registered,
                  fdcloses, proxy_fd, upstream, destroyed, replies, announced>>
  BY DEF vars, routing, resources, reply
<1>2. Released' <=> Released
  BY <1>1 DEF Released
<1> QED
  BY <1>1, <1>2 DEF IndInv, TypeOK, Positions, Releases, Links, Registers, Requested

(***************************************************************************)
(* The positions, with the descriptors, the registration and the request   *)
(* that belong to each, are an invariant of the connection task, for every *)
(* configuration and whatever the peers do.                                *)
(***************************************************************************)
THEOREM PositionsKept == Spec => []IndInv
<1>1. Init => IndInv
  BY InitIndInv
<1>2. IndInv /\ [Next]_vars => IndInv'
  <2> SUFFICES ASSUME IndInv, [Next]_vars PROVE IndInv'
    OBVIOUS
  <2> QED
    BY NextCases, LoopIndInv, CloseIndInv, ReturnIndInv, RegisterIndInv,
       ProxyConnectIndInv, ProxyCloseIndInv, CloseCallbackIndInv, FinishIndInv,
       QuietIndInv, StutterIndInv, Zenon
<1> QED BY <1>1, <1>2, PTL DEF Spec

(* Every variable of the task keeps its type. *)
THEOREM TypeCorrect == Spec => []TypeOK
<1>1. IndInv => TypeOK
  BY DEF IndInv
<1> QED BY <1>1, PositionsKept, PTL

(***************************************************************************)
(* The "Invalid next event, Tell ZED" branch of Connection_task is dead    *)
(* code: in the loop, every State_exec runs a callback and every callback  *)
(* returns an event.                                                       *)
(***************************************************************************)
THEOREM EventsAlwaysValid == Spec => []NoInvalidEvent
<1>1. IndInv => NoInvalidEvent
  <2> SUFFICES ASSUME IndInv, InvalidEvent PROVE FALSE
    BY DEF NoInvalidEvent
  <2>1. <<cs, "none">> \in AtRest \/ <<cs, <<>> >> \in InCall
    BY DEF IndInv, Positions, InvalidEvent
  <2> QED BY <2>1, CallSequences DEF AtRest, InCall
<1> QED BY <1>1, PositionsKept, PTL

(***************************************************************************)
(* The task closes its descriptor exactly once, is then not registered,    *)
(* and holds no upstream socket when it returns.                           *)
(***************************************************************************)
THEOREM DescriptorReleasedOnce == Spec => []ReleasedExactlyOnce
<1>1. IndInv => ReleasedExactlyOnce
  <2>1. IndInv /\ task = "done" => Released
    BY DEF Released
  <2> QED BY <2>1 DEF IndInv, Releases, Links, ReleasedExactlyOnce
<1> QED BY <1>1, PositionsKept, PTL

(***************************************************************************)
(* The upstream socket is the one conn->proxy_fd names, and between two    *)
(* calls of State_exec it is held only in a proxy state.                   *)
(***************************************************************************)
THEOREM UpstreamAccounted == Spec => []UpstreamIsProxyFd
<1>1. IndInv => UpstreamIsProxyFd
  BY CallSequences DEF IndInv, Links, UpstreamIsProxyFd
<1> QED BY <1>1, PositionsKept, PTL

(***************************************************************************)
(* No callback does I/O on the descriptor, or closes it, after its         *)
(* release, and none runs after Connection_destroy.                        *)
(***************************************************************************)
THEOREM NothingUsedAfterRelease == Spec => []NoUseAfterRelease
<1>1. IndInv => NoUseAfterRelease
  <2> SUFFICES ASSUME IndInv, calls # <<>>
               PROVE  /\ Head(calls) \in IOCallbacks \cup {"close", "error"} => fdcloses = 0
                      /\ ~destroyed
    BY DEF NoUseAfterRelease
  <2>1. ~destroyed
    BY DEF IndInv, Releases
  <2>2. ASSUME Head(calls) \in IOCallbacks \cup {"close", "error"}
        PROVE  ~Released
    <3>1. Positions /\ task \in {"loop", "closing", "done"}
      BY DEF IndInv, TypeOK
    <3>2. \/ task = "loop" /\ cs # "error"
          \/ calls = <<"close", "finish">>
          \/ calls = <<"error">> /\ cs = "error"
      BY <2>2, <3>1, Sites DEF IOCallbacks
    <3>3. task # "done"
      BY <3>1 DEF Positions
    <3> QED BY <3>2, <3>3, CallSequences DEF Released
  <2> QED BY <2>1, <2>2 DEF IndInv, Releases
<1> QED BY <1>1, PositionsKept, PTL

-----------------------------------------------------------------------------
(* The abstract step of every step of the task. *)
LEMMA LifeStep ==
    ASSUME IndInv, [Next]_vars
    PROVE  [Life!Next]_(Life!vars)
<1> USE DEF Life!Next, Life!vars
<1>0. /\ task \in {"loop", "closing", "done"} /\ fdcloses \in {0, 1}
      /\ fdcloses = 0 <=> ~Released
      /\ upstream = 0 \/ ~Released
  BY DEF IndInv, TypeOK, Releases, Links
<1>1. CASE UNCHANGED <<task, registered, fdcloses, upstream>>
  BY <1>1 DEF phase
<1>2. CASE Connection_task_close
  <2>1. task = "loop" /\ task' = "closing" /\ UNCHANGED <<registered, fdcloses, upstream>>
    BY <1>2 DEF Connection_task_close, resources
  <2> QED BY <2>1 DEF phase
<1>3. CASE Connection_task_return
  <2>1. task = "closing" /\ task' = "done" /\ UNCHANGED upstream
    BY <1>3 DEF Connection_task_return, resources
  <2>2. Released
    BY <1>3, ReturnIndInv
  <2>3. fdcloses = 1
    BY <1>0, <2>2
  <2>4. phase = "released" /\ phase' = "ended"
    BY <2>1, <2>3 DEF phase
  <2> QED BY <2>1, <2>4 DEF Life!End
<1>4. CASE connection_register_request
  <2>1. task = "loop" /\ UNCHANGED <<task, fdcloses, upstream>>
    BY <1>4, Sites DEF IndInv, TypeOK, connection_register_request, Callback
  <2>2. ~Released /\ registered = "none" /\ registered' # "none"
    BY <1>4, RegisterIndInv
  <2> QED BY <1>0, <2>1, <2>2 DEF phase, Life!Register
<1>5. CASE connection_http_to_proxy
  <2>1. task # "done" /\ ~Released
    BY <1>5, ProxyConnectIndInv DEF Released
  <2> QED BY <1>0, <1>5, <2>1, ProxyConnectIndInv DEF phase, Life!Dial
<1>6. CASE connection_proxy_close
  <2>1. UNCHANGED phase
    BY <1>6, ProxyCloseIndInv DEF phase
  <2> QED BY <1>6, <2>1, ProxyCloseIndInv DEF Life!Hangup
<1>7. CASE connection_close \/ connection_error
  BY <1>7, CloseCallbackIndInv DEF phase, Life!Release
<1>8. CASE Connection_task_loop
  BY <1>1, <1>8 DEF Connection_task_loop, resources
<1>9. CASE connection_finish
  BY <1>1, <1>9, FinishIndInv
<1>10. CASE Quiet
  BY <1>1, <1>10, QuietIndInv
<1>11. CASE UNCHANGED vars
  BY <1>1, <1>11 DEF vars, resources
<1> QED
  BY <1>2, <1>3, <1>4, <1>5, <1>6, <1>7, <1>8, <1>9, <1>10, <1>11, NextCases, Zenon

(***************************************************************************)
(* The connection task implements ConnectionLife: seen from the rest of    *)
(* the server it registers at most once, holds at most one upstream socket *)
(* while it is registered, gives its descriptor back exactly once and only *)
(* then ends, for every configuration and whatever the peers do.           *)
(***************************************************************************)
THEOREM TaskImplementsLife == Spec => ImplementsLife
<1>1. Init => Life!Init
  BY DEF Init, phase, Life!Init
<1>2. IndInv /\ [Next]_vars => [Life!Next]_(Life!vars)
  BY LifeStep
<1> QED BY <1>1, <1>2, PositionsKept, PTL DEF Spec, ImplementsLife, Life!Spec
-----------------------------------------------------------------------------
(***************************************************************************)
(* The answers.  Along the positions a request is first unanswered, with   *)
(* no response begun; from the moment it is routed until its backend has   *)
(* been called, req->action is the route of its path and has the type that *)
(* the event or the callback names; while a proxied connection is reused   *)
(* the action stays a proxy; and another request is only read when no      *)
(* close was announced, or when a directory announced it.                  *)
(***************************************************************************)
Unanswered ==
    \/ calls \in {<<"register_request">>, <<"identify_request">>, <<"route_request">>,
                  <<"send_socket_response">>, <<"msg_to_handler">>, <<"http_to_handler">>,
                  <<"http_to_directory">>, <<"http_to_proxy">>,
                  <<"proxy_close", "http_to_handler">>, <<"proxy_close", "http_to_directory">>,
                  <<"proxy_close", "http_to_proxy">>,
                  <<"proxy_deliver">>, <<"proxy_reply_parse">>, <<"proxy_failed">>}
    \/ /\ calls = <<>>
       /\ \/ next \in {"HTTP_REQ", "MSG_REQ", "SOCKET_REQ", "HANDLER", "DIRECTORY", "PROXY",
                       "CONNECT"}
          \/ cs \in {"Identifying", "Idle"} /\ next = "REQ_RECV"
          \/ cs = "ProxyStart" /\ next = "FAILED"
          \/ cs = "Sending" /\ next = "REQ_SENT"

ForHandler ==
    \/ calls \in {<<"msg_to_handler">>, <<"http_to_handler">>, <<"proxy_close", "http_to_handler">>}
    \/ calls = <<>> /\ next = "HANDLER"

ForDirectory ==
    \/ calls \in {<<"http_to_directory">>, <<"proxy_close", "http_to_directory">>}
    \/ calls = <<>> /\ next = "DIRECTORY"

ForProxy ==
    \/ calls \in {<<"http_to_proxy">>, <<"proxy_close", "http_to_proxy">>, <<"proxy_deliver">>,
                  <<"proxy_reply_parse">>}
    \/ /\ calls = <<>>
       /\ \/ next \in {"PROXY", "CONNECT"}
          \/ cs = "Proxying" /\ next = "HTTP_REQ"
          \/ cs = "Sending" /\ next = "REQ_SENT"

ProxyKept == calls = <<"proxy_req_parse">> \/ (calls = <<>> /\ cs = "Receiving" /\ next = "REQ_RECV")

ReadsNext ==
    \/ calls \in {<<"open">>, <<"parse">>, <<"proxy_req_parse">>}
    \/ /\ calls = <<>>
       /\ \/ next \in {"OPEN", "ACCEPT", "RESP_SENT"}
          \/ cs = "Queueing" /\ next = "REQ_SENT"
          \/ cs = "Receiving" /\ next = "REQ_RECV"

RoutedTo(type) ==
    /\ action = Host_match_backend(target_host, req.path)
    /\ action # None
    /\ BackendType[action] = type

AnswersInv ==
    /\ replies \in {0, 1}
    /\ replies = 0 => ~announced
    /\ Unanswered => replies = 0
    /\ ForHandler => RoutedTo("HANDLER")
    /\ ForDirectory => RoutedTo("DIRECTORY")
    /\ ForProxy => RoutedTo("PROXY")
    /\ ProxyKept => action # None /\ BackendType[action] = "PROXY"
    /\ ReadsNext /\ announced => DirectoryAnswers

(* What the transitions out of the positions at rest do for the request. *)
LEMMA AnswerExec ==
    ASSUME <<cs, next>> \in AtRest, next # "CLOSE", calls = <<>>, State_exec(next), next' = "none"
    PROVE  /\ Unanswered' => Unanswered
           /\ ForHandler' => ForHandler
           /\ ForDirectory' => ForDirectory
           /\ ForProxy' => ForProxy
           /\ ProxyKept' => ProxyKept
           /\ ReadsNext' => ReadsNext
<1> USE CallSequences
<1>1. CASE Accepted(next)
  <2>1. PICK t \in Table : t[1] = cs /\ t[2] = next /\ calls' = t[3] /\ cs' = t[4]
    BY <1>1 DEF Accepted, Matches
  <2>2. Unanswered' => Unanswered
    BY <2>1 DEF Table, AtRest, proxy_exit_routing, close_eof, Unanswered
  <2>3. (ForHandler' => ForHandler) /\ (ForDirectory' => ForDirectory)
    BY <2>1 DEF Table, AtRest, proxy_exit_routing, close_eof, ForHandler, ForDirectory
  <2>4. ForProxy' => ForProxy
    BY <2>1 DEF Table, AtRest, proxy_exit_routing, close_eof, ForProxy
  <2>5. ProxyKept' => ProxyKept
    BY <2>1 DEF Table, AtRest, proxy_exit_routing, close_eof, ProxyKept
  <2>6. ReadsNext' => ReadsNext
    BY <2>1 DEF Table, AtRest, proxy_exit_routing, close_eof, ReadsNext
  <2> QED BY <2>2, <2>3, <2>4, <2>5, <2>6
<1>2. CASE Refused(next)
  <2>1. calls' = <<"error">>
    BY <1>2 DEF Refused, Table, Matches, AtRest, error_callback
  <2> QED BY <2>1 DEF Unanswered, ForHandler, ForDirectory, ForProxy, ProxyKept, ReadsNext
<1> QED BY <1>1, <1>2 DEF State_exec

(* A step that changes neither the request nor its answer, and asks for no more. *)
LEMMA AnswersLeft ==
    ASSUME AnswersInv, UNCHANGED <<req, action, target_host, replies, announced>>,
           Unanswered' => Unanswered, ForHandler' => ForHandler, ForDirectory' => ForDirectory,
           ForProxy' => ForProxy, ProxyKept' => ProxyKept, ReadsNext' => ReadsNext
    PROVE  AnswersInv'
<1>1. \A type : RoutedTo(type) => RoutedTo(type)'
  BY DEF RoutedTo, Host_match_backend
<1>2. DirectoryAnswers => DirectoryAnswers'
  BY DEF DirectoryAnswers
<1> QED BY <1>1, <1>2 DEF AnswersInv

(* A new task has no request and no answer. *)
LEMMA InitAnswers == Init => AnswersInv
<1> SUFFICES ASSUME Init PROVE AnswersInv
  OBVIOUS
<1>1. calls = <<>> /\ cs = "start" /\ next = "OPEN" /\ replies = 0 /\ announced = FALSE
  BY DEF Init, State_init
<1> QED
  BY <1>1, CallSequences
  DEF AnswersInv, Unanswered, ForHandler, ForDirectory, ForProxy, ProxyKept, ReadsNext

(* The task's own steps: the loop, the last CLOSE, the return. *)
LEMMA TaskAnswers ==
    ASSUME IndInv, AnswersInv,
           Connection_task_loop \/ Connection_task_close \/ Connection_task_return
    PROVE  AnswersInv'
<1> USE CallSequences
<1>1. CASE Connection_task_loop
  <2>1. /\ task = "loop" /\ calls = <<>> /\ <<cs, next>> \in AtRest /\ next # "CLOSE"
        /\ State_exec(next) /\ next' = "none"
        /\ UNCHANGED <<req, action, target_host, replies, announced>>
    BY <1>1 DEF IndInv, Connection_task_loop, Positions, State_exec, InCall, routing, reply
  <2> QED BY <2>1, AnswerExec, AnswersLeft
<1>2. CASE Connection_task_close
  <2>1. /\ <<cs, "CLOSE">> \in AtRest /\ State_exec("CLOSE") /\ next' = "none"
        /\ UNCHANGED <<req, action, target_host, replies, announced>>
    BY <1>2 DEF IndInv, Connection_task_close, Positions, State_exec, InCall, routing, reply
  <2>2. calls' \in {<<>>, <<"close", "finish">>, <<"error">>}
    BY <2>1, CloseExec
  <2>3. ~Unanswered' /\ ~ForHandler' /\ ~ForDirectory' /\ ~ForProxy' /\ ~ProxyKept' /\ ~ReadsNext'
    BY <2>1, <2>2 DEF Unanswered, ForHandler, ForDirectory, ForProxy, ProxyKept, ReadsNext
  <2> QED BY <2>1, <2>3, AnswersLeft
<1>3. CASE Connection_task_return
  <2>1. UNCHANGED <<cs, calls, next, req, action, target_host, replies, announced>>
    BY <1>3 DEF Connection_task_return, routing, reply
  <2>2. /\ Unanswered' = Unanswered /\ ForHandler' = ForHandler /\ ForDirectory' = ForDirectory
        /\ ForProxy' = ForProxy /\ ProxyKept' = ProxyKept /\ ReadsNext' = ReadsNext
    BY <2>1 DEF Unanswered, ForHandler, ForDirectory, ForProxy, ProxyKept, ReadsNext
  <2> QED BY <2>1, <2>2, AnswersLeft
<1> QED BY <1>1, <1>2, <1>3

(* A callback that was the only one, and leaves the request and its route alone. *)
LEMMA CallbackAnswers ==
    ASSUME AnswersInv, UNCHANGED <<req, action, target_host>>,
           replies' \in {0, 1}, replies' = 0 => ~announced',
           Unanswered' => replies' = 0,
           ForHandler' => ForHandler, ForDirectory' => ForDirectory, ForProxy' => ForProxy,
           ProxyKept' => ProxyKept \/ ForProxy,
           ReadsNext' /\ announced' => DirectoryAnswers
    PROVE  AnswersInv'
<1>1. \A type : RoutedTo(type) => RoutedTo(type)'
  BY DEF RoutedTo, Host_match_backend
<1>2. DirectoryAnswers => DirectoryAnswers'
  BY DEF DirectoryAnswers
<1>3. ProxyKept' => action # None /\ BackendType[action] = "PROXY"
  BY DEF AnswersInv, RoutedTo
<1> QED BY <1>1, <1>2, <1>3 DEF AnswersInv

(* Nothing has been asked or announced yet. *)
LEMMA OpenAnswers == ASSUME IndInv, AnswersInv, connection_open PROVE AnswersInv'
<1>1. calls = <<"open">> /\ cs = "Accepting"
  BY Sites DEF IndInv, TypeOK, connection_open, Callback
<1>2. /\ calls' = <<>> /\ cs' = cs /\ next' = "ACCEPT"
      /\ UNCHANGED <<req, action, target_host, replies, announced>>
  BY <1>1, CallSequences DEF connection_open, Callback, Returns, routing, reply
<1>3. /\ ~Unanswered' /\ ~ForHandler' /\ ~ForDirectory' /\ ~ForProxy' /\ ~ProxyKept' /\ ReadsNext
  BY <1>1, <1>2, CallSequences DEF Unanswered, ForHandler, ForDirectory, ForProxy, ProxyKept, ReadsNext
<1>4. replies' \in {0, 1} /\ (replies' = 0 => ~announced') /\ (announced' => DirectoryAnswers)
  BY <1>2, <1>3 DEF AnswersInv
<1> QED BY <1>2, <1>3, <1>4, CallbackAnswers

(* A request is read with no answer begun, or refused with a 400 and CLOSE. *)
LEMMA ParseAnswers == ASSUME IndInv, AnswersInv, connection_parse PROVE AnswersInv'
<1>1. calls = <<"parse">> /\ cs \in {"Identifying", "Idle"}
  BY Sites DEF IndInv, TypeOK, connection_parse, Callback
<1>2. calls' = <<>> /\ cs' = cs
  BY <1>1, CallSequences DEF connection_parse, Callback
<1>3. \/ replies' = 0 /\ announced' = FALSE /\ next' \in {"REQ_RECV", "CLOSE"}
      \/ replies' = 1 /\ announced' = TRUE /\ next' = "CLOSE"
  BY Zenon DEF connection_parse, Connection_read_header, read_header_closed, read_header_400, Returns
<1>4. /\ Unanswered' => replies' = 0
      /\ ~ForHandler' /\ ~ForDirectory' /\ ~ForProxy' /\ ~ProxyKept' /\ ~ReadsNext'
  BY <1>1, <1>2, <1>3, CallSequences
  DEF Unanswered, ForHandler, ForDirectory, ForProxy, ProxyKept, ReadsNext
<1> QED BY <1>3, <1>4 DEF AnswersInv

(* The kind of the request is told; it is still unanswered. *)
LEMMA IdentAnswers ==
    ASSUME IndInv, AnswersInv, connection_register_request \/ connection_identify_request
    PROVE  AnswersInv'
<1>1. \/ calls = <<"register_request">> /\ cs = "Registered"
      \/ calls = <<"identify_request">> /\ cs = "Identified"
  BY Sites DEF IndInv, TypeOK, connection_register_request, connection_identify_request, Callback
<1>2. /\ calls' = <<>> /\ cs' = cs /\ next' \in {"SOCKET_REQ", "MSG_REQ", "HTTP_REQ"}
      /\ UNCHANGED <<req, action, target_host, replies, announced>>
  BY <1>1, CallSequences
  DEF connection_register_request, connection_identify_request, Callback, ident_and_register,
      Returns, routing, reply
<1>3. Unanswered /\ ~ForHandler' /\ ~ForDirectory' /\ ~ForProxy' /\ ~ProxyKept' /\ ~ReadsNext'
  BY <1>1, <1>2, CallSequences
  DEF Unanswered, ForHandler, ForDirectory, ForProxy, ProxyKept, ReadsNext
<1>4. replies' = 0 /\ ~announced'
  BY <1>2, <1>3 DEF AnswersInv
<1> QED BY <1>2, <1>3, <1>4, CallbackAnswers

(* Routing gives the request its action, or a 404. *)
LEMMA RouteAnswers == ASSUME IndInv, AnswersInv, connection_route_request PROVE AnswersInv'
<1>1. calls = <<"route_request">> /\ cs \in {"HTTPRouting", "MSGRouting"}
  BY Sites DEF IndInv, TypeOK, connection_route_request, Callback
<1>2. calls' = <<>> /\ cs' = cs /\ req' = req
  BY <1>1, CallSequences DEF connection_route_request, Callback
<1>3. replies = 0 /\ ~announced
  BY <1>1 DEF AnswersInv, Unanswered
<1>4. CASE Selected(req) = None
  <2>1. next' = "CLOSE" /\ replies' = 1 /\ announced' = TRUE
    BY <1>3, <1>4 DEF connection_route_request, Response_send_status, Returns
  <2>2. /\ ~Unanswered' /\ ~ForHandler' /\ ~ForDirectory' /\ ~ForProxy' /\ ~ProxyKept' /\ ~ReadsNext'
    BY <1>1, <1>2, <2>1, CallSequences
    DEF Unanswered, ForHandler, ForDirectory, ForProxy, ProxyKept, ReadsNext
  <2> QED BY <2>1, <2>2 DEF AnswersInv
<1>5. CASE Selected(req) # None
  <2>1. /\ action' = Selected(req) /\ target_host' = RequestHost(req)
        /\ next' = BackendType[action'] /\ UNCHANGED <<replies, announced>>
    BY <1>5 DEF connection_route_request, Request_set_action, Connection_backend_event, Returns, reply
  <2>2. \A type : next' = type => RoutedTo(type)'
    BY <1>2, <1>5, <2>1 DEF RoutedTo, Selected, Host_match_backend
  <2>3. next' \in {"HANDLER", "DIRECTORY", "PROXY"}
    <3>1. req \in Requests
      BY <1>1 DEF IndInv, Requested
    <3>2. Selected(req) \in Backends
      BY <1>5, <3>1, RequestType
    <3> QED BY <2>1, <3>2, ConnectionAssumption
  <2>4. /\ ForHandler' => next' = "HANDLER"
        /\ ForDirectory' => next' = "DIRECTORY"
        /\ ForProxy' => next' = "PROXY"
        /\ ~ProxyKept' /\ ~ReadsNext'
    BY <1>1, <1>2, <2>3, CallSequences DEF ForHandler, ForDirectory, ForProxy, ProxyKept, ReadsNext
  <2>5. replies' = 0 /\ ~announced'
    BY <1>3, <2>1
  <2> QED BY <2>2, <2>4, <2>5 DEF AnswersInv
<1> QED BY <1>4, <1>5

(* The backends that answer, refuse or forward a request nobody has answered. *)
LEMMA HandlerAnswers ==
    ASSUME IndInv, AnswersInv, connection_msg_to_handler \/ connection_http_to_handler
    PROVE  AnswersInv'
<1>1. calls \in {<<"msg_to_handler">>, <<"http_to_handler">>} /\ cs = "Queueing"
  BY Sites DEF IndInv, TypeOK, connection_msg_to_handler, connection_http_to_handler, Callback
<1>2. calls' = <<>> /\ cs' = cs /\ UNCHANGED <<req, action, target_host>>
  BY <1>1, CallSequences
  DEF connection_msg_to_handler, connection_http_to_handler, Callback, routing
<1>3. replies = 0 /\ ~announced
  BY <1>1 DEF AnswersInv, Unanswered
<1>4. \/ next' = "REQ_SENT" /\ replies' = 0 /\ ~announced'
      \/ next' = "CLOSE" /\ replies' \in {0, 1} /\ (replies' = 0 => ~announced')
  <2>1. CASE connection_msg_to_handler
    BY <1>3, <2>1 DEF connection_msg_to_handler, Returns, reply
  <2>2. CASE connection_http_to_handler
    BY <1>3, <2>2 DEF connection_http_to_handler, Response_send_status, Returns, reply
  <2> QED BY <2>1, <2>2
<1>5. /\ ~Unanswered' /\ ~ForHandler' /\ ~ForDirectory' /\ ~ForProxy' /\ ~ProxyKept'
      /\ ReadsNext' => next' = "REQ_SENT"
  BY <1>1, <1>2, <1>4, CallSequences
  DEF Unanswered, ForHandler, ForDirectory, ForProxy, ProxyKept, ReadsNext
<1>6. ~(ReadsNext' /\ announced')
  BY <1>4, <1>5
<1> QED BY <1>2, <1>4, <1>5, <1>6, CallbackAnswers

(* The answer to a socket request announces nothing. *)
LEMMA SocketAnswers == ASSUME IndInv, AnswersInv, connection_send_socket_response PROVE AnswersInv'
<1>1. calls = <<"send_socket_response">> /\ cs = "Responding"
  BY Sites DEF IndInv, TypeOK, connection_send_socket_response, Callback
<1>2. calls' = <<>> /\ cs' = cs /\ UNCHANGED <<req, action, target_host, announced>>
  BY <1>1, CallSequences DEF connection_send_socket_response, Callback, routing
<1>3. replies = 0 /\ ~announced
  BY <1>1 DEF AnswersInv, Unanswered
<1>4. next' \in {"RESP_SENT", "CLOSE"} /\ replies' = 1
  BY <1>3 DEF connection_send_socket_response, Returns
<1>5. ~Unanswered' /\ ~ForHandler' /\ ~ForDirectory' /\ ~ForProxy' /\ ~ProxyKept'
  BY <1>1, <1>2, <1>4, CallSequences DEF Unanswered, ForHandler, ForDirectory, ForProxy, ProxyKept
<1> QED BY <1>2, <1>3, <1>4, <1>5, CallbackAnswers

(* What a directory announces is not kept, but its action remains a directory. *)
LEMMA DirectoryServes ==
    ASSUME IndInv, AnswersInv, connection_http_to_directory
    PROVE  AnswersInv'
<1>1. calls = <<"http_to_directory">> /\ cs = "Responding"
  BY Sites DEF IndInv, TypeOK, connection_http_to_directory, Callback
<1>2. calls' = <<>> /\ cs' = cs /\ UNCHANGED <<req, action, target_host>>
  BY <1>1, CallSequences DEF connection_http_to_directory, Callback, routing
<1>3. replies = 0 /\ DirectoryAnswers
  BY <1>1 DEF AnswersInv, Unanswered, ForDirectory, RoutedTo, DirectoryAnswers
<1>4. next' \in {"RESP_SENT", "CLOSE"} /\ replies' = 1
  BY <1>3 DEF connection_http_to_directory, Response_send_status, Returns
<1>5. ~Unanswered' /\ ~ForHandler' /\ ~ForDirectory' /\ ~ForProxy' /\ ~ProxyKept'
  BY <1>1, <1>2, <1>4, CallSequences DEF Unanswered, ForHandler, ForDirectory, ForProxy, ProxyKept
<1> QED BY <1>2, <1>3, <1>4, <1>5, CallbackAnswers

(* A proxy is dialled, told the request, or has failed before it answered. *)
LEMMA ProxyAnswers ==
    ASSUME IndInv, AnswersInv, connection_http_to_proxy \/ connection_proxy_deliver
    PROVE  AnswersInv'
<1>1. \/ calls = <<"http_to_proxy">> /\ cs = "ProxyStart" /\ next' \in {"CONNECT", "FAILED"}
      \/ calls = <<"proxy_deliver">> /\ cs = "Sending" /\ next' \in {"REQ_SENT", "REMOTE_CLOSE"}
  BY Sites
  DEF IndInv, TypeOK, connection_http_to_proxy, connection_proxy_deliver, Callback, Returns
<1>2. calls' = <<>> /\ cs' = cs /\ UNCHANGED <<req, action, target_host, replies, announced>>
  BY <1>1, CallSequences
  DEF connection_http_to_proxy, connection_proxy_deliver, Callback, routing, reply
<1>3. replies' = 0 /\ ~announced'
  BY <1>1, <1>2 DEF AnswersInv, Unanswered
<1>4. ForProxy /\ ~ForHandler' /\ ~ForDirectory' /\ ~ProxyKept'
  BY <1>1, <1>2, CallSequences DEF ForHandler, ForDirectory, ForProxy, ProxyKept
<1> QED BY <1>2, <1>3, <1>4, CallbackAnswers

(* What the proxied server announces is not the server's word. *)
LEMMA ProxyReplyAnswers == ASSUME IndInv, AnswersInv, connection_proxy_reply_parse PROVE AnswersInv'
<1>1. calls = <<"proxy_reply_parse">> /\ cs = "Receiving"
  BY Sites DEF IndInv, TypeOK, connection_proxy_reply_parse, Callback
<1>2. calls' = <<>> /\ cs' = cs /\ UNCHANGED <<req, action, target_host, announced>>
  BY <1>1, CallSequences DEF connection_proxy_reply_parse, Callback, routing
<1>3. replies = 0 /\ ~announced
  BY <1>1 DEF AnswersInv, Unanswered
<1>4. next' \in {"REQ_RECV", "FAILED"} /\ replies' \in {0, 1}
  BY <1>3 DEF connection_proxy_reply_parse, Returns
<1>5. ~Unanswered' /\ ForProxy /\ ~ForHandler' /\ ~ForDirectory' /\ ~ForProxy'
  BY <1>1, <1>2, <1>4, CallSequences DEF Unanswered, ForHandler, ForDirectory, ForProxy
<1> QED BY <1>2, <1>3, <1>4, <1>5, CallbackAnswers

(* The 502 is the first answer, and the connection closes. *)
LEMMA ProxyFailedAnswers == ASSUME IndInv, AnswersInv, connection_proxy_failed PROVE AnswersInv'
<1>1. calls = <<"proxy_failed">> /\ cs = "Closing"
  BY Sites DEF IndInv, TypeOK, connection_proxy_failed, Callback
<1>2. calls' = <<>> /\ cs' = cs /\ UNCHANGED <<req, action, target_host>> /\ next' = "CLOSE"
  BY <1>1, CallSequences DEF connection_proxy_failed, Callback, routing, Returns
<1>3. replies' = 1
  BY <1>1 DEF AnswersInv, Unanswered, connection_proxy_failed, Response_send_status
<1>4. ~Unanswered' /\ ~ForHandler' /\ ~ForDirectory' /\ ~ForProxy' /\ ~ProxyKept' /\ ~ReadsNext'
  BY <1>1, <1>2, CallSequences
  DEF Unanswered, ForHandler, ForDirectory, ForProxy, ProxyKept, ReadsNext
<1> QED BY <1>2, <1>3, <1>4, CallbackAnswers

(***************************************************************************)
(* The next request of a proxied connection: refused, or sent to the       *)
(* backend of its path under the old host.                                 *)
(***************************************************************************)
LEMMA ProxyRequestAnswers == ASSUME IndInv, AnswersInv, connection_proxy_req_parse PROVE AnswersInv'
<1>1. calls = <<"proxy_req_parse">> /\ cs = "Proxying"
  BY Sites DEF IndInv, TypeOK, connection_proxy_req_parse, Callback
<1>2. calls' = <<>> /\ cs' = cs /\ target_host' = target_host
  BY <1>1, CallSequences DEF connection_proxy_req_parse, Callback
<1>3. action # None /\ BackendType[action] = "PROXY"
  BY <1>1 DEF AnswersInv, ProxyKept
<1>4. \/ /\ next' = "REMOTE_CLOSE"
         /\ (replies' = 0 /\ announced' = FALSE) \/ (replies' = 1 /\ announced' = TRUE)
      \/ /\ replies' = 0 /\ announced' = FALSE
         /\ action' = Host_match_backend(target_host, req'.path) /\ action' # None
         /\ \/ next' = BackendType[action']
            \/ action' = action /\ next' = "HTTP_REQ"
  BY Zenon DEF connection_proxy_req_parse, read_header_closed, read_header_400, Returns,
               Request_set_action, Connection_backend_event
<1>5. CASE next' = "REMOTE_CLOSE"
  <2>1. ~Unanswered' /\ ~ForHandler' /\ ~ForDirectory' /\ ~ForProxy' /\ ~ProxyKept' /\ ~ReadsNext'
    BY <1>1, <1>2, <1>5, CallSequences
    DEF Unanswered, ForHandler, ForDirectory, ForProxy, ProxyKept, ReadsNext
  <2> QED BY <1>4, <2>1 DEF AnswersInv
<1>6. CASE next' # "REMOTE_CLOSE"
  <2>1. /\ replies' = 0 /\ announced' = FALSE
        /\ action' = Host_match_backend(target_host', req'.path) /\ action' # None
        /\ \/ next' = BackendType[action']
           \/ BackendType[action'] = "PROXY" /\ next' = "HTTP_REQ"
    BY <1>2, <1>3, <1>4, <1>6
  <2>2. \A type : BackendType[action'] = type => RoutedTo(type)'
    BY <2>1 DEF RoutedTo, Host_match_backend
  <2>3. /\ BackendType[action'] \in {"HANDLER", "DIRECTORY", "PROXY"}
        /\ next' \in {"HANDLER", "DIRECTORY", "PROXY", "HTTP_REQ"}
    <3>1. action' \in Backends
      BY <1>6, <2>1, ProxyRequestIndInv DEF IndInv, TypeOK
    <3> QED BY <2>1, <3>1, ConnectionAssumption
  <2>4. /\ ForHandler' => next' = "HANDLER"
        /\ ForDirectory' => next' = "DIRECTORY"
        /\ ForProxy' => next' \in {"PROXY", "HTTP_REQ"}
        /\ ~ProxyKept' /\ ~ReadsNext'
    BY <1>1, <1>2, <2>3, CallSequences DEF ForHandler, ForDirectory, ForProxy, ProxyKept, ReadsNext
  <2>5. ForHandler' => RoutedTo("HANDLER")'
    BY <2>1, <2>2, <2>4
  <2>6. ForDirectory' => RoutedTo("DIRECTORY")'
    BY <2>1, <2>2, <2>4
  <2>7. ForProxy' => RoutedTo("PROXY")'
    BY <2>1, <2>2, <2>3, <2>4
  <2> QED BY <2>1, <2>4, <2>5, <2>6, <2>7 DEF AnswersInv
<1> QED BY <1>5, <1>6

(* The proxy is closed; the callback that follows was due before. *)
LEMMA ProxyCloseAnswers == ASSUME IndInv, AnswersInv, connection_proxy_close PROVE AnswersInv'
<1>1. /\ calls # <<>> /\ Head(calls) = "proxy_close" /\ calls' = Tail(calls) /\ next' = "CLOSE"
      /\ UNCHANGED <<cs, req, action, target_host, replies, announced>>
  BY DEF connection_proxy_close, Callback, Returns, routing, reply
<1>2. \/ calls = <<"proxy_close">>
      \/ calls = <<"proxy_close", "http_to_handler">>
      \/ calls = <<"proxy_close", "http_to_directory">>
      \/ calls = <<"proxy_close", "http_to_proxy">>
  BY <1>1, Sites DEF IndInv, TypeOK
<1>3. \/ calls' = <<>>
      \/ calls = <<"proxy_close", "http_to_handler">> /\ calls' = <<"http_to_handler">>
      \/ calls = <<"proxy_close", "http_to_directory">> /\ calls' = <<"http_to_directory">>
      \/ calls = <<"proxy_close", "http_to_proxy">> /\ calls' = <<"http_to_proxy">>
  BY <1>1, <1>2, CallSequences
<1>4. ~ProxyKept' /\ ~ReadsNext'
  BY <1>1, <1>3, CallSequences DEF ProxyKept, ReadsNext
<1>5. Unanswered' => Unanswered
  BY <1>1, <1>3, CallSequences DEF Unanswered
<1>6. (ForHandler' => ForHandler) /\ (ForDirectory' => ForDirectory)
  BY <1>1, <1>3, CallSequences DEF ForHandler, ForDirectory
<1>7. ForProxy' => ForProxy
  BY <1>1, <1>3, CallSequences DEF ForProxy
<1> QED BY <1>1, <1>4, <1>5, <1>6, <1>7, AnswersLeft

(* The connection is closed. *)
LEMMA EndAnswers ==
    ASSUME IndInv, AnswersInv, connection_close \/ connection_error \/ connection_finish
    PROVE  AnswersInv'
<1>1. /\ calls' = Tail(calls) /\ next' \in {"none", "CLOSE"}
      /\ UNCHANGED <<req, action, target_host, replies, announced>>
  BY DEF connection_close, connection_error, connection_finish, Callback, Returns, routing, reply
<1>2. calls \in {<<"close", "finish">>, <<"error">>, <<"finish">>}
  BY Sites DEF IndInv, TypeOK, connection_close, connection_error, connection_finish, Callback
<1>3. calls' = <<>> \/ calls' = <<"finish">>
  BY <1>1, <1>2, CallSequences
<1>4. ~Unanswered' /\ ~ForHandler' /\ ~ForDirectory' /\ ~ForProxy' /\ ~ProxyKept' /\ ~ReadsNext'
  BY <1>1, <1>3, CallSequences
  DEF Unanswered, ForHandler, ForDirectory, ForProxy, ProxyKept, ReadsNext
<1> QED BY <1>1, <1>4, AnswersLeft

(* Every step of the task keeps the answers fitting the requests. *)
LEMMA AnswersStep ==
    ASSUME IndInv, AnswersInv, [Next]_vars
    PROVE  AnswersInv'
<1>1. CASE Quiet
  BY <1>1, OpenAnswers, ParseAnswers, IdentAnswers, RouteAnswers, HandlerAnswers, SocketAnswers,
     DirectoryServes, ProxyAnswers, ProxyReplyAnswers, ProxyFailedAnswers,
     ProxyRequestAnswers, Zenon
  DEF Quiet
<1>2. CASE UNCHANGED vars
  <2>1. UNCHANGED <<cs, calls, next, req, action, target_host, replies, announced>>
    BY <1>2 DEF vars, routing, reply
  <2>2. /\ Unanswered' = Unanswered /\ ForHandler' = ForHandler /\ ForDirectory' = ForDirectory
        /\ ForProxy' = ForProxy /\ ProxyKept' = ProxyKept /\ ReadsNext' = ReadsNext
    BY <2>1 DEF Unanswered, ForHandler, ForDirectory, ForProxy, ProxyKept, ReadsNext
  <2> QED BY <2>1, <2>2, AnswersLeft
<1> QED
  BY <1>1, <1>2, NextCases, TaskAnswers, IdentAnswers, ProxyAnswers, ProxyCloseAnswers,
     EndAnswers, Zenon

(***************************************************************************)
(* Where the task stands in the state machine says whether its request is  *)
(* answered and which backend it is for: this is kept by every step.       *)
(***************************************************************************)
THEOREM AnswersInvariant == Spec => [](IndInv /\ AnswersInv)
<1>1. Init => AnswersInv
  BY InitAnswers
<1>2. IndInv /\ AnswersInv /\ [Next]_vars => AnswersInv'
  BY AnswersStep
<1> QED BY <1>1, <1>2, PositionsKept, PTL DEF Spec

(* The callbacks of a backend, and what has to be true when one is due. *)
LEMMA BackendCalls ==
    ASSUME IndInv, AnswersInv, NEW i \in DOMAIN calls, BackendCallback(calls[i])
    PROVE  RoutedTo(CallbackType(calls[i]))
<1>1. calls # <<>> /\ task \in {"loop", "closing", "done"}
  <2>1. DOMAIN <<>> = {}
    OBVIOUS
  <2> QED BY <2>1 DEF IndInv, TypeOK
<1>2. \/ \E c \in {"open", "parse", "register_request", "route_request", "send_socket_response",
                  "identify_request", "proxy_failed", "proxy_close", "proxy_req_parse", "error",
                  "finish", "msg_to_handler", "http_to_handler", "http_to_directory",
                  "http_to_proxy", "proxy_deliver", "proxy_reply_parse"} : calls = <<c>>
      \/ calls = <<"close", "finish">>
      \/ \E c \in {"http_to_handler", "http_to_directory", "http_to_proxy"} :
            calls = <<"proxy_close", c>>
  BY <1>1 DEF IndInv, Positions, InCall, InClose
<1>3. \A c : DOMAIN <<c>> = {1} /\ <<c>>[1] = c
  OBVIOUS
<1>4. \A c, d : DOMAIN <<c, d>> = {1, 2} /\ <<c, d>>[1] = c /\ <<c, d>>[2] = d
  OBVIOUS
<1>5. \/ calls = <<calls[i]>>
      \/ calls = <<"close", "finish">> /\ calls[i] \in {"close", "finish"}
      \/ calls = <<"proxy_close", calls[i]>>
      \/ calls[i] = "proxy_close"
  <2>1. CASE \E c : calls = <<c>>
    <3>1. PICK c : calls = <<c>>
      BY <2>1
    <3>2. calls[i] = c
      BY <3>1, <1>3
    <3> QED BY <3>1, <3>2
  <2>2. CASE calls = <<"close", "finish">>
    <3>1. calls[i] \in {"close", "finish"}
      BY <2>2, <1>4
    <3> QED BY <2>2, <3>1
  <2>3. CASE \E c : calls = <<"proxy_close", c>>
    <3>1. PICK c : calls = <<"proxy_close", c>>
      BY <2>3
    <3>2. calls[i] \in {"proxy_close", c}
      BY <3>1, <1>4
    <3> QED BY <3>1, <3>2
  <2>4. (\E c : calls = <<c>>) \/ calls = <<"close", "finish">> \/ \E c : calls = <<"proxy_close", c>>
    BY <1>2
  <2> QED BY <2>1, <2>2, <2>3, <2>4
<1>6. calls[i] \in {"http_to_handler", "msg_to_handler", "http_to_directory", "http_to_proxy",
                   "proxy_deliver", "proxy_reply_parse"}
  BY DEF BackendCallback, CallbackType
<1>7. \/ calls = <<calls[i]>>
      \/ calls = <<"proxy_close", calls[i]>> /\ calls[i] \in {"http_to_handler", "http_to_directory",
                                                             "http_to_proxy"}
  BY <1>2, <1>5, <1>6, CallSequences
<1>8. /\ calls[i] \in {"http_to_handler", "msg_to_handler"} => ForHandler
      /\ calls[i] = "http_to_directory" => ForDirectory
      /\ calls[i] \in {"http_to_proxy", "proxy_deliver", "proxy_reply_parse"} => ForProxy
  BY <1>7 DEF ForHandler, ForDirectory, ForProxy
<1> QED BY <1>6, <1>8 DEF AnswersInv, CallbackType

(***************************************************************************)
(* A request is given to a backend of the type its own route names, first  *)
(* on a connection or later on a kept one, and the server answers it at    *)
(* most once.                                                              *)
(***************************************************************************)
THEOREM RequestsAnsweredOnce == Spec => []AnswersFitRequests
<1>1. IndInv /\ AnswersInv => AnswersFitRequests
  <2> SUFFICES ASSUME IndInv, AnswersInv PROVE AnswersFitRequests
    OBVIOUS
  <2>1. BackendFitsRequest
    BY BackendCalls DEF BackendFitsRequest, RoutedTo
  <2>2. AtMostOneResponse
    BY DEF AnswersInv, AtMostOneResponse
  <2> QED BY <2>1, <2>2 DEF AnswersFitRequests
<1> QED BY <1>1, AnswersInvariant, PTL

(* The request changes only where another one is read. *)
LEMMA AnnouncedStep ==
    ASSUME IndInv, AnswersInv, [Next]_vars
    PROVE  (announced /\ ~DirectoryAnswers) => req' \in {req, NoRequest}
<1>1. CASE UNCHANGED req
  BY <1>1
<1>2. CASE connection_parse \/ connection_proxy_req_parse
  <2>1. calls = <<"parse">> \/ calls = <<"proxy_req_parse">>
    BY <1>2, Sites DEF IndInv, TypeOK, connection_parse, connection_proxy_req_parse, Callback
  <2>2. ReadsNext
    BY <2>1 DEF ReadsNext
  <2> QED BY <2>2 DEF AnswersInv
<1>3. \/ connection_parse \/ connection_proxy_req_parse
      \/ UNCHANGED req
  BY Zenon
  DEF Next, Prompt, Waiting, Terminated, vars, Connection_task_loop, Connection_task_close,
      Connection_task_return, connection_open, connection_register_request,
      connection_identify_request, connection_route_request, connection_send_socket_response,
      connection_msg_to_handler, connection_http_to_handler, connection_http_to_directory,
      connection_http_to_proxy, connection_proxy_deliver, connection_proxy_reply_parse,
      connection_proxy_failed, connection_proxy_close, connection_close, connection_error,
      connection_finish
<1> QED BY <1>1, <1>2, <1>3

(***************************************************************************)
(* A response that announced the end of the connection is its last one,    *)
(* through keep-alive and the reuse of a proxied connection, unless a      *)
(* directory sent it.                                                      *)
(***************************************************************************)
THEOREM AnnouncedCloseIsLast == Spec => AnnouncedCloseIsKept
<1>1. IndInv /\ AnswersInv /\ [Next]_vars =>
        [(announced /\ ~DirectoryAnswers) => req' \in {req, NoRequest}]_vars
  BY AnnouncedStep
<1> QED BY <1>1, AnswersInvariant, PTL DEF Spec, AnnouncedCloseIsKept
=============================================================================
