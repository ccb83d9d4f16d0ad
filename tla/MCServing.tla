------------------------------ MODULE MCServing -------------------------------
(***************************************************************************)
(* What a connection task works with: the configuration that it looks      *)
(* routes up in (Config), which m2sh puts into the database (M2sh), the    *)
(* request that it fills and sends to handlers (Requests), the bytes of    *)
(* requests and of proxied replies on their way through its buffers        *)
(* (Streams), and the locks of the task library (Locks).  A behaviour is   *)
(* about one of them and the others stay as they are.                      *)
(***************************************************************************)
EXTENDS M2sh, Requests, Streams, Locks

VARIABLE part   \* which one

servingvars == <<part, configvars, toolvars, requestsvars, streamsvars, lockvars>>

NoDatabase ==
    /\ db = (CHOOSE d \in Databases : TRUE) /\ pidfile = (CHOOSE p \in PidFiles : TRUE)
    /\ mem = Memory0 /\ ConfigInit
NoStream == side = "none" /\ NoRequest /\ NoReply /\ RequestInit /\ ReplyInit
LocksStart == LocksInit(SetToSeq(Tasks))

ServingInit ==
    /\ M2shInit /\ RequestsInit /\ LocksStart
    /\ \/ part = "config" /\ ConfigInit /\ NoStream
       \/ part = "streams" /\ NoDatabase /\ StreamsInit
       \/ part \in {"requests", "locks"} /\ NoDatabase /\ NoStream

ServingNext ==
    /\ part' = part
    /\ \/ /\ part = "config" /\ M2sh_Next
          /\ UNCHANGED <<requestsvars, streamsvars, lockvars>>
       \/ /\ part = "requests" /\ RequestsNext
          /\ UNCHANGED <<configvars, toolvars, streamsvars, lockvars>>
       \/ /\ part = "streams" /\ StreamsNext
          /\ UNCHANGED <<configvars, toolvars, requestsvars, lockvars>>
       \/ /\ part = "locks" /\ LocksNext
          /\ UNCHANGED <<configvars, toolvars, requestsvars, streamsvars>>

(* The scheduler runs the tasks of its queue, a task yields or blocks some *)
(* time, and one that holds a lock gives it back.                          *)
LocksFairness ==
    /\ WF_lockvars(part = "locks" /\ Schedules)
    /\ WF_lockvars(part = "locks" /\ \E t \in Tasks : TaskYield(t))
    /\ SF_lockvars(part = "locks" /\ \E t \in Tasks : QUnlock(t))
    /\ SF_lockvars(part = "locks" /\ \E t \in Tasks : RUnlock(t))
    /\ SF_lockvars(part = "locks" /\ \E t \in Tasks : WUnlock(t))

(* A connection task goes on whenever fdrecv can return, and fdrecv        *)
(* returns when the upstream sends or closes.                              *)
ReplyFairness == WF_streamsvars(side = "reply" /\ ReplyNext /\ UNCHANGED <<requestVars, side>>)

ServingSpec == ServingInit /\ [][ServingNext]_servingvars /\ LocksFairness /\ ReplyFairness

\* Limits of three, keys of settings of one and two characters, texts of one to four.
MCDefault == [l \in {"handler_stack", "host_name", "dir_max_path", "mime_ext_len"} |-> 3]
MCLimitKey == [handler_stack |-> <<"s">>, host_name |-> <<"h">>, dir_max_path |-> <<"d">>, mime_ext_len |-> <<"m">>]
MCWidth == [t \in {"n", "o", "ooo", "e", "x", "b/", "bbb/", "d", "9", "10"} |->
                CASE t = "ooo" -> 3 [] t \in {"10", "b/"} -> 2 [] t = "bbb/" -> 4 [] OTHER -> 1]
MCNumber == [t \in {"9", "10"} |-> IF t = "9" THEN 9 ELSE 10]
MCBases == {"b/", "bbb/"}
MCPidFiles == {[p |-> "other", q |-> "dead"]}

\* Databases that load, and ones that fail or repeat themselves in each table.
RouteIs(host, path, type, target) == [host_id |-> host, path |-> path, type |-> type, target_id |-> target]
HostIs(server, name, matching) == [server_id |-> server, name |-> name, matching |-> matching]
ServerIs(uuid, default, pid) == [uuid |-> uuid, name |-> "m", default_host |-> default, pid |-> pid]
SettingIs(key, value) == [key |-> key, value |-> value]
TypeIs(ext) == [ext |-> ext, type |-> "t"]
Spec_(spec) == [spec |-> spec]

Db0 == [handler |-> <<Spec_("a")>>, proxy |-> <<Spec_("b")>>, directory |-> <<Spec_("b/")>>,
        server |-> <<ServerIs("u", "n", "p")>>,
        host |-> <<HostIs(1, "n", "n")>>,
        route |-> <<RouteIs(1, "/", "dir", 1), RouteIs(1, "/a", "handler", 1)>>,
        mimetype |-> <<TypeIs("e")>>,
        setting |-> <<SettingIs(<<"h">>, "9")>>]

MCDatabases ==
    {Db0,
     \* other targets under the same ids, a route that is there twice, two hosts with one pattern
     [Db0 EXCEPT !.handler[1].spec = "c",
                 !.route = Append(@, RouteIs(1, "/", "proxy", 1)),
                 !.host = @ \o <<HostIs(1, "o", "o"), HostIs(1, "n", "o")>>],
     \* no default host of that name; a server without one
     [Db0 EXCEPT !.host[1].name = "o"],
     [Db0 EXCEPT !.server = <<ServerIs("u", NULL, "q")>>, !.host = Append(@, HostIs(1, "o", "o"))],
     \* the server's row twice, the second fails
     [Db0 EXCEPT !.server = <<ServerIs("u", "n", "p"), ServerIs("u", "o", "q")>>,
                 !.host = Append(@, HostIs(2, "ooo", "ooo"))],
     [Db0 EXCEPT !.server = <<ServerIs("u", "n", "p"), ServerIs("u", "n", NULL)>>],
     \* a route without a target, a base that is wrong
     [Db0 EXCEPT !.route = Append(@, RouteIs(1, "/b", "other", 1)), !.directory = <<Spec_("b/"), Spec_("d")>>],
     \* MIME types and settings that are there twice
     [Db0 EXCEPT !.mimetype = @ \o @],
     [Db0 EXCEPT !.setting = <<SettingIs(<<"s">>, "10"), SettingIs(<<"s">>, "10")>>],
     [Db0 EXCEPT !.directory = <<Spec_("b/"), Spec_("bbb/")>>,
                 !.setting = <<SettingIs(<<"m">>, "9"), SettingIs(<<"m", "x">>, "9")>>]}

\* Configuration files: one with two servers that share a host, with references, routes that
\* fail and hosts that end the walk; ones that fail at each step; one that does not parse.
Text(v) == [is |-> "QSTRING", v |-> v]
Num(v) == [is |-> "NUMBER", v |-> v]
Ref(name) == [is |-> "REF", v |-> name]
List(v) == [is |-> "LIST", v |-> v]
Hash(v) == [is |-> "HASH", v |-> v]
Class(ident, params) == [is |-> "CLASS", ident |-> ident, params |-> params]
Pair(key, value) == [key |-> key, value |-> value]

ServerClass(uuid, pid, hosts) ==
    Class("Server", [uuid |-> Text(uuid), name |-> Text("m"), port |-> Num("80"),
                     default_host |-> Text("n"), pid_file |-> Text(pid), hosts |-> hosts])
FileHandler == Class("Handler", [send_spec |-> Text("a")])
FileDir == Class("Dir", [base |-> Text("b/")])
Shared ==
    Class("Host", [name |-> Ref("name"),
                   routes |-> Hash(<<Pair("/", FileDir), Pair("/a", Ref("app")), Pair("/b", Ref("none")),
                                     Pair("/c", Class("Other", Empty))>>)])
Files0 ==
    [name |-> Text("n"), app |-> FileHandler, shared |-> Shared,
     main |-> ServerClass("u", "p", List(<<Ref("shared"), Class("Host", [name |-> Text("o")]), Ref("shared")>>)),
     servers |-> List(<<Ref("main"), ServerClass("v", "q", List(<<Ref("shared")>>))>>),
     settings |-> Hash(<<Pair(<<"h">>, Num("9")), Pair(<<"s">>, Text("10"))>>),
     mimetypes |-> Hash(<<Pair("e", Text("y")), Pair("x", Ref("none"))>>)]

MCFiles ==
    [full |-> Files0,
     noport |-> [Files0 EXCEPT !.main = Class("Server", [hosts |-> List(<<>>)])],
     noservers |-> [servers |-> Text("main")],
     nosetting |-> [servers |-> List(<<>>), settings |-> Hash(<<Pair(<<"h">>, Ref("none")), Pair(<<"s">>, Num("9"))>>)],
     wrong |-> NULL]
MCLower == [Dir |-> "dir", Handler |-> "handler", Other |-> "other"]
MCMimeTypes == <<TypeIs("e"), TypeIs("x")>>

\* Command lines: the commands with an option that selects, one that does not parse and ones
\* with too much.
Option(name) == [type |-> "OPTION", data |-> name]
Word(w) == [type |-> "IDENT", data |-> w]
MCLines ==
    {<<Word("m2sh"), Word("load"), Option("config"), [type |-> "BLOB", data |-> f]>> :
        f \in DOMAIN MCFiles \cup {"none"}}
    \cup {<<Word("m2sh"), Word(name), Option("every")>> : name \in {"start", "stop", "running"}}
    \cup {<<Word("m2sh"), Word("reload"), Option("uuid"), Word("v")>>,
          <<Word("m2sh"), Word("stop"), Option("host"), Word("n"), Option("murder")>>,
          <<Word("m2sh"), Word("stop"), Option("name"), Option("uuid"), Option("host")>>,
          <<Word("m2sh"), Word("stop"), Word("all")>>,
          <<Word("m2sh"), Word("commit"), Option("what"), [type |-> "QSTRING", data |-> "w"]>>,
          <<Word("m2sh"), Option("every")>>,
          <<Word("m2sh")>>}

\* Requests with every field there and missing; quotes and backslashes; JSON messages with and
\* without parameters and a query.
Header(key, text) == [key |-> key, text |-> text]
Get(path, query, fragment, headers) ==
    [json |-> FALSE, method |-> <<"G">>, version |-> <<"1">>, path |-> path, params |-> NULL, query |-> query,
     uri |-> IF path = NULL THEN <<"*">> ELSE path \o (IF query = NULL THEN <<>> ELSE <<"?">> \o query),
     fragment |-> fragment, headers |-> headers]
Json(path, params, query) ==
    [json |-> TRUE, method |-> NULL, version |-> NULL, path |-> path, params |-> params, query |-> query, uri |-> NULL,
     fragment |-> NULL, headers |-> <<>>]
MCMessages ==
    {Get(<<"/">>, NULL, NULL, <<>>),
     Get(<<"/">>, <<"q">>, <<"f">>, <<Header("Host", <<"h", ":", "1">>)>>),
     Get(<<"/", "a">>, <<>>, NULL, <<Header("Content-Length", <<"1", "2">>), Header("Host", <<":", "h">>)>>),
     Get(<<"/">>, NULL, <<"f">>, <<Header("Cookie", <<BSLASH, QUOTE>>), Header("Cookie", <<QUOTE, "c", BSLASH>>)>>),
     Get(<<"/", BSLASH, "b">>, NULL, NULL, <<Header("Host", <<"h">>)>>),
     Get(NULL, NULL, NULL, <<>>),
     Json(<<"@">>, NULL, NULL),
     Json(<<"@", "j">>, NULL, <<"q">>),
     Json(<<"@", "j">>, <<";", "p">>, NULL),
     Json(<<"@">>, <<";">>, <<>>)}

\* Two requests with heads of two bytes and contents that fit the buffer of five, fill it,
\* need a larger one and are uploads; replies whose head and chunks do and do not fit one
\* read.
Req(path, content, base) == [path |-> path, content |-> content, base |-> base]
MCConversations ==
    {<<Req(p, c, 0), Req(q, d, HEADER + c)>> : p \in {"handler", "proxy", "dir"}, q \in {"handler", "proxy"},
                                c \in {0, 1, 4, 6}, d \in {0, 3}}

ChunksOf(sizes) ==
    [i \in DOMAIN sizes |-> [size |-> sizes[i],
                             start |-> REPLY_HEAD + FoldFunctionOnSet(LAMBDA x, y : x + y + 6, 0, sizes, 1 .. i - 1)]]
Rep(kind, sizes, content, surplus, ends) ==
    [kind |-> kind, chunks |-> ChunksOf(sizes), content |-> content, surplus |-> surplus, cut |-> ends]
MCReplyKinds ==
    {Rep("length", <<>>, c, s, x) : c \in {0, 3, 11}, s \in {0, 1}, x \in BOOLEAN}
    \cup {Rep("close", <<>>, c, 0, FALSE) : c \in {0, 8}}
    \cup {Rep("chunks", cs, 0, 0, FALSE) : cs \in {<<0>>, <<1, 2, 0>>, <<6, 0>>}}
    \cup {Rep("chunks", <<2, 0>>, 0, s, x) : s \in {0, 1}, x \in BOOLEAN}

(***************************************************************************)
(* The liveness of both: a reply whose upstream goes on ends, and a task   *)
(* that waits for a lock gets it.                                          *)
(***************************************************************************)
EveryoneFinishes ==
    /\ EveryReplyEnds /\ EveryLockerGetsIt
=============================================================================
