-------------------------------- MODULE M2sh --------------------------------
(***************************************************************************)
(* The operator's tool (src/tools/m2sh): its command line, the loading of  *)
(* a configuration file into the database that mongrel2 loads its          *)
(* configuration from, and the commands that start, stop, reload and look  *)
(* at servers by their rows in that database.                              *)
(*                                                                         *)
(* The tokens of a command line and the syntax tree of a file are given: a *)
(* token is [type, data], and a value of the tree [is, v], where v is the  *)
(* text of a QSTRING or a NUMBER, the name of a REF, the sequence of the   *)
(* values of a LIST, and that of the pairs of a HASH in the order of       *)
(* tst_traverse; a CLASS has its ident and its params.  Only one database  *)
(* is used and it can be opened.                                           *)
(***************************************************************************)
EXTENDS Config

CONSTANTS
    Lines,        \* command lines
    Files,        \* [file that can be read -> its settings, NULL when it does not parse]
    Lower,        \* [name of a class -> in lower case]
    MimeTypes,    \* the table of mimetypes.csql
    MaxCommands   \* bound: commands, and changes by other tools

(* The lists and the hashes that are walked are sequences. *)
IsSequence(v) == Len(v) \in Nat /\ v = [n \in 1..Len(v) |-> v[n]]

ASSUME M2shAssumption ==
    /\ MaxCommands \in Nat
    /\ IsTable(MimeTypes, {"ext", "type"}) /\ IsSequence(MimeTypes)
    /\ \A line \in Lines : \A b, c \in DOMAIN line :    \* hash_insert asserts it
        (b # c /\ line[b].type = "OPTION") => line[c] # line[b]

VARIABLES
    tool,      \* the m2sh process, see Tool0
    log,       \* the table of that name: what was done
    commands,  \* how many there were
    built      \* ghost: the file that the database was loaded from, NULL: another tool's

toolvars == <<tool, log, commands, built>>

Tool0 ==
    [at |-> "idle",                      \* what it does
     cmd |-> NULL,                       \* the Command
     settings |-> NULL,                  \* the tree of the file
     tables |-> NULL,                    \* the database as its transaction has it
     last |-> NULL,                      \* [table -> id of its last row]
     server |-> 0, host |-> 0, pair |-> 0,    \* positions in the walked lists and hashes
     SERVER_ID |-> 0, HOST_ID |-> 0,
     error |-> FALSE,                    \* a pair of the walked hash has failed
     row |-> 0,                          \* the server that is operated on
     sent |-> {},                        \* ghost: the servers that were signalled
     report |-> NULL]                    \* ghost: what the last operation did and returned

-----------------------------------------------------------------------------
(* Command_option: what follows an option is its value, unless that is an option too. *)
IsOption(tokens, c) == tokens[c].type = "OPTION"

Command_option(tokens, c) ==
    IF c < Len(tokens) /\ ~IsOption(tokens, c + 1) THEN tokens[c + 1].data ELSE ""

(* What is neither an option nor the value of one. *)
Command_extra(tokens, c) == ~IsOption(tokens, c) /\ (c = 3 \/ ~IsOption(tokens, c - 1))

Command_parse(tokens) ==
    LET args == 3..Len(tokens)
        given == {tokens[c].data : c \in {b \in args : IsOption(tokens, b)}} IN
    IF tokens[1].type \notin {"IDENT", "BLOB"} \/ tokens[2].type # "IDENT" THEN NULL
    ELSE [name |-> tokens[2].data,
          options |-> [o \in given |->
              LET c == CHOOSE b \in args : IsOption(tokens, b) /\ tokens[b].data = o
              IN Command_option(tokens, c)],
          extra |-> {c \in args : Command_extra(tokens, c)}]

DEFAULT_COMMAND == "shell"

cli_params_parse_args(tokens) ==
    Command_parse(IF Len(tokens) < 2
                  THEN Append(tokens, [type |-> "IDENT", data |-> DEFAULT_COMMAND]) ELSE tokens)

option(cmd, name, def) == IF name \in DOMAIN cmd.options THEN cmd.options[name] ELSE def

Operations == {"start", "stop", "reload", "running", "control"}
Listings == {"shell", "servers", "hosts", "routes", "log", "version", "help"}
COMMAND_MAPPING == {"load", "config", "commit"} \cup Operations \cup Listings

-----------------------------------------------------------------------------
(* Value_resolve follows one reference. *)
Value_resolve(settings, val) ==
    IF val.is # "REF" THEN val
    ELSE IF val.v \in DOMAIN settings THEN settings[val.v] ELSE NULL

AST_get(settings, from, name, type) ==
    IF name \notin DOMAIN from THEN NULL
    ELSE LET val == Value_resolve(settings, from[name]) IN
         IF val = NULL THEN NULL ELSE IF val.is = type THEN val ELSE NULL

AST_str(settings, from, name, type) ==
    LET val == AST_get(settings, from, name, type) IN IF val = NULL THEN NULL ELSE val.v

Confirm_type(val, class) ==
    IF val = NULL THEN FALSE ELSE IF val.is = "CLASS" THEN val.ident = class ELSE FALSE

(* The lists and hashes that are walked, and the values that they are walked for. *)
ServersOf(settings) == settings["servers"].v
ServerAt(settings, n) == Value_resolve(settings, ServersOf(settings)[n])
HostsAt(settings, n) == AST_get(settings, ServerAt(settings, n).params, "hosts", "LIST")
HostAt(settings, n, m) == Value_resolve(settings, HostsAt(settings, n).v[m])
RoutesAt(settings, n, m) == AST_get(settings, HostAt(settings, n, m).params, "routes", "HASH")
Settings(settings) == AST_get(settings, settings, "settings", "HASH")
Mimetypes(settings) == AST_get(settings, settings, "mimetypes", "HASH")

Pairs(hash) == IF hash = NULL THEN <<>> ELSE hash.v

(* What names the target of a route in its class. *)
SpecParam == [dir |-> "base", proxy |-> "addr", handler |-> "send_spec"]

ServerRow(settings, params) ==
    [uuid |-> AST_str(settings, params, "uuid", "QSTRING"),
     name |-> AST_str(settings, params, "name", "QSTRING"),
     default_host |-> AST_str(settings, params, "default_host", "QSTRING"),
     pid |-> AST_str(settings, params, "pid_file", "QSTRING")]

(* Without a port the SQL of a server is wrong. *)
ServerFits(settings, val) ==
    /\ Confirm_type(val, "Server")
    /\ AST_str(settings, val.params, "port", "NUMBER") # NULL
    /\ AST_get(settings, val.params, "hosts", "LIST") # NULL

HostFits(settings, val) ==
    Confirm_type(val, "Host") /\ AST_str(settings, val.params, "name", "QSTRING") # NULL

(* The host m of the server n does not end the walk of its list. *)
HostWalks(settings, n, m) ==
    HostFits(settings, HostAt(settings, n, m)) /\ RoutesAt(settings, n, m) # NULL

HasServers(settings) ==
    IF "servers" \in DOMAIN settings THEN settings["servers"].is = "LIST" ELSE FALSE

ASSUME FilesAssumption ==
    \A f \in DOMAIN Files : Files[f] # NULL =>
        LET s == Files[f] IN
        /\ IsSequence(Pairs(Settings(s))) /\ IsSequence(Pairs(Mimetypes(s)))
        /\ HasServers(s) => IsSequence(ServersOf(s))
        /\ HasServers(s) => \A n \in DOMAIN ServersOf(s) :
            ServerFits(s, ServerAt(s, n)) =>
                /\ IsSequence(HostsAt(s, n).v)
                /\ \A m \in DOMAIN HostsAt(s, n).v :
                    HostWalks(s, n, m) => IsSequence(RoutesAt(s, n, m).v)

-----------------------------------------------------------------------------
(* INSERT: the id of a row is one more than the last. *)
Insert(t, table, row) ==
    [t EXCEPT !.tables[table] = Put(@, t.last[table] + 1, row), !.last[table] = @ + 1]

At(t, at) == [t EXCEPT !.at = at]

Works(t) == tool' = t /\ UNCHANGED <<configvars, log, commands, built>>

(* Config_load fails: it closes the database and the transaction is rolled back. *)
Rollback ==
    /\ writer' = "none"
    /\ tool' = [Tool0 EXCEPT !.at = "log", !.cmd = tool.cmd]
    /\ UNCHANGED <<db, load, seen, up, pidfile, mem, log, commands, built>>

(* begin, and CONFIG_SCHEMA, which drops the tables and creates them again. *)
Config_setup ==
    /\ tool.at = "begin" /\ writer = "none"
    /\ writer' = "reserved"
    /\ tool' = [tool EXCEPT !.at = "servers", !.tables = [t \in Tables |-> Empty],
                            !.last = [t \in Tables |-> 0]]
    /\ UNCHANGED <<db, load, seen, up, pidfile, mem, log, commands, built>>

(* AST_walk: servers has to be a list. *)
WalkFails == tool.at = "servers" /\ ~HasServers(tool.settings) /\ Rollback

Walking == tool.at = "servers" /\ HasServers(tool.settings)

(* Server_load, until its hosts are walked; one that fails ends Config_load. *)
Server_load ==
    /\ Walking /\ tool.server < Len(ServersOf(tool.settings))
    /\ LET val == ServerAt(tool.settings, tool.server + 1)
           t == Insert(tool, "server", ServerRow(tool.settings, val.params)) IN
       IF ServerFits(tool.settings, val)
       THEN Works([t EXCEPT !.at = "hosts", !.server = @ + 1, !.host = 0,
                            !.SERVER_ID = t.last["server"]])
       ELSE Rollback

(* Host_load, until its routes are walked.  Server_load ignores that one has failed: the *)
(* hosts after it are not loaded.                                                        *)
Host_load ==
    /\ tool.at = "hosts" /\ tool.host < Len(HostsAt(tool.settings, tool.server).v)
    /\ LET val == HostAt(tool.settings, tool.server, tool.host + 1)
           name == AST_str(tool.settings, val.params, "name", "QSTRING")
           t == Insert(tool, "host", [server_id |-> tool.SERVER_ID, name |-> name, matching |-> name])
           routed == AST_get(tool.settings, val.params, "routes", "HASH") # NULL IN
       IF ~HostFits(tool.settings, val) THEN Works(At(tool, "servers"))
       ELSE Works([t EXCEPT !.at = IF routed THEN "routes" ELSE "servers", !.host = @ + 1, !.pair = 0,
                            !.HOST_ID = t.last["host"]])

HostsDone ==
    /\ tool.at = "hosts" /\ tool.host = Len(HostsAt(tool.settings, tool.server).v)
    /\ Works(At(tool, "servers"))

(* Route_load: a route that fails is left out. *)
TargetType(val) ==
    IF val = NULL THEN NULL ELSE IF val.is = "CLASS" THEN Lower[val.ident] ELSE NULL

Route_load ==
    /\ tool.at = "routes"
    /\ LET pairs == RoutesAt(tool.settings, tool.server, tool.host).v IN
       /\ tool.pair < Len(pairs)
       /\ LET pair == pairs[tool.pair + 1]
              val == Value_resolve(tool.settings, pair.value)
              type == TargetType(val)
              spec == AST_str(tool.settings, val.params, SpecParam[type], "QSTRING")
              t == Insert(tool, TableOf[type], [spec |-> spec])
              route == [host_id |-> tool.HOST_ID, path |-> pair.key,
                        target_id |-> t.last[TableOf[type]], type |-> type] IN
          Works([(IF type \in Kinds THEN Insert(t, "route", route) ELSE tool) EXCEPT !.pair = @ + 1])

RoutesDone ==
    /\ tool.at = "routes" /\ tool.pair = Len(RoutesAt(tool.settings, tool.server, tool.host).v)
    /\ Works(At(tool, "hosts"))

ServersDone ==
    /\ Walking /\ tool.server = Len(ServersOf(tool.settings))
    /\ Works([tool EXCEPT !.at = "settings", !.pair = 0])

(* Settings_load: it goes on after a pair that fails, and then the load has failed. *)
Settings_load ==
    /\ tool.at = "settings"
    /\ LET pairs == Pairs(Settings(tool.settings)) IN
       /\ tool.pair < Len(pairs)
       /\ LET pair == pairs[tool.pair + 1]
              val == Value_resolve(tool.settings, pair.value)
              t == IF val = NULL THEN [tool EXCEPT !.error = TRUE]
                   ELSE Insert(tool, "setting", [key |-> pair.key, value |-> val.v]) IN
          Works([t EXCEPT !.pair = @ + 1])

SettingsDone ==
    /\ tool.at = "settings" /\ tool.pair = Len(Pairs(Settings(tool.settings)))
    /\ IF tool.error THEN Rollback ELSE Works(At(tool, "import"))

Mimetypes_import ==
    /\ tool.at = "import"
    /\ Works([tool EXCEPT !.at = "mimetypes", !.pair = 0, !.tables["mimetype"] = MimeTypes,
                          !.last["mimetype"] = Len(MimeTypes)])

(* Mimetypes_load: it replaces the type of an extension; that a pair has failed is ignored. *)
Mimetypes_load ==
    /\ tool.at = "mimetypes"
    /\ LET pairs == Pairs(Mimetypes(tool.settings)) IN
       /\ tool.pair < Len(pairs)
       /\ LET pair == pairs[tool.pair + 1]
              val == Value_resolve(tool.settings, pair.value)
              table == tool.tables["mimetype"]
              kept == {i \in DOMAIN table : table[i].ext # pair.key}
              deleted == [tool EXCEPT !.tables["mimetype"] = [i \in kept |-> table[i]]]
              t == IF val = NULL THEN tool
                   ELSE Insert(deleted, "mimetype", [ext |-> pair.key, type |-> val.v]) IN
          Works([t EXCEPT !.pair = @ + 1])

MimetypesDone ==
    /\ tool.at = "mimetypes" /\ tool.pair = Len(Pairs(Mimetypes(tool.settings)))
    /\ Works(At(tool, "commit"))

(* Config_commit: while somebody reads the lock is refused, which ends Config_load. *)
Config_commit ==
    /\ tool.at = "commit"
    /\ IF Reading THEN Rollback
       ELSE /\ writer' = "exclusive" /\ tool' = At(tool, "committing")
            /\ UNCHANGED <<db, load, seen, up, pidfile, mem, log, commands, built>>

Committed ==
    /\ tool.at = "committing"
    /\ db' = tool.tables /\ built' = tool.settings /\ writer' = "none"
    /\ tool' = [Tool0 EXCEPT !.at = "log", !.cmd = tool.cmd]
    /\ UNCHANGED <<load, seen, up, pidfile, mem, log, commands>>

Config_load ==
    \/ Config_setup \/ WalkFails \/ Server_load \/ Host_load \/ HostsDone \/ Route_load \/ RoutesDone
    \/ ServersDone \/ Settings_load \/ SettingsDone \/ Mimetypes_import \/ Mimetypes_load
    \/ MimetypesDone \/ Config_commit \/ Committed

(* log_action: a row of the log, when nobody reads; Command_load logs what has failed too. *)
log_action ==
    /\ tool.at = "log"
    /\ log' = IF Reading THEN log ELSE Append(log, tool.cmd.name)
    /\ tool' = Tool0
    /\ UNCHANGED <<configvars, commands, built>>

-----------------------------------------------------------------------------
(* exec_server_operations: the servers that the options select. *)
Named(cmd, column, name) == {i \in DOMAIN db.server : db.server[i][column] = option(cmd, name, "")}

Selected(cmd) ==
    LET given == DOMAIN cmd.options IN
    IF "every" \in given THEN DOMAIN db.server
    ELSE IF "name" \in given THEN Named(cmd, "name", "name")
    ELSE IF "host" \in given THEN Named(cmd, "default_host", "host")
    ELSE Named(cmd, "uuid", "uuid")

Selects(cmd) ==
    /\ ~({"name", "uuid", "host"} \subseteq DOMAIN cmd.options)
    /\ DOMAIN cmd.options \cap {"every", "name", "host", "uuid"} # {}

Pid(i) == IF db.server[i].pid \in DOMAIN pidfile THEN pidfile[db.server[i].pid] ELSE NULL
Alive(pid) == pid = "other" \/ (pid = "mongrel2" /\ up \in {"load", "run"})

Reports(rc) ==
    tool' = [Tool0 EXCEPT !.report = [cmd |-> tool.cmd.name, rows |-> Selected(tool.cmd),
                                      sent |-> tool.sent, rc |-> rc]]

Operating(name, i) ==
    /\ tool.at = "operation" /\ tool.cmd.name = name
    /\ IsNext(i, Selected(tool.cmd), tool.row)

(* run_server runs mongrel2; there is one that is not modelled when it is not ours. *)
run_server ==
    \E i \in DOMAIN db.server :
        /\ Operating("start", i)
        /\ tool' = [tool EXCEPT !.row = i]
        /\ IF db.server[i].uuid = UUID /\ up = "new" THEN Start ELSE UNCHANGED configvars
        /\ UNCHANGED <<log, commands, built>>

(* stop_server and reload_server signal the process that the PID file names, and fail, which *)
(* ends the query, when there is none.  What the signals do is in Lifecycle.                 *)
signal_server ==
    \E i \in DOMAIN db.server :
        /\ \E name \in {"stop", "reload"} : Operating(name, i)
        /\ IF Alive(Pid(i)) THEN tool' = [tool EXCEPT !.row = i, !.sent = @ \cup {i}]
           ELSE Reports(-1)
        /\ UNCHANGED <<configvars, log, commands, built>>

(* check_server and control_server have run whatever they find. *)
look_server ==
    \E i \in DOMAIN db.server :
        /\ \E name \in {"running", "control"} : Operating(name, i)
        /\ Works([tool EXCEPT !.row = i])

(* The end of exec_server_operations: whether the last callback has run decides. *)
OperationDone ==
    /\ tool.at = "operation" /\ NoNext(Selected(tool.cmd), tool.row)
    /\ Reports(IF tool.row # 0 THEN 0 ELSE -1)
    /\ UNCHANGED <<configvars, log, commands, built>>

-----------------------------------------------------------------------------
Command_load(cmd) ==
    LET file == option(cmd, "config", "mongrel2.conf")
        t == [Tool0 EXCEPT !.cmd = cmd] IN
    tool' = IF file \notin DOMAIN Files THEN Tool0
            ELSE IF Files[file] = NULL THEN At(t, "log")
            ELSE [t EXCEPT !.at = "begin", !.settings = Files[file]]

(* Command_run.  What the listing commands print is left out. *)
Command_run ==
    /\ tool.at = "idle" /\ commands < MaxCommands
    /\ \E line \in Lines :
        LET cmd == cli_params_parse_args(line) IN
        IF cmd = NULL THEN tool' = Tool0
        ELSE IF cmd.extra # {} \/ cmd.name \notin COMMAND_MAPPING \ Listings
        THEN tool' = Tool0
        ELSE IF cmd.name \in {"load", "config"} THEN Command_load(cmd)
        ELSE IF cmd.name = "commit" THEN tool' = [Tool0 EXCEPT !.at = "log", !.cmd = cmd]
        ELSE tool' = IF Selects(cmd) THEN [Tool0 EXCEPT !.at = "operation", !.cmd = cmd] ELSE Tool0
    /\ commands' = commands + 1
    /\ UNCHANGED <<configvars, log, built>>

(* Another tool changes the database, in a transaction of its own. *)
Edit ==
    /\ commands < MaxCommands
    /\ ~Reading /\ writer = "none" /\ tool.at # "operation"
    /\ db' \in Databases \ {db}
    /\ built' = NULL /\ commands' = commands + 1
    /\ UNCHANGED <<writer, load, seen, up, pidfile, mem, tool, log>>

M2shInit == tool = Tool0 /\ log = <<>> /\ commands = 0 /\ built = NULL

M2shNext ==
    \/ Command_run \/ Config_load \/ log_action
    \/ run_server \/ signal_server \/ look_server \/ OperationDone
    \/ Edit

M2sh_Next == (ConfigNext /\ UNCHANGED toolvars) \/ M2shNext

M2shSpec == ConfigInit /\ M2shInit /\ [][M2sh_Next]_<<configvars, toolvars>>

-----------------------------------------------------------------------------
(* The route's row k is the pair of a hash of routes, and it has the pair's target. *)
RouteOf(d, settings, k, pair) ==
    LET val == Value_resolve(settings, pair.value)
        r == d.route[k] IN
    /\ r.type \in Kinds /\ r.type = TargetType(val) /\ r.path = pair.key
    /\ r.target_id \in DOMAIN d[TableOf[r.type]]
    /\ d[TableOf[r.type]][r.target_id].spec
           = AST_str(settings, val.params, SpecParam[r.type], "QSTRING")

(* The host's row j and the routes in rows are the host m of the server n, less the routes *)
(* that failed.                                                                            *)
HostOf(d, settings, n, m, j, pairs) ==
    LET name == AST_str(settings, HostAt(settings, n, m).params, "name", "QSTRING") IN
    /\ HostFits(settings, HostAt(settings, n, m))
    /\ d.host[j] = [server_id |-> n, name |-> name, matching |-> name]
    /\ \A k \in RouteRows(d, j) : \E y \in DOMAIN pairs : RouteOf(d, settings, k, pairs[y])
    /\ \A y \in DOMAIN pairs : TargetType(Value_resolve(settings, pairs[y].value)) \in Kinds =>
           \E k \in RouteRows(d, j) : RouteOf(d, settings, k, pairs[y])

(***************************************************************************)
(* m2sh load: a database that it has committed has every server and every  *)
(* setting of the file; of the hosts of a server those up to the first     *)
(* that fails, each with all its routes but the ones that fail; and each   *)
(* route has a target row of its own.                                      *)
(***************************************************************************)
CommittedIsTheFile ==
    built # NULL =>
        LET pairs == Pairs(Settings(built)) IN
        /\ DOMAIN db.server = DOMAIN ServersOf(built)
        /\ \A n \in DOMAIN db.server : db.server[n] = ServerRow(built, ServerAt(built, n).params)
        /\ \A j \in DOMAIN db.host :
            /\ db.host[j].server_id \in DOMAIN db.server
            /\ \E m \in DOMAIN HostsAt(built, db.host[j].server_id).v :
                HostOf(db, built, db.host[j].server_id, m, j, Pairs(RoutesAt(built, db.host[j].server_id, m)))
        /\ \A n \in DOMAIN db.server : \A m \in DOMAIN HostsAt(built, n).v :
            (\A x \in 1..m : HostWalks(built, n, x)) =>
                \E j \in HostRows(db, n) : HostOf(db, built, n, m, j, Pairs(RoutesAt(built, n, m)))
        /\ \A k, l \in DOMAIN db.route :
            /\ db.route[k].host_id \in DOMAIN db.host
            /\ k # l => (db.route[k].type # db.route[l].type \/ db.route[k].target_id # db.route[l].target_id)
        /\ DOMAIN db.setting = DOMAIN pairs
        /\ \A y \in DOMAIN pairs :
            db.setting[y] = [key |-> pairs[y].key, value |-> Value_resolve(built, pairs[y].value).v]

(* A stop or a reload that reports success has signalled every server that it was asked *)
(* for, and there was one; one that reports failure has not.                            *)
OperationsReported ==
    (IF tool.report = NULL THEN FALSE ELSE tool.report.cmd \in {"stop", "reload"}) =>
        /\ tool.report.sent \subseteq tool.report.rows
        /\ (tool.report.rc = 0) <=> (tool.report.rows # {} /\ tool.report.sent = tool.report.rows)

(***************************************************************************)
(* config/config.c, mongrel2.c and m2sh: through loads that fail anywhere, *)
(* reloads, and commits of m2sh and other tools between two queries, what  *)
(* is served is what the database said, every route leads to an object     *)
(* that is alive, and every object is destroyed once; m2sh commits the     *)
(* whole file or nothing, and reports what it has done to the servers.     *)
(***************************************************************************)
ConfigurationFaithful ==
    /\ ServesTheDatabase /\ SettingsFollowDatabase
    /\ RoutesLeadToLoaded /\ TargetsAccounted /\ DestroyedOnce
    /\ CommittedIsTheFile /\ OperationsReported
=============================================================================
