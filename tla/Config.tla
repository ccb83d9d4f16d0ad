------------------------------- MODULE Config -------------------------------
(***************************************************************************)
(* The configuration: mongrel2's load of a Server and all it needs from    *)
(* the database (src/config/config.c, src/config/db.c, src/host.c,         *)
(* src/server.c, src/setting.c, src/mime.c), and the loading, reloading    *)
(* and dismantling of it by src/mongrel2.c.                                *)
(*                                                                         *)
(* A database is a record of tables; a table is a function from the ids of *)
(* its rows, its primary key, to the rows, and a query gives them in the   *)
(* order of their ids.  A load takes one step for each row: another        *)
(* process may commit between two queries, but not within one, for a query *)
(* holds SQLite's SHARED lock.  A path or a host pattern stands for its    *)
(* literal part, by which it is inserted; a setting's key is a sequence of *)
(* characters.  An object is named by its kind, its row and the load that  *)
(* made it.                                                                *)
(***************************************************************************)
EXTENDS Null, Integers, Sequences

CONSTANTS
    Databases,   \* what the database may hold before m2sh loads a file
    Width,       \* [text -> its length]
    Number,      \* [text -> the number that atoi reads in it]
    Bases,       \* directories that do not begin with / and end with /
    Default,     \* [limit -> its default]
    LimitKey,    \* [limit -> key of its setting]
    UUID,        \* the server that mongrel2 was told to be
    PidFiles,    \* what the PID files may name at first
    MaxLoads     \* bound: loads of the configuration

VARIABLES
    db,        \* the database as it is committed
    writer,    \* lock of a process that changes it: "none", "reserved", "exclusive"
    load,      \* where the load is, see Idle
    seen,      \* ghost: [query of this load -> the database that it saw, or Unread]
    up,        \* "new", "load", "run", or the exit status
    pidfile,   \* [path -> the process it names: NULL, "mongrel2", "other", "dead"]
    mem        \* what the process has in memory, see Memory0

configvars == <<db, writer, load, seen, up, pidfile, mem>>

Kinds == {"handler", "proxy", "dir"}
Queries == {"handlers", "proxies", "dirs", "servers", "mimetypes", "settings"}
Tables == {"handler", "proxy", "directory", "server", "host", "route", "mimetype", "setting"}
TableOf == [handler |-> "handler", proxy |-> "proxy", dir |-> "directory"]
QueryOf == [handler |-> "handlers", proxy |-> "proxies", dir |-> "dirs"]
Limits == {"handler_stack", "host_name", "dir_max_path", "mime_ext_len"}

Empty == [x \in {} |-> x]

Put(map, key, value) ==
    [k \in DOMAIN map \cup {key} |-> IF k = key THEN value ELSE map[k]]

IsTable(table, fields) ==
    /\ table = [id \in DOMAIN table |-> table[id]]
    /\ DOMAIN table \subseteq Nat \ {0}
    /\ \A id \in DOMAIN table : fields \subseteq DOMAIN table[id]

(* The tables of constants.c and the columns that a load reads. *)
IsDatabase(d) ==
    /\ d = [t \in Tables |-> d[t]]
    /\ \A t \in Tables :
        IsTable(d[t], CASE t \in {"handler", "proxy", "directory"} -> {"spec"}
                        [] t = "server" -> {"uuid", "name", "default_host", "pid"}
                        [] t = "host" -> {"server_id", "name", "matching"}
                        [] t = "route" -> {"host_id", "path", "target_id", "type"}
                        [] t = "mimetype" -> {"ext", "type"}
                        [] t = "setting" -> {"key", "value"})

Unread == [t \in Tables |-> Empty]

ASSUME ConfigAssumption ==
    /\ MaxLoads \in Nat \ {0}
    /\ \A d \in Databases : IsDatabase(d)
    /\ NULL \notin Bases
    /\ DOMAIN Default = Limits /\ DOMAIN LimitKey = Limits
    /\ UUID # NULL

(* The query that goes on, the row of it that is loaded, and the host and the route that *)
(* are loaded for it.                                                                    *)
Idle == [query |-> "none", stage |-> "start", row |-> 0, host |-> 0, route |-> 0]

Memory0 ==
    [loads |-> 0,                           \* loads so far
     LOADED |-> [k \in Kinds |-> Empty],    \* LOADED_HANDLERS, LOADED_PROXIES, LOADED_DIRS
     SERVER |-> NULL,                       \* the Server, of which one load makes several
     host |-> NULL,                         \* the Host that is being filled
     SETTINGS_MAP |-> Empty, MIME_MAP |-> Empty,
     MAX |-> [l \in Limits |-> 0],          \* HANDLER_STACK, MAX_HOST_NAME, ...; 0 is not set
     rc |-> 0,                              \* result of the last callback: 0, -1 or ABORT
     asserts |-> TRUE,                      \* the build has assertions (make release has none)
     live |-> {},                           \* ghost: objects made and not destroyed
     wild |-> {}]                           \* ghost: destroyed when they were not live

ABORT == -2

(* A key that is there already fails the assertion of tst_insert; without assertions it *)
(* gets the new value.                                                                  *)
Duplicate(w, map, key) == w.asserts /\ key \in DOMAIN map

tst_insert(map, key, value) == Put(map, key, value)

Make(w, object) == [w EXCEPT !.live = @ \cup {object}]
Destroy(w, objects) == [w EXCEPT !.live = @ \ objects, !.wild = @ \cup (objects \ w.live)]
Fail(w) == [w EXCEPT !.rc = -1]
Abort(w) == [w EXCEPT !.rc = ABORT]

-----------------------------------------------------------------------------
Setting_get_int(map, key, def) == IF key \in DOMAIN map THEN Number[map[key]] ELSE def

(* A limit is read when it is needed first, and never again. *)
ReadOnce(w, limit) ==
    IF w.MAX[limit] # 0 THEN w
    ELSE [w EXCEPT !.MAX[limit] = Setting_get_int(w.SETTINGS_MAP, LimitKey[limit], Default[limit])]

(* tst_search for as many characters of the key as the value has. *)
Shortened(key, row) ==
    /\ Width[row.value] <= Len(row.key) /\ key = SubSeq(row.key, 1, Width[row.value])

Setting_add(w, row) ==
    IF \E key \in DOMAIN w.SETTINGS_MAP : Shortened(key, row) THEN Fail(w)
    ELSE IF Duplicate(w, w.SETTINGS_MAP, row.key) THEN Abort(w)
    ELSE [w EXCEPT !.SETTINGS_MAP = tst_insert(@, row.key, row.value)]

Setting_destroy(w) == [w EXCEPT !.SETTINGS_MAP = Empty]

(* MIME_add_type: extensions are unique and not too long. *)
MIME_add_type(w0, row) ==
    LET w == ReadOnce(w0, "mime_ext_len") IN
    IF Width[row.ext] >= w.MAX.mime_ext_len \/ row.ext \in DOMAIN w.MIME_MAP
    THEN Fail(w)
    ELSE [w EXCEPT !.MIME_MAP = tst_insert(@, row.ext, row.type)]

MIME_destroy(w) == [w EXCEPT !.MIME_MAP = Empty]

-----------------------------------------------------------------------------
(* The callbacks of the queries.  The object of a target's row is inserted under its id. *)
Target(w, kind, id, spec) == <<kind, id, w.loads, spec>>

Loaded(w, kind, id, spec) ==
    LET target == Target(w, kind, id, spec) IN
    [Make(w, target) EXCEPT !.LOADED[kind] = tst_insert(@, id, target)]

Config_load_handler_cb(w, id, row) == Loaded(ReadOnce(w, "handler_stack"), "handler", id, row.spec)

Config_load_proxy_cb(w, id, row) == Loaded(w, "proxy", id, row.spec)

(* Dir_create refuses a base that is too long, begins with / or does not end with /. *)
Config_load_dir_cb(w0, id, row) ==
    LET w == ReadOnce(w0, "dir_max_path") IN
    IF row.spec \in Bases /\ Width[row.spec] < w.MAX.dir_max_path
    THEN Loaded(w, "dir", id, row.spec) ELSE Fail(w)

FindTarget(w, row) ==
    IF row.type \in Kinds /\ row.target_id \in DOMAIN w.LOADED[row.type]
    THEN w.LOADED[row.type][row.target_id] ELSE NULL

(* Config_load_route_cb, and Host_add_backend: a route needs a target of its type. *)
Config_load_route_cb(w, row) ==
    LET target == FindTarget(w, row) IN
    IF target = NULL THEN Fail(w)
    ELSE IF Duplicate(w, w.host.routes, row.path) THEN Abort(w)
    ELSE [w EXCEPT !.host.routes = tst_insert(@, row.path, [type |-> row.type, target |-> target])]

(* Host_create: a name that is too long leaves an object behind. *)
Host_create(w0, id, row) ==
    LET w == ReadOnce(w0, "host_name")
        key == <<"host", id, w.loads>>
        made == [Make(w, key) EXCEPT !.host = [key |-> key, name |-> row.name, routes |-> Empty]] IN
    IF Width[row.name] < w.MAX.host_name THEN made ELSE Fail(made)

(* Server_add_host, and default_host, the last host that has the name; biseq with a *)
(* name that is not there is true.                                                  *)
Server_add_host(w, row) ==
    IF Duplicate(w, w.SERVER.hosts, row.matching) THEN Abort(w)
    ELSE [w EXCEPT !.SERVER.hosts = tst_insert(@, row.matching, w.host),
                   !.SERVER.default_host =
                       IF w.SERVER.default_hostname \in {NULL, w.host.name} THEN w.host ELSE @]

(* Server_destroy: the hosts in its map go with it. *)
Server_destroy(w, srv) ==
    IF srv = NULL THEN w
    ELSE Destroy(w, {srv.key} \cup {srv.hosts[p].key : p \in DOMAIN srv.hosts})

(* Server_create: it gives up what it has made when the row has no pid_file. *)
Server_create(w, id, row) ==
    LET key == <<"server", id, w.loads>> IN
    IF row.pid = NULL THEN Fail([w EXCEPT !.SERVER = NULL])
    ELSE [Make(w, key) EXCEPT !.SERVER = [key |-> key, pid |-> row.pid,
                                          default_hostname |-> row.default_host,
                                          hosts |-> Empty, default_host |-> NULL]]

(* Config_load_server_cb: of several servers the last one is kept. *)
Config_load_server_cb(w, id, row) == Server_create(Server_destroy(w, w.SERVER), id, row)

Undone(w) == [Server_destroy(w, w.SERVER) EXCEPT !.SERVER = NULL]

-----------------------------------------------------------------------------
(* The rows of a query: the servers with the UUID, the hosts of a server, the routes of *)
(* a host of that server.                                                               *)
ServerRows(d) == {i \in DOMAIN d.server : d.server[i].uuid = UUID}
HostRows(d, i) == {j \in DOMAIN d.host : d.host[j].server_id = i}
RouteRows(d, j) == {k \in DOMAIN d.route : d.route[k].host_id = j}

Rows ==
    CASE load.query = "handlers" -> DOMAIN db.handler
      [] load.query = "proxies" -> DOMAIN db.proxy
      [] load.query = "dirs" -> DOMAIN db.directory
      [] load.query = "servers" -> ServerRows(db)
      [] load.query = "mimetypes" -> DOMAIN db.mimetype
      [] load.query = "settings" -> DOMAIN db.setting
      [] OTHER -> {}

(* i is the row after the one at from; there is none. *)
IsNext(i, rows, from) == i \in rows /\ i > from /\ \A j \in rows : j > from => i <= j
NoNext(rows, from) == \A j \in rows : j <= from

(* A query reads: nobody can commit. *)
Reading == load.stage # "start"

After == [handlers |-> "proxies", proxies |-> "dirs", dirs |-> "servers",
          servers |-> "mimetypes", mimetypes |-> "settings", settings |-> "none"]

(* What is done with a loaded server: clear_pid_file and attempt_chroot_drop at the start *)
(* of the process, and Server_start's check that there is a default host.                 *)
Serve(w) ==
    IF w.loads = 1 /\ pidfile[w.SERVER.pid] = "other"
    THEN up' = "1" /\ UNCHANGED pidfile
    ELSE /\ up' = IF w.SERVER.default_host = NULL THEN "1" ELSE "run"
         /\ pidfile' = IF w.loads = 1 THEN [pidfile EXCEPT ![w.SERVER.pid] = "mongrel2"] ELSE pidfile

(* The results of the first three queries are ignored.  When another query fails, or    *)
(* there is no server, load_server undoes what it has and the process ends.             *)
QueryEnds(w, worked) ==
    IF load.query \in {"handlers", "proxies", "dirs"} \/ (worked /\ w.SERVER # NULL)
    THEN /\ mem' = w /\ load' = [Idle EXCEPT !.query = After[load.query]]
         /\ IF load.query = "settings" THEN Serve(w) ELSE UNCHANGED <<up, pidfile>>
    ELSE /\ mem' = Undone(w) /\ load' = Idle /\ up' = "1"
         /\ UNCHANGED pidfile

(* DB_exec: sqlite3_exec takes the lock, unless another process is committing. *)
DB_exec ==
    /\ load.query # "none" /\ load.stage = "start"
    /\ IF writer = "exclusive"
       THEN QueryEnds(mem, FALSE) /\ UNCHANGED seen
       ELSE /\ load' = [load EXCEPT !.stage = "rows"]
            /\ seen' = [seen EXCEPT ![load.query] = db]
            /\ UNCHANGED <<up, pidfile, mem>>
    /\ UNCHANGED <<db, writer>>

(* It calls the callback for every row until one call fails: w is the memory after the *)
(* call, next where the load goes on.                                                  *)
Called(w, next) ==
    /\ CASE w.rc = 0 -> mem' = w /\ load' = next /\ UNCHANGED <<up, pidfile>>
         [] w.rc = -1 -> QueryEnds([w EXCEPT !.rc = 0], FALSE)
         [] w.rc = ABORT -> mem' = w /\ load' = Idle /\ up' = "abort" /\ UNCHANGED pidfile
    /\ UNCHANGED <<db, writer, seen>>

InQuery(query, i) ==
    /\ load.query = query /\ load.stage = "rows"
    /\ IsNext(i, Rows, load.row)

Config_load_handlers ==
    \E i \in DOMAIN db.handler :
        /\ InQuery("handlers", i)
        /\ Called(Config_load_handler_cb(mem, i, db.handler[i]), [load EXCEPT !.row = i])

Config_load_proxies ==
    \E i \in DOMAIN db.proxy :
        /\ InQuery("proxies", i)
        /\ Called(Config_load_proxy_cb(mem, i, db.proxy[i]), [load EXCEPT !.row = i])

Config_load_dirs ==
    \E i \in DOMAIN db.directory :
        /\ InQuery("dirs", i)
        /\ Called(Config_load_dir_cb(mem, i, db.directory[i]), [load EXCEPT !.row = i])

(* A server's row, until it asks for its hosts. *)
Config_load_server ==
    \E i \in DOMAIN db.server :
        /\ InQuery("servers", i)
        /\ Called(Config_load_server_cb(mem, i, db.server[i]),
                  [load EXCEPT !.stage = "hosts", !.row = i, !.host = 0])

(* mutant: a host or a route that fails leaves the server to load_server, which undoes it again *)
FailsServer_Leaves(w) == IF w.rc = -1 THEN Server_destroy(w, w.SERVER) ELSE w

(* When the host or a route of it fails, so does the server's row, which undoes it. *)
FailsServer(w) == IF w.rc = -1 THEN Undone(w) ELSE w

(* Config_load_host_cb until it asks for its routes; each of them; and what it does then. *)
HostRow ==
    \E j \in DOMAIN db.host :
        /\ load.stage = "hosts"
        /\ IsNext(j, HostRows(db, load.row), load.host)
        /\ Called(FailsServer(Host_create(mem, j, db.host[j])),
                  [load EXCEPT !.stage = "routes", !.host = j, !.route = 0])

RouteRow ==
    \E k \in DOMAIN db.route :
        /\ load.stage = "routes"
        /\ IsNext(k, RouteRows(db, load.host), load.route)
        /\ Called(FailsServer(Config_load_route_cb(mem, db.route[k])), [load EXCEPT !.route = k])

HostDone ==
    /\ load.stage = "routes"
    /\ NoNext(RouteRows(db, load.host), load.route)
    /\ Called(Server_add_host(mem, db.host[load.host]), [load EXCEPT !.stage = "hosts"])

ServerDone ==
    /\ load.stage = "hosts"
    /\ NoNext(HostRows(db, load.row), load.host)
    /\ load' = [load EXCEPT !.stage = "rows"]
    /\ UNCHANGED <<db, writer, seen, up, pidfile, mem>>

Config_load_mimetypes ==
    \E i \in DOMAIN db.mimetype :
        /\ InQuery("mimetypes", i)
        /\ Called(MIME_add_type(mem, db.mimetype[i]), [load EXCEPT !.row = i])

Config_load_settings ==
    \E i \in DOMAIN db.setting :
        /\ InQuery("settings", i)
        /\ Called(Setting_add(mem, db.setting[i]), [load EXCEPT !.row = i])

NoMoreRows ==
    /\ load.stage = "rows"
    /\ NoNext(Rows, load.row)
    /\ QueryEnds(mem, TRUE)
    /\ UNCHANGED <<db, writer, seen>>

LoadStep ==
    \/ DB_exec \/ NoMoreRows
    \/ Config_load_handlers \/ Config_load_proxies \/ Config_load_dirs
    \/ Config_load_server \/ HostRow \/ RouteRow \/ HostDone \/ ServerDone
    \/ Config_load_mimetypes \/ Config_load_settings

-----------------------------------------------------------------------------
Stopped(w, kind) ==
    [Destroy(w, {w.LOADED[kind][id] : id \in DOMAIN w.LOADED[kind]}) EXCEPT !.LOADED[kind] = Empty]

(* The last part of Config_stop_handlers; what comes before is in Lifecycle. *)
Config_stop_handlers(w) == Stopped(w, "handler")

Config_stop_proxies(w) == Stopped(w, "proxy")

Config_stop_dirs(w) == Stopped(w, "dir")

StopAll(w) == Config_stop_dirs(Config_stop_proxies(Config_stop_handlers(w)))

(* load_server. *)
LoadServer(w) ==
    /\ mem' = [w EXCEPT !.loads = @ + 1, !.SERVER = NULL, !.host = NULL]
    /\ load' = [Idle EXCEPT !.query = "handlers"]
    /\ seen' = [q \in Queries |-> Unread]
    /\ up' = "load"
    /\ UNCHANGED <<db, writer, pidfile>>

ConfigInit ==
    /\ db \in Databases /\ writer = "none"
    /\ load = Idle /\ seen = [q \in Queries |-> Unread]
    /\ up = "new" /\ pidfile \in PidFiles
    /\ \E asserts \in BOOLEAN : mem = [Memory0 EXCEPT !.asserts = asserts]

(* taskmain *)
Start == up = "new" /\ LoadServer(mem)

(* reload_server after the delay, when the process was told to reload: the old Server *)
(* stays, its connections use it.                                                     *)
Reload ==
    /\ up = "run" /\ mem.loads < MaxLoads
    /\ LoadServer(Setting_destroy(StopAll(MIME_destroy(mem))))

(* complete_shutdown, when it was told to stop. *)
Shutdown ==
    /\ up = "run"
    /\ mem' = [Setting_destroy(Server_destroy(MIME_destroy(StopAll(mem)), mem.SERVER)) EXCEPT !.SERVER = NULL]
    /\ pidfile' = [pidfile EXCEPT ![mem.SERVER.pid] = NULL]
    /\ up' = "0"
    /\ UNCHANGED <<db, writer, load, seen>>

ConfigNext == Start \/ LoadStep \/ Reload \/ Shutdown

-----------------------------------------------------------------------------
IsLast(i, rows) == i \in rows /\ \A j \in rows : j <= i

(* h is what the host's row j and the routes in rows make. *)
HostBuilt(d, h, j, rows) ==
    /\ h.name = d.host[j].name
    /\ DOMAIN h.routes = {d.route[k].path : k \in rows}
    /\ \A p \in DOMAIN h.routes : \E k \in rows :
        /\ IsLast(k, {x \in rows : d.route[x].path = p})
        /\ h.routes[p].type = d.route[k].type
        /\ h.routes[p].target[1] = d.route[k].type
        /\ h.routes[p].target[2] = d.route[k].target_id

(* srv is what the server's row i and the hosts in rows make. *)
ServerBuilt(d, srv, i, rows) ==
    /\ srv.default_hostname = d.server[i].default_host
    /\ DOMAIN srv.hosts = {d.host[j].matching : j \in rows}
    /\ \A m \in DOMAIN srv.hosts : \E j \in rows :
        /\ IsLast(j, {x \in rows : d.host[x].matching = m})
        /\ HostBuilt(d, srv.hosts[m], j, RouteRows(d, j))
    /\ LET named == {x \in rows : d.server[i].default_host \in {NULL, d.host[x].name}} IN
       \/ srv.default_host = NULL /\ named = {}
       \/ \E j \in named : IsLast(j, named) /\ HostBuilt(d, srv.default_host, j, RouteRows(d, j))

SettingsBuilt(d, map, rows) ==
    /\ DOMAIN map = {d.setting[i].key : i \in rows}
    /\ \A key \in DOMAIN map : \E i \in rows :
        /\ IsLast(i, {x \in rows : d.setting[x].key = key})
        /\ map[key] = d.setting[i].value

TypesBuilt(d, map, rows) ==
    /\ DOMAIN map = {d.mimetype[i].ext : i \in rows}
    /\ \A i \in rows : map[d.mimetype[i].ext] = d.mimetype[i].type

(* What is served is what the database said when the servers were asked for: the hosts  *)
(* of the last server's row, under each pattern the last host and in it under each path *)
(* the last route.                                                                      *)
ServesTheDatabase ==
    up = "run" =>
        \E i \in ServerRows(seen.servers) :
            /\ IsLast(i, ServerRows(seen.servers))
            /\ ServerBuilt(seen.servers, mem.SERVER, i, HostRows(seen.servers, i))
            /\ mem.SERVER.default_host # NULL

(* After every load the settings and the MIME types are those of the database, and none *)
(* of an earlier load is left.                                                          *)
SettingsFollowDatabase ==
    up = "run" =>
        /\ SettingsBuilt(seen.settings, mem.SETTINGS_MAP, DOMAIN seen.settings.setting)
        /\ TypesBuilt(seen.mimetypes, mem.MIME_MAP, DOMAIN seen.mimetypes.mimetype)

HostsOf(srv) == {srv.hosts[p] : p \in DOMAIN srv.hosts} \cup {srv.default_host}

(* A route's target is loaded, alive, and what the row with its id said when its kind   *)
(* was asked for: not always what it says in the database that has the route.           *)
RouteLeads(r) ==
    /\ r.type \in Kinds
    /\ \E id \in DOMAIN mem.LOADED[r.type] : mem.LOADED[r.type][id] = r.target
    /\ r.target \in mem.live
    /\ r.target[3] = mem.loads
    /\ LET table == seen[QueryOf[r.type]][TableOf[r.type]] IN
       r.target[2] \in DOMAIN table /\ r.target[4] = table[r.target[2]].spec

(* Through every reload, each route of the Server that serves leads to an object of its *)
(* type that the last load made and nobody has destroyed, and so do the default host's. *)
RoutesLeadToLoaded ==
    up = "run" =>
        \A h \in HostsOf(mem.SERVER) :
            h.key \in mem.live /\ \A p \in DOMAIN h.routes : RouteLeads(h.routes[p])

(* Config_stop_handlers, Config_stop_proxies and Config_stop_dirs destroy what was      *)
(* loaded: no handler, proxy or directory is lost, whatever part of a load has failed.  *)
TargetsAccounted ==
    {o \in mem.live : o[1] \in Kinds}
        = UNION {{mem.LOADED[k][id] : id \in DOMAIN mem.LOADED[k]} : k \in Kinds}

(* Nothing is destroyed twice, on none of the error paths of the callbacks. *)
DestroyedOnce == mem.wild = {}

(* The manual says that the server reads its settings on the fly: the limits in use are *)
(* the ones that the settings give.                                                     *)
SettingsTakeEffect ==
    up = "run" =>
        \A l \in Limits :
            mem.MAX[l] # 0 => mem.MAX[l] = Setting_get_int(mem.SETTINGS_MAP, LimitKey[l], Default[l])
=============================================================================
