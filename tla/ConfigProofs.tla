---------------------------- MODULE ConfigProofs ----------------------------
(***************************************************************************)
(* Proofs about the configuration (Config) and the tool that writes it     *)
(* (M2sh), for any databases, files, kinds of target and bounds that       *)
(* satisfy the modules' assumptions.                                       *)
(*                                                                         *)
(* Both rest on what a walk has built so far: a load has built exactly the *)
(* rows of its query up to the row whose callback runs, from the database  *)
(* as it was when that query began, and m2sh has inserted exactly the rows *)
(* of the part of the file's tree that it has passed.                      *)
(***************************************************************************)
EXTENDS M2sh, FiniteSetTheorems, TLAPS

-----------------------------------------------------------------------------
(* The shapes of what is in memory.                                        *)

Recorded(w) ==
    /\ w = [loads |-> w.loads, LOADED |-> w.LOADED, SERVER |-> w.SERVER, host |-> w.host,
            SETTINGS_MAP |-> w.SETTINGS_MAP, MIME_MAP |-> w.MIME_MAP, MAX |-> w.MAX, rc |-> w.rc,
            asserts |-> w.asserts, live |-> w.live, wild |-> w.wild]
    /\ w.LOADED = [k \in Kinds |-> w.LOADED[k]]
    /\ w.MAX = [l \in Limits |-> w.MAX[l]]

IsHost(h) ==
    /\ h = [key |-> h.key, name |-> h.name, routes |-> h.routes]
    /\ h.key[1] = "host"

IsServer(s) ==
    /\ s = [key |-> s.key, pid |-> s.pid, default_hostname |-> s.default_hostname,
            hosts |-> s.hosts, default_host |-> s.default_host]
    /\ s.key[1] = "server"

(* The targets that are alive are those that the maps have. *)
InMap(w, o) == \E k \in Kinds : \E id \in DOMAIN w.LOADED[k] : w.LOADED[k][id] = o

Targets(w) ==
    /\ w.wild = {}
    /\ \A k \in Kinds : \A id \in DOMAIN w.LOADED[k] :
        w.LOADED[k][id][1] = k /\ w.LOADED[k][id] \in w.live
    /\ \A o \in w.live : o[1] \in Kinds => InMap(w, o)

(* A host that is alive, whose routes lead to loaded objects. *)
Leads(w, r) ==
    r.type \in Kinds /\ \E id \in DOMAIN w.LOADED[r.type] : w.LOADED[r.type][id] = r.target

FineHost(w, h) ==
    /\ IsHost(h) /\ h.key \in w.live
    /\ \A p \in DOMAIN h.routes : Leads(w, h.routes[p])

FineServer(w, s) ==
    /\ IsServer(s) /\ s.key \in w.live
    /\ \A m \in DOMAIN s.hosts : FineHost(w, s.hosts[m])
    /\ s.default_host # NULL => FineHost(w, s.default_host)

(* What is loaded is what the rows said when their query began. *)
FromRows(w, sn) ==
    \A k \in Kinds : \A id \in DOMAIN w.LOADED[k] :
        /\ id \in DOMAIN sn[QueryOf[k]][TableOf[k]]
        /\ w.LOADED[k][id] = <<k, id, w.loads, sn[QueryOf[k]][TableOf[k]][id].spec>>

Fine(w, sn) ==
    /\ Recorded(w) /\ Targets(w) /\ FromRows(w, sn)
    /\ w.SERVER # NULL => FineServer(w, w.SERVER)

-----------------------------------------------------------------------------
(* Where a load is.                                                        *)

UpTo(rows, from) == {i \in rows : i <= from}
Before(rows, from) == {i \in rows : i < from}

IsLoad(ld) ==
    /\ ld = [query |-> ld.query, stage |-> ld.stage, row |-> ld.row, host |-> ld.host, route |-> ld.route]
    /\ ld.query \in Queries \cup {"none"}
    /\ ld.stage \in {"start", "rows", "hosts", "routes"}
    /\ ld.row \in Nat /\ ld.host \in Nat /\ ld.route \in Nat
    /\ ld.query = "none" => ld.stage = "start"
    /\ ld.stage \in {"hosts", "routes"} => ld.query = "servers"
    /\ ld.stage = "start" => ld.row = 0

Early == {"handlers", "proxies", "dirs"}

(* What is not loaded yet. *)
NotYet(ld, w) ==
    /\ ld.query = "handlers" =>
        /\ w.LOADED["proxy"] = Empty /\ w.LOADED["dir"] = Empty
        /\ \A id \in DOMAIN w.LOADED["handler"] : id <= ld.row
    /\ ld.query = "proxies" =>
        /\ w.LOADED["dir"] = Empty
        /\ \A id \in DOMAIN w.LOADED["proxy"] : id <= ld.row
    /\ ld.query = "dirs" => \A id \in DOMAIN w.LOADED["dir"] : id <= ld.row
    /\ ld.query \in Early => w.SERVER = NULL
    /\ ld.query \in Early \cup {"servers"} => w.MIME_MAP = Empty
    /\ ld.query \in Early \cup {"servers", "mimetypes"} => w.SETTINGS_MAP = Empty

ServersBuilt(d, w, i, rows) ==
    i \in ServerRows(d) /\ FineServer(w, w.SERVER) /\ ServerBuilt(d, w.SERVER, i, rows)

(* The server, as far as its rows are loaded; when they are. *)
Served(d, w) == \E i \in ServerRows(d) : IsLast(i, ServerRows(d)) /\ ServersBuilt(d, w, i, HostRows(d, i))

Serving(d, ld, w) ==
    /\ (ld.query = "servers" /\ ld.stage = "start") => w.SERVER = NULL
    /\ (ld.query = "servers" /\ ld.stage = "rows") =>
        \/ ld.row = 0 /\ w.SERVER = NULL
        \/ ServersBuilt(d, w, ld.row, HostRows(d, ld.row))
    /\ ld.stage = "hosts" =>
        ServersBuilt(d, w, ld.row, UpTo(HostRows(d, ld.row), ld.host))
    /\ ld.stage = "routes" =>
        /\ ld.host \in HostRows(d, ld.row)
        /\ ServersBuilt(d, w, ld.row, Before(HostRows(d, ld.row), ld.host))
        /\ HostBuilt(d, w.host, ld.host, UpTo(RouteRows(d, ld.host), ld.route))
        /\ FineHost(w, w.host)
    /\ ld.query \in {"mimetypes", "settings"} => Served(d, w)

TypesLoaded(sn, ld, w) ==
    /\ (ld.query = "mimetypes" /\ ld.stage = "start") => w.MIME_MAP = Empty
    /\ (ld.query = "mimetypes" /\ ld.stage = "rows") =>
        TypesBuilt(sn["mimetypes"], w.MIME_MAP, UpTo(DOMAIN sn["mimetypes"].mimetype, ld.row))
    /\ ld.query = "settings" =>
        TypesBuilt(sn["mimetypes"], w.MIME_MAP, DOMAIN sn["mimetypes"].mimetype)
    /\ (ld.query = "settings" /\ ld.stage = "start") => w.SETTINGS_MAP = Empty
    /\ (ld.query = "settings" /\ ld.stage = "rows") =>
        SettingsBuilt(sn["settings"], w.SETTINGS_MAP, UpTo(DOMAIN sn["settings"].setting, ld.row))

(* The database has ids that are positive. *)
Positive(d) == \A t \in Tables : DOMAIN d[t] \subseteq Nat \ {0}

(* The databases that the queries of a load have seen. *)
Snapshots(sn) == sn = [q \in Queries |-> sn[q]] /\ \A q \in Queries : Positive(sn[q])

(* All of it, when a load goes on, and when none does. *)
Loading(d, ld, sn, w) ==
    /\ ld.query # "none" /\ w.rc = 0
    /\ ld.stage # "start" => sn[ld.query] = d
    /\ NotYet(ld, w) /\ Serving(sn["servers"], ld, w) /\ TypesLoaded(sn, ld, w)

Running(sn, w) ==
    /\ w.rc = 0 /\ w.SERVER.default_host # NULL
    /\ Served(sn["servers"], w)
    /\ TypesBuilt(sn["mimetypes"], w.MIME_MAP, DOMAIN sn["mimetypes"].mimetype)
    /\ SettingsBuilt(sn["settings"], w.SETTINGS_MAP, DOMAIN sn["settings"].setting)

New(w) ==
    /\ \A k \in Kinds : w.LOADED[k] = Empty
    /\ w.MIME_MAP = Empty /\ w.SETTINGS_MAP = Empty /\ w.rc = 0

State(d, ld, sn, u, w) ==
    /\ Fine(w, sn) /\ IsLoad(ld) /\ Positive(d)
    /\ Snapshots(sn)
    /\ u \in {"new", "load", "run", "0", "1", "abort"}
    /\ u # "load" => ld = Idle
    /\ u = "new" => New(w)
    /\ u = "load" => Loading(d, ld, sn, w)
    /\ u = "run" => Running(sn, w)

ConfigInv ==
    /\ State(db, load, seen, up, mem)
    /\ writer = "exclusive" => load.stage = "start"

-----------------------------------------------------------------------------
(* m2sh.                                                                   *)

Walks == {"servers", "hosts", "routes"}
Loads == Walks \cup {"settings", "import", "mimetypes", "commit", "committing"}

First(pairs, n) == [y \in 1..n |-> pairs[y]]

(* The row j of a host of s, and the row of the host m of the server n, with all their pairs. *)
HostFilled(d, s, j) ==
    LET n == d["host"][j].server_id IN
    \E m \in DOMAIN HostsAt(s, n).v : HostOf(d, s, n, m, j, Pairs(RoutesAt(s, n, m)))

Present(d, s, n, m, j) == j \in HostRows(d, n) /\ HostOf(d, s, n, m, j, Pairs(RoutesAt(s, n, m)))

ToolRows(t) ==
    /\ t.tables = [x \in Tables |-> t.tables[x]] /\ t.last = [x \in Tables |-> t.last[x]]
    /\ \A x \in Tables : t.last[x] \in Nat
    /\ \A x \in Tables \ {"mimetype"} : DOMAIN t.tables[x] = 1..t.last[x]
    /\ DOMAIN t.tables["mimetype"] \subseteq 1..t.last["mimetype"]

ToolServers(t) ==
    /\ t.server <= Len(ServersOf(t.settings))
    /\ \A n \in 1..t.server :
        /\ ServerFits(t.settings, ServerAt(t.settings, n))
        /\ t.tables["server"][n] = ServerRow(t.settings, ServerAt(t.settings, n).params)

(* The host that is filled, when one is; the hosts that are loaded by now. *)
Filling(t, j) == t.at = "routes" /\ j = t.last["host"]

Due(t, n, m) ==
    /\ \A x \in 1..m : HostWalks(t.settings, n, x)
    /\ ~(n = t.server /\ t.at = "hosts" /\ m > t.host)
    /\ ~(n = t.server /\ t.at = "routes" /\ m >= t.host)

ToolHosts(t) ==
    /\ \A j \in DOMAIN t.tables["host"] :
        /\ t.tables["host"][j].server_id \in 1..t.server
        /\ ~Filling(t, j) => HostFilled(t.tables, t.settings, j)
    /\ \A n \in 1..t.server : \A m \in DOMAIN HostsAt(t.settings, n).v :
        Due(t, n, m) => \E j \in DOMAIN t.tables["host"] :
            ~Filling(t, j) /\ Present(t.tables, t.settings, n, m, j)

(* The routes have hosts, and each has a target of its own. *)
RoutesApart(d) ==
    \A k, l \in DOMAIN d["route"] :
        LET r == d["route"][k]
            s == d["route"][l] IN
        /\ r.host_id \in DOMAIN d["host"]
        /\ r.type \in Kinds /\ r.target_id \in DOMAIN d[TableOf[r.type]]
        /\ k # l => (r.type # s.type \/ r.target_id # s.target_id)

ToolAt(t) ==
    /\ t.at \in {"hosts", "routes"} =>
        /\ t.server >= 1 /\ t.SERVER_ID = t.server
        /\ t.host \in 0..Len(HostsAt(t.settings, t.server).v)
        /\ \A x \in 1..t.host : HostWalks(t.settings, t.server, x)
    /\ t.at = "routes" =>
        /\ t.host >= 1 /\ t.last["host"] >= 1 /\ t.HOST_ID = t.last["host"]
        /\ t.pair \in 0..Len(RoutesAt(t.settings, t.server, t.host).v)
        /\ t.tables["host"][t.HOST_ID].server_id = t.server
        /\ HostOf(t.tables, t.settings, t.server, t.host, t.HOST_ID,
                  First(RoutesAt(t.settings, t.server, t.host).v, t.pair))

SettingsUpTo(t, n) ==
    /\ t.last["setting"] = n
    /\ \A y \in 1..n :
        t.tables["setting"][y] = [key |-> Pairs(Settings(t.settings))[y].key,
                                  value |-> Value_resolve(t.settings, Pairs(Settings(t.settings))[y].value).v]

ToolSettings(t) ==
    /\ t.at \in Walks => t.last["setting"] = 0 /\ ~t.error
    /\ t.at \in Loads \ Walks => t.server = Len(ServersOf(t.settings))
    /\ t.at = "settings" =>
        /\ t.pair \in 0..Len(Pairs(Settings(t.settings)))
        /\ ~t.error => SettingsUpTo(t, t.pair)
    /\ t.at \in Loads \ (Walks \cup {"settings"}) => SettingsUpTo(t, Len(Pairs(Settings(t.settings))))

LoadedFile(s) == \E f \in DOMAIN Files : s = Files[f] /\ s # NULL

(* Until servers are walked there are none; the list of them is there from the first on. *)
ToolLoads(t) ==
    /\ ToolRows(t)
    /\ t.server = t.last["server"]
    /\ HasServers(t.settings) \/ (t.at = "servers" /\ t.server = 0)
    /\ HasServers(t.settings) => ToolServers(t)
    /\ ToolHosts(t) /\ RoutesApart(t.tables) /\ ToolAt(t) /\ ToolSettings(t)

Signals == {"stop", "reload"}

ToolOperates(t) ==
    /\ t.row \in Selected(t.cmd) \cup {0}
    /\ t.sent \subseteq Selected(t.cmd)
    /\ t.cmd.name \in Signals => t.sent = UpTo(Selected(t.cmd), t.row)

ToolFields(t) == t = [f \in DOMAIN Tool0 |-> t[f]]

ToolInv(t) ==
    /\ ToolFields(t)
    /\ t.at \in Loads \cup {"begin"} => LoadedFile(t.settings)
    /\ t.at = "begin" => t.server = 0 /\ ~t.error
    /\ t.at \in Loads => ToolLoads(t)
    /\ t.at = "operation" => ToolOperates(t)

M2shInv ==
    /\ ToolInv(tool)
    /\ tool.at = "committing" => writer = "exclusive"
    /\ CommittedIsTheFile /\ OperationsReported

Inv == ConfigInv /\ M2shInv

-----------------------------------------------------------------------------
(* What the operations on the memory change.                               *)

Fields == {"loads", "LOADED", "SERVER", "host", "SETTINGS_MAP", "MIME_MAP", "MAX", "rc", "asserts",
           "live", "wild"}

(* v differs from w in the fields F at most. *)
Keeps(v, w, F) == Recorded(v) /\ \A f \in Fields \ F : v[f] = w[f]

(* ReadOnce sets limits only. *)
LEMMA ReadOnceKeeps ==
    ASSUME NEW w, Recorded(w), NEW l \in Limits
    PROVE  Keeps(ReadOnce(w, l), w, {"MAX"})
BY DEF ReadOnce, Keeps, Recorded, Fields, Limits

(* Make adds an object to what is alive. *)
LEMMA MakeKeeps ==
    ASSUME NEW w, Recorded(w), NEW o
    PROVE  /\ Keeps(Make(w, o), w, {"live"})
           /\ Make(w, o).live = w.live \cup {o}
BY DEF Make, Keeps, Recorded, Fields

(* Destroy takes objects from what is alive. *)
LEMMA DestroyKeeps ==
    ASSUME NEW w, Recorded(w), NEW os
    PROVE  /\ Keeps(Destroy(w, os), w, {"live", "wild"})
           /\ Destroy(w, os).live = w.live \ os
           /\ Destroy(w, os).wild = w.wild \cup (os \ w.live)
<1> DEFINE v == [w EXCEPT !.live = @ \ os]
<1>1. Destroy(w, os) = [v EXCEPT !.wild = @ \cup (os \ w.live)]
  BY DEF Destroy, Recorded
<1>2. Keeps(v, w, {"live"}) /\ v.live = w.live \ os
  BY DEF Keeps, Recorded, Fields
<1>3. Recorded(v) /\ v.wild = w.wild
  BY <1>2 DEF Keeps, Fields
<1> HIDE DEF v
<1>4. Keeps(Destroy(w, os), v, {"wild"}) /\ Destroy(w, os).wild = w.wild \cup (os \ w.live)
  BY <1>1, <1>3 DEF Keeps, Recorded, Fields
<1> QED
  BY <1>2, <1>4 DEF Keeps, Fields

(* Fail and Abort change the result only. *)
LEMMA FailKeeps ==
    ASSUME NEW w, Recorded(w)
    PROVE  /\ Keeps(Fail(w), w, {"rc"}) /\ Fail(w).rc = -1
           /\ Keeps(Abort(w), w, {"rc"}) /\ Abort(w).rc = ABORT
BY DEF Fail, Abort, Keeps, Recorded, Fields

(* Loaded makes the object and inserts it under its id. *)
LEMMA LoadedKeeps ==
    ASSUME NEW w, Recorded(w), NEW kind \in Kinds, NEW id, NEW spec
    PROVE  /\ Keeps(Loaded(w, kind, id, spec), w, {"live", "LOADED"})
           /\ Loaded(w, kind, id, spec).live = w.live \cup {Target(w, kind, id, spec)}
           /\ Loaded(w, kind, id, spec).LOADED
                  = [w.LOADED EXCEPT ![kind] = Put(@, id, Target(w, kind, id, spec))]
<1> DEFINE target == Target(w, kind, id, spec)
           v == Make(w, target)
           x == Loaded(w, kind, id, spec)
<1>1. /\ Keeps(v, w, {"live"}) /\ v.live = w.live \cup {target}
  BY MakeKeeps
<1>2. Recorded(v) /\ v.LOADED = w.LOADED
  BY <1>1 DEF Keeps, Fields
<1>3. x = [v EXCEPT !.LOADED[kind] = Put(@, id, target)]
  BY DEF Loaded, tst_insert
<1> HIDE DEF v, x, target
<1>4. x.LOADED = [w.LOADED EXCEPT ![kind] = Put(@, id, target)]
  BY <1>2, <1>3 DEF Recorded
<1>5. Keeps(x, v, {"LOADED"})
  BY <1>2, <1>3 DEF Recorded, Keeps, Fields
<1> QED
  BY <1>1, <1>4, <1>5 DEF Keeps, Fields, target, x

(* MIME_add_type changes the map, a limit that it reads, and the result. *)
LEMMA TypeKeeps ==
    ASSUME NEW w, Recorded(w), NEW row, w.rc = 0
    PROVE  LET v == MIME_add_type(w, row) IN
           /\ Keeps(v, w, {"MAX", "rc", "MIME_MAP"})
           /\ \/ v.rc = -1
              \/ /\ v.rc = 0 /\ row.ext \notin DOMAIN w.MIME_MAP
                 /\ v.MIME_MAP = Put(w.MIME_MAP, row.ext, row.type)
<1> DEFINE u == ReadOnce(w, "mime_ext_len")
           v == MIME_add_type(w, row)
<1>1. Keeps(u, w, {"MAX"})
  BY ReadOnceKeeps DEF Limits
<1>2. Recorded(u) /\ u.rc = 0 /\ u.MIME_MAP = w.MIME_MAP
  BY <1>1 DEF Keeps, Fields
<1>3. v = IF Width[row.ext] >= u.MAX.mime_ext_len \/ row.ext \in DOMAIN u.MIME_MAP
          THEN Fail(u)
          ELSE [u EXCEPT !.MIME_MAP = Put(@, row.ext, row.type)]
  BY DEF MIME_add_type, tst_insert
<1> HIDE DEF u, v
<1>4. CASE v = Fail(u)
  BY <1>1, <1>2, <1>4, FailKeeps DEF Keeps, Fields, v
<1>5. CASE v # Fail(u)
  <2>1. /\ v = [u EXCEPT !.MIME_MAP = Put(@, row.ext, row.type)]
        /\ row.ext \notin DOMAIN w.MIME_MAP
    BY <1>2, <1>3, <1>5
  <2>2. /\ Keeps(v, u, {"MIME_MAP"})
        /\ v.MIME_MAP = Put(w.MIME_MAP, row.ext, row.type)
    BY <2>1, <1>2 DEF Keeps, Recorded, Fields
  <2> QED
    BY <1>1, <1>2, <2>1, <2>2 DEF Keeps, Fields, v
<1> QED
  BY <1>4, <1>5

(* Setting_add the map of the settings and the result. *)
LEMMA SettingKeeps ==
    ASSUME NEW w, Recorded(w), NEW row, w.rc = 0
    PROVE  LET v == Setting_add(w, row) IN
           /\ Keeps(v, w, {"rc", "SETTINGS_MAP"})
           /\ \/ v.rc \in {-1, ABORT}
              \/ v.rc = 0 /\ v.SETTINGS_MAP = Put(w.SETTINGS_MAP, row.key, row.value)
<1> DEFINE v == Setting_add(w, row)
<1>1. \/ v = Fail(w) \/ v = Abort(w)
      \/ v = [w EXCEPT !.SETTINGS_MAP = Put(@, row.key, row.value)]
  BY DEF Setting_add, tst_insert
<1> HIDE DEF v
<1>2. CASE v = Fail(w) \/ v = Abort(w)
  BY <1>2, FailKeeps DEF Keeps, Fields, v
<1>3. CASE v = [w EXCEPT !.SETTINGS_MAP = Put(@, row.key, row.value)]
  <2>1. /\ Keeps(v, w, {"SETTINGS_MAP"})
        /\ v.SETTINGS_MAP = Put(w.SETTINGS_MAP, row.key, row.value)
    BY <1>3 DEF Keeps, Recorded, Fields
  <2> QED
    BY <2>1 DEF Keeps, Fields, v
<1> QED
  BY <1>1, <1>2, <1>3

(* A target keeps the memory, or its row has failed. *)
LEMMA HandlerKeeps ==
    ASSUME NEW w, Recorded(w), NEW id, NEW row, w.rc = 0
    PROVE  LET v == Config_load_handler_cb(w, id, row)
               o == Target(w, "handler", id, row.spec) IN
           /\ Keeps(v, w, {"MAX", "live", "LOADED"}) /\ v.rc = 0
           /\ v.live = w.live \cup {o}
           /\ v.LOADED = [w.LOADED EXCEPT !["handler"] = Put(@, id, o)]
<1> DEFINE u == ReadOnce(w, "handler_stack")
<1>1. Keeps(u, w, {"MAX"})
  BY ReadOnceKeeps DEF Limits
<1>2. Recorded(u) /\ u.rc = 0 /\ u.LOADED = w.LOADED /\ u.live = w.live /\ u.loads = w.loads
  BY <1>1 DEF Keeps, Fields
<1> HIDE DEF u
<1>3. /\ Keeps(Loaded(u, "handler", id, row.spec), u, {"live", "LOADED"})
      /\ Loaded(u, "handler", id, row.spec).live = u.live \cup {Target(u, "handler", id, row.spec)}
      /\ Loaded(u, "handler", id, row.spec).LOADED
             = [u.LOADED EXCEPT !["handler"] = Put(@, id, Target(u, "handler", id, row.spec))]
  BY <1>2, LoadedKeeps DEF Kinds
<1>4. Target(u, "handler", id, row.spec) = Target(w, "handler", id, row.spec)
  BY <1>2 DEF Target
<1>5. Config_load_handler_cb(w, id, row) = Loaded(u, "handler", id, row.spec)
  BY DEF Config_load_handler_cb, u
<1> QED
  BY <1>1, <1>2, <1>3, <1>4, <1>5 DEF Keeps, Fields

(* The same of a directory, whose base may be refused. *)
LEMMA DirKeeps ==
    ASSUME NEW w, Recorded(w), NEW id, NEW row, w.rc = 0
    PROVE  LET v == Config_load_dir_cb(w, id, row)
               o == Target(w, "dir", id, row.spec) IN
           \/ Keeps(v, w, {"MAX", "rc"}) /\ v.rc = -1
           \/ /\ Keeps(v, w, {"MAX", "live", "LOADED"}) /\ v.rc = 0
              /\ v.live = w.live \cup {o}
              /\ v.LOADED = [w.LOADED EXCEPT !["dir"] = Put(@, id, o)]
<1> DEFINE u == ReadOnce(w, "dir_max_path")
           v == Config_load_dir_cb(w, id, row)
<1>1. Keeps(u, w, {"MAX"})
  BY ReadOnceKeeps DEF Limits
<1>2. Recorded(u) /\ u.rc = 0 /\ u.LOADED = w.LOADED /\ u.live = w.live /\ u.loads = w.loads
  BY <1>1 DEF Keeps, Fields
<1>3. v = Fail(u) \/ v = Loaded(u, "dir", id, row.spec)
  BY DEF Config_load_dir_cb
<1> HIDE DEF u, v
<1>4. Target(u, "dir", id, row.spec) = Target(w, "dir", id, row.spec)
  BY <1>2 DEF Target
<1>5. CASE v = Fail(u)
  BY <1>1, <1>2, <1>5, FailKeeps DEF Keeps, Fields, v
<1>6. CASE v = Loaded(u, "dir", id, row.spec)
  <2>1. /\ Keeps(v, u, {"live", "LOADED"})
        /\ v.live = u.live \cup {Target(u, "dir", id, row.spec)}
        /\ v.LOADED = [u.LOADED EXCEPT !["dir"] = Put(@, id, Target(u, "dir", id, row.spec))]
    BY <1>2, <1>6, LoadedKeeps DEF Kinds
  <2> QED
    BY <1>1, <1>2, <1>4, <2>1 DEF Keeps, Fields, v
<1> QED
  BY <1>3, <1>5, <1>6

(* The parts of the memory that a route can lead to, and that own a server. *)
Core == {"loads", "LOADED", "SERVER", "live", "wild"}

SameCore(v, w) == Recorded(v) /\ \A f \in Core : v[f] = w[f]

(* What is fine stays fine when nothing of that changes. *)
LEMMA SameCoreFine ==
    ASSUME NEW v, NEW w, SameCore(v, w)
    PROVE  /\ \A sn : Fine(w, sn) => Fine(v, sn)
           /\ \A s : FineServer(w, s) => FineServer(v, s)
           /\ \A h : FineHost(w, h) => FineHost(v, h)
<1>1. /\ v.loads = w.loads /\ v.LOADED = w.LOADED /\ v.SERVER = w.SERVER
      /\ v.live = w.live /\ v.wild = w.wild /\ Recorded(v)
  BY DEF SameCore, Core
<1>2. \A h : FineHost(w, h) => FineHost(v, h)
  BY <1>1 DEF FineHost, Leads
<1>3. \A s : FineServer(w, s) => FineServer(v, s)
  BY <1>1, <1>2 DEF FineServer
<1>4. Targets(w) => Targets(v)
  BY <1>1 DEF Targets, InMap
<1>5. \A sn : FromRows(w, sn) => FromRows(v, sn)
  BY <1>1 DEF FromRows
<1> QED
  BY <1>1, <1>2, <1>3, <1>4, <1>5 DEF Fine

(* It stays fine when an object that is no target is made. *)
LEMMA MadeFine ==
    ASSUME NEW v, NEW w, Recorded(v), \A f \in Core \ {"live"} : v[f] = w[f],
           NEW o, v.live = w.live \cup {o}, o[1] \notin Kinds
    PROVE  /\ \A sn : Fine(w, sn) => Fine(v, sn)
           /\ \A s : FineServer(w, s) => FineServer(v, s)
           /\ \A h : FineHost(w, h) => FineHost(v, h)
<1>1. /\ v.loads = w.loads /\ v.LOADED = w.LOADED /\ v.SERVER = w.SERVER /\ v.wild = w.wild
  BY DEF Core
<1>2. \A h : FineHost(w, h) => FineHost(v, h)
  BY <1>1 DEF FineHost, Leads
<1>3. \A s : FineServer(w, s) => FineServer(v, s)
  BY <1>1, <1>2 DEF FineServer
<1>4. \A x : InMap(w, x) => InMap(v, x)
  BY <1>1 DEF InMap
<1>5. Targets(w) => Targets(v)
  BY <1>1, <1>4 DEF Targets
<1>6. \A sn : FromRows(w, sn) => FromRows(v, sn)
  BY <1>1 DEF FromRows
<1> QED
  BY <1>1, <1>2, <1>3, <1>5, <1>6 DEF Fine

(* A target that is loaded from a new row of its query. *)
LEMMA LoadedFine ==
    ASSUME NEW w, NEW v, NEW sn, Fine(w, sn), w.SERVER = NULL, NEW k \in Kinds, NEW id,
           id \notin DOMAIN w.LOADED[k], id \in DOMAIN sn[QueryOf[k]][TableOf[k]],
           NEW o, o = <<k, id, w.loads, sn[QueryOf[k]][TableOf[k]][id].spec>>,
           Recorded(v), v.loads = w.loads, v.SERVER = w.SERVER, v.wild = w.wild,
           v.live = w.live \cup {o}, v.LOADED = [w.LOADED EXCEPT ![k] = Put(@, id, o)]
    PROVE  Fine(v, sn)
<1> DEFINE table == sn[QueryOf[k]][TableOf[k]]
<1>1. /\ Recorded(w) /\ Targets(w) /\ FromRows(w, sn)
  BY DEF Fine
<1>2. v.LOADED[k] = Put(w.LOADED[k], id, o)
  BY <1>1 DEF Recorded
<1>3. \A j \in Kinds \ {k} : v.LOADED[j] = w.LOADED[j]
  BY <1>1 DEF Recorded
<1>4. /\ DOMAIN v.LOADED[k] = DOMAIN w.LOADED[k] \cup {id}
      /\ v.LOADED[k][id] = o
      /\ \A x \in DOMAIN w.LOADED[k] : v.LOADED[k][x] = w.LOADED[k][x]
  BY <1>2 DEF Put
<1>5. FromRows(v, sn)
  <2> SUFFICES ASSUME NEW j \in Kinds, NEW x \in DOMAIN v.LOADED[j]
               PROVE  /\ x \in DOMAIN sn[QueryOf[j]][TableOf[j]]
                      /\ v.LOADED[j][x] = <<j, x, v.loads, sn[QueryOf[j]][TableOf[j]][x].spec>>
    BY DEF FromRows
  <2>1. CASE j # k
    BY <1>1, <1>3, <2>1 DEF FromRows
  <2>2. CASE j = k /\ x = id
    BY <1>4, <2>2
  <2>3. CASE j = k /\ x # id
    <3>1. x \in DOMAIN w.LOADED[k] /\ v.LOADED[k][x] = w.LOADED[k][x]
      BY <1>4, <2>3
    <3>2. x \in DOMAIN table /\ w.LOADED[k][x] = <<k, x, w.loads, table[x].spec>>
      BY <1>1, <3>1 DEF FromRows
    <3> QED
      BY <2>3, <3>1, <3>2
  <2> QED
    BY <2>1, <2>2, <2>3
<1>6. o[1] = k /\ o \in v.live
  OBVIOUS
<1>7. ASSUME NEW j \in Kinds, NEW x \in DOMAIN v.LOADED[j]
      PROVE  v.LOADED[j][x][1] = j /\ v.LOADED[j][x] \in v.live
  <2>1. CASE j = k /\ x = id
    BY <1>4, <1>6, <2>1
  <2>2. CASE j # k
    BY <1>1, <1>3, <2>2 DEF Targets
  <2>3. CASE j = k /\ x # id
    <3>1. x \in DOMAIN w.LOADED[k] /\ v.LOADED[k][x] = w.LOADED[k][x]
      BY <1>4, <2>3
    <3>2. w.LOADED[k][x][1] = k /\ w.LOADED[k][x] \in w.live
      BY <1>1, <3>1 DEF Targets
    <3> QED
      BY <2>3, <3>1, <3>2
  <2> QED
    BY <2>1, <2>2, <2>3
<1>8. ASSUME NEW y, InMap(w, y)
      PROVE  InMap(v, y)
  <2> PICK j \in Kinds : \E x \in DOMAIN w.LOADED[j] : w.LOADED[j][x] = y
    BY <1>8 DEF InMap
  <2>1. PICK x \in DOMAIN w.LOADED[j] : w.LOADED[j][x] = y
    OBVIOUS
  <2>2. x \in DOMAIN v.LOADED[j] /\ v.LOADED[j][x] = y
    BY <1>3, <1>4, <2>1
  <2> QED
    BY <2>2 DEF InMap
<1>9. InMap(v, o)
  BY <1>4 DEF InMap
<1>10. ASSUME NEW y \in v.live, y[1] \in Kinds
       PROVE  InMap(v, y)
  <2>1. CASE y = o
    BY <1>9, <2>1
  <2>2. CASE y \in w.live
    BY <1>1, <1>8, <1>10, <2>2 DEF Targets
  <2> QED
    BY <2>1, <2>2
<1>11. Targets(v)
  BY <1>1, <1>7, <1>10 DEF Targets
<1> QED
  BY <1>1, <1>5, <1>11 DEF Fine

-----------------------------------------------------------------------------
(* The callbacks of servers, hosts and routes.                             *)

(* Objects that are alive and no targets are destroyed. *)
LEMMA DestroyFine ==
    ASSUME NEW w, NEW sn, Recorded(w), Targets(w), FromRows(w, sn),
           NEW os, os \subseteq w.live, \A o \in os : o[1] \notin Kinds
    PROVE  LET v == Destroy(w, os) IN
           Keeps(v, w, {"live", "wild"}) /\ Targets(v) /\ FromRows(v, sn)
<1> DEFINE v == Destroy(w, os)
<1>1. Keeps(v, w, {"live", "wild"}) /\ v.live = w.live \ os /\ v.wild = w.wild \cup (os \ w.live)
  BY DestroyKeeps
<1> HIDE DEF v
<1>2. v.LOADED = w.LOADED /\ v.loads = w.loads /\ v.wild = {}
  BY <1>1 DEF Keeps, Fields, Targets
<1>3. \A o : InMap(w, o) => InMap(v, o)
  BY <1>2 DEF InMap
<1>4. Targets(v)
  BY <1>1, <1>2, <1>3 DEF Targets
<1>5. FromRows(v, sn)
  BY <1>2 DEF FromRows
<1> QED
  BY <1>1, <1>4, <1>5 DEF v

(* Server_destroy, and what it leaves. *)
LEMMA ServerDestroyed ==
    ASSUME NEW w, NEW sn, Fine(w, sn)
    PROVE  LET v == Server_destroy(w, w.SERVER) IN
           Keeps(v, w, {"live", "wild"}) /\ Targets(v) /\ FromRows(v, sn)
<1>1. Recorded(w) /\ Targets(w) /\ FromRows(w, sn)
  BY DEF Fine
<1>2. CASE w.SERVER = NULL
  BY <1>1, <1>2 DEF Server_destroy, Keeps
<1>3. CASE w.SERVER # NULL
  <2> DEFINE os == {w.SERVER.key} \cup {w.SERVER.hosts[p].key : p \in DOMAIN w.SERVER.hosts}
  <2>1. FineServer(w, w.SERVER)
    BY <1>3 DEF Fine
  <2>2. w.SERVER.key \in w.live /\ w.SERVER.key[1] = "server"
    BY <2>1 DEF FineServer, IsServer
  <2>3. \A p \in DOMAIN w.SERVER.hosts : w.SERVER.hosts[p].key \in w.live /\ w.SERVER.hosts[p].key[1] = "host"
    BY <2>1 DEF FineServer, FineHost, IsHost
  <2>4. os \subseteq w.live /\ \A o \in os : o[1] \notin Kinds
    BY <2>2, <2>3 DEF Kinds
  <2>5. Server_destroy(w, w.SERVER) = Destroy(w, os)
    BY <1>3 DEF Server_destroy
  <2> HIDE DEF os
  <2> QED
    BY <1>1, <2>4, <2>5, DestroyFine
<1> QED
  BY <1>2, <1>3

(* A server that fails is undone. *)
LEMMA UndoneFine ==
    ASSUME NEW w, NEW sn, Fine(w, sn)
    PROVE  LET v == Undone(w) IN
           Fine(v, sn) /\ v.SERVER = NULL /\ Keeps(v, w, {"live", "wild", "SERVER"})
<1> DEFINE u == Server_destroy(w, w.SERVER)
           v == Undone(w)
<1>1. Keeps(u, w, {"live", "wild"}) /\ Targets(u) /\ FromRows(u, sn)
  BY ServerDestroyed
<1>2. v = [u EXCEPT !.SERVER = NULL]
  BY DEF Undone
<1> HIDE DEF u, v
<1>3. Keeps(v, u, {"SERVER"}) /\ v.SERVER = NULL
  BY <1>1, <1>2 DEF Keeps, Recorded, Fields
<1>4. v.LOADED = u.LOADED /\ v.live = u.live /\ v.wild = u.wild /\ v.loads = u.loads
  BY <1>3 DEF Keeps, Fields
<1>5. Targets(v) /\ FromRows(v, sn)
  BY <1>1, <1>4 DEF Targets, InMap, FromRows
<1>6. Fine(v, sn)
  BY <1>3, <1>5 DEF Fine, Keeps
<1> QED
  BY <1>1, <1>3, <1>6 DEF Keeps, v

(* Config_load_server_cb makes an empty server, or there is none. *)
LEMMA ServerLoaded ==
    ASSUME NEW w, NEW sn, Fine(w, sn), w.rc = 0, NEW id, NEW row
    PROVE  LET v == Config_load_server_cb(w, id, row) IN
           /\ Fine(v, sn)
           /\ \/ v.rc = -1 /\ v.SERVER = NULL /\ Keeps(v, w, {"live", "wild", "SERVER", "rc"})
              \/ /\ v.rc = 0 /\ Keeps(v, w, {"live", "wild", "SERVER"})
                 /\ FineServer(v, v.SERVER)
                 /\ v.SERVER.default_hostname = row.default_host
                 /\ v.SERVER.hosts = Empty /\ v.SERVER.default_host = NULL
<1> DEFINE u == Server_destroy(w, w.SERVER)
           v == Config_load_server_cb(w, id, row)
           key == <<"server", id, u.loads>>
           srv == [key |-> key, pid |-> row.pid, default_hostname |-> row.default_host,
                   hosts |-> Empty, default_host |-> NULL]
<1>1. Keeps(u, w, {"live", "wild"}) /\ Targets(u) /\ FromRows(u, sn)
  BY ServerDestroyed
<1>2. v = IF row.pid = NULL THEN Fail([u EXCEPT !.SERVER = NULL])
          ELSE [Make(u, key) EXCEPT !.SERVER = srv]
  BY DEF Config_load_server_cb, Server_create
<1>3. key[1] = "server"
  OBVIOUS
<1> HIDE DEF u, v, key
<1>4. Recorded(u) /\ u.rc = 0
  BY <1>1 DEF Keeps, Fields
<1>5. CASE row.pid = NULL
  <2> DEFINE x == [u EXCEPT !.SERVER = NULL]
  <2>1. Keeps(x, u, {"SERVER"}) /\ x.SERVER = NULL
    BY <1>4 DEF Keeps, Recorded, Fields
  <2>2. v = Fail(x)
    BY <1>2, <1>5
  <2> HIDE DEF x
  <2>3. Keeps(v, x, {"rc"}) /\ v.rc = -1
    BY <2>1, <2>2, FailKeeps DEF Keeps
  <2>4. Keeps(v, u, {"SERVER", "rc"}) /\ v.SERVER = NULL
    BY <2>1, <2>3 DEF Keeps, Fields
  <2>5. v.LOADED = u.LOADED /\ v.live = u.live /\ v.wild = u.wild /\ v.loads = u.loads
    BY <2>4 DEF Keeps, Fields
  <2>6. Targets(v) /\ FromRows(v, sn)
    BY <1>1, <2>5 DEF Targets, InMap, FromRows
  <2>7. Fine(v, sn)
    BY <2>4, <2>6 DEF Fine, Keeps
  <2> QED
    BY <1>1, <2>3, <2>4, <2>7 DEF Keeps, v
<1>6. CASE row.pid # NULL
  <2> DEFINE x == Make(u, key)
  <2>1. Keeps(x, u, {"live"}) /\ x.live = u.live \cup {key}
    BY <1>4, MakeKeeps
  <2>2. v = [x EXCEPT !.SERVER = srv]
    BY <1>2, <1>6
  <2> HIDE DEF x, srv
  <2>3. Keeps(v, x, {"SERVER"}) /\ v.SERVER = srv
    BY <2>1, <2>2 DEF Keeps, Recorded, Fields
  <2>4. Keeps(v, u, {"live", "SERVER"}) /\ v.live = u.live \cup {key}
    BY <2>1, <2>3 DEF Keeps, Fields
  <2>5. v.LOADED = u.LOADED /\ v.wild = u.wild /\ v.loads = u.loads
    BY <2>4 DEF Keeps, Fields
  <2>6. \A o : InMap(u, o) => InMap(v, o)
    BY <2>5 DEF InMap
  <2>7. key[1] \notin Kinds
    BY <1>3 DEF Kinds
  <2>8. Targets(v) /\ FromRows(v, sn)
    BY <1>1, <2>4, <2>5, <2>6, <2>7 DEF Targets, FromRows
  <2>9. FineServer(v, srv)
    <3>1. IsServer(srv)
      BY <1>3 DEF IsServer, srv
    <3>2. srv.key \in v.live
      BY <2>4 DEF srv
    <3> QED
      BY <3>1, <3>2 DEF FineServer, srv, Empty
  <2>10. Fine(v, sn)
    BY <2>3, <2>4, <2>8, <2>9 DEF Fine, Keeps
  <2>11. v.rc = 0
    BY <1>4, <2>4 DEF Keeps, Fields
  <2>12. /\ v.SERVER.default_hostname = row.default_host
         /\ v.SERVER.hosts = Empty /\ v.SERVER.default_host = NULL
    BY <2>3 DEF srv
  <2> QED
    BY <1>1, <2>3, <2>4, <2>9, <2>10, <2>11, <2>12 DEF Keeps, v
<1> QED
  BY <1>5, <1>6

(* Host_create makes a host without routes, or one that is too long, which stays. *)
LEMMA HostMade ==
    ASSUME NEW w, NEW sn, Fine(w, sn), w.rc = 0, NEW id, NEW row
    PROVE  LET v == Host_create(w, id, row) IN
           /\ Fine(v, sn) /\ Keeps(v, w, {"MAX", "live", "host", "rc"}) /\ v.rc \in {0, -1}
           /\ FineHost(v, v.host) /\ v.host.name = row.name /\ v.host.routes = Empty
           /\ \A s : FineServer(w, s) => FineServer(v, s)
<1> DEFINE u == ReadOnce(w, "host_name")
           key == <<"host", id, u.loads>>
           h == [key |-> key, name |-> row.name, routes |-> Empty]
           m == Make(u, key)
           made == [m EXCEPT !.host = h]
           v == Host_create(w, id, row)
<1>1. Keeps(u, w, {"MAX"})
  BY ReadOnceKeeps DEF Limits, Fine
<1>2. v = made \/ v = Fail(made)
  BY DEF Host_create
<1>3. key[1] = "host"
  OBVIOUS
<1> HIDE DEF u, v, key, m
<1>4. Recorded(u)
  BY <1>1 DEF Keeps
<1>5. Keeps(m, u, {"live"}) /\ m.live = u.live \cup {key}
  BY <1>4, MakeKeeps DEF m
<1> HIDE DEF h
<1>6. Keeps(made, m, {"host"}) /\ made.host = h
  BY <1>5 DEF Keeps, Recorded, Fields
<1> HIDE DEF made
<1>7. Keeps(v, made, {"rc"}) /\ v.rc \in {made.rc, -1}
  BY <1>2, <1>6, FailKeeps DEF Keeps, Fields
<1>8. /\ Keeps(v, w, {"MAX", "live", "host", "rc"}) /\ v.host = h /\ v.rc \in {0, -1}
      /\ v.live = w.live \cup {key}
  BY <1>1, <1>5, <1>6, <1>7 DEF Keeps, Fields
<1>9. Recorded(v) /\ \A f \in Core \ {"live"} : v[f] = w[f]
  BY <1>8 DEF Keeps, Fields, Core
<1>10. key[1] \notin Kinds
  BY <1>3 DEF Kinds
<1>11. Fine(v, sn) /\ \A s : FineServer(w, s) => FineServer(v, s)
  <2>1. Recorded(w)
    BY DEF Fine
  <2> QED
    BY <1>8, <1>9, <1>10, <2>1, MadeFine
<1>12. FineHost(v, h)
  BY <1>3, <1>8 DEF FineHost, IsHost, h, Empty
<1>13. h.name = row.name /\ h.routes = Empty
  BY DEF h
<1> QED
  BY <1>8, <1>11, <1>12, <1>13 DEF v

(* The host has one more route, to the row's target. *)
RouteAdded(v, w, row) ==
    /\ v.rc = 0 /\ Keeps(v, w, {"host"})
    /\ v.host.name = w.host.name
    /\ \E target :
         /\ v.host.routes = Put(w.host.routes, row.path, [type |-> row.type, target |-> target])
         /\ target[1] = row.type /\ target[2] = row.target_id

(* Config_load_route_cb adds a route to a target that is loaded. *)
LEMMA RouteLoaded ==
    ASSUME NEW w, NEW sn, Fine(w, sn), FineHost(w, w.host), w.rc = 0, NEW row
    PROVE  LET v == Config_load_route_cb(w, row) IN
           /\ Fine(v, sn) /\ FineHost(v, v.host)
           /\ \A s : FineServer(w, s) => FineServer(v, s)
           /\ \/ v.rc \in {-1, ABORT} /\ Keeps(v, w, {"rc"})
              \/ RouteAdded(v, w, row)
<1> DEFINE target == FindTarget(w, row)
           r == [type |-> row.type, target |-> target]
           v == Config_load_route_cb(w, row)
<1>1. v = IF target = NULL THEN Fail(w)
          ELSE IF Duplicate(w, w.host.routes, row.path) THEN Abort(w)
          ELSE [w EXCEPT !.host.routes = Put(@, row.path, r)]
  BY DEF Config_load_route_cb, tst_insert
<1>2. Recorded(w)
  BY DEF Fine
<1>3. target # NULL => /\ row.type \in Kinds /\ row.target_id \in DOMAIN w.LOADED[row.type]
                       /\ target = w.LOADED[row.type][row.target_id]
  BY DEF FindTarget
<1>4. \A x : SameCore(x, w) => /\ Fine(x, sn)
                               /\ \A s : FineServer(w, s) => FineServer(x, s)
                               /\ \A h : FineHost(w, h) => FineHost(x, h)
  BY SameCoreFine
<1> HIDE DEF target, v
<1>5. CASE v = Fail(w) \/ v = Abort(w)
  <2>1. Keeps(v, w, {"rc"}) /\ v.rc \in {-1, ABORT}
    BY <1>2, <1>5, FailKeeps
  <2>2. SameCore(v, w) /\ v.host = w.host
    BY <2>1 DEF SameCore, Keeps, Core, Fields
  <2> QED
    BY <1>4, <2>1, <2>2 DEF v
<1>6. CASE v = [w EXCEPT !.host.routes = Put(@, row.path, r)] /\ target # NULL
  <2> DEFINE h == [w.host EXCEPT !.routes = Put(@, row.path, r)]
  <2>1. v = [w EXCEPT !.host = h]
    BY <1>6
  <2>2. IsHost(w.host)
    BY DEF FineHost
  <2>3. IsHost(h) /\ h.key = w.host.key /\ h.name = w.host.name /\ h.routes = Put(w.host.routes, row.path, r)
    BY <2>2 DEF IsHost
  <2> HIDE DEF h
  <2>4. Keeps(v, w, {"host"}) /\ v.host = h
    BY <1>2, <2>1 DEF Keeps, Recorded, Fields
  <2>5. SameCore(v, w) /\ v.rc = 0
    BY <2>4 DEF SameCore, Keeps, Core, Fields
  <2>6. target = <<row.type, row.target_id, w.loads, sn[QueryOf[row.type]][TableOf[row.type]][row.target_id].spec>>
    BY <1>3, <1>6 DEF Fine, FromRows
  <2>7. target[1] = row.type /\ target[2] = row.target_id
    BY <2>6
  <2>8. Leads(w, r)
    BY <1>3, <1>6 DEF Leads
  <2>9. FineHost(w, h)
    <3>1. \A p \in DOMAIN h.routes : h.routes[p] = r \/ (p \in DOMAIN w.host.routes /\ h.routes[p] = w.host.routes[p])
      BY <2>3 DEF Put
    <3> HIDE DEF r
    <3>2. \A p \in DOMAIN h.routes : Leads(w, h.routes[p])
      BY <2>8, <3>1 DEF FineHost
    <3> QED
      BY <2>3, <3>2 DEF FineHost
  <2>10. Fine(v, sn) /\ FineHost(v, v.host) /\ \A s : FineServer(w, s) => FineServer(v, s)
    BY <1>4, <2>4, <2>5, <2>9
  <2>11. RouteAdded(v, w, row)
    BY <2>3, <2>4, <2>5, <2>7 DEF RouteAdded
  <2> QED
    BY <2>10, <2>11 DEF v
<1> QED
  BY <1>1, <1>5, <1>6

(* Server_add_host gives the server one more host. *)
LEMMA HostAdded ==
    ASSUME NEW w, NEW sn, Fine(w, sn), FineHost(w, w.host), FineServer(w, w.SERVER), w.rc = 0, NEW row
    PROVE  LET v == Server_add_host(w, row) IN
           /\ Fine(v, sn)
           /\ \/ v.rc = ABORT
              \/ /\ v.rc = 0 /\ Keeps(v, w, {"SERVER"}) /\ FineServer(v, v.SERVER)
                 /\ v.SERVER.default_hostname = w.SERVER.default_hostname
                 /\ v.SERVER.hosts = Put(w.SERVER.hosts, row.matching, w.host)
                 /\ v.SERVER.default_host = IF w.SERVER.default_hostname \in {NULL, w.host.name}
                                            THEN w.host ELSE w.SERVER.default_host
<1> DEFINE default == IF w.SERVER.default_hostname \in {NULL, w.host.name}
                      THEN w.host ELSE w.SERVER.default_host
           s == [w.SERVER EXCEPT !.hosts = Put(@, row.matching, w.host)]
           t == [s EXCEPT !.default_host = default]
           v == Server_add_host(w, row)
<1>1. Recorded(w) /\ IsServer(w.SERVER)
  BY DEF Fine, FineServer
<1>2. CASE Duplicate(w, w.SERVER.hosts, row.matching)
  <2>1. v = Abort(w)
    BY <1>2 DEF Server_add_host
  <2> HIDE DEF v
  <2>2. Keeps(v, w, {"rc"}) /\ v.rc = ABORT
    BY <1>1, <2>1, FailKeeps
  <2>3. SameCore(v, w)
    BY <2>2 DEF SameCore, Keeps, Core, Fields
  <2> QED
    BY <2>2, <2>3, SameCoreFine DEF v
<1>3. CASE ~Duplicate(w, w.SERVER.hosts, row.matching)
  <2>1. v = [w EXCEPT !.SERVER = t]
    <3>1. v = [w EXCEPT !.SERVER.hosts = Put(@, row.matching, w.host), !.SERVER.default_host =
                   IF w.SERVER.default_hostname \in {NULL, w.host.name} THEN w.host ELSE @]
      BY <1>3 DEF Server_add_host, tst_insert
    <3> QED
      BY <1>1, <3>1 DEF IsServer, Recorded
  <2>2. /\ IsServer(s) /\ s.key = w.SERVER.key /\ s.default_hostname = w.SERVER.default_hostname
        /\ s.default_host = w.SERVER.default_host
        /\ s.hosts = Put(w.SERVER.hosts, row.matching, w.host)
    BY <1>1 DEF IsServer
  <2> HIDE DEF s, default
  <2>3. /\ IsServer(t) /\ t.key = w.SERVER.key /\ t.default_hostname = w.SERVER.default_hostname
        /\ t.default_host = default
        /\ t.hosts = Put(w.SERVER.hosts, row.matching, w.host)
    BY <2>2 DEF IsServer
  <2> HIDE DEF t, v
  <2>4. Keeps(v, w, {"SERVER"}) /\ v.SERVER = t
    BY <1>1, <2>1 DEF Keeps, Recorded, Fields
  <2>5. v.LOADED = w.LOADED /\ v.live = w.live /\ v.wild = w.wild /\ v.loads = w.loads /\ v.rc = 0
    BY <2>4 DEF Keeps, Fields
  <2>6. \A h : FineHost(w, h) => FineHost(v, h)
    BY <2>5 DEF FineHost, Leads
  <2>7. \A m \in DOMAIN t.hosts : FineHost(w, t.hosts[m])
    <3>1. \A m \in DOMAIN t.hosts : t.hosts[m] = w.host \/ (m \in DOMAIN w.SERVER.hosts /\ t.hosts[m] = w.SERVER.hosts[m])
      BY <2>3 DEF Put
    <3> QED
      BY <3>1 DEF FineServer
  <2>8. t.default_host # NULL => FineHost(w, t.default_host)
    BY <2>3 DEF FineServer, default
  <2>9. FineServer(v, v.SERVER)
    BY <2>3, <2>4, <2>5, <2>6, <2>7, <2>8 DEF FineServer
  <2>10. Targets(v) /\ FromRows(v, sn)
    BY <2>5 DEF Targets, InMap, FromRows, Fine
  <2>11. Fine(v, sn)
    BY <2>4, <2>9, <2>10 DEF Fine, Keeps
  <2> QED
    BY <2>3, <2>4, <2>5, <2>9, <2>11 DEF v, default
<1> QED
  BY <1>2, <1>3

(* FailsServer undoes the server of a host or a route that has failed. *)
LEMMA FailsServerFine ==
    ASSUME NEW w, NEW sn, Fine(w, sn)
    PROVE  Fine(FailsServer(w), sn) /\ FailsServer(w).rc = w.rc
<1>1. CASE w.rc = -1
  <2>1. FailsServer(w) = Undone(w)
    BY <1>1 DEF FailsServer
  <2> QED
    BY <2>1, UndoneFine DEF Keeps, Fields
<1>2. CASE w.rc # -1
  BY <1>2 DEF FailsServer
<1> QED
  BY <1>1, <1>2

-----------------------------------------------------------------------------
(* What ends a load's work, and what begins a load.                        *)

(* Config_stop_handlers and the like destroy what is loaded of a kind. *)
LEMMA StoppedFine ==
    ASSUME NEW w, Recorded(w), Targets(w), NEW k \in Kinds
    PROVE  LET v == Stopped(w, k) IN
           /\ Keeps(v, w, {"live", "wild", "LOADED"}) /\ Targets(v)
           /\ v.LOADED[k] = Empty /\ \A j \in Kinds \ {k} : v.LOADED[j] = w.LOADED[j]
           /\ \A o \in w.live : o[1] \notin Kinds => o \in v.live
<1> DEFINE os == {w.LOADED[k][id] : id \in DOMAIN w.LOADED[k]}
           u == Destroy(w, os)
           v == Stopped(w, k)
<1>1. Keeps(u, w, {"live", "wild"}) /\ u.live = w.live \ os /\ u.wild = w.wild \cup (os \ w.live)
  BY DestroyKeeps
<1>2. v = [u EXCEPT !.LOADED[k] = Empty]
  BY DEF Stopped
<1> HIDE DEF u, v
<1>3. Recorded(u) /\ u.LOADED = w.LOADED
  BY <1>1 DEF Keeps, Fields
<1>4. Keeps(v, u, {"LOADED"}) /\ v.LOADED = [w.LOADED EXCEPT ![k] = Empty]
  BY <1>2, <1>3 DEF Keeps, Recorded, Fields
<1>5. v.LOADED[k] = Empty /\ \A j \in Kinds \ {k} : v.LOADED[j] = w.LOADED[j]
  BY <1>4 DEF Recorded
<1>6. \A o \in os : o \in w.live /\ o[1] = k
  BY DEF Targets
<1>7. v.live = w.live \ os /\ v.wild = {}
  BY <1>1, <1>4, <1>6 DEF Keeps, Fields, Targets
<1>8. \A j \in Kinds : \A id \in DOMAIN v.LOADED[j] : v.LOADED[j][id][1] = j /\ v.LOADED[j][id] \in v.live
  <2> SUFFICES ASSUME NEW j \in Kinds, NEW id \in DOMAIN v.LOADED[j]
               PROVE  v.LOADED[j][id][1] = j /\ v.LOADED[j][id] \in v.live
    OBVIOUS
  <2>1. j # k
    BY <1>5 DEF Empty
  <2>2. v.LOADED[j] = w.LOADED[j]
    BY <1>5, <2>1
  <2>3. w.LOADED[j][id][1] = j /\ w.LOADED[j][id] \in w.live
    BY <2>2 DEF Targets
  <2> QED
    BY <1>6, <1>7, <2>1, <2>2, <2>3
<1>9. ASSUME NEW o \in v.live, o[1] \in Kinds
      PROVE  InMap(v, o)
  <2>1. InMap(w, o) /\ o \notin os
    BY <1>7, <1>9 DEF Targets
  <2> PICK j \in Kinds : \E id \in DOMAIN w.LOADED[j] : w.LOADED[j][id] = o
    BY <2>1 DEF InMap
  <2>2. PICK id \in DOMAIN w.LOADED[j] : w.LOADED[j][id] = o
    OBVIOUS
  <2>3. j # k
    BY <2>1, <2>2
  <2> QED
    BY <1>5, <2>2, <2>3 DEF InMap
<1>10. Targets(v)
  BY <1>7, <1>8, <1>9 DEF Targets
<1>11. \A o \in w.live : o[1] \notin Kinds => o \in v.live
  BY <1>6, <1>7
<1> QED
  BY <1>1, <1>4, <1>5, <1>10, <1>11 DEF Keeps, v

(* Nothing is loaded. *)
Bare(w) == \A k \in Kinds : w.LOADED[k] = Empty

(* All three leave nothing. *)
LEMMA StopAllFine ==
    ASSUME NEW w, Recorded(w), Targets(w)
    PROVE  LET v == StopAll(w) IN
           /\ Keeps(v, w, {"live", "wild", "LOADED"}) /\ Targets(v) /\ Bare(v)
           /\ \A o \in w.live : o[1] \notin Kinds => o \in v.live
<1> DEFINE a == Stopped(w, "handler")
           b == Stopped(a, "proxy")
           c == Stopped(b, "dir")
<1>1. StopAll(w) = c
  BY DEF StopAll, Config_stop_handlers, Config_stop_proxies, Config_stop_dirs
<1>2. Kinds = {"handler", "proxy", "dir"}
  BY DEF Kinds
<1>3. /\ Keeps(a, w, {"live", "wild", "LOADED"}) /\ Targets(a)
      /\ a.LOADED["handler"] = Empty
      /\ \A o \in w.live : o[1] \notin Kinds => o \in a.live
  BY <1>2, StoppedFine
<1> HIDE DEF a
<1>4. /\ Keeps(b, a, {"live", "wild", "LOADED"}) /\ Targets(b)
      /\ b.LOADED["proxy"] = Empty /\ b.LOADED["handler"] = a.LOADED["handler"]
      /\ \A o \in a.live : o[1] \notin Kinds => o \in b.live
  <2>1. Recorded(a)
    BY <1>3 DEF Keeps
  <2> QED
    BY <1>2, <1>3, <2>1, StoppedFine
<1> HIDE DEF b
<1>5. /\ Keeps(c, b, {"live", "wild", "LOADED"}) /\ Targets(c)
      /\ c.LOADED["dir"] = Empty /\ c.LOADED["handler"] = b.LOADED["handler"] /\ c.LOADED["proxy"] = b.LOADED["proxy"]
      /\ \A o \in b.live : o[1] \notin Kinds => o \in c.live
  <2>1. Recorded(b)
    BY <1>4 DEF Keeps
  <2> QED
    BY <1>2, <1>4, <2>1, StoppedFine
<1> HIDE DEF c
<1>6. Keeps(c, w, {"live", "wild", "LOADED"})
  BY <1>3, <1>4, <1>5 DEF Keeps
<1>7. Bare(c)
  BY <1>2, <1>3, <1>4, <1>5 DEF Bare
<1> QED
  BY <1>1, <1>3, <1>4, <1>5, <1>6, <1>7

(* Without anything loaded there is nothing to compare with the rows. *)
LEMMA BareFine ==
    ASSUME NEW w, NEW sn, Bare(w)
    PROVE  FromRows(w, sn)
BY DEF Bare, FromRows, Empty

(* MIME_destroy and Setting_destroy empty their maps. *)
LEMMA MapsDestroyed ==
    ASSUME NEW w, Recorded(w)
    PROVE  /\ Keeps(MIME_destroy(w), w, {"MIME_MAP"}) /\ MIME_destroy(w).MIME_MAP = Empty
           /\ Keeps(Setting_destroy(w), w, {"SETTINGS_MAP"}) /\ Setting_destroy(w).SETTINGS_MAP = Empty
BY DEF MIME_destroy, Setting_destroy, Keeps, Recorded, Fields

(* reload_server gives up what was loaded. *)
LEMMA ReloadNew ==
    ASSUME NEW w, Recorded(w), Targets(w), w.rc = 0
    PROVE  LET v == Setting_destroy(StopAll(MIME_destroy(w))) IN
           Recorded(v) /\ Targets(v) /\ New(v)
<1> DEFINE a == MIME_destroy(w)
           b == StopAll(a)
           c == Setting_destroy(b)
<1>1. Keeps(a, w, {"MIME_MAP"}) /\ a.MIME_MAP = Empty
  BY MapsDestroyed
<1> HIDE DEF a
<1>2. Recorded(a) /\ Targets(a)
  <2>1. a.LOADED = w.LOADED /\ a.live = w.live /\ a.wild = w.wild
    BY <1>1 DEF Keeps, Fields
  <2> QED
    BY <1>1, <2>1 DEF Targets, InMap, Keeps
<1>3. Keeps(b, a, {"live", "wild", "LOADED"}) /\ Targets(b) /\ Bare(b)
  BY <1>2, StopAllFine
<1> HIDE DEF b
<1>4. Keeps(c, b, {"SETTINGS_MAP"}) /\ c.SETTINGS_MAP = Empty
  BY <1>3, MapsDestroyed DEF Keeps
<1> HIDE DEF c
<1>5. c.LOADED = b.LOADED /\ c.live = b.live /\ c.wild = b.wild /\ c.MIME_MAP = Empty /\ c.rc = 0
  BY <1>1, <1>3, <1>4 DEF Keeps, Fields
<1>6. Recorded(c) /\ Targets(c) /\ New(c)
  BY <1>3, <1>4, <1>5 DEF Targets, InMap, New, Bare, Keeps
<1> QED
  BY <1>6 DEF a, b, c

(* load_server begins with nothing loaded. *)
LEMMA LoadBegins ==
    ASSUME NEW w, Recorded(w), Targets(w), New(w), LoadServer(w), Positive(db)
    PROVE  State(db, load', seen', up', mem')
<1> DEFINE a == [w EXCEPT !.loads = @ + 1]
           b == [a EXCEPT !.SERVER = NULL]
           c == [b EXCEPT !.host = NULL]
<1>1. mem' = c
  BY DEF LoadServer, Recorded
<1>2. Keeps(a, w, {"loads"})
  BY DEF Keeps, Recorded, Fields
<1> HIDE DEF a
<1>3. Keeps(b, a, {"SERVER"}) /\ b.SERVER = NULL
  BY <1>2 DEF Keeps, Recorded, Fields
<1> HIDE DEF b
<1>4. Keeps(c, b, {"host"})
  BY <1>3 DEF Keeps, Recorded, Fields
<1> HIDE DEF c
<1>5. /\ Recorded(c) /\ c.SERVER = NULL /\ c.LOADED = w.LOADED /\ c.live = w.live /\ c.wild = w.wild
      /\ c.MIME_MAP = Empty /\ c.SETTINGS_MAP = Empty /\ c.rc = 0
  BY <1>2, <1>3, <1>4 DEF Keeps, Fields, New
<1>6. Bare(c) /\ Targets(c)
  BY <1>5 DEF Bare, New, Targets, InMap
<1>7. Fine(c, seen')
  BY <1>5, <1>6, BareFine DEF Fine
<1>8. /\ load' = [query |-> "handlers", stage |-> "start", row |-> 0, host |-> 0, route |-> 0]
      /\ up' = "load" /\ seen' = [q \in Queries |-> Unread]
  BY DEF LoadServer, Idle
<1>9. IsLoad(load')
  BY <1>8 DEF IsLoad, Queries
<1>10. c.LOADED["handler"] = Empty /\ c.LOADED["proxy"] = Empty /\ c.LOADED["dir"] = Empty
  BY <1>6 DEF Bare, Kinds
<1>11. NotYet(load', c)
  BY <1>5, <1>8, <1>10 DEF NotYet, Early, Empty
<1>12. Serving(seen'["servers"], load', c) /\ TypesLoaded(seen', load', c)
  BY <1>8 DEF Serving, TypesLoaded
<1>13. Loading(db, load', seen', c)
  BY <1>5, <1>8, <1>11, <1>12 DEF Loading
<1>14. Snapshots(seen')
  BY <1>8 DEF Snapshots, Positive, Unread, Empty
<1> QED
  BY <1>1, <1>7, <1>8, <1>9, <1>13, <1>14 DEF State

-----------------------------------------------------------------------------
(* The rows, one after the other.                                          *)

(* The rows of a query up to the next one, and the rows before it. *)
LEMMA NextRow ==
    ASSUME NEW rows, rows \subseteq Nat \ {0}, NEW from \in Nat, NEW i, IsNext(i, rows, from)
    PROVE  /\ i \in rows /\ i \in Nat /\ i > from
           /\ UpTo(rows, i) = UpTo(rows, from) \cup {i}
           /\ Before(rows, i) = UpTo(rows, from)
           /\ \A x \in UpTo(rows, from) : x < i
<1>1. i \in rows /\ i \in Nat /\ i > from /\ \A j \in rows : j > from => i <= j
  BY DEF IsNext
<1>2. \A j \in rows : j \in Nat /\ (j <= from \/ j > from)
  OBVIOUS
<1>3. \A j \in rows : j <= i <=> (j <= from \/ j = i)
  BY <1>1, <1>2
<1>4. \A j \in rows : j < i <=> j <= from
  BY <1>1, <1>2
<1> QED
  BY <1>1, <1>3, <1>4 DEF UpTo, Before

(* When there is none the rows are all of them, and at the beginning there are none. *)
LEMMA AllRows ==
    ASSUME NEW rows, rows \subseteq Nat \ {0}
    PROVE  /\ \A from : NoNext(rows, from) => UpTo(rows, from) = rows
           /\ UpTo(rows, 0) = {}
<1>1. \A from : NoNext(rows, from) => UpTo(rows, from) = rows
  BY DEF NoNext, UpTo
<1>2. \A i \in rows : ~(i <= 0)
  OBVIOUS
<1> QED
  BY <1>1, <1>2 DEF UpTo

(* A host gets one more route. *)
LEMMA HostGrows ==
    ASSUME NEW d, NEW h, NEW j, NEW rows, HostBuilt(d, h, j, rows), rows \subseteq Nat,
           NEW k \in Nat, \A x \in rows : x < k,
           NEW g, g.name = h.name, NEW target,
           target[1] = d.route[k].type, target[2] = d.route[k].target_id,
           g.routes = Put(h.routes, d.route[k].path, [type |-> d.route[k].type, target |-> target])
    PROVE  HostBuilt(d, g, j, rows \cup {k})
<1> DEFINE r == [type |-> d.route[k].type, target |-> target]
           path == d.route[k].path
           now == rows \cup {k}
<1>1. g.name = d.host[j].name
  BY DEF HostBuilt
<1>2. DOMAIN g.routes = {d.route[x].path : x \in now}
  BY DEF HostBuilt, Put
<1>3. ASSUME NEW p \in DOMAIN g.routes
      PROVE  \E x \in now :
                /\ IsLast(x, {y \in now : d.route[y].path = p})
                /\ g.routes[p].type = d.route[x].type
                /\ g.routes[p].target[1] = d.route[x].type
                /\ g.routes[p].target[2] = d.route[x].target_id
  <2>1. CASE p = path
    <3>1. g.routes[p] = r
      BY <2>1 DEF Put
    <3>2. IsLast(k, {y \in now : d.route[y].path = p})
      BY <2>1 DEF IsLast
    <3>3. r.type = d.route[k].type /\ r.target = target
      OBVIOUS
    <3> QED
      BY <3>1, <3>2, <3>3
  <2>2. CASE p # path
    <3>1. p \in DOMAIN h.routes /\ g.routes[p] = h.routes[p]
      BY <2>2 DEF Put
    <3>2. {y \in now : d.route[y].path = p} = {y \in rows : d.route[y].path = p}
      BY <2>2
    <3> QED
      BY <3>1, <3>2 DEF HostBuilt
  <2> QED
    BY <2>1, <2>2
<1> QED
  BY <1>1, <1>2, <1>3 DEF HostBuilt

(* A server gets one more host. *)
LEMMA ServerGrows ==
    ASSUME NEW d, NEW s, NEW i, NEW rows, ServerBuilt(d, s, i, rows), rows \subseteq Nat,
           NEW k \in Nat, \A x \in rows : x < k,
           NEW h, HostBuilt(d, h, k, RouteRows(d, k)),
           NEW t, t.default_hostname = s.default_hostname,
           t.hosts = Put(s.hosts, d.host[k].matching, h),
           t.default_host = IF s.default_hostname \in {NULL, h.name} THEN h ELSE s.default_host
    PROVE  ServerBuilt(d, t, i, rows \cup {k})
<1> DEFINE now == rows \cup {k}
           ByName(x) == d.server[i].default_host \in {NULL, d.host[x].name}
           named == {x \in rows : ByName(x)}
           later == {x \in now : ByName(x)}
<1>1. /\ s.default_hostname = d.server[i].default_host
      /\ DOMAIN s.hosts = {d.host[j].matching : j \in rows}
      /\ \A m \in DOMAIN s.hosts : \E j \in rows :
           /\ IsLast(j, {x \in rows : d.host[x].matching = m})
           /\ HostBuilt(d, s.hosts[m], j, RouteRows(d, j))
      /\ \/ s.default_host = NULL /\ named = {}
         \/ \E j \in named : IsLast(j, named) /\ HostBuilt(d, s.default_host, j, RouteRows(d, j))
  BY DEF ServerBuilt
<1>2. h.name = d.host[k].name
  BY DEF HostBuilt
<1>3. DOMAIN t.hosts = {d.host[j].matching : j \in now}
  <2>1. DOMAIN t.hosts = DOMAIN s.hosts \cup {d.host[k].matching}
    BY DEF Put
  <2>2. DOMAIN s.hosts = {d.host[j].matching : j \in rows}
    BY <1>1
  <2> QED
    BY <2>1, <2>2
<1>4. ASSUME NEW m \in DOMAIN t.hosts
      PROVE  \E j \in now : /\ IsLast(j, {x \in now : d.host[x].matching = m})
                            /\ HostBuilt(d, t.hosts[m], j, RouteRows(d, j))
  <2>1. CASE m = d.host[k].matching
    <3>1. t.hosts[m] = h
      BY <2>1 DEF Put
    <3>2. IsLast(k, {x \in now : d.host[x].matching = m})
      BY <2>1 DEF IsLast
    <3> QED
      BY <3>1, <3>2
  <2>2. CASE m # d.host[k].matching
    <3>1. m \in DOMAIN s.hosts /\ t.hosts[m] = s.hosts[m]
      BY <2>2 DEF Put
    <3>2. {x \in now : d.host[x].matching = m} = {x \in rows : d.host[x].matching = m}
      BY <2>2
    <3> QED
      BY <1>1, <3>1, <3>2
  <2> QED
    BY <2>1, <2>2
<1>5. \/ t.default_host = NULL /\ later = {}
      \/ \E j \in later : IsLast(j, later) /\ HostBuilt(d, t.default_host, j, RouteRows(d, j))
  <2>1. CASE ByName(k)
    <3>1. t.default_host = h
      BY <1>1, <1>2, <2>1
    <3>2. k \in later
      BY <2>1
    <3>3. \A x \in now : x <= k
      OBVIOUS
    <3>4. IsLast(k, later)
      BY <3>2, <3>3 DEF IsLast
    <3> HIDE DEF later
    <3> QED
      BY <1>2, <3>1, <3>2, <3>4
  <2>2. CASE ~ByName(k)
    <3>1. t.default_host = s.default_host
      BY <1>1, <1>2, <2>2
    <3>2. later = named
      BY <2>2
    <3> HIDE DEF later, named
    <3> QED
      BY <1>1, <3>1, <3>2
  <2> QED
    BY <2>1, <2>2
<1> QED
  BY <1>1, <1>3, <1>4, <1>5 DEF ServerBuilt

(* A setting is added, and a MIME type that is not there yet. *)
LEMMA SettingsGrow ==
    ASSUME NEW d, NEW map, NEW rows, SettingsBuilt(d, map, rows), rows \subseteq Nat,
           NEW k \in Nat, \A x \in rows : x < k
    PROVE  SettingsBuilt(d, Put(map, d.setting[k].key, d.setting[k].value), rows \cup {k})
<1> DEFINE now == rows \cup {k}
           new == Put(map, d.setting[k].key, d.setting[k].value)
<1>1. DOMAIN new = {d.setting[i].key : i \in now}
  BY DEF SettingsBuilt, Put
<1>2. ASSUME NEW key \in DOMAIN new
      PROVE  \E i \in now : /\ IsLast(i, {x \in now : d.setting[x].key = key})
                            /\ new[key] = d.setting[i].value
  <2>1. CASE key = d.setting[k].key
    <3>1. new[key] = d.setting[k].value
      BY <2>1 DEF Put
    <3>2. IsLast(k, {x \in now : d.setting[x].key = key})
      BY <2>1 DEF IsLast
    <3> QED
      BY <3>1, <3>2
  <2>2. CASE key # d.setting[k].key
    <3>1. key \in DOMAIN map /\ new[key] = map[key]
      BY <2>2 DEF Put
    <3>2. {x \in now : d.setting[x].key = key} = {x \in rows : d.setting[x].key = key}
      BY <2>2
    <3> QED
      BY <3>1, <3>2 DEF SettingsBuilt
  <2> QED
    BY <2>1, <2>2
<1> QED
  BY <1>1, <1>2 DEF SettingsBuilt

(* The same for a type. *)
LEMMA TypesGrow ==
    ASSUME NEW d, NEW map, NEW rows, TypesBuilt(d, map, rows), NEW k, d.mimetype[k].ext \notin DOMAIN map
    PROVE  TypesBuilt(d, Put(map, d.mimetype[k].ext, d.mimetype[k].type), rows \cup {k})
<1>1. DOMAIN map = {d.mimetype[i].ext : i \in rows}
  BY DEF TypesBuilt
<1>2. \A i \in rows : map[d.mimetype[i].ext] = d.mimetype[i].type /\ d.mimetype[i].ext \in DOMAIN map
  BY <1>1 DEF TypesBuilt
<1> DEFINE new == Put(map, d.mimetype[k].ext, d.mimetype[k].type)
<1>3. DOMAIN new = DOMAIN map \cup {d.mimetype[k].ext}
  BY DEF Put
<1>4. \A i \in rows \cup {k} : new[d.mimetype[i].ext] = d.mimetype[i].type
  BY <1>2 DEF Put
<1> HIDE DEF new
<1> QED
  BY <1>1, <1>3, <1>4 DEF TypesBuilt, new

-----------------------------------------------------------------------------
(* The end of a query and the return of a callback.                        *)

(* The state in which a query can end. *)
Ending(w) ==
    /\ Positive(db) /\ IsLoad(load) /\ load.query \in Queries /\ up = "load"
    /\ Snapshots(seen)
    /\ Fine(w, seen) /\ w.rc = 0 /\ NotYet(load, w)

(* After the first three queries comes the next one, whether or not all of it is loaded. *)
LEMMA EarlyEnds ==
    ASSUME NEW w, NEW worked, Ending(w), QueryEnds(w, worked), load.query \in Early
    PROVE  State(db, load', seen, up', mem')
<1>1. /\ mem' = w /\ load' = [Idle EXCEPT !.query = After[load.query]] /\ up' = "load"
  BY DEF QueryEnds, Ending, Early
<1>2. After[load.query] \in {"proxies", "dirs", "servers"}
  BY DEF After, Early
<1>3. /\ load'.query = After[load.query] /\ load'.stage = "start"
      /\ load' = [query |-> After[load.query], stage |-> "start", row |-> 0, host |-> 0, route |-> 0]
  BY <1>1 DEF Idle
<1>4. IsLoad(load')
  BY <1>2, <1>3 DEF IsLoad, Queries
<1>5. NotYet(load', w)
  BY <1>3 DEF NotYet, Ending, Early, After, Empty
<1>6. Serving(seen["servers"], load', w)
  BY <1>2, <1>3 DEF Serving, NotYet, Ending
<1>7. TypesLoaded(seen, load', w)
  BY <1>2, <1>3 DEF TypesLoaded
<1>8. Loading(db, load', seen, w)
  BY <1>2, <1>3, <1>5, <1>6, <1>7 DEF Loading, Ending
<1> QED
  BY <1>1, <1>4, <1>8 DEF State, Ending

(* Another query that fails ends the process. *)
LEMMA FailureEnds ==
    ASSUME NEW w, Ending(w), load.query \notin Early,
           mem' = Undone(w), load' = Idle, up' = "1"
    PROVE  State(db, load', seen, up', mem')
<1>1. Fine(mem', seen)
  BY UndoneFine DEF Ending
<1>2. IsLoad(Idle)
  BY DEF IsLoad, Idle
<1> QED
  BY <1>1, <1>2 DEF State, Ending

(* So does any query that has not worked. *)
LEMMA NotWorked ==
    ASSUME NEW w, Ending(w), QueryEnds(w, FALSE)
    PROVE  State(db, load', seen, up', mem')
<1>1. CASE load.query \in Early
  BY <1>1, EarlyEnds
<1>2. CASE load.query \notin Early
  BY <1>2, FailureEnds DEF QueryEnds, Early
<1> QED
  BY <1>1, <1>2

(* What is there when a query has worked. *)
Worked(w) ==
    /\ (load.query = "servers" /\ w.SERVER # NULL) => Served(seen["servers"], w)
    /\ load.query \in {"mimetypes", "settings"} =>
        /\ Served(seen["servers"], w)
        /\ TypesBuilt(seen["mimetypes"], w.MIME_MAP, DOMAIN seen["mimetypes"].mimetype)
    /\ load.query = "settings" =>
        SettingsBuilt(seen["settings"], w.SETTINGS_MAP, DOMAIN seen["settings"].setting)

(* After a query that has worked comes the next one, and after the last the server runs. *)
LEMMA HasWorked ==
    ASSUME NEW w, Ending(w), Worked(w), QueryEnds(w, TRUE)
    PROVE  State(db, load', seen, up', mem')
<1>1. CASE load.query \in Early
  BY <1>1, EarlyEnds
<1>2. CASE load.query \notin Early /\ w.SERVER = NULL
  BY <1>2, FailureEnds DEF QueryEnds, Early
<1>3. CASE load.query \in {"servers", "mimetypes"} /\ w.SERVER # NULL
  <2>1. /\ mem' = w /\ load' = [Idle EXCEPT !.query = After[load.query]] /\ up' = "load"
    BY <1>3 DEF QueryEnds, Ending, Early
  <2>2. /\ load'.query = IF load.query = "servers" THEN "mimetypes" ELSE "settings"
        /\ load'.stage = "start" /\ load'.row = 0
        /\ load' = [query |-> load'.query, stage |-> "start", row |-> 0, host |-> 0, route |-> 0]
    BY <1>3, <2>1 DEF Idle, After
  <2>3. IsLoad(load')
    BY <2>2 DEF IsLoad, Queries
  <2>4. NotYet(load', w)
    BY <1>3, <2>2 DEF NotYet, Ending, Early
  <2>5. Serving(seen["servers"], load', w)
    BY <1>3, <2>2 DEF Serving, Worked
  <2>6. TypesLoaded(seen, load', w)
    <3>1. load.query = "servers" => w.MIME_MAP = Empty
      BY DEF NotYet, Ending
    <3>2. load.query = "mimetypes" => w.SETTINGS_MAP = Empty
      BY DEF NotYet, Ending
    <3> QED
      BY <1>3, <2>2, <3>1, <3>2 DEF TypesLoaded, Worked
  <2>7. Loading(db, load', seen, w)
    BY <2>2, <2>4, <2>5, <2>6 DEF Loading, Ending
  <2> QED
    BY <2>1, <2>3, <2>7 DEF State, Ending
<1>4. CASE load.query = "settings" /\ w.SERVER # NULL
  <2>1. /\ mem' = w /\ load' = [Idle EXCEPT !.query = After[load.query]] /\ Serve(w)
    BY <1>4 DEF QueryEnds, Ending, Early
  <2>2. load' = Idle
    BY <1>4, <2>1 DEF Idle, After
  <2>3. up' = "1" \/ (up' = "run" /\ w.SERVER.default_host # NULL)
    BY <2>1 DEF Serve
  <2>4. IsLoad(Idle)
    BY DEF IsLoad, Idle
  <2>5. up' = "run" => Running(seen, w)
    BY <1>4, <2>3 DEF Running, Worked, Ending
  <2> QED
    BY <2>1, <2>2, <2>3, <2>4, <2>5 DEF State, Ending
<1> QED
  BY <1>1, <1>2, <1>3, <1>4 DEF Ending, Early, Queries

(* A callback that returns. *)
LEMMA CalledFine ==
    ASSUME NEW w, NEW next, Called(w, next),
           Positive(db), IsLoad(load), load.query \in Queries, up = "load",
           Snapshots(seen), Fine(w, seen), w.rc \in {0, -1, ABORT},
           w.rc = -1 => NotYet(load, w),
           w.rc = 0 => IsLoad(next) /\ Loading(db, next, seen, w)
    PROVE  State(db, load', seen, up', mem')
<1>1. CASE w.rc = 0
  <2>1. mem' = w /\ load' = next /\ up' = "load"
    BY <1>1 DEF Called, ABORT
  <2> QED
    BY <1>1, <2>1 DEF State
<1>2. CASE w.rc = -1
  <2> DEFINE v == [w EXCEPT !.rc = 0]
  <2>1. QueryEnds(v, FALSE)
    <3>1. w.rc # 0 /\ w.rc # ABORT
      BY <1>2 DEF ABORT
    <3> QED
      BY <1>2, <3>1, Zenon DEF Called
  <2>2. Keeps(v, w, {"rc"}) /\ v.rc = 0
    BY DEF Keeps, Recorded, Fields, Fine
  <2> HIDE DEF v
  <2>3. SameCore(v, w) /\ v.MIME_MAP = w.MIME_MAP /\ v.SETTINGS_MAP = w.SETTINGS_MAP /\ v.LOADED = w.LOADED
        /\ v.SERVER = w.SERVER
    BY <2>2 DEF SameCore, Keeps, Core, Fields
  <2>4. Fine(v, seen)
    BY <2>3, SameCoreFine
  <2>5. NotYet(load, v)
    BY <1>2, <2>3 DEF NotYet
  <2>6. Ending(v)
    BY <2>2, <2>4, <2>5 DEF Ending
  <2> QED
    BY <2>1, <2>6, NotWorked
<1>3. CASE w.rc = ABORT
  <2>1. mem' = w /\ load' = Idle /\ up' = "abort"
    BY <1>3 DEF Called, ABORT
  <2>2. IsLoad(Idle)
    BY DEF IsLoad, Idle
  <2> QED
    BY <2>1, <2>2 DEF State
<1> QED
  BY <1>1, <1>2, <1>3

-----------------------------------------------------------------------------
(* The steps of a load.                                                    *)

(* A load goes on. *)
Going ==
    /\ Positive(db) /\ IsLoad(load) /\ load.query \in Queries /\ up = "load"
    /\ Snapshots(seen) /\ Fine(mem, seen) /\ Loading(db, load, seen, mem)

(* A step of a load is taken while it goes on. *)
LEMMA InLoad ==
    ASSUME State(db, load, seen, up, mem), load.query # "none" \/ load.stage # "start"
    PROVE  Going
<1>1. load.query # "none" /\ load.query \in Queries
  BY DEF State, IsLoad
<1>2. up = "load"
  BY <1>1 DEF State, Idle
<1> QED
  BY <1>1, <1>2 DEF State, Going

(* sqlite3_exec takes the lock: the query begins. *)
LEMMA DBExecStep ==
    ASSUME Going, DB_exec
    PROVE  State(db, load', seen', up', mem')
<1>1. CASE writer = "exclusive"
  <2>1. Ending(mem)
    BY DEF Going, Ending, Loading
  <2>2. QueryEnds(mem, FALSE) /\ seen' = seen
    BY <1>1 DEF DB_exec
  <2> QED
    BY <2>1, <2>2, NotWorked
<1>2. CASE writer # "exclusive"
  <2> DEFINE q == load.query
  <2>1. /\ load' = [load EXCEPT !.stage = "rows"] /\ seen' = [seen EXCEPT ![q] = db]
        /\ up' = "load" /\ mem' = mem /\ load.stage = "start"
    BY <1>2 DEF DB_exec, Going
  <2>2. /\ load'.query = q /\ load'.stage = "rows" /\ load'.row = 0
        /\ load' = [query |-> q, stage |-> "rows", row |-> 0, host |-> load.host, route |-> load.route]
        /\ load.row = 0
    BY <2>1 DEF Going, IsLoad
  <2>3. seen'[q] = db /\ \A p \in Queries \ {q} : seen'[p] = seen[p]
    BY <2>1 DEF Going, Snapshots
  <2>4. Snapshots(seen')
    BY <2>1, <2>3 DEF Going, Snapshots
  <2>5. IsLoad(load')
    BY <2>2 DEF IsLoad, Going, Queries
  <2>6. NotYet(load', mem)
    BY <2>2 DEF Going, Loading, NotYet
  <2>7. \A k \in Kinds : QueryOf[k] = q => DOMAIN mem.LOADED[k] = {}
    <3> SUFFICES ASSUME NEW k \in Kinds, QueryOf[k] = q, NEW id \in DOMAIN mem.LOADED[k]
                 PROVE  FALSE
      OBVIOUS
    <3>1. id \in DOMAIN seen[q][TableOf[k]]
      BY DEF Going, Fine, FromRows
    <3>2. id \in Nat \ {0}
      BY <3>1 DEF Going, Snapshots, Positive, Kinds, TableOf, Tables
    <3>3. id <= 0
      BY <2>2 DEF Going, Loading, NotYet, Kinds, QueryOf
    <3> QED
      BY <3>2, <3>3
  <2>8. FromRows(mem, seen')
    <3> SUFFICES ASSUME NEW k \in Kinds, NEW id \in DOMAIN mem.LOADED[k]
                 PROVE  /\ id \in DOMAIN seen'[QueryOf[k]][TableOf[k]]
                        /\ mem.LOADED[k][id] = <<k, id, mem.loads, seen'[QueryOf[k]][TableOf[k]][id].spec>>
      BY DEF FromRows
    <3>1. QueryOf[k] # q /\ QueryOf[k] \in Queries
      BY <2>7 DEF Kinds, QueryOf, Queries
    <3>2. seen'[QueryOf[k]] = seen[QueryOf[k]]
      BY <2>3, <3>1
    <3> QED
      BY <3>2 DEF Going, Fine, FromRows
  <2>9. Fine(mem, seen')
    BY <2>8 DEF Fine, Going
  <2>10. Serving(seen'["servers"], load', mem)
    <3>1. q = "servers" => mem.SERVER = NULL
      BY <2>1 DEF Going, Loading, Serving
    <3>2. q \in {"mimetypes", "settings"} => Served(seen'["servers"], mem)
      BY <2>3 DEF Going, Loading, Serving, Queries
    <3> QED
      BY <2>2, <3>1, <3>2 DEF Serving
  <2>11. TypesLoaded(seen', load', mem)
    <3>1. UpTo(DOMAIN db.mimetype, 0) = {} /\ UpTo(DOMAIN db.setting, 0) = {}
      BY AllRows DEF Going, Positive, Tables
    <3>2. TypesBuilt(db, Empty, {}) /\ SettingsBuilt(db, Empty, {})
      BY DEF TypesBuilt, SettingsBuilt, Empty
    <3>3. q = "mimetypes" => mem.MIME_MAP = Empty
      BY <2>1 DEF Going, Loading, TypesLoaded
    <3>4. q = "settings" => /\ mem.SETTINGS_MAP = Empty
                            /\ TypesBuilt(seen["mimetypes"], mem.MIME_MAP, DOMAIN seen["mimetypes"].mimetype)
      BY <2>1 DEF Going, Loading, TypesLoaded
    <3>5. q = "settings" => seen'["mimetypes"] = seen["mimetypes"]
      BY <2>3 DEF Queries
    <3> QED
      BY <2>2, <2>3, <3>1, <3>2, <3>3, <3>4, <3>5 DEF TypesLoaded
  <2>12. Loading(db, load', seen', mem)
    BY <2>2, <2>3, <2>6, <2>10, <2>11 DEF Loading, Going, Queries
  <2> QED
    BY <2>1, <2>4, <2>5, <2>9, <2>12 DEF State, Going
<1> QED
  BY <1>1, <1>2

(* The row of a target. *)
LEMMA TargetRow ==
    ASSUME Going, NEW k \in Kinds, load.query = QueryOf[k], load.stage = "rows",
           NEW i, IsNext(i, DOMAIN db[TableOf[k]], load.row),
           NEW o, o = Target(mem, k, i, db[TableOf[k]][i].spec),
           NEW v, Keeps(v, mem, {"MAX", "live", "LOADED"}), v.rc = 0,
           v.live = mem.live \cup {o}, v.LOADED = [mem.LOADED EXCEPT ![k] = Put(@, i, o)]
    PROVE  /\ Fine(v, seen) /\ IsLoad([load EXCEPT !.row = i])
           /\ Loading(db, [load EXCEPT !.row = i], seen, v)
<1> DEFINE next == [load EXCEPT !.row = i]
<1>1. /\ next.query = load.query /\ next.stage = "rows" /\ next.row = i
      /\ next = [query |-> load.query, stage |-> "rows", row |-> i, host |-> load.host, route |-> load.route]
  BY DEF Going, IsLoad
<1> HIDE DEF next
<1>2. i \in DOMAIN db[TableOf[k]] /\ i \in Nat \ {0} /\ i > load.row /\ load.row \in Nat
  BY DEF IsNext, Going, Positive, Kinds, TableOf, Tables, IsLoad
<1>3. IsLoad(next)
  BY <1>1, <1>2 DEF IsLoad, Going, Queries
<1>4. seen[QueryOf[k]] = db
  BY DEF Going, Loading
<1>5. /\ v.loads = mem.loads /\ v.SERVER = mem.SERVER /\ v.wild = mem.wild /\ Recorded(v)
      /\ v.MIME_MAP = mem.MIME_MAP /\ v.SETTINGS_MAP = mem.SETTINGS_MAP
  BY DEF Keeps, Fields
<1>6. load.query \in Early
  BY DEF Kinds, QueryOf, Early
<1>7. mem.SERVER = NULL /\ mem.MIME_MAP = Empty /\ mem.SETTINGS_MAP = Empty
  BY <1>6 DEF Going, Loading, NotYet
<1>8. i \notin DOMAIN mem.LOADED[k]
  <2>1. \A id \in DOMAIN mem.LOADED[k] : id <= load.row
    BY DEF Going, Loading, NotYet, Kinds, QueryOf
  <2> QED
    BY <1>2, <2>1
<1>9. o = <<k, i, mem.loads, seen[QueryOf[k]][TableOf[k]][i].spec>>
  BY <1>4 DEF Target
<1>10. i \in DOMAIN seen[QueryOf[k]][TableOf[k]]
  BY <1>2, <1>4
<1>11. Fine(v, seen)
  BY <1>5, <1>7, <1>8, <1>9, <1>10, LoadedFine DEF Going
<1>12. Recorded(mem)
  BY DEF Going, Fine
<1>13. /\ \A j \in Kinds \ {k} : v.LOADED[j] = mem.LOADED[j]
       /\ v.LOADED[k] = Put(mem.LOADED[k], i, o)
  BY <1>12 DEF Recorded
<1>14. \A id \in DOMAIN v.LOADED[k] : id <= i
  <2>1. \A id \in DOMAIN mem.LOADED[k] : id \in Nat /\ id <= load.row
    <3> TAKE id \in DOMAIN mem.LOADED[k]
    <3>1. id \in DOMAIN db[TableOf[k]]
      BY <1>4 DEF Going, Fine, FromRows
    <3>2. id \in Nat
      BY <3>1 DEF Going, Positive, Kinds, TableOf, Tables
    <3>3. id <= load.row
      BY DEF Going, Loading, NotYet, Kinds, QueryOf
    <3> QED
      BY <3>2, <3>3
  <2>2. \A id \in DOMAIN v.LOADED[k] : id = i \/ id \in DOMAIN mem.LOADED[k]
    BY <1>13 DEF Put
  <2> QED
    BY <1>2, <2>1, <2>2
<1>15. NotYet(next, v)
  <2>1. CASE k = "handler"
    <3>1. /\ v.LOADED["proxy"] = mem.LOADED["proxy"] /\ v.LOADED["dir"] = mem.LOADED["dir"]
          /\ load.query = "handlers"
      BY <1>13, <2>1 DEF Kinds, QueryOf
    <3>2. mem.LOADED["proxy"] = Empty /\ mem.LOADED["dir"] = Empty
      BY <3>1 DEF Going, Loading, NotYet
    <3> QED
      BY <1>1, <1>5, <1>7, <1>14, <2>1, <3>1, <3>2 DEF NotYet
  <2>2. CASE k = "proxy"
    <3>1. /\ v.LOADED["dir"] = mem.LOADED["dir"]
          /\ load.query = "proxies"
      BY <1>13, <2>2 DEF Kinds, QueryOf
    <3>2. mem.LOADED["dir"] = Empty
      BY <3>1 DEF Going, Loading, NotYet
    <3> QED
      BY <1>1, <1>5, <1>7, <1>14, <2>2, <3>1, <3>2 DEF NotYet
  <2>3. CASE k = "dir"
    <3>1. load.query = "dirs"
      BY <2>3 DEF QueryOf
    <3> QED
      BY <1>1, <1>5, <1>7, <1>14, <2>3, <3>1 DEF NotYet
  <2> QED
    BY <2>1, <2>2, <2>3 DEF Kinds
<1>16. Serving(seen["servers"], next, v) /\ TypesLoaded(seen, next, v)
  BY <1>1, <1>6 DEF Serving, TypesLoaded, Early
<1>17. Loading(db, next, seen, v)
  BY <1>1, <1>4, <1>6, <1>15, <1>16 DEF Loading, Early
<1> QED
  BY <1>3, <1>11, <1>17 DEF next

(* The rows of the three kinds of targets. *)
LEMMA HandlersStep ==
    ASSUME Going, Config_load_handlers
    PROVE  State(db, load', seen', up', mem')
<1> PICK i \in DOMAIN db.handler :
        /\ InQuery("handlers", i)
        /\ Called(Config_load_handler_cb(mem, i, db.handler[i]), [load EXCEPT !.row = i])
  BY DEF Config_load_handlers
<1> DEFINE v == Config_load_handler_cb(mem, i, db.handler[i])
           o == Target(mem, "handler", i, db.handler[i].spec)
<1>1. mem.rc = 0 /\ Recorded(mem)
  BY DEF Going, Loading, Fine
<1>2. /\ Keeps(v, mem, {"MAX", "live", "LOADED"}) /\ v.rc = 0
      /\ v.live = mem.live \cup {o} /\ v.LOADED = [mem.LOADED EXCEPT !["handler"] = Put(@, i, o)]
  BY <1>1, HandlerKeeps
<1>3. load.query = "handlers" /\ load.stage = "rows" /\ IsNext(i, DOMAIN db.handler, load.row)
  BY DEF InQuery, Rows
<1>4. Called(v, [load EXCEPT !.row = i]) /\ seen' = seen
  BY DEF Called
<1>5. QueryOf["handler"] = "handlers" /\ TableOf["handler"] = "handler" /\ "handler" \in Kinds
  BY DEF QueryOf, TableOf, Kinds
<1> HIDE DEF v
<1>6. /\ Fine(v, seen) /\ IsLoad([load EXCEPT !.row = i])
      /\ Loading(db, [load EXCEPT !.row = i], seen, v)
  BY <1>2, <1>3, <1>5, TargetRow
<1> QED
  BY <1>2, <1>4, <1>6, CalledFine DEF Going

(* Loaded without a limit. *)
LEMMA ProxiesStep ==
    ASSUME Going, Config_load_proxies
    PROVE  State(db, load', seen', up', mem')
<1> PICK i \in DOMAIN db.proxy :
        /\ InQuery("proxies", i)
        /\ Called(Config_load_proxy_cb(mem, i, db.proxy[i]), [load EXCEPT !.row = i])
  BY DEF Config_load_proxies
<1> DEFINE v == Config_load_proxy_cb(mem, i, db.proxy[i])
           o == Target(mem, "proxy", i, db.proxy[i].spec)
<1>1. mem.rc = 0 /\ Recorded(mem)
  BY DEF Going, Loading, Fine
<1>2. /\ Keeps(v, mem, {"live", "LOADED"})
      /\ v.live = mem.live \cup {o} /\ v.LOADED = [mem.LOADED EXCEPT !["proxy"] = Put(@, i, o)]
  BY <1>1, LoadedKeeps DEF Config_load_proxy_cb, Kinds
<1>3. load.query = "proxies" /\ load.stage = "rows" /\ IsNext(i, DOMAIN db.proxy, load.row)
  BY DEF InQuery, Rows
<1>4. Called(v, [load EXCEPT !.row = i]) /\ seen' = seen
  BY DEF Called
<1>5. QueryOf["proxy"] = "proxies" /\ TableOf["proxy"] = "proxy" /\ "proxy" \in Kinds
  BY DEF QueryOf, TableOf, Kinds
<1> HIDE DEF v
<1>6. Keeps(v, mem, {"MAX", "live", "LOADED"}) /\ v.rc = 0
  BY <1>1, <1>2 DEF Keeps, Fields
<1>7. /\ Fine(v, seen) /\ IsLoad([load EXCEPT !.row = i])
      /\ Loading(db, [load EXCEPT !.row = i], seen, v)
  BY <1>2, <1>3, <1>5, <1>6, TargetRow
<1> QED
  BY <1>4, <1>6, <1>7, CalledFine DEF Going

(* A directory may be refused. *)
LEMMA DirsStep ==
    ASSUME Going, Config_load_dirs
    PROVE  State(db, load', seen', up', mem')
<1> PICK i \in DOMAIN db.directory :
        /\ InQuery("dirs", i)
        /\ Called(Config_load_dir_cb(mem, i, db.directory[i]), [load EXCEPT !.row = i])
  BY DEF Config_load_dirs
<1> DEFINE v == Config_load_dir_cb(mem, i, db.directory[i])
           o == Target(mem, "dir", i, db.directory[i].spec)
<1>1. mem.rc = 0 /\ Recorded(mem)
  BY DEF Going, Loading, Fine
<1>2. \/ Keeps(v, mem, {"MAX", "rc"}) /\ v.rc = -1
      \/ /\ Keeps(v, mem, {"MAX", "live", "LOADED"}) /\ v.rc = 0
         /\ v.live = mem.live \cup {o} /\ v.LOADED = [mem.LOADED EXCEPT !["dir"] = Put(@, i, o)]
  BY <1>1, DirKeeps
<1>3. load.query = "dirs" /\ load.stage = "rows" /\ IsNext(i, DOMAIN db.directory, load.row)
  BY DEF InQuery, Rows
<1>4. Called(v, [load EXCEPT !.row = i]) /\ seen' = seen
  BY DEF Called
<1>5. QueryOf["dir"] = "dirs" /\ TableOf["dir"] = "directory" /\ "dir" \in Kinds
  BY DEF QueryOf, TableOf, Kinds
<1> HIDE DEF v
<1>6. CASE Keeps(v, mem, {"MAX", "rc"}) /\ v.rc = -1
  <2>1. SameCore(v, mem) /\ v.MIME_MAP = mem.MIME_MAP /\ v.SETTINGS_MAP = mem.SETTINGS_MAP
    BY <1>6 DEF SameCore, Keeps, Core, Fields
  <2>2. Fine(v, seen)
    BY <2>1, SameCoreFine DEF Going
  <2>3. NotYet(load, v)
    BY <2>1 DEF NotYet, SameCore, Core, Going, Loading
  <2> QED
    BY <1>4, <1>6, <2>2, <2>3, CalledFine DEF Going
<1>7. CASE /\ Keeps(v, mem, {"MAX", "live", "LOADED"}) /\ v.rc = 0
           /\ v.live = mem.live \cup {o} /\ v.LOADED = [mem.LOADED EXCEPT !["dir"] = Put(@, i, o)]
  <2>1. /\ Fine(v, seen) /\ IsLoad([load EXCEPT !.row = i])
        /\ Loading(db, [load EXCEPT !.row = i], seen, v)
    BY <1>3, <1>5, <1>7, TargetRow
  <2> QED
    BY <1>4, <1>7, <2>1, CalledFine DEF Going
<1> QED
  BY <1>2, <1>6, <1>7

(* A load that goes on elsewhere, with another position. *)
LEMMA AtLoad ==
    ASSUME Going, NEW s \in {"rows", "hosts", "routes"}, s \in {"hosts", "routes"} => load.query = "servers",
           NEW r \in Nat, NEW h \in Nat, NEW k \in Nat, NEW next,
           next = [query |-> load.query, stage |-> s, row |-> r, host |-> h, route |-> k]
    PROVE  IsLoad(next)
BY DEF Going, IsLoad, Queries

(* A position with some of its parts changed. *)
Position(ld, s, r, h, k) == [query |-> ld.query, stage |-> s, row |-> r, host |-> h, route |-> k]

(* To a server's hosts. *)
LEMMA ToHosts ==
    ASSUME NEW ld, IsLoad(ld), NEW r
    PROVE  [ld EXCEPT !.stage = "hosts", !.row = r, !.host = 0] = Position(ld, "hosts", r, 0, ld.route)
<1> DEFINE a == [ld EXCEPT !.stage = "hosts"]
           b == [a EXCEPT !.row = r]
           c == [b EXCEPT !.host = 0]
<1>1. [ld EXCEPT !.stage = "hosts", !.row = r, !.host = 0] = c
  BY DEF IsLoad
<1>2. a = Position(ld, "hosts", ld.row, ld.host, ld.route)
  BY DEF IsLoad, Position
<1> HIDE DEF a
<1>3. b = Position(ld, "hosts", r, ld.host, ld.route)
  BY <1>2 DEF Position
<1> HIDE DEF b
<1>4. c = Position(ld, "hosts", r, 0, ld.route)
  BY <1>3 DEF Position
<1> QED
  BY <1>1, <1>4 DEF a, b

(* To a host's routes. *)
LEMMA ToRoutes ==
    ASSUME NEW ld, IsLoad(ld), NEW h
    PROVE  [ld EXCEPT !.stage = "routes", !.host = h, !.route = 0] = Position(ld, "routes", ld.row, h, 0)
<1> DEFINE a == [ld EXCEPT !.stage = "routes"]
           b == [a EXCEPT !.host = h]
           c == [b EXCEPT !.route = 0]
<1>1. [ld EXCEPT !.stage = "routes", !.host = h, !.route = 0] = c
  BY DEF IsLoad
<1>2. a = Position(ld, "routes", ld.row, ld.host, ld.route)
  BY DEF IsLoad, Position
<1> HIDE DEF a
<1>3. b = Position(ld, "routes", ld.row, h, ld.route)
  BY <1>2 DEF Position
<1> HIDE DEF b
<1>4. c = Position(ld, "routes", ld.row, h, 0)
  BY <1>3 DEF Position
<1> QED
  BY <1>1, <1>4 DEF a, b

(* To another row, another route or another stage. *)
LEMMA ToNext ==
    ASSUME NEW ld, IsLoad(ld), NEW x
    PROVE  /\ [ld EXCEPT !.row = x] = Position(ld, ld.stage, x, ld.host, ld.route)
           /\ [ld EXCEPT !.route = x] = Position(ld, ld.stage, ld.row, ld.host, x)
           /\ [ld EXCEPT !.stage = x] = Position(ld, x, ld.row, ld.host, ld.route)
BY DEF IsLoad, Position

(* The servers' query has not begun what comes after it. *)
LEMMA ServersQuery ==
    ASSUME Going, load.query = "servers", load.stage # "start", NEW v,
           v.MIME_MAP = mem.MIME_MAP, v.SETTINGS_MAP = mem.SETTINGS_MAP, NEW next, next.query = "servers",
           next.stage # "start"
    PROVE  /\ NotYet(next, v) /\ TypesLoaded(seen, next, v) /\ seen["servers"] = db
           /\ v.rc = 0 /\ Serving(db, next, v) => Loading(db, next, seen, v)
<1>1. mem.MIME_MAP = Empty /\ mem.SETTINGS_MAP = Empty
  BY DEF Going, Loading, NotYet
<1>2. NotYet(next, v)
  BY <1>1 DEF NotYet, Early
<1>3. TypesLoaded(seen, next, v)
  BY DEF TypesLoaded
<1>4. seen["servers"] = db
  BY DEF Going, Loading
<1> QED
  BY <1>2, <1>3, <1>4 DEF Loading

(* The row of a server. *)
LEMMA ServerStep ==
    ASSUME Going, Config_load_server
    PROVE  State(db, load', seen', up', mem')
<1> PICK i \in DOMAIN db.server :
        /\ InQuery("servers", i)
        /\ Called(Config_load_server_cb(mem, i, db.server[i]),
                  [load EXCEPT !.stage = "hosts", !.row = i, !.host = 0])
  BY DEF Config_load_server
<1> DEFINE v == Config_load_server_cb(mem, i, db.server[i])
           next == [load EXCEPT !.stage = "hosts", !.row = i, !.host = 0]
<1>1. /\ Fine(v, seen)
      /\ \/ v.rc = -1 /\ v.SERVER = NULL /\ Keeps(v, mem, {"live", "wild", "SERVER", "rc"})
         \/ /\ v.rc = 0 /\ Keeps(v, mem, {"live", "wild", "SERVER"})
            /\ FineServer(v, v.SERVER)
            /\ v.SERVER.default_hostname = db.server[i].default_host
            /\ v.SERVER.hosts = Empty /\ v.SERVER.default_host = NULL
  BY ServerLoaded DEF Going, Loading
<1>2. /\ load.query = "servers" /\ load.stage = "rows" /\ IsNext(i, ServerRows(db), load.row)
      /\ Called(v, next)
  BY DEF InQuery, Rows
<1>3. seen' = seen
  BY DEF Called
<1>4. next = [query |-> "servers", stage |-> "hosts", row |-> i, host |-> 0, route |-> load.route]
  <2>1. IsLoad(load)
    BY DEF Going
  <2>2. next = [query |-> load.query, stage |-> "hosts", row |-> i, host |-> 0, route |-> load.route]
    BY <2>1, ToHosts DEF Position
  <2> QED
    BY <1>2, <2>2
<1> HIDE DEF v, next
<1>5. i \in Nat /\ i \in ServerRows(db)
  BY <1>2 DEF Going, Positive, Tables, IsNext
<1>6. IsLoad(next)
  BY <1>2, <1>4, <1>5, AtLoad DEF Going, IsLoad
<1>7. v.MIME_MAP = mem.MIME_MAP /\ v.SETTINGS_MAP = mem.SETTINGS_MAP
  BY <1>1 DEF Keeps, Fields
<1>8. CASE v.rc = -1
  <2>1. NotYet(load, v)
    BY <1>2, <1>7, ServersQuery
  <2> QED
    BY <1>1, <1>2, <1>3, <1>8, <2>1, CalledFine DEF Going
<1>9. CASE /\ v.rc = 0 /\ FineServer(v, v.SERVER)
           /\ v.SERVER.default_hostname = db.server[i].default_host
           /\ v.SERVER.hosts = Empty /\ v.SERVER.default_host = NULL
  <2>1. ServerBuilt(db, v.SERVER, i, {})
    BY <1>9 DEF ServerBuilt, Empty
  <2>2. UpTo(HostRows(db, i), 0) = {}
    BY AllRows DEF Going, Positive, Tables, HostRows
  <2>3. ServersBuilt(db, v, i, UpTo(HostRows(db, i), 0))
    BY <1>5, <1>9, <2>1, <2>2 DEF ServersBuilt
  <2>4. Serving(db, next, v)
    BY <1>4, <2>3 DEF Serving
  <2>5. Loading(db, next, seen, v)
    BY <1>2, <1>4, <1>7, <1>9, <2>4, ServersQuery
  <2> QED
    BY <1>1, <1>2, <1>3, <1>6, <1>9, <2>5, CalledFine DEF Going
<1> QED
  BY <1>1, <1>8, <1>9

(* The row of a host, until its routes are loaded. *)
LEMMA HostStep ==
    ASSUME Going, HostRow
    PROVE  State(db, load', seen', up', mem')
<1> PICK j \in DOMAIN db.host :
        /\ load.stage = "hosts"
        /\ IsNext(j, HostRows(db, load.row), load.host)
        /\ Called(FailsServer(Host_create(mem, j, db.host[j])),
                  [load EXCEPT !.stage = "routes", !.host = j, !.route = 0])
  BY DEF HostRow
<1> DEFINE u == Host_create(mem, j, db.host[j])
           v == FailsServer(u)
           next == [load EXCEPT !.stage = "routes", !.host = j, !.route = 0]
           rows == HostRows(db, load.row)
<1>1. /\ Fine(u, seen) /\ Keeps(u, mem, {"MAX", "live", "host", "rc"}) /\ u.rc \in {0, -1}
      /\ FineHost(u, u.host) /\ u.host.name = db.host[j].name /\ u.host.routes = Empty
      /\ \A s : FineServer(mem, s) => FineServer(u, s)
  BY HostMade DEF Going, Loading
<1>2. load.query = "servers" /\ load.stage = "hosts"
  BY DEF Going, IsLoad
<1>3. Called(v, next) /\ seen' = seen
  BY DEF Called
<1>4. next = Position(load, "routes", load.row, j, 0)
  BY ToRoutes DEF Going
<1> HIDE DEF u, v, next
<1>5. rows \subseteq Nat \ {0} /\ load.host \in Nat
  BY DEF Going, Positive, Tables, HostRows, IsLoad
<1> HIDE DEF rows
<1>6. /\ j \in rows /\ j \in Nat /\ Before(rows, j) = UpTo(rows, load.host)
  <2>1. IsNext(j, rows, load.host)
    BY DEF rows
  <2> QED
    BY <1>5, <2>1, NextRow
<1>7. IsLoad(next)
  BY <1>2, <1>4, <1>6, AtLoad DEF Going, IsLoad, Position
<1>8. Fine(v, seen) /\ v.rc = u.rc
  BY <1>1, FailsServerFine DEF v
<1>9. CASE u.rc = -1
  <2>1. v = Undone(u)
    BY <1>9 DEF v, FailsServer
  <2>2. v.MIME_MAP = mem.MIME_MAP /\ v.SETTINGS_MAP = mem.SETTINGS_MAP
    BY <1>1, <2>1, UndoneFine DEF Keeps, Fields
  <2>3. NotYet(load, v)
    BY <1>2, <2>2, ServersQuery
  <2> QED
    BY <1>3, <1>8, <1>9, <2>3, CalledFine DEF Going
<1>10. CASE u.rc = 0
  <2>1. v = u
    BY <1>10 DEF v, FailsServer
  <2>2. u.MIME_MAP = mem.MIME_MAP /\ u.SETTINGS_MAP = mem.SETTINGS_MAP /\ u.SERVER = mem.SERVER
    BY <1>1 DEF Keeps, Fields
  <2>3. seen["servers"] = db
    BY <1>2 DEF Going, Loading
  <2>4. ServersBuilt(db, mem, load.row, UpTo(rows, load.host))
    BY <1>2, <2>3 DEF Going, Loading, Serving, rows
  <2>5. ServersBuilt(db, u, load.row, Before(rows, j))
    BY <1>1, <1>6, <2>2, <2>4 DEF ServersBuilt
  <2>6. UpTo(RouteRows(db, j), 0) = {}
    BY AllRows DEF Going, Positive, Tables, RouteRows
  <2>7. HostBuilt(db, u.host, j, UpTo(RouteRows(db, j), 0))
    BY <1>1, <2>6 DEF HostBuilt, Empty
  <2>8. Serving(db, next, u)
    BY <1>1, <1>2, <1>4, <1>6, <2>5, <2>7 DEF Serving, Position, rows
  <2>9. Loading(db, next, seen, u)
    BY <1>2, <1>4, <1>10, <2>2, <2>8, ServersQuery DEF Position
  <2> QED
    BY <1>3, <1>7, <1>8, <1>10, <2>1, <2>9, CalledFine DEF Going
<1> QED
  BY <1>1, <1>9, <1>10

(* The row of a route. *)
LEMMA RouteStep ==
    ASSUME Going, RouteRow
    PROVE  State(db, load', seen', up', mem')
<1> PICK k \in DOMAIN db.route :
        /\ load.stage = "routes"
        /\ IsNext(k, RouteRows(db, load.host), load.route)
        /\ Called(FailsServer(Config_load_route_cb(mem, db.route[k])), [load EXCEPT !.route = k])
  BY DEF RouteRow
<1> DEFINE u == Config_load_route_cb(mem, db.route[k])
           v == FailsServer(u)
           next == [load EXCEPT !.route = k]
           rows == RouteRows(db, load.host)
<1>1. load.query = "servers" /\ load.stage = "routes" /\ seen["servers"] = db
  BY DEF Going, IsLoad, Loading
<1>2. /\ load.host \in HostRows(db, load.row)
      /\ ServersBuilt(db, mem, load.row, Before(HostRows(db, load.row), load.host))
      /\ HostBuilt(db, mem.host, load.host, UpTo(rows, load.route))
      /\ FineHost(mem, mem.host)
  BY <1>1 DEF Going, Loading, Serving
<1>3. /\ Fine(u, seen) /\ FineHost(u, u.host)
      /\ \A s : FineServer(mem, s) => FineServer(u, s)
      /\ \/ u.rc \in {-1, ABORT} /\ Keeps(u, mem, {"rc"})
         \/ RouteAdded(u, mem, db.route[k])
  <2>1. Fine(mem, seen) /\ mem.rc = 0
    BY DEF Going, Loading
  <2> QED
    BY <1>2, <2>1, RouteLoaded
<1>4. Called(v, next) /\ seen' = seen
  BY DEF Called
<1>5. next = Position(load, "routes", load.row, load.host, k)
  <2>1. next = Position(load, load.stage, load.row, load.host, k)
    BY ToNext DEF Going
  <2> QED
    BY <1>1, <2>1
<1> HIDE DEF u, v, next
<1>6. rows \subseteq Nat \ {0} /\ load.route \in Nat
  BY DEF Going, Positive, Tables, RouteRows, IsLoad
<1> HIDE DEF rows
<1>7. /\ k \in rows /\ k \in Nat /\ UpTo(rows, k) = UpTo(rows, load.route) \cup {k}
      /\ \A x \in UpTo(rows, load.route) : x < k
  BY <1>6, NextRow DEF rows
<1>8. IsLoad(next)
  BY <1>1, <1>5, <1>7, AtLoad DEF Going, IsLoad, Position
<1>9. Fine(v, seen) /\ v.rc = u.rc
  BY <1>3, FailsServerFine DEF v
<1>10. u.MIME_MAP = mem.MIME_MAP /\ u.SETTINGS_MAP = mem.SETTINGS_MAP /\ u.SERVER = mem.SERVER
  BY <1>3 DEF Keeps, Fields, RouteAdded
<1>11. CASE u.rc = -1
  <2>1. v = Undone(u)
    BY <1>11 DEF v, FailsServer
  <2>2. v.MIME_MAP = mem.MIME_MAP /\ v.SETTINGS_MAP = mem.SETTINGS_MAP
    BY <1>3, <1>10, <2>1, UndoneFine DEF Keeps, Fields
  <2>3. NotYet(load, v)
    BY <1>1, <2>2, ServersQuery
  <2> QED
    BY <1>4, <1>9, <1>11, <2>3, CalledFine DEF Going
<1>12. CASE u.rc = ABORT
  BY <1>4, <1>9, <1>12, CalledFine DEF Going, ABORT
<1>13. CASE u.rc = 0
  <2>1. v = u
    BY <1>13 DEF v, FailsServer
  <2>2. PICK target :
          /\ u.host.routes = Put(mem.host.routes, db.route[k].path,
                                 [type |-> db.route[k].type, target |-> target])
          /\ target[1] = db.route[k].type /\ target[2] = db.route[k].target_id
    BY <1>3, <1>13 DEF ABORT, RouteAdded
  <2>3. u.host.name = mem.host.name
    BY <1>3, <1>13 DEF ABORT, RouteAdded
  <2>4. UpTo(rows, load.route) \subseteq Nat
    BY <1>6 DEF UpTo
  <2>5. HostBuilt(db, u.host, load.host, UpTo(rows, k))
    BY <1>2, <1>7, <2>2, <2>3, <2>4, HostGrows
  <2>6. ServersBuilt(db, u, load.row, Before(HostRows(db, load.row), load.host))
    BY <1>2, <1>3, <1>10 DEF ServersBuilt
  <2>7. Serving(db, next, u)
    BY <1>1, <1>2, <1>3, <1>5, <2>5, <2>6 DEF Serving, Position, rows
  <2>8. Loading(db, next, seen, u)
    BY <1>1, <1>5, <1>10, <1>13, <2>7, ServersQuery DEF Position
  <2> QED
    BY <1>4, <1>8, <1>9, <1>13, <2>1, <2>8, CalledFine DEF Going
<1> QED
  BY <1>3, <1>11, <1>12, <1>13 DEF RouteAdded

(* The host is given to its server. *)
LEMMA HostDoneStep ==
    ASSUME Going, HostDone
    PROVE  State(db, load', seen', up', mem')
<1> DEFINE j == load.host
           v == Server_add_host(mem, db.host[j])
           next == [load EXCEPT !.stage = "hosts"]
           rows == HostRows(db, load.row)
<1>1. load.query = "servers" /\ load.stage = "routes" /\ seen["servers"] = db
  BY DEF Going, IsLoad, Loading, HostDone
<1>2. /\ j \in rows
      /\ ServersBuilt(db, mem, load.row, Before(rows, j))
      /\ HostBuilt(db, mem.host, j, UpTo(RouteRows(db, j), load.route))
      /\ FineHost(mem, mem.host)
  BY <1>1 DEF Going, Loading, Serving
<1>3. HostBuilt(db, mem.host, j, RouteRows(db, j))
  <2>1. RouteRows(db, j) \subseteq Nat \ {0} /\ NoNext(RouteRows(db, j), load.route)
    BY DEF Going, Positive, Tables, RouteRows, HostDone
  <2> QED
    BY <1>2, <2>1, AllRows
<1>4. /\ Fine(v, seen)
      /\ \/ v.rc = ABORT
         \/ /\ v.rc = 0 /\ Keeps(v, mem, {"SERVER"}) /\ FineServer(v, v.SERVER)
            /\ v.SERVER.default_hostname = mem.SERVER.default_hostname
            /\ v.SERVER.hosts = Put(mem.SERVER.hosts, db.host[j].matching, mem.host)
            /\ v.SERVER.default_host = IF mem.SERVER.default_hostname \in {NULL, mem.host.name}
                                       THEN mem.host ELSE mem.SERVER.default_host
  BY <1>2, HostAdded DEF Going, Loading, ServersBuilt
<1>5. Called(v, next) /\ seen' = seen
  BY DEF Called, HostDone
<1>6. next = Position(load, "hosts", load.row, j, load.route)
  BY ToNext DEF Going
<1> HIDE DEF v, next
<1>7. rows \subseteq Nat \ {0}
  BY DEF Going, Positive, Tables, HostRows
<1> HIDE DEF rows
<1>8. IsLoad(next)
  BY <1>1, <1>6, AtLoad DEF Going, IsLoad, Position
<1>9. CASE v.rc = ABORT
  BY <1>4, <1>5, <1>9, CalledFine DEF Going, ABORT
<1>10. CASE v.rc = 0
  <2>1. /\ Keeps(v, mem, {"SERVER"}) /\ FineServer(v, v.SERVER)
        /\ v.SERVER.default_hostname = mem.SERVER.default_hostname
        /\ v.SERVER.hosts = Put(mem.SERVER.hosts, db.host[j].matching, mem.host)
        /\ v.SERVER.default_host = IF mem.SERVER.default_hostname \in {NULL, mem.host.name}
                                   THEN mem.host ELSE mem.SERVER.default_host
    BY <1>4, <1>10 DEF ABORT
  <2>2. v.MIME_MAP = mem.MIME_MAP /\ v.SETTINGS_MAP = mem.SETTINGS_MAP
    BY <2>1 DEF Keeps, Fields
  <2>3. /\ UpTo(rows, j) = Before(rows, j) \cup {j} /\ Before(rows, j) \subseteq Nat /\ j \in Nat
        /\ \A x \in Before(rows, j) : x < j
    <3>1. j \in Nat /\ \A x \in rows : x \in Nat /\ (x <= j <=> (x < j \/ x = j))
      <4>1. j \in Nat /\ rows \subseteq Nat
        BY <1>2, <1>7
      <4> HIDE DEF j
      <4> QED
        BY <4>1
    <3> QED
      BY <1>2, <3>1 DEF UpTo, Before
  <2>4. ServerBuilt(db, mem.SERVER, load.row, Before(rows, j)) /\ load.row \in ServerRows(db)
    BY <1>2 DEF ServersBuilt
  <2>5. ServerBuilt(db, v.SERVER, load.row, UpTo(rows, j))
    BY <1>3, <2>1, <2>3, <2>4, ServerGrows
  <2>6. ServersBuilt(db, v, load.row, UpTo(rows, j))
    BY <2>1, <2>4, <2>5 DEF ServersBuilt
  <2>7. Serving(db, next, v)
    BY <1>1, <1>6, <2>6 DEF Serving, Position, rows
  <2>8. Loading(db, next, seen, v)
    BY <1>1, <1>6, <1>10, <2>2, <2>7, ServersQuery DEF Position
  <2> QED
    BY <1>4, <1>5, <1>8, <1>10, <2>8, CalledFine DEF Going
<1> QED
  BY <1>4, <1>9, <1>10

(* The server has all its hosts. *)
LEMMA ServerDoneStep ==
    ASSUME Going, ServerDone
    PROVE  State(db, load', seen', up', mem')
<1>1. /\ load.query = "servers" /\ load.stage = "hosts" /\ seen["servers"] = db
      /\ load' = [load EXCEPT !.stage = "rows"] /\ seen' = seen /\ up' = "load" /\ mem' = mem
  BY DEF Going, IsLoad, Loading, ServerDone
<1>2. load' = Position(load, "rows", load.row, load.host, load.route)
  BY <1>1, ToNext DEF Going
<1>3. IsLoad(load')
  BY <1>1, <1>2, AtLoad DEF Going, IsLoad, Position
<1>4. ServersBuilt(db, mem, load.row, UpTo(HostRows(db, load.row), load.host))
  BY <1>1 DEF Going, Loading, Serving
<1>5. UpTo(HostRows(db, load.row), load.host) = HostRows(db, load.row)
  <2>1. HostRows(db, load.row) \subseteq Nat \ {0} /\ NoNext(HostRows(db, load.row), load.host)
    BY DEF Going, Positive, Tables, HostRows, ServerDone
  <2> QED
    BY <2>1, AllRows
<1>6. Serving(db, load', mem)
  BY <1>2, <1>1, <1>4, <1>5 DEF Serving, Position
<1>7. Loading(db, load', seen, mem)
  BY <1>1, <1>2, <1>6, ServersQuery DEF Position, Going, Loading
<1> QED
  BY <1>1, <1>3, <1>7 DEF State, Going

(* The row of a MIME type. *)
LEMMA TypesStep ==
    ASSUME Going, Config_load_mimetypes
    PROVE  State(db, load', seen', up', mem')
<1> PICK i \in DOMAIN db.mimetype :
        /\ InQuery("mimetypes", i)
        /\ Called(MIME_add_type(mem, db.mimetype[i]), [load EXCEPT !.row = i])
  BY DEF Config_load_mimetypes
<1> DEFINE row == db.mimetype[i]
           v == MIME_add_type(mem, row)
           next == [load EXCEPT !.row = i]
           rows == DOMAIN db.mimetype
<1>1. /\ load.query = "mimetypes" /\ load.stage = "rows" /\ IsNext(i, rows, load.row)
  BY DEF InQuery, Rows
<1>2. seen["mimetypes"] = db /\ mem.rc = 0 /\ Recorded(mem)
  BY <1>1 DEF Going, Loading, Fine
<1>3. /\ Keeps(v, mem, {"MAX", "rc", "MIME_MAP"})
      /\ \/ v.rc = -1
         \/ /\ v.rc = 0 /\ row.ext \notin DOMAIN mem.MIME_MAP
            /\ v.MIME_MAP = Put(mem.MIME_MAP, row.ext, row.type)
  BY <1>2, TypeKeeps
<1>4. Called(v, next) /\ seen' = seen
  BY DEF Called
<1>5. next = Position(load, load.stage, i, load.host, load.route)
  BY ToNext DEF Going
<1> HIDE DEF v, next
<1>6. rows \subseteq Nat \ {0} /\ load.row \in Nat
  BY DEF Going, Positive, Tables, IsLoad
<1> HIDE DEF rows
<1>7. /\ i \in Nat /\ UpTo(rows, i) = UpTo(rows, load.row) \cup {i}
  BY <1>1, <1>6, NextRow
<1>8. IsLoad(next)
  BY <1>1, <1>5, <1>7, AtLoad DEF Going, IsLoad, Position
<1>9. SameCore(v, mem) /\ v.SERVER = mem.SERVER /\ v.SETTINGS_MAP = mem.SETTINGS_MAP
  BY <1>3 DEF SameCore, Keeps, Core, Fields
<1>10. Fine(v, seen)
  BY <1>9, SameCoreFine DEF Going
<1>11. mem.SETTINGS_MAP = Empty
  BY <1>1 DEF Going, Loading, NotYet
<1>12. CASE v.rc = -1
  <2>1. NotYet(load, v)
    BY <1>1, <1>9, <1>11 DEF NotYet, Early
  <2> QED
    BY <1>4, <1>10, <1>12, <2>1, CalledFine DEF Going
<1>13. CASE v.rc = 0
  <2>1. row.ext \notin DOMAIN mem.MIME_MAP /\ v.MIME_MAP = Put(mem.MIME_MAP, row.ext, row.type)
    BY <1>3, <1>13
  <2>2. TypesBuilt(db, mem.MIME_MAP, UpTo(rows, load.row))
    BY <1>1, <1>2 DEF Going, Loading, TypesLoaded, rows
  <2>3. TypesBuilt(db, v.MIME_MAP, UpTo(rows, i))
    BY <1>7, <2>1, <2>2, TypesGrow
  <2>4. TypesLoaded(seen, next, v)
    BY <1>1, <1>2, <1>5, <2>3 DEF TypesLoaded, Position, rows
  <2>5. NotYet(next, v)
    BY <1>1, <1>5, <1>9, <1>11 DEF NotYet, Early, Position
  <2>6. Served(seen["servers"], mem)
    BY <1>1 DEF Going, Loading, Serving
  <2>7. Served(seen["servers"], v)
    BY <1>9, <2>6, SameCoreFine DEF Served, ServersBuilt
  <2>8. Serving(seen["servers"], next, v)
    BY <1>1, <1>5, <2>7 DEF Serving, Position
  <2>9. Loading(db, next, seen, v)
    BY <1>1, <1>2, <1>5, <1>13, <2>4, <2>5, <2>8 DEF Loading, Position
  <2> QED
    BY <1>4, <1>8, <1>10, <1>13, <2>9, CalledFine DEF Going
<1> QED
  BY <1>3, <1>12, <1>13

(* The row of a setting. *)
LEMMA SettingsStep ==
    ASSUME Going, Config_load_settings
    PROVE  State(db, load', seen', up', mem')
<1> PICK i \in DOMAIN db.setting :
        /\ InQuery("settings", i)
        /\ Called(Setting_add(mem, db.setting[i]), [load EXCEPT !.row = i])
  BY DEF Config_load_settings
<1> DEFINE row == db.setting[i]
           v == Setting_add(mem, row)
           next == [load EXCEPT !.row = i]
           rows == DOMAIN db.setting
<1>1. /\ load.query = "settings" /\ load.stage = "rows" /\ IsNext(i, rows, load.row)
  BY DEF InQuery, Rows
<1>2. seen["settings"] = db /\ mem.rc = 0 /\ Recorded(mem)
  BY <1>1 DEF Going, Loading, Fine
<1>3. /\ Keeps(v, mem, {"rc", "SETTINGS_MAP"})
      /\ \/ v.rc \in {-1, ABORT}
         \/ v.rc = 0 /\ v.SETTINGS_MAP = Put(mem.SETTINGS_MAP, row.key, row.value)
  BY <1>2, SettingKeeps
<1>4. Called(v, next) /\ seen' = seen
  BY DEF Called
<1>5. next = Position(load, load.stage, i, load.host, load.route)
  BY ToNext DEF Going
<1> HIDE DEF v, next
<1>6. rows \subseteq Nat \ {0} /\ load.row \in Nat
  BY DEF Going, Positive, Tables, IsLoad
<1> HIDE DEF rows
<1>7. /\ i \in Nat /\ UpTo(rows, i) = UpTo(rows, load.row) \cup {i}
      /\ \A x \in UpTo(rows, load.row) : x < i
  <2>1. IsNext(i, rows, load.row)
    BY <1>1
  <2> QED
    BY <1>6, <2>1, NextRow
<1>8. IsLoad(next)
  BY <1>1, <1>5, <1>7, AtLoad DEF Going, IsLoad, Position
<1>9. SameCore(v, mem) /\ v.SERVER = mem.SERVER /\ v.MIME_MAP = mem.MIME_MAP
  BY <1>3 DEF SameCore, Keeps, Core, Fields
<1>10. Fine(v, seen)
  BY <1>9, SameCoreFine DEF Going
<1>11. CASE v.rc = -1
  <2>1. NotYet(load, v)
    BY <1>1 DEF NotYet, Early
  <2> QED
    BY <1>4, <1>10, <1>11, <2>1, CalledFine DEF Going
<1>12. CASE v.rc = ABORT
  BY <1>4, <1>10, <1>12, CalledFine DEF Going, ABORT
<1>13. CASE v.rc = 0
  <2>1. v.SETTINGS_MAP = Put(mem.SETTINGS_MAP, row.key, row.value)
    BY <1>3, <1>13 DEF ABORT
  <2>2. SettingsBuilt(db, mem.SETTINGS_MAP, UpTo(rows, load.row))
    BY <1>1, <1>2 DEF Going, Loading, TypesLoaded, rows
  <2>3. UpTo(rows, load.row) \subseteq Nat
    BY <1>6 DEF UpTo
  <2>4. SettingsBuilt(db, v.SETTINGS_MAP, UpTo(rows, i))
    BY <1>7, <2>1, <2>2, <2>3, SettingsGrow
  <2>5. TypesBuilt(seen["mimetypes"], mem.MIME_MAP, DOMAIN seen["mimetypes"].mimetype)
    BY <1>1 DEF Going, Loading, TypesLoaded
  <2>6. TypesLoaded(seen, next, v)
    BY <1>1, <1>2, <1>5, <1>9, <2>4, <2>5 DEF TypesLoaded, Position, rows
  <2>7. NotYet(next, v)
    BY <1>1, <1>5 DEF NotYet, Early, Position
  <2>8. Served(seen["servers"], mem)
    BY <1>1 DEF Going, Loading, Serving
  <2>9. Served(seen["servers"], v)
    BY <1>9, <2>8, SameCoreFine DEF Served, ServersBuilt
  <2>10. Serving(seen["servers"], next, v)
    BY <1>1, <1>5, <2>9 DEF Serving, Position
  <2>11. Loading(db, next, seen, v)
    BY <1>1, <1>2, <1>5, <1>13, <2>6, <2>7, <2>10 DEF Loading, Position
  <2> QED
    BY <1>4, <1>8, <1>10, <1>13, <2>11, CalledFine DEF Going
<1> QED
  BY <1>3, <1>11, <1>12, <1>13

(* The end of a query. *)
LEMMA NoMoreRowsStep ==
    ASSUME Going, NoMoreRows
    PROVE  State(db, load', seen', up', mem')
<1>1. load.stage = "rows" /\ NoNext(Rows, load.row) /\ QueryEnds(mem, TRUE) /\ seen' = seen
  BY DEF NoMoreRows
<1>2. Ending(mem)
  BY DEF Going, Ending, Loading
<1>3. seen[load.query] = db
  BY <1>1 DEF Going, Loading
<1>4. Worked(mem)
  <2>1. (load.query = "servers" /\ mem.SERVER # NULL) => Served(seen["servers"], mem)
    <3> SUFFICES ASSUME load.query = "servers", mem.SERVER # NULL
                 PROVE  Served(db, mem)
      BY <1>3
    <3>1. ServersBuilt(db, mem, load.row, HostRows(db, load.row))
      BY <1>1, <1>3 DEF Going, Loading, Serving
    <3>2. IsLast(load.row, ServerRows(db))
      BY <1>1, <3>1 DEF IsLast, NoNext, Rows, ServersBuilt
    <3> QED
      BY <3>1, <3>2 DEF Served, ServersBuilt
  <2>2. load.query \in {"mimetypes", "settings"} => Served(seen["servers"], mem)
    BY DEF Going, Loading, Serving
  <2>3. load.query = "mimetypes" =>
            TypesBuilt(seen["mimetypes"], mem.MIME_MAP, DOMAIN seen["mimetypes"].mimetype)
    <3> SUFFICES ASSUME load.query = "mimetypes"
                 PROVE  TypesBuilt(db, mem.MIME_MAP, DOMAIN db.mimetype)
      BY <1>3
    <3>1. TypesBuilt(db, mem.MIME_MAP, UpTo(DOMAIN db.mimetype, load.row))
      BY <1>1, <1>3 DEF Going, Loading, TypesLoaded
    <3>2. DOMAIN db.mimetype \subseteq Nat \ {0} /\ NoNext(DOMAIN db.mimetype, load.row)
      BY <1>1 DEF Going, Positive, Tables, Rows
    <3>3. UpTo(DOMAIN db.mimetype, load.row) = DOMAIN db.mimetype
      BY <3>2, AllRows
    <3> QED
      BY <3>1, <3>3
  <2>4. load.query = "settings" =>
            /\ TypesBuilt(seen["mimetypes"], mem.MIME_MAP, DOMAIN seen["mimetypes"].mimetype)
            /\ SettingsBuilt(seen["settings"], mem.SETTINGS_MAP, DOMAIN seen["settings"].setting)
    <3> SUFFICES ASSUME load.query = "settings"
                 PROVE  /\ TypesBuilt(seen["mimetypes"], mem.MIME_MAP, DOMAIN seen["mimetypes"].mimetype)
                        /\ SettingsBuilt(db, mem.SETTINGS_MAP, DOMAIN db.setting)
      BY <1>3
    <3>1. /\ TypesBuilt(seen["mimetypes"], mem.MIME_MAP, DOMAIN seen["mimetypes"].mimetype)
          /\ SettingsBuilt(db, mem.SETTINGS_MAP, UpTo(DOMAIN db.setting, load.row))
      BY <1>1, <1>3 DEF Going, Loading, TypesLoaded
    <3>2. DOMAIN db.setting \subseteq Nat \ {0} /\ NoNext(DOMAIN db.setting, load.row)
      BY <1>1 DEF Going, Positive, Tables, Rows
    <3>3. UpTo(DOMAIN db.setting, load.row) = DOMAIN db.setting
      BY <3>2, AllRows
    <3> QED
      BY <3>1, <3>3
  <2> QED
    BY <2>1, <2>2, <2>3, <2>4 DEF Worked
<1> QED
  BY <1>1, <1>2, <1>4, HasWorked

-----------------------------------------------------------------------------
(* The other steps of the process.                                         *)

(* taskmain begins the first load. *)
LEMMA StartStep ==
    ASSUME State(db, load, seen, up, mem), Start
    PROVE  State(db, load', seen', up', mem')
<1>1. up = "new" /\ LoadServer(mem)
  BY DEF Start
<1>2. Recorded(mem) /\ Targets(mem) /\ New(mem) /\ Positive(db)
  BY <1>1 DEF State, Fine
<1> QED
  BY <1>1, <1>2, LoadBegins

(* reload_server stops the handlers, frees the old tables and begins another load. *)
LEMMA ReloadStep ==
    ASSUME State(db, load, seen, up, mem), Reload
    PROVE  State(db, load', seen', up', mem')
<1> DEFINE v == Setting_destroy(StopAll(MIME_destroy(mem)))
<1>1. up = "run" /\ LoadServer(v)
  BY DEF Reload
<1>2. Recorded(mem) /\ Targets(mem) /\ mem.rc = 0 /\ Positive(db)
  BY <1>1 DEF State, Fine, Running
<1>3. Recorded(v) /\ Targets(v) /\ New(v)
  BY <1>2, ReloadNew
<1> HIDE DEF v
<1> QED
  BY <1>1, <1>2, <1>3, LoadBegins

(* complete_shutdown destroys everything that the last load has left. *)
LEMMA ShutdownStep ==
    ASSUME State(db, load, seen, up, mem), Shutdown
    PROVE  State(db, load', seen', up', mem')
<1> DEFINE a == StopAll(mem)
           b == MIME_destroy(a)
           c == Server_destroy(b, mem.SERVER)
           e == Setting_destroy(c)
           g == [e EXCEPT !.SERVER = NULL]
           os == {mem.SERVER.key} \cup {mem.SERVER.hosts[p].key : p \in DOMAIN mem.SERVER.hosts}
<1>1. up = "run" /\ mem' = g /\ up' = "0" /\ load' = load /\ seen' = seen
  BY DEF Shutdown
<1>2. Recorded(mem) /\ Targets(mem) /\ Running(seen, mem) /\ load = Idle
  BY <1>1 DEF State, Fine
<1>3. FineServer(mem, mem.SERVER)
  BY <1>2 DEF Running, Served, ServersBuilt
<1>4. /\ Keeps(a, mem, {"live", "wild", "LOADED"}) /\ Targets(a) /\ Bare(a)
      /\ \A o \in mem.live : o[1] \notin Kinds => o \in a.live
  BY <1>2, StopAllFine
<1> HIDE DEF a
<1>5. Keeps(b, a, {"MIME_MAP"})
  BY <1>4, MapsDestroyed DEF Keeps
<1> HIDE DEF b
<1>6. b.LOADED = a.LOADED /\ b.live = a.live /\ b.wild = a.wild /\ Recorded(b)
  BY <1>5 DEF Keeps, Fields
<1>7. Targets(b) /\ Bare(b)
  BY <1>4, <1>6 DEF Targets, InMap, Bare
<1>8. os \subseteq b.live /\ \A o \in os : o[1] \notin Kinds
  <2>1. mem.SERVER.key \in mem.live /\ mem.SERVER.key[1] = "server"
    BY <1>3 DEF FineServer, IsServer
  <2>2. \A p \in DOMAIN mem.SERVER.hosts :
            mem.SERVER.hosts[p].key \in mem.live /\ mem.SERVER.hosts[p].key[1] = "host"
    BY <1>3 DEF FineServer, FineHost, IsHost
  <2>3. os \subseteq mem.live /\ \A o \in os : o[1] \notin Kinds
    BY <2>1, <2>2 DEF Kinds
  <2> HIDE DEF os
  <2> QED
    BY <1>4, <1>6, <2>3
<1>9. c = b \/ c = Destroy(b, os)
  BY DEF Server_destroy
<1> HIDE DEF os, c
<1>10. Keeps(c, b, {"live", "wild"}) /\ Targets(c)
  <2>1. CASE c = b
    BY <1>6, <1>7, <2>1 DEF Keeps
  <2>2. CASE c = Destroy(b, os)
    <3>1. FromRows(b, seen)
      BY <1>7, BareFine
    <3> QED
      BY <1>6, <1>7, <1>8, <2>2, <3>1, DestroyFine
  <2> QED
    BY <1>9, <2>1, <2>2
<1>11. Keeps(e, c, {"SETTINGS_MAP"})
  BY <1>10, MapsDestroyed DEF Keeps
<1> HIDE DEF e
<1>12. Keeps(g, e, {"SERVER"}) /\ g.SERVER = NULL
  BY <1>11 DEF Keeps, Recorded, Fields
<1> HIDE DEF g
<1>13. Recorded(g) /\ g.LOADED = c.LOADED /\ g.live = c.live /\ g.wild = c.wild /\ c.LOADED = b.LOADED
  BY <1>10, <1>11, <1>12 DEF Keeps, Fields
<1>14. Targets(g) /\ Bare(g)
  BY <1>7, <1>10, <1>13 DEF Targets, InMap, Bare
<1>15. Fine(g, seen)
  BY <1>12, <1>13, <1>14, BareFine DEF Fine
<1> QED
  BY <1>1, <1>2, <1>15 DEF State

(* Nobody commits while a query reads. *)
Exclusive == writer = "exclusive" => load.stage = "start"

(* Every step of the process. *)
LEMMA ConfigStep ==
    ASSUME ConfigInv, ConfigNext
    PROVE  ConfigInv'
<1>1. State(db, load, seen, up, mem) /\ Exclusive
  BY DEF ConfigInv, Exclusive
<1>2. ASSUME LoadStep
      PROVE  Going
  <2>1. \/ DB_exec \/ NoMoreRows
        \/ Config_load_handlers \/ Config_load_proxies \/ Config_load_dirs
        \/ Config_load_server \/ HostRow \/ RouteRow \/ HostDone \/ ServerDone
        \/ Config_load_mimetypes \/ Config_load_settings
    BY <1>2 DEF LoadStep
  <2>2. load.query # "none" \/ load.stage # "start"
    BY <2>1 DEF DB_exec, NoMoreRows, Config_load_handlers, Config_load_proxies, Config_load_dirs,
                Config_load_server, HostRow, RouteRow, HostDone, ServerDone,
                Config_load_mimetypes, Config_load_settings, InQuery
  <2> QED
    BY <1>1, <2>2, InLoad
<1>3. State(db, load', seen', up', mem')
  <2>1. CASE LoadStep
    BY <1>2, <2>1, DBExecStep, NoMoreRowsStep, HandlersStep, ProxiesStep, DirsStep, ServerStep, HostStep,
       RouteStep, HostDoneStep, ServerDoneStep, TypesStep, SettingsStep DEF LoadStep
  <2>2. CASE Start
    BY <1>1, <2>2, StartStep
  <2>3. CASE Reload
    BY <1>1, <2>3, ReloadStep
  <2>4. CASE Shutdown
    BY <1>1, <2>4, ShutdownStep
  <2> QED
    BY <2>1, <2>2, <2>3, <2>4 DEF ConfigNext
<1>4. db' = db /\ writer' = writer
  BY DEF ConfigNext, LoadStep, DB_exec, NoMoreRows, Config_load_handlers, Config_load_proxies,
         Config_load_dirs, Config_load_server, HostRow, RouteRow, HostDone, ServerDone,
         Config_load_mimetypes, Config_load_settings, Called, Start, Reload, Shutdown, LoadServer
<1>5. writer = "exclusive" => load'.stage = "start"
  <2> SUFFICES ASSUME writer = "exclusive"
               PROVE  load'.stage = "start"
    OBVIOUS
  <2>1. load.stage = "start"
    BY <1>1 DEF Exclusive
  <2>2. CASE DB_exec
    <3>1. QueryEnds(mem, FALSE)
      BY <2>2 DEF DB_exec
    <3> QED
      BY <3>1 DEF QueryEnds, Idle
  <2>3. CASE Start \/ Reload
    BY <2>3 DEF Start, Reload, LoadServer, Idle
  <2>4. CASE Shutdown
    BY <2>1, <2>4 DEF Shutdown
  <2>5. CASE LoadStep /\ ~DB_exec
    BY <2>1, <2>5 DEF LoadStep, NoMoreRows, Config_load_handlers, Config_load_proxies, Config_load_dirs,
                Config_load_server, HostRow, RouteRow, HostDone, ServerDone,
                Config_load_mimetypes, Config_load_settings, InQuery
  <2> QED
    BY <2>2, <2>3, <2>4, <2>5 DEF ConfigNext
<1> QED
  BY <1>3, <1>4, <1>5 DEF ConfigInv

(* The first state. *)
LEMMA ConfigFirst ==
    ASSUME ConfigInit
    PROVE  ConfigInv
<1>1. db \in Databases /\ writer = "none" /\ load = Idle /\ seen = [q \in Queries |-> Unread] /\ up = "new"
  BY DEF ConfigInit
<1>2. Positive(db)
  BY <1>1, ConfigAssumption DEF IsDatabase, IsTable, Positive
<1>3. PICK asserts : mem = [Memory0 EXCEPT !.asserts = asserts]
  BY DEF ConfigInit
<1>4. /\ Recorded(mem) /\ mem.SERVER = NULL /\ mem.LOADED = [k \in Kinds |-> Empty]
      /\ mem.live = {} /\ mem.wild = {} /\ mem.rc = 0
      /\ mem.MIME_MAP = Empty /\ mem.SETTINGS_MAP = Empty
  BY <1>3 DEF Memory0, Recorded
<1>5. Bare(mem) /\ New(mem)
  BY <1>4 DEF Bare, New
<1>6. Targets(mem)
  BY <1>4, <1>5 DEF Targets, Bare, Empty
<1>7. Fine(mem, seen)
  BY <1>4, <1>5, <1>6, BareFine DEF Fine
<1>8. IsLoad(Idle)
  BY DEF IsLoad, Idle
<1>9. Snapshots(seen)
  BY <1>1 DEF Snapshots, Positive, Unread, Empty
<1> QED
  BY <1>1, <1>2, <1>5, <1>7, <1>8, <1>9 DEF ConfigInv, State

-----------------------------------------------------------------------------
(* What the invariant says of what is served and of what is alive.         *)

(* A configuration that is served is the one that its queries read, its routes lead to
   live objects, and nothing is destroyed twice. *)
LEMMA ConfigSound ==
    ASSUME ConfigInv
    PROVE  /\ ServesTheDatabase /\ SettingsFollowDatabase
           /\ RoutesLeadToLoaded /\ TargetsAccounted /\ DestroyedOnce
<1>1. Fine(mem, seen) /\ (up = "run" => Running(seen, mem))
  BY DEF ConfigInv, State
<1>2. Targets(mem) /\ FromRows(mem, seen)
  BY <1>1 DEF Fine
<1>3. DestroyedOnce
  BY <1>2 DEF Targets, DestroyedOnce
<1>4. TargetsAccounted
  <2> DEFINE Objects(k) == {mem.LOADED[k][id] : id \in DOMAIN mem.LOADED[k]}
  <2>1. ASSUME NEW o \in mem.live, o[1] \in Kinds
        PROVE  o \in UNION {Objects(k) : k \in Kinds}
    <3>1. InMap(mem, o)
      BY <1>2, <2>1 DEF Targets
    <3>2. PICK k \in Kinds : \E id \in DOMAIN mem.LOADED[k] : mem.LOADED[k][id] = o
      BY <3>1 DEF InMap
    <3>3. o \in Objects(k)
      BY <3>2
    <3> HIDE DEF Objects
    <3> QED
      BY <3>3
  <2>2. ASSUME NEW k \in Kinds, NEW o \in Objects(k)
        PROVE  o \in mem.live /\ o[1] \in Kinds
    BY <1>2 DEF Targets
  <2> HIDE DEF Objects
  <2>3. {o \in mem.live : o[1] \in Kinds} \subseteq UNION {Objects(k) : k \in Kinds}
    BY <2>1
  <2>4. UNION {Objects(k) : k \in Kinds} \subseteq {o \in mem.live : o[1] \in Kinds}
    BY <2>2
  <2>5. {o \in mem.live : o[1] \in Kinds} = UNION {Objects(k) : k \in Kinds}
    BY <2>3, <2>4
  <2> QED
    BY <2>5 DEF TargetsAccounted, Objects
<1>5. ServesTheDatabase
  <2> SUFFICES ASSUME up = "run"
               PROVE  \E i \in ServerRows(seen.servers) :
                        /\ IsLast(i, ServerRows(seen.servers))
                        /\ ServerBuilt(seen.servers, mem.SERVER, i, HostRows(seen.servers, i))
                        /\ mem.SERVER.default_host # NULL
    BY DEF ServesTheDatabase
  <2> QED
    BY <1>1 DEF Running, Served, ServersBuilt
<1>6. SettingsFollowDatabase
  BY <1>1 DEF SettingsFollowDatabase, Running
<1>7. ASSUME NEW r, Leads(mem, r)
      PROVE  RouteLeads(r)
  <2>1. r.type \in Kinds
    BY <1>7 DEF Leads
  <2>2. PICK id \in DOMAIN mem.LOADED[r.type] : mem.LOADED[r.type][id] = r.target
    BY <1>7 DEF Leads
  <2> DEFINE table == seen[QueryOf[r.type]][TableOf[r.type]]
  <2>3. id \in DOMAIN table /\ r.target = <<r.type, id, mem.loads, table[id].spec>>
    BY <1>2, <2>1, <2>2 DEF FromRows
  <2> HIDE DEF table
  <2>4. r.target[2] = id /\ r.target[3] = mem.loads /\ r.target[4] = table[id].spec
    BY <2>3
  <2>5. r.target \in mem.live
    BY <1>2, <2>1, <2>2 DEF Targets
  <2>6. r.target[2] \in DOMAIN table /\ r.target[4] = table[r.target[2]].spec
    BY <2>3, <2>4
  <2> QED
    BY <2>1, <2>2, <2>4, <2>5, <2>6 DEF RouteLeads, table
<1>8. RoutesLeadToLoaded
  <2> SUFFICES ASSUME up = "run", NEW h \in HostsOf(mem.SERVER)
               PROVE  h.key \in mem.live /\ \A p \in DOMAIN h.routes : RouteLeads(h.routes[p])
    BY DEF RoutesLeadToLoaded
  <2>1. FineServer(mem, mem.SERVER) /\ mem.SERVER.default_host # NULL
    BY <1>1 DEF Running, Served, ServersBuilt
  <2>2. FineHost(mem, h)
    BY <2>1 DEF HostsOf, FineServer
  <2> QED
    BY <1>7, <2>2 DEF FineHost
<1> QED
  BY <1>3, <1>4, <1>5, <1>6, <1>8

-----------------------------------------------------------------------------
(* The rows that m2sh inserts.                                             *)

ToolNames == {"at", "cmd", "settings", "tables", "last", "server", "host", "pair", "SERVER_ID",
              "HOST_ID", "error", "row", "sent", "report"}

OthersStay(u, t) == \A f \in ToolNames \ {"tables", "last"} : u[f] = t[f]

Grown(u, t, x, row) ==
    /\ u.tables = [t.tables EXCEPT ![x] = Put(@, t.last[x] + 1, row)]
    /\ u.last = [t.last EXCEPT ![x] = @ + 1]

(* INSERT gives the table one more row and leaves the rest of the tool alone. *)
LEMMA Inserted ==
    ASSUME NEW t, ToolFields(t), ToolRows(t), NEW x \in Tables, NEW row, NEW u, u = Insert(t, x, row)
    PROVE  ToolFields(u) /\ OthersStay(u, t) /\ Grown(u, t, x, row)
<1> DEFINE a == [t EXCEPT !.tables[x] = Put(@, t.last[x] + 1, row)]
<1>1. u = [a EXCEPT !.last[x] = @ + 1]
  BY DEF Insert, ToolFields, Tool0
<1>2. DOMAIN Tool0 = ToolNames
  BY DEF Tool0, ToolNames
<1>3. /\ ToolFields(a) /\ \A f \in ToolNames \ {"tables"} : a[f] = t[f]
      /\ a.tables = [t.tables EXCEPT ![x] = Put(@, t.last[x] + 1, row)]
  BY <1>2 DEF ToolFields, ToolNames
<1> HIDE DEF a
<1>4. /\ ToolFields(u) /\ \A f \in ToolNames \ {"last"} : u[f] = a[f]
      /\ u.last = [a.last EXCEPT ![x] = @ + 1]
  BY <1>1, <1>2, <1>3 DEF ToolFields, ToolNames
<1> QED
  BY <1>3, <1>4 DEF OthersStay, Grown, ToolNames

(* e has the rows of d, and maybe others. *)
Extends(e, d) ==
    \A x \in Tables \ {"mimetype"} :
        DOMAIN d[x] \subseteq DOMAIN e[x] /\ \A id \in DOMAIN d[x] : e[x][id] = d[x][id]

(* The tables after an INSERT. *)
LEMMA InsertedRow ==
    ASSUME NEW t, ToolFields(t), ToolRows(t), NEW x \in Tables, NEW row
    PROVE  LET u == Insert(t, x, row)
               new == t.last[x] + 1 IN
           /\ ToolRows(u) /\ Extends(u.tables, t.tables)
           /\ u.last[x] = new /\ DOMAIN u.tables[x] = DOMAIN t.tables[x] \cup {new}
           /\ u.tables[x][new] = row /\ new \notin DOMAIN t.tables[x]
           /\ \A y \in Tables \ {x} : u.last[y] = t.last[y] /\ u.tables[y] = t.tables[y]
<1> DEFINE u == Insert(t, x, row)
           new == t.last[x] + 1
<1>1. /\ u.tables = [t.tables EXCEPT ![x] = Put(@, new, row)]
      /\ u.last = [t.last EXCEPT ![x] = @ + 1]
  BY Inserted DEF Grown
<1> HIDE DEF u
<1>2. /\ DOMAIN t.tables = Tables /\ DOMAIN t.last = Tables /\ t.last[x] \in Nat
      /\ DOMAIN t.tables[x] \subseteq 1..t.last[x]
  BY DEF ToolRows
<1>3. /\ u.tables[x] = Put(t.tables[x], new, row) /\ u.last[x] = new
      /\ \A y \in Tables \ {x} : u.last[y] = t.last[y] /\ u.tables[y] = t.tables[y]
  BY <1>1, <1>2
<1>4. new \notin DOMAIN t.tables[x] /\ new \in Nat
  BY <1>2
<1>5. /\ DOMAIN u.tables[x] = DOMAIN t.tables[x] \cup {new} /\ u.tables[x][new] = row
      /\ \A id \in DOMAIN t.tables[x] : u.tables[x][id] = t.tables[x][id]
  BY <1>3, <1>4 DEF Put
<1>6. Extends(u.tables, t.tables)
  BY <1>3, <1>5 DEF Extends
<1>7. ToolRows(u)
  <2>1. u.tables = [y \in Tables |-> u.tables[y]] /\ u.last = [y \in Tables |-> u.last[y]]
    BY <1>1, <1>2
  <2>2. \A y \in Tables : u.last[y] \in Nat
    BY <1>3, <1>4 DEF ToolRows
  <2>3. x # "mimetype" => DOMAIN u.tables[x] = 1..u.last[x]
    <3>1. x # "mimetype" => DOMAIN t.tables[x] = 1..t.last[x]
      BY DEF ToolRows
    <3>2. (1..t.last[x]) \cup {new} = 1..new
      BY <1>2
    <3> QED
      BY <1>3, <1>5, <3>1, <3>2
  <2>4. DOMAIN u.tables[x] \subseteq 1..u.last[x]
    BY <1>2, <1>3, <1>5
  <2>5. \A y \in Tables \ {x, "mimetype"} : DOMAIN u.tables[y] = 1..u.last[y]
    BY <1>3 DEF ToolRows
  <2>6. DOMAIN u.tables["mimetype"] \subseteq 1..u.last["mimetype"]
    BY <1>3, <2>4 DEF ToolRows, Tables
  <2> QED
    BY <2>1, <2>2, <2>3, <2>5, <2>6 DEF ToolRows
<1> QED
  BY <1>3, <1>4, <1>5, <1>6, <1>7 DEF u

(* A host stays what it is when other rows are inserted. *)
LEMMA HostStays ==
    ASSUME NEW d, NEW e, Extends(e, d), NEW j \in DOMAIN d["host"], RouteRows(e, j) = RouteRows(d, j)
    PROVE  /\ \A s, n, m, pairs : HostOf(d, s, n, m, j, pairs) => HostOf(e, s, n, m, j, pairs)
           /\ \A s : HostFilled(d, s, j) => HostFilled(e, s, j)
           /\ \A s, n, m : Present(d, s, n, m, j) => Present(e, s, n, m, j)
<1>1. e["host"][j] = d["host"][j] /\ j \in DOMAIN e["host"]
  BY DEF Extends, Tables
<1>2. ASSUME NEW k \in RouteRows(d, j), NEW s, NEW pair, RouteOf(d, s, k, pair)
      PROVE  RouteOf(e, s, k, pair)
  <2>1. k \in DOMAIN d["route"] /\ e["route"][k] = d["route"][k]
    BY DEF RouteRows, Extends, Tables
  <2> DEFINE r == d["route"][k]
  <2>2. r.type \in Kinds /\ r.target_id \in DOMAIN d[TableOf[r.type]]
    BY <1>2 DEF RouteOf
  <2>3. TableOf[r.type] \in Tables \ {"mimetype"}
    BY <2>2 DEF Kinds, TableOf, Tables
  <2>4. /\ r.target_id \in DOMAIN e[TableOf[r.type]]
        /\ e[TableOf[r.type]][r.target_id] = d[TableOf[r.type]][r.target_id]
    BY <2>2, <2>3 DEF Extends
  <2> QED
    BY <1>2, <2>1, <2>4 DEF RouteOf
<1>3. ASSUME NEW s, NEW n, NEW m, NEW pairs, HostOf(d, s, n, m, j, pairs)
      PROVE  HostOf(e, s, n, m, j, pairs)
  BY <1>1, <1>2, <1>3 DEF HostOf
<1>4. \A s : HostFilled(d, s, j) => HostFilled(e, s, j)
  BY <1>1, <1>3 DEF HostFilled
<1>5. \A s, n, m : Present(d, s, n, m, j) => Present(e, s, n, m, j)
  BY <1>1, <1>3 DEF Present, HostRows
<1> QED
  BY <1>3, <1>4, <1>5

(* What is known of a file that was read. *)
LEMMA FileShape ==
    ASSUME NEW s, LoadedFile(s)
    PROVE  /\ IsSequence(Pairs(Settings(s))) /\ IsSequence(Pairs(Mimetypes(s)))
           /\ HasServers(s) => IsSequence(ServersOf(s))
           /\ HasServers(s) => \A n \in DOMAIN ServersOf(s) :
                ServerFits(s, ServerAt(s, n)) =>
                    /\ IsSequence(HostsAt(s, n).v)
                    /\ \A m \in DOMAIN HostsAt(s, n).v :
                        HostWalks(s, n, m) => IsSequence(RoutesAt(s, n, m).v)
BY FilesAssumption DEF LoadedFile

(* What has the shape of a sequence. *)
LEMMA SequenceShape ==
    ASSUME NEW v, IsSequence(v)
    PROVE  Len(v) \in Nat /\ DOMAIN v = 1..Len(v) /\ v = First(v, Len(v))
BY DEF IsSequence, First

(* Nothing is known of a tool that does not load and does not operate. *)
LEMMA AtRest ==
    ASSUME NEW t, ToolFields(t), t.at \in {"idle", "log"}
    PROVE  ToolInv(t)
BY DEF ToolInv, Loads, Walks

-----------------------------------------------------------------------------
(* The walks of m2sh.                                                      *)

(* What is known of a tool that loads a file. *)
LEMMA LoadsShape ==
    ASSUME NEW t, ToolInv(t), t.at \in Loads
    PROVE  /\ ToolFields(t) /\ LoadedFile(t.settings) /\ ToolLoads(t) /\ ToolRows(t)
           /\ t.server \in Nat /\ t.server = t.last["server"]
           /\ RoutesApart(t.tables) /\ ToolHosts(t) /\ ToolAt(t) /\ ToolSettings(t)
           /\ HasServers(t.settings) => ToolServers(t)
<1>1. ToolFields(t) /\ LoadedFile(t.settings) /\ ToolLoads(t)
  BY DEF ToolInv
<1>2. ToolRows(t) /\ t.server = t.last["server"]
  BY <1>1 DEF ToolLoads
<1>3. t.server \in Nat
  BY <1>2 DEF ToolRows, Tables
<1> QED
  BY <1>1, <1>2, <1>3 DEF ToolLoads

(* The rows of the servers stay. *)
LEMMA ServersKeep ==
    ASSUME NEW t, NEW u, ToolServers(t), u.settings = t.settings, u.server = t.server,
           t.server \in Nat, DOMAIN t.tables["server"] = 1..t.server, Extends(u.tables, t.tables)
    PROVE  ToolServers(u)
BY DEF ToolServers, Extends, Tables

(* So do those of the hosts that are not filled, with the routes they have. *)
LEMMA HostsKeep ==
    ASSUME NEW t, NEW u, ToolHosts(t), u.settings = t.settings, Extends(u.tables, t.tables),
           \A j \in DOMAIN t.tables["host"] : ~Filling(t, j) =>
               RouteRows(u.tables, j) = RouteRows(t.tables, j) /\ ~Filling(u, j)
    PROVE  /\ \A j \in DOMAIN t.tables["host"] : ~Filling(t, j) => HostFilled(u.tables, u.settings, j)
           /\ \A n \in 1..t.server : \A m \in DOMAIN HostsAt(t.settings, n).v :
                Due(t, n, m) => \E j \in DOMAIN u.tables["host"] :
                    ~Filling(u, j) /\ Present(u.tables, u.settings, n, m, j)
<1>1. DOMAIN t.tables["host"] \subseteq DOMAIN u.tables["host"]
  BY DEF Extends, Tables
<1>2. ASSUME NEW j \in DOMAIN t.tables["host"], ~Filling(t, j)
      PROVE  /\ HostFilled(t.tables, t.settings, j) => HostFilled(u.tables, u.settings, j)
             /\ \A n, m : Present(t.tables, t.settings, n, m, j) => Present(u.tables, u.settings, n, m, j)
  BY <1>2, HostStays
<1>3. ASSUME NEW j \in DOMAIN t.tables["host"], ~Filling(t, j)
      PROVE  HostFilled(u.tables, u.settings, j)
  BY <1>2, <1>3 DEF ToolHosts
<1>4. ASSUME NEW n \in 1..t.server, NEW m \in DOMAIN HostsAt(t.settings, n).v, Due(t, n, m)
      PROVE  \E j \in DOMAIN u.tables["host"] : ~Filling(u, j) /\ Present(u.tables, u.settings, n, m, j)
  <2>1. PICK j \in DOMAIN t.tables["host"] : ~Filling(t, j) /\ Present(t.tables, t.settings, n, m, j)
    BY <1>4 DEF ToolHosts
  <2> QED
    BY <1>1, <1>2, <2>1
<1> QED
  BY <1>3, <1>4

(* The routes stay apart when other rows are inserted. *)
LEMMA ApartKeeps ==
    ASSUME NEW d, NEW e, RoutesApart(d), Extends(e, d), e["route"] = d["route"]
    PROVE  RoutesApart(e)
<1>1. \A k \in Kinds : TableOf[k] \in Tables \ {"mimetype"}
  BY DEF Kinds, TableOf, Tables
<1>2. DOMAIN d["host"] \subseteq DOMAIN e["host"]
  BY DEF Extends, Tables
<1> QED
  BY <1>1, <1>2 DEF RoutesApart, Extends

(* Whatever else is inserted when no host is filled, the servers, hosts and routes stay. *)
LEMMA OtherRows ==
    ASSUME NEW t, NEW u, ToolInv(t), t.at \in Loads \ {"hosts", "routes"}, u.at \notin {"hosts", "routes"},
           u.settings = t.settings, u.server = t.server, Extends(u.tables, t.tables),
           u.tables["route"] = t.tables["route"], u.tables["host"] = t.tables["host"]
    PROVE  /\ HasServers(t.settings) => ToolServers(u)
           /\ ToolHosts(u) /\ RoutesApart(u.tables) /\ ToolAt(u)
<1>1. /\ ToolRows(t) /\ t.server \in Nat /\ t.server = t.last["server"] /\ RoutesApart(t.tables)
      /\ ToolHosts(t) /\ (HasServers(t.settings) => ToolServers(t))
  BY LoadsShape
<1>2. DOMAIN t.tables["server"] = 1..t.server
  BY <1>1 DEF ToolRows, Tables
<1>3. HasServers(t.settings) => ToolServers(u)
  BY <1>1, <1>2, ServersKeep
<1>4. RoutesApart(u.tables)
  BY <1>1, ApartKeeps
<1>5. \A j : ~Filling(t, j) /\ ~Filling(u, j) /\ RouteRows(u.tables, j) = RouteRows(t.tables, j)
  BY DEF Filling, RouteRows
<1>6. \A n, m : Due(u, n, m) => Due(t, n, m)
  BY DEF Due
<1>7. /\ \A j \in DOMAIN t.tables["host"] : HostFilled(u.tables, u.settings, j)
      /\ \A n \in 1..t.server : \A m \in DOMAIN HostsAt(t.settings, n).v :
           Due(t, n, m) => \E j \in DOMAIN u.tables["host"] :
               ~Filling(u, j) /\ Present(u.tables, u.settings, n, m, j)
  BY <1>1, <1>5, HostsKeep
<1>8. ToolHosts(u)
  BY <1>1, <1>6, <1>7 DEF ToolHosts
<1> QED
  BY <1>3, <1>4, <1>8 DEF ToolAt

(* The tool is at rest after these. *)
LEMMA Rests ==
    ASSUME Rollback \/ Committed \/ log_action
    PROVE  ToolInv(tool') /\ tool'.at \in {"idle", "log"} /\ tool'.report = NULL
<1>1. tool' = Tool0 \/ tool' = [Tool0 EXCEPT !.at = "log", !.cmd = tool.cmd]
  BY DEF Rollback, Committed, log_action
<1>2. DOMAIN Tool0 = ToolNames /\ Tool0.at = "idle" /\ Tool0.report = NULL /\ ToolFields(Tool0)
  BY DEF Tool0, ToolNames, ToolFields
<1>3. ToolFields(tool') /\ tool'.at \in {"idle", "log"} /\ tool'.report = NULL
  BY <1>1, <1>2 DEF ToolFields, ToolNames
<1> QED
  BY <1>3, AtRest

(* The tables are new. *)
LEMMA SetupStep ==
    ASSUME ToolInv(tool), Config_setup
    PROVE  ToolInv(tool') /\ tool'.at = "servers" /\ tool'.report = tool.report
<1>1. ToolFields(tool) /\ LoadedFile(tool.settings) /\ tool.server = 0 /\ ~tool.error /\ DOMAIN Tool0 = ToolNames
  BY DEF ToolInv, Config_setup, Tool0, ToolNames
<1>2. /\ ToolFields(tool') /\ tool'.at = "servers" /\ tool'.settings = tool.settings
      /\ tool'.tables = [x \in Tables |-> Empty] /\ tool'.last = [x \in Tables |-> 0]
      /\ tool'.server = 0 /\ ~tool'.error /\ tool'.report = tool.report
  BY <1>1 DEF Config_setup, ToolFields, ToolNames
<1>3. \A x \in Tables : tool'.tables[x] = Empty /\ tool'.last[x] = 0
  BY <1>2
<1>4. DOMAIN Empty = {}
  BY DEF Empty
<1>5. ToolRows(tool')
  BY <1>2, <1>3, <1>4 DEF ToolRows, Tables
<1>6. HasServers(tool'.settings) => ToolServers(tool')
  BY <1>1, <1>2, FileShape DEF ToolServers, IsSequence
<1>7. ToolHosts(tool') /\ RoutesApart(tool'.tables)
  BY <1>2, <1>3, <1>4 DEF ToolHosts, RoutesApart, Tables
<1>8. ToolAt(tool') /\ ToolSettings(tool')
  BY <1>2, <1>3 DEF ToolAt, ToolSettings, Walks, Tables
<1>9. ToolLoads(tool')
  BY <1>2, <1>3, <1>5, <1>6, <1>7, <1>8 DEF ToolLoads, Tables
<1> QED
  BY <1>1, <1>2, <1>9 DEF ToolInv

(* A server is loaded, and its hosts are walked. *)
LEMMA ServerLoadStep ==
    ASSUME ToolInv(tool), Server_load, ServerFits(tool.settings, ServerAt(tool.settings, tool.server + 1))
    PROVE  ToolInv(tool') /\ tool'.at = "hosts" /\ tool'.report = tool.report
<1> DEFINE s == tool.settings
           n == tool.server + 1
           r == ServerRow(s, ServerAt(s, n).params)
           t == Insert(tool, "server", r)
<1>1. tool.at = "servers" /\ HasServers(s) /\ tool.server < Len(ServersOf(s))
  BY DEF Server_load, Walking
<1>2. tool' = [t EXCEPT !.at = "hosts", !.server = @ + 1, !.host = 0, !.SERVER_ID = t.last["server"]]
  BY DEF Server_load, Works
<1>3. /\ ToolFields(tool) /\ LoadedFile(s) /\ ToolRows(tool) /\ tool.server \in Nat
      /\ tool.server = tool.last["server"] /\ RoutesApart(tool.tables) /\ ToolHosts(tool)
      /\ ToolSettings(tool) /\ ToolServers(tool)
  BY <1>1, LoadsShape DEF Loads, Walks
<1>4. "server" \in Tables
  BY DEF Tables
<1> HIDE DEF r
<1>5. t = Insert(tool, "server", r)
  OBVIOUS
<1>6. /\ ToolRows(t) /\ Extends(t.tables, tool.tables) /\ t.last["server"] = n
      /\ t.tables["server"][n] = r
      /\ \A y \in Tables \ {"server"} : t.last[y] = tool.last[y] /\ t.tables[y] = tool.tables[y]
  BY <1>3, <1>4, InsertedRow
<1> HIDE DEF t
<1>7. ToolFields(t) /\ OthersStay(t, tool)
  BY <1>3, <1>4, <1>5, Inserted
<1>8. /\ ToolFields(tool') /\ tool'.at = "hosts" /\ tool'.server = n /\ tool'.host = 0 /\ tool'.SERVER_ID = n
      /\ tool'.settings = s /\ tool'.tables = t.tables /\ tool'.last = t.last
      /\ tool'.error = tool.error /\ tool'.report = tool.report
  <2>1. DOMAIN Tool0 = ToolNames
    BY DEF Tool0, ToolNames
  <2> QED
    BY <1>2, <1>7, <1>6, <2>1 DEF OthersStay, ToolFields, ToolNames
<1>9. ToolRows(tool')
  BY <1>6, <1>8 DEF ToolRows
<1>10. DOMAIN tool.tables["server"] = 1..tool.server
  BY <1>3 DEF ToolRows, Tables
<1>11. IsSequence(ServersOf(s)) /\ IsSequence(HostsAt(s, n).v)
  BY <1>1, <1>3, FileShape, SequenceShape
<1>12. ToolServers(tool')
  <2>1. tool'.server <= Len(ServersOf(s))
    BY <1>1, <1>3, <1>8, <1>11 DEF IsSequence
  <2>2. ASSUME NEW x \in 1..tool.server
        PROVE  ServerFits(s, ServerAt(s, x)) /\ t.tables["server"][x] = ServerRow(s, ServerAt(s, x).params)
    BY <1>3, <1>4, <1>6, <1>10 DEF ToolServers, Extends
  <2> QED
    BY <1>3, <1>6, <1>8, <2>1, <2>2 DEF ToolServers, r
<1>13. ToolHosts(tool')
  <2>1. \A j : ~Filling(tool, j) /\ ~Filling(tool', j) /\ RouteRows(tool'.tables, j) = RouteRows(tool.tables, j)
    BY <1>1, <1>6, <1>8 DEF Filling, RouteRows, Tables
  <2>2. /\ \A j \in DOMAIN tool.tables["host"] : HostFilled(tool'.tables, s, j)
        /\ \A x \in 1..tool.server : \A m \in DOMAIN HostsAt(s, x).v :
             Due(tool, x, m) => \E j \in DOMAIN tool'.tables["host"] :
                 ~Filling(tool', j) /\ Present(tool'.tables, s, x, m, j)
    BY <1>3, <1>6, <1>8, <2>1, HostsKeep
  <2>3. ASSUME NEW x \in 1..n, NEW m \in DOMAIN HostsAt(s, x).v, Due(tool', x, m)
        PROVE  x \in 1..tool.server /\ Due(tool, x, m)
    <3>1. x # n
      <4> SUFFICES ASSUME x = n
                   PROVE  FALSE
        OBVIOUS
      <4>1. m \in 1..Len(HostsAt(s, n).v) /\ Len(HostsAt(s, n).v) \in Nat
        BY <1>11, <2>3, SequenceShape
      <4> QED
        BY <1>8, <2>3, <4>1 DEF Due
    <3> QED
      BY <1>1, <1>3, <1>8, <2>3, <3>1 DEF Due
  <2>4. tool'.tables["host"] = tool.tables["host"]
    BY <1>6, <1>8 DEF Tables
  <2>5. \A j \in DOMAIN tool.tables["host"] : tool.tables["host"][j].server_id \in 1..n
    BY <1>3 DEF ToolHosts
  <2> QED
    BY <1>8, <2>2, <2>3, <2>4, <2>5 DEF ToolHosts
<1>14. RoutesApart(tool'.tables)
  BY <1>3, <1>6, <1>8, ApartKeeps DEF Tables
<1>15. ToolAt(tool')
  <2>1. Len(HostsAt(s, n).v) \in Nat
    BY <1>11 DEF IsSequence
  <2> QED
    BY <1>3, <1>8, <2>1 DEF ToolAt
<1>16. ToolSettings(tool')
  BY <1>1, <1>3, <1>6, <1>8 DEF ToolSettings, Walks, Loads, Tables
<1>17. ToolLoads(tool')
  BY <1>1, <1>6, <1>8, <1>9, <1>12, <1>13, <1>14, <1>15, <1>16 DEF ToolLoads
<1> QED
  BY <1>3, <1>8, <1>17 DEF ToolInv, Loads, Walks

(* The walk of the hosts ends: there is none any more, or one has failed. *)
LEMMA HostsEnd ==
    ASSUME ToolInv(tool), tool.at = "hosts", Works(At(tool, "servers")),
           tool.host < Len(HostsAt(tool.settings, tool.server).v) =>
               ~HostWalks(tool.settings, tool.server, tool.host + 1)
    PROVE  ToolInv(tool') /\ tool'.at = "servers" /\ tool'.report = tool.report
<1> DEFINE s == tool.settings
<1>1. /\ ToolFields(tool) /\ LoadedFile(s) /\ ToolLoads(tool) /\ ToolRows(tool) /\ tool.server \in Nat
      /\ tool.server = tool.last["server"] /\ RoutesApart(tool.tables) /\ ToolHosts(tool) /\ ToolAt(tool)
      /\ ToolSettings(tool) /\ (HasServers(s) => ToolServers(tool))
  BY LoadsShape DEF Loads, Walks
<1>2. HasServers(s)
  BY <1>1 DEF ToolLoads
<1>3. /\ ToolFields(tool') /\ tool'.at = "servers"
      /\ \A f \in ToolNames \ {"at"} : tool'[f] = tool[f]
  <2>1. DOMAIN Tool0 = ToolNames
    BY DEF Tool0, ToolNames
  <2> QED
    BY <1>1, <2>1 DEF Works, At, ToolFields, ToolNames
<1>4. /\ tool'.settings = s /\ tool'.tables = tool.tables /\ tool'.last = tool.last
      /\ tool'.server = tool.server /\ tool'.error = tool.error /\ tool'.report = tool.report
  BY <1>3 DEF ToolNames
<1>5. ToolRows(tool') /\ ToolServers(tool')
  BY <1>1, <1>2, <1>4 DEF ToolRows, ToolServers
<1>6. Extends(tool'.tables, tool.tables)
  BY <1>4 DEF Extends
<1>7. ToolHosts(tool')
  <2>1. \A j : ~Filling(tool, j) /\ ~Filling(tool', j) /\ RouteRows(tool'.tables, j) = RouteRows(tool.tables, j)
    BY <1>3, <1>4 DEF Filling
  <2>2. /\ \A j \in DOMAIN tool.tables["host"] : HostFilled(tool'.tables, s, j)
        /\ \A x \in 1..tool.server : \A m \in DOMAIN HostsAt(s, x).v :
             Due(tool, x, m) => \E j \in DOMAIN tool'.tables["host"] :
                 ~Filling(tool', j) /\ Present(tool'.tables, s, x, m, j)
    BY <1>1, <1>4, <1>6, <2>1, HostsKeep
  <2>3. ASSUME NEW x \in 1..tool.server, NEW m \in DOMAIN HostsAt(s, x).v, Due(tool', x, m)
        PROVE  Due(tool, x, m)
    <3>1. \A y \in 1..m : HostWalks(s, x, y)
      BY <1>4, <2>3 DEF Due
    <3>2. ~(x = tool.server /\ m > tool.host)
      <4> SUFFICES ASSUME x = tool.server, m > tool.host
                   PROVE  FALSE
        OBVIOUS
      <4>1. IsSequence(HostsAt(s, x).v)
        <5>1. IsSequence(ServersOf(s))
          BY <1>1, <1>2, FileShape
        <5>2. ServerFits(s, ServerAt(s, x)) /\ x \in DOMAIN ServersOf(s)
          BY <1>1, <1>2, <5>1, SequenceShape DEF ToolServers
        <5> QED
          BY <1>1, <1>2, <5>2, FileShape
      <4>2. m \in 1..Len(HostsAt(s, x).v) /\ Len(HostsAt(s, x).v) \in Nat
        BY <2>3, <4>1, SequenceShape
      <4>3. tool.host \in 0..Len(HostsAt(s, x).v)
        BY <1>1 DEF ToolAt
      <4>4. tool.host + 1 \in 1..m /\ tool.host < Len(HostsAt(s, x).v)
        BY <4>2, <4>3
      <4> QED
        BY <3>1, <4>4
    <3> QED
      BY <3>1, <3>2 DEF Due
  <2>4. \A j \in DOMAIN tool.tables["host"] : tool.tables["host"][j].server_id \in 1..tool.server
    BY <1>1 DEF ToolHosts
  <2> QED
    BY <1>4, <2>2, <2>3, <2>4 DEF ToolHosts
<1>8. ToolAt(tool')
  BY <1>3 DEF ToolAt
<1>9. ToolSettings(tool')
  BY <1>1, <1>3, <1>4 DEF ToolSettings, Walks, Loads
<1>10. ToolLoads(tool')
  BY <1>1, <1>2, <1>4, <1>5, <1>7, <1>8, <1>9 DEF ToolLoads
<1> QED
  BY <1>1, <1>3, <1>4, <1>10 DEF ToolInv, Loads, Walks

(* The hosts of a server that is loaded, and the routes of a host of it, are sequences. *)
LEMMA HostsShape ==
    ASSUME NEW t, LoadedFile(t.settings), HasServers(t.settings), ToolServers(t), t.server \in Nat,
           NEW n \in 1..t.server
    PROVE  /\ IsSequence(HostsAt(t.settings, n).v)
           /\ DOMAIN HostsAt(t.settings, n).v = 1..Len(HostsAt(t.settings, n).v)
           /\ Len(HostsAt(t.settings, n).v) \in Nat
           /\ \A m \in DOMAIN HostsAt(t.settings, n).v :
                HostWalks(t.settings, n, m) => IsSequence(RoutesAt(t.settings, n, m).v)
<1>1. IsSequence(ServersOf(t.settings))
  BY FileShape
<1>2. ServerFits(t.settings, ServerAt(t.settings, n)) /\ n \in DOMAIN ServersOf(t.settings)
  BY <1>1, SequenceShape DEF ToolServers
<1>3. /\ IsSequence(HostsAt(t.settings, n).v)
      /\ \A m \in DOMAIN HostsAt(t.settings, n).v :
           HostWalks(t.settings, n, m) => IsSequence(RoutesAt(t.settings, n, m).v)
  BY <1>2, FileShape
<1> QED
  BY <1>3, SequenceShape

(* The row of a host is inserted: it has no routes yet. *)
LEMMA HostInserted ==
    ASSUME NEW t, ToolInv(t), t.at = "hosts", NEW m, m = t.host + 1,
           HostFits(t.settings, HostAt(t.settings, t.server, m)),
           NEW name, name = AST_str(t.settings, HostAt(t.settings, t.server, m).params, "name", "QSTRING"),
           NEW u, u = Insert(t, "host", [server_id |-> t.SERVER_ID, name |-> name, matching |-> name])
    PROVE  /\ ToolFields(u) /\ OthersStay(u, t) /\ ToolRows(u) /\ Extends(u.tables, t.tables)
           /\ u.last["host"] = t.last["host"] + 1 /\ u.last["host"] \notin DOMAIN t.tables["host"]
           /\ DOMAIN u.tables["host"] = DOMAIN t.tables["host"] \cup {u.last["host"]}
           /\ u.tables["host"][u.last["host"]].server_id = t.server
           /\ \A y \in Tables \ {"host"} : u.last[y] = t.last[y] /\ u.tables[y] = t.tables[y]
           /\ RoutesApart(u.tables)
           /\ \A pairs : DOMAIN pairs = {} =>
                HostOf(u.tables, t.settings, t.server, m, u.last["host"], pairs)
<1>1. ToolFields(t) /\ ToolRows(t) /\ RoutesApart(t.tables) /\ ToolAt(t)
  BY LoadsShape DEF Loads, Walks
<1>2. "host" \in Tables
  BY DEF Tables
<1> DEFINE row == [server_id |-> t.SERVER_ID, name |-> name, matching |-> name]
           new == u.last["host"]
<1>3. row = [server_id |-> t.server, name |-> name, matching |-> name]
  BY <1>1 DEF ToolAt
<1>4. u = Insert(t, "host", row)
  OBVIOUS
<1> HIDE DEF row
<1>5. ToolFields(u) /\ OthersStay(u, t)
  BY <1>1, <1>2, <1>4, Inserted
<1>6. /\ ToolRows(u) /\ Extends(u.tables, t.tables) /\ u.last["host"] = t.last["host"] + 1
      /\ DOMAIN u.tables["host"] = DOMAIN t.tables["host"] \cup {u.last["host"]}
      /\ u.tables["host"][u.last["host"]] = row /\ u.last["host"] \notin DOMAIN t.tables["host"]
      /\ \A y \in Tables \ {"host"} : u.last[y] = t.last[y] /\ u.tables[y] = t.tables[y]
  BY <1>1, <1>2, <1>4, InsertedRow
<1>7. u.tables["route"] = t.tables["route"]
  BY <1>6 DEF Tables
<1>8. RoutesApart(u.tables)
  BY <1>1, <1>6, <1>7, ApartKeeps
<1>9. RouteRows(u.tables, new) = {}
  <2>1. \A k \in DOMAIN t.tables["route"] : t.tables["route"][k].host_id \in DOMAIN t.tables["host"]
    BY <1>1 DEF RoutesApart
  <2>2. \A k \in DOMAIN t.tables["route"] : t.tables["route"][k].host_id # new
    BY <1>6, <2>1
  <2> HIDE DEF new
  <2> QED
    BY <1>7, <2>2 DEF RouteRows
<1>10. ASSUME NEW pairs, DOMAIN pairs = {}
       PROVE  HostOf(u.tables, t.settings, t.server, m, new, pairs)
  BY <1>3, <1>6, <1>9, <1>10 DEF HostOf
<1>11. u.tables["host"][u.last["host"]].server_id = t.server
  <2>1. row.server_id = t.server
    BY <1>3
  <2> QED
    BY <1>6, <2>1
<1> QED
  BY <1>5, <1>6, <1>8, <1>10, <1>11

(* A host is loaded, and its routes are walked, or it ends the walk for it has none. *)
LEMMA HostLoadStep ==
    ASSUME ToolInv(tool), Host_load, HostFits(tool.settings, HostAt(tool.settings, tool.server, tool.host + 1))
    PROVE  ToolInv(tool') /\ tool'.at \in Walks /\ tool'.report = tool.report
<1> DEFINE s == tool.settings
           n == tool.server
           m == tool.host + 1
           name == AST_str(s, HostAt(s, n, m).params, "name", "QSTRING")
           routed == RoutesAt(s, n, m) # NULL
           t == Insert(tool, "host", [server_id |-> tool.SERVER_ID, name |-> name, matching |-> name])
           new == t.last["host"]
<1>1. tool.at = "hosts" /\ tool.host < Len(HostsAt(s, n).v)
  BY DEF Host_load
<1>2. tool' = [t EXCEPT !.at = IF routed THEN "routes" ELSE "servers", !.host = @ + 1, !.pair = 0,
                        !.HOST_ID = t.last["host"]]
  BY DEF Host_load, Works, RoutesAt
<1>3. /\ ToolFields(tool) /\ LoadedFile(s) /\ ToolLoads(tool) /\ ToolRows(tool) /\ n \in Nat
      /\ n = tool.last["server"] /\ ToolHosts(tool) /\ ToolAt(tool)
      /\ ToolSettings(tool) /\ (HasServers(s) => ToolServers(tool))
  BY <1>1, LoadsShape DEF Loads, Walks
<1>4. HasServers(s) /\ ToolServers(tool)
  BY <1>1, <1>3 DEF ToolLoads
<1>5. /\ ToolFields(t) /\ OthersStay(t, tool) /\ ToolRows(t) /\ Extends(t.tables, tool.tables)
      /\ new = tool.last["host"] + 1 /\ new \notin DOMAIN tool.tables["host"]
      /\ DOMAIN t.tables["host"] = DOMAIN tool.tables["host"] \cup {new}
      /\ t.tables["host"][new].server_id = n
      /\ \A y \in Tables \ {"host"} : t.last[y] = tool.last[y] /\ t.tables[y] = tool.tables[y]
      /\ RoutesApart(t.tables)
      /\ \A pairs : DOMAIN pairs = {} => HostOf(t.tables, s, n, m, new, pairs)
  BY <1>1, HostInserted
<1> HIDE DEF t
<1>6. /\ ToolFields(tool') /\ tool'.at = (IF routed THEN "routes" ELSE "servers")
      /\ tool'.host = m /\ tool'.pair = 0 /\ tool'.HOST_ID = new
      /\ tool'.settings = s /\ tool'.tables = t.tables /\ tool'.last = t.last /\ tool'.server = n
      /\ tool'.error = tool.error /\ tool'.report = tool.report /\ tool'.SERVER_ID = tool.SERVER_ID
  <2>1. DOMAIN Tool0 = ToolNames
    BY DEF Tool0, ToolNames
  <2>2. t.host = tool.host
    BY <1>5 DEF OthersStay, ToolNames
  <2> QED
    BY <1>2, <1>5, <2>1, <2>2 DEF ToolFields, ToolNames, OthersStay
<1>7. ToolRows(tool')
  BY <1>5, <1>6 DEF ToolRows
<1>8. DOMAIN tool.tables["server"] = 1..n /\ n = t.last["server"]
  BY <1>3, <1>5 DEF ToolRows, Tables
<1>9. ToolServers(tool')
  BY <1>3, <1>4, <1>5, <1>6, <1>8, ServersKeep
<1>10. /\ n \in 1..n /\ tool.host \in 0..Len(HostsAt(s, n).v) /\ tool.SERVER_ID = n
       /\ \A x \in 1..tool.host : HostWalks(s, n, x)
  BY <1>1, <1>3 DEF ToolAt
<1>11. /\ DOMAIN HostsAt(s, n).v = 1..Len(HostsAt(s, n).v) /\ Len(HostsAt(s, n).v) \in Nat
       /\ \A x \in DOMAIN HostsAt(s, n).v : HostWalks(s, n, x) => IsSequence(RoutesAt(s, n, x).v)
  BY <1>3, <1>4, <1>10, HostsShape
<1>12. m \in DOMAIN HostsAt(s, n).v
  BY <1>1, <1>10, <1>11
<1>13. HostWalks(s, n, m) <=> routed
  BY DEF HostWalks
<1>14. ToolHosts(tool')
  <2>1. \A j : ~Filling(tool, j) /\ RouteRows(tool'.tables, j) = RouteRows(tool.tables, j)
    BY <1>1, <1>5, <1>6 DEF Filling, RouteRows, Tables
  <2>2. \A j \in DOMAIN tool.tables["host"] : ~Filling(tool', j)
    BY <1>5, <1>6 DEF Filling
  <2>3. /\ \A j \in DOMAIN tool.tables["host"] : HostFilled(tool'.tables, s, j)
        /\ \A x \in 1..n : \A y \in DOMAIN HostsAt(s, x).v :
             Due(tool, x, y) => \E j \in DOMAIN tool'.tables["host"] :
                 ~Filling(tool', j) /\ Present(tool'.tables, s, x, y, j)
    <3>1. \A j \in DOMAIN tool.tables["host"] : ~Filling(tool, j) =>
             RouteRows(tool'.tables, j) = RouteRows(tool.tables, j) /\ ~Filling(tool', j)
      BY <2>1, <2>2
    <3>2. tool'.settings = tool.settings /\ Extends(tool'.tables, tool.tables)
      BY <1>5, <1>6
    <3>3. ToolHosts(tool)
      BY <1>3
    <3> HIDE DEF s, n
    <3>4. /\ \A j \in DOMAIN tool.tables["host"] : ~Filling(tool, j) => HostFilled(tool'.tables, tool'.settings, j)
          /\ \A x \in 1..tool.server : \A y \in DOMAIN HostsAt(tool.settings, x).v :
               Due(tool, x, y) => \E j \in DOMAIN tool'.tables["host"] :
                   ~Filling(tool', j) /\ Present(tool'.tables, tool'.settings, x, y, j)
      BY <3>1, <3>2, <3>3, HostsKeep
    <3> QED
      BY <2>1, <3>2, <3>4 DEF s, n
  <2>4. ASSUME NEW x \in 1..n, NEW y \in DOMAIN HostsAt(s, x).v, Due(tool', x, y)
        PROVE  Due(tool, x, y)
    <3>1. \A z \in 1..y : HostWalks(s, x, z)
      BY <1>6, <2>4 DEF Due
    <3>2. ~(x = n /\ y > tool.host)
      <4> SUFFICES ASSUME x = n, y > tool.host
                   PROVE  FALSE
        OBVIOUS
      <4>1. m \in 1..y
        BY <1>10, <1>11, <2>4
      <4>2. routed
        BY <1>13, <3>1, <4>1
      <4> QED
        BY <1>6, <2>4, <4>1, <4>2 DEF Due
    <3> QED
      BY <1>1, <3>1, <3>2 DEF Due
  <2>5. ~Filling(tool', new) => HostFilled(tool'.tables, s, new)
    <3> SUFFICES ASSUME ~Filling(tool', new)
                 PROVE  HostFilled(t.tables, s, new)
      BY <1>6
    <3>1. RoutesAt(s, n, m) = NULL
      BY <1>6 DEF Filling
    <3>2. DOMAIN Pairs(RoutesAt(s, n, m)) = {}
      BY <3>1 DEF Pairs
    <3> HIDE DEF m
    <3> QED
      BY <1>5, <1>12, <3>2 DEF HostFilled
  <2>6. \A j \in DOMAIN tool.tables["host"] : tool'.tables["host"][j].server_id \in 1..n
    BY <1>3, <1>5, <1>6 DEF ToolHosts, Extends, Tables
  <2>7. \A j \in DOMAIN tool'.tables["host"] : j \in DOMAIN tool.tables["host"] \/ j = new
    BY <1>5, <1>6
  <2>8. tool'.tables["host"][new].server_id \in 1..n
    BY <1>5, <1>6, <1>10
  <2> QED
    BY <1>6, <2>3, <2>4, <2>5, <2>6, <2>7, <2>8 DEF ToolHosts
<1>15. ToolAt(tool')
  <2>1. tool'.at \in {"hosts", "routes"} => \A x \in 1..m : HostWalks(s, n, x)
    BY <1>6, <1>10, <1>13
  <2>2. m \in 0..Len(HostsAt(s, n).v) /\ m >= 1
    BY <1>1, <1>10, <1>11
  <2>3. new \in Nat /\ new >= 1
    <3>1. tool.last["host"] \in Nat
      BY <1>3 DEF ToolRows, Tables
    <3> QED
      BY <1>5, <3>1
  <2>4. routed => Len(RoutesAt(s, n, m).v) \in Nat
    BY <1>11, <1>12, <1>13 DEF IsSequence
  <2>5. DOMAIN First(RoutesAt(s, n, m).v, 0) = {}
    BY DEF First
  <2>6. HostOf(t.tables, s, n, m, new, First(RoutesAt(s, n, m).v, 0))
    BY <1>5, <2>5
  <2> HIDE DEF m, new
  <2>7. n >= 1
    BY <1>3, <1>10
  <2>8. tool'.last["host"] = new
    BY <1>6 DEF new
  <2> QED
    BY <1>5, <1>6, <1>10, <2>1, <2>2, <2>3, <2>4, <2>6, <2>7, <2>8 DEF ToolAt
<1>16. ToolSettings(tool')
  BY <1>1, <1>3, <1>5, <1>6 DEF ToolSettings, Walks, Loads, Tables
<1>17. ToolLoads(tool')
  BY <1>4, <1>5, <1>6, <1>7, <1>8, <1>9, <1>14, <1>15, <1>16 DEF ToolLoads
<1> QED
  BY <1>3, <1>6, <1>17 DEF ToolInv, Loads, Walks

(* A route that leads to a row leads to it still when other rows are inserted. *)
LEMMA RouteStays ==
    ASSUME NEW d, NEW e, Extends(e, d), NEW s, NEW k \in DOMAIN d["route"], NEW pair, RouteOf(d, s, k, pair)
    PROVE  RouteOf(e, s, k, pair)
<1>1. e["route"][k] = d["route"][k]
  BY DEF Extends, Tables
<1> DEFINE r == d["route"][k]
<1>2. r.type \in Kinds /\ r.target_id \in DOMAIN d[TableOf[r.type]]
  BY DEF RouteOf
<1>3. TableOf[r.type] \in Tables \ {"mimetype"}
  BY <1>2 DEF Kinds, TableOf, Tables
<1>4. /\ r.target_id \in DOMAIN e[TableOf[r.type]]
      /\ e[TableOf[r.type]][r.target_id] = d[TableOf[r.type]][r.target_id]
  BY <1>2, <1>3 DEF Extends
<1> QED
  BY <1>1, <1>4 DEF RouteOf

IsInsert(u, t, x, row) == u = Insert(t, x, row)

IsRoute(route, host, type, id) == route.host_id = host /\ route.type = type /\ route.target_id = id

(* The route and its target are in the tables of u, which has the other rows of t. *)
RouteIn(u, t, type, route, target) ==
    /\ ToolFields(u) /\ OthersStay(u, t) /\ ToolRows(u) /\ Extends(u.tables, t.tables)
    /\ \A y \in {"server", "host", "setting"} : u.last[y] = t.last[y] /\ u.tables[y] = t.tables[y]
    /\ RoutesApart(u.tables)
    /\ DOMAIN u.tables["route"] = DOMAIN t.tables["route"] \cup {u.last["route"]}
    /\ u.last["route"] \notin DOMAIN t.tables["route"] /\ u.tables["route"][u.last["route"]] = route
    /\ route.target_id \in DOMAIN u.tables[TableOf[type]]
    /\ u.tables[TableOf[type]][route.target_id] = target

(* The rows of a target and of its route are inserted: nothing else leads to the target. *)
LEMMA RouteInserted ==
    ASSUME NEW t, ToolInv(t), t.at = "routes", NEW type \in Kinds,
           NEW target, NEW a, IsInsert(a, t, TableOf[type], target),
           NEW route, IsRoute(route, t.HOST_ID, type, a.last[TableOf[type]]), NEW u, IsInsert(u, a, "route", route)
    PROVE  RouteIn(u, t, type, route, target)
<1> DEFINE x == TableOf[type]
           tid == a.last[x]
           new == u.last["route"]
<1>1. ToolFields(t) /\ ToolRows(t) /\ RoutesApart(t.tables) /\ ToolAt(t)
  BY LoadsShape DEF Loads, Walks
<1>2. x \in {"handler", "proxy", "directory"} /\ x \in Tables /\ "route" \in Tables
  BY DEF Kinds, TableOf, Tables
<1>3. a = Insert(t, x, target) /\ u = Insert(a, "route", route)
  BY DEF IsInsert
<1>5. route.host_id = t.HOST_ID /\ route.type = type /\ route.target_id = tid
  BY DEF IsRoute
<1> HIDE DEF x, tid, new
<1>6. ToolFields(a) /\ OthersStay(a, t)
  BY <1>1, <1>2, <1>3, Inserted
<1>7. /\ ToolRows(a) /\ Extends(a.tables, t.tables) /\ a.last[x] = t.last[x] + 1
      /\ DOMAIN a.tables[x] = DOMAIN t.tables[x] \cup {a.last[x]}
      /\ a.tables[x][a.last[x]] = target /\ a.last[x] \notin DOMAIN t.tables[x]
      /\ \A y \in Tables \ {x} : a.last[y] = t.last[y] /\ a.tables[y] = t.tables[y]
  BY <1>1, <1>2, <1>3, InsertedRow
<1>8. ToolFields(u) /\ OthersStay(u, a)
  BY <1>2, <1>3, <1>6, <1>7, Inserted
<1>9. /\ ToolRows(u) /\ Extends(u.tables, a.tables) /\ u.last["route"] = a.last["route"] + 1
      /\ DOMAIN u.tables["route"] = DOMAIN a.tables["route"] \cup {u.last["route"]}
      /\ u.tables["route"][u.last["route"]] = route /\ u.last["route"] \notin DOMAIN a.tables["route"]
      /\ \A y \in Tables \ {"route"} : u.last[y] = a.last[y] /\ u.tables[y] = a.tables[y]
  BY <1>2, <1>3, <1>6, <1>7, InsertedRow
<1>10. OthersStay(u, t)
  BY <1>6, <1>8 DEF OthersStay
<1>11. Extends(u.tables, t.tables)
  <2>1. ASSUME NEW y \in Tables \ {"mimetype"}, NEW id \in DOMAIN t.tables[y]
        PROVE  id \in DOMAIN u.tables[y] /\ u.tables[y][id] = t.tables[y][id]
    <3>1. id \in DOMAIN a.tables[y] /\ a.tables[y][id] = t.tables[y][id]
      BY <1>7 DEF Extends
    <3>2. id \in DOMAIN u.tables[y] /\ u.tables[y][id] = a.tables[y][id]
      BY <1>9, <3>1 DEF Extends
    <3> QED
      BY <3>1, <3>2
  <2> QED
    BY <2>1 DEF Extends
<1>12. \A y \in {"server", "host", "setting"} : u.last[y] = t.last[y] /\ u.tables[y] = t.tables[y]
  <2> SUFFICES ASSUME NEW y \in {"server", "host", "setting"}
               PROVE  u.last[y] = t.last[y] /\ u.tables[y] = t.tables[y]
    OBVIOUS
  <2>1. y \in Tables \ {x} /\ y \in Tables \ {"route"}
    BY <1>2 DEF Tables
  <2>2. a.last[y] = t.last[y] /\ a.tables[y] = t.tables[y]
    BY <1>7, <2>1
  <2>3. u.last[y] = a.last[y] /\ u.tables[y] = a.tables[y]
    BY <1>9, <2>1
  <2> QED
    BY <2>2, <2>3
<1>13. a.tables["route"] = t.tables["route"] /\ u.tables[x] = a.tables[x]
  BY <1>2, <1>7, <1>9 DEF Tables
<1>14. /\ DOMAIN u.tables["route"] = DOMAIN t.tables["route"] \cup {new}
       /\ new \notin DOMAIN t.tables["route"] /\ u.tables["route"][new] = route
  BY <1>9, <1>13 DEF new
<1>15. /\ tid \in DOMAIN u.tables[x] /\ u.tables[x][tid] = target /\ tid \notin DOMAIN t.tables[x]
  BY <1>7, <1>13 DEF tid
<1>16. \A k \in DOMAIN t.tables["route"] : u.tables["route"][k] = t.tables["route"][k]
  BY <1>11 DEF Extends, Tables
<1>17. t.HOST_ID \in DOMAIN u.tables["host"]
  <2>1. t.HOST_ID = t.last["host"] /\ t.last["host"] >= 1 /\ t.last["host"] \in Nat
    BY <1>1 DEF ToolAt, ToolRows, Tables
  <2>2. DOMAIN t.tables["host"] = 1..t.last["host"]
    BY <1>1 DEF ToolRows, Tables
  <2> QED
    BY <1>12, <2>1, <2>2
<1>18. ASSUME NEW k \in DOMAIN t.tables["route"]
       PROVE  /\ t.tables["route"][k].host_id \in DOMAIN u.tables["host"]
              /\ t.tables["route"][k].type \in Kinds
              /\ t.tables["route"][k].target_id \in DOMAIN t.tables[TableOf[t.tables["route"][k].type]]
              /\ t.tables["route"][k].target_id \in DOMAIN u.tables[TableOf[t.tables["route"][k].type]]
  <2>1. /\ t.tables["route"][k].host_id \in DOMAIN t.tables["host"]
        /\ t.tables["route"][k].type \in Kinds
        /\ t.tables["route"][k].target_id \in DOMAIN t.tables[TableOf[t.tables["route"][k].type]]
    BY <1>1 DEF RoutesApart
  <2>2. TableOf[t.tables["route"][k].type] \in Tables \ {"mimetype"}
    BY <2>1 DEF Kinds, TableOf, Tables
  <2> QED
    BY <1>11, <1>12, <2>1, <2>2 DEF Extends
<1>19. RoutesApart(u.tables)
  <2> SUFFICES ASSUME NEW k \in DOMAIN u.tables["route"], NEW l \in DOMAIN u.tables["route"]
               PROVE  LET r == u.tables["route"][k]
                          q == u.tables["route"][l] IN
                      /\ r.host_id \in DOMAIN u.tables["host"]
                      /\ r.type \in Kinds /\ r.target_id \in DOMAIN u.tables[TableOf[r.type]]
                      /\ k # l => (r.type # q.type \/ r.target_id # q.target_id)
    BY DEF RoutesApart
  <2> DEFINE r == u.tables["route"][k]
             q == u.tables["route"][l]
  <2>1. r.host_id \in DOMAIN u.tables["host"] /\ r.type \in Kinds /\ r.target_id \in DOMAIN u.tables[TableOf[r.type]]
    <3>1. CASE k = new
      <4>1. r = route
        BY <1>14, <3>1
      <4> HIDE DEF r
      <4> QED
        BY <1>5, <1>15, <1>17, <4>1 DEF x
    <3>2. CASE k # new
      BY <1>14, <1>16, <1>18, <3>2
    <3> QED
      BY <3>1, <3>2
  <2>2. ASSUME NEW i \in DOMAIN t.tables["route"]
        PROVE  t.tables["route"][i].type # type \/ t.tables["route"][i].target_id # tid
    BY <1>15, <1>18 DEF x
  <2>3. ASSUME k # l
        PROVE  r.type # q.type \/ r.target_id # q.target_id
    <3>1. CASE k = new
      <4>1. r = route /\ l \in DOMAIN t.tables["route"] /\ q = t.tables["route"][l]
        BY <1>14, <1>16, <2>3, <3>1
      <4> HIDE DEF r, q
      <4> QED
        BY <1>5, <2>2, <4>1
    <3>2. CASE l = new
      <4>1. q = route /\ k \in DOMAIN t.tables["route"] /\ r = t.tables["route"][k]
        BY <1>14, <1>16, <2>3, <3>2
      <4> HIDE DEF r, q
      <4> QED
        BY <1>5, <2>2, <4>1
    <3>3. CASE k # new /\ l # new
      <4>1. k \in DOMAIN t.tables["route"] /\ l \in DOMAIN t.tables["route"]
        BY <1>14, <3>3
      <4> QED
        BY <1>1, <1>16, <2>3, <4>1 DEF RoutesApart
    <3> QED
      BY <3>1, <3>2, <3>3
  <2> QED
    BY <2>1, <2>3
<1> QED
  BY <1>5, <1>8, <1>9, <1>10, <1>11, <1>12, <1>14, <1>15, <1>19 DEF new, x, RouteIn

(* A host that is filled has one more of its pairs, and the routes in new for it. *)
LEMMA HostFills ==
    ASSUME NEW d, NEW e, Extends(e, d), e["host"] = d["host"], NEW s, NEW n, NEW m, NEW j, NEW v, NEW p \in Nat,
           HostOf(d, s, n, m, j, First(v, p)),
           NEW new, RouteRows(e, j) = RouteRows(d, j) \cup new,
           \A k \in new : RouteOf(e, s, k, v[p + 1]),
           TargetType(Value_resolve(s, v[p + 1].value)) \in Kinds => new # {}
    PROVE  HostOf(e, s, n, m, j, First(v, p + 1))
<1> DEFINE name == AST_str(s, HostAt(s, n, m).params, "name", "QSTRING")
<1>1. HostFits(s, HostAt(s, n, m)) /\ e.host[j] = [server_id |-> n, name |-> name, matching |-> name]
  BY DEF HostOf
<1>2. /\ DOMAIN First(v, p) = 1..p /\ DOMAIN First(v, p + 1) = 1..(p + 1)
      /\ \A y \in 1..p : First(v, p)[y] = v[y]
      /\ \A y \in 1..(p + 1) : First(v, p + 1)[y] = v[y]
  BY DEF First
<1>3. /\ \A k \in RouteRows(d, j) : \E y \in 1..p : RouteOf(d, s, k, v[y])
      /\ \A y \in 1..p : TargetType(Value_resolve(s, v[y].value)) \in Kinds =>
           \E k \in RouteRows(d, j) : RouteOf(d, s, k, v[y])
  BY <1>2 DEF HostOf
<1>4. ASSUME NEW k \in RouteRows(d, j), NEW pair, RouteOf(d, s, k, pair)
      PROVE  RouteOf(e, s, k, pair)
  <2>1. k \in DOMAIN d["route"]
    BY DEF RouteRows
  <2> QED
    BY <1>4, <2>1, RouteStays
<1>5. ASSUME NEW k \in RouteRows(e, j)
      PROVE  \E y \in DOMAIN First(v, p + 1) : RouteOf(e, s, k, First(v, p + 1)[y])
  <2>1. CASE k \in new
    <3>1. p + 1 \in 1..(p + 1)
      OBVIOUS
    <3>2. RouteOf(e, s, k, First(v, p + 1)[p + 1])
      BY <1>2, <2>1, <3>1
    <3> QED
      BY <1>2, <3>1, <3>2
  <2>2. CASE k \in RouteRows(d, j)
    <3>1. PICK y \in 1..p : RouteOf(d, s, k, v[y])
      BY <1>3, <2>2
    <3>2. RouteOf(e, s, k, v[y])
      BY <1>4, <2>2, <3>1
    <3>3. y \in 1..(p + 1)
      OBVIOUS
    <3> QED
      BY <1>2, <3>2, <3>3
  <2> QED
    BY <2>1, <2>2
<1>6. ASSUME NEW y \in DOMAIN First(v, p + 1),
             TargetType(Value_resolve(s, First(v, p + 1)[y].value)) \in Kinds
      PROVE  \E k \in RouteRows(e, j) : RouteOf(e, s, k, First(v, p + 1)[y])
  <2>1. y \in 1..(p + 1) /\ First(v, p + 1)[y] = v[y]
    BY <1>2
  <2>2. CASE y = p + 1
    <3>1. PICK k \in new : TRUE
      BY <1>6, <2>1, <2>2
    <3> QED
      BY <2>1, <2>2
  <2>3. CASE y # p + 1
    <3>1. y \in 1..p
      BY <2>1, <2>3
    <3>2. PICK k \in RouteRows(d, j) : RouteOf(d, s, k, v[y])
      BY <1>3, <1>6, <2>1, <3>1
    <3> QED
      BY <1>4, <2>1, <3>2
  <2> QED
    BY <2>2, <2>3
<1> QED
  BY <1>1, <1>5, <1>6 DEF HostOf

(* A pair of a host's routes is loaded or left out: the tool has u's tables. *)
LEMMA PairLoaded ==
    ASSUME NEW t, ToolInv(t), t.at = "routes",
           NEW u, ToolFields(u), OthersStay(u, t), ToolRows(u), Extends(u.tables, t.tables), RoutesApart(u.tables),
           \A y \in {"server", "host", "setting"} : u.last[y] = t.last[y] /\ u.tables[y] = t.tables[y],
           \A j \in DOMAIN t.tables["host"] : j # t.HOST_ID => RouteRows(u.tables, j) = RouteRows(t.tables, j),
           NEW v, v = RoutesAt(t.settings, t.server, t.host).v, t.pair < Len(v),
           HostOf(u.tables, t.settings, t.server, t.host, t.HOST_ID, First(v, t.pair + 1)),
           NEW w, w = [u EXCEPT !.pair = @ + 1]
    PROVE  ToolInv(w) /\ w.at = "routes" /\ w.report = t.report
<1> DEFINE s == t.settings
<1>1. /\ ToolFields(t) /\ LoadedFile(s) /\ ToolLoads(t) /\ ToolRows(t) /\ t.server \in Nat
      /\ t.server = t.last["server"] /\ ToolHosts(t) /\ ToolAt(t)
      /\ ToolSettings(t) /\ (HasServers(s) => ToolServers(t))
  BY LoadsShape DEF Loads, Walks
<1>2. HasServers(s) /\ ToolServers(t)
  BY <1>1 DEF ToolLoads
<1>3. /\ ToolFields(w) /\ w.at = "routes" /\ w.settings = s /\ w.tables = u.tables /\ w.last = u.last
      /\ w.server = t.server /\ w.host = t.host /\ w.pair = t.pair + 1 /\ w.HOST_ID = t.HOST_ID
      /\ w.SERVER_ID = t.SERVER_ID /\ w.error = t.error /\ w.report = t.report
  <2>1. DOMAIN Tool0 = ToolNames
    BY DEF Tool0, ToolNames
  <2> QED
    BY <2>1 DEF ToolFields, ToolNames, OthersStay
<1>4. ToolRows(w)
  BY <1>3 DEF ToolRows
<1>5. DOMAIN t.tables["server"] = 1..t.server
  BY <1>1 DEF ToolRows, Tables
<1>6. ToolServers(w)
  BY <1>1, <1>2, <1>3, <1>5, ServersKeep
<1>7. t.last["host"] = t.HOST_ID /\ w.last["host"] = t.HOST_ID /\ w.last["server"] = t.server
  BY <1>1, <1>3 DEF ToolAt
<1>8. ToolHosts(w)
  <2>1. \A j \in DOMAIN t.tables["host"] : ~Filling(t, j) =>
          RouteRows(w.tables, j) = RouteRows(t.tables, j) /\ ~Filling(w, j)
    BY <1>3, <1>7 DEF Filling
  <2>2. w.settings = t.settings /\ Extends(w.tables, t.tables)
    BY <1>3
  <2>3. /\ \A j \in DOMAIN t.tables["host"] : ~Filling(t, j) => HostFilled(w.tables, w.settings, j)
        /\ \A n \in 1..t.server : \A m \in DOMAIN HostsAt(t.settings, n).v :
             Due(t, n, m) => \E j \in DOMAIN w.tables["host"] :
                 ~Filling(w, j) /\ Present(w.tables, w.settings, n, m, j)
    BY <1>1, <2>1, <2>2, HostsKeep
  <2>4. \A n, m : Due(w, n, m) => Due(t, n, m)
    BY <1>3 DEF Due
  <2>5. \A j : Filling(t, j) <=> Filling(w, j)
    BY <1>3, <1>7 DEF Filling
  <2>6. w.tables["host"] = t.tables["host"]
    BY <1>3
  <2>7. \A j \in DOMAIN t.tables["host"] : t.tables["host"][j].server_id \in 1..t.server
    BY <1>1 DEF ToolHosts
  <2> QED
    BY <1>3, <2>3, <2>4, <2>5, <2>6, <2>7 DEF ToolHosts
<1>9. ToolAt(w)
  <2>1. /\ t.server >= 1 /\ t.SERVER_ID = t.server /\ t.host \in 0..Len(HostsAt(s, t.server).v)
        /\ \A x \in 1..t.host : HostWalks(s, t.server, x)
        /\ t.host >= 1 /\ t.last["host"] >= 1 /\ t.HOST_ID = t.last["host"] /\ t.pair \in 0..Len(v)
        /\ t.tables["host"][t.HOST_ID].server_id = t.server
    BY <1>1 DEF ToolAt
  <2>2. Len(v) \in Nat
    <3>1. t.server \in 1..t.server
      BY <1>1, <2>1
    <3>2. /\ DOMAIN HostsAt(s, t.server).v = 1..Len(HostsAt(s, t.server).v) /\ Len(HostsAt(s, t.server).v) \in Nat
          /\ \A x \in DOMAIN HostsAt(s, t.server).v :
               HostWalks(s, t.server, x) => IsSequence(RoutesAt(s, t.server, x).v)
      BY <1>1, <1>2, <3>1, HostsShape
    <3>3. t.host \in DOMAIN HostsAt(s, t.server).v /\ HostWalks(s, t.server, t.host)
      BY <2>1, <3>2
    <3> QED
      BY <3>2, <3>3 DEF IsSequence
  <2>3. t.pair + 1 \in 0..Len(v)
    BY <2>1, <2>2
  <2> QED
    BY <1>3, <1>7, <2>1, <2>3 DEF ToolAt
<1>10. ToolSettings(w)
  BY <1>1, <1>3 DEF ToolSettings, Walks, Loads
<1>11. RoutesApart(w.tables)
  BY <1>3
<1>12. ToolLoads(w)
  BY <1>2, <1>3, <1>4, <1>6, <1>7, <1>8, <1>9, <1>10, <1>11 DEF ToolLoads
<1> QED
  BY <1>1, <1>3, <1>12 DEF ToolInv, Loads, Walks

(* A pair that names a target is loaded. *)
LEMMA TargetPair ==
    ASSUME NEW t, ToolInv(t), t.at = "routes", NEW u, NEW type \in Kinds, NEW route, NEW target,
           route.host_id = t.HOST_ID, RouteIn(u, t, type, route, target),
           NEW v, v = RoutesAt(t.settings, t.server, t.host).v, t.pair < Len(v),
           RouteOf(u.tables, t.settings, u.last["route"], v[t.pair + 1]),
           NEW w, w = [u EXCEPT !.pair = @ + 1]
    PROVE  ToolInv(w) /\ w.at = "routes" /\ w.report = t.report
<1> DEFINE new == u.last["route"]
<1>1. /\ ToolFields(t) /\ ToolRows(t) /\ RoutesApart(t.tables) /\ ToolAt(t)
  BY LoadsShape DEF Loads, Walks
<1>2. t.pair \in Nat /\ HostOf(t.tables, t.settings, t.server, t.host, t.HOST_ID, First(v, t.pair))
  BY <1>1 DEF ToolAt
<1>3. RouteOf(u.tables, t.settings, new, v[t.pair + 1])
  OBVIOUS
<1>4. /\ ToolFields(u) /\ OthersStay(u, t) /\ ToolRows(u) /\ Extends(u.tables, t.tables)
      /\ \A y \in {"server", "host", "setting"} : u.last[y] = t.last[y] /\ u.tables[y] = t.tables[y]
      /\ RoutesApart(u.tables)
      /\ DOMAIN u.tables["route"] = DOMAIN t.tables["route"] \cup {new}
      /\ new \notin DOMAIN t.tables["route"] /\ u.tables["route"][new] = route
  BY DEF RouteIn
<1> HIDE DEF new
<1>5. \A k \in DOMAIN t.tables["route"] : u.tables["route"][k] = t.tables["route"][k]
  BY <1>4 DEF Extends, Tables
<1>6. \A j : j # t.HOST_ID => RouteRows(u.tables, j) = RouteRows(t.tables, j)
  BY <1>4, <1>5 DEF RouteRows
<1>7. RouteRows(u.tables, t.HOST_ID) = RouteRows(t.tables, t.HOST_ID) \cup {new}
  BY <1>4, <1>5 DEF RouteRows
<1>8. HostOf(u.tables, t.settings, t.server, t.host, t.HOST_ID, First(v, t.pair + 1))
  <2>1. u.tables["host"] = t.tables["host"]
    BY <1>4
  <2> DEFINE news == {new}
  <2>2. (\A k \in news : RouteOf(u.tables, t.settings, k, v[t.pair + 1])) /\ news # {}
    BY <1>3
  <2>3. RouteRows(u.tables, t.HOST_ID) = RouteRows(t.tables, t.HOST_ID) \cup news
    BY <1>7
  <2>4. Extends(u.tables, t.tables)
    BY <1>4
  <2> HIDE DEF news
  <2> QED
    BY <1>2, <2>1, <2>2, <2>3, <2>4, HostFills
<1> QED
  BY <1>4, <1>6, <1>8, PairLoaded

(* A pair of a host's routes. *)
LEMMA RouteLoadStep ==
    ASSUME ToolInv(tool), Route_load
    PROVE  ToolInv(tool') /\ tool'.at = "routes" /\ tool'.report = tool.report
<1> DEFINE s == tool.settings
           v == RoutesAt(s, tool.server, tool.host).v
           pair == v[tool.pair + 1]
           val == Value_resolve(s, pair.value)
           type == TargetType(val)
           spec == AST_str(s, val.params, SpecParam[type], "QSTRING")
           target == [spec |-> spec]
           t == Insert(tool, TableOf[type], target)
           route == [host_id |-> tool.HOST_ID, path |-> pair.key,
                     target_id |-> t.last[TableOf[type]], type |-> type]
           u == Insert(t, "route", route)
<1>1. tool.at = "routes" /\ tool.pair < Len(v)
  BY DEF Route_load
<1>2. tool' = [(IF type \in Kinds THEN u ELSE tool) EXCEPT !.pair = @ + 1]
  BY DEF Route_load, Works
<1>3. CASE type \in Kinds
  <2>1. tool' = [u EXCEPT !.pair = @ + 1]
    BY <1>2, <1>3
  <2>2. IsInsert(t, tool, TableOf[type], target) /\ IsInsert(u, t, "route", route)
    BY DEF IsInsert
  <2>3. target.spec = spec /\ route.path = pair.key
    OBVIOUS
  <2>4. IsRoute(route, tool.HOST_ID, type, t.last[TableOf[type]])
    BY DEF IsRoute
  <2> HIDE DEF t, u, target, route, type
  <2>5. RouteIn(u, tool, type, route, target)
    BY <1>1, <1>3, <2>2, <2>4, RouteInserted
  <2>6. route.host_id = tool.HOST_ID /\ route.type = type
    BY <2>4 DEF IsRoute
  <2>7. RouteOf(u.tables, s, u.last["route"], v[tool.pair + 1])
    <3>1. /\ u.tables["route"][u.last["route"]] = route
          /\ route.target_id \in DOMAIN u.tables[TableOf[type]]
          /\ u.tables[TableOf[type]][route.target_id] = target
      BY <2>5 DEF RouteIn
    <3> QED
      BY <1>3, <2>3, <2>6, <3>1 DEF RouteOf, type
  <2> HIDE DEF s, v, pair, val
  <2>8. v = RoutesAt(tool.settings, tool.server, tool.host).v
    BY DEF v, s
  <2> QED
    BY <1>1, <1>3, <2>1, <2>5, <2>6, <2>7, <2>8, TargetPair DEF s
<1>4. CASE type \notin Kinds
  <2>1. tool' = [tool EXCEPT !.pair = @ + 1]
    BY <1>2, <1>4
  <2>2. /\ ToolFields(tool) /\ ToolRows(tool) /\ RoutesApart(tool.tables)
        /\ tool.pair \in Nat /\ HostOf(tool.tables, s, tool.server, tool.host, tool.HOST_ID, First(v, tool.pair))
    BY <1>1, LoadsShape DEF Loads, Walks, ToolAt
  <2>3. Extends(tool.tables, tool.tables) /\ OthersStay(tool, tool)
    BY DEF Extends, OthersStay
  <2>4. HostOf(tool.tables, s, tool.server, tool.host, tool.HOST_ID, First(v, tool.pair + 1))
    <3> DEFINE new == {}
    <3>1. /\ RouteRows(tool.tables, tool.HOST_ID) = RouteRows(tool.tables, tool.HOST_ID) \cup new
          /\ \A k \in new : RouteOf(tool.tables, s, k, v[tool.pair + 1])
      OBVIOUS
    <3>2. TargetType(Value_resolve(s, v[tool.pair + 1].value)) \in Kinds => new # {}
      BY <1>4
    <3> HIDE DEF new
    <3> QED
      BY <2>2, <2>3, <3>1, <3>2, HostFills
  <2> QED
    BY <1>1, <2>1, <2>2, <2>3, <2>4, PairLoaded
<1> QED
  BY <1>3, <1>4

(* The walk of the routes ends: the host has all of them. *)
LEMMA RoutesDoneStep ==
    ASSUME ToolInv(tool), RoutesDone
    PROVE  ToolInv(tool') /\ tool'.at = "hosts" /\ tool'.report = tool.report
<1> DEFINE s == tool.settings
           n == tool.server
           m == tool.host
           v == RoutesAt(s, n, m).v
<1>1. tool.at = "routes" /\ tool.pair = Len(v) /\ tool' = At(tool, "hosts")
  BY DEF RoutesDone, Works
<1>2. /\ ToolFields(tool) /\ LoadedFile(s) /\ ToolLoads(tool) /\ ToolRows(tool) /\ n \in Nat
      /\ n = tool.last["server"] /\ ToolHosts(tool) /\ ToolAt(tool) /\ RoutesApart(tool.tables)
      /\ ToolSettings(tool) /\ (HasServers(s) => ToolServers(tool))
  BY <1>1, LoadsShape DEF Loads, Walks
<1>3. HasServers(s) /\ ToolServers(tool)
  BY <1>1, <1>2 DEF ToolLoads
<1>4. /\ ToolFields(tool') /\ tool'.at = "hosts"
      /\ \A f \in ToolNames \ {"at"} : tool'[f] = tool[f]
  <2>1. DOMAIN Tool0 = ToolNames
    BY DEF Tool0, ToolNames
  <2> QED
    BY <1>1, <1>2, <2>1 DEF At, ToolFields, ToolNames
<1>5. /\ tool'.settings = s /\ tool'.tables = tool.tables /\ tool'.last = tool.last
      /\ tool'.server = n /\ tool'.host = m /\ tool'.SERVER_ID = tool.SERVER_ID
      /\ tool'.error = tool.error /\ tool'.report = tool.report
  BY <1>4 DEF ToolNames
<1>6. ToolRows(tool') /\ ToolServers(tool')
  BY <1>2, <1>3, <1>5 DEF ToolRows, ToolServers
<1>7. /\ n >= 1 /\ tool.SERVER_ID = n /\ m \in 0..Len(HostsAt(s, n).v)
      /\ \A x \in 1..m : HostWalks(s, n, x)
      /\ m >= 1 /\ tool.last["host"] >= 1 /\ tool.HOST_ID = tool.last["host"]
      /\ tool.tables["host"][tool.HOST_ID].server_id = n
      /\ HostOf(tool.tables, s, n, m, tool.HOST_ID, First(v, Len(v)))
  BY <1>1, <1>2 DEF ToolAt
<1>8. /\ DOMAIN HostsAt(s, n).v = 1..Len(HostsAt(s, n).v) /\ Len(HostsAt(s, n).v) \in Nat
      /\ \A x \in DOMAIN HostsAt(s, n).v : HostWalks(s, n, x) => IsSequence(RoutesAt(s, n, x).v)
  <2>1. n \in 1..n
    BY <1>2, <1>7
  <2> QED
    BY <1>2, <1>3, <2>1, HostsShape
<1>9. m \in DOMAIN HostsAt(s, n).v /\ HostWalks(s, n, m)
  BY <1>7, <1>8
<1>10. v = First(v, Len(v)) /\ v = Pairs(RoutesAt(s, n, m))
  <2>1. IsSequence(v)
    BY <1>8, <1>9
  <2>2. RoutesAt(s, n, m) # NULL
    BY <1>9 DEF HostWalks
  <2> QED
    BY <2>1, <2>2, SequenceShape DEF Pairs
<1> DEFINE H == tool.HOST_ID
<1>11. HostOf(tool.tables, s, n, m, H, Pairs(RoutesAt(s, n, m)))
  BY <1>7, <1>10
<1>12. H \in DOMAIN tool.tables["host"]
  <2>1. tool.last["host"] \in Nat /\ DOMAIN tool.tables["host"] = 1..tool.last["host"]
    BY <1>2 DEF ToolRows, Tables
  <2> QED
    BY <1>7, <2>1
<1> HIDE DEF v, H, m, n, s
<1>13. HostFilled(tool.tables, s, H) /\ Present(tool.tables, s, n, m, H)
  BY <1>7, <1>9, <1>11, <1>12 DEF HostFilled, Present, HostRows, H
<1>14. ToolHosts(tool')
  <2>1. \A j : ~Filling(tool', j) /\ (Filling(tool, j) => j = H)
    BY <1>4, <1>7 DEF Filling, H
  <2>2. \A j \in DOMAIN tool.tables["host"] : HostFilled(tool.tables, s, j)
    BY <1>2, <1>13, <2>1 DEF ToolHosts, s
  <2>3. ASSUME NEW x \in 1..n, NEW y \in DOMAIN HostsAt(s, x).v, Due(tool', x, y)
        PROVE  \E j \in DOMAIN tool.tables["host"] : Present(tool.tables, s, x, y, j)
    <3>1. CASE x = n /\ y = m
      BY <1>12, <1>13, <3>1
    <3>2. CASE ~(x = n /\ y = m)
      <4>1. \A z \in 1..y : HostWalks(s, x, z)
        BY <1>5, <2>3 DEF Due, s
      <4>2. x = n => y < m
        <5>1. x = n => ~(y > m)
          BY <1>4, <1>5, <2>3 DEF Due
        <5>2. x = n => y \in Nat
          BY <1>8, <2>3
        <5> QED
          BY <1>7, <3>2, <5>1, <5>2
      <4>3. ~(x = n /\ y >= m)
        <5>1. x = n => y \in Nat
          BY <1>8, <2>3
        <5> QED
          BY <1>7, <4>2, <5>1
      <4>4. Due(tool, x, y)
        BY <1>1, <4>1, <4>3 DEF Due, s, n, m
      <4> QED
        BY <1>2, <2>3, <4>4 DEF ToolHosts, s, n
    <3> QED
      BY <3>1, <3>2
  <2>4. \A j \in DOMAIN tool.tables["host"] : tool.tables["host"][j].server_id \in 1..n
    BY <1>2 DEF ToolHosts, n
  <2> QED
    BY <1>5, <2>1, <2>2, <2>3, <2>4 DEF ToolHosts
<1>15. ToolAt(tool')
  BY <1>4, <1>5, <1>7 DEF ToolAt
<1>16. ToolSettings(tool')
  BY <1>1, <1>2, <1>4, <1>5 DEF ToolSettings, Walks, Loads
<1>17. RoutesApart(tool'.tables) /\ HasServers(tool'.settings) /\ tool'.server = tool'.last["server"]
  BY <1>2, <1>3, <1>5 DEF s, n
<1>18. ToolLoads(tool')
  BY <1>6, <1>14, <1>15, <1>16, <1>17 DEF ToolLoads
<1> QED
  BY <1>2, <1>4, <1>5, <1>18 DEF ToolInv, Loads, Walks

(* A step of the load while no host is walked. *)
LEMMA LateStep ==
    ASSUME NEW t, ToolInv(t), t.at \in Loads \ {"hosts", "routes"}, HasServers(t.settings),
           NEW u, ToolFields(u), u.at \in Loads \ {"hosts", "routes"}, ToolRows(u), ToolSettings(u),
           u.settings = t.settings, u.server = t.server, u.last["server"] = t.last["server"],
           Extends(u.tables, t.tables),
           u.tables["route"] = t.tables["route"], u.tables["host"] = t.tables["host"]
    PROVE  ToolInv(u)
<1>1. LoadedFile(t.settings) /\ t.server = t.last["server"]
  BY LoadsShape
<1>2. (HasServers(t.settings) => ToolServers(u)) /\ ToolHosts(u) /\ RoutesApart(u.tables) /\ ToolAt(u)
  BY OtherRows
<1>3. ToolLoads(u)
  BY <1>1, <1>2 DEF ToolLoads
<1> QED
  BY <1>1, <1>3 DEF ToolInv, Loads, Walks

(* The servers are walked to the end. *)
LEMMA ServersDoneStep ==
    ASSUME ToolInv(tool), ServersDone
    PROVE  ToolInv(tool') /\ tool'.at = "settings" /\ tool'.report = tool.report
<1> DEFINE s == tool.settings
<1>1. /\ tool.at = "servers" /\ HasServers(s) /\ tool.server = Len(ServersOf(s))
      /\ tool' = [tool EXCEPT !.at = "settings", !.pair = 0]
  BY DEF ServersDone, Walking, Works
<1>2. ToolFields(tool) /\ LoadedFile(s) /\ ToolRows(tool) /\ ToolSettings(tool)
  BY <1>1, LoadsShape DEF Loads, Walks
<1>3. /\ ToolFields(tool') /\ tool'.at = "settings" /\ tool'.pair = 0 /\ tool'.settings = s
      /\ tool'.tables = tool.tables /\ tool'.last = tool.last /\ tool'.server = tool.server
      /\ tool'.error = tool.error /\ tool'.report = tool.report
  <2>1. DOMAIN Tool0 = ToolNames
    BY DEF Tool0, ToolNames
  <2> QED
    BY <1>1, <1>2, <2>1 DEF ToolFields, ToolNames
<1>4. ToolRows(tool') /\ Extends(tool'.tables, tool.tables)
  BY <1>2, <1>3 DEF ToolRows, Extends
<1>5. Len(Pairs(Settings(s))) \in Nat
  BY <1>2, FileShape DEF IsSequence
<1>6. tool.last["setting"] = 0 /\ ~tool.error
  BY <1>1, <1>2 DEF ToolSettings, Walks
<1>7. ToolSettings(tool')
  BY <1>1, <1>3, <1>5, <1>6 DEF ToolSettings, SettingsUpTo, Walks, Loads
<1> QED
  BY <1>1, <1>3, <1>4, <1>7, LateStep DEF Loads, Walks

(* A pair of the settings is loaded, or one has failed. *)
LEMMA SettingsLoadStep ==
    ASSUME ToolInv(tool), Settings_load
    PROVE  ToolInv(tool') /\ tool'.at = "settings" /\ tool'.report = tool.report
<1> DEFINE s == tool.settings
           p == Pairs(Settings(s))
           pair == p[tool.pair + 1]
           val == Value_resolve(s, pair.value)
           row == [key |-> pair.key, value |-> val.v]
           b == Insert(tool, "setting", row)
           t == IF val = NULL THEN [tool EXCEPT !.error = TRUE] ELSE b
<1>1. tool.at = "settings" /\ tool.pair < Len(p) /\ tool' = [t EXCEPT !.pair = @ + 1]
  BY DEF Settings_load, Works
<1>2. ToolFields(tool) /\ LoadedFile(s) /\ ToolRows(tool) /\ ToolSettings(tool) /\ ToolLoads(tool)
  BY <1>1, LoadsShape DEF Loads, Walks
<1>3. HasServers(s) /\ DOMAIN Tool0 = ToolNames /\ "setting" \in Tables
  BY <1>1, <1>2 DEF ToolLoads, Tool0, ToolNames, Tables
<1>4. Len(p) \in Nat
  BY <1>2, FileShape DEF IsSequence
<1>5. /\ tool.pair \in 0..Len(p) /\ tool.server = Len(ServersOf(s))
      /\ ~tool.error => SettingsUpTo(tool, tool.pair)
  BY <1>1, <1>2 DEF ToolSettings, Loads, Walks
<1>6. CASE val = NULL
  <2>1. t = [tool EXCEPT !.error = TRUE]
    BY <1>6
  <2> HIDE DEF t
  <2>2. /\ ToolFields(t) /\ t.error /\ \A f \in ToolNames \ {"error"} : t[f] = tool[f]
    BY <1>2, <1>3, <2>1 DEF ToolFields, ToolNames
  <2>3. /\ ToolFields(tool') /\ tool'.at = "settings" /\ tool'.pair = tool.pair + 1 /\ tool'.settings = s
        /\ tool'.tables = tool.tables /\ tool'.last = tool.last /\ tool'.server = tool.server
        /\ tool'.error /\ tool'.report = tool.report
    BY <1>1, <1>3, <2>2 DEF ToolFields, ToolNames
  <2>4. ToolRows(tool') /\ Extends(tool'.tables, tool.tables)
    BY <1>2, <2>3 DEF ToolRows, Extends
  <2>5. tool.pair + 1 \in 0..Len(p)
    BY <1>1, <1>4, <1>5
  <2>6. ToolSettings(tool')
    BY <1>5, <2>3, <2>5 DEF ToolSettings, Walks, Loads
  <2> QED
    BY <1>1, <1>3, <2>3, <2>4, <2>6, LateStep DEF Loads, Walks
<1>7. CASE val # NULL
  <2>1. t = b /\ IsInsert(b, tool, "setting", row)
    BY <1>7 DEF IsInsert
  <2>2. row = [key |-> p[tool.pair + 1].key, value |-> Value_resolve(s, p[tool.pair + 1].value).v]
    OBVIOUS
  <2> HIDE DEF t, b, row
  <2>3. ToolFields(b) /\ OthersStay(b, tool)
    BY <1>2, <1>3, <2>1, Inserted DEF IsInsert
  <2>4. /\ ToolRows(b) /\ Extends(b.tables, tool.tables) /\ b.last["setting"] = tool.last["setting"] + 1
        /\ DOMAIN b.tables["setting"] = DOMAIN tool.tables["setting"] \cup {b.last["setting"]}
        /\ b.tables["setting"][b.last["setting"]] = row
        /\ \A y \in Tables \ {"setting"} : b.last[y] = tool.last[y] /\ b.tables[y] = tool.tables[y]
    <3>1. b = Insert(tool, "setting", row)
      BY <2>1 DEF IsInsert
    <3> QED
      BY <1>2, <1>3, <3>1, InsertedRow
  <2>5. /\ ToolFields(tool') /\ tool'.at = "settings" /\ tool'.pair = tool.pair + 1 /\ tool'.settings = s
        /\ tool'.tables = b.tables /\ tool'.last = b.last /\ tool'.server = tool.server
        /\ tool'.error = tool.error /\ tool'.report = tool.report
    BY <1>1, <1>3, <2>1, <2>3 DEF ToolFields, ToolNames, OthersStay
  <2>6. ToolRows(tool') /\ Extends(tool'.tables, tool.tables)
    BY <2>4, <2>5 DEF ToolRows
  <2>7. tool.pair + 1 \in 0..Len(p)
    BY <1>1, <1>4, <1>5
  <2>8. ASSUME ~tool.error
        PROVE  SettingsUpTo(tool', tool.pair + 1)
    <3>1. tool.last["setting"] = tool.pair /\ DOMAIN tool.tables["setting"] = 1..tool.pair
      BY <1>2, <1>5, <2>8 DEF SettingsUpTo, ToolRows, Tables
    <3>2. \A y \in 1..tool.pair : b.tables["setting"][y] = tool.tables["setting"][y]
      BY <2>4, <3>1 DEF Extends, Tables
    <3>3. \A y \in 1..tool.pair :
            b.tables["setting"][y] = [key |-> p[y].key, value |-> Value_resolve(s, p[y].value).v]
      BY <1>5, <2>8, <3>2 DEF SettingsUpTo
    <3>4. b.last["setting"] = tool.pair + 1
      BY <2>4, <3>1
    <3>5. b.tables["setting"][tool.pair + 1]
            = [key |-> p[tool.pair + 1].key, value |-> Value_resolve(s, p[tool.pair + 1].value).v]
      BY <2>2, <2>4, <3>4
    <3>6. \A y \in 1..(tool.pair + 1) : y \in 1..tool.pair \/ y = tool.pair + 1
      BY <1>5
    <3>7. \A y \in 1..(tool.pair + 1) :
            b.tables["setting"][y] = [key |-> p[y].key, value |-> Value_resolve(s, p[y].value).v]
      BY <3>3, <3>5, <3>6
    <3> QED
      BY <2>5, <3>4, <3>7 DEF SettingsUpTo
  <2>9. ToolSettings(tool')
    BY <1>5, <2>5, <2>7, <2>8 DEF ToolSettings, Walks, Loads
  <2>10. /\ tool'.last["server"] = tool.last["server"] /\ tool'.tables["route"] = tool.tables["route"]
         /\ tool'.tables["host"] = tool.tables["host"]
    BY <2>4, <2>5 DEF Tables
  <2> QED
    BY <1>1, <1>3, <2>5, <2>6, <2>9, <2>10, LateStep DEF Loads, Walks
<1> QED
  BY <1>6, <1>7

(* The load goes on with its tables as they are. *)
LEMMA MovesOn ==
    ASSUME NEW t, ToolInv(t), t.at \in {"settings", "mimetypes", "commit"},
           t.at = "settings" => t.pair = Len(Pairs(Settings(t.settings))) /\ ~t.error,
           NEW at \in {"import", "commit", "committing"}, NEW u, u = At(t, at)
    PROVE  ToolInv(u) /\ u.at = at /\ u.report = t.report
<1> DEFINE s == t.settings
<1>1. ToolFields(t) /\ ToolRows(t) /\ ToolSettings(t) /\ ToolLoads(t) /\ t.at \in Loads \ {"hosts", "routes"}
  BY LoadsShape DEF Loads, Walks
<1>2. HasServers(s) /\ DOMAIN Tool0 = ToolNames
  BY <1>1 DEF ToolLoads, Tool0, ToolNames
<1>3. ToolFields(u) /\ u.at = at /\ \A f \in ToolNames \ {"at"} : u[f] = t[f]
  BY <1>1, <1>2 DEF ToolFields, ToolNames, At
<1>4. /\ u.settings = s /\ u.tables = t.tables /\ u.last = t.last /\ u.server = t.server
      /\ u.report = t.report
  BY <1>3 DEF ToolNames
<1>5. ToolRows(u) /\ Extends(u.tables, t.tables)
  BY <1>1, <1>4 DEF ToolRows, Extends
<1>6. SettingsUpTo(t, Len(Pairs(Settings(s)))) /\ t.server = Len(ServersOf(s))
  BY <1>1 DEF ToolSettings, Walks, Loads
<1>7. ToolSettings(u)
  BY <1>3, <1>4, <1>6 DEF ToolSettings, SettingsUpTo, Walks, Loads
<1> QED
  BY <1>1, <1>2, <1>3, <1>4, <1>5, <1>7, LateStep DEF Loads, Walks

(* The MIME types that m2sh has, and those of the file. *)
LEMMA TypesLoadStep ==
    ASSUME NEW t, ToolInv(t), t.at \in {"import", "mimetypes"},
           NEW u, ToolFields(u), u.at = "mimetypes", u.settings = t.settings, u.server = t.server,
           ToolRows(u), \A x \in Tables \ {"mimetype"} : u.tables[x] = t.tables[x] /\ u.last[x] = t.last[x]
    PROVE  ToolInv(u)
<1>1. ToolFields(t) /\ ToolRows(t) /\ ToolSettings(t) /\ ToolLoads(t) /\ t.at \in Loads \ {"hosts", "routes"}
  BY LoadsShape DEF Loads, Walks
<1>2. HasServers(t.settings)
  BY <1>1 DEF ToolLoads
<1>3. Extends(u.tables, t.tables)
  BY DEF Extends
<1>4. SettingsUpTo(t, Len(Pairs(Settings(t.settings)))) /\ t.server = Len(ServersOf(t.settings))
  BY <1>1 DEF ToolSettings, Walks, Loads
<1>5. /\ u.tables["setting"] = t.tables["setting"] /\ u.last["setting"] = t.last["setting"]
      /\ u.last["server"] = t.last["server"] /\ u.tables["route"] = t.tables["route"]
      /\ u.tables["host"] = t.tables["host"]
  BY DEF Tables
<1>6. ToolSettings(u)
  BY <1>4, <1>5 DEF ToolSettings, SettingsUpTo, Walks, Loads
<1> QED
  BY <1>1, <1>2, <1>3, <1>5, <1>6, LateStep DEF Loads, Walks

(* mimetypes.csql. *)
LEMMA ImportStep ==
    ASSUME ToolInv(tool), Mimetypes_import
    PROVE  ToolInv(tool') /\ tool'.at = "mimetypes" /\ tool'.report = tool.report
<1>1. /\ tool.at = "import"
      /\ tool' = [tool EXCEPT !.at = "mimetypes", !.pair = 0, !.tables["mimetype"] = MimeTypes,
                              !.last["mimetype"] = Len(MimeTypes)]
  BY DEF Mimetypes_import, Works
<1>2. ToolFields(tool) /\ ToolRows(tool) /\ DOMAIN Tool0 = ToolNames
  BY <1>1, LoadsShape DEF Loads, Walks, Tool0, ToolNames
<1>3. /\ ToolFields(tool') /\ tool'.at = "mimetypes" /\ tool'.settings = tool.settings
      /\ tool'.server = tool.server /\ tool'.report = tool.report
      /\ tool'.tables = [tool.tables EXCEPT !["mimetype"] = MimeTypes]
      /\ tool'.last = [tool.last EXCEPT !["mimetype"] = Len(MimeTypes)]
  BY <1>1, <1>2 DEF ToolFields, ToolNames
<1>4. DOMAIN tool.tables = Tables /\ DOMAIN tool.last = Tables /\ "mimetype" \in Tables
  BY <1>2 DEF ToolRows, Tables
<1>5. /\ tool'.tables = [x \in Tables |-> tool'.tables[x]] /\ tool'.last = [x \in Tables |-> tool'.last[x]]
      /\ \A x \in Tables \ {"mimetype"} : tool'.tables[x] = tool.tables[x] /\ tool'.last[x] = tool.last[x]
      /\ tool'.tables["mimetype"] = MimeTypes /\ tool'.last["mimetype"] = Len(MimeTypes)
  BY <1>3, <1>4
<1>6. Len(MimeTypes) \in Nat /\ DOMAIN MimeTypes \subseteq 1..Len(MimeTypes)
  BY M2shAssumption, SequenceShape
<1>7. ToolRows(tool')
  BY <1>2, <1>5, <1>6 DEF ToolRows
<1>8. \A x \in Tables \ {"mimetype"} : tool'.tables[x] = tool.tables[x] /\ tool'.last[x] = tool.last[x]
  BY <1>5
<1>9. /\ ToolFields(tool') /\ tool'.at = "mimetypes" /\ tool'.settings = tool.settings
      /\ tool'.server = tool.server /\ tool'.report = tool.report /\ tool.at = "import"
  BY <1>1, <1>3
<1> QED
  BY <1>7, <1>8, <1>9, TypesLoadStep

(* A pair of the file's types takes the place of those with its extension. *)
LEMMA MimetypesStep ==
    ASSUME ToolInv(tool), Mimetypes_load
    PROVE  ToolInv(tool') /\ tool'.at = "mimetypes" /\ tool'.report = tool.report
<1> DEFINE pair == Pairs(Mimetypes(tool.settings))[tool.pair + 1]
           val == Value_resolve(tool.settings, pair.value)
           table == tool.tables["mimetype"]
           kept == {i \in DOMAIN table : table[i].ext # pair.key}
           rest == [i \in kept |-> table[i]]
           deleted == [tool EXCEPT !.tables["mimetype"] = rest]
           row == [ext |-> pair.key, type |-> val.v]
           b == Insert(deleted, "mimetype", row)
           t == IF val = NULL THEN tool ELSE b
<1>1. tool.at = "mimetypes" /\ tool' = [t EXCEPT !.pair = @ + 1]
  BY DEF Mimetypes_load, Works
<1>2. ToolFields(tool) /\ ToolRows(tool) /\ DOMAIN Tool0 = ToolNames /\ "mimetype" \in Tables
  BY <1>1, LoadsShape DEF Loads, Walks, Tool0, ToolNames, Tables
<1>3. DOMAIN tool.tables = Tables /\ DOMAIN tool.last = Tables
  BY <1>2 DEF ToolRows
<1>4. DOMAIN rest \subseteq DOMAIN table
  OBVIOUS
<1> HIDE DEF rest
<1>5. /\ ToolFields(deleted) /\ \A f \in ToolNames \ {"tables"} : deleted[f] = tool[f]
      /\ deleted.tables = [tool.tables EXCEPT !["mimetype"] = rest]
  BY <1>2 DEF ToolFields, ToolNames
<1>6. (val = NULL => t = tool) /\ (val # NULL => t = b)
  OBVIOUS
<1>7. b = Insert(deleted, "mimetype", row)
  OBVIOUS
<1> HIDE DEF deleted, b, row, t
<1>8. /\ deleted.last = tool.last /\ deleted.tables["mimetype"] = rest
      /\ deleted.tables = [x \in Tables |-> deleted.tables[x]]
      /\ \A x \in Tables \ {"mimetype"} : deleted.tables[x] = tool.tables[x]
  BY <1>2, <1>3, <1>5 DEF ToolNames
<1>9. ToolRows(deleted)
  BY <1>2, <1>4, <1>8 DEF ToolRows
<1>10. ToolFields(b) /\ OthersStay(b, deleted)
  <2>1. ToolFields(deleted)
    BY <1>5
  <2> QED
    BY <1>7, <1>2, <1>9, <2>1, Inserted
<1>11. /\ ToolRows(b)
       /\ \A y \in Tables \ {"mimetype"} : b.last[y] = deleted.last[y] /\ b.tables[y] = deleted.tables[y]
  <2>1. ToolFields(deleted)
    BY <1>5
  <2> QED
    BY <1>7, <1>2, <1>9, <2>1, InsertedRow
<1>12. /\ ToolFields(t) /\ OthersStay(t, tool) /\ ToolRows(t)
       /\ \A y \in Tables \ {"mimetype"} : t.last[y] = tool.last[y] /\ t.tables[y] = tool.tables[y]
  <2>1. OthersStay(b, tool) /\ OthersStay(tool, tool)
    BY <1>5, <1>10 DEF OthersStay
  <2>2. \A y \in Tables \ {"mimetype"} : b.last[y] = tool.last[y] /\ b.tables[y] = tool.tables[y]
    BY <1>8, <1>11
  <2> QED
    BY <1>2, <1>6, <1>10, <1>11, <2>1, <2>2
<1>13. /\ ToolFields(tool') /\ tool'.at = "mimetypes" /\ tool'.settings = tool.settings
       /\ tool'.server = tool.server /\ tool'.report = tool.report
       /\ tool'.tables = t.tables /\ tool'.last = t.last
  BY <1>1, <1>2, <1>12 DEF ToolFields, ToolNames, OthersStay
<1>14. /\ ToolRows(tool')
       /\ \A x \in Tables \ {"mimetype"} : tool'.tables[x] = tool.tables[x] /\ tool'.last[x] = tool.last[x]
  BY <1>2, <1>12, <1>13 DEF ToolRows
<1> QED
  BY <1>1, <1>13, <1>14, TypesLoadStep

(* The database d is what the file's tree s says. *)
IsFile(d, s) ==
    LET pairs == Pairs(Settings(s)) IN
    /\ DOMAIN d.server = DOMAIN ServersOf(s)
    /\ \A n \in DOMAIN d.server : d.server[n] = ServerRow(s, ServerAt(s, n).params)
    /\ \A j \in DOMAIN d.host :
        /\ d.host[j].server_id \in DOMAIN d.server
        /\ \E m \in DOMAIN HostsAt(s, d.host[j].server_id).v :
            HostOf(d, s, d.host[j].server_id, m, j, Pairs(RoutesAt(s, d.host[j].server_id, m)))
    /\ \A n \in DOMAIN d.server : \A m \in DOMAIN HostsAt(s, n).v :
        (\A x \in 1..m : HostWalks(s, n, x)) =>
            \E j \in HostRows(d, n) : HostOf(d, s, n, m, j, Pairs(RoutesAt(s, n, m)))
    /\ \A k, l \in DOMAIN d.route :
        /\ d.route[k].host_id \in DOMAIN d.host
        /\ k # l => (d.route[k].type # d.route[l].type \/ d.route[k].target_id # d.route[l].target_id)
    /\ DOMAIN d.setting = DOMAIN pairs
    /\ \A y \in DOMAIN pairs :
        d.setting[y] = [key |-> pairs[y].key, value |-> Value_resolve(s, pairs[y].value).v]

(* What m2sh commits is the file. *)
LEMMA WholeFile ==
    ASSUME NEW t, ToolInv(t), t.at = "committing"
    PROVE  IsFile(t.tables, t.settings) /\ Positive(t.tables)
<1> DEFINE s == t.settings
           d == t.tables
           pairs == Pairs(Settings(s))
<1>1. /\ LoadedFile(s) /\ ToolLoads(t) /\ ToolRows(t) /\ t.server \in Nat /\ t.server = t.last["server"]
      /\ RoutesApart(d) /\ ToolHosts(t) /\ ToolSettings(t) /\ (HasServers(s) => ToolServers(t))
  BY LoadsShape DEF Loads, Walks
<1>2. HasServers(s) /\ ToolServers(t)
  BY <1>1 DEF ToolLoads
<1>3. t.server = Len(ServersOf(s)) /\ SettingsUpTo(t, Len(pairs))
  BY <1>1 DEF ToolSettings, Walks, Loads
<1>4. DOMAIN ServersOf(s) = 1..Len(ServersOf(s)) /\ DOMAIN pairs = 1..Len(pairs)
  BY <1>1, <1>2, FileShape, SequenceShape
<1>5. DOMAIN d["server"] = 1..t.server /\ DOMAIN d["setting"] = 1..t.last["setting"]
  BY <1>1 DEF ToolRows, Tables
<1>6. \A j : ~Filling(t, j)
  BY DEF Filling
<1>7. \A n, m : (\A x \in 1..m : HostWalks(s, n, x)) => Due(t, n, m)
  BY DEF Due
<1>8. DOMAIN d["server"] = DOMAIN ServersOf(s)
  BY <1>3, <1>4, <1>5
<1>9. \A n \in DOMAIN d["server"] : d["server"][n] = ServerRow(s, ServerAt(s, n).params)
  BY <1>2, <1>5 DEF ToolServers
<1>10. \A j \in DOMAIN d["host"] :
         /\ d["host"][j].server_id \in DOMAIN d["server"]
         /\ \E m \in DOMAIN HostsAt(s, d["host"][j].server_id).v :
              HostOf(d, s, d["host"][j].server_id, m, j, Pairs(RoutesAt(s, d["host"][j].server_id, m)))
  BY <1>1, <1>5, <1>6 DEF ToolHosts, HostFilled
<1>11. ASSUME NEW n \in DOMAIN d["server"], NEW m \in DOMAIN HostsAt(s, n).v,
              \A x \in 1..m : HostWalks(s, n, x)
       PROVE  \E j \in HostRows(d, n) : HostOf(d, s, n, m, j, Pairs(RoutesAt(s, n, m)))
  <2>1. Due(t, n, m)
    BY <1>7, <1>11
  <2>2. PICK j : Present(d, s, n, m, j)
    BY <1>1, <1>5, <2>1 DEF ToolHosts
  <2> QED
    BY <2>2 DEF Present
<1>12. \A k, l \in DOMAIN d["route"] :
         /\ d["route"][k].host_id \in DOMAIN d["host"]
         /\ k # l => (d["route"][k].type # d["route"][l].type \/ d["route"][k].target_id # d["route"][l].target_id)
  BY <1>1 DEF RoutesApart
<1>13. /\ DOMAIN d["setting"] = DOMAIN pairs
       /\ \A y \in DOMAIN pairs :
            d["setting"][y] = [key |-> pairs[y].key, value |-> Value_resolve(s, pairs[y].value).v]
  BY <1>3, <1>4, <1>5 DEF SettingsUpTo
<1>14. IsFile(d, s)
  BY <1>8, <1>9, <1>10, <1>11, <1>12, <1>13 DEF IsFile
<1>15. Positive(d)
  <2> SUFFICES ASSUME NEW x \in Tables
               PROVE  DOMAIN d[x] \subseteq Nat \ {0}
    BY DEF Positive
  <2>1. t.last[x] \in Nat /\ DOMAIN d[x] \subseteq 1..t.last[x]
    BY <1>1 DEF ToolRows
  <2> QED
    BY <2>1
<1> QED
  BY <1>14, <1>15

(* Config_load, step by step. *)
LEMMA ConfigLoadStep ==
    ASSUME ToolInv(tool), Config_load, ~Committed
    PROVE  /\ ToolInv(tool') /\ tool'.at # "operation" /\ tool'.report \in {tool.report, NULL}
           /\ db' = db /\ built' = built /\ UNCHANGED <<load, seen, up, pidfile, mem>>
           /\ tool'.at = "committing" => writer' = "exclusive"
           /\ writer' \in {writer, "none", "reserved"} \/ ~Reading
<1> DEFINE Kept == ToolInv(tool') /\ tool'.at # "operation" /\ tool'.report \in {tool.report, NULL}
           Frame == /\ db' = db /\ built' = built /\ UNCHANGED <<load, seen, up, pidfile, mem>>
                    /\ tool'.at = "committing" => writer' = "exclusive"
                    /\ writer' \in {writer, "none", "reserved"} \/ ~Reading
<1>1. ASSUME \E t : Works(t), tool'.at # "committing"
      PROVE  Frame
  BY <1>1 DEF Works, configvars
<1>2. CASE Rollback
  BY <1>2, Rests DEF Rollback
<1>3. CASE Config_setup
  BY <1>3, SetupStep DEF Config_setup
<1>4. CASE Server_load /\ ~Rollback
  <2>1. ServerFits(tool.settings, ServerAt(tool.settings, tool.server + 1)) /\ \E t : Works(t)
    BY <1>4 DEF Server_load
  <2>2. ToolInv(tool') /\ tool'.at = "hosts" /\ tool'.report = tool.report
    BY <1>4, <2>1, ServerLoadStep
  <2> QED
    BY <1>1, <2>1, <2>2
<1>5. CASE Host_load
  <2>1. CASE HostFits(tool.settings, HostAt(tool.settings, tool.server, tool.host + 1))
    <3>1. ToolInv(tool') /\ tool'.at \in Walks /\ tool'.report = tool.report
      BY <1>5, <2>1, HostLoadStep
    <3>2. \E t : Works(t)
      BY <1>5, <2>1 DEF Host_load
    <3> QED
      BY <1>1, <3>1, <3>2 DEF Walks
  <2>2. CASE ~HostFits(tool.settings, HostAt(tool.settings, tool.server, tool.host + 1))
    <3>1. /\ tool.at = "hosts" /\ Works(At(tool, "servers"))
          /\ ~HostWalks(tool.settings, tool.server, tool.host + 1)
      BY <1>5, <2>2 DEF Host_load, HostWalks
    <3>2. ToolInv(tool') /\ tool'.at = "servers" /\ tool'.report = tool.report
      BY <3>1, HostsEnd
    <3> QED
      BY <1>1, <3>1, <3>2
  <2> QED
    BY <2>1, <2>2
<1>6. CASE HostsDone
  <2>1. /\ tool.at = "hosts" /\ Works(At(tool, "servers"))
        /\ tool.host = Len(HostsAt(tool.settings, tool.server).v)
    BY <1>6 DEF HostsDone
  <2>2. ~(tool.host < Len(HostsAt(tool.settings, tool.server).v))
    <3>1. tool.host \in Int
      BY <2>1, LoadsShape DEF Loads, Walks, ToolAt
    <3> QED
      BY <2>1, <3>1
  <2>3. ToolInv(tool') /\ tool'.at = "servers" /\ tool'.report = tool.report
    BY <2>1, <2>2, HostsEnd
  <2> QED
    BY <1>1, <2>1, <2>3
<1>7. CASE Route_load
  BY <1>1, <1>7, RouteLoadStep DEF Route_load
<1>8. CASE RoutesDone
  BY <1>1, <1>8, RoutesDoneStep DEF RoutesDone
<1>9. CASE ServersDone
  BY <1>1, <1>9, ServersDoneStep DEF ServersDone
<1>10. CASE Settings_load
  BY <1>1, <1>10, SettingsLoadStep DEF Settings_load
<1>11. CASE SettingsDone /\ ~Rollback
  <2>1. /\ tool.at = "settings" /\ tool.pair = Len(Pairs(Settings(tool.settings))) /\ ~tool.error
        /\ tool' = At(tool, "import") /\ Works(At(tool, "import"))
    BY <1>11 DEF SettingsDone, Works
  <2>2. ToolInv(tool') /\ tool'.at = "import" /\ tool'.report = tool.report
    BY <2>1, MovesOn
  <2> QED
    BY <1>1, <2>1, <2>2
<1>12. CASE Mimetypes_import
  BY <1>1, <1>12, ImportStep DEF Mimetypes_import
<1>13. CASE Mimetypes_load
  BY <1>1, <1>13, MimetypesStep DEF Mimetypes_load
<1>14. CASE MimetypesDone
  <2>1. tool.at = "mimetypes" /\ tool' = At(tool, "commit") /\ Works(At(tool, "commit"))
    BY <1>14 DEF MimetypesDone, Works
  <2>2. ToolInv(tool') /\ tool'.at = "commit" /\ tool'.report = tool.report
    BY <2>1, MovesOn
  <2> QED
    BY <1>1, <2>1, <2>2
<1>15. CASE Config_commit /\ ~Rollback
  <2>1. /\ tool.at = "commit" /\ tool' = At(tool, "committing") /\ writer' = "exclusive" /\ ~Reading
        /\ UNCHANGED <<db, load, seen, up, pidfile, mem, built>>
    BY <1>15 DEF Config_commit
  <2>2. ToolInv(tool') /\ tool'.at = "committing" /\ tool'.report = tool.report
    BY <2>1, MovesOn
  <2> QED
    BY <2>1, <2>2
<1>16. CASE WalkFails
  BY <1>2, <1>16 DEF WalkFails
<1> QED
  BY <1>2, <1>3, <1>4, <1>5, <1>6, <1>7, <1>8, <1>9, <1>10, <1>11, <1>12, <1>13, <1>14, <1>15, <1>16
     DEF Config_load

-----------------------------------------------------------------------------
(* The commands.                                                           *)

(* The servers that the options select have rows in the database. *)
LEMMA SelectedRows ==
    ASSUME Positive(db), NEW cmd
    PROVE  Selected(cmd) \subseteq Nat \ {0}
<1>1. DOMAIN db.server \subseteq Nat \ {0}
  BY DEF Positive, Tables
<1>2. Selected(cmd) \subseteq DOMAIN db.server
  BY DEF Selected, Named
<1> QED
  BY <1>1, <1>2

(* A tool that waits or begins. *)
LEMMA CommandStep ==
    ASSUME Positive(db), Command_run
    PROVE  ToolInv(tool') /\ tool'.report = NULL /\ tool'.at # "committing"
<1> DEFINE Waits == tool' = Tool0
           Logs == \E cmd : tool' = [Tool0 EXCEPT !.at = "log", !.cmd = cmd]
           Begins == \E cmd, f : f \in DOMAIN Files /\ Files[f] # NULL
                       /\ tool' = [Tool0 EXCEPT !.cmd = cmd, !.at = "begin", !.settings = Files[f]]
           Operates == \E cmd : tool' = [Tool0 EXCEPT !.at = "operation", !.cmd = cmd]
<1>1. DOMAIN Tool0 = ToolNames
  BY DEF Tool0, ToolNames
<1>2. ASSUME NEW cmd, Command_load(cmd)
      PROVE  Waits \/ Logs \/ Begins
  <2> DEFINE file == option(cmd, "config", "mongrel2.conf")
  <2>1. CASE file \notin DOMAIN Files
    BY <1>2, <2>1 DEF Command_load
  <2>2. CASE file \in DOMAIN Files /\ Files[file] = NULL
    <3>1. tool' = [Tool0 EXCEPT !.at = "log", !.cmd = cmd]
      BY <1>2, <2>2 DEF Command_load, At, Tool0
    <3> QED
      BY <3>1
  <2>3. CASE file \in DOMAIN Files /\ Files[file] # NULL
    <3>1. tool' = [Tool0 EXCEPT !.cmd = cmd, !.at = "begin", !.settings = Files[file]]
      BY <1>2, <2>3 DEF Command_load, Tool0
    <3> HIDE DEF file
    <3> QED
      BY <2>3, <3>1
  <2> QED
    BY <2>1, <2>2, <2>3
<1>3. Waits \/ Logs \/ Begins \/ Operates
  <2>1. PICK line \in Lines :
          LET cmd == cli_params_parse_args(line) IN
          \/ Waits \/ Command_load(cmd) \/ tool' = [Tool0 EXCEPT !.at = "log", !.cmd = cmd]
          \/ tool' = [Tool0 EXCEPT !.at = "operation", !.cmd = cmd]
    BY DEF Command_run
  <2> QED
    BY <1>2, <2>1
<1>4. CASE Waits
  <2>1. ToolFields(tool') /\ tool'.at = "idle" /\ tool'.report = NULL
    BY <1>4 DEF ToolFields, Tool0
  <2> QED
    BY <2>1, AtRest
<1>5. CASE Logs
  <2>1. ToolFields(tool') /\ tool'.at = "log" /\ tool'.report = NULL
    BY <1>5 DEF ToolFields, Tool0
  <2> QED
    BY <2>1, AtRest
<1>6. CASE Begins
  <2>1. PICK cmd, f : f \in DOMAIN Files /\ Files[f] # NULL
          /\ tool' = [Tool0 EXCEPT !.cmd = cmd, !.at = "begin", !.settings = Files[f]]
    BY <1>6
  <2>2. /\ ToolFields(tool') /\ tool'.at = "begin" /\ tool'.report = NULL /\ tool'.settings = Files[f]
        /\ tool'.server = 0 /\ ~tool'.error
    BY <2>1 DEF ToolFields, Tool0
  <2>3. LoadedFile(tool'.settings)
    BY <2>1, <2>2 DEF LoadedFile
  <2> QED
    BY <2>2, <2>3 DEF ToolInv, Loads, Walks
<1>7. CASE Operates
  <2>1. PICK cmd : tool' = [Tool0 EXCEPT !.at = "operation", !.cmd = cmd]
    BY <1>7
  <2>2. /\ ToolFields(tool') /\ tool'.at = "operation" /\ tool'.report = NULL
        /\ tool'.row = 0 /\ tool'.sent = {}
    BY <2>1 DEF ToolFields, Tool0
  <2>3. UpTo(Selected(tool'.cmd), 0) = {}
    BY SelectedRows, AllRows
  <2> QED
    BY <2>2, <2>3 DEF ToolInv, ToolOperates, Loads, Walks
<1> QED
  BY <1>3, <1>4, <1>5, <1>6, <1>7

(* What the last operation reports. *)
Reported(t) ==
    (IF t.report = NULL THEN FALSE ELSE t.report.cmd \in Signals) =>
        /\ t.report.sent \subseteq t.report.rows
        /\ (t.report.rc = 0) <=> (t.report.rows # {} /\ t.report.sent = t.report.rows)

(* The next selected row joins those that the operation has walked. *)
LEMMA NextSelected ==
    ASSUME Positive(db), ToolInv(tool), tool.at = "operation",
           NEW i, IsNext(i, Selected(tool.cmd), tool.row)
    PROVE  i \in Selected(tool.cmd)
           /\ UpTo(Selected(tool.cmd), i) = UpTo(Selected(tool.cmd), tool.row) \cup {i}
<1>1. Selected(tool.cmd) \subseteq Nat \ {0}
  BY SelectedRows
<1>2. tool.row \in Nat
  BY <1>1 DEF ToolInv, ToolOperates
<1> DEFINE rows == Selected(tool.cmd)
<1>3. IsNext(i, rows, tool.row) /\ rows \subseteq Nat \ {0}
  BY <1>1
<1> HIDE DEF rows
<1>4. i \in rows /\ UpTo(rows, i) = UpTo(rows, tool.row) \cup {i}
  BY <1>2, <1>3, NextRow
<1> QED
  BY <1>4 DEF rows

(* The server of a row has been told, or looked at. *)
LEMMA OperatedRow ==
    ASSUME Positive(db), ToolInv(tool), tool.at = "operation",
           NEW i, IsNext(i, Selected(tool.cmd), tool.row),
           NEW u, ToolFields(u), u.at = "operation", u.cmd = tool.cmd, u.row = i,
           u.sent \subseteq tool.sent \cup {i}, tool.cmd.name \in Signals => u.sent = tool.sent \cup {i}
    PROVE  ToolInv(u)
<1> DEFINE rows == Selected(tool.cmd)
<1>1. ToolOperates(tool)
  BY DEF ToolInv
<1>2. rows \subseteq Nat \ {0}
  BY SelectedRows
<1>3. tool.row \in Nat /\ tool.sent \subseteq rows
  BY <1>1, <1>2 DEF ToolOperates
<1>4. i \in rows /\ UpTo(rows, i) = UpTo(rows, tool.row) \cup {i}
  BY NextSelected
<1>5. tool.cmd.name \in Signals => u.sent = UpTo(rows, i)
  BY <1>1, <1>4 DEF ToolOperates
<1>6. u.sent \subseteq rows
  BY <1>3, <1>4
<1>7. ToolOperates(u)
  BY <1>4, <1>5, <1>6 DEF ToolOperates
<1> QED
  BY <1>7 DEF ToolInv, Loads, Walks

(* The operation ends: every server is told, or one is not there. *)
LEMMA OperationEnds ==
    ASSUME Positive(db), ToolInv(tool), tool.at = "operation", NEW rc, Reports(rc),
           \/ rc = -1 /\ \E i : IsNext(i, Selected(tool.cmd), tool.row)
           \/ NoNext(Selected(tool.cmd), tool.row) /\ rc = IF tool.row # 0 THEN 0 ELSE -1
    PROVE  ToolInv(tool') /\ tool'.at = "idle" /\ Reported(tool')
<1> DEFINE rows == Selected(tool.cmd)
<1>1. ToolOperates(tool) /\ DOMAIN Tool0 = ToolNames
  BY DEF ToolInv, Tool0, ToolNames
<1>2. ToolFields(tool') /\ tool'.at = "idle"
  BY DEF Reports, ToolFields, Tool0
<1>3. tool'.report = [cmd |-> tool.cmd.name, rows |-> rows, sent |-> tool.sent, rc |-> rc]
  BY DEF Reports, Tool0
<1>4. /\ tool'.report.cmd = tool.cmd.name /\ tool'.report.rows = rows /\ tool'.report.sent = tool.sent
      /\ tool'.report.rc = rc
  BY <1>3
<1>5. rows \subseteq Nat \ {0} /\ tool.row \in rows \cup {0}
  BY <1>1, SelectedRows DEF ToolOperates
<1>6. ASSUME tool.cmd.name \in Signals
      PROVE  tool.sent \subseteq rows /\ ((rc = 0) <=> (rows # {} /\ tool.sent = rows))
  <2>1. tool.sent = UpTo(rows, tool.row)
    BY <1>1, <1>6 DEF ToolOperates
  <2>2. CASE rc = -1 /\ \E i : IsNext(i, rows, tool.row)
    <3>1. PICK i : i \in rows /\ i > tool.row
      BY <2>2 DEF IsNext
    <3>2. i \notin UpTo(rows, tool.row)
      BY <1>5, <3>1 DEF UpTo
    <3> QED
      BY <2>1, <2>2, <3>1, <3>2 DEF UpTo
  <2>3. CASE NoNext(rows, tool.row) /\ rc = IF tool.row # 0 THEN 0 ELSE -1
    <3>1. tool.sent = rows
      <4> HIDE DEF rows
      <4> QED
        BY <1>5, <2>1, <2>3, AllRows
    <3>2. tool.row # 0 <=> rows # {}
      BY <1>5, <2>3 DEF NoNext
    <3> QED
      BY <2>3, <3>1, <3>2
  <2> QED
    BY <2>2, <2>3
<1>7. Reported(tool')
  BY <1>4, <1>6 DEF Reported
<1> QED
  BY <1>2, <1>7, AtRest

(* CommittedIsTheFile and OperationsReported, of the variables they are about. *)
LEMMA AboutVariables ==
    /\ CommittedIsTheFile <=> (built # NULL => IsFile(db, built))
    /\ OperationsReported <=> Reported(tool)
BY DEF CommittedIsTheFile, IsFile, OperationsReported, Reported, Signals

(* The tool's invariant holds in the next state, when it holds of the next tool. *)
LEMMA ToolThen ==
    ASSUME ToolInv(tool'), db' = db \/ tool'.at # "operation"
    PROVE  ToolInv(tool)'
BY DEF ToolInv, ToolOperates, Selected, Named

(* Nothing that mongrel2 has loaded depends on the database, while no query reads. *)
LEMMA CommitsApart ==
    ASSUME ConfigInv, UNCHANGED <<load, seen, up, mem>>,
           Positive(db'), db' = db \/ load.stage = "start",
           writer' \in {writer, "none", "reserved"} \/ load.stage = "start"
    PROVE  ConfigInv'
<1>1. State(db, load, seen, up, mem) /\ (writer = "exclusive" => load.stage = "start")
  BY DEF ConfigInv
<1>2. State(db', load, seen, up, mem)
  BY <1>1 DEF State, Loading
<1>3. writer' = "exclusive" => load.stage = "start"
  BY <1>1
<1>4. load' = load /\ seen' = seen /\ up' = up /\ mem' = mem
  OBVIOUS
<1>5. State(db', load', seen', up', mem')
  BY <1>2, <1>4
<1> QED
  BY <1>3, <1>4, <1>5 DEF ConfigInv

(* A step of m2sh that changes no database. *)
LEMMA QuietStep ==
    ASSUME Inv, ToolInv(tool'), Reported(tool'), db' = db, built' = built,
           tool'.at = "committing" => writer' = "exclusive", ConfigInv'
    PROVE  Inv'
<1>1. CommittedIsTheFile'
  <2>1. built # NULL => IsFile(db, built)
    BY AboutVariables DEF Inv, M2shInv
  <2>2. (built # NULL => IsFile(db, built))'
    BY <2>1 DEF IsFile
  <2> QED
    BY <2>2, AboutVariables, PTL
<1>2. OperationsReported'
  <2>1. Reported(tool)'
    BY DEF Reported
  <2> QED
    BY <2>1, AboutVariables, PTL
<1>3. ToolInv(tool)'
  BY ToolThen
<1> QED
  BY <1>1, <1>2, <1>3 DEF Inv, M2shInv

(* The first state. *)
LEMMA FirstState ==
    ASSUME ConfigInit, M2shInit
    PROVE  Inv
<1>1. ToolFields(tool) /\ tool.at = "idle" /\ tool.report = NULL
  BY DEF M2shInit, ToolFields, Tool0
<1>2. ToolInv(tool) /\ Reported(tool)
  BY <1>1, AtRest DEF Reported
<1>3. CommittedIsTheFile /\ OperationsReported
  BY <1>2, AboutVariables DEF M2shInit
<1> QED
  BY <1>1, <1>2, <1>3, ConfigFirst DEF Inv, M2shInv

(* Every step of mongrel2, of m2sh and of the other tools. *)
LEMMA EveryStep ==
    ASSUME Inv, M2sh_Next
    PROVE  Inv'
<1>1. ConfigInv /\ ToolInv(tool) /\ Reported(tool) /\ (tool.at = "committing" => writer = "exclusive")
  BY AboutVariables DEF Inv, M2shInv
<1>2. Positive(db) /\ Exclusive
  BY <1>1 DEF ConfigInv, State, Exclusive
<1>3. CASE ConfigNext /\ UNCHANGED toolvars
  <2>1. ConfigInv'
    BY <1>1, <1>3, ConfigStep
  <2>2. db' = db /\ writer' = writer
    BY <1>3 DEF ConfigNext, LoadStep, DB_exec, NoMoreRows, Config_load_handlers, Config_load_proxies,
           Config_load_dirs, Config_load_server, HostRow, RouteRow, HostDone, ServerDone,
           Config_load_mimetypes, Config_load_settings, Called, Start, Reload, Shutdown, LoadServer
  <2>3. tool' = tool /\ built' = built
    BY <1>3 DEF toolvars
  <2> QED
    BY <1>1, <2>1, <2>2, <2>3, QuietStep
<1>4. CASE Command_run
  <2>1. UNCHANGED configvars /\ built' = built
    BY <1>4 DEF Command_run
  <2>2. ConfigInv'
    BY <1>1, <1>2, <2>1, CommitsApart DEF configvars
  <2>3. ToolInv(tool') /\ tool'.report = NULL /\ tool'.at # "committing"
    BY <1>2, <1>4, CommandStep
  <2> QED
    BY <2>1, <2>2, <2>3, QuietStep DEF configvars, Reported
<1>5. CASE Config_load /\ ~Committed
  <2>1. /\ ToolInv(tool') /\ tool'.report \in {tool.report, NULL}
        /\ db' = db /\ built' = built /\ UNCHANGED <<load, seen, up, pidfile, mem>>
        /\ tool'.at = "committing" => writer' = "exclusive"
        /\ writer' \in {writer, "none", "reserved"} \/ ~Reading
    BY <1>1, <1>5, ConfigLoadStep
  <2>2. ConfigInv'
    BY <1>1, <1>2, <2>1, CommitsApart DEF Reading
  <2>3. Reported(tool')
    BY <1>1, <2>1 DEF Reported
  <2> QED
    BY <2>1, <2>2, <2>3, QuietStep
<1>6. CASE Committed
  <2>1. /\ tool.at = "committing" /\ db' = tool.tables /\ built' = tool.settings /\ writer' = "none"
        /\ UNCHANGED <<load, seen, up, pidfile, mem>>
    BY <1>6 DEF Committed
  <2>2. IsFile(tool.tables, tool.settings) /\ Positive(tool.tables)
    BY <1>1, <2>1, WholeFile
  <2>3. load.stage = "start"
    BY <1>1, <1>2, <2>1 DEF Exclusive
  <2>4. ConfigInv'
    BY <1>1, <2>1, <2>2, <2>3, CommitsApart
  <2>5. ToolInv(tool') /\ tool'.at \in {"idle", "log"} /\ tool'.report = NULL
    BY <1>6, Rests
  <2>6. CommittedIsTheFile'
    <3>1. (built # NULL => IsFile(db, built))'
      BY <2>1, <2>2 DEF IsFile
    <3> QED
      BY <3>1, AboutVariables, PTL
  <2>7. OperationsReported'
    <3>1. Reported(tool)'
      BY <2>5 DEF Reported
    <3> QED
      BY <3>1, AboutVariables, PTL
  <2>8. ToolInv(tool)'
    BY <2>5, ToolThen
  <2> QED
    BY <2>4, <2>5, <2>6, <2>7, <2>8 DEF Inv, M2shInv
<1>7. CASE log_action
  <2>1. UNCHANGED configvars /\ built' = built
    BY <1>7 DEF log_action
  <2>2. ConfigInv'
    BY <1>1, <1>2, <2>1, CommitsApart DEF configvars
  <2>3. ToolInv(tool') /\ tool'.report = NULL /\ tool'.at # "committing"
    BY <1>7, Rests
  <2> QED
    BY <2>1, <2>2, <2>3, QuietStep DEF configvars, Reported
<1>8. CASE run_server
  <2>1. PICK i \in DOMAIN db.server :
          /\ Operating("start", i) /\ tool' = [tool EXCEPT !.row = i]
          /\ Start \/ UNCHANGED configvars
          /\ UNCHANGED <<log, commands, built>>
    BY <1>8 DEF run_server
  <2>2. tool.at = "operation" /\ tool.cmd.name = "start" /\ IsNext(i, Selected(tool.cmd), tool.row)
    BY <2>1 DEF Operating
  <2>3. db' = db /\ built' = built
    BY <2>1 DEF Start, LoadServer, configvars
  <2>4. ConfigInv'
    <3>1. CASE Start
      BY <1>1, <3>1, ConfigStep DEF ConfigNext
    <3>2. CASE UNCHANGED configvars
      BY <1>1, <1>2, <3>2, CommitsApart DEF configvars
    <3> QED
      BY <2>1, <3>1, <3>2
  <2>5. ToolInv(tool') /\ tool'.at = "operation" /\ tool'.report = tool.report
    <3>1. /\ ToolFields(tool') /\ tool'.at = "operation" /\ tool'.cmd = tool.cmd /\ tool'.row = i
          /\ tool'.sent = tool.sent /\ tool'.report = tool.report
      BY <1>1, <2>1, <2>2 DEF ToolInv, ToolFields, Tool0
    <3>2. ToolInv(tool')
      BY <1>1, <1>2, <2>2, <3>1, OperatedRow DEF Signals
    <3> QED
      BY <3>1, <3>2
  <2> QED
    BY <1>1, <2>3, <2>4, <2>5, QuietStep DEF Reported
<1>9. CASE signal_server
  <2>1. PICK i \in DOMAIN db.server :
          /\ \E name \in {"stop", "reload"} : Operating(name, i)
          /\ tool' = [tool EXCEPT !.row = i, !.sent = @ \cup {i}] \/ Reports(-1)
          /\ UNCHANGED <<configvars, log, commands, built>>
    BY <1>9 DEF signal_server
  <2>2. tool.at = "operation" /\ tool.cmd.name \in Signals /\ IsNext(i, Selected(tool.cmd), tool.row)
    BY <2>1 DEF Operating, Signals
  <2>3. UNCHANGED configvars /\ built' = built
    BY <2>1
  <2>4. ConfigInv'
    BY <1>1, <1>2, <2>3, CommitsApart DEF configvars
  <2>5. ToolInv(tool') /\ tool'.at # "committing" /\ Reported(tool')
    <3>1. CASE tool' = [tool EXCEPT !.row = i, !.sent = @ \cup {i}]
      <4>1. /\ ToolFields(tool') /\ tool'.at = "operation" /\ tool'.cmd = tool.cmd /\ tool'.row = i
            /\ tool'.sent = tool.sent \cup {i} /\ tool'.report = tool.report
        BY <1>1, <2>2, <3>1 DEF ToolInv, ToolFields, Tool0
      <4>2. ToolInv(tool')
        BY <1>1, <1>2, <2>2, <4>1, OperatedRow
      <4> QED
        BY <1>1, <4>1, <4>2 DEF Reported
    <3>2. CASE Reports(-1)
      <4>1. ToolInv(tool') /\ tool'.at = "idle" /\ Reported(tool')
        BY <1>1, <1>2, <2>2, <3>2, OperationEnds
      <4> QED
        BY <4>1
    <3> QED
      BY <2>1, <3>1, <3>2
  <2> QED
    BY <2>3, <2>4, <2>5, QuietStep DEF configvars
<1>10. CASE look_server
  <2>1. PICK i \in DOMAIN db.server :
          /\ \E name \in {"running", "control"} : Operating(name, i)
          /\ tool' = [tool EXCEPT !.row = i] /\ UNCHANGED configvars /\ built' = built
    BY <1>10 DEF look_server, Works
  <2>2. tool.at = "operation" /\ tool.cmd.name \notin Signals /\ IsNext(i, Selected(tool.cmd), tool.row)
    BY <2>1 DEF Operating, Signals
  <2>3. ConfigInv'
    BY <1>1, <1>2, <2>1, CommitsApart DEF configvars
  <2>4. ToolInv(tool') /\ tool'.at = "operation" /\ tool'.report = tool.report
    <3>1. /\ ToolFields(tool') /\ tool'.at = "operation" /\ tool'.cmd = tool.cmd /\ tool'.row = i
          /\ tool'.sent = tool.sent /\ tool'.report = tool.report
      BY <1>1, <2>1, <2>2 DEF ToolInv, ToolFields, Tool0
    <3>2. ToolInv(tool')
      BY <1>1, <1>2, <2>2, <3>1, OperatedRow DEF Signals
    <3> QED
      BY <3>1, <3>2
  <2> QED
    BY <1>1, <2>1, <2>3, <2>4, QuietStep DEF configvars, Reported
<1>11. CASE OperationDone
  <2>1. /\ tool.at = "operation" /\ NoNext(Selected(tool.cmd), tool.row)
        /\ Reports(IF tool.row # 0 THEN 0 ELSE -1) /\ UNCHANGED configvars /\ built' = built
    BY <1>11 DEF OperationDone
  <2>2. ToolInv(tool') /\ tool'.at = "idle" /\ Reported(tool')
    BY <1>1, <1>2, <2>1, OperationEnds
  <2>3. ConfigInv'
    BY <1>1, <1>2, <2>1, CommitsApart DEF configvars
  <2> QED
    BY <2>1, <2>2, <2>3, QuietStep DEF configvars
<1>12. CASE Edit
  <2>1. /\ ~Reading /\ tool.at # "operation" /\ db' \in Databases /\ built' = NULL
        /\ UNCHANGED <<writer, load, seen, up, pidfile, mem, tool>>
    BY <1>12 DEF Edit
  <2>2. Positive(db')
    BY <2>1, ConfigAssumption DEF IsDatabase, IsTable, Positive
  <2>3. ConfigInv'
    BY <1>1, <2>1, <2>2, CommitsApart DEF Reading
  <2>4. ToolInv(tool)'
    <3>1. ToolInv(tool') /\ tool'.at # "operation"
      BY <1>1, <2>1
    <3> QED
      BY <3>1, ToolThen
  <2>5. CommittedIsTheFile'
    <3>1. (built # NULL => IsFile(db, built))'
      BY <2>1
    <3> QED
      BY <3>1, AboutVariables, PTL
  <2>6. OperationsReported'
    <3>1. Reported(tool)'
      BY <1>1, <2>1 DEF Reported
    <3> QED
      BY <3>1, AboutVariables, PTL
  <2> QED
    BY <1>1, <2>1, <2>3, <2>4, <2>5, <2>6 DEF Inv, M2shInv
<1> QED
  BY <1>3, <1>4, <1>5, <1>6, <1>7, <1>8, <1>9, <1>10, <1>11, <1>12 DEF M2sh_Next, M2shNext

(* Nothing happens. *)
LEMMA NoStep ==
    ASSUME Inv, UNCHANGED <<configvars, toolvars>>
    PROVE  Inv'
<1>1. ConfigInv /\ ToolInv(tool) /\ Reported(tool) /\ (tool.at = "committing" => writer = "exclusive")
  BY AboutVariables DEF Inv, M2shInv
<1>2. UNCHANGED <<db, writer, load, seen, up, mem, tool, built>>
  BY DEF configvars, toolvars
<1>3. ConfigInv'
  BY <1>1, <1>2, CommitsApart DEF ConfigInv, State
<1> QED
  BY <1>1, <1>2, <1>3, QuietStep

-----------------------------------------------------------------------------
(* The theorems.                                                           *)

(* The inductive invariant implies the properties that the runs check. *)
LEMMA InvImplies == Inv => ConfigurationFaithful
BY ConfigSound DEF Inv, M2shInv, ConfigurationFaithful

(* The inductive invariant holds in every reachable state. *)
THEOREM ConfigurationInvariant == M2shSpec => []Inv
<1>1. ConfigInit /\ M2shInit => Inv
  BY FirstState
<1>2. Inv /\ [M2sh_Next]_<<configvars, toolvars>> => Inv'
  BY EveryStep, NoStep
<1> QED
  BY <1>1, <1>2, PTL DEF M2shSpec

(***************************************************************************)
(* config/config.c, mongrel2.c and m2sh, for any databases and files: at   *)
(* every moment of a load, of a reload and of a command of m2sh, whatever  *)
(* fails and whoever commits between two queries, what is served is what   *)
(* its queries read, every route leads to a loaded target that is alive,   *)
(* every object is destroyed once, a database that m2sh has committed is   *)
(* its file, and an operation that reports success has told every server.  *)
(***************************************************************************)
THEOREM ConfigurationIsFaithful == M2shSpec => []ConfigurationFaithful
  BY ConfigurationInvariant, InvImplies, PTL
=============================================================================
