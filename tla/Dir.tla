--------------------------------- MODULE Dir ----------------------------------
(***************************************************************************)
(* src/dir.c: connections are answered from the file records of one        *)
(* directory, which are cached (Cache) and counted: users is the number of *)
(* connections that use a record, plus one while it is in the cache.       *)
(* Looking a file up never switches tasks; sending does, so that files     *)
(* change, records are evicted and the directory is destroyed by a reload  *)
(* between any two sends.                                                  *)
(*                                                                         *)
(* A request path stands for the target that it is normalised to.  The     *)
(* date of a file is the second of its last change, its length is counted  *)
(* in blocks of MAX_SEND_BUFFER bytes, and an entity tag is what the code  *)
(* formats, the date and the length.                                       *)
(***************************************************************************)
EXTENDS Null, Integers, Sequences, FiniteSetsExt, FiniteSets, SequencesExt

(***************************************************************************)
(* src/cache.c: a table of a fixed number of slots.  A slot's tag is set   *)
(* to INT_MAX when the slot is used and goes down by one with every        *)
(* operation, so that the slot with the smallest tag is the one used the   *)
(* longest time ago.  The values are ids of records.                       *)
(***************************************************************************)

CONSTANTS CacheSize, INT_MAX

ASSUME CacheAssumption == CacheSize \in Nat \ {0} /\ INT_MAX \in Nat

Cache_create == [i \in 1..CacheSize |-> [tag |-> INT_MAX, data |-> NULL]]

Older(e) == [e EXCEPT !.tag = IF @ > 0 THEN @ - 1 ELSE @]

(* The first slot whose value has the key, which the values in matching do: the value *)
(* and the table after the search.                                                   *)
Cache_lookup(cache, matching) ==
    LET hits == {i \in 1..CacheSize : cache[i].data \in matching}
        i == Min(hits)
        aged == [j \in 1..CacheSize |-> Older(cache[j])]
    IN  IF hits = {} THEN [data |-> NULL, cache |-> aged]
        ELSE [data |-> cache[i].data, cache |-> [aged EXCEPT ![i].tag = INT_MAX]]

(* The slot that Cache_add takes: the first one of those with the smallest tag. *)
min_idx(cache) ==
    CHOOSE i \in 1..CacheSize :
        /\ \A j \in 1..CacheSize : cache[i].tag <= cache[j].tag
        /\ \A j \in 1..(i - 1) : cache[i].tag < cache[j].tag

Cache_add(cache, d) ==
    [evicted |-> cache[min_idx(cache)].data,
     cache |-> [[i \in 1..CacheSize |-> Older(cache[i])] EXCEPT
                   ![min_idx(cache)] = [tag |-> INT_MAX, data |-> d]]]

(* The value is evicted from every slot that holds it. *)
Cache_evict_object(cache, d) ==
    [i \in 1..CacheSize |->
        IF cache[i].data = d THEN [tag |-> 0, data |-> NULL] ELSE cache[i]]

Cached(cache) == {cache[i].data : i \in 1..CacheSize} \ {NULL}

CONSTANTS
    Clients,     \* connections
    PathSeq,     \* request paths, in the order of their first inodes
    FR_CACHE_TIME_TO_LIVE,
    MaxEvents,   \* bound: requests, changes of files and seconds
    MaxChanges,  \* bound: changes of files
    Changing,    \* bound: the paths whose files change
    MaxSize      \* bound: blocks of a file

Paths == Range(PathSeq)
Records == 1..(CacheSize + Cardinality(Clients) + 1)

(* What stat tells of a file; a FileRecord; a slot of the cache. *)
FileStat == [mtime : Nat, size : Nat]

FileRecord ==
    [path : Paths, is_dir : BOOLEAN, users : Nat, st : FileStat, ino : Nat, loaded : Nat \cup {NULL}]

Slot == [tag : Nat, data : Records \cup {NULL}]

ASSUME DirAssumption ==
    /\ IsFiniteSet(Clients)
    /\ PathSeq \in Seq(Paths) /\ PathSeq # <<>> /\ Changing \subseteq Paths
    /\ FR_CACHE_TIME_TO_LIVE \in Nat /\ MaxSize \in Nat
    /\ NULL \notin Nat /\ NULL \notin Records /\ NULL \notin FileRecord
    /\ NULL \notin [1..CacheSize -> Slot]

VARIABLES
    disk,      \* [Paths -> what is there]
    inodes,    \* length of every file that was ever on the disk
    clock,     \* seconds
    fr,        \* [Records -> a file record, or NULL when it is free]
    fr_cache,  \* the cache, or NULL once the directory is destroyed
    client,    \* [Clients -> where the connection is]
    copy,      \* [Clients -> path, header and blocks of the last file a client got, or NULL]
    ssl,       \* the server's connections are encrypted
    leaked,    \* a file that was opened again is never closed
    gone,      \* ghost: path, date and length of the versions that were replaced, and when
    used,      \* ghost: [Records -> number of the operation that used it last]
    requests,
    changes

dirvars == <<disk, inodes, clock, fr, fr_cache, client, copy, ssl, leaked, gone, used, requests, changes>>

Quiet == requests + changes + clock < MaxEvents

Nothing == [kind |-> "none", ino |-> 0, mtime |-> 0]
Idle == [pc |-> "idle"]

Size(p) == inodes[disk[p].ino]
(* mutant: the tag leaves out the length *)
etag_Date(st) == <<st.mtime>>

etag(st) == <<st.mtime, st.size>>

Stat(p) == [mtime |-> disk[p].mtime, size |-> Size(p)]

DirInit ==
    /\ inodes = [i \in 1..Len(PathSeq) |-> 1]
    /\ disk = [p \in Paths |-> [kind |-> IF p = Last(PathSeq) THEN "dir" ELSE "file",
                                ino |-> CHOOSE i \in 1..Len(PathSeq) : PathSeq[i] = p,
                                mtime |-> 0]]
    /\ ssl \in BOOLEAN
    /\ clock = 0
    /\ fr = [r \in Records |-> NULL]
    /\ fr_cache = Cache_create
    /\ client = [c \in Clients |-> Idle]
    /\ copy = [c \in Clients |-> NULL]
    /\ leaked = FALSE
    /\ gone = {}
    /\ used = [r \in Records |-> 0]
    /\ requests = 0
    /\ changes = 0

-----------------------------------------------------------------------------
(* mutant: the caller's use alone keeps no record *)
FileRecord_release_Early(f, r) ==
    IF r = NULL THEN f
    ELSE IF f[r].users <= 2 THEN [f EXCEPT ![r] = NULL]
    ELSE [f EXCEPT ![r].users = @ - 1]

(* FileRecord_release, on the records f: at zero users the record is destroyed. *)
FileRecord_release(f, r) ==
    IF r = NULL THEN f
    ELSE IF f[r].users = 1 THEN [f EXCEPT ![r] = NULL]
    ELSE [f EXCEPT ![r].users = @ - 1]

(* FileRecord_cache_check: the record in the cache, unless it is too old and the file *)
(* has another date or length by now, or is gone.  A directory's record was never     *)
(* loaded, which counts as loaded at the epoch.                                       *)
Expired(r) == fr[r].loaded = NULL \/ clock - fr[r].loaded > FR_CACHE_TIME_TO_LIVE

Changed(r) ==
    \/ disk[fr[r].path].kind = "none"
    \/ fr[r].st # Stat(fr[r].path)

FileRecord_cache_check(p) ==
    LET found == Cache_lookup(fr_cache, {r \in Records : fr[r] # NULL /\ fr[r].path = p})
        r == found.data
    IN  IF r = NULL \/ ~Expired(r) THEN [data |-> r, cache |-> found.cache, fr |-> fr]
        ELSE IF Changed(r)
        THEN [data |-> NULL, cache |-> Cache_evict_object(found.cache, r),
              fr |-> FileRecord_release(fr, r)]
        ELSE [data |-> r, cache |-> found.cache, fr |-> [fr EXCEPT ![r].loaded = clock]]

(* Dir_find_file: the new record of what is at the path. *)
Dir_find_file(p) ==
    [path |-> p, is_dir |-> disk[p].kind = "dir", users |-> 1, st |-> Stat(p),
     ino |-> disk[p].ino, loaded |-> IF disk[p].kind = "dir" THEN NULL ELSE clock]

(* Dir_resolve_file: the record of a path with one more user, or NULL; the records and *)
(* the cache after it.  A new record enters the cache, which may evict another one.    *)
Dir_resolve_file(p) ==
    LET checked == FileRecord_cache_check(p)
        new == Min({r \in Records : checked.fr[r] = NULL})
        added == Cache_add(checked.cache, new)
    IN  IF checked.data # NULL
        THEN [data |-> checked.data, cache |-> checked.cache,
              fr |-> [checked.fr EXCEPT ![checked.data].users = @ + 1]]
        ELSE IF disk[p].kind = "none" THEN checked
        ELSE [data |-> new, cache |-> added.cache,
              fr |-> FileRecord_release(
                        [checked.fr EXCEPT ![new] = [Dir_find_file(p) EXCEPT !.users = 2]],
                        added.evicted)]

-----------------------------------------------------------------------------
(* Dir_if_modified_since, Dir_none_match and Dir_calculate_response.  A request's  *)
(* conditions: the tag of If-None-Match and the seconds of If-Modified-Since and   *)
(* If-Unmodified-Since, each NULL when the request does not have it.  The answers: *)
(* a status, or "send" to go on with the file.                                     *)
Dir_if_modified_since(f, since) ==
    IF since <= clock /\ f.st.mtime <= since THEN "304" ELSE "send"

Dir_none_match(f, since, tag) ==
    IF tag = etag(f.st) THEN "304"
    ELSE IF since # NULL THEN Dir_if_modified_since(f, since)
    ELSE "send"

Dir_calculate_response(f, cond) ==
    LET later == IF cond.tag # NULL THEN Dir_none_match(f, cond.modified, cond.tag)
                 ELSE Dir_if_modified_since(f, cond.modified)
    IN  IF f = NULL THEN "404"
        ELSE IF f.is_dir THEN "301"
        ELSE IF cond.unmodified # NULL /\ f.st.mtime > cond.unmodified THEN "412"
        ELSE IF cond.tag # NULL \/ cond.modified # NULL THEN later
        ELSE IF cond.unmodified # NULL THEN "500"
        ELSE "send"

(* What a client may ask: everything, or to have its copy confirmed. *)
Unconditional == [tag |-> NULL, modified |-> NULL, unmodified |-> NULL]

Conditions(c, p) ==
    {Unconditional} \cup
    IF copy[c] = NULL \/ copy[c].path # p THEN {}
    ELSE {[tag |-> etag(copy[c].st), modified |-> NULL, unmodified |-> NULL],
          [tag |-> NULL, modified |-> copy[c].st.mtime, unmodified |-> NULL],
          [tag |-> etag(copy[c].st), modified |-> copy[c].st.mtime, unmodified |-> NULL],
          [tag |-> NULL, modified |-> NULL, unmodified |-> copy[c].st.mtime]}

(* Dir_serve_file up to its first send.  A HEAD is taken as a GET is. *)
Dir_serve_file(c, p, method, cond) ==
    /\ client[c].pc = "idle" /\ fr_cache # NULL /\ Quiet
    /\ LET found == IF method = "POST" THEN [data |-> NULL, cache |-> fr_cache, fr |-> fr]
                    ELSE Dir_resolve_file(p)
           file == IF found.data = NULL THEN NULL ELSE found.fr[found.data]
           status == IF method = "POST" THEN "405" ELSE Dir_calculate_response(file, cond)
       IN  /\ fr' = found.fr
           /\ fr_cache' = found.cache
           /\ used' = [r \in Records |-> IF r = found.data THEN requests + 1 ELSE used[r]]
           /\ client' = [client EXCEPT ![c] =
                  IF status = "send" THEN [pc |-> "header", file |-> found.data]
                  ELSE [pc |-> "status", file |-> found.data,
                        by_tag |-> status = "304" /\ cond.modified = NULL]]
    /\ requests' = requests + 1
    /\ UNCHANGED <<disk, inodes, clock, copy, ssl, leaked, gone, changes>>

(* The end of Dir_serve_file, on either path: the connection's use of the record ends. *)
Served(c) ==
    /\ fr' = FileRecord_release(fr, client[c].file)
    /\ client' = [client EXCEPT ![c] = Idle]
    /\ UNCHANGED <<disk, inodes, clock, fr_cache, used, requests, changes>>

Response_send_status(c) ==
    /\ client[c].pc = "status"
    /\ Served(c)
    /\ UNCHANGED <<copy, ssl, leaked, gone>>

(* The request is a HEAD, or the header cannot be sent; or a GET's header is out, and the *)
(* body follows from the record's descriptor or, with SSL, from the file opened again,    *)
(* which may fail or find another file.                                                   *)
Dir_send_header(c) ==
    /\ client[c].pc = "header"
    /\ \/ Served(c)
       \/ /\ LET f == fr[client[c].file]
                 body == IF ssl THEN disk[f.path] ELSE [kind |-> "file", ino |-> f.ino]
             IN  /\ body.kind = "file"
                 /\ client' = [client EXCEPT ![c] =
                        [pc |-> "stream", file |-> @.file, body |-> body.ino, total |-> 0]]
          /\ UNCHANGED <<disk, inodes, clock, fr, fr_cache, used, requests, changes>>
    /\ UNCHANGED <<copy, ssl, leaked, gone>>

(* Dir_stream_file's loops: one block is sent, or the loop is over and what was sent is *)
(* compared with the length in the header.                                              *)
StreamMore(c) ==
    LET b == client[c] IN
    IF ssl THEN b.total < inodes[b.body] ELSE b.total < fr[b.file].st.size

StreamedAll(c) == client[c].total = fr[client[c].file].st.size

Dir_stream_block(c) ==
    /\ client[c].pc = "stream" /\ StreamMore(c)
    /\ client[c].total < inodes[client[c].body]
    /\ client' = [client EXCEPT ![c].total = @ + 1]
    /\ UNCHANGED <<disk, inodes, clock, fr, fr_cache, copy, ssl, leaked, gone, used, requests, changes>>

(* The descriptor of the file that was opened again is in a variable of the inner block, *)
(* which the error path does not see.                                                    *)
Dir_stream_fails(c) ==
    /\ client[c].pc = "stream" /\ StreamMore(c)
    /\ leaked' = (leaked \/ ssl)
    /\ UNCHANGED gone
    /\ Served(c)
    /\ UNCHANGED <<copy, ssl>>

Dir_stream_ends(c) ==
    /\ client[c].pc = "stream" /\ ~StreamMore(c)
    /\ Served(c)
    /\ LET f == fr[client[c].file]
       IN  copy' = IF ~StreamedAll(c) THEN copy
                   ELSE [copy EXCEPT ![c] =
                            [path |-> f.path, st |-> f.st, blocks |-> client[c].total]]
    /\ UNCHANGED <<ssl, leaked, gone>>

-----------------------------------------------------------------------------
(* A reload: Dir_destroy, and with it the cache's use of each record that is in one of *)
(* its slots (in one, as OneRecordPerPath shows).  Connections that are sending keep   *)
(* theirs.                                                                             *)
Dir_destroy ==
    /\ fr_cache # NULL
    /\ fr' = [r \in Records |->
                 IF r \in Cached(fr_cache) THEN FileRecord_release(fr, r)[r] ELSE fr[r]]
    /\ fr_cache' = NULL
    /\ UNCHANGED <<disk, inodes, clock, client, copy, ssl, leaked, gone, used, requests, changes>>

(* The world: files are written in place, replaced by others or removed; time passes. *)
ChangeFile(p) ==
    /\ changes < MaxChanges /\ Quiet
    /\ changes' = changes + 1
    /\ gone' = IF disk[p].kind = "none" THEN gone ELSE gone \cup {<<p, Stat(p), clock>>}
    /\ \/ \E n \in 1..MaxSize :
              /\ disk[p].kind = "file"
              /\ inodes' = [inodes EXCEPT ![disk[p].ino] = n]
              /\ disk' = [disk EXCEPT ![p].mtime = clock]
       \/ \E n \in 1..MaxSize :
              /\ inodes' = Append(inodes, n)
              /\ disk' = [disk EXCEPT ![p] =
                             [kind |-> "file", ino |-> Len(inodes) + 1, mtime |-> clock]]
       \/ /\ disk[p].kind # "none"
          /\ disk' = [disk EXCEPT ![p] = Nothing]
          /\ UNCHANGED inodes
    /\ UNCHANGED <<clock, fr, fr_cache, client, copy, ssl, leaked, used, requests>>

Second ==
    /\ Quiet
    /\ clock' = clock + 1
    /\ UNCHANGED <<disk, inodes, fr, fr_cache, client, copy, ssl, leaked, gone, used, requests, changes>>

DirNext ==
    \/ \E c \in Clients :
          \/ \E p \in Paths, m \in {"GET", "POST"} :
                \E cond \in Conditions(c, p) : Dir_serve_file(c, p, m, cond)
          \/ Response_send_status(c) \/ Dir_send_header(c)
          \/ Dir_stream_block(c) \/ Dir_stream_fails(c) \/ Dir_stream_ends(c)
    \/ Dir_destroy
    \/ \E p \in Changing : ChangeFile(p)
    \/ Second

DirSpec == DirInit /\ [][DirNext]_dirvars

-----------------------------------------------------------------------------
(* The uses of a record by connections. *)
UsedBy(r) == {c \in Clients : client[c].pc \in {"status", "header", "stream"} /\ client[c].file = r}

SlotsOf(r) == IF fr_cache = NULL THEN {} ELSE {i \in 1..CacheSize : fr_cache[i].data = r}

(* FileRecord_release: a record's users are the connections that are sending it and its *)
(* slot of the cache, whatever is evicted, expires or is destroyed between two sends;   *)
(* so nobody is left with a record that was freed.                                      *)
UsersAreHolders ==
    \A r \in Records :
        LET holders == Cardinality(UsedBy(r)) + Cardinality(SlotsOf(r))
        IN  IF fr[r] = NULL THEN holders = 0 ELSE fr[r].users = holders /\ holders > 0

(* Dir_resolve_file looks a path up and adds its record without switching tasks, so that *)
(* a path never has two records in the cache.                                            *)
OneRecordPerPath ==
    fr_cache # NULL =>
        \A i, j \in 1..CacheSize :
            /\ fr_cache[i].data # NULL /\ fr_cache[j].data # NULL
            /\ fr[fr_cache[i].data].path = fr[fr_cache[j].data].path
            => i = j

(* A date and length that the path had at most FR_CACHE_TIME_TO_LIVE ago. *)
WasThere(p, st) ==
    \/ disk[p].kind # "none" /\ Stat(p) = st
    \/ \E v \in gone : v[1] = p /\ v[2] = st /\ v[3] >= clock - FR_CACHE_TIME_TO_LIVE

(* FileRecord_cache_check: the header of a file that is sent was right no longer than *)
(* the cache's time to live before the request.                                       *)
HeadersAreFresh ==
    [][\A c \in Clients :
        client[c].pc = "idle" /\ client'[c].pc = "header" =>
            WasThere(fr'[client'[c].file].path, fr'[client'[c].file].st)]_dirvars

(* Dir_none_match: when a client is told by the tag alone that its copy is not modified, *)
(* its copy is what was there within the time to live.                                   *)
ConfirmedCopiesAreFresh ==
    [][\A c \in Clients :
        client[c].pc = "idle" /\ client'[c].pc = "status" /\ client'[c].by_tag =>
            WasThere(copy[c].path, copy[c].st)]_dirvars

(* Dir_stream_file: a body that counts as sent has the length that its header announced, *)
(* although files are written and replaced while they are sent.                          *)
BodyAsAnnounced == \A c \in Clients : copy[c] # NULL => copy[c].blocks = copy[c].st.size

(* Cache_add makes room by evicting the record that was used the longest time ago. *)
EvictsLeastRecent ==
    [][fr_cache # NULL /\ fr_cache' # NULL =>
        \A r \in Cached(fr_cache) \ Cached(fr_cache') :
            \/ Expired(r) /\ Changed(r)
            \/ \A q \in Cached(fr_cache) \cap Cached(fr_cache') : used[r] < used[q]]_dirvars

(***************************************************************************)
(* dir.c, cache.c: a file record lives exactly as long as somebody sends   *)
(* it or the cache holds it, there is one per path, and what was sent has  *)
(* the announced length.                                                   *)
(***************************************************************************)
RecordsAccounted ==
    /\ UsersAreHolders /\ OneRecordPerPath /\ BodyAsAnnounced

(***************************************************************************)
(* dir.c, cache.c: what a client is sent or told to keep was on the disk   *)
(* within the time to live, and the cache gives up the record that was     *)
(* used the longest time ago.                                              *)
(***************************************************************************)
CopiesAreFresh ==
    /\ HeadersAreFresh /\ ConfirmedCopiesAreFresh /\ EvictsLeastRecent
=============================================================================
