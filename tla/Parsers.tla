------------------------------- MODULE Parsers --------------------------------
(***************************************************************************)
(* The four parsers at work.  A request arrives in pieces, as              *)
(* Connection_read_header feeds them: each call is given the whole buffer  *)
(* read so far and the offset it has reached.  Of an upstream reply, what  *)
(* the first read brings is parsed in one call (Proxy_read_and_parse), and *)
(* so are handler messages and control commands.  Inputs are rendered from *)
(* their parts, so that what a parser must say of them is known; some are  *)
(* damaged in one place or cut off.                                        *)
(***************************************************************************)
EXTENDS HttpParser

(***************************************************************************)
(* The parser of handler messages, handler_parser.c as compiled: a uuid, a *)
(* netstring of connection ids, and the body.  It is generated without an  *)
(* end test: it goes on over the memory behind the message until it fails  *)
(* or meets the end of the head.                                           *)
(***************************************************************************)

UuidChar == Digit \cup Alpha \cup {45}

HandlerUuid ==
    1 :> {<<UuidChar, 2, <<"mark">>>>}
    @@ 2 :> {<<UuidChar, 2, <<>>>>, <<{SP}, 3, <<"uuid">>>>}
    @@ 3 :> {<<Digit, 4, <<"mark">>>>}
    @@ 4 :> {<<Digit, 4, <<>>>>, <<{COLON}, 5, <<"length">>>>}

HandlerIdents ==
    5 :> {<<{COMMA}, 6, <<"targets_begin", "targets_end">>>>, <<Digit, 7, <<"targets_begin", "mark">>>>}
    @@ 6 :> {<<{SP}, 9, <<"done">>>>}
    @@ 7 :> {<<Digit, 7, <<>>>>, <<{SP}, 8, <<>>>>, <<{COMMA}, 6, <<"identifier", "targets_end">>>>}
    @@ 8 :> {<<Digit, 7, <<"identifier", "mark">>>>, <<{COMMA}, 6, <<"identifier", "targets_end">>>>}

HandlerTable == HandlerUuid @@ HandlerIdents

HandlerParser_create(max) ==
    [cs |-> 1, mark |-> 0, targets_start |-> 0, expected |-> 0, uuid |-> <<>>, targets |-> <<>>,
     max |-> max, failed |-> FALSE, halt |-> FALSE]

Check(ok, parser) == IF ok THEN parser ELSE [parser EXCEPT !.failed = TRUE, !.halt = TRUE]

HandlerAction(memory, name, parser, pos) ==
    CASE name = "mark" -> [parser EXCEPT !.mark = pos]
      [] name = "uuid" -> [parser EXCEPT !.uuid = SubSeq(memory, parser.mark + 1, pos)]
      [] name = "length" -> [parser EXCEPT !.expected = strtol(memory, parser.mark, 10)]
      [] name = "identifier" ->
            Check(Len(parser.targets) < parser.max,
                  [parser EXCEPT !.targets =
                      IF Len(@) < parser.max THEN Append(@, strtol(memory, parser.mark, 10)) ELSE @])
      [] name = "targets_begin" -> [parser EXCEPT !.targets_start = pos]
      [] name = "targets_end" -> Check(pos - parser.targets_start = parser.expected, parser)
      [] name = "done" -> [parser EXCEPT !.halt = TRUE]

(* behind is the memory after the message of len characters. *)
HandlerParser_execute(parser, message, behind) ==
    LET memory == message \o behind
        run == Exec(HandlerTable, LAMBDA name, q, pos : HandlerAction(memory, name, q, pos),
                    parser, memory, 0)
        inside == ~run.parser.failed /\ run.p <= Len(message)
    IN  [parser |-> run.parser,
         body |-> IF inside THEN SubSeq(message, run.p + 1, Len(message)) ELSE <<>>,
         rc |-> IF ~inside \/ run.parser.cs = 0 THEN -1 ELSE IF run.parser.cs >= 9 THEN 1 ELSE 0]

(***************************************************************************)
(* Commands of the control port: control.c as compiled.  The request is a  *)
(* NUL-terminated string and the machine has no end test, so it stops at   *)
(* the NUL at the latest.  ids maps the registered ids to descriptors.     *)
(***************************************************************************)

CONSTANT MAX_REGISTERED_FDS

StatusCommand ==
    Literal(18, <<116, 97, 116, 117, 115>>, 23)
    @@ 23 :> {<<Space, 24, <<>>>>}
    @@ 24 :> {<<Space, 24, <<>>>>, <<{110}, 25, <<>>>>, <<{116}, 27, <<>>>>}
    @@ 25 :> {<<{101}, 26, <<>>>>}
    @@ 26 :> {<<{116}, 34, <<"status_net">>>>}
    @@ Literal(27, <<97, 115, 107>>, 30)
    @@ 30 :> {<<{115}, 34, <<"status_tasks">>>>}

StopCommand ==
    Literal(2, <<111, 110, 116, 114, 111, 108, SP, 115, 116, 111>>, 12)
    @@ 12 :> {<<{112}, 34, <<"control_stop">>>>}

KillCommand ==
    Literal(13, <<105, 108, 108>>, 16)
    @@ 16 :> {<<Space, 17, <<>>>>}
    @@ 17 :> {<<Space, 17, <<>>>>, <<Digit, 35, <<"kill">>>>}

TimeCommand ==
    Literal(31, <<105, 109>>, 33) @@ 33 :> {<<{101}, 34, <<"time">>>>}

ControlTable ==
    1 :> {<<{99}, 2, <<>>>>, <<{107}, 13, <<>>>>, <<{115}, 18, <<>>>>, <<{116}, 31, <<>>>>}
    @@ StatusCommand @@ StopCommand @@ KillCommand @@ TimeCommand

Register_fd_for_id(ids, id) == IF id \in DOMAIN ids THEN ids[id] ELSE -1

(* The limit itself passes the check and fails the assertion of            *)
(* Register_fd_for_id.                                                     *)
Kill(ids, id) ==
    CASE id > MAX_REGISTERED_FDS -> [reply |-> "invalid id", closed |-> {}]
      [] id = MAX_REGISTERED_FDS -> [reply |-> "abort", closed |-> {}]
      [] OTHER -> LET fd == Register_fd_for_id(ids, id)
                  IN  IF fd > 0 THEN [reply |-> "killed", closed |-> {fd}]
                      ELSE [reply |-> "does not exist", closed |-> {}]

ControlAction(memory, ids, name, parser, pos) ==
    LET done == IF name = "kill" THEN Kill(ids, strtol(memory, pos, 10))
                ELSE [reply |-> name, closed |-> {}]
    IN  [parser EXCEPT !.halt = TRUE, !.reply = done.reply, !.closed = done.closed]

Control_execute(ids, req) ==
    LET memory == Append(req, NUL)
        run == Exec(ControlTable,
                    LAMBDA name, q, pos : ControlAction(memory, ids, name, q, pos),
                    [cs |-> 1, reply |-> "none", closed |-> {}, halt |-> FALSE], memory, 0)
    IN  IF run.parser.cs = 0
        THEN [reply |-> IF run.p < Len(req) THEN "parsing error" ELSE "fatal error", closed |-> {}]
        ELSE [reply |-> IF run.parser.reply = "none" THEN "invalid command" ELSE run.parser.reply,
              closed |-> run.parser.closed]

CONSTANTS Requests, Replies, Messages, Commands, Damages, Tails, MaxTargets, Ids

VARIABLES
    machine,    (* "http", "client", "handler" or "control" *)
    input,      (* the parts the text was rendered from *)
    damaged,    (* the text was changed in one place or cut *)
    text,       (* everything the peer sends *)
    arrived,       (* how much of it has arrived and was parsed *)
    parser,     (* the parser's state, or the outcome of a one-call parser *)
    running     (* CONTROL_RUNNING *)

parsersvars == <<machine, input, damaged, text, arrived, parser, running>>

(***************************************************************************)
(* Rendering.  A field is a record of a name, the spaces after the colon   *)
(* and a value.                                                            *)
(***************************************************************************)
FieldText(field, eol) == field.name \o <<COLON>> \o field.space \o field.value \o eol
FieldsText(fields, eol) == FlattenSeq([i \in DOMAIN fields |-> FieldText(fields[i], eol)])

UriText(r) == r.path \o r.params \o (IF r.query = <<>> THEN <<>> ELSE <<QUERY>> \o Tail(r.query))

RequestText(r) ==
    IF r.kind = "json" THEN r.path \o <<SP>> \o r.body \o <<NUL>>
    ELSE r.method \o <<SP>> \o UriText(r)
         \o (IF r.fragment = <<>> THEN <<>> ELSE <<HASH>> \o Tail(r.fragment))
         \o <<SP>> \o r.version \o r.eol \o FieldsText(r.fields, r.eol) \o r.eol \o r.body

ReplyText(r) ==
    IF r.kind = "chunk" THEN r.size \o r.extension \o r.eol \o r.body
    ELSE r.version \o <<SP>> \o r.status \o <<SP>> \o r.reason \o r.eol
         \o FieldsText(r.fields, r.eol) \o r.eol \o r.body

MessageText(m) == m.uuid \o <<SP>> \o m.length \o <<COLON>> \o m.targets \o <<COMMA, SP>> \o m.body

Rendered(kind, x) ==
    CASE kind = "http" -> RequestText(x)
      [] kind = "client" -> ReplyText(x)
      [] kind = "handler" -> MessageText(x)
      [] OTHER -> x

Started(kind) ==
    CASE kind = "http" -> http_parser_init
      [] kind = "client" -> httpclient_parser_init
      [] kind = "handler" -> [rc |-> 0, behind |-> <<>>]
      [] OTHER -> [reply |-> "none"]

(***************************************************************************)
(* The run of one input.                                                   *)
(***************************************************************************)
ParsersInit ==
    /\ \/ machine = "http" /\ input \in Requests
       \/ machine = "client" /\ input \in Replies
       \/ machine = "handler" /\ input \in Messages
       \/ machine = "control" /\ input \in Commands
    /\ LET good == Rendered(machine, input)
       IN  \/ damaged = FALSE /\ text = good
           \/ /\ damaged = TRUE
              /\ \E i \in DOMAIN good, c \in Damages : c # good[i] /\ text = [good EXCEPT ![i] = c]
           \/ /\ damaged = TRUE /\ machine \in {"handler", "control"}
              /\ \E n \in 1 .. Len(good) - 1 : text = SubSeq(good, 1, n)
    /\ arrived = 0
    /\ parser = Started(machine)
    /\ running = TRUE

ParserFinished == IF machine = "http" THEN http_parser_is_finished(parser)
            ELSE httpclient_parser_finish(parser) = 1

(* One read brings n more characters and one call parses them. *)
Receive(n) ==
    /\ machine = "http"
    /\ arrived + n <= Len(text)
    /\ ~ParserFinished /\ ~http_parser_has_error(parser)
    /\ arrived' = arrived + n
    /\ parser' = http_parser_execute(parser, SubSeq(text, 1, arrived + n), arrived)
    /\ UNCHANGED <<machine, input, damaged, text, running>>

(* The first read of a reply brings n characters. *)
ReplyRead(n) ==
    /\ machine = "client" /\ arrived = 0
    /\ arrived' = n
    /\ parser' = httpclient_parser_execute(httpclient_parser_init, SubSeq(text, 1, n), 0)
    /\ UNCHANGED <<machine, input, damaged, text, running>>

HandlerMessage(behind) ==
    /\ machine = "handler" /\ arrived = 0
    /\ arrived' = Len(text)
    /\ parser' = HandlerParser_execute(HandlerParser_create(MaxTargets), text, behind)
                 @@ [behind |-> behind]
    /\ UNCHANGED <<machine, input, damaged, text, running>>

(* Control_task: the reply of the stop command is arrived before the loop     *)
(* ends; a failed assertion ends the process.                              *)
ControlCommand ==
    /\ machine = "control" /\ arrived = 0 /\ running
    /\ arrived' = Len(text)
    /\ parser' = Control_execute(Ids, text)
    /\ running' = (parser'.reply \notin {"control_stop", "abort"})
    /\ UNCHANGED <<machine, input, damaged, text>>

ParsersNext ==
    \/ \E n \in {1, 2, Len(text) - arrived} \ {0} : Receive(n)
    \/ \E n \in DOMAIN text : ReplyRead(n)
    \/ \E behind \in Tails : HandlerMessage(behind)
    \/ ControlCommand

-----------------------------------------------------------------------------
(* What the callbacks were given. *)
Slice(at, len) == SubSeq(text, at + 1, at + len)
Told(call) == IF call.name = "http_field"
              THEN <<call.name, Slice(call.field, call.flen), Slice(call.at, call.len)>>
              ELSE <<call.name, Slice(call.at, call.len)>>
Heard == [i \in DOMAIN parser.calls |-> Told(parser.calls[i])]

FieldCalls(fields) == [i \in DOMAIN fields |-> <<"http_field", fields[i].name, fields[i].value>>]

(* What a request says.  A JSON message calls request_path once more with  *)
(* the query included.                                                     *)
RequestCalls(r) ==
    LET path == IF r.kind = "rooted" THEN << <<"request_path", r.path>> >> ELSE <<>>
        query == IF r.query = <<>> THEN <<>> ELSE << <<"query_string", Tail(r.query)>> >>
        fragment == IF r.fragment = <<>> THEN <<>> ELSE << <<"fragment", Tail(r.fragment)>> >>
    IN  IF r.kind = "json" THEN << <<"request_path", r.path>> >>
        ELSE << <<"request_method", r.method>> >> \o path \o query
             \o << <<"request_uri", UriText(r)>> >> \o fragment
             \o << <<"http_version", r.version>> >> \o FieldCalls(r.fields)

Streamed == machine \in {"http", "client"}

(* A parser never points outside what has arrived: the assertions at the   *)
(* end of both execute functions, and every range given to a callback,     *)
(* whatever the input and wherever it is cut.  The one exception: a value  *)
(* of Content-Length or Transfer-Encoding on the line after its name is    *)
(* also taken for the start of a name, and told with the length of the     *)
(* name before it, which may reach past the end.                           *)
StaysInBuffer ==
    Streamed /\ arrived > 0 =>
        /\ parser.nread <= arrived + (IF machine = "client" /\ parser.body_start > 0 THEN 1 ELSE 0)
        /\ parser.body_start <= arrived
        /\ parser.mark < arrived /\ parser.field_len <= arrived /\ parser.field_start < arrived
        /\ \A i \in DOMAIN parser.calls :
             LET call == parser.calls[i]
             IN  /\ call.len >= 0 /\ call.at + call.len <= arrived
                 /\ call.flen >= 0
                 /\ call.field + call.flen <= arrived \/ (machine = "client" /\ call.field = call.at)

(* However a request is cut into reads, the parser is where one call for   *)
(* all that has arrived would have brought it.                             *)
SplitsDoNotMatter ==
    machine = "http" =>
        LET whole == http_parser_execute(http_parser_init, SubSeq(text, 1, arrived), 0)
        IN  [parser EXCEPT !.halt = FALSE] = [whole EXCEPT !.halt = FALSE]

(* A request that is rendered correctly is finished, and the callbacks get *)
(* its parts: method, path, query, uri, fragment, version and fields, with *)
(* the body right behind the head.                                         *)
HttpFaithful ==
    machine = "http" /\ ~damaged =>
        /\ ~http_parser_has_error(parser)
        /\ arrived = Len(text) => ParserFinished
        /\ ParserFinished =>
             /\ Heard = RequestCalls(input)
             /\ parser.json_sent = (input.kind = "json")
             /\ input.kind # "json" => SubSeq(text, parser.body_start + 1, Len(text)) = input.body

(* The lines of a head, without their ends. *)
LineEnds(head) == SetToSortSeq({i \in DOMAIN head : head[i] = LF}, <)
Line(head, i) ==
    LET ends == LineEnds(head)
        from == IF i = 1 THEN 1 ELSE ends[i - 1] + 1
        last == ends[i] - 1
    IN  SubSeq(head, from, IF last >= from /\ head[last] = CR THEN last - 1 ELSE last)

(* A line as a field: its name up to the colon, and its value without the  *)
(* spaces in front.                                                        *)
LineCall(line) ==
    LET colon == CHOOSE i \in DOMAIN line : line[i] = COLON /\ \A j \in 1 .. i - 1 : line[j] # COLON
        rest == SubSeq(line, colon + 1, Len(line))
        words == {i \in DOMAIN rest : rest[i] # SP}
    IN  <<"http_field", SubSeq(line, 1, colon - 1),
          IF words = {} THEN <<>> ELSE SubSeq(rest, CHOOSE i \in words : \A j \in words : i <= j, Len(rest))>>

(* Whatever is accepted as a request, damaged or not, is read line by      *)
(* line: every line after the first up to an empty one has been told as    *)
(* one field, its name at a colon and its value up to the line's end; no   *)
(* value holds a line end.                                                 *)
AcceptedLineByLine ==
    machine = "http" /\ ParserFinished /\ ~parser.json_sent /\ ~parser.socket_started =>
        LET head == SubSeq(text, 1, parser.body_start)
            lines == Cardinality({i \in DOMAIN head : head[i] = LF})
            fields == SelectSeq(Heard, LAMBDA told : told[1] = "http_field")
        IN  /\ Line(head, lines) = <<>>
            /\ fields = [i \in 1 .. lines - 2 |-> LineCall(Line(head, i + 1))]
            /\ \A i \in DOMAIN Heard, k \in {1, 2} :
                 k + 1 \in DOMAIN Heard[i] => \A c \in {CR, LF} : c \notin ToSet(Heard[i][k + 1])

(* What a reply head means for the body that follows. *)
Lower(name) == [i \in DOMAIN name |-> IF name[i] \in 65 .. 90 THEN name[i] + 32 ELSE name[i]]
content_length == <<99, 111, 110, 116, 101, 110, 116, 45, 108, 101, 110, 103, 116, 104>>
transfer_encoding == <<116, 114, 97, 110, 115, 102, 101, 114, 45, 101, 110, 99, 111, 100, 105, 110, 103>>
chunked == <<99>> \o hunked

Lengths(fields) == SelectSeq(fields, LAMBDA f : Lower(f.name) = content_length
                                                /\ f.value # <<>> /\ ToSet(f.value) \subseteq Digit)
SaysChunked(fields) == \E i \in DOMAIN fields : Lower(fields[i].name) = transfer_encoding
                                                /\ Lower(fields[i].value) = chunked
(* The machine takes the end of such a head for one more line end in front *)
(* of the value, and is_finished compares with the other final state only. *)
EndsInEmptyKnownField(r) ==
    /\ r.kind = "reply" /\ r.fields # <<>>
    /\ Lower(Last(r.fields).name) \in {content_length, transfer_encoding}
    /\ Last(r.fields).value = <<>>

ReplyCalls(r) ==
    << <<"http_version", r.version>>, <<"status_code", r.status>>, <<"reason_phrase", r.reason>> >>
    \o FieldCalls(r.fields)

(* A reply head that is rendered correctly is finished with its status and *)
(* fields, the last well-formed Content-Length and the chunked encoding in *)
(* any letter case, and a chunk head with its size, the last chunk only    *)
(* when that is zero.                                                      *)
ClientFaithful ==
    machine = "client" /\ ~damaged =>
        /\ ~httpclient_parser_has_error(parser)
        /\ arrived = Len(text) => (ParserFinished \/ EndsInEmptyKnownField(input))
        /\ ParserFinished =>
             /\ SubSeq(text, parser.body_start + 1, Len(text)) = input.body
             /\ IF input.kind = "chunk"
                THEN /\ parser.chunked /\ parser.content_len = strtol(input.size, 0, 16)
                     /\ parser.chunks_done <=> ToSet(input.size) = {48}
                     /\ Head(parser.calls).name = (IF parser.chunks_done THEN "last_chunk" ELSE "chunk_size")
                     /\ Slice(Head(parser.calls).at, Head(parser.calls).len) = input.size
                ELSE LET lengths == Lengths(input.fields)
                     IN  /\ Heard = ReplyCalls(input)
                         /\ parser.status = strtol(input.status, 0, 10)
                         /\ parser.chunked = SaysChunked(input.fields)
                         /\ parser.content_len = (IF lengths = <<>> THEN -1
                                                  ELSE strtol(Last(lengths).value, 0, 10))

(* A message the handler protocol defines: uuid, netstring of ids, body. *)
WellFormed(message, m) ==
    /\ m.uuid # <<>> /\ ToSet(m.uuid) \subseteq UuidChar
    /\ m.length # <<>> /\ ToSet(m.length) \subseteq Digit
    /\ strtol(m.length, 0, 10) = Len(m.targets)
    /\ ToSet(m.targets) \subseteq Digit \cup {SP}
    /\ \A i \in DOMAIN m.targets :
         m.targets[i] = SP => i > 1 /\ m.targets[i - 1] # SP
    /\ MessageText(m) = message

TargetStarts(m) == SetToSortSeq({i \in DOMAIN m.targets :
                                   m.targets[i] # SP /\ (i = 1 \/ m.targets[i - 1] = SP)}, <)
TargetsOf(m) == LET starts == TargetStarts(m)
                IN  [i \in DOMAIN starts |-> strtol(m.targets, starts[i] - 1, 10)]

(* The ways to read a text as the parts of a message. *)
Readings(message) ==
    {m \in {[uuid |-> SubSeq(message, 1, i - 1), length |-> SubSeq(message, i + 1, j - 1),
             targets |-> SubSeq(message, j + 1, k - 1), body |-> SubSeq(message, k + 2, Len(message))] :
                i \in {x \in DOMAIN message : message[x] = SP},
                j \in {x \in DOMAIN message : message[x] = COLON},
                k \in {x \in DOMAIN message : message[x] = COMMA}} : WellFormed(message, m)}

(* A handler message is accepted exactly when it is well formed and has no *)
(* more targets than the parser has room for, with its targets and body,   *)
(* whatever lies behind it in memory.                                      *)
HandlerTargets ==
    machine = "handler" /\ arrived > 0 =>
        LET readings == {m \in Readings(text) : Len(TargetStarts(m)) <= MaxTargets}
        IN  IF parser.rc = 1
            THEN \E m \in readings : /\ parser.parser.targets = TargetsOf(m)
                                     /\ parser.parser.uuid = m.uuid /\ parser.body = m.body
            ELSE readings = {}

(* The commands of the control port, up to white space: anything after a   *)
(* complete command is ignored.                                            *)
Spaced(word, rest) == \E n \in 0 .. Len(text) - Len(word) :
                        /\ n > 0 /\ IsPrefix(word, text)
                        /\ \A i \in Len(word) + 1 .. Len(word) + n : text[i] \in Space
                        /\ IsPrefix(rest, SubSeq(text, Len(word) + n + 1, Len(text)))
status == <<115, 116, 97, 116, 117, 115>>
killword == <<107, 105, 108, 108>>
KillIds == {strtol(text, n, 10) : n \in {i \in Len(killword) + 1 .. Len(text) - 1 :
                /\ IsPrefix(killword, text) /\ text[i + 1] \in Digit
                /\ \A j \in Len(killword) + 1 .. i : text[j] \in Space}}

(* Every command gets the reply of what it asks for, stop alone ends the   *)
(* port, and kill closes the descriptor registered under its id and no     *)
(* other: none for an id that is unknown or too large.                     *)
ControlReplies ==
    machine = "control" /\ arrived > 0 =>
        /\ parser.reply = "status_tasks" <=> Spaced(status, <<116, 97, 115, 107, 115>>)
        /\ parser.reply = "status_net" <=> Spaced(status, <<110, 101, 116>>)
        /\ parser.closed = {Ids[id] : id \in KillIds \cap DOMAIN Ids}
        /\ parser.reply = "killed" <=> parser.closed # {}
        /\ parser.reply \in {"killed", "does not exist", "invalid id", "abort"} <=> KillIds # {}
        /\ running <=> parser.reply \notin {"control_stop", "abort"}

(***************************************************************************)
(* The generated parsers: in every split of reads, on well-formed and      *)
(* damaged input, a parser stays in its buffer, tells the callbacks what   *)
(* was sent, accepts no more than its grammar, and a command acts on the   *)
(* connection it names.                                                    *)
(***************************************************************************)
ParsersFaithful ==
    /\ StaysInBuffer /\ SplitsDoNotMatter
    /\ HttpFaithful /\ AcceptedLineByLine /\ ClientFaithful
    /\ HandlerTargets /\ ControlReplies
=============================================================================
