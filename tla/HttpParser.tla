------------------------------ MODULE HttpParser ------------------------------
(***************************************************************************)
(* The request parser http11/http11_parser.c as compiled: HTTP requests,   *)
(* the Flash policy request and JSON messages that start with '@'.  A      *)
(* parser keeps its state between calls for the growing buffer of a        *)
(* connection; marks are offsets into the buffer.                          *)
(***************************************************************************)
EXTENDS Integers, Sequences, SequencesExt

-----------------------------------------------------------------------------
(***************************************************************************)
(* The state machines that Ragel compiled into the parsers, this one and   *)
(* that of the replies.  A table maps a state to its transitions           *)
(* <<characters, next state, actions>>; where no transition fits, the      *)
(* machine is in its error state 0.  A character is its code, HIGH any of  *)
(* the codes that are negative as a char.                                  *)
(***************************************************************************)

NUL == 0
LF == 10
CR == 13
SP == 32
HASH == 35
PERCENT == 37
COMMA == 44
SLASH == 47
COLON == 58
SEMI == 59
LT == 60
EQUALS == 61
QUERY == 63
ATSIGN == 64
STAR == 42
DOT == 46
BRACE == 123
HIGH == -1

Digit == 48 .. 57
Alpha == (65 .. 90) \cup (97 .. 122)
Hex   == Digit \cup (65 .. 70) \cup (97 .. 102)
Space == (9 .. 13) \cup {SP}
AnyChar == {HIGH} \cup (0 .. 127)
Token == {33, 42, 43, 45, 46, 124, 126} \cup (35 .. 39) \cup Digit \cup (65 .. 90) \cup (94 .. 122)

(* Both cases of a letter, or the character itself. *)
EitherCase(c) == IF c \in 97 .. 122 THEN {c, c - 32} ELSE {c}

(* The states from .. from + Len(text) - 1 that accept a literal. *)
Literal(from, text, to) ==
    [s \in from .. from + Len(text) - 1 |->
        {<<{text[s - from + 1]}, IF s = from + Len(text) - 1 THEN to ELSE s + 1, <<>>>>}]

(* The two digits of an escape. *)
Escape(from, back) == from :> {<<Hex, from + 1, <<>>>>} @@ (from + 1) :> {<<Hex, back, <<>>>>}

Transition(table, cs, c) ==
    LET fitting == IF cs \in DOMAIN table THEN {t \in table[cs] : c \in t[1]} ELSE {}
    IN  IF fitting = {} THEN <<AnyChar, 0, <<>>>> ELSE CHOOSE t \in fitting : TRUE

(* "write exec": from pos to the end of the buffer, to the error, or until *)
(* an action Do(name, parser, position) halts the parser: fbreak, which    *)
(* leaves the position after the character, or a failed check.             *)
Exec(table, Do(_, _, _), start, buffer, from) ==
    LET RECURSIVE Run(_, _)
        Run(parser, pos) ==
            LET t == Transition(table, parser.cs, buffer[pos + 1])
                next == FoldLeft(LAMBDA q, name : IF q.halt THEN q ELSE Do(name, q, pos),
                                 [parser EXCEPT !.cs = t[2]], t[3])
            IN  IF pos = Len(buffer) THEN [parser |-> parser, p |-> pos]
                ELSE IF t[2] = 0 THEN [parser |-> [parser EXCEPT !.cs = 0], p |-> pos]
                ELSE IF next.halt THEN [parser |-> next, p |-> pos + 1]
                ELSE Run(next, pos + 1)
    IN  Run([start EXCEPT !.halt = FALSE], from)

(* strtol of the digits at a place of the buffer. *)
DigitValue(c) == IF c \in Digit THEN c - 48 ELSE IF c >= 97 THEN c - 87 ELSE c - 55
RECURSIVE Number(_, _, _, _)
Number(buffer, pos, base, sofar) ==
    IF pos < Len(buffer) /\ buffer[pos + 1] \in (IF base = 16 THEN Hex ELSE Digit)
    THEN Number(buffer, pos + 1, base, sofar * base + DigitValue(buffer[pos + 1]))
    ELSE sofar

strtol(buffer, pos, base) == Number(buffer, pos, base, 0)

-----------------------------------------------------------------------------
(* The request parser. *)

HttpMethodChar == {36, 45, 46, 95} \cup Digit \cup (65 .. 90)
UriChar   == ({HIGH} \cup (33 .. 126)) \ {34, HASH, PERCENT, LT, 62}
ParamChar == UriChar \ {QUERY}
PathChar  == ParamChar \ {SEMI}

(* Method = (upper | digit | safe){1,20}: one state per character. *)
HttpMethodStates(from, to) ==
    [s \in from .. to |-> {<<{SP}, 3, <<"request_method">>>>, <<HttpMethodChar, s + 1, <<>>>>}]

HttpMethodLow  == HttpMethodStates(41, 47)
HttpMethodMid  == HttpMethodStates(48, 54)
HttpMethodHigh == HttpMethodStates(55, 58) @@ 59 :> {<<{SP}, 3, <<"request_method">>>>}

HttpStart ==
    1 :> {<<HttpMethodChar, 2, <<"mark">>>>, <<{LT}, 60, <<>>>>, <<{ATSIGN}, 82, <<"mark">>>>}
    @@ 2 :> {<<{SP}, 3, <<"request_method">>>>, <<HttpMethodChar, 41, <<>>>>}
    @@ 3 :> {<<{STAR}, 4, <<"mark">>>>, <<{SLASH}, 24, <<"mark">>>>, <<{104}, 34, <<"mark">>>>}
    @@ 4 :> {<<{SP}, 5, <<"request_uri">>>>, <<{HASH}, 20, <<"request_uri">>>>}

(* HTTP/1.0 or HTTP/1.1 and the end of the line. *)
HttpVersion ==
    5 :> {<<{72}, 6, <<"mark">>>>}
    @@ Literal(6, <<84, 84, 80, SLASH, 49, DOT>>, 12)
    @@ 12 :> {<<{48, 49}, 13, <<>>>>}
    @@ 13 :> {<<{LF}, 14, <<"http_version">>>>, <<{CR}, 19, <<"http_version">>>>}

HttpHeaders ==
    14 :> {<<{LF}, 95, <<"done">>>>, <<{CR}, 15, <<>>>>, <<Token, 16, <<"start_field">>>>}
    @@ 15 :> {<<{LF}, 95, <<"done">>>>}
    @@ 16 :> {<<Token, 16, <<>>>>, <<{COLON}, 17, <<"write_field">>>>}
    @@ 17 :> {<<AnyChar \ {LF, CR, SP}, 18, <<"mark">>>>, <<{LF}, 14, <<"mark", "write_value">>>>,
              <<{CR}, 19, <<"mark", "write_value">>>>, <<{SP}, 17, <<"mark">>>>}
    @@ 18 :> {<<AnyChar \ {LF, CR}, 18, <<>>>>, <<{LF}, 14, <<"write_value">>>>,
              <<{CR}, 19, <<"write_value">>>>}
    @@ 19 :> {<<{LF}, 14, <<>>>>}

HttpFragment ==
    20 :> {<<UriChar, 21, <<"mark">>>>, <<{SP}, 5, <<"mark", "fragment">>>>, <<{PERCENT}, 22, <<"mark">>>>}
    @@ 21 :> {<<UriChar, 21, <<>>>>, <<{SP}, 5, <<"fragment">>>>, <<{PERCENT}, 22, <<>>>>}
    @@ Escape(22, 21)

HttpPath ==
    24 :> {<<PathChar, 24, <<>>>>, <<{SP}, 5, <<"request_path", "request_uri">>>>,
           <<{HASH}, 20, <<"request_path", "request_uri">>>>, <<{PERCENT}, 25, <<>>>>,
           <<{SEMI}, 27, <<"request_path">>>>, <<{QUERY}, 30, <<"request_path">>>>}
    @@ Escape(25, 24)
    @@ 27 :> {<<ParamChar, 27, <<>>>>, <<{SP}, 5, <<"request_uri">>>>,
              <<{HASH}, 20, <<"request_uri">>>>, <<{PERCENT}, 28, <<>>>>, <<{QUERY}, 30, <<>>>>}
    @@ Escape(28, 27)

HttpQuery ==
    30 :> {<<UriChar, 31, <<"start_query">>>>, <<{PERCENT}, 32, <<"start_query">>>>,
           <<{SP}, 5, <<"start_query", "query_string", "request_uri">>>>,
           <<{HASH}, 20, <<"start_query", "query_string", "request_uri">>>>}
    @@ 31 :> {<<UriChar, 31, <<>>>>, <<{PERCENT}, 32, <<>>>>,
              <<{SP}, 5, <<"query_string", "request_uri">>>>,
              <<{HASH}, 20, <<"query_string", "request_uri">>>>}
    @@ Escape(32, 31)

HttpAbsolute ==
    Literal(34, <<116, 116, 112, COLON>>, 38)
    @@ 38 :> {<<UriChar, 38, <<>>>>, <<{SP}, 5, <<"request_uri">>>>,
              <<{HASH}, 20, <<"request_uri">>>>, <<{PERCENT}, 39, <<>>>>}
    @@ Escape(39, 38)

(* <policy-file-request/> *)
HttpPolicy ==
    Literal(60, <<112, 111, 108, 105, 99, 121, 45, 102, 105, 108, 101, 45, 114, 101, 113, 117, 101,
                  115, 116, SLASH, 62>>, 81)
    @@ 81 :> {<<{NUL}, 95, <<"socket", "done">>>>}

HttpJsonPath ==
    82 :> {<<PathChar \ {SLASH}, 83, <<>>>>, <<{SP}, 84, <<"request_path">>>>, <<{PERCENT}, 86, <<>>>>,
           <<{SEMI}, 88, <<"request_path">>>>, <<{QUERY}, 91, <<"request_path">>>>}
    @@ 83 :> {<<PathChar, 83, <<>>>>, <<{SP}, 84, <<"request_path">>>>, <<{PERCENT}, 86, <<>>>>,
              <<{SEMI}, 88, <<"request_path">>>>, <<{QUERY}, 91, <<"request_path">>>>}
    @@ 84 :> {<<{BRACE}, 85, <<>>>>}
    @@ [s \in {85, 96} |-> {<<AnyChar \ {NUL}, 85, <<>>>>, <<{NUL}, 96, <<"json", "done">>>>}]
    @@ Escape(86, 83)

HttpJsonQuery ==
    88 :> {<<ParamChar, 88, <<>>>>, <<{SP}, 84, <<"request_path">>>>, <<{PERCENT}, 89, <<>>>>,
           <<{QUERY}, 91, <<>>>>}
    @@ Escape(89, 88)
    @@ 91 :> {<<UriChar, 92, <<"start_query">>>>, <<{PERCENT}, 93, <<"start_query">>>>,
              <<{SP}, 84, <<"start_query", "query_string", "request_path">>>>}
    @@ 92 :> {<<UriChar, 92, <<>>>>, <<{PERCENT}, 93, <<>>>>,
              <<{SP}, 84, <<"query_string", "request_path">>>>}
    @@ Escape(93, 92)

HttpTable == HttpStart @@ HttpMethodLow @@ HttpMethodMid @@ HttpMethodHigh @@ HttpVersion
             @@ HttpHeaders @@ HttpFragment @@ HttpPath @@ HttpQuery @@ HttpAbsolute @@ HttpPolicy
             @@ HttpJsonPath @@ HttpJsonQuery

(* query_start is not among the fields that http_parser_init sets. *)
http_parser_init ==
    [cs |-> 1, body_start |-> 0, mark |-> 0, nread |-> 0, field_len |-> 0, field_start |-> 0,
     query_start |-> 0, socket_started |-> FALSE, json_sent |-> FALSE, halt |-> FALSE, calls |-> <<>>]

(* calls records the callbacks with the ranges of the buffer they are      *)
(* given.                                                                  *)
HttpCall(parser, name, from, pos) ==
    [parser EXCEPT !.calls = Append(@, [name |-> name, at |-> from, len |-> pos - from,
                                        field |-> 0, flen |-> 0])]

HttpDone(parser, pos) == [parser EXCEPT !.body_start = pos + 1, !.halt = TRUE]

HttpAction(name, parser, pos) ==
    CASE name = "mark" -> [parser EXCEPT !.mark = pos]
      [] name = "start_field" -> [parser EXCEPT !.field_start = pos]
      [] name = "write_field" -> [parser EXCEPT !.field_len = pos - parser.field_start]
      [] name = "write_value" ->
            [parser EXCEPT !.calls = Append(@, [name |-> "http_field", at |-> parser.mark,
                                                len |-> pos - parser.mark,
                                                field |-> parser.field_start,
                                                flen |-> parser.field_len])]
      [] name = "start_query" -> [parser EXCEPT !.query_start = pos]
      [] name = "query_string" -> HttpCall(parser, name, parser.query_start, pos)
      [] name = "socket" -> [parser EXCEPT !.socket_started = TRUE]
      [] name = "json" -> [parser EXCEPT !.json_sent = TRUE]
      [] name = "done" -> HttpDone(parser, pos)
      [] OTHER -> HttpCall(parser, name, parser.mark, pos)

(* With marks of the buffer of this call. *)
http_parser_execute_Relative(parser, buffer, off) ==
    LET rest == SubSeq(buffer, off + 1, Len(buffer))
        run == Exec(HttpTable, HttpAction, parser, rest, 0)
    IN  [run.parser EXCEPT !.nread = parser.nread + run.p,
                           !.cs = IF parser.cs = 0 THEN 0 ELSE @]

(* A call for a buffer of which the first off characters were parsed. *)
http_parser_execute(parser, buffer, off) ==
    LET run == Exec(HttpTable, HttpAction, parser, buffer, off)
    IN  IF buffer = <<>> THEN parser
        ELSE [run.parser EXCEPT !.nread = parser.nread + run.p - off,
                                !.cs = IF parser.cs = 0 THEN 0 ELSE @]

http_parser_has_error(parser)   == parser.cs = 0
http_parser_is_finished(parser) == parser.cs >= 95

-----------------------------------------------------------------------------
(***************************************************************************)
(* The parser of upstream replies, http11/httpclient_parser.c as compiled: *)
(* a response head or the head of one chunk.  Content-Length and           *)
(* Transfer-Encoding: chunked are recognised in any case among the other   *)
(* fields; where a name or value leaves them the field is an ordinary one. *)
(***************************************************************************)

White  == Space \ {LF, CR}

(* The states of a field name that may still become a known one.           *)
KnownName(from, text, to) ==
    [s \in from .. from + Len(text) - 1 |->
        LET expected == EitherCase(text[s - from + 1])
        IN  {<<expected, IF s = from + Len(text) - 1 THEN to ELSE s + 1, <<>>>>,
             <<Token \ expected, 21, <<>>>>, <<{COLON}, 22, <<"write_field">>>>}]

(* chunk_size and its extensions. *)
ClientChunkHead ==
    1 :> {<<Hex, 2, <<"mark">>>>, <<{72}, 8, <<"mark">>>>}
    @@ 2 :> {<<Hex, 2, <<>>>>, <<{LF}, 91, <<"chunk_size", "done">>>>, <<{CR}, 3, <<"chunk_size">>>>,
             <<{SEMI}, 4, <<"chunk_size">>>>}
ChunkExtension ==
    3 :> {<<{LF}, 91, <<"done">>>>}
    @@ 4 :> {<<Token, 5, <<"start_field">>>>}
ChunkExtensionName ==
    5 :> {<<Token, 5, <<>>>>, <<{LF}, 91, <<"write_field", "mark", "write_value", "done">>>>,
          <<{CR}, 3, <<"write_field", "mark", "write_value">>>>,
          <<{SEMI}, 4, <<"write_field", "mark", "write_value">>>>,
          <<{EQUALS}, 6, <<"write_field", "mark">>>>}
ChunkExtensionValue ==
    6 :> {<<Token, 7, <<"mark">>>>}
    @@ 7 :> {<<Token, 7, <<>>>>, <<{LF}, 91, <<"write_value", "done">>>>,
             <<{CR}, 3, <<"write_value">>>>, <<{SEMI}, 4, <<"write_value">>>>}

StatusLine ==
    Literal(8, <<84, 84, 80, SLASH>>, 12)
    @@ 12 :> {<<Digit, 13, <<>>>>}
    @@ 13 :> {<<Digit, 13, <<>>>>, <<{DOT}, 14, <<>>>>}
    @@ 14 :> {<<Digit, 15, <<>>>>}
    @@ 15 :> {<<Digit, 15, <<>>>>, <<{SP}, 16, <<"http_version">>>>}
    @@ 16 :> {<<Digit, 17, <<"mark">>>>}
    @@ 17 :> {<<Digit, 17, <<>>>>, <<{SP}, 18, <<"status_code">>>>}
    @@ 18 :> {<<AnyChar \ {LF}, 19, <<"mark">>>>}
    @@ 19 :> {<<AnyChar \ {LF, CR}, 19, <<>>>>, <<{LF}, 20, <<"reason_phrase">>>>,
              <<{CR}, 24, <<"reason_phrase">>>>}

Fields ==
    20 :> {<<{LF}, 91, <<"done">>>>, <<{CR}, 3, <<>>>>, <<{67, 99}, 25, <<"start_field">>>>,
           <<{84, 116}, 45, <<"start_field">>>>, <<Token \ {67, 99, 84, 116}, 21, <<"start_field">>>>}
    @@ 21 :> {<<Token, 21, <<>>>>, <<{COLON}, 22, <<"write_field">>>>}
    @@ 22 :> {<<AnyChar \ Space, 23, <<"mark">>>>, <<White, 22, <<"mark">>>>,
              <<{LF}, 20, <<"mark", "write_value">>>>, <<{CR}, 24, <<"mark", "write_value">>>>}
    @@ 23 :> {<<AnyChar \ {LF, CR}, 23, <<>>>>, <<{LF}, 20, <<"write_value">>>>,
              <<{CR}, 24, <<"write_value">>>>}
    @@ 24 :> {<<{LF}, 20, <<>>>>}

(* onte, nt-, Len, gth and then the colon. *)
ContentName == KnownName(25, <<111, 110, 116, 101>>, 29)
ContentEnd == KnownName(29, <<110, 116, 45>>, 32)
LengthName == KnownName(32, <<108, 101, 110>>, 35)
LengthEnd  ==
    KnownName(35, <<103, 116, 104>>, 38)
    @@ 38 :> {<<Token, 21, <<>>>>, <<{COLON}, 39, <<"write_field">>>>}

(* The value of Content-Length.  A line end in the space before it may     *)
(* also end an empty field, so the next line is read both ways.            *)
ContentLength ==
    39 :> {<<Digit, 90, <<"mark">>>>, <<White, 39, <<"mark">>>>,
           <<AnyChar \ (Digit \cup Space), 23, <<"mark">>>>,
           <<{LF}, 40, <<"mark", "write_value">>>>, <<{CR}, 89, <<"mark", "write_value">>>>}
    @@ 40 :> {<<White, 41, <<>>>>, <<{LF}, 92, <<"done">>>>, <<{CR}, 43, <<>>>>,
              <<Digit, 44, <<"mark", "start_field">>>>, <<{67, 99}, 25, <<"start_field">>>>,
              <<{84, 116}, 45, <<"start_field">>>>,
              <<Token \ (Digit \cup {67, 99, 84, 116}), 21, <<"start_field">>>>}
    @@ [s \in {41, 92} |-> {<<Space, 41, <<>>>>, <<Digit, 42, <<"mark">>>>}]
    @@ 42 :> {<<Digit, 42, <<>>>>, <<{LF}, 20, <<"write_content_len", "write_value">>>>,
              <<{CR}, 24, <<"write_content_len", "write_value">>>>}
    @@ 43 :> {<<Space \ {LF}, 41, <<>>>>, <<{LF}, 92, <<"done">>>>, <<Digit, 42, <<"mark">>>>}
    @@ 44 :> {<<Digit, 44, <<>>>>, <<{LF}, 20, <<"write_content_len", "write_value">>>>,
              <<{CR}, 24, <<"write_content_len", "write_value">>>>,
              <<Token \ Digit, 21, <<>>>>, <<{COLON}, 22, <<"write_field">>>>}
ContentLengthPlain ==
    89 :> {<<Space \ {LF}, 41, <<>>>>, <<{LF}, 40, <<>>>>, <<Digit, 42, <<"mark">>>>}
    @@ 90 :> {<<Digit, 90, <<>>>>, <<AnyChar \ (Digit \cup {LF, CR}), 23, <<>>>>,
              <<{LF}, 20, <<"write_value", "write_content_len">>>>,
              <<{CR}, 24, <<"write_value", "write_content_len">>>>}

(* rans, fer-, Enco, ding and then the colon. *)
Transfer    == KnownName(45, <<114, 97, 110, 115>>, 49)
TransferEnd == KnownName(49, <<102, 101, 114, 45>>, 53)
Encoding    == KnownName(53, <<101, 110, 99, 111>>, 57)
EncodingEnd ==
    KnownName(57, <<100, 105, 110, 103>>, 61)
    @@ 61 :> {<<Token, 21, <<>>>>, <<{COLON}, 62, <<"write_field">>>>}

ChunkedStart ==
    62 :> {<<{67, 99}, 82, <<"mark">>>>, <<White, 62, <<"mark">>>>,
           <<AnyChar \ (Space \cup {67, 99}), 23, <<"mark">>>>,
           <<{LF}, 63, <<"mark", "write_value">>>>, <<{CR}, 81, <<"mark", "write_value">>>>}
    @@ 63 :> {<<White, 64, <<>>>>, <<{LF}, 93, <<"done">>>>, <<{CR}, 73, <<>>>>,
              <<{67, 99}, 74, <<"mark", "start_field">>>>, <<{84, 116}, 45, <<"start_field">>>>,
              <<Token \ {67, 99, 84, 116}, 21, <<"start_field">>>>}
    @@ [s \in {64, 93} |-> {<<Space, 64, <<>>>>, <<{67, 99}, 65, <<"mark">>>>}]
    @@ 73 :> {<<Space \ {LF}, 64, <<>>>>, <<{LF}, 93, <<"done">>>>, <<{67, 99}, 65, <<"mark">>>>}
    @@ 81 :> {<<Space \ {LF}, 64, <<>>>>, <<{LF}, 63, <<>>>>, <<{67, 99}, 65, <<"mark">>>>}

hunked == <<104, 117, 110, 107, 101, 100>>

(* chunked on a later line, as the start of that line's name, and plain.   *)
ChunkedFolded ==
    [s \in 65 .. 70 |-> {<<EitherCase(hunked[s - 64]), s + 1, <<>>>>}]
    @@ 71 :> {<<{LF}, 20, <<"write_value", "trans_chunked">>>>, <<{CR}, 72, <<"write_value">>>>}
    @@ 72 :> {<<{LF}, 20, <<"trans_chunked">>>>}
ChunkedName ==
    74 :> {<<{72, 104}, 75, <<>>>>, <<{79, 111}, 26, <<>>>>, <<Token \ {72, 104, 79, 111}, 21, <<>>>>,
           <<{COLON}, 22, <<"write_field">>>>}
    @@ KnownName(75, SubSeq(hunked, 2, 3), 77)
ChunkedNameEnd ==
    KnownName(77, SubSeq(hunked, 4, 6), 80)
    @@ 80 :> {<<{LF}, 20, <<"write_value", "trans_chunked">>>>, <<{CR}, 72, <<"write_value">>>>,
              <<Token, 21, <<>>>>, <<{COLON}, 22, <<"write_field">>>>}
ChunkedPlain ==
    [s \in 82 .. 87 |->
        LET expected == EitherCase(hunked[s - 81])
        IN  {<<expected, s + 1, <<>>>>, <<AnyChar \ (expected \cup {LF, CR}), 23, <<>>>>,
             <<{LF}, 20, <<"write_value">>>>, <<{CR}, 24, <<"write_value">>>>}]
    @@ 88 :> {<<AnyChar \ {LF, CR}, 23, <<>>>>, <<{LF}, 20, <<"write_value", "trans_chunked">>>>,
              <<{CR}, 72, <<"write_value">>>>}

ClientTable == ClientChunkHead @@ ChunkExtension @@ ChunkExtensionName @@ ChunkExtensionValue
               @@ StatusLine @@ Fields @@ ContentName @@ ContentEnd @@ LengthName @@ LengthEnd
               @@ ContentLength @@ ContentLengthPlain @@ Transfer @@ TransferEnd
               @@ Encoding @@ EncodingEnd @@ ChunkedStart @@ ChunkedFolded
               @@ ChunkedName @@ ChunkedNameEnd @@ ChunkedPlain

httpclient_parser_init ==
    [cs |-> 1, body_start |-> 0, content_len |-> -1, status |-> 0, chunked |-> FALSE,
     chunks_done |-> FALSE, mark |-> 0, nread |-> 0, field_len |-> 0, field_start |-> 0,
     halt |-> FALSE, calls |-> <<>>]

ClientCall(parser, name, pos) ==
    [parser EXCEPT !.calls = Append(@, [name |-> name, at |-> parser.mark,
                                        len |-> pos - parser.mark, field |-> 0, flen |-> 0])]

ClientAction(buffer, name, parser, pos) ==
    CASE name = "mark" -> [parser EXCEPT !.mark = pos]
      [] name = "start_field" -> [parser EXCEPT !.field_start = pos]
      [] name = "write_field" -> [parser EXCEPT !.field_len = pos - parser.field_start]
      [] name = "write_value" ->
            [parser EXCEPT !.calls = Append(@, [name |-> "http_field", at |-> parser.mark,
                                                len |-> pos - parser.mark,
                                                field |-> parser.field_start,
                                                flen |-> parser.field_len])]
      [] name = "write_content_len" ->
            [parser EXCEPT !.content_len = strtol(buffer, parser.mark, 10)]
      [] name = "trans_chunked" -> [parser EXCEPT !.chunked = TRUE]
      [] name = "chunk_size" ->
            LET size == strtol(buffer, parser.mark, 16)
            IN  ClientCall([parser EXCEPT !.chunked = TRUE, !.content_len = size,
                                          !.chunks_done = size <= 0],
                           IF size <= 0 THEN "last_chunk" ELSE "chunk_size", pos)
      [] name = "status_code" ->
            ClientCall([parser EXCEPT !.status = strtol(buffer, parser.mark, 10)], name, pos)
      [] name = "done" -> [parser EXCEPT !.body_start = pos + 1, !.halt = TRUE]
      [] OTHER -> ClientCall(parser, name, pos)

(* A call for a buffer of which off characters were parsed already; nread  *)
(* is counted once more when the end of the head was met.                  *)
httpclient_parser_execute(parser, buffer, off) ==
    LET run == Exec(ClientTable, LAMBDA name, q, pos : ClientAction(buffer, name, q, pos),
                    parser, buffer, off)
        nread == parser.nread + run.p - off
    IN  [run.parser EXCEPT !.nread = IF run.parser.body_start # 0 THEN nread + 1 ELSE nread]

httpclient_parser_has_error(parser)   == parser.cs = 0
httpclient_parser_is_finished(parser) == parser.cs = 91
httpclient_parser_finish(parser) ==
    IF httpclient_parser_has_error(parser) THEN -1
    ELSE IF httpclient_parser_is_finished(parser) THEN 1 ELSE 0
=============================================================================
