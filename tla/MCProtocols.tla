----------------------------- MODULE MCProtocols ------------------------------
(***************************************************************************)
(* What is read from and written to the sockets: the parsers of requests,  *)
(* replies, handler messages and commands (Parsers), and TLS (TlsLink).  A *)
(* behaviour is about one of them and the other stays as it is.            *)
(***************************************************************************)
EXTENDS Parsers, TlsLink

VARIABLE part   \* which one

protocolsvars == <<part, parsersvars, tlsvars>>

NoInput ==
    /\ machine = "none" /\ input = <<>> /\ damaged = FALSE /\ text = <<>> /\ arrived = 0
    /\ parser = Started("none") /\ running = TRUE
NoTls == plan = (CHOOSE p \in Plans : TRUE) /\ TlsInit

ProtocolsInit ==
    \/ part = "parsers" /\ ParsersInit /\ NoTls
    \/ part = "tls" /\ NoInput /\ TlsInit

ProtocolsNext ==
    /\ part' = part
    /\ \/ part = "parsers" /\ ParsersNext /\ UNCHANGED tlsvars
       \/ part = "tls" /\ TlsNext /\ UNCHANGED parsersvars

ProtocolsSpec == ProtocolsInit /\ [][ProtocolsNext]_protocolsvars

\* Short inputs that take every transition of interest: requests of every kind, replies whose
\* fields come close to the known names, chunk heads, handler messages with wrong lengths and
\* too many targets, commands.
a == 97
b == 98
GET == <<71, 69>>
HTTP11 == <<72, 84, 84, 80, SLASH, 49, DOT, 49>>
CRLF == <<CR, LF>>

Field(name, space, value) == [name |-> name, space |-> space, value |-> value]
PlainField == Field(<<a>>, <<SP>>, <<b, SP, COLON>>)
Empty == Field(<<b>>, <<>>, <<>>)

RequestOf(kind, path, params, query, fragment, fields, eol) ==
    [kind |-> kind, method |-> GET, path |-> path, params |-> params, query |-> query,
     fragment |-> fragment, version |-> HTTP11, fields |-> fields, eol |-> eol, body |-> <<a, LF>>]

MCRequests ==
    {RequestOf("rooted", <<SLASH, a>>, <<>>, q, f, fs, CRLF) :
        q \in {<<>>, <<QUERY, a, EQUALS>>}, f \in {<<>>, <<HASH, b>>}, fs \in {<<>>, <<PlainField>>}}
    \cup {RequestOf("rooted", <<SLASH, a>>, <<>>, <<QUERY>>, <<>>, <<>>, CRLF),
          RequestOf("rooted", <<SLASH>>, <<SEMI, a>>, <<QUERY, PERCENT, 65, 49>>, <<HASH>>,
                  <<PlainField, Empty, PlainField>>, <<LF>>),
          RequestOf("star", <<STAR>>, <<>>, <<>>, <<>>, <<Empty>>, CRLF),
          RequestOf("absolute", <<104, 116, 116, 112, COLON, SLASH, a>>, <<>>, <<>>, <<HASH, a>>, <<>>, CRLF),
          [RequestOf("json", <<ATSIGN, a>>, <<>>, <<>>, <<>>, <<>>, CRLF)
              EXCEPT !.body = <<BRACE, a, LF, 125>>]}

Length5 == Field([i \in DOMAIN content_length |-> IF i % 2 = 1 THEN content_length[i]
                                                  ELSE content_length[i] - (IF content_length[i] = 45 THEN 0 ELSE 32)],
                 <<SP, SP>>, <<53, 49>>)
Length7 == Field(content_length, <<>>, <<55>>)
LengthBad == Field(content_length, <<SP>>, <<55, a>>)
LengthEmpty == Field(content_length, <<SP>>, <<>>)
Almost == Field(SubSeq(content_length, 1, 9), <<SP>>, <<55>>)
Beyond == Field(content_length \o <<a>>, <<SP>>, <<55>>)
Chunked == Field(transfer_encoding, <<SP>>, <<67>> \o hunked)
NotChunked == Field(transfer_encoding, <<SP>>, chunked \o <<b>>)
ChunkedEmpty == Field(transfer_encoding, <<>>, <<>>)
Named == Field(chunked, <<SP>>, <<a>>)
Digits == Field(<<53>>, <<SP>>, <<a>>)

ReplyOf(fields, eol) ==
    [kind |-> "reply", version |-> HTTP11, status |-> <<50, 48, 52>>, reason |-> <<79, SP, a>>,
     fields |-> fields, eol |-> eol, body |-> <<LF, b>>]
Chunk(size, extension, eol) ==
    [kind |-> "chunk", size |-> size, extension |-> extension, eol |-> eol, body |-> <<49, LF>>]

MCReplies ==
    {ReplyOf(fs, <<LF>>) : fs \in {<<>>, <<Length5>>, <<Length5, Length7>>, <<LengthBad>>, <<Almost>>,
                                 <<Beyond, Chunked>>, <<NotChunked>>, <<ChunkedEmpty, Named>>,
                                 <<LengthEmpty, Digits>>, <<LengthEmpty>>, <<ChunkedEmpty>>}}
    \cup {ReplyOf(<<Chunked, PlainField>>, CRLF), ReplyOf(<<Length7, Empty>>, CRLF), ReplyOf(<<LengthEmpty, Length7>>, CRLF)}
    \cup {Chunk(size, ext, eol) : size \in {<<48>>, <<48, 65>>, <<102, 49>>}, eol \in {<<LF>>, CRLF},
                                  ext \in {<<>>, <<SEMI, a>>, <<SEMI, a, EQUALS, b, SEMI, b>>}}

MessageOf(uuid, length, targets) == [uuid |-> uuid, length |-> length, targets |-> targets, body |-> <<a, SP>>]
MCMessages ==
    {MessageOf(<<a, 45, 49>>, length, targets) :
        length \in {<<48>>, <<49>>, <<52>>, <<53>>, <<48, 55>>},
        targets \in {<<>>, <<49>>, <<49, 50, SP, 51>>, <<49, SP, 50, SP>>, <<49, SP, SP, 50>>,
                     <<49, SP, 50, SP, 51>>, <<49, SP, 50, SP, 51, SP, 52>>}}
MCTails == {<<NUL>>, <<COMMA, SP, NUL>>, <<SP, NUL>>, <<49, COMMA, SP, 0>>, <<SP, 49, COLON, 49, COMMA, SP, NUL>>}

MCCommands ==
    LET killtext(n) == killword \o <<SP>> \o n
    IN  {status \o <<SP, SP, 116, 97, 115, 107, 115>>, status \o <<9, 110, 101, 116>>, status, <<>>,
         <<99, 111, 110, 116, 114, 111, 108, SP, 115, 116, 111, 112>>, <<116, 105, 109, 101>>,
         killtext(<<49>>), killtext(<<50>>), killtext(<<56>>), killtext(<<57>>), killtext(<<49, 49>>),
         killtext(<<>>)}
MCIds == (1 :> 5) @@ (3 :> 7)
MCDamages == {LF, CR, SP, COLON, HIGH, 49}

\* TLS: data, replies of handlers and short reads on one connection; and two connections
\* that share the caches, with loss and expiry.
All == <<"tls1">> \o ssl_prot_prefs

One == [slots |-> [client |-> 1, server |-> 0], offers |-> {All}, hybrid |-> {FALSE},
        auth |-> FALSE, scert |-> <<"good">>, ccert |-> <<>>, loses |-> {},
        conns |-> 1, data |-> 2, time |-> 0, short |-> 2, raw |-> 1]

Two == [One EXCEPT !.conns = 2, !.data = 0, !.short = 0, !.raw = 0]

MCPlans ==
    { [One EXCEPT !.loses = {1}],
      [One EXCEPT !.hybrid = {TRUE}, !.data = 1, !.raw = 0],
      [One EXCEPT !.auth = TRUE, !.ccert = <<"good">>, !.data = 1,
                  !.offers = {<<"tls1", "rc4sha", "aes256">>}],
      [One EXCEPT !.auth = TRUE],
      [One EXCEPT !.auth = TRUE, !.ccert = <<"good", "bad">>],
      [One EXCEPT !.scert = <<"bad">>],
      [One EXCEPT !.offers = {<<"ssl3", "rc4sha">>, <<"tls1", "des">>, <<"tls1", "rc4sha", "aes256">>}],
      [Two EXCEPT !.slots = [client |-> 1, server |-> 1], !.loses = {1}],
      [Two EXCEPT !.slots = [client |-> 1, server |-> 2], !.time = 2],
      [Two EXCEPT !.slots = [client |-> 2, server |-> 1], !.time = 2],
      [Two EXCEPT !.slots = [client |-> 2, server |-> 1],
                  !.offers = {<<"ssl3", "rc4sha">>, <<"tls1", "rc4sha", "aes256">>}] }
=============================================================================
