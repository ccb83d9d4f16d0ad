------------------------------ MODULE BstrStream ------------------------------
(***************************************************************************)
(* Streams over strings (bstr/bstrlib.c, bstraux.c): a bStream reads ahead *)
(* into its own string, a bwriteStream collects before it writes.  file is *)
(* what the read function still has; one call of it returns at most limit  *)
(* characters.                                                             *)
(***************************************************************************)
EXTENDS Bstr

Fetch(file, n, limit) == SubSeq(file, 1, Least(Least(n, limit), Len(file)))
Behind(file, n) == SubSeq(file, n + 1, Len(file))

bsopen(max) == [buff |-> bfromcstr(<<>>), isEOF |-> FALSE, maxBuffSz |-> max]
bseof(s) == s.isEOF /\ s.buff.slen = 0

Reading(rc, r, s, file) == [rc |-> rc, r |-> r, s |-> s, file |-> file]
Pending(s, file) == Text(s.buff) \o file

(* The first offset of a stop character; there is one, the sentinel. *)
Stop(cells, stop) == First({i \in 0 .. Len(cells) - 1 : cells[i + 1] \in stop})

(* With what was read behind the line forgotten. *)
RECURSIVE ReadLine_Drop(_, _, _, _, _, _)
ReadLine_Drop(r, s, file, stop, limit, rlo) ==
    LET room == balloc(r, r.slen + s.maxBuffSz + 1, "plenty").b
        got == Fetch(file, s.maxBuffSz, limit)
        l == Len(got)
        i == Stop(Append(got, CHOOSE c \in stop : TRUE), stop)
        read == Put(room, r.slen, Append(got, CHOOSE c \in stop : TRUE))
        rest == Behind(file, l)
    IN  IF l = 0 THEN Reading(IF r.slen = rlo THEN -1 ELSE 0, EndAt(room, r.slen),
                              [s EXCEPT !.buff.slen = 0, !.isEOF = TRUE], file)
        ELSE IF i < l
        THEN Reading(0, EndAt(read, r.slen + i + 1), [s EXCEPT !.buff.slen = 0], rest)
        ELSE ReadLine_Drop([read EXCEPT !.slen = r.slen + l], s, rest, stop, limit, rlo)

(* Reads straight into r until a stop character; what was read behind it   *)
(* goes to the buffer of the stream.                                       *)
RECURSIVE ReadLine(_, _, _, _, _, _)
ReadLine(r, s, file, stop, limit, rlo) ==
    LET room == balloc(r, r.slen + s.maxBuffSz + 1, "plenty").b
        got == Fetch(file, s.maxBuffSz, limit)
        l == Len(got)
        sentinel == CHOOSE c \in stop : TRUE
        i == Stop(Append(got, sentinel), stop)
        read == Put(room, r.slen, Append(got, sentinel))
        rest == Behind(file, l)
    IN  IF l = 0 THEN Reading(IF r.slen = rlo THEN -1 ELSE 0, EndAt(room, r.slen),
                              [s EXCEPT !.buff.slen = 0, !.isEOF = TRUE], file)
        ELSE IF i < l
        THEN Reading(0, EndAt(read, r.slen + i + 1),
                     [s EXCEPT !.buff = [Put(@, 0, Behind(got, i + 1)) EXCEPT !.slen = l - i - 1]], rest)
        ELSE ReadLine([read EXCEPT !.slen = r.slen + l], s, rest, stop, limit, rlo)

bsreadlnsa(r, s, file, stop, limit) ==
    LET l == s.buff.slen
        sentinel == CHOOSE c \in stop : TRUE
        buff == Put(balloc(s.buff, s.maxBuffSz + 1, "plenty").b, l, <<sentinel>>)
        i == Stop(Cells(buff, 0, l + 1), stop)
        whole == bconcat(r, Other(Cells(buff, 0, l)), "plenty").b
    IN  IF ~Valid(r) \/ stop = {} THEN Reading(-1, r, s, file)
        ELSE IF i < l
        THEN Reading(0, bconcat(r, Other(Cells(buff, 0, i + 1)), "plenty").b,
                     [s EXCEPT !.buff = bdelete(buff, 0, i + 1).b], file)
        ELSE ReadLine(whole, [s EXCEPT !.buff = buff], file, stop, limit, r.slen)
bsreadlna(r, s, file, c, limit) == bsreadlnsa(r, s, file, {c}, limit)
bsreadln(r, s, file, c, limit) == bsreadlna([r EXCEPT !.slen = 0], s, file, c, limit)
bsreadlns(r, s, file, stop, limit) == bsreadlnsa([r EXCEPT !.slen = 0], s, file, stop, limit)

(* Up to the length n of r, through the buffer of the stream. *)
RECURSIVE ReadThrough(_, _, _, _, _, _)
ReadThrough(r, s, l, file, n, limit) ==
    LET all == bconcat(r, Other(Cells(s.buff, 0, l)), "plenty").b
        got == Fetch(file, Least(n - all.slen, s.maxBuffSz), limit)
    IN  IF l + r.slen >= n
        THEN Reading(0, bconcat(r, Other(Cells(s.buff, 0, n - r.slen)), "plenty").b,
                     [s EXCEPT !.buff = bdelete([@ EXCEPT !.slen = l], 0, n - r.slen).b], file)
        ELSE IF got = <<>>
        THEN Reading(0, all, [s EXCEPT !.buff.slen = 0, !.isEOF = TRUE], file)
        ELSE ReadThrough(all, [s EXCEPT !.buff = Put(@, 0, got)], Len(got), Behind(file, Len(got)), n, limit)

bsreada(r, s, file, count, limit) ==
    LET n == count + r.slen
        got == Fetch(file, count, limit)
        ready == [s EXCEPT !.buff = balloc(@, s.maxBuffSz + 1, "plenty").b]
        done == ReadThrough(r, ready, s.buff.slen, file, n, limit)
    IN  IF count <= 0 \/ ~Valid(r) \/ (s.buff.slen = 0 /\ s.isEOF) THEN Reading(-1, r, s, file)
        ELSE IF s.buff.slen = 0 /\ r.mlen > n
        THEN IF got = <<>> THEN Reading(-1, r, [s EXCEPT !.isEOF = TRUE], file)
             ELSE Reading(0, EndAt(Put(r, r.slen, got), r.slen + Len(got)), s, Behind(file, Len(got)))
        ELSE [done EXCEPT !.rc = IF done.r.slen = r.slen THEN -1 ELSE 0]
bsread(r, s, file, count, limit) == bsreada([r EXCEPT !.slen = 0], s, file, count, limit)

bsunread(s, text) == [s EXCEPT !.buff = binsert(@, 0, Other(text), 63, "plenty").b]
bspeek(r, s, mem) == bassign(r, Other(Text(s.buff)), mem)

(* A whole file; a short read counts as its end. *)
RECURSIVE breada(_, _, _, _)
breada(b, n, file, limit) ==
    LET got == Fetch(file, n - b.slen, limit)
        x == Put(balloc(b, n + 1, "plenty").b, b.slen, got)
        i == b.slen + Len(got)
    IN  IF i < n THEN Reading(0, EndAt(x, i), NoArg, Behind(file, Len(got)))
        ELSE breada([x EXCEPT !.slen = i], n + n, Behind(file, Len(got)), limit)

(* A line, character by character. *)
RECURSIVE GetChars(_, _, _, _)
GetChars(b, d, file, c) ==
    LET x == IF d > b.mlen - 2 THEN balloc([b EXCEPT !.slen = d], d + 2, "plenty").b ELSE b
        next == Put(x, d, <<file[1]>>)
    IN  IF file = <<>> THEN Reading(IF d = 0 THEN 1 ELSE 0, EndAt(b, d), NoArg, file)
        ELSE IF file[1] = c THEN Reading(0, EndAt(next, d + 1), NoArg, Tail(file))
        ELSE GetChars(next, d + 1, Tail(file), c)
bgetsa(b, file, c) == IF Valid(b) THEN GetChars(b, b.slen, file, c) ELSE Reading(-1, b, NoArg, file)
bassigngets(b, file, c) == IF Valid(b) THEN GetChars(b, 0, file, c) ELSE Reading(-1, b, NoArg, file)

-----------------------------------------------------------------------------
(* Splitting a stream.  The parts that follow a break are put back into    *)
(* the stream, or kept in buff; BUFF is BSSSC_BUFF_LEN.                    *)
RECURSIVE StreamBreaks(_, _, _, _, _, _, _)
BreakAt(now, text, i, stop, BUFF, limit) ==
    IF i >= Len(text) THEN <<text>>
    ELSE IF CharAt(text, i) \in stop
    THEN <<SubSeq(text, 1, i)>> \o
         StreamBreaks([now.r EXCEPT !.slen = 0], 0, bsunread(now.s, Behind(text, i + 1)), now.file,
                      stop, BUFF, limit)
    ELSE StreamBreaks(now.r, i + 1, now.s, now.file, stop, BUFF, limit)
BreakIn(now, i, stop, BUFF, limit) == BreakAt(now, Text(now.r), i, stop, BUFF, limit)
StreamBreaks(buff, i, s, file, stop, BUFF, limit) ==
    BreakIn(IF i >= buff.slen THEN bsreada(buff, s, file, BUFF, limit) ELSE Reading(0, buff, s, file),
            i, stop, BUFF, limit)
bssplitscb(s, file, stop, BUFF, limit) == StreamBreaks(bfromcstr(<<>>), 0, s, file, stop, BUFF, limit)

(* At the end of the stream the rest is one part, whatever it holds. *)
RECURSIVE StreamParts(_, _, _, _, _, _)
PartIn(more, t, BUFF, limit) ==
    IF bseof(more.s) THEN <<Text(more.r)>> ELSE StreamParts(more.r, more.s, more.file, t, BUFF, limit)
StreamParts(buff, s, file, t, BUFF, limit) ==
    LET at == binstr(Text(buff), 0, t)
    IN  IF at >= 0
        THEN <<SubSeq(Text(buff), 1, at)>> \o StreamParts(bdelete(buff, 0, at + Len(t)).b, s, file, t, BUFF, limit)
        ELSE PartIn(bsreada(buff, s, file, BUFF, limit), t, BUFF, limit)
bssplitstrcb(s, file, t, BUFF, limit) == StreamParts(bfromcstr(<<>>), s, file, t, BUFF, limit)

-----------------------------------------------------------------------------
(* A write stream; written has what the write function took, which may     *)
(* refuse.                                                                 *)
bwsOpen(min) == [buff |-> bfromcstr(<<>>), isEOF |-> FALSE, minBuffSz |-> min]
Written(rc, ws, written) == [rc |-> rc, ws |-> ws, written |-> written]

Flushed(ws) == [ws EXCEPT !.buff.slen = 0]
Refused(ws, written) == Written(-1, [ws EXCEPT !.isEOF = TRUE], written)

bwsWriteFlush(ws, written, takes) ==
    IF ws.isEOF THEN Written(-1, ws, written)
    ELSE IF ws.buff.slen > 0 /\ ~takes THEN Refused(ws, written)
    ELSE Written(0, Flushed(ws), written \o Text(ws.buff))

RECURSIVE bwsWriteBstr(_, _, _, _)
bwsWriteBstr(ws, text, written, takes) ==
    LET over == ws.minBuffSz < ws.buff.slen
        open == IF over THEN Flushed(ws) ELSE ws
        out == IF over THEN written \o Text(ws.buff) ELSE written
        l == ws.minBuffSz - open.buff.slen
        full == bcatblk(open.buff, SubSeq(text, 1, l), "plenty").b
        tail == Behind(text, l)
    IN  IF ws.isEOF THEN Written(-1, ws, written)
        ELSE IF Len(text) > 0 /\ ws.buff.mlen - ws.buff.slen > Len(text)
        THEN bwsWriteBstr([ws EXCEPT !.buff = bconcat(@, Other(text), "plenty").b], <<>>, written, takes)
        ELSE IF over /\ ~takes THEN Refused(ws, written)
        ELSE IF Len(text) < l
        THEN Written(0, [open EXCEPT !.buff = bconcat(@, Other(text), "plenty").b], out)
        ELSE IF ~takes /\ full.slen > 0 THEN Refused([open EXCEPT !.buff = full], out)
        ELSE IF Len(tail) >= ws.minBuffSz
        THEN Written(0, [open EXCEPT !.buff = [full EXCEPT !.slen = 0]], out \o Text(full) \o tail)
        ELSE Written(0, [open EXCEPT !.buff = bassign([full EXCEPT !.slen = 0], Other(tail), "plenty").b],
                     out \o Text(full))

-----------------------------------------------------------------------------
(* Formatting.  vsnprintf cuts what it prints at the room it is given, and *)
(* returns the whole length; START is START_VSNBUFF.                       *)
RECURSIVE FormatSize(_, _)
FormatSize(len, n) == IF Least(len, n) < n THEN n ELSE FormatSize(len, IF len > n THEN len ELSE n + n)

Formatted(text, fmtlen, START) ==
    LET n == FormatSize(Len(text), Most(2 * fmtlen, START))
    IN  Block(SubSeq(text, 1, Least(Len(text), n)), n + 2)
bformata(b, text, fmtlen, START, mem) ==
    IF ~Valid(b) THEN Err(b) ELSE bconcat(b, Other(Text(Formatted(text, fmtlen, START))), mem)
bassignformat(b, text, fmtlen, START, mem) ==
    IF ~Valid(b) THEN Err(b) ELSE bassign(b, Other(Text(Formatted(text, fmtlen, START))), mem)

(* At most count characters, else minus a length to try with. *)
bvcformata(b, count, text, mem) ==
    IF count <= 0 THEN Err(b)
    ELSE Then(balloc(b, b.slen + count + 2, mem),
              LAMBDA x : IF Len(text) <= count
                         THEN Ok([Put(x, b.slen, Append(text, EOS)) EXCEPT !.slen = b.slen + Len(text)])
                         ELSE [rc |-> -Most(2, IF Len(text) > count + 1 THEN Len(text) ELSE count + count),
                               b |-> Put(Put(x, b.slen, Append(SubSeq(text, 1, Least(Len(text), count + 1)), EOS)),
                                         b.slen, <<EOS>>)])

(***************************************************************************)
(* The encodings of bstr/bstraux.c: base64, UU, yEnc and netstrings, and   *)
(* bSecureInput.  NoText stands for a NULL result.                         *)
(***************************************************************************)

NoText == <<-1>>
PAD == 61    \* '='
LINELEN == 45  \* UU_MAX_LINELEN
At0(t, i) == IF i < Len(t) THEN t[i + 1] ELSE 0

Flat(seqs) == FoldLeft(LAMBDA acc, s : acc \o s, <<>>, seqs)
Triples(n) == [k \in 1 .. (n + 2) \div 3 |-> 3 * (k - 1)]

(* Three octets as four values of six bits. *)
Sixes(c0, c1, c2) ==
    <<c0 \div 4, (c0 % 4) * 16 + c1 \div 16, (c1 % 16) * 4 + c2 \div 64, c2 % 64>>
Octets(v0, v1, v2, v3) ==
    <<(v0 * 4 + v1 \div 16) % 256, (v1 * 16 + v2 \div 4) % 256, (v2 * 64 + v3) % 256>>
-----------------------------------------------------------------------------
b64ETable(v) ==
    IF v < 26 THEN 65 + v ELSE IF v < 52 THEN 97 + v - 26 ELSE IF v < 62 THEN 48 + v - 52
    ELSE IF v = 62 THEN 43 ELSE 47
base64DecodeSymbol(c) ==
    LET v == {x \in 0 .. 63 : b64ETable(x) = c} IN IF v = {} THEN -1 ELSE CHOOSE x \in v : TRUE

bBase64Encode(t) ==
    Flat([k \in DOMAIN Triples(Len(t)) |->
            LET i == Triples(Len(t))[k]
                v == Sixes(At0(t, i), At0(t, i + 1), At0(t, i + 2))
                full == Least(Len(t) - i, 3)
            IN  [j \in 1 .. 4 |-> IF j <= full + 1 THEN b64ETable(v[j]) ELSE PAD]])

(* Characters outside the alphabet are passed over; v has the values of    *)
(* the group that is read.                                                 *)
RECURSIVE Decoded64(_, _, _, _)
Decoded64(t, i, v, out) ==
    LET ends == i >= Len(t) \/ CharAt(t, i) = PAD
        o == Octets(v[1], v[2], IF Len(v) > 2 THEN v[3] ELSE 0, 0)
    IN  IF ~ends
        THEN LET x == base64DecodeSymbol(CharAt(t, i))
                 more == Append(v, x)
             IN  IF x < 0 THEN Decoded64(t, i + 1, v, out)
                 ELSE IF Len(more) < 4 THEN Decoded64(t, i + 1, more, out)
                 ELSE Decoded64(t, i + 1, <<>>, out \o Octets(v[1], v[2], v[3], x))
        ELSE IF v = <<>> /\ i >= Len(t) THEN out
        ELSE IF i >= Len(t) THEN NoText
        ELSE IF Len(v) = 2 /\ i + 1 < Len(t) /\ CharAt(t, i + 1) = PAD THEN Append(out, o[1])
        ELSE IF Len(v) = 3 THEN out \o <<o[1], o[2]>>
        ELSE NoText
bBase64DecodeEx(t) == Decoded64(t, 0, <<>>, <<>>)
-----------------------------------------------------------------------------
UU_ENCODE_BYTE(b) == IF b = 0 THEN 96 ELSE b + 32
UU_DECODE_BYTE(b) == IF b = 96 THEN 0 ELSE b - 32

bUuEncode(t) ==
    LET lines == [k \in 1 .. (Len(t) + LINELEN - 1) \div LINELEN |->
                      SubSeq(t, (k - 1) * LINELEN + 1, Least(k * LINELEN, Len(t)))]
        (* A group at the end of a line takes the octets of the next one. *)
        Group(i) == LET v == Sixes(At0(t, i), At0(t, i + 1), At0(t, i + 2))
                    IN  [j \in 1 .. 4 |-> UU_ENCODE_BYTE(v[j])]
    IN  Flat([k \in DOMAIN lines |->
            <<UU_ENCODE_BYTE(Len(lines[k]))>>
            \o Flat([g \in DOMAIN Triples(Len(lines[k])) |->
                        Group((k - 1) * LINELEN + Triples(Len(lines[k]))[g])])
            \o <<13, 10>>])

(* One line; out has what it gave, bad that it counts as a bad line.  Bad  *)
(* octets that are not merely missing or blank undo the line.              *)
RECURSIVE UuGroups(_, _, _, _, _)
UuGroups(s, i, llen, out, bad) ==
    LET d == [j \in 0 .. 3 |-> IF i + j < Len(s) THEN CharAt(s, i + j) ELSE BLANK - 1]
        c == [j \in 0 .. 3 |-> UU_DECODE_BYTE(d[j])]
        Wrong(j) == c[j] \notin 0 .. 63
        Foreign(j) == d[j] > 96 \/ (d[j] < BLANK - 1 /\ d[j] \notin White)
        Read(j) == IF Wrong(j) \/ (j = 0 /\ Wrong(1)) \/ (j = 1 /\ Wrong(0)) THEN 0 ELSE c[j]
        o == Octets(Read(0), Read(1), Read(2), Read(3))
        need == llen - Len(out)
        used == IF need <= 1 THEN {0, 1} ELSE IF need <= 2 THEN {0, 1, 2} ELSE 0 .. 3
        wrong == \E j \in used : Wrong(j)
        undone == \/ (Wrong(0) \/ Wrong(1)) /\ (Foreign(0) \/ Foreign(1))
                  \/ \E j \in used \cap {2, 3} : Wrong(j) /\ Foreign(j)
    IN  IF i >= Len(s) \/ need <= 0
        THEN IF need > 0 THEN [out |-> <<>>, bad |-> TRUE] ELSE [out |-> out, bad |-> bad]
        ELSE IF undone THEN [out |-> <<>>, bad |-> TRUE]
        ELSE IF need <= 2 THEN [out |-> out \o SubSeq(o, 1, need), bad |-> bad \/ wrong]
        ELSE UuGroups(s, i + 4, llen, out \o o, bad \/ wrong)

bUuDecLine(s) ==
    IF s = <<>> THEN [out |-> <<>>, bad |-> FALSE]
    ELSE IF UU_DECODE_BYTE(CharAt(s, 0)) \notin 0 .. LINELEN THEN [out |-> <<>>, bad |-> TRUE]
    ELSE UuGroups(s, 1, UU_DECODE_BYTE(CharAt(s, 0)), <<>>, FALSE)

(* One read of the decoding stream: tsz octets of dst, else the lines of   *)
(* src, else the next chunk of the input.  A bad line ends the read when   *)
(* bad lines are not counted (strict), and stays in src.                   *)
RECURSIVE UuLines(_, _, _, _, _)
UuTake(line, src, next, dst, tsz, strict) ==
    IF strict /\ line.bad THEN [ol |-> 0, dst |-> dst \o line.out, failed |-> TRUE]
    ELSE IF Len(dst \o line.out) > tsz THEN [ol |-> next, dst |-> dst \o line.out, failed |-> FALSE]
    ELSE UuLines(src, next, dst \o line.out, tsz, strict)
UuLines(src, ol, dst, tsz, strict) ==
    LET l == binchrCF(src, ol, {13, 10})
    IN  IF l < 0 THEN [ol |-> ol, dst |-> dst, failed |-> FALSE]
        ELSE UuTake(bUuDecLine(SubSeq(src, ol + 1, l)), src, l + 1, dst, tsz, strict)

UuDone(src, dst, inp, tsz) ==
    [got |-> SubSeq(dst, 1, Least(tsz, Len(dst))), src |-> src, dst |-> SubSeq(dst, tsz + 1, Len(dst)),
     inp |-> inp]

RECURSIVE bsUuDecodePart(_, _, _, _, _)
UuSome(r, src, inp, tsz, strict) ==
    IF r.failed THEN UuDone(src, r.dst, inp, tsz)
    ELSE bsUuDecodePart(SubSeq(src, r.ol + 1, Len(src)), r.dst, inp, tsz, strict)
bsUuDecodePart(src, dst, inp, tsz, strict) ==
    LET chunk == 7
    IN  IF Len(dst) > tsz THEN UuDone(src, dst, inp, tsz)
        ELSE IF binchrCF(src, 0, {13, 10}) >= 0
        THEN UuSome(UuLines(src, 0, dst, tsz, strict), src, inp, tsz, strict)
        ELSE IF inp # <<>>
        THEN bsUuDecodePart(src \o SubSeq(inp, 1, Least(chunk, Len(inp))), dst,
                            SubSeq(inp, chunk + 1, Len(inp)), tsz, strict)
        ELSE UuDone(src, dst \o bUuDecLine(src).out, inp, tsz)

(* A whole text, in reads of tsz octets.  The last line stays in src, so a *)
(* text without a line end behind it is decoded again and again: reads     *)
(* bounds that.                                                            *)
RECURSIVE UuReads(_, _, _, _, _)
UuGot(r, tsz, reads) ==
    IF r.got = <<>> THEN <<>> ELSE r.got \o UuReads(r.src, r.dst, r.inp, tsz, reads - 1)
UuReads(src, dst, inp, tsz, reads) ==
    IF reads = 0 THEN <<>> ELSE UuGot(bsUuDecodePart(src, dst, inp, tsz, TRUE), tsz, reads)
bUuDecodeEx(t, tsz) == UuReads(<<>>, <<>>, t, tsz, 40)
-----------------------------------------------------------------------------
(* yEnc: shifted by 42, four characters escaped. *)
Critical == {PAD, EOS, 13, 10}
bYEncode(t) ==
    Flat([i \in DOMAIN t |-> LET c == (t[i] + 42) % 256
                             IN  IF c \in Critical THEN <<PAD, (c + 64) % 256>> ELSE <<c>>])
RECURSIVE bYDecode(_)
bYDecode(t) ==
    IF t = <<>> THEN <<>>
    ELSE IF t[1] = PAD
    THEN IF Len(t) = 1 THEN NoText
         ELSE LET more == bYDecode(SubSeq(t, 3, Len(t)))
              IN  IF more = NoText THEN NoText ELSE <<(t[2] - 64 - 42) % 256>> \o more
    ELSE IF t[1] = EOS THEN NoText
    ELSE LET more == bYDecode(Tail(t))
         IN  IF t[1] \in {13, 10} \/ more = NoText THEN more ELSE <<(t[1] - 42) % 256>> \o more
-----------------------------------------------------------------------------
(* Netstrings.  The number is parsed digit by digit up to the colon. *)
RECURSIVE Decimal(_)
Decimal(n) == IF n < 10 THEN <<48 + n>> ELSE Append(Decimal(n \div 10), 48 + (n % 10))
bStr2NetStr(t) == Decimal(Len(t)) \o <<58>> \o t \o <<44>>

RECURSIVE Number(_, _, _)
Number(buff, i, x) ==
    IF i >= Len(buff) THEN <<i, -1>>
    ELSE IF CharAt(buff, i) = 58 THEN <<i, x>>
    ELSE IF CharAt(buff, i) \notin 48 .. 57 THEN <<i, -1>>
    ELSE Number(buff, i + 1, 10 * x + CharAt(buff, i) - 48)
bNetStr2Bstr(buff) ==
    LET n == Number(buff, 0, 0)
        i == n[1]
        x == n[2]
    IN  IF x < 0 \/ At0(buff, i + 1 + x) # 44 THEN NoText ELSE SubSeq(buff, i + 2, i + 1 + x)

(* Characters up to maxlen, the end, or behind a termchar; the block is    *)
(* given up for one of twice the size whenever it is full.                 *)
RECURSIVE SecureChars(_, _, _, _, _)
SecureChars(b, i, maxlen, termchar, file) ==
    LET room == IF i + 1 >= b.mlen THEN MovedTo([b EXCEPT !.slen = i], 2 * b.mlen) ELSE b
    IN  IF (maxlen > 0 /\ i >= maxlen) \/ file = <<>> THEN EndAt(b, i)
        ELSE IF Head(file) = termchar THEN EndAt(Put(room, i, <<termchar>>), i + 1)
        ELSE SecureChars(Put(room, i, <<Head(file)>>), i + 1, maxlen, termchar, Tail(file))
bSecureInput(start, maxlen, termchar, file) == SecureChars(Block(<<>>, start), 0, maxlen, termchar, file)
=============================================================================
