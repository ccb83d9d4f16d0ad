------------------------------- MODULE Strings -------------------------------
(***************************************************************************)
(* Strings under every short sequence of calls of the string library.      *)
(* task says what a behaviour exercises: "edit" edits str, "read" reads    *)
(* lines and blocks from a stream into str, "write" collects text in a     *)
(* write stream.  want is the text str should hold, rest what a stream     *)
(* still has to deliver, accepted what was written so far.                 *)
(*                                                                         *)
(* torn names the call that left the string without a NUL behind its text. *)
(* by names the call that wrote behind its block, and what the allocator   *)
(* gave it.                                                                *)
(***************************************************************************)
EXTENDS BstrStream

CONSTANTS
    Texts,      \* the texts strings start with
    Pieces,     \* the texts given as arguments
    Letters,    \* the characters given as arguments
    Files,      \* what a stream has to deliver
    MaxCalls    \* calls of one behaviour

ASSUME StringsAssumption ==
    /\ Texts \subseteq Seq(1 .. 254) /\ Pieces \subseteq Seq(1 .. 254) /\ Files \subseteq Seq(1 .. 254)
    /\ Letters \subseteq 1 .. 254 /\ MaxCalls \in Nat

VARIABLES task, calls, str, want, torn, by, stream, file, rest, ws, written, accepted

strVars == <<str, want, torn>>
streamVars == <<stream, file, rest>>
writeVars == <<ws, written, accepted>>
stringsvars == <<task, calls, by, strVars, streamVars, writeVars>>

Mems == {"plenty", "tight", "none"}
BUFF == 3
-----------------------------------------------------------------------------
(* What the calls are for, on texts. *)

Cut(t, n) == SubSeq(t, 1, Least(n, Len(t)))
From(t, i) == SubSeq(t, i + 1, Len(t))
Overlaid(t, pos, s, fill) ==
    [i \in 1 .. Most(Len(t), pos + Len(s)) |->
        IF i \in pos + 1 .. pos + Len(s) THEN s[i - pos]
        ELSE IF i <= Len(t) THEN t[i] ELSE fill]
FilledTo(t, pos, fill) == IF pos <= Len(t) THEN t ELSE t \o Repeat(fill, pos - Len(t))
Inserted(t, pos, s, fill) == Cut(FilledTo(t, pos, fill), pos) \o s \o From(t, pos)
Without(t, pos, n) == SelectSeq([i \in DOMAIN t |-> <<i, t[i]>>], LAMBDA p : p[1] - 1 \notin pos .. pos + n - 1)
Second(pairs) == [i \in DOMAIN pairs |-> pairs[i][2]]
Trimmed(t, left, right) ==
    LET dark == {i \in DOMAIN t : t[i] \notin White}
    IN  IF dark = {} THEN <<>>
        ELSE SubSeq(t, IF left THEN First(dark) ELSE 1, IF right THEN Last1(dark) ELSE Len(t))

Folded(t, caseless) == IF caseless THEN [i \in DOMAIN t |-> downcase(t[i])] ELSE t
Occurs(s, t, caseless) ==
    {i \in 0 .. Len(s) - Len(t) : Folded(SubSeq(s, i + 1, i + Len(t)), caseless) = Folded(t, caseless)}
RECURSIVE Replaced(_, _, _, _, _)
Replaced(t, find, repl, pos, caseless) ==
    LET hits == {i \in Occurs(t, find, caseless) : i >= pos}
    IN  IF hits = {} THEN t
        ELSE Replaced(Cut(t, First(hits)) \o repl \o From(t, First(hits) + Len(find)), find, repl,
                      First(hits) + Len(repl), caseless)
Words(t) == SelectSeq(bsplit(t, BLANK).entry, LAMBDA w : w # <<>>)
Spaceless(t) == SelectSeq(t, LAMBDA c : c # BLANK)
-----------------------------------------------------------------------------
(* One edit: r is what the call returned, good what the text should be if  *)
(* it succeeded, bad what a failed call leaves.  A call that wrote behind  *)
(* its block is the last one.                                              *)

Positions == {0, 1, str.slen, str.slen + 2}
FILL == 63
Args == {Other(p) : p \in Pieces}
        \cup {View(0, 1), View(1, 3)}
Inside == {a \in Args : a.own => a.at + a.len <= str.slen}
ArgText(arg) == IF arg.own THEN SubSeq(want, arg.at + 1, arg.at + arg.len) ELSE arg.text

Whole(b) == b.mlen = -1 \/ (b.slen < b.mlen /\ b.data[b.slen + 1] = EOS)
Torn(b, name) == IF ~b.over /\ Whole(b) THEN "" ELSE IF torn # "" THEN torn ELSE IF b.over THEN "" ELSE name

Editing == task = "edit" /\ calls < MaxCalls /\ ~str.over

Edited(name, mem, r, good, bad) ==
    /\ str' = [r.b EXCEPT !.block = 0]
    /\ want' = IF r.rc >= 0 THEN good ELSE bad
    /\ torn' = Torn(r.b, name)
    /\ by' = IF r.b.over THEN <<name, mem>> ELSE <<>>
    /\ calls' = calls + 1
    /\ UNCHANGED <<task, streamVars, writeVars>>

Concat == Editing /\ \E arg \in Inside, mem \in Mems :
    Edited("bconcat", mem, bconcat(str, arg, mem), want \o ArgText(arg), want)
ConChar == Editing /\ \E c \in Letters, mem \in Mems :
    Edited("bconchar", mem, bconchar(str, c, mem), Append(want, c), want)
CatBlk == Editing /\ \E p \in Pieces, mem \in Mems :
    Edited("bcatblk", mem, bcatblk(str, p, mem), want \o p, want)
CatCstr == Editing /\ \E p \in Pieces, mem \in Mems :
    LET r == bcatcstr(str, p, mem) IN Edited("bcatcstr", mem, r, want \o p, Text(r.b))
Assign == Editing /\ \E arg \in Inside, mem \in Mems :
    /\ arg.own => torn = ""   \* else it is read from the block that was given up
    /\ Edited("bassign", mem, bassign(str, arg, mem), ArgText(arg), want)
AssignMid == Editing /\ \E p \in Pieces, left \in {-1, 1}, n \in {1, 3}, mem \in Mems :
    Edited("bassignmidstr", mem, bassignmidstr(str, Other(p), left, n, mem), Middle(p, left, n), want)
AssignCstr == Editing /\ \E p \in Pieces, mem \in Mems :
    LET r == bassigncstr(str, p, mem) IN Edited("bassigncstr", mem, r, p, Text(r.b))
AssignBlk == Editing /\ \E p \in Pieces, mem \in Mems :
    Edited("bassignblk", mem, bassignblk(str, p, mem), p, want)
Truncate == Editing /\ \E n \in Positions : Edited("btrunc", "plenty", btrunc(str, n), Cut(want, n), want)
Delete == Editing /\ \E pos \in Positions \cup {-1}, n \in 0 .. 3 :
    Edited("bdelete", "plenty", bdelete(str, pos, n), Second(Without(want, pos, n)), want)
Trim == Editing /\ \E left, right \in BOOLEAN :
    /\ left \/ right
    /\ Edited("btrimws", "plenty",
              IF ~right THEN bltrimws(str) ELSE IF ~left THEN brtrimws(str) ELSE btrimws(str),
              Trimmed(want, left, right), want)
ChangeCase ==
    /\ Editing
    /\ \/ Edited("btoupper", "plenty", btoupper(str), [i \in DOMAIN want |-> upcase(want[i])], want)
       \/ Edited("btolower", "plenty", btolower(str), [i \in DOMAIN want |-> downcase(want[i])], want)
TurnRound == Editing /\ Edited("bReverse", "plenty", bReverse(str), Reverse(want), want)
SetChar == Editing /\ \E pos \in Positions, c \in Letters, mem \in Mems :
    /\ pos <= str.slen
    /\ \/ Edited("bSetChar", mem, bSetChar(str, pos, c, mem), Overlaid(want, pos, <<c>>, c), want)
       \/ Edited("bSetCstrChar", mem, bSetCstrChar(str, pos, EOS, mem), Cut(want, pos), want)
SetStr == Editing /\ \E pos \in Positions, arg \in Inside, mem \in Mems :
    Edited("bsetstr", mem, bsetstr(str, pos, arg, FILL, mem), Overlaid(want, pos, ArgText(arg), FILL), want)
InsertArg == Editing /\ \E pos \in Positions, arg \in Inside, mem \in Mems :
    Edited("binsert", mem, binsert(str, pos, arg, FILL, mem), Inserted(want, pos, ArgText(arg), FILL), want)
Replace == Editing /\ \E pos \in Positions, n \in {0, 3}, arg \in Inside, mem \in Mems :
    Edited("breplace", mem, breplace(str, pos, n, arg, FILL, mem),
           Cut(FilledTo(want, pos, FILL), pos) \o ArgText(arg) \o From(want, pos + n), want)
InsertChars == Editing /\ \E pos \in Positions, n \in {1, 3}, c \in Letters, mem \in Mems :
    \/ Edited("binsertch", mem, binsertch(str, pos, n, c, mem), Inserted(want, pos, Repeat(c, n), c), want)
    \/ LET r == bInsertChrs(str, pos, n, c, BLANK, mem)
       IN  Edited("bInsertChrs", mem, r, Inserted(want, pos, Repeat(c, n), BLANK), Text(r.b))
Replicate == Editing /\ str.slen \in 1 .. 3 /\ \E n \in 0 .. 3, mem \in Mems :
    Edited("bReplicate", mem, bReplicate(str, n, mem), FlattenSeq(Repeat(want, n)), want)
FillUp == Editing /\ \E n \in 0 .. 3, c \in Letters, mem \in Mems :
    LET r == bFill(str, c, n, mem) IN Edited("bFill", mem, r, Repeat(c, n), Text(r.b))
FindReplace == Editing /\ \E find, repl \in Inside, pos \in 0 .. 1, caseless \in BOOLEAN, mem \in Mems :
    /\ find.len > 0
    /\ Edited("bfindreplace", mem, findreplaceengine(str, find, repl, pos, caseless, mem),
              Replaced(want, ArgText(find), ArgText(repl), pos, caseless), want)
(* The layout is in no property, the words are. *)
Justify == Editing /\ torn = "" /\ \E width \in {4, 12}, mem \in Mems :
    \/ LET r == bJustifyLeft(str, BLANK) IN Edited("bJustifyLeft", mem, r, Text(r.b), want)
    \/ LET r == bJustifyRight(str, width, BLANK, mem) IN Edited("bJustifyRight", mem, r, Text(r.b), Text(r.b))
    \/ LET r == bJustifyCenter(str, width, BLANK, mem) IN Edited("bJustifyCenter", mem, r, Text(r.b), Text(r.b))
    \/ LET r == bJustifyMargin(str, width, BLANK, mem) IN Edited("bJustifyMargin", mem, r, Text(r.b), Text(r.b))
(* bformata and bassignformat print with vsnprintf and a first room START. *)
Format == Editing /\ \E p \in Pieces, START \in {2, 16}, mem \in Mems :
    \/ Edited("bformata", mem, bformata(str, p, 1, START, mem), want \o p, want)
    \/ Edited("bassignformat", mem, bassignformat(str, p, 1, START, mem), p, want)
(* bvcformata and its macro, which tries again with what it was told. *)
FormatInPlace == Editing /\ \E p \in Pieces, mem \in Mems :
    LET r == bvcformata(str, 2, p, mem)
        s == IF r.rc < -1 THEN bvcformata(r.b, -r.rc, p, mem) ELSE r
    IN  Edited("bvcformata", mem, s, want \o p, want)
(* Blocks of other sizes. *)
Reallocate == Editing /\ \E n \in {1, str.slen + 1, 12}, mem \in Mems :
    \/ Edited("balloc", mem, balloc(str, n, mem), want, want)
    \/ Edited("ballocmin", mem, ballocmin(str, n, mem), want, want)

Edits ==
    \/ Concat \/ ConChar \/ CatBlk \/ CatCstr \/ Assign \/ AssignMid \/ AssignCstr \/ AssignBlk
    \/ Truncate \/ Delete \/ Trim \/ ChangeCase \/ TurnRound \/ SetChar \/ SetStr \/ InsertArg \/ Replace
    \/ InsertChars \/ Replicate \/ FillUp \/ FindReplace \/ Justify \/ Format \/ FormatInPlace \/ Reallocate
-----------------------------------------------------------------------------
(* Reading.  What a call appended to str is taken off rest. *)

Readable == task = "read" /\ calls < MaxCalls + 1

Read(name, before, r) ==
    /\ str' = [r.r EXCEPT !.block = 0]
    /\ want' = SubSeq(want, 1, before) \o SubSeq(rest, 1, r.r.slen - before)
    /\ torn' = Torn(r.r, name)
    /\ stream' = r.s /\ file' = r.file
    /\ rest' = From(rest, r.r.slen - before)
    /\ calls' = calls + 1
    /\ UNCHANGED <<task, by, writeVars>>

ReadTheLine == Readable /\ \E c \in Letters, limit \in {1, 2, 8}, add \in BOOLEAN :
    \/ Read("bsreadln", IF add THEN str.slen ELSE 0,
            IF add THEN bsreadlna(str, stream, file, c, limit) ELSE bsreadln(str, stream, file, c, limit))
    \/ Read("bsreadlns", IF add THEN str.slen ELSE 0,
            IF add THEN bsreadlnsa(str, stream, file, Letters, limit)
            ELSE bsreadlns(str, stream, file, Letters, limit))
ReadSome == Readable /\ \E n \in {1, 3, 9}, limit \in {1, 2, 8}, add \in BOOLEAN :
    Read("bsread", IF add THEN str.slen ELSE 0,
         IF add THEN bsreada(str, stream, file, n, limit) ELSE bsread(str, stream, file, n, limit))
Unread == Readable /\ \E p \in Pieces :
    /\ Len(rest) + Len(p) <= 12
    /\ stream' = [bsunread(stream, p) EXCEPT !.buff.block = 0]
    /\ rest' = p \o rest
    /\ calls' = calls + 1
    /\ UNCHANGED <<task, by, strVars, file, writeVars>>
Peek == Readable /\ \E mem \in Mems :
    LET r == bspeek(str, stream, mem)
    IN  /\ str' = [r.b EXCEPT !.block = 0]
        /\ want' = IF r.rc >= 0 THEN SubSeq(rest, 1, stream.buff.slen) ELSE want
        /\ torn' = Torn(r.b, "bspeek")
        /\ by' = (IF r.b.over THEN <<"bassign", mem>> ELSE <<>>) /\ calls' = calls + 1
        /\ UNCHANGED <<task, streamVars, writeVars>>

(* Without a stream: the whole file, or a line of it. *)
ReadFile == Readable /\ stream.buff.slen = 0 /\ ~str.over /\ \E n \in 1 .. 3, c \in Letters, add \in BOOLEAN :
    LET from == IF add THEN str.slen ELSE 0
        r == IF add THEN bgetsa(str, file, c) ELSE bassigngets(str, file, c)
        all == breada(str, str.slen + n, file, 8)
    IN  \/ Read("bgets", from, [r EXCEPT !.s = stream])
        \/ /\ Valid(str)
           /\ Read("bread", str.slen, [all EXCEPT !.s = stream])

Reads == ~str.over /\ (ReadTheLine \/ ReadSome \/ Unread \/ Peek \/ ReadFile)

(* A write is taken by the write function or refused for good. *)
WriteOut ==
    /\ task = "write" /\ calls < MaxCalls + 1
    /\ \E takes \in BOOLEAN, p \in Pieces :
        \E r \in {bwsWriteBstr(ws, p, written, takes)} :
            /\ ws' = [r.ws EXCEPT !.buff.block = 0] /\ written' = r.written
            /\ accepted' = accepted \o (IF ws.isEOF THEN <<>> ELSE p)
    /\ calls' = calls + 1
    /\ UNCHANGED <<task, by, strVars, streamVars>>
Flush ==
    /\ task = "write" /\ calls < MaxCalls + 1
    /\ \E takes \in BOOLEAN : \E r \in {bwsWriteFlush(ws, written, takes)} :
        ws' = r.ws /\ written' = r.written
    /\ calls' = calls + 1
    /\ UNCHANGED <<task, by, strVars, streamVars, accepted>>

StringsInit ==
    /\ task \in {"edit", "read", "write"}
    /\ calls = 0 /\ torn = "" /\ by = <<>>
    /\ want \in (IF task = "edit" THEN Texts ELSE {<<>>})
    /\ str \in {bfromcstr(want)} \cup (IF task = "edit" THEN {bsStatic(want), Block(want, Len(want) + 1)} ELSE {})
    /\ stream = bsopen(4)
    /\ file \in (IF task = "read" THEN Files ELSE {<<>>}) /\ rest = file
    /\ ws = bwsOpen(IF task = "write" THEN 5 ELSE 4)
    /\ written = <<>> /\ accepted = <<>>

StringsNext == Edits \/ Reads \/ WriteOut \/ Flush
-----------------------------------------------------------------------------
(* Properties *)

(* After any sequence of calls the string holds the text the calls ask     *)
(* for, aliased arguments, blocks that move, failed allocations, literals, *)
(* lines read in pieces of any size and printf in too small a room         *)
(* included; a call that fails leaves the text it found.                   *)
HoldsText == ~str.over => Text(str) = want

(* Every string ends in a NUL inside its block, which bdata hands to the C *)
(* library.  Only bcatcstr, bassigncstr and bFill leave one that does not, *)
(* when they fail for want of memory after they have changed it, and       *)
(* bsread at the end of its stream.                                        *)
Terminated == torn \in {"", "bcatcstr", "bassigncstr", "bFill", "bsread"}

(* Only the calls that ask for a block without a place for the NUL write   *)
(* behind it, and only when the allocator gives them no more than that; or *)
(* the replacement of bfindreplace lies in the block it gives up, or an    *)
(* earlier call left no NUL.                                               *)
OverrunsOnlyTight ==
    str.over => \/ by[2] = "tight" /\ by[1] \in {"bassign", "bassignmidstr", "breplace", "bInsertChrs",
                                                   "bassignformat", "bJustifyRight", "bJustifyCenter",
                                                   "bJustifyMargin"}
                \/ by[1] = "bfindreplace"
                \/ torn # ""

(* Every search of a text finds the first, or last, place there is. *)
SearchesFind ==
    (task = "edit" /\ ~str.over) =>
    LET s == Text(str)
        FirstOr(S) == IF S = {} THEN -1 ELSE First(S)
        LastOr(S) == IF S = {} THEN -1 ELSE Last1(S)
    IN  \A t \in Pieces \ {<<>>} :
        LET exact == Occurs(s, t, FALSE)
            caseless == Occurs(s, t, TRUE)
            inSet == {i \in 0 .. Len(s) - 1 : s[i + 1] \in ToSet(t)}
            notInSet == (0 .. Len(s) - 1) \ inSet
        IN  \A pos \in 0 .. Len(s) :
            /\ binstr(s, pos, t) = FirstOr({i \in exact : i >= pos})
            /\ binstrcaseless(s, pos, t) = FirstOr({i \in caseless : i >= pos})
            /\ binstrr(s, pos, t) = LastOr({i \in exact : i <= pos})
            /\ binstrrcaseless(s, pos, t) = LastOr({i \in caseless : i <= pos})
            /\ binchr(s, pos, t) = FirstOr({i \in inSet : i >= pos})
            /\ bninchr(s, pos, t) = FirstOr({i \in notInSet : i >= pos})
            /\ binchrr(s, pos, t) = LastOr({i \in inSet : i <= pos})
            /\ bninchrr(s, pos, t) = LastOr({i \in notInSet : i <= pos})

(* The comparisons are orders that agree with one another, and with the    *)
(* parts taken from the ends of a text.                                    *)
ComparesAgree ==
    (task = "edit" /\ ~str.over) =>
    LET s == Text(str)
        own == bfromcstr(s)
    IN  \A t \in Pieces :
            /\ bstrcmp(s, t) = -bstrcmp(t, s) /\ (bstrcmp(s, t) = 0 <=> biseq(s, t))
            /\ bstricmp(s, t) = -bstricmp(t, s) /\ (bstricmp(s, t) = 0 <=> biseqcaseless(s, t))
            /\ bstrncmp(s, t, Len(t)) = 0 <=> bisstemeqblk(s, t)
            /\ bstrnicmp(s, t, Len(t)) = 0 <=> bisstemeqcaselessblk(s, t)
            /\ bisstemeqblk(s, t) <=> biseq(Text(bHead(own, Len(t))), t)
            /\ biseq(Text(bTail(own, Len(t))), t) <=> (Len(s) - Len(t)) \in Occurs(s, t, FALSE)
            /\ bstrcmp(Text(bmidstr(own, 1, Len(t))), t) = 0 <=>
                  t = <<>> \/ 1 \in Occurs(s, t, FALSE)

(* Splitting a text and joining it with the separator gives it back, and   *)
(* no part holds a separator that is one character, or one of a set; a     *)
(* stream is split where its text is.                                      *)
SplitsJoin ==
    /\ (task = "edit" /\ ~str.over) => 
       \A t \in Pieces \ {<<>>} :
            LET s == Text(str)
                parts == bsplitstr(s, t).entry
                byChar == bsplit(s, t[1]).entry
                bySet == bsplits(s, t).entry
            IN  /\ Text(bjoin(parts, t)) = s
                /\ Text(bjoin(byChar, <<t[1]>>)) = s
                /\ \A i \in DOMAIN byChar : t[1] \notin ToSet(byChar[i])
                /\ \A i \in DOMAIN bySet : ToSet(t) \cap ToSet(bySet[i]) = {}
    /\ (task = "read" /\ calls = 0) =>
       \A t \in Pieces \ {<<>>}, limit \in {1, 2, 8} :
            /\ bssplitscb(stream, file, ToSet(t), BUFF, limit) = bsplits(file, t).entry
            /\ Text(bjoin(bssplitstrcb(stream, file, t, BUFF, limit), t)) = file

(* What an encoder made its decoder turns back, read in pieces of any      *)
(* size; input that is taken a character at a time is not cut short.       *)
CodecsInvert ==
    (task = "edit" /\ ~str.over) =>
    LET t == Text(str)
        long == t \o Repeat(231, 44) \o t
    IN  /\ bBase64DecodeEx(bBase64Encode(t)) = t
        /\ bYDecode(bYEncode(t)) = t
        /\ bNetStr2Bstr(bStr2NetStr(t)) = t
        /\ bUuDecodeEx(bUuEncode(t), 4) = t
        /\ calls = 0 => \A tsz \in {5, 64} : bUuDecodeEx(bUuEncode(long), tsz) = long
        /\ LET s == bSecureInput(2, 0, -1, t) IN Text(s) = t /\ ~s.over

(* A stream neither loses nor repeats what it read ahead: its buffer and   *)
(* its file are what is left to deliver.                                   *)
StreamInOrder == task = "read" => Pending(stream, file) = rest

(* The write function gets what was written, in order and without gaps;    *)
(* until it refuses, the rest is in the buffer.                            *)
WritesInOrder ==
    /\ IsPrefix(written, accepted)
    /\ ~ws.isEOF => written \o Text(ws.buff) = accepted

(***************************************************************************)
(* bstr/bstrlib.c, bstraux.c: every call leaves the text that it promises, *)
(* ended by a NUL inside its block, and leaves other memory alone;         *)
(* searches, comparisons, splitting and codecs agree with their            *)
(* definitions on texts; streams deliver and accept every character once   *)
(* and in order.                                                           *)
(***************************************************************************)
StringsFaithful ==
    /\ HoldsText /\ Terminated /\ OverrunsOnlyTight
    /\ SearchesFind /\ ComparesAgree /\ SplitsJoin /\ CodecsInvert
    /\ StreamInOrder /\ WritesInOrder
=============================================================================
