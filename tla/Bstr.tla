--------------------------------- MODULE Bstr ---------------------------------
(***************************************************************************)
(* The strings of bstr/bstrlib.c and the editing helpers of bstraux.c.     *)
(* A string is a block of mlen cells of which slen are its text; the cell  *)
(* behind the text holds a NUL.  over is set by a write behind the block,  *)
(* block numbers the blocks the string has had during one call.  A literal *)
(* (bsStatic) has mlen -1 and is never written.                            *)
(*                                                                         *)
(* mem is what the allocator does: give what is asked for, only the        *)
(* tightest block ("tight"), or nothing ("none").                          *)
(***************************************************************************)
EXTENDS Integers, Sequences, FiniteSets, SequencesExt

EOS == 0   \* the NUL that ends a string
BLANK == 32
Garbage == 255
White == {9, 10, 11, 12, 13, BLANK}

downcase(c) == IF c \in 65 .. 90 THEN c + 32 ELSE c
upcase(c) == IF c \in 97 .. 122 THEN c - 32 ELSE c

Repeat(c, n) == [i \in 1 .. n |-> c]
Least(a, b) == IF a < b THEN a ELSE b
Most(a, b) == IF a > b THEN a ELSE b

(* At least 8, else the least power of two above i. *)
snapUpSize(i) ==
    IF i < 8 THEN 8 ELSE CHOOSE p \in {2 ^ k : k \in 4 .. 16} : p > i /\ p \div 2 <= i

Text(b) == SubSeq(b.data, 1, b.slen)

Block(text, mlen) ==
    [slen |-> Len(text), mlen |-> mlen, over |-> FALSE, block |-> 0,
     data |-> [i \in 1 .. mlen |-> IF i <= Len(text) THEN text[i]
                                   ELSE IF i = Len(text) + 1 THEN EOS ELSE Garbage]]

bsStatic(text) ==
    [slen |-> Len(text), mlen |-> -1, over |-> FALSE, block |-> 0, data |-> Append(text, EOS)]

Put(b, at, chars) ==
    [b EXCEPT !.data = [i \in DOMAIN @ |-> IF i - 1 \in at .. at + Len(chars) - 1
                                           THEN chars[i - at] ELSE @[i]],
              !.over = @ \/ at + Len(chars) > b.mlen]

Cells(b, at, n) == [i \in 1 .. n |-> IF at + i \in DOMAIN b.data THEN b.data[at + i] ELSE Garbage]

EndAt(b, n) == [Put(b, n, <<EOS>>) EXCEPT !.slen = n]

Valid(b) == 0 <= b.slen /\ b.slen <= b.mlen /\ b.mlen > 0

(* Results, and a call that goes on only if another one succeeded. *)
Ok(b) == [rc |-> 0, b |-> b]
Err(b) == [rc |-> -1, b |-> b]
Then(r, Go(_)) == IF r.rc < 0 THEN r ELSE Go(r.b)

(* An argument is a string of its own, or a view into the string that is   *)
(* edited; a view is garbage once that string has a new block.             *)
Other(text) == [own |-> FALSE, at |-> 0, len |-> Len(text), text |-> text]
View(at, len) == [own |-> TRUE, at |-> at, len |-> len, text |-> <<>>]
Chars(b, arg) == IF ~arg.own THEN arg.text
                 ELSE IF b.block > 0 THEN Repeat(Garbage, arg.len) ELSE Cells(b, arg.at, arg.len)

(* The aliasing case: bstrcpy of the argument first. *)
Unaliased(b, arg) == IF arg.own THEN Other(Chars(b, arg)) ELSE arg
CannotCopy(arg, mem) == arg.own /\ mem = "none"

-----------------------------------------------------------------------------
(* Blocks. *)
MovedTo(b, len) == EndAt([Block(Text(b), len) EXCEPT !.over = b.over, !.block = b.block + 1], b.slen)

balloc(b, olen, mem) ==
    IF ~Valid(b) \/ olen <= 0 THEN Err(b)
    ELSE IF olen < b.mlen \/ snapUpSize(olen) <= b.mlen THEN Ok(b)
    ELSE IF mem = "none" THEN Err(b)
    ELSE Ok(MovedTo(b, IF mem = "tight" THEN olen ELSE snapUpSize(olen)))

ballocmin(b, len, mem) ==
    LET wanted == Most(len, b.slen + 1)
    IN  IF ~Valid(b) \/ len <= 0 THEN Err(b)
        ELSE IF wanted = b.mlen THEN Ok(b)
        ELSE IF mem = "none" THEN Err(b) ELSE Ok(MovedTo(b, wanted))

(* New strings. *)
bfromcstr(text) == Block(text, snapUpSize(IF text = <<>> THEN 2 ELSE Len(text) + 1))
bfromcstralloc(mlen, text) ==
    Block(text, Most(mlen, snapUpSize(IF text = <<>> THEN 2 ELSE Len(text) + 1)))
blk2bstr(text) == bfromcstr(text)
bstrcpy(b, mem) == Block(Text(b), IF mem = "tight" THEN b.slen + 1 ELSE snapUpSize(b.slen + 1))

(* Off the left end only the length shrinks. *)
Middle(text, left, len) ==
    LET from == Most(left, 0)
        n == Least(IF left < 0 THEN len + left ELSE len, Len(text) - from)
    IN  IF n <= 0 THEN <<>> ELSE SubSeq(text, from + 1, from + n)

bmidstr(b, left, len) == blk2bstr(Middle(Text(b), left, len))
bHead(b, n) == IF n >= b.slen THEN bstrcpy(b, "plenty") ELSE bmidstr(b, 0, n)
bTail(b, n) == IF n >= b.slen THEN bstrcpy(b, "plenty") ELSE bmidstr(b, b.slen - n, n)

-----------------------------------------------------------------------------
(* Appending and assigning. *)
bconcat(b, arg, mem) ==
    LET grows == b.mlen <= b.slen + arg.len + 1
        aux == IF grows THEN Unaliased(b, arg) ELSE arg
    IN  IF ~Valid(b) \/ (grows /\ CannotCopy(arg, mem)) THEN Err(b)
        ELSE Then(IF grows THEN balloc(b, b.slen + arg.len + 1, mem) ELSE Ok(b),
                  LAMBDA x : Ok(EndAt(Put(x, b.slen, Chars(x, aux)), b.slen + arg.len)))

bconchar(b, c, mem) ==
    Then(balloc(b, b.slen + 2, mem), LAMBDA x : Ok(EndAt(Put(x, b.slen, <<c>>), b.slen + 1)))

bcatblk(b, text, mem) ==
    LET nl == b.slen + Len(text)
    IN  IF ~Valid(b) THEN Err(b)
        ELSE Then(IF b.mlen <= nl THEN balloc(b, nl + 1, mem) ELSE Ok(b),
                  LAMBDA x : Ok(EndAt(Put(x, b.slen, text), nl)))

(* As much as fits is copied before the block is enlarged for the rest; if *)
(* that fails the text ends at the end of the block, without a NUL.        *)
bcatcstr(b, text, mem) ==
    LET room == b.mlen - b.slen
    IN  IF ~Valid(b) THEN Err(b)
        ELSE IF Len(text) < room
        THEN Ok([Put(b, b.slen, Append(text, EOS)) EXCEPT !.slen = b.slen + Len(text)])
        ELSE bcatblk([Put(b, b.slen, SubSeq(text, 1, room)) EXCEPT !.slen = b.mlen],
                     SubSeq(text, room + 1, Len(text)), mem)

(* The block is asked for the text without its NUL. *)
bassign(a, arg, mem) ==
    IF ~Valid(a) THEN Err(a)
    ELSE IF arg.len = 0 THEN Ok(EndAt(a, 0))
    ELSE Then(balloc(a, arg.len, mem), LAMBDA x : Ok(EndAt(Put(x, 0, Chars(x, arg)), arg.len)))

bassignmidstr(a, arg, left, len, mem) ==
    LET from == Most(left, 0)
        n == Least(IF left < 0 THEN len + left ELSE len, arg.len - from)
    IN  IF ~Valid(a) THEN Err(a)
        ELSE IF n <= 0 THEN Ok(EndAt(a, 0))
        ELSE Then(balloc(a, n, mem),
                  LAMBDA x : Ok(EndAt(Put(x, 0, SubSeq(Chars(x, arg), from + 1, from + n)), n)))

bassigncstr(a, text, mem) ==
    IF ~Valid(a) THEN Err(a)
    ELSE IF Len(text) < a.mlen THEN Ok([Put(a, 0, Append(text, EOS)) EXCEPT !.slen = Len(text)])
    ELSE Then(balloc([Put(a, 0, SubSeq(text, 1, a.mlen)) EXCEPT !.slen = a.mlen], Len(text) + 1, mem),
              LAMBDA x : Ok([Put(x, a.mlen, Append(SubSeq(text, a.mlen + 1, Len(text)), EOS))
                                EXCEPT !.slen = Len(text)]))

bassignblk(a, text, mem) ==
    IF ~Valid(a) THEN Err(a)
    ELSE Then(IF Len(text) + 1 > a.mlen THEN balloc(a, Len(text) + 1, mem) ELSE Ok(a),
              LAMBDA x : Ok(EndAt(Put(x, 0, text), Len(text))))

-----------------------------------------------------------------------------
(* Shortening and changing characters. *)
btrunc(b, n) ==
    IF n < 0 \/ ~Valid(b) THEN Err(b) ELSE IF b.slen > n THEN Ok(EndAt(b, n)) ELSE Ok(b)

Mapped(b, Of(_)) == IF Valid(b) THEN Ok(Put(b, 0, [i \in 1 .. b.slen |-> Of(b.data[i])])) ELSE Err(b)
btoupper(b) == Mapped(b, upcase)
btolower(b) == Mapped(b, downcase)

bdelete(b, pos, len) ==
    LET from == Most(pos, 0)
        n == IF pos < 0 THEN len + pos ELSE len
    IN  IF n < 0 \/ ~Valid(b) THEN Err(b)
        ELSE IF n = 0 \/ from >= b.slen THEN Ok(b)
        ELSE IF from + n >= b.slen THEN Ok(EndAt(b, from))
        ELSE Ok(EndAt(Put(b, from, Cells(b, from + n, b.slen - from - n)), b.slen - n))

Dark(b) == {i \in 0 .. b.slen - 1 : b.data[i + 1] \notin White}
First(S) == CHOOSE i \in S : \A j \in S : i <= j
Last1(S) == CHOOSE i \in S : \A j \in S : i >= j

bltrimws(b) ==
    IF ~Valid(b) THEN Err(b)
    ELSE IF Dark(b) = {} THEN Ok(EndAt(b, 0)) ELSE bdelete(b, 0, First(Dark(b)))
brtrimws(b) ==
    IF ~Valid(b) THEN Err(b) ELSE Ok(EndAt(b, IF Dark(b) = {} THEN 0 ELSE Last1(Dark(b)) + 1))
btrimws(b) ==
    IF ~Valid(b) THEN Err(b)
    ELSE IF Dark(b) = {} THEN Ok(EndAt(b, 0)) ELSE bdelete(EndAt(b, Last1(Dark(b)) + 1), 0, First(Dark(b)))

bReverse(b) == IF Valid(b) THEN Ok(Put(b, 0, Reverse(Text(b)))) ELSE Err(b)

bSetChar(b, pos, c, mem) ==
    IF ~Valid(b) \/ pos \notin 0 .. b.slen THEN Err(b)
    ELSE IF pos = b.slen THEN bconchar(b, c, mem) ELSE Ok(Put(b, pos, <<c>>))

bSetCstrChar(b, pos, c, mem) ==
    IF ~Valid(b) \/ pos \notin 0 .. b.slen THEN Err(b)
    ELSE IF pos = b.slen THEN IF c = EOS THEN Ok(b) ELSE bconchar(b, c, mem)
    ELSE Ok([Put(b, pos, <<c>>) EXCEPT !.slen = IF c = EOS THEN pos ELSE @])

-----------------------------------------------------------------------------
(* Inserting and replacing. *)
NoArg == Other(<<>>)

bsetstr(b, pos, arg, fill, mem) ==
    IF pos < 0 \/ ~Valid(b) \/ CannotCopy(arg, mem) THEN Err(b)
    ELSE LET aux == Unaliased(b, arg)
             end == pos + arg.len
         IN  Then(balloc(b, end + 1, mem),
                  LAMBDA x : Ok(EndAt(Put(Put(x, b.slen, Repeat(fill, pos - b.slen)), pos, Chars(x, aux)),
                                      Most(Most(b.slen, pos), end))))

binsert(b, pos, arg, fill, mem) ==
    IF pos < 0 \/ ~Valid(b) \/ CannotCopy(arg, mem) THEN Err(b)
    ELSE LET aux == Unaliased(b, arg)
             d == b.slen + arg.len
             l == pos + arg.len
         IN  Then(balloc(b, Most(d, l) + 1, mem),
                  LAMBDA x : LET open == IF l > d THEN Put(x, b.slen, Repeat(fill, pos - b.slen))
                                         ELSE Put(x, l, Cells(x, pos, d - l))
                             IN  Ok(EndAt(Put(open, pos, Chars(x, aux)), Most(d, l))))

(* Behind the end as bsetstr; inside, the block is asked for the new text  *)
(* without its NUL.                                                        *)
breplace(b, pos, len, arg, fill, mem) ==
    IF pos < 0 \/ len < 0 \/ ~Valid(b) THEN Err(b)
    ELSE IF pos + len >= b.slen
    THEN Then(bsetstr(b, pos, arg, fill, mem),
              LAMBDA x : Ok(IF pos + arg.len < x.slen THEN EndAt(x, pos + arg.len) ELSE x))
    ELSE IF CannotCopy(arg, mem) THEN Err(b)
    ELSE LET aux == Unaliased(b, arg)
             slen == b.slen + arg.len - len
         IN  Then(IF arg.len > len THEN balloc(b, slen, mem) ELSE Ok(b),
                  LAMBDA x : LET moved == Put(x, pos + arg.len, Cells(x, pos + len, b.slen - pos - len))
                             IN  Ok(EndAt(Put(moved, pos, Chars(x, aux)), slen)))

binsertch(b, pos, len, fill, mem) ==
    LET d == b.slen + len
        l == pos + len
    IN  IF pos < 0 \/ len < 0 \/ ~Valid(b) THEN Err(b)
        ELSE Then(balloc(b, Most(d, l) + 1, mem),
                  LAMBDA x : IF l > d THEN Ok(EndAt(Put(x, b.slen, Repeat(fill, l - b.slen)), l))
                             ELSE Ok(EndAt(Put(Put(x, l, Cells(x, pos, d - l)), pos, Repeat(fill, len)), d)))

bpattern(b, len, mem) ==
    IF b.slen <= 0 \/ len < 0 THEN Err(b)
    ELSE Then(balloc(b, len + 1, mem),
              LAMBDA x : IF len > 0 /\ b.slen = 1 THEN bsetstr(x, len, NoArg, b.data[1], mem)
                         ELSE Ok(EndAt(Put(x, 0, [i \in 1 .. len |-> b.data[((i - 1) % b.slen) + 1]]), len)))
bReplicate(b, n, mem) == bpattern(b, n * b.slen, mem)
(* The text is given up first, that of a literal too. *)
bFill(b, c, len, mem) == bsetstr([b EXCEPT !.slen = 0], len, NoArg, c, mem)

bInsertChrs(b, pos, len, c, fill, mem) ==
    IF ~Valid(b) \/ pos < 0 \/ len <= 0 THEN Err(b)
    ELSE Then(Then(IF pos > b.slen THEN bsetstr(b, pos, NoArg, fill, mem) ELSE Ok(b),
                   LAMBDA x : balloc(x, x.slen + len, mem)),
              LAMBDA x : Ok(EndAt(Put(Put(x, pos + len, Cells(x, pos, x.slen - pos)), pos, Repeat(c, len)),
                                  x.slen + len)))

(* Words apart by one blank, in place. *)
JustifyStep(space, acc, c) ==
    [s |-> c # space,
     kept |-> IF acc.s \/ c # space THEN Append(acc.kept, c) ELSE acc.kept]
bJustifyLeft(b, space) ==
    LET kept == FoldLeft(LAMBDA acc, c : JustifyStep(space, acc, c), [s |-> FALSE, kept |-> <<>>], Text(b)).kept
        n == Len(kept)
    IN  IF ~Valid(b) THEN Err(b)
        ELSE Ok(EndAt(Put(b, 0, kept), IF n > 0 /\ kept[n] = space THEN n - 1 ELSE n))

bJustifyRight(b, width, space, mem) ==
    IF width <= 0 THEN Err(b)
    ELSE Then(bJustifyLeft(b, space),
              LAMBDA x : IF x.slen <= width THEN bInsertChrs(x, 0, width - x.slen, space, space, mem) ELSE Ok(x))
bJustifyCenter(b, width, space, mem) ==
    IF width <= 0 THEN Err(b)
    ELSE Then(bJustifyLeft(b, space),
              LAMBDA x : IF x.slen <= width
                         THEN bInsertChrs(x, 0, (width - x.slen + 1) \div 2, space, space, mem) ELSE Ok(x))

(***************************************************************************)
(* Comparing, searching, splitting and joining (bstr/bstrlib.c), on the    *)
(* texts of strings.  Positions are offsets from 0; -1 is BSTR_ERR.        *)
(***************************************************************************)

CharAt(text, i) == text[i + 1]

-----------------------------------------------------------------------------
(* Comparisons; what they return is abstracted to its sign. *)
Sign(n) == IF n < 0 THEN -1 ELSE IF n > 0 THEN 1 ELSE 0
Differences(s, t, n, Of(_)) == {i \in 0 .. n - 1 : Of(CharAt(s, i)) # Of(CharAt(t, i))}
Same(c) == c

biseq(s, t) == s = t
biseqcaseless(s, t) == Len(s) = Len(t) /\ Differences(s, t, Len(s), downcase) = {}
bisstemeqblk(s, t) == Len(s) >= Len(t) /\ Differences(s, t, Len(t), Same) = {}
bisstemeqcaselessblk(s, t) == Len(s) >= Len(t) /\ Differences(s, t, Len(t), downcase) = {}

(* Up to the first difference, or a NUL in both. *)
bstrcmp(s, t) ==
    LET n == Least(Len(s), Len(t))
        ends == Differences(s, t, n, Same) \cup {i \in 0 .. n - 1 : CharAt(s, i) = EOS}
    IN  IF ends # {} THEN Sign(CharAt(s, First(ends)) - CharAt(t, First(ends))) ELSE Sign(Len(s) - Len(t))
bstrncmp(s, t, m) == bstrcmp(SubSeq(s, 1, Least(m, Len(s))), SubSeq(t, 1, Least(m, Len(t))))

bstricmp(s, t) ==
    LET n == Least(Len(s), Len(t))
        ends == Differences(s, t, n, downcase)
    IN  IF ends # {} THEN Sign(downcase(CharAt(s, First(ends))) - downcase(CharAt(t, First(ends))))
        ELSE Sign(Len(s) - Len(t))

(* The first difference is looked for without case, and returned with it.  *)
bstrnicmp(s, t, m) ==
    LET n == Least(m, Least(Len(s), Len(t)))
        ends == Differences(s, t, n, downcase)
    IN  IF ends # {} THEN Sign(CharAt(s, First(ends)) - CharAt(t, First(ends)))
        ELSE IF n = m THEN 0 ELSE Sign(Len(s) - Len(t))

-----------------------------------------------------------------------------
(* binstr.  The characters of the pattern are found one after another, two *)
(* characters of the text per turn; j of them were found, the first at ii. *)
(* When all were found but not next to one another, the search goes back.  *)
RECURSIVE Unrolled(_, _, _, _, _)
Unrolled(s, t, i, j, ii) ==
    LET lf == Len(s) - 1
        k == IF CharAt(s, i) = CharAt(t, j) THEN i ELSE i + 1
        start == IF j = 0 THEN k ELSE ii
    IN  IF i >= lf
        THEN IF ~(i = lf /\ Len(t) = j + 1 /\ CharAt(t, j) = CharAt(s, i)) THEN -1
             ELSE IF i = ii + j THEN ii
             ELSE IF i - j < lf THEN Unrolled(s, t, i - j, 0, ii) ELSE -1
        ELSE IF CharAt(t, j) \notin {CharAt(s, i), CharAt(s, i + 1)} THEN Unrolled(s, t, i + 2, j, ii)
        ELSE IF j + 1 < Len(t) THEN Unrolled(s, t, k + 1, j + 1, start)
        ELSE IF k = start + j THEN start ELSE Unrolled(s, t, k - j, 0, start)

binstr(s, pos, t) ==
    LET lf == Len(s) - Len(t) + 1
        hits == {i \in pos .. lf - 1 : CharAt(s, i) = t[1]}
    IN  IF pos < 0 \/ pos > Len(s) THEN -1
        ELSE IF t = <<>> THEN pos
        ELSE IF lf <= pos THEN -1
        ELSE IF Len(t) = 1 THEN IF hits = {} THEN -1 ELSE First(hits)
        ELSE Unrolled(s, t, pos, 0, -1)

(* The plain loops: forwards without case, backwards with and without. *)
Equal(c, d, caseless) == c = d \/ (caseless /\ downcase(c) = downcase(d))
RECURSIVE Sweep(_, _, _, _, _, _)
Sweep(s, t, i, j, step, caseless) ==
    IF i < 0 \/ i > Len(s) - Len(t) THEN -1
    ELSE IF Equal(CharAt(t, j), CharAt(s, i + j), caseless)
    THEN IF j + 1 >= Len(t) THEN i ELSE Sweep(s, t, i, j + 1, step, caseless)
    ELSE Sweep(s, t, i + step, 0, step, caseless)

binstrcaseless(s, pos, t) ==
    IF pos < 0 \/ pos > Len(s) THEN -1
    ELSE IF t = <<>> THEN pos ELSE Sweep(s, t, pos, 0, 1, TRUE)

Backwards(s, pos, t, caseless) ==
    IF pos < 0 \/ pos > Len(s) THEN -1
    ELSE IF t = <<>> THEN pos
    ELSE IF Len(t) > Len(s) THEN -1 ELSE Sweep(s, t, Least(pos, Len(s) - Len(t)), 0, -1, caseless)
binstrr(s, pos, t) == Backwards(s, pos, t, FALSE)
binstrrcaseless(s, pos, t) == Backwards(s, pos, t, TRUE)

bstrchrp(s, c, pos) ==
    LET hits == {i \in pos .. Len(s) - 1 : CharAt(s, i) = c}
    IN  IF pos < 0 \/ Len(s) <= pos \/ hits = {} THEN -1 ELSE First(hits)
bstrrchrp(s, c, pos) ==
    IF pos < 0 \/ Len(s) <= pos THEN -1
    ELSE LET hits == {i \in 0 .. pos : CharAt(s, i) = c} IN IF hits = {} THEN -1 ELSE Last1(hits)

(* A set of characters as 256 bits. *)
buildCharField(t) == {CharAt(t, i) : i \in 0 .. Len(t) - 1}
invertCharField(cf) == (0 .. 255) \ cf
binchrCF(s, pos, cf) ==
    LET hits == {i \in pos .. Len(s) - 1 : CharAt(s, i) \in cf} IN IF hits = {} THEN -1 ELSE First(hits)
binchrrCF(s, pos, cf) ==
    LET hits == {i \in 0 .. pos : CharAt(s, i) \in cf} IN IF hits = {} THEN -1 ELSE Last1(hits)

binchr(s, pos, t) ==
    IF pos < 0 \/ Len(s) <= pos \/ t = <<>> THEN -1
    ELSE IF Len(t) = 1 THEN bstrchrp(s, t[1], pos) ELSE binchrCF(s, pos, buildCharField(t))
binchrr(s, pos, t) ==
    LET from == IF pos = Len(s) THEN pos - 1 ELSE pos
    IN  IF pos < 0 \/ Len(s) < pos \/ t = <<>> THEN -1
        ELSE IF Len(t) = 1 THEN bstrrchrp(s, t[1], from) ELSE binchrrCF(s, from, buildCharField(t))
bninchr(s, pos, t) ==
    IF pos < 0 \/ Len(s) <= pos \/ t = <<>> THEN -1
    ELSE binchrCF(s, pos, invertCharField(buildCharField(t)))
bninchrr(s, pos, t) ==
    IF pos < 0 \/ Len(s) < pos \/ t = <<>> THEN -1
    ELSE binchrrCF(s, IF pos = Len(s) THEN pos - 1 ELSE pos, invertCharField(buildCharField(t)))

-----------------------------------------------------------------------------
(* findreplaceengine. *)
Instr(b, pos, find, caseless) ==
    IF caseless THEN binstrcaseless(Text(b), pos, find) ELSE binstr(Text(b), pos, find)

(* Equal lengths: in place. *)
RECURSIVE InPlace(_, _, _, _, _)
InPlace(b, find, repl, pos, caseless) ==
    LET i == Instr(b, pos, find, caseless)
    IN  IF i < 0 THEN b ELSE InPlace(Put(b, i, repl), find, repl, i + Len(find), caseless)

(* A shorter replacement: what is between two matches moves down by acc as *)
(* the search goes on.                                                     *)
RECURSIVE Shrink(_, _, _, _, _, _)
Shrink(b, find, repl, pos, acc, caseless) ==
    LET i == Instr(b, pos, find, caseless)
        Closed(x, to) == IF acc > 0 THEN Put(x, pos - acc, Cells(x, pos, to - pos)) ELSE x
    IN  IF i < 0
        THEN IF acc = 0 THEN b ELSE EndAt(Closed(b, b.slen), b.slen - acc)
        ELSE Shrink(Put(Closed(b, i), i - acc, repl), find, repl, i + Len(find),
                    acc + Len(find) - Len(repl), caseless)

(* A longer one: all matches first, then one block, filled from the end.   *)
RECURSIVE Found(_, _, _, _)
Found(b, find, pos, caseless) ==
    LET i == Instr(b, pos, find, caseless)
    IN  IF i < 0 THEN <<>> ELSE <<i>> \o Found(b, find, i + Len(find), caseless)

RECURSIVE Spread(_, _, _, _, _)
Spread(b, d, n, repl, gap) ==
    IF n = 0 THEN b
    ELSE LET s == d[n] + gap.find
             acc == n * gap.delta
             moved == Put(b, s + acc, Cells(b, s, d[n + 1] - s))
         IN  Spread(Put(moved, s + acc - Len(repl), repl), d, n - 1, repl, gap)

(* A replacement that lies before pos in the string was not copied: it is  *)
(* read from the old block, which is undefined.                            *)
Expand(b, find, repl, pos, caseless, copied, mem) ==
    LET d == Found(b, find, pos, caseless)
        slen == b.slen + Len(d) * (Len(repl) - Len(find))
        gap == [find |-> Len(find), delta |-> Len(repl) - Len(find)]
    IN  Then(balloc(b, slen + 1, mem),
             LAMBDA x : Ok([EndAt(Spread(x, Append(d, b.slen), Len(d), repl, gap), slen)
                               EXCEPT !.over = @ \/ (~copied /\ x.block > b.block)]))

findreplaceengine(b, find, repl, pos, caseless, mem) ==
    LET f == Chars(b, find)
        r == Chars(b, repl)
        Aliased(arg) == arg.own /\ pos - arg.len < arg.at /\ arg.at < b.slen
    IN  IF pos < 0 \/ find.len <= 0 \/ ~Valid(b) THEN Err(b)
        ELSE IF pos > b.slen - find.len THEN Ok(b)
        ELSE IF mem = "none" /\ (Aliased(find) \/ Aliased(repl)) THEN Err(b)
        ELSE IF Len(f) = Len(r) THEN Ok(InPlace(b, f, r, pos, caseless))
        ELSE IF Len(f) > Len(r) THEN Ok(Shrink(b, f, r, pos, 0, caseless))
        ELSE Expand(b, f, r, pos, caseless, ~repl.own \/ Aliased(repl), mem)

-----------------------------------------------------------------------------
(* Splitting.  The callbacks are given offset and length of each part.     *)
RECURSIVE Parts(_, _, _)
Parts(s, from, breaks) ==
    LET cuts == {i \in breaks : i >= from}
    IN  IF cuts = {} THEN <<<<from, Len(s) - from>>>>
        ELSE <<<<from, First(cuts) - from>>>> \o Parts(s, First(cuts) + 1, breaks)

bsplitcb(s, c, pos) == Parts(s, pos, {i \in 0 .. Len(s) - 1 : CharAt(s, i) = c})

bsplitscb(s, t, pos) ==
    IF t = <<>> THEN <<<<0, Len(s)>>>>
    ELSE IF Len(t) = 1 THEN bsplitcb(s, t[1], pos)
    ELSE Parts(s, pos, {i \in 0 .. Len(s) - 1 : CharAt(s, i) \in buildCharField(t)})

(* The loop of bsplitstrcb goes on one character behind the separator. *)
RECURSIVE SplitAt(_, _, _, _)
SplitAt(s, t, i, p) ==
    IF i > Len(s) - Len(t) THEN <<<<p, Len(s) - p>>>>
    ELSE IF SubSeq(s, i + 1, i + Len(t)) = t
    THEN <<<<p, i - p>>>> \o SplitAt(s, t, i + Len(t) + 1, i + Len(t))
    ELSE SplitAt(s, t, i + 1, p)

bsplitstrcb(s, t, pos) ==
    IF t = <<>> THEN [i \in 1 .. Len(s) - pos |-> <<pos + i - 1, 1>>]
    ELSE IF Len(t) = 1 THEN bsplitcb(s, t[1], pos) ELSE SplitAt(s, t, pos, pos)

(* bscb copies each part into a list whose array doubles. *)
bstrListCreate == [mlen |-> 4, entry |-> <<>>]
bscb(list, s, part) ==
    [mlen |-> IF Len(list.entry) >= list.mlen THEN 2 * list.mlen ELSE list.mlen,
     entry |-> Append(list.entry, Middle(s, part[1], part[2]))]
Listed(s, parts) == FoldLeft(LAMBDA list, part : bscb(list, s, part), bstrListCreate, parts)
bsplit(s, c) == Listed(s, bsplitcb(s, c, 0))
bsplits(s, t) == Listed(s, bsplitscb(s, t, 0))
bsplitstr(s, t) == Listed(s, bsplitstrcb(s, t, 0))

(* The size is counted first: for an empty list it is short by the         *)
(* separator.                                                              *)
bjoin(entries, sep) ==
    LET size == FoldLeft(LAMBDA n, e : n + Len(e), 1, entries) + (Len(entries) - 1) * Len(sep)
        text == FoldLeft(LAMBDA acc, i : acc \o (IF i > 1 THEN sep ELSE <<>>) \o entries[i],
                         <<>>, [i \in DOMAIN entries |-> i])
    IN  EndAt(Put([Block(<<>>, Most(size, 0)) EXCEPT !.slen = size - 1], 0, text), Len(text))

-----------------------------------------------------------------------------
(* bJustifyMargin: the words of the text spread over the width. *)
RECURSIVE Spaced(_, _, _, _, _, _, _)
Spaced(b, words, c, l, width, space, mem) ==
    IF words = <<>> THEN b
    ELSE LET s == (width - l + (c \div 2)) \div c
             gap == b.slen > 0
             open == IF gap THEN bInsertChrs(b, b.slen, s, space, space, mem).b ELSE b
             next == bconcat(open, Other(Head(words)), mem).b
         IN  Spaced(next, Tail(words), c - 1, IF gap THEN l + s ELSE l, width, space, mem)

bJustifyMargin(b, width, space, mem) ==
    LET words == SelectSeq(bsplit(Text(b), space).entry, LAMBDA w : w # <<>>)
        c == Len(words)
        l == FoldLeft(LAMBDA n, w : n + Len(w), 0, words)
    IN  IF ~Valid(b) THEN Err(b)
        ELSE IF l + c >= width \/ c < 2 THEN bJustifyLeft(b, space)
        ELSE Ok(Spaced([b EXCEPT !.slen = 0], words, c, l, width, space, mem))
=============================================================================
