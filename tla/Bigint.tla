-------------------------------- MODULE Bigint --------------------------------
(***************************************************************************)
(* The big integers of src/crypto/bigint.c as they are configured in       *)
(* src/ssl/config.h: Barrett reduction, Karatsuba multiplication, sliding  *)
(* windows and the Chinese remainder theorem.  An operator maps a context  *)
(* w to a context whose field r is the bigint returned.                    *)
(*   w.heap    the bigints: mem (the components, the least first), size    *)
(*             and refs                                                    *)
(*   w.free    free_list, w.active active_count                            *)
(*   w.mod, w.nmod, w.mu   the moduli and what is computed from them       *)
(*   w.off     mod_offset, w.g the window, w.fill the content of memory    *)
(*             that nobody has written                                     *)
(*   w.neg     the last subtraction was negative, w.abort abort() called   *)
(*   w.wild    memory that belongs to no bigint is written                *)
(*   w.cut     a result has lost part of its value: the rest of a division *)
(*             was cut, a short number split, or a long one not reduced    *)
(*   w.trap    a number was divided by zero: the process has ended         *)
(***************************************************************************)
EXTENDS Integers, Sequences, SequencesExt, FiniteSets, FiniteSetsExt, TLC

CONSTANTS
    COMP_BIT_SIZE,          \* bits of a component
    MUL_KARATSUBA_THRESH,   \* components from which products are split
    SQU_KARATSUBA_THRESH

COMP_RADIX == 2^COMP_BIT_SIZE
COMP_MAX == COMP_RADIX * COMP_RADIX - 1
PERMANENT == 1000
Offsets == {"M", "P", "Q"}

\* The function s of 1..n as a sequence.
Seq1(s) == s \o <<>>

\* Component i, counted from 0.
Comp(w, o, i) ==
    IF i < Len(w.heap[o].mem) THEN w.heap[o].mem[i + 1] ELSE w.fill
Size(w, o) == w.heap[o].size
\* n components of o from component at on.
Window(w, o, at, n) == Seq1([i \in 1..n |-> Comp(w, o, at + i - 1)])
Comps(w, o) == Window(w, o, 0, Size(w, o))
Top(w, o) == Comp(w, o, Size(w, o) - 1)

(* The first Len(digits) components of o are written. *)
Write(w, o, digits) ==
    [w EXCEPT !.heap[o].mem = digits \o SubSeq(@, Len(digits) + 1, Len(@))]
Resize(w, o, n) == [w EXCEPT !.heap[o].size = n]
Give(w, o) == [w EXCEPT !.r = o]

check(w, o) == IF w.heap[o].refs <= 0 THEN [w EXCEPT !.abort = TRUE] ELSE w

\* More memory is twice the memory, or what is needed; the new components are zero.
more_comps(w, o, n) ==
    LET old == w.heap[o]
        cap == IF n > Len(old.mem) THEN Max({2 * Len(old.mem), n}) ELSE Len(old.mem)
        mem == Seq1([i \in 1..cap |->
                       IF i > old.size /\ i <= n THEN 0 ELSE Comp(w, o, i - 1)])
    IN [w EXCEPT !.heap[o].mem = mem, !.heap[o].size = n]

alloc_new(w, size) ==
    [w EXCEPT !.heap = Append(@, [mem |-> Seq1([i \in 1..size |-> w.fill]), size |-> size, refs |-> 1]),
              !.active = @ + 1, !.r = Len(w.heap) + 1]
alloc_again(w, o) ==
    [w EXCEPT !.free = Tail(@), !.heap[o].refs = 1, !.active = @ + 1, !.r = o,
              !.abort = @ \/ w.heap[o].refs # 0]
alloc(w, size) ==
    IF w.free = <<>> THEN alloc_new(w, size)
    ELSE alloc_again(more_comps(w, w.free[1], size), w.free[1])

trim(w, o) ==
    LET used == {i \in 1..Size(w, o) : Comp(w, o, i - 1) # 0}
    IN Give(Resize(check(w, o), o, IF used = {} THEN Min({1, Size(w, o)}) ELSE Max(used)), o)

bi_copy(w, o) ==
    LET v == check(w, o)
    IN Give(IF w.heap[o].refs = PERMANENT THEN v ELSE [v EXCEPT !.heap[o].refs = @ + 1], o)

bi_permanent(w, o) ==
    [check(w, o) EXCEPT !.abort = @ \/ w.heap[o].refs # 1, !.heap[o].refs = PERMANENT]

bi_depermanent(w, o) ==
    [check(w, o) EXCEPT !.abort = @ \/ w.heap[o].refs # PERMANENT, !.heap[o].refs = 1]

bi_free(w, o) ==
    LET refs == w.heap[o].refs
    IN CASE refs = PERMANENT -> w
         [] refs # PERMANENT /\ refs > 1 -> [w EXCEPT !.heap[o].refs = @ - 1]
         [] OTHER -> [w EXCEPT !.heap[o].refs = @ - 1, !.free = <<o>> \o @, !.active = @ - 1,
                               !.abort = @ \/ refs <= 0 \/ w.active <= 0]

\* A new bigint with these components.
Filled(w, digits) == Write(w, w.r, digits)
New(w, digits) == Filled(alloc(w, Len(digits)), digits)

int_to_bi(w, i) == New(w, <<i>>)

bi_clone(w, o) == New(check(w, o), Comps(w, o))

bi_initialize(fill) ==
    LET none == [x \in Offsets |-> 0]
        w == New([heap |-> <<>>, free |-> <<>>, active |-> 0, mod |-> none, nmod |-> none,
                  mu |-> none, off |-> "M", g |-> <<>>, radix |-> 1, fill |-> fill,
                  abort |-> FALSE, wild |-> FALSE, cut |-> FALSE, trap |-> FALSE, neg |-> 0, out |-> <<>>, r |-> 0], <<0, 1>>)
    IN bi_permanent(w, w.r)

bi_terminate(w) ==
    LET v == bi_free(bi_depermanent(w, w.radix), w.radix)
    IN [v EXCEPT !.abort = @ \/ v.active # 0]

bi_clear_cache(w) == [w EXCEPT !.free = <<>>]

-----------------------------------------------------------------------------
(* Components. *)

RECURSIVE AddFrom(_, _, _)
\* Sums with the carries that the code detects; the last one is one more component.
AddFrom(a, b, carry) ==
    IF a = <<>> THEN <<carry>>
    ELSE LET sl == (a[1] + b[1]) % COMP_RADIX
             rl == (sl + carry) % COMP_RADIX
             next == IF sl < a[1] \/ rl < sl THEN 1 ELSE 0
         IN <<rl>> \o AddFrom(Tail(a), Tail(b), next)

RECURSIVE SubtractFrom(_, _, _)
\* Differences; the last element is the borrow.
SubtractFrom(a, b, carry) ==
    IF a = <<>> THEN <<carry>>
    ELSE LET sl == (a[1] - b[1]) % COMP_RADIX
             rl == (sl - carry) % COMP_RADIX
             next == IF sl > a[1] \/ rl > sl THEN 1 ELSE 0
         IN <<rl>> \o SubtractFrom(Tail(a), Tail(b), next)

RECURSIVE MultiplyFrom(_, _, _, _)
\* r + a * b + carry, component by component, r as long as a; the last element is the carry.
MultiplyFrom(r, a, b, carry) ==
    IF a = <<>> THEN <<carry>>
    ELSE LET tmp == r[1] + a[1] * b + carry
         IN <<tmp % COMP_RADIX>> \o MultiplyFrom(Tail(r), Tail(a), b, tmp \div COMP_RADIX)

RECURSIVE DivideFrom(_, _, _)
\* The quotients of the components, the most significant first.
DivideFrom(a, denom, r) ==
    IF a = <<>> THEN <<>>
    ELSE LET x == r * COMP_RADIX + a[1]
         IN <<x \div denom>> \o DivideFrom(Tail(a), denom, x % denom)

Zeros(n) == Seq1([i \in 1..n |-> 0])
Backward(s) == Seq1([i \in 1..Len(s) |-> s[Len(s) + 1 - i]])

\* b is freed and a returned; a is freed and the new bigint returned.
Keep1(w, a, b) == trim(bi_free(w, b), a)
Instead(w, a) == trim(bi_free(w, a), w.r)

AddComps(w, a, b, n) == Write(w, a, AddFrom(Window(w, a, 0, n), Window(w, b, 0, n), 0))
bi_add(w, a, b) ==
    LET n == Max({Size(w, a), Size(w, b)})
    IN Keep1(AddComps(more_comps(more_comps(check(check(w, a), b), a, n + 1), b, n), a, b, n), a, b)

\* The borrow is left in neg.
PutDifference(w, a, x) == [Write(w, a, Front(x)) EXCEPT !.neg = Last(x)]
SubtractComps(w, a, b, n) == PutDifference(w, a, SubtractFrom(Comps(w, a), Window(w, b, 0, n), 0))
bi_subtract(w, a, b) ==
    LET n == Size(w, a)
    IN Keep1(trim(SubtractComps(more_comps(check(check(w, a), b), b, n), a, b, n), b), a, b)

bi_int_multiply(w, a, b) ==
    Instead(New(check(w, a), MultiplyFrom(Zeros(Size(w, a)), Comps(w, a), b, 0)), a)

bi_int_divide(w, o, denom) ==
    trim(Write(check(w, o), o, Backward(DivideFrom(Backward(Comps(w, o)), denom, 0))), o)

comp_right_shift(w, o, n) ==
    LET left == Size(w, o) - n
    IN Give(IF left <= 0 THEN Resize(Write(w, o, <<0>>), o, 1)
            ELSE Resize(Write(w, o, SubSeq(Comps(w, o), n + 1, Size(w, o))), o, left), o)

comp_left_shift(w, o, n) ==
    Give(IF n <= 0 THEN w
         ELSE Write(more_comps(w, o, Size(w, o) + n), o, Zeros(n) \o Comps(w, o)), o)

comp_mod(w, o, n) == Give(IF Size(w, o) > n THEN Resize(w, o, n) ELSE w, o)

\* 1: a is larger, -1: smaller.  Both are expected without leading zeros.
bi_compare(w, a, b) ==
    LET differ == {i \in 0..(Size(w, a) - 1) : Comp(w, a, i) # Comp(w, b, i)}
    IN CASE Size(w, a) > Size(w, b) -> 1
         [] Size(w, a) < Size(w, b) -> -1
         [] Size(w, a) = Size(w, b) /\ differ = {} -> 0
         [] OTHER -> IF Comp(w, a, Max(differ)) > Comp(w, b, Max(differ)) THEN 1 ELSE -1

(***************************************************************************)
(* Division, multiplication, reduction and powers of src/crypto/bigint.c.  *)
(* A byte has BYTE_BITS bits, of which COMP_BYTE_SIZE make a component.    *)
(***************************************************************************)

CONSTANTS
    COMP_BYTE_SIZE,     \* bytes of a component
    WINDOW_LIMIT        \* bits of an exponent from which the window grows (32 in the code)

BYTE_BITS == COMP_BIT_SIZE \div COMP_BYTE_SIZE
BYTE == 2^BYTE_BITS

(* The value of components, the least first. *)
RECURSIVE NumberOf(_)
NumberOf(s) == IF s = <<>> THEN 0 ELSE s[1] + COMP_RADIX * NumberOf(Tail(s))
Value(w, o) == NumberOf(Comps(w, o))

-----------------------------------------------------------------------------
(* Division. *)

\* What the radix is divided by, in one component: none is left for a top component of ones,
\* and the division is by zero.
Over(top) == (top + 1) % COMP_RADIX
Factor(top) == IF Over(top) = 0 THEN 1 ELSE COMP_RADIX \div Over(top)
Trapped(w, top) == [w EXCEPT !.trap = @ \/ Over(top) = 0]

Splice(w, u, at, digits) ==
    Write(w, u, Window(w, u, 0, at) \o digits)

(* mutant: the estimate is not corrected by the second component *)
Estimate_First(u0, u1, u2, v1, v2, two) ==
    IF u0 = v1 THEN COMP_RADIX - 1 ELSE (u0 * COMP_RADIX + u1) \div v1

\* q': inner is kept in one component.
Estimate(u0, u1, u2, v1, v2, two) ==
    LET q == IF u0 = v1 THEN COMP_RADIX - 1 ELSE (u0 * COMP_RADIX + u1) \div v1
        inner == (COMP_RADIX * u0 + u1 - q * v1) % COMP_RADIX
    IN IF two /\ v2 # 0 /\ v2 * q > inner * COMP_RADIX + u2 THEN q - 1 ELSE q

(* A division x: the context w, the numbers u and v times d, the component q of the quotient *)
(* and those before it; v has n components and u m more. *)
Named(x, name, w) == [x EXCEPT !.w = w, ![name] = w.r]
U(x, i) == Comp(x.w, x.tmp, Size(x.w, x.tmp) - i - 1)
QuotientDigit(x) == Estimate(U(x, 0), U(x, 1), U(x, 2), Top(x.w, x.v), Comp(x.w, x.v, Size(x.w, x.v) - 2),
                     Size(x.w, x.v) > 1)
Shortened(x) == U(x, 0) = Top(x.w, x.v) /\ U(x, 0) + U(x, 1) >= COMP_RADIX /\ x.q < COMP_RADIX - 1

DivideWindow(x, at) ==
    [x EXCEPT !.w = [Write(@, x.tmp, Window(@, x.u, at, x.n + 1)) EXCEPT !.neg = 0]]
DivideGuess(x) == [x EXCEPT !.q = QuotientDigit(x)]
DivideCut(x) == [x EXCEPT !.w.cut = @ \/ Shortened(x)]
DivideTimes(x) == IF x.q = 0 THEN x ELSE [x EXCEPT !.w = bi_int_multiply(bi_copy(@, x.v), x.v, x.q)]
DivideLess(x) ==
    IF x.q = 0 THEN x
    ELSE [x EXCEPT !.w = more_comps(bi_subtract(@, x.tmp, @.r), x.tmp, x.n + 1)]
DivideBack(x) ==
    IF x.w.neg = 0 THEN x
    ELSE [x EXCEPT !.q = @ - 1,
                   !.w = [bi_add(bi_copy(@, x.v), x.tmp, x.v) EXCEPT !.heap[x.tmp].size = @ - 1,
                                                                     !.heap[x.v].size = @ - 1]]
DivideRest(x, at) ==
    [x EXCEPT !.w = Splice(@, x.u, at, Window(@, x.tmp, 0, x.n + 1)), !.digits = Append(@, x.q)]

\* One component of the quotient; the window of u becomes the rest.
DivideStep(x, at) ==
    DivideRest(DivideBack(DivideLess(DivideTimes(DivideCut(DivideGuess(DivideWindow(x, at)))))), at)

RECURSIVE DivideLoop(_, _)
DivideLoop(x, j) ==
    IF j > x.m THEN x
    ELSE DivideLoop(DivideStep(x, Size(x.w, x.u) - x.n - 1 - j), j + 1)

\* The quotient, a short u, and both numbers times d, so that v is at least half the radix;
\* u has one component more.
Scaled(w, o, d) == IF d > 1 THEN bi_int_multiply(w, o, d) ELSE Give(w, o)
NewQuotient(x) == Named(x, "quot", alloc(x.w, x.m + 1))
NewWindow(x) == Named(x, "tmp", alloc(x.w, x.n + 1))
TrimV(x) == [x EXCEPT !.w = trim(@, x.v)]
WithFactor(x) ==
    LET top == Top(x.w, x.v) IN [x EXCEPT !.d = Factor(top), !.w = Trapped(@, top)]
ScaleU(x) == Named(x, "u", Scaled(x.w, x.u, x.d))
ScaleV(x, is_mod) ==
    Named(x, "v", IF is_mod THEN Give(x.w, IF x.d > 1 THEN x.w.nmod[x.w.off] ELSE x.v)
                  ELSE Scaled(x.w, x.v, x.d))
LongerU(x) ==
    IF Size(x.w, x.u) = x.n + x.m THEN [x EXCEPT !.w = more_comps(@, x.u, x.n + x.m + 1)] ELSE x

Normalised(w, u, v, is_mod) ==
    LET x == [w |-> check(check(w, u), v), u |-> u, v |-> v, tmp |-> 0, quot |-> 0, d |-> 1, q |-> 0,
              digits |-> <<>>, n |-> Size(w, v), m |-> Size(w, u) - Size(w, v)]
    IN LongerU(ScaleV(ScaleU(WithFactor(TrimV(NewWindow(NewQuotient(x))))), is_mod))

DivideFree(x) == [x EXCEPT !.w = bi_free(bi_free(@, x.tmp), x.v)]
DivideResult(x, is_mod) ==
    IF is_mod THEN bi_int_divide(Keep1(x.w, x.u, x.quot), x.u, x.d)
    ELSE Keep1(Write(x.w, x.quot, Backward(x.digits)), x.quot, x.u)

bi_divide(w, u, v, is_mod) ==
    IF is_mod /\ bi_compare(w, v, u) > 0 THEN Give(bi_free(w, v), u)
    ELSE DivideResult(DivideFree(DivideLoop(Normalised(w, u, v, is_mod), 0)), is_mod)

bi_mod(w, o) == bi_divide(w, o, w.mod[w.off], TRUE)

-----------------------------------------------------------------------------
(* Products. *)

RECURSIVE ProductRows(_, _, _, _)
\* acc + a * b * RADIX^i, a row for each component of b; a row overwrites the component after it.
ProductRows(acc, a, b, i) ==
    IF b = <<>> THEN acc
    ELSE LET n == Len(a)
             row == MultiplyFrom(SubSeq(acc, i + 1, i + n), a, b[1], 0)
         IN ProductRows(SubSeq(acc, 1, i) \o row \o SubSeq(acc, i + n + 2, Len(acc)), a, Tail(b), i + 1)

regular_multiply(w, a, b) ==
    LET digits == ProductRows(Zeros(Size(w, a) + Size(w, b)), Comps(w, a), Comps(w, b), 0)
    IN Instead(bi_free(New(check(check(w, a), b), digits), a), b)

RECURSIVE SquareRow(_, _, _, _, _, _)
\* Row i of a square, from component j on: u is the bit that a double component has no room for.
SquareRow(w, x, i, j, carry, u) ==
    IF j = Len(x)
    THEN [w EXCEPT ![i + j + 1] = (@ + carry) % COMP_RADIX,
                   ![IF u THEN i + j + 2 ELSE i + j + 1] = IF u THEN 1 ELSE @]
    ELSE LET xx == x[i + 1] * x[j + 1]
             blob == w[i + j + 1] + carry + (IF u THEN COMP_RADIX ELSE 0)
             tmp == (2 * xx + blob) % (COMP_MAX + 1)
             over == COMP_MAX - xx < xx \/ COMP_MAX - ((2 * xx) % (COMP_MAX + 1)) < blob
         IN SquareRow([w EXCEPT ![i + j + 1] = tmp % COMP_RADIX], x, i, j + 1, tmp \div COMP_RADIX, over)

RECURSIVE SquareRows(_, _, _)
SquareRows(w, x, i) ==
    IF i = Len(x) THEN w
    ELSE LET tmp == w[2 * i + 1] + x[i + 1] * x[i + 1]
         IN SquareRows(SquareRow([w EXCEPT ![2 * i + 1] = tmp % COMP_RADIX], x, i, i + 1,
                           tmp \div COMP_RADIX, FALSE), x, i + 1)

regular_square(w, o) ==
    Instead(New(w, SquareRows(Zeros(2 * Size(w, o)), Comps(w, o), 0)), o)

RECURSIVE karatsuba(_, _, _, _)

bi_multiply(w, a, b) ==
    IF Min({Size(w, a), Size(w, b)}) < MUL_KARATSUBA_THRESH THEN regular_multiply(w, a, b)
    ELSE karatsuba(w, a, b, FALSE)

bi_square(w, a) ==
    IF Size(w, a) < SQU_KARATSUBA_THRESH THEN regular_square(w, a) ELSE karatsuba(w, a, a, TRUE)

(* A product x: the halves al, ah, bl and bh of the numbers, of m components each, and the *)
(* products p0, p1 and p2. *)
Product(x, i, j) == IF x.square THEN bi_square(x.w, i) ELSE bi_multiply(x.w, i, j)
Shared(x, i, j) == [x EXCEPT !.w = IF x.square THEN bi_copy(@, i) ELSE bi_copy(bi_copy(@, i), j)]

\* The lower m components of a clone and the others; both are new.  A number with less than
\* m components is read behind its end: the product is lost.
LowerHalf(x, name, o) == Named(x, name, bi_clone(x.w, o))
UpperHalf(x, name, o) == Named(x, name, bi_clone(Resize(x.w, x.w.r, x.m), o))
Shifted(x, o) == [x EXCEPT !.w = bi_free(comp_right_shift(@, @.r, x.m), o)]
Halves(x, low, high, o) == Shifted(UpperHalf(LowerHalf(x, low, o), high, o), o)

LowProduct(x) == Named(x, "p0", Product(Shared(x, x.al, x.bl), x.al, x.bl))
HighProduct(x) == Named(x, "p2", Product(Shared(x, x.ah, x.bh), x.ah, x.bh))
Summed(x, i, j) == [x EXCEPT !.w = bi_add(@, i, j)]
MiddleProduct(x) == Named(x, "p1", Product(x, x.al, x.bl))

\* p1 - p2 - p0 in the middle, p2 on top.
MinusProduct(w, p, o) == bi_subtract(bi_copy(w, o), p, o)
MiddlePart(x) == [x EXCEPT !.w = MinusProduct(MinusProduct(@, x.p1, x.p2), x.p1, x.p0)]
Placed(x) == [x EXCEPT !.w = comp_left_shift(comp_left_shift(@, x.p1, x.m), x.p2, 2 * x.m)]
AddAll(x) == bi_add(bi_add(x.w, x.p0, x.p2), x.p1, x.p0)
Combine(x) == AddAll(Placed(MiddlePart(x)))

SplitNumbers(x, a, b) ==
    IF x.square THEN Halves(x, "al", "ah", a) ELSE Halves(Halves(x, "al", "ah", a), "bl", "bh", b)
SumHalves(x) == IF x.square THEN Summed(x, x.al, x.ah) ELSE Summed(Summed(x, x.al, x.ah), x.bl, x.bh)

karatsuba(w, a, b, is_square) ==
    LET m == ((IF is_square THEN Size(w, a) ELSE Max({Size(w, a), Size(w, b)})) + 1) \div 2
        short == Min({Size(w, a), Size(w, b)}) < m
        x == [w |-> [w EXCEPT !.cut = @ \/ short], square |-> is_square, m |-> m, al |-> 0, ah |-> 0,
              bl |-> 0, bh |-> 0, p0 |-> 0, p1 |-> 0, p2 |-> 0]
    IN Combine(MiddleProduct(SumHalves(HighProduct(LowProduct(SplitNumbers(x, a, b))))))

-----------------------------------------------------------------------------
(* Import and export. *)

RECURSIVE Pack(_, _)
\* Digits in base b, the least first, as components of per digits.
Pack(digits, b) ==
    LET per == IF b = BYTE THEN COMP_BYTE_SIZE ELSE COMP_BIT_SIZE
        here == 1..Min({per, Len(digits)})
    IN IF digits = <<>> THEN <<>>
       ELSE <<FoldSet(LAMBDA i, acc : acc + digits[i] * b^(i - 1), 0, here)>>
            \o Pack(SubSeq(digits, Cardinality(here) + 1, Len(digits)), b)

TrimResult(w) == trim(w, w.r)
bi_import(w, data) == TrimResult(New(w, Pack(Backward(data), BYTE)))

\* Digits of text have one bit here; the leading zeros stay.
bi_str_import(w, data) == New(w, Pack(Backward(data), 2))

\* The bytes written, the least first.  Once the first byte of data is written only the
\* component is left: each component that remains writes one more byte, before data.
Exported(w, o, size) ==
    LET bytes == Seq1([i \in 1..(Size(w, o) * COMP_BYTE_SIZE) |->
                    (Comp(w, o, (i - 1) \div COMP_BYTE_SIZE) \div BYTE^((i - 1) % COMP_BYTE_SIZE)) % BYTE])
    IN SubSeq(bytes \o Zeros(size), 1, size)
BytesBefore(w, o, size) ==
    Cardinality({i \in 0..(Size(w, o) - 1) : i * COMP_BYTE_SIZE >= size})

\* w.out: what is exported; bytes written before it are wild.
bi_export(w, o, size) ==
    [bi_free(check(w, o), o) EXCEPT !.out = Backward(Exported(w, o, size)),
                                    !.wild = @ \/ BytesBefore(w, o, size) > 0]

-----------------------------------------------------------------------------
(* Reduction. *)

\* A row of the product from component outer on, or below inner; the carry goes behind it.
PartialRow(acc, a, b, i, inner, outer) ==
    LET n == Len(a)
        start == IF outer # 0 /\ i < outer THEN outer ELSE i
        stop == IF inner # 0 THEN Max({start, Min({inner, i + n})}) ELSE i + n
        row == MultiplyFrom(SubSeq(acc, start + 1, stop), SubSeq(a, start - i + 1, stop - i), b, 0)
    IN SubSeq(acc, 1, start) \o row \o SubSeq(acc, stop + 2, Len(acc))

RECURSIVE PartialRows(_, _, _, _, _, _)
PartialRows(acc, a, b, i, inner, outer) ==
    IF b = <<>> THEN acc
    ELSE PartialRows(PartialRow(acc, a, b[1], i, inner, outer), a, Tail(b), i + 1, inner, outer)

\* With n = outer the first row has nothing to do, and its loop counts down from 0:
\* it leaves the memory of all three bigints.
PartialStart(old, n, inner, outer) ==
    IF inner # 0 THEN Zeros(inner) \o SubSeq(old, inner + 1, n) ELSE SubSeq(old, 1, outer) \o Zeros(n - outer)
PartialProduct(w, a, b, inner, outer) ==
    LET start == PartialStart(Comps(w, w.r), Size(w, a) + Size(w, b), inner, outer)
    IN Write(w, w.r, PartialRows(start, Comps(w, a), Comps(w, b), 0, inner, outer))
PartialOf(w, a, b, inner, outer) ==
    IF inner = 0 /\ Min({Size(w, a), Size(w, b)}) < outer
    THEN Resize(Write(bi_free(bi_free(w, a), b), w.r, <<0>>), w.r, 1)
    ELSE IF outer # 0 /\ Size(w, a) = outer THEN [w EXCEPT !.wild = TRUE]
    ELSE Instead(bi_free(PartialProduct(w, a, b, inner, outer), a), b)
partial_multiply(w, a, b, inner, outer) ==
    PartialOf(alloc(check(check(w, a), b), Size(w, a) + Size(w, b)), a, b, inner, outer)

\* Components of the bigint returned.
ShiftRight(w, n) == comp_right_shift(w, w.r, n)
ShiftLeft(w, n) == comp_left_shift(w, w.r, n)
LowComps(w, n) == comp_mod(w, w.r, n)

\* A number that partial_multiply takes to be too short has the quotient 0: if it has more
\* than k + 1 components, the others are lost.
TimesMu(w, k) == partial_multiply(w, w.r, w.mu[w.off], 0, k - 1)
BarrettQuotient(w, o, k) == ShiftRight(TimesMu(ShiftRight(bi_clone(w, o), k - 1), k), k + 1)
TimesModulus(w, m, k) == LowComps(partial_multiply(w, w.r, m, k + 1, 0), k + 1)
BarrettRest(w, o, m) == IF bi_compare(w, o, m) >= 0 THEN bi_subtract(w, o, m) ELSE w
LessMultiple(w, o) == bi_subtract(w, o, w.r)
Lowest(w, o, n) == [comp_mod(w, o, n) EXCEPT !.r = w.r]
LessQuotient(w, o, m, k) == LessMultiple(TimesModulus(Lowest(w, o, k + 1), m, k), o)

bi_barrett(w, o) ==
    LET m == w.mod[w.off]
        k == Size(w, m)
        lost == Size(w, o) \in (k + 2)..(2 * k - 3)
    IN IF Size(w, o) > 2 * k THEN bi_mod(w, o)
       ELSE BarrettRest(LessQuotient(BarrettQuotient([w EXCEPT !.cut = @ \/ lost], o, k), o, m, k), o, m)

KeepModulus(w, bim, off) == bi_permanent([w EXCEPT !.mod[off] = bim], bim)
KeepNormal(w, off) == bi_permanent([w EXCEPT !.nmod[off] = w.r], w.r)
KeepMu(w, off) == bi_permanent([w EXCEPT !.mu[off] = w.r], w.r)
QuotientBy(w, o) == bi_divide(w, w.r, o, FALSE)

bi_set_mod(w, bim, off) ==
    LET k == Size(w, bim)
        top == Top(w, bim)
        kept == KeepModulus(Trapped(w, top), bim, off)
        normal == KeepNormal(bi_int_multiply(kept, bim, Factor(top)), off)
    IN KeepMu(QuotientBy(ShiftLeft(bi_clone(normal, w.radix), 2 * k - 1), bim), off)

Drop1(w, o) == bi_free(bi_depermanent(w, o), o)
bi_free_mod(w, off) == Drop1(Drop1(Drop1(w, w.mod[off]), w.mu[off]), w.nmod[off])

-----------------------------------------------------------------------------
(* Powers. *)

bi_residue(w, o) == IF w.wild THEN w ELSE bi_barrett(w, o)

\* The bigint returned is reduced, or squared and reduced.
Reduced(w) == bi_residue(w, w.r)
SquaredMod(w) == Reduced(bi_square(w, w.r))

find_max_exp_index(w, e) ==
    LET i == CHOOSE j \in 0..(COMP_BIT_SIZE - 1) :
                 2^j <= Top(w, e) /\ Top(w, e) < 2^(j + 1)
    IN i + (Size(w, e) - 1) * COMP_BIT_SIZE

exp_bit_is_one(w, e, i) ==
    (Comp(w, e, i \div COMP_BIT_SIZE) \div 2^(i % COMP_BIT_SIZE)) % 2 = 1

RECURSIVE WindowSize(_)
WindowSize(j) == IF j > WINDOW_LIMIT THEN 1 + WindowSize(j \div 5) ELSE 1

KeepPower(w) == [bi_permanent(w, w.r) EXCEPT !.g = Append(@, w.r)]

RECURSIVE SlideFrom(_, _, _)
SlideFrom(w, g2, k) ==
    IF Len(w.g) = k \/ w.wild THEN bi_free(w, g2)
    ELSE SlideFrom(KeepPower(Reduced(bi_multiply(bi_copy(w, g2), w.g[Len(w.g)], g2))), g2, k)
SlideBy(w, k) == SlideFrom(w, w.r, k)

\* The odd powers of g1.
precompute_slide_window(w, window, g1) ==
    SlideBy(SquaredMod(KeepPower([bi_clone(w, g1) EXCEPT !.g = <<>>])), 2^(window - 1))

RECURSIVE Squarings(_, _)
Squarings(w, n) == IF n = 0 THEN w ELSE Squarings(SquaredMod(w), n - 1)

\* The window ends in a one; at the end of the exponent the last bit is taken to be one.
WindowEnd(w, e, i, window) ==
    IF i - window + 1 < 0 THEN 0
    ELSE Min({l \in (i - window + 1)..i : exp_bit_is_one(w, e, l)})

\* The odd power that the bits of e from l to i ask for.
PowerFor(w, e, l, i) ==
    LET part == FoldSet(LAMBDA j, acc : acc + 2^(j - l), 0, {j \in l..i : exp_bit_is_one(w, e, j)})
    IN w.g[(part - 1) \div 2 + 1]
TimesPower(w, e, l, i) == Reduced(bi_multiply(w, w.r, PowerFor(w, e, l, i)))
ForWindow(w, e, l, i) == IF exp_bit_is_one(w, e, i) THEN TimesPower(w, e, l, i) ELSE w

RECURSIVE PowerFrom(_, _, _, _)
PowerFrom(w, e, i, window) ==
    LET l == IF exp_bit_is_one(w, e, i) THEN WindowEnd(w, e, i, window) ELSE i
    IN IF i < 0 \/ w.wild THEN w
       ELSE PowerFrom(ForWindow(Squarings(w, i - l + 1), e, l, i), e, l - 1, window)

RECURSIVE FreeWindow(_, _)
FreeWindow(w, g) ==
    IF g = <<>> THEN [w EXCEPT !.g = <<>>]
    ELSE FreeWindow(bi_free(bi_depermanent(w, g[1]), g[1]), Tail(g))

FreeNumbers(w, b, e) == IF w.wild THEN w ELSE bi_free(bi_free(FreeWindow(w, w.g), b), e)

PowerWith(w, b, e, top) ==
    PowerFrom(Give(precompute_slide_window(w, WindowSize(top), b), w.r), e, top, WindowSize(top))
bi_mod_power(w, b, e) == FreeNumbers(PowerWith(int_to_bi(w, 1), b, e, find_max_exp_index(w, e)), b, e)

\* In a context of its own; what it returns is cloned back.
SetModulus(w, off) == bi_set_mod(w, w.r, off)
PowerOf(w, b) == bi_mod_power(w, b, w.r)
PowerOfNew(w, digits) == PowerOf(New(w, digits), w.r)
OwnPower(w, b, m, e) ==
    LET own == SetModulus(New(bi_initialize(w.fill), Comps(w, m)), "M")
    IN PowerOfNew(New(own, Comps(w, b)), Comps(w, e))

TakeBack(w, t) == [New(w, Comps(t, t.r)) EXCEPT !.cut = @ \/ t.cut, !.trap = @ \/ t.trap]
FreeContext(t) == bi_terminate(bi_free_mod(bi_free(t, t.r), "M"))
AbortedBy(w, t) == [w EXCEPT !.abort = @ \/ t.abort]
CloneBack(w, b, m, e, t) ==
    IF t.wild THEN [w EXCEPT !.wild = TRUE]
    ELSE bi_free(bi_free(bi_free(AbortedBy(TakeBack(w, t), FreeContext(t)), b), m), e)
bi_mod_power2(w, b, m, e) == CloneBack(w, b, m, e, OwnPower(w, b, m, e))

(* A power x with the two primes of a modulus: m1 and m2 with them. *)
PartPower(x, name, off, b, e) ==
    IF x.w.wild THEN x ELSE Named(x, name, bi_mod_power([x.w EXCEPT !.off = off], b, e))
BothPowers(w, b, dP, dQ) ==
    FoldLeft(LAMBDA x, part : PartPower(x, part.name, part.off, b, part.e),
             [w |-> bi_copy(w, b), m1 |-> 0, m2 |-> 0],
             <<[name |-> "m1", off |-> "P", e |-> dP], [name |-> "m2", off |-> "Q", e |-> dQ]>>)
Difference(x, p) == bi_subtract(bi_copy(bi_add(x.w, x.m1, p), x.m2), x.m1, x.m2)
TimesReturned(w, o) == bi_multiply(w, o, w.r)
AddReturned(w, o) == bi_add(w, o, w.r)
CrtResult(w, x, q) == IF w.wild THEN w ELSE AddReturned(TimesReturned(w, q), x.m2)
Combined(x, p, q, qInv) ==
    IF x.w.wild THEN x.w
    ELSE CrtResult(Reduced([bi_multiply(Difference(x, p), x.m1, qInv) EXCEPT !.off = "P"]), x, q)

bi_crt(w, b, dP, dQ, p, q, qInv) == Combined(BothPowers(w, b, dP, dQ), p, q, qInv)
=============================================================================
