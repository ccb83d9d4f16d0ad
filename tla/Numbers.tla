------------------------------- MODULE Numbers --------------------------------
(***************************************************************************)
(* Calls of the big integers on contexts that are new or have been used,   *)
(* with memory that holds anything, and the life of RSA keys: a key is     *)
(* loaded, used for some blocks in either direction and freed.             *)
(*   num       the context after the call                                  *)
(*   asked     the call and its arguments, a record; "none" before it      *)
(*   key       the RSA context, block what was encrypted last, and plain   *)
(***************************************************************************)
EXTENDS Bigint

(***************************************************************************)
(* RSA with PKCS1.5 padding, src/crypto/rsa.c.  A key is a record of the   *)
(* numbers it is made of, as byte strings; a context c is [w, k, octets]   *)
(* with the bigint context and the bigints of the key.                     *)
(***************************************************************************)

CONSTANTS
    OCTET_STEP,     \* num_octets is a multiple of it: 16 in the code
    PAD_START       \* where RSA_decrypt begins to look for the end of the padding: 10

TakePart(c, name, w) == [c EXCEPT !.w = w, !.k[name] = w.r]
ImportPart(c, name, data) == TakePart(c, name, bi_import(c.w, data))
Keep(c, name) == [c EXCEPT !.w = bi_permanent(@, c.k[name])]
SetMod(c, name, off) == [c EXCEPT !.w = bi_set_mod(@, c.k[name], off)]
Drop(c, name) == [c EXCEPT !.w = bi_free(bi_depermanent(@, c.k[name]), c.k[name])]
Names == {"m", "e", "d", "p", "q", "dP", "dQ", "qInv"}

RSA_pub_key_new(key, fill) ==
    LET c == [w |-> bi_initialize(fill), k |-> [n \in Names |-> 0],
              octets |-> (Len(key.m) \div OCTET_STEP) * OCTET_STEP]
    IN Keep(ImportPart(SetMod(ImportPart(c, "m", key.m), "m", "M"), "e", key.e), "e")

\* The names in order, with what becomes of each number.
KeepParts(c) == Keep(Keep(Keep(c, "dP"), "dQ"), "qInv")
PrimeParts(c, key) ==
    FoldLeft(LAMBDA x, name : ImportPart(x, name, key[name]), c, <<"p", "q", "dP", "dQ", "qInv">>)
RSA_priv_key_new(key, fill) ==
    SetMod(SetMod(KeepParts(PrimeParts(Keep(ImportPart(RSA_pub_key_new(key, fill), "d", key.d), "d"), key)),
                  "p", "P"), "q", "Q")

\* The context after bi_terminate.
DropMod(c, off) == [c EXCEPT !.w = bi_free_mod(@, off)]
DropPrivate(c) ==
    IF c.k["d"] = 0 THEN c
    ELSE DropMod(DropMod(Drop(Drop(Drop(Drop(c, "d"), "dP"), "dQ"), "qInv"), "P"), "Q")
RSA_free(c) == bi_terminate(DropPrivate(DropMod(Drop(c, "e"), "M")).w)

RSA_private(c, msg) ==
    bi_crt(c.w, msg, c.k["dP"], c.k["dQ"], c.k["p"], c.k["q"], c.k["qInv"])

RSA_public(c, msg) == bi_mod_power([c.w EXCEPT !.off = "M"], msg, c.k["e"])

\* 0, the kind, the padding (0xff, or random but never 0), 0 and the data.
Padded(data, octets, signing, random) ==
    LET pads == octets - Len(data) - 3
    IN <<0, IF signing THEN 1 ELSE 2>> \o [i \in 1..pads |-> IF signing THEN BYTE - 1 ELSE random]
       \o <<0>> \o data

\* The number imported last, with the private or the public key.
PowerWithKey(c, private) == [c EXCEPT !.w = IF private THEN RSA_private(c, @.r) ELSE RSA_public(c, @.r)]
PowerOfBlock(c, block, private) == PowerWithKey([c EXCEPT !.w = bi_import(@, block)], private)
ExportBlock(c) == IF c.w.wild THEN c ELSE [c EXCEPT !.w = bi_export(@, @.r, c.octets)]
Emptied(c) == IF c.w.wild THEN c ELSE [c EXCEPT !.w = bi_clear_cache(@)]

\* The data behind the padding, or <<>> for -1.
Unpadded(block, decryption) ==
    LET more(i) == IF decryption THEN block[i] # 0 ELSE block[i] = BYTE - 1
        last == Min({i \in (PAD_START + 1)..Len(block) : ~more(i) \/ i = Len(block)})
    IN IF ~decryption /\ block[last - 1] # BYTE - 1 THEN <<>>
       ELSE SubSeq(block, last + 1, Len(block))
UnpadBlock(c, decryption) == IF c.w.wild THEN c ELSE [c EXCEPT !.w.out = Unpadded(@, decryption)]

\* A call of RSA_encrypt or RSA_decrypt: the block that is imported, and with which key.
RSA_encrypt(c, data, signing, random) ==
    [encrypts |-> TRUE, private |-> signing, block |-> Padded(data, c.octets, signing, random)]
RSA_decrypt(c, block, decryption) ==
    [encrypts |-> FALSE, private |-> decryption, block |-> SubSeq(block, 1, c.octets)]

\* The exported block, or the data in it, is left in w.out.
Finish(c, call) == IF call.encrypts THEN Emptied(c) ELSE UnpadBlock(c, call.private)
Perform(c, call) == Finish(ExportBlock(PowerOfBlock(c, call.block, call.private)), call)

CONSTANTS
    Moduli,         \* moduli, as numbers
    Left, Right,    \* arguments of the calls with two numbers
    Squared,        \* arguments of bi_square
    Wide,           \* arguments of the reductions
    Exponents,
    PowerComps,     \* components of the moduli with which powers are computed
    Keys,           \* RSA keys
    Plain,          \* data to encrypt
    MaxBlocks       \* blocks encrypted with a key

VARIABLES num, asked, key, block, plain, blocks
numVars == <<num, asked>>
keyVars == <<key, block, plain, blocks>>
numbersvars == <<num, asked, key, block, plain, blocks>>

RECURSIVE Digits(_)
Digits(x) == IF x < COMP_RADIX THEN <<x>> ELSE <<x % COMP_RADIX>> \o Digits(x \div COMP_RADIX)

Fills == {0, COMP_RADIX - 1}
None == [op |-> "none", x |-> 0, y |-> 0, before |-> 0]

\* A context with a modulus, and with bigints to recycle that hold ones if it has been used.
Recycled(w, a, b) == bi_free(bi_free(w, b), a)
Context(fill, m, used) ==
    LET ones == [i \in 1..3 |-> COMP_RADIX - 1]
        w == New(New(bi_initialize(fill), ones), ones)
    IN SetModulus(New(IF used THEN Recycled(w, w.r - 1, w.r) ELSE bi_initialize(fill), Digits(m)), "M")

NoKey == [w |-> bi_initialize(0), k |-> [n \in Names |-> 0], octets |-> 0]

NumbersInit ==
    /\ asked = None
    /\ key = NoKey /\ block = <<>> /\ plain = <<>> /\ blocks = 0
    /\ \/ \E fill \in Fills, m \in Moduli, used \in BOOLEAN : num = Context(fill, m, used)
       \/ num = bi_initialize(0)

\* A process that has divided by zero is gone.
Ready == asked.op = "none" /\ num.mod["M"] # 0 /\ ~num.trap

Ask(op, x, y, w) ==
    /\ asked' = [op |-> op, x |-> x, y |-> y, before |-> num.active]
    /\ num' = w
    /\ UNCHANGED keyVars

\* The arguments become bigints.
Argument(x) == New(num, Digits(x))
Arguments(x, y) == New(Argument(x), Digits(y))

Add ==
    /\ Ready
    /\ \E x \in Left, y \in Right :
          LET w == Arguments(x, y) IN Ask("add", x, y, bi_add(w, Argument(x).r, w.r))
Subtract ==
    /\ Ready
    /\ \E x \in Left, y \in Right :
          LET w == Arguments(x, y) IN x >= y /\ Ask("subtract", x, y, bi_subtract(w, Argument(x).r, w.r))
Multiply ==
    /\ Ready
    /\ \E x \in Left, y \in Right :
          LET w == Arguments(x, y) IN Ask("multiply", x, y, bi_multiply(w, Argument(x).r, w.r))
Square == Ready /\ \E x \in Squared : Ask("square", x, x, bi_square(Argument(x), Argument(x).r))
Divide ==
    /\ Ready
    /\ \E x \in Left, y \in Right \ {0} :
          /\ Len(Digits(x)) >= Len(Digits(y))
          /\ LET w == Arguments(x, y) IN Ask("divide", x, y, bi_divide(w, Argument(x).r, w.r, FALSE))
Mod == Ready /\ \E x \in Wide : Ask("mod", x, x, bi_mod(Argument(x), Argument(x).r))
Residue == Ready /\ \E x \in Wide : Ask("residue", x, x, Reduced(Argument(x)))
Power ==
    /\ Ready /\ Size(num, num.mod["M"]) <= PowerComps
    /\ \E x \in Right, e \in Exponents : Ask("power", x, e, PowerOf(Arguments(x, e), Argument(x).r))
Power2 ==
    /\ Ready /\ Size(num, num.mod["M"]) <= PowerComps
    /\ \E x \in Right, e \in Exponents :
          LET w == Arguments(x, e)
              m == bi_clone(w, w.mod["M"])
          IN Ask("power", x, e, bi_mod_power2(m, Argument(x).r, m.r, w.r))

Bytes(x, n) == [i \in 1..n |-> (x \div BYTE^(n - i)) % BYTE]
Carry ==
    /\ Ready
    /\ LET export(w, n) == bi_export(w, w.r, n)
       IN \E x \in Right, n \in 1..6 : Ask("carry", x, n, export(bi_import(num, Bytes(x, n)), n))
ImportText ==
    /\ Ready
    /\ \E x \in Right : Ask("text", x, 6, bi_str_import(num, [i \in 1..6 |-> (x \div 2^(6 - i)) % 2]))

-----------------------------------------------------------------------------

Load ==
    /\ num.mod["M"] = 0 /\ key.k["m"] = 0 /\ blocks = 0
    /\ \E k \in Keys, fill \in Fills : key' = RSA_priv_key_new(k, fill)
    /\ UNCHANGED <<num, asked, block, plain, blocks>>

Usable == key.k["m"] # 0 /\ ~key.w.wild /\ ~key.w.trap

Encrypt ==
    /\ Usable /\ blocks < MaxBlocks
    /\ blocks' = blocks + 1
    /\ \E data \in Plain, signing \in BOOLEAN, random \in {1, BYTE - 1} :
          /\ key' = Perform(key, RSA_encrypt(key, data, signing, random))
          /\ block' = key'.w.out
          /\ plain' = [data |-> data, signing |-> signing, state |-> "encrypted"]
    /\ UNCHANGED numVars

Decrypt ==
    /\ Usable /\ plain # <<>> /\ plain.state = "encrypted"
    /\ key' = Perform(key, RSA_decrypt(key, block, ~plain.signing))
    /\ plain' = [plain EXCEPT !.state = "decrypted"]
    /\ UNCHANGED <<num, asked, block, blocks>>

Free ==
    /\ Usable
    /\ key' = [key EXCEPT !.w = RSA_free(key), !.k = [n \in Names |-> 0]]
    /\ UNCHANGED <<num, asked, block, plain, blocks>>

NumbersNext ==
    \/ Add \/ Subtract \/ Multiply \/ Square \/ Divide \/ Mod \/ Residue \/ Power \/ Power2
    \/ Carry \/ ImportText \/ Load \/ Encrypt \/ Decrypt \/ Free

-----------------------------------------------------------------------------
(* Properties. *)

Result == Value(num, num.r)
Modulus == Value(num, num.mod["M"])
Exact == ~num.cut /\ ~num.wild

RECURSIVE PowerMod(_, _, _)
PowerMod(x, e, m) ==
    IF e = 0 THEN 1 % m
    ELSE LET half == PowerMod(x, e \div 2, m)
         IN (((half * half) % m) * (IF e % 2 = 1 THEN x % m ELSE 1)) % m

\* Sums, differences, products and squares are those of the numbers, whatever the memory
\* held before; Karatsuba's products too, unless a number has less than half the
\* components of the other.
ArithmeticIsExact ==
    CASE asked.op = "add" -> Result = asked.x + asked.y
      [] asked.op = "subtract" -> Result = asked.x - asked.y
      [] asked.op \in {"multiply", "square"} /\ ~num.cut -> Result = asked.x * asked.y
      [] OTHER -> TRUE

\* A division by zero comes from a divisor or modulus whose top component is all ones, and
\* every such number brings it about.
TopOf(x) == Last(Digits(x))
AllOnes(top) == top = COMP_RADIX - 1
TrapsAreOnes ==
    /\ num.trap <=> \/ num.mod["M"] # 0 /\ AllOnes(Top(num, num.mod["M"]))
                    \/ asked.op = "divide" /\ AllOnes(TopOf(asked.y))
    /\ key.k["m"] # 0 =>
          (key.w.trap <=> \E name \in {"m", "p", "q"} : AllOnes(Top(key.w, key.k[name])))

\* bi_divide returns the quotient, or the rest, unless the rest of an estimate did not fit
\* in a component; even then the quotient is never too large, and what is reduced stays
\* congruent.
DivisionIsExact ==
    /\ (asked.op = "divide" /\ ~num.trap) => IF num.cut THEN Result <= asked.x \div asked.y
                              ELSE Result = asked.x \div asked.y
    /\ asked.op = "mod" => IF num.cut THEN Result % Modulus = asked.x % Modulus
                           ELSE Result = asked.x % Modulus

\* bi_barrett returns a number that is congruent to its argument, which may have up to twice
\* the components of the modulus, and less than what it was given.
ResidueIsCongruent ==
    (asked.op = "residue" /\ Exact) => (Result % Modulus = asked.x % Modulus /\ Result <= asked.x)

\* The sliding window computes the power, for every odd exponent and window.
PowerIsCongruent ==
    (asked.op = "power" /\ Exact) => Result % Modulus = PowerMod(asked.x, asked.y, Modulus)

\* What is imported is exported as the same bytes, with the leading zeros.
BytesSurvive ==
    /\ asked.op = "carry" => num.out = Bytes(asked.x, asked.y)
    /\ asked.op = "text" => Result = asked.x % 64

\* Every call frees what it takes and makes, and leaves one bigint, its result: no bigint is
\* used after it is freed, and terminating the context of a key finds none left.
NoneLeaks ==
    /\ (~num.trap => ~num.abort) /\ (~key.w.trap => ~key.w.abort)
    /\ (asked.op \notin {"none", "carry"} /\ ~num.wild /\ ~num.trap) => num.active = asked.before + 1
    /\ asked.op = "carry" => num.active = asked.before

\* A block that a key has encrypted, or signed, is decrypted, or verified, to the data, with
\* the same context, whatever was done with it before and whichever estimates were cut.
BlocksComeBack ==
    (plain # <<>> /\ ~key.w.wild /\ ~key.w.trap) =>
       ((plain.state = "decrypted" /\ key.k["m"] # 0) => key.w.out = plain.data)

(***************************************************************************)
(* crypto/bigint.c, rsa.c: results are those of the numbers, in every      *)
(* representation of them and whatever unwritten memory holds; a division  *)
(* by zero comes only from a top component of all ones; every              *)
(* bigint is freed exactly once; RSA gives back the block.                 *)
(***************************************************************************)
NumbersFaithful ==
    /\ ArithmeticIsExact /\ DivisionIsExact /\ ResidueIsCongruent /\ PowerIsCongruent
    /\ BytesSurvive /\ BlocksComeBack /\ NoneLeaks /\ TrapsAreOnes
=============================================================================
