--------------------------------- MODULE Hash ---------------------------------
(***************************************************************************)
(* The extendible hash table of adt/hash.c.  A chain is the sequence of    *)
(* the nodes that its next links run through; chains are numbered from 0.  *)
(* A key is represented by its node, hash->function by the constant HashOf *)
(* (several keys may have the same hash).                                  *)
(***************************************************************************)
EXTENDS Integers, Sequences, SequencesExt

CONSTANTS HashNodes,    \* the hnode_t objects
          HashOf,       \* hkey of each of them
          INIT_BITS     \* 6 in the code

INIT_SIZE == 2 ^ INIT_BITS
HNULL == 0

Bit(value, bit) == (value \div bit) % 2      \* value & bit, of a power of two

hash_create ==
    [table |-> [c \in 0 .. INIT_SIZE - 1 |-> <<>>], nchains |-> INIT_SIZE,
     highmark |-> INIT_SIZE * 2, lowmark |-> INIT_SIZE \div 2,
     nodecount |-> 0, mask |-> INIT_SIZE - 1]

(* hkey & mask: a mask is one less than a power of two. *)
ChainOf(t, n) == HashOf[n] % (t.mask + 1)

(* Every chain is split by the newly exposed bit; both halves come out in  *)
(* reverse.                                                                *)
grow_table(t) ==
    LET Half(c, bit) == Reverse(SelectSeq(t.table[c],
                                          LAMBDA n : Bit(HashOf[n], t.mask + 1) = bit))
    IN  [t EXCEPT !.table = [c \in 0 .. 2 * t.nchains - 1 |->
                               IF c < t.nchains THEN Half(c, 0) ELSE Half(c - t.nchains, 1)],
                  !.mask = 2 * @ + 1, !.nchains = 2 * @,
                  !.lowmark = 2 * @, !.highmark = 2 * @]

(* Sister chains are spliced together in the lower half of the table. *)
shrink_table(t) ==
    LET half == t.nchains \div 2
    IN  [t EXCEPT !.table = [c \in 0 .. half - 1 |-> t.table[c] \o t.table[c + half]],
                  !.mask = @ \div 2, !.nchains = half,
                  !.lowmark = @ \div 2, !.highmark = @ \div 2]

hash_lookup(t, n) ==
    LET chain == t.table[ChainOf(t, n)]
    IN  IF \E i \in DOMAIN chain : HashOf[chain[i]] = HashOf[n] /\ chain[i] = n THEN n ELSE HNULL

(* The allocation of the larger table may fail: then the table stays.      *)
hash_insert(t, n, growOk) ==
    LET grown == IF t.nodecount >= t.highmark /\ growOk THEN grow_table(t) ELSE t
    IN  [grown EXCEPT !.table[ChainOf(grown, n)] = <<n>> \o @, !.nodecount = @ + 1]

hash_scan_delete(t, n) ==
    [t EXCEPT !.table[ChainOf(t, n)] = SelectSeq(@, LAMBDA m : m # n), !.nodecount = @ - 1]

hash_delete(t, n) ==
    hash_scan_delete(IF t.nodecount <= t.lowmark /\ t.nodecount > INIT_SIZE
                     THEN shrink_table(t) ELSE t, n)

-----------------------------------------------------------------------------
(* A scanner holds the node it will return next, and its chain. *)

FirstFrom(t, from) ==
    LET used == {c \in from .. t.nchains - 1 : t.table[c] # <<>>}
        chain == CHOOSE c \in used : \A e \in used : c <= e
    IN  IF used = {} THEN [next |-> HNULL, chain |-> 0]
                     ELSE [next |-> Head(t.table[chain]), chain |-> chain]

hash_scan_begin(t) == FirstFrom(t, 0)

(* The scanner after hash_scan_next has returned scan.next. *)
hash_scan_next(t, scan) ==
    LET chain == t.table[scan.chain]
        at == CHOOSE i \in DOMAIN chain : chain[i] = scan.next
    IN  IF at < Len(chain) THEN [scan EXCEPT !.next = chain[at + 1]]
                           ELSE FirstFrom(t, scan.chain + 1)

hash_free_nodes(t) == [t EXCEPT !.table = [c \in DOMAIN @ |-> <<>>], !.nodecount = 0]

is_power_of_two(n) == \E i \in 0 .. 31 : n = 2 ^ i

(* hash_verify, the consistency check of the code. *)
hash_verify(t) ==
    /\ t.lowmark < t.highmark
    /\ is_power_of_two(t.highmark) /\ is_power_of_two(t.lowmark)
    /\ \A c \in 0 .. t.nchains - 1 : \A i \in DOMAIN t.table[c] : ChainOf(t, t.table[c][i]) = c
    /\ t.nodecount = FoldFunction(LAMBDA chain, sum : sum + Len(chain), 0, t.table)
=============================================================================
