------------------------------- MODULE Halloc -------------------------------
(***************************************************************************)
(* The hierarchical allocator src/mem/halloc.c with its list of siblings   *)
(* src/mem/hlist.h, at the level of its pointers.  A block is an address;  *)
(* 0 is the tail sentinel hlist_null.  The prev of a block points to the   *)
(* cell that points to the block: the next of its elder sibling, or the    *)
(* children of its parent, or its own next when it has no parent.          *)
(***************************************************************************)
EXTENDS Null, Integers, FiniteSets, Sequences

CONSTANT MaxAddr   \* bound: addresses

Addrs == 1..MaxAddr

(* A pointer to a cell, and a block's header: pointers to blocks, or to the sentinel. *)
Refs == [cell : {"next", "children"}, of : Addrs]

Headers == [next : 0..MaxAddr, prev : Refs, children : 0..MaxAddr]

ASSUME HallocAssumption == MaxAddr \in Nat /\ NULL \notin Headers

VARIABLES
    cells,     \* [Addrs -> block header, or NULL where nothing is allocated]
    parentOf,  \* ghost: [Addrs -> block that it was attached to, or 0]
    strayed,   \* ghost: memory of no block was written
    alone      \* ghost: a block without parent was moved

hallocvars == <<cells, parentOf, strayed, alone>>

Here == [cells |-> cells, wild |-> FALSE]
NextOf(a) == [cell |-> "next", of |-> a]
ChildrenOf(a) == [cell |-> "children", of |-> a]

(* A store through a pointer to a cell. *)
Store(w, ref, value) ==
    IF w.cells[ref.of] = NULL THEN [w EXCEPT !.wild = TRUE]
    ELSE [w EXCEPT !.cells[ref.of][ref.cell] = value]

(* A store to the prev of an item; nobody reads the sentinel's. *)
SetPrev(w, item, ref) ==
    IF item = 0 THEN w
    ELSE IF w.cells[item] = NULL THEN [w EXCEPT !.wild = TRUE]
    ELSE [w EXCEPT !.cells[item].prev = ref]

-----------------------------------------------------------------------------
hlist_init_item(w, i) == [w EXCEPT !.cells[i].next = 0, !.cells[i].prev = NextOf(i)]

hlist_add(w, p, i) ==
    LET next == w.cells[p].children
        linked == SetPrev([w EXCEPT !.cells[i].next = next], next, NextOf(i)) IN
    [linked EXCEPT !.cells[p].children = i, !.cells[i].prev = ChildrenOf(p)]

hlist_del(w, i) ==
    LET next == w.cells[i].next
        back == w.cells[i].prev IN
    hlist_init_item(Store(SetPrev(w, next, back), back, next), i)

(* hlist_relink: the neighbours of a block that has moved are told. *)
hlist_relink(w, i) ==
    LET told == Store(w, w.cells[i].prev, i) IN SetPrev(told, told.cells[i].next, NextOf(i))

(* mutant: the eldest child is not told *)
hlist_relink_head_Not(w, p) == w

hlist_relink_head(w, p) == SetPrev(w, w.cells[p].children, ChildrenOf(p))

(* The blocks that a walk along the links meets when it begins at item: the smallest set *)
(* that it does not leave.  It goes no further from a block that is not there.           *)
Stays(w, item, links, S) ==
    /\ item \in S \cup {0}
    /\ \A c \in S : w.cells[c] # NULL => \A l \in links : w.cells[c][l] \in S \cup {0}

Reached(w, item, links) == {b \in Addrs : \A S \in SUBSET Addrs : Stays(w, item, links, S) => b \in S}

(* hlist_for_each over the children, and over those of the children and so on. *)
ChildrenOn(w, a) == Reached(w, w.cells[a].children, {"next"})

Family(w, a) == Reached(w, w.cells[a].children, {"next", "children"})

(* is b below p? *)
_relate(w, b, p) == b \in Family(w, p)

-----------------------------------------------------------------------------
FreshBlock(a) == [next |-> 0, prev |-> NextOf(a), children |-> 0]

(* halloc(NULL, len) *)
h_malloc(a) ==
    /\ cells[a] = NULL
    /\ cells' = [cells EXCEPT ![a] = FreshBlock(a)]
    /\ parentOf' = [parentOf EXCEPT ![a] = 0]
    /\ UNCHANGED <<strayed, alone>>

(* hattach: the caller sees to the assertion that the parent is not below the block. *)
hattach(b, p) ==
    /\ cells[b] # NULL /\ b # p
    /\ p # 0 => cells[p] # NULL /\ ~_relate(Here, p, b)
    /\ LET off == hlist_del(Here, b)
           w == IF p = 0 THEN off ELSE hlist_add(off, p, b) IN
       /\ cells' = w.cells
       /\ strayed' = (strayed \/ w.wild)
    /\ parentOf' = [parentOf EXCEPT ![b] = p]
    /\ UNCHANGED alone

(* halloc(ptr, len): realloc may leave the block where it is, or move it.  A block without *)
(* parent has a prev that points into its old place, and hlist_relink stores through it.   *)
Moved(from, to) ==
    [cells |-> [[cells EXCEPT ![from] = NULL] EXCEPT ![to] = cells[from]], wild |-> FALSE]

h_realloc(from, to) ==
    /\ cells[from] # NULL /\ (to = from \/ cells[to] = NULL)
    /\ LET w == hlist_relink_head(hlist_relink(Moved(from, to), to), to) IN
       /\ cells' = w.cells
       /\ strayed' = (strayed \/ w.wild)
    /\ alone' = (alone \/ (to # from /\ parentOf[from] = 0))
    /\ parentOf' = [a \in Addrs |-> IF a = to THEN parentOf[from]
                                    ELSE IF a = from THEN 0
                                    ELSE IF parentOf[a] = from THEN to ELSE parentOf[a]]

(* Every block below, depth first; their links are left as they are. *)
_free_children(w, p) ==
    LET family == Family(w, p) IN
    [w EXCEPT !.cells = [a \in Addrs |-> IF a \in family THEN NULL ELSE w.cells[a]]]

(* halloc(ptr, 0) *)
h_free(b) ==
    /\ cells[b] # NULL
    /\ LET w == hlist_del(_free_children(Here, b), b) IN
       /\ cells' = [w.cells EXCEPT ![b] = NULL]
       /\ strayed' = (strayed \/ w.wild)
    /\ parentOf' = [parentOf EXCEPT ![b] = 0]
    /\ UNCHANGED alone

-----------------------------------------------------------------------------
HallocInit ==
    /\ cells = [a \in Addrs |-> NULL]
    /\ parentOf = [a \in Addrs |-> 0]
    /\ strayed = FALSE /\ alone = FALSE

(* Afterwards the memory may be in any state. *)
HallocNext ==
    /\ ~alone /\ ~strayed
    /\ \E a \in Addrs :
        \/ h_malloc(a) \/ h_free(a)
        \/ \E b \in Addrs \cup {0} : hattach(a, b)
        \/ \E b \in Addrs : h_realloc(a, b)

HallocSpec == HallocInit /\ [][HallocNext]_hallocvars

-----------------------------------------------------------------------------
Blocks == {a \in Addrs : cells[a] # NULL}

(* Whatever was attached, detached, moved and freed before, the children of a block are *)
(* on its list, which ends, each with its link back (so that none is there twice), and   *)
(* no other memory was written, as long as no block without parent was moved.            *)
FamiliesIntact ==
    ~alone =>
        /\ ~strayed
        /\ \A a \in Blocks :
            LET list == ChildrenOn(Here, a)
                first == cells[a].children IN
            /\ list = {b \in Blocks : parentOf[b] = a}
            /\ list # {} => \E b \in list : cells[b].next = 0
            /\ first # 0 => cells[first].prev = ChildrenOf(a)
            /\ \A b \in list : cells[b].next # 0 => cells[cells[b].next].prev = NextOf(b)

(* halloc(ptr, 0): the family goes with the block; no block has a parent that is gone. *)
FreedWithFamily == \A b \in Blocks : parentOf[b] # 0 => cells[parentOf[b]] # NULL

(***************************************************************************)
(* mem/halloc.c: through attaching, detaching, moving and freeing, the     *)
(* links among parent, children and siblings agree, and the family of a    *)
(* freed block is freed with it.                                           *)
(***************************************************************************)
FamiliesSound ==
    /\ FamiliesIntact /\ FreedWithFamily
=============================================================================
