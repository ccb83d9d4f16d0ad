--------------------------------- MODULE List ---------------------------------
(***************************************************************************)
(* The doubly linked lists of adt/list.c with their node pools.  A heap    *)
(* holds the links of all nodes; Nil(l) is the nilnode inside list l, so   *)
(* that a list is the ring of links through its nilnode.                   *)
(***************************************************************************)
EXTENDS Integers, Sequences

CONSTANTS ListNodes,    \* the lnode_t objects of the pool, 1 .. n
          DataOf        \* lnode_get of each of them

Lists == {1, 2}
NULLNODE == 0
Nil(l) == -l
Cells == ListNodes \cup {Nil(l) : l \in Lists}

(* lnode_pool_init and list_init; the last node of the pool is marked as   *)
(* taken by its prev link.                                                 *)
PoolSize == CHOOSE n \in ListNodes : \A m \in ListNodes : m <= n
list_init ==
    [next  |-> [c \in Cells |-> IF c < 0 THEN c ELSE IF c = PoolSize THEN NULLNODE ELSE c + 1],
     prev  |-> [c \in Cells |-> IF c < 0 THEN c ELSE IF c = PoolSize THEN 1 ELSE NULLNODE],
     count |-> [l \in Lists |-> 0],
     fre   |-> 1]

lnode_is_in_a_list(h, n) == h.next[n] # NULLNODE \/ h.prev[n] # NULLNODE

lnode_borrow(h) ==
    [h EXCEPT !.fre = h.next[h.fre], !.next[h.fre] = NULLNODE, !.prev[h.fre] = NULLNODE]

lnode_return(h, n) == [h EXCEPT !.next[n] = h.fre, !.prev[n] = n, !.fre = n]

RECURSIVE NodesFrom(_, _, _)
NodesFrom(h, c, end) == IF c = end THEN <<>> ELSE <<c>> \o NodesFrom(h, h.next[c], end)

Contents(h, l) == NodesFrom(h, h.next[Nil(l)], Nil(l))

list_contains(h, l, n) == \E i \in DOMAIN Contents(h, l) : Contents(h, l)[i] = n

list_find(h, l, key) ==
    LET RECURSIVE From(_)
        From(c) == IF c = Nil(l) THEN NULLNODE ELSE IF DataOf[c] = key THEN c ELSE From(h.next[c])
    IN  From(h.next[Nil(l)])

list_is_sorted(h, l) ==
    \A i \in 1 .. Len(Contents(h, l)) - 1 :
        DataOf[Contents(h, l)[i]] <= DataOf[Contents(h, l)[i + 1]]

-----------------------------------------------------------------------------
list_ins_after(h, l, new, this) ==
    LET that == h.next[this]
    IN  [h EXCEPT !.prev[new] = this, !.next[new] = that, !.prev[that] = new,
                  !.next[this] = new, !.count[l] = @ + 1]

list_ins_before(h, l, new, this) ==
    LET that == h.prev[this]
    IN  [h EXCEPT !.next[new] = this, !.prev[new] = that, !.next[that] = new,
                  !.prev[this] = new, !.count[l] = @ + 1]

list_append(h, l, n)  == list_ins_before(h, l, n, Nil(l))
list_prepend(h, l, n) == list_ins_after(h, l, n, Nil(l))

list_delete(h, l, del) ==
    LET h1 == [h EXCEPT !.next[h.prev[del]] = h.next[del]]
        h2 == [h1 EXCEPT !.prev[h.next[del]] = h.prev[del]]
    IN  [h2 EXCEPT !.count[l] = @ - 1, !.next[del] = NULLNODE, !.prev[del] = NULLNODE]

list_del_first(h, l) == list_delete(h, l, h.next[Nil(l)])
list_del_last(h, l)  == list_delete(h, l, h.prev[Nil(l)])

(* The links that hang the ring from first to last at the end of dest. *)
Graft(h, dest, first, last) ==
    LET tail == h.prev[Nil(dest)]
        h1 == [h EXCEPT !.next[last] = Nil(dest), !.prev[first] = tail]
    IN  [h1 EXCEPT !.next[tail] = first, !.prev[Nil(dest)] = last]

Moved(h, dest, source, first, last) ==
    LET moved == Len(NodesFrom(h, first, last)) + 1
    IN  [h EXCEPT !.count[source] = @ - moved, !.count[dest] = @ + moved]

(* first does not come after last. *)
list_extract(h, dest, source, first, last) ==
    LET h1 == [h EXCEPT !.next[h.prev[first]] = h.next[last]]
        h2 == [h1 EXCEPT !.prev[h.next[last]] = h.prev[first]]
    IN  Moved(Graft(h2, dest, first, last), dest, source, first, last)

list_transfer(h, dest, source, first) ==
    LET last == h.prev[Nil(source)]
        h1 == [h EXCEPT !.prev[Nil(source)] = h.prev[first],
                        !.next[h.prev[first]] = Nil(source)]
    IN  Moved(Graft(h1, dest, first, last), dest, source, first, last)

RECURSIVE MergeFrom(_, _, _, _, _)
MergeFrom(h, dest, sour, dn, sn) ==
    IF sn = Nil(sour) THEN h
    ELSE IF dn = Nil(dest) THEN list_transfer(h, dest, sour, sn)
    ELSE IF DataOf[dn] >= DataOf[sn]
         THEN MergeFrom(list_ins_before(list_delete(h, sour, sn), dest, sn, dn),
                        dest, sour, dn, h.next[sn])
         ELSE MergeFrom(h, dest, sour, h.next[dn], sn)

list_merge(h, dest, sour) == MergeFrom(h, dest, sour, h.next[Nil(dest)], h.next[Nil(sour)])

(* list_sort: the second half goes to a list on the stack, both are sorted *)
(* and merged.  The stack lists of the recursion are numbered downwards.   *)
RECURSIVE SortWith(_, _, _)
SortWith(h, l, extra) ==
    LET middle == h.count[l] \div 2
        fresh == [next  |-> [c \in DOMAIN h.next \cup {Nil(extra)} |->
                                IF c = Nil(extra) THEN c ELSE h.next[c]],
                  prev  |-> [c \in DOMAIN h.prev \cup {Nil(extra)} |->
                                IF c = Nil(extra) THEN c ELSE h.prev[c]],
                  count |-> [k \in DOMAIN h.count \cup {extra} |->
                                IF k = extra THEN 0 ELSE h.count[k]],
                  fre   |-> h.fre]
        split == list_transfer(fresh, extra, l, Contents(h, l)[middle + 1])
        halves == SortWith(SortWith(split, l, extra + 1), extra, extra + 1)
    IN  IF h.count[l] <= 1 THEN h ELSE list_merge(halves, l, extra)

list_sort(h, l) ==
    LET sorted == SortWith(h, l, 3)
    IN  [next |-> [c \in Cells |-> sorted.next[c]], prev |-> [c \in Cells |-> sorted.prev[c]],
         count |-> [k \in Lists |-> sorted.count[k]], fre |-> sorted.fre]

(* list_return_nodes: every node goes back to the pool, the list is empty. *)
list_return_nodes(h, l) ==
    LET RECURSIVE Return(_, _)
        Return(g, c) == IF c = Nil(l) THEN g
                        ELSE Return(lnode_return([g EXCEPT !.next[c] = NULLNODE, !.prev[c] = NULLNODE], c),
                                    g.next[c])
        h1 == Return(h, h.next[Nil(l)])
    IN  [h1 EXCEPT !.next[Nil(l)] = Nil(l), !.prev[Nil(l)] = Nil(l), !.count[l] = 0]

-----------------------------------------------------------------------------
(* list_verify, the consistency check of the code. *)
list_verify(h, l) ==
    LET RECURSIVE Linked(_, _)
        Linked(c, count) == IF c = Nil(l) \/ count = 0 THEN c = Nil(l) /\ count = 0
                            ELSE h.prev[h.next[c]] = c /\ Linked(h.next[c], count - 1)
    IN  h.prev[h.next[Nil(l)]] = Nil(l) /\ Linked(h.next[Nil(l)], h.count[l])
=============================================================================
