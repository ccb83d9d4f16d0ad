--------------------------------- MODULE Dict ---------------------------------
(***************************************************************************)
(* The red-black tree of adt/dict.c, which holds the headers of a request  *)
(* and the settings.  A dictionary is a record of the links and colours of *)
(* its nodes; nil is the sentinel inside dict_t, whose left link is the    *)
(* root, and NULLNODE the null pointer of a node that is in no tree.  The      *)
(* mirror images of the C code are one definition with a parameter side.   *)
(***************************************************************************)
EXTENDS Integers, Sequences

CONSTANTS DictNodes,    \* the dnode_t objects, numbers greater than 0
          KeyOf         \* the key each of them is inserted with

nil  == 0
NULLNODE == -1

Links == DictNodes \cup {nil}
Other(side) == IF side = "left" THEN "right" ELSE "left"

dict_root(d) == d.left[nil]

dict_create(dupes) ==
    LET unlinked == [n \in Links |-> IF n = nil THEN nil ELSE NULLNODE]
    IN  [left |-> unlinked, right |-> unlinked, parent |-> unlinked,
         color |-> [n \in Links |-> "black"], nodecount |-> 0, dupes |-> dupes]

(* dict_free_nodes: the nodes go, the parent link of the sentinel stays. *)
dict_free_nodes(d) == [dict_create(d.dupes) EXCEPT !.parent[nil] = d.parent[nil]]

dnode_is_in_a_dict(d, n) == d.parent[n] # NULLNODE /\ d.left[n] # NULLNODE /\ d.right[n] # NULLNODE

(* Makes new the child of parent in the place of old. *)
Relink(d, parent, old, new) ==
    IF d.left[parent] = old THEN [d EXCEPT !.left[parent] = new]
                            ELSE [d EXCEPT !.right[parent] = new]

(* rotate_left and rotate_right: the child on the other side goes up.  The *)
(* parent of the sentinel may be overwritten on the way.                   *)
rotate(d, side, upper) ==
    LET lower == d[Other(side)][upper]
        inner == d[side][lower]
        upparent == d.parent[upper]
        d1 == [d EXCEPT ![Other(side)][upper] = inner, !.parent[inner] = upper]
        d2 == Relink([d1 EXCEPT !.parent[lower] = upparent], upparent, upper, lower)
    IN  [d2 EXCEPT ![side][lower] = upper, !.parent[upper] = lower]

-----------------------------------------------------------------------------
(* Walking the tree. *)

RECURSIVE Outermost(_, _, _)
Outermost(d, side, n) == IF d[side][n] = nil THEN n ELSE Outermost(d, side, d[side][n])

RECURSIVE ClimbFrom(_, _, _)
ClimbFrom(d, side, n) ==
    LET parent == d.parent[n]
    IN  IF parent # nil /\ n = d[side][parent] THEN ClimbFrom(d, side, parent) ELSE parent

OrNull(n) == IF n = nil THEN NULLNODE ELSE n

dict_first(d) == IF dict_root(d) = nil THEN NULLNODE ELSE Outermost(d, "left", dict_root(d))
dict_last(d)  == IF dict_root(d) = nil THEN NULLNODE ELSE Outermost(d, "right", dict_root(d))

(* dict_next is Beside(d, "right", n), dict_prev is Beside(d, "left", n). *)
Beside(d, side, n) ==
    IF d[side][n] # nil THEN Outermost(d, Other(side), d[side][n])
                        ELSE OrNull(ClimbFrom(d, side, n))

dict_next(d, n) == Beside(d, "right", n)
dict_prev(d, n) == Beside(d, "left", n)

RECURSIVE Walk(_, _, _)
Walk(d, side, n) == IF n = NULLNODE THEN <<>> ELSE <<n>> \o Walk(d, side, Beside(d, side, n))

(* With equal keys allowed a match goes on to the leftmost one. *)
RECURSIVE Leftmost(_, _, _)
Leftmost(d, key, saved) ==
    LET RECURSIVE ToEqual(_)
        ToEqual(n) == IF n # nil /\ KeyOf[n] # key THEN ToEqual(d.right[n]) ELSE n
        further == ToEqual(d.left[saved])
    IN  IF further = nil THEN saved ELSE Leftmost(d, key, further)

dict_lookup(d, key) ==
    LET RECURSIVE Down(_)
        Down(n) == IF n = nil THEN NULLNODE
                   ELSE IF key < KeyOf[n] THEN Down(d.left[n])
                   ELSE IF key > KeyOf[n] THEN Down(d.right[n])
                   ELSE IF d.dupes THEN Leftmost(d, key, n) ELSE n
    IN  Down(dict_root(d))

(* dict_lower_bound with side "left" (the lowest key not below the given   *)
(* one), dict_upper_bound with side "right".                               *)
dict_bound(d, side, key) ==
    LET Passed(n) == IF side = "left" THEN key > KeyOf[n] ELSE key < KeyOf[n]
        RECURSIVE Down(_, _)
        Down(n, tentative) ==
            IF n = nil THEN tentative
            ELSE IF Passed(n) THEN Down(d[Other(side)][n], tentative)
            ELSE IF key = KeyOf[n] /\ ~d.dupes THEN n
            ELSE Down(d[side][n], n)
    IN  Down(dict_root(d), NULLNODE)

-----------------------------------------------------------------------------
(* dict_insert: where the node goes, then the red-black adjustments. *)

RECURSIVE InsertFix(_, _, _)
InsertFix(d, node, parent) ==
    IF d.color[parent] # "red" THEN d
    ELSE LET grandpa == d.parent[parent]
             side  == IF parent = d.left[grandpa] THEN "left" ELSE "right"
             uncle == d[Other(side)][grandpa]
         IN  IF d.color[uncle] = "red"
             THEN InsertFix([d EXCEPT !.color[parent] = "black", !.color[uncle] = "black",
                                      !.color[grandpa] = "red"],
                            grandpa, d.parent[grandpa])
             ELSE LET turned == node = d[Other(side)][parent]
                      d1 == IF turned THEN rotate(d, side, parent) ELSE d
                      top == IF turned THEN node ELSE parent
                  IN  rotate([d1 EXCEPT !.color[top] = "black", !.color[grandpa] = "red"],
                             Other(side), grandpa)

dict_insert(d, node) ==
    LET RECURSIVE Place(_, _)
        Place(parent, where) ==
            IF where = nil THEN parent
            ELSE Place(where, IF KeyOf[node] < KeyOf[where] THEN d.left[where]
                                                             ELSE d.right[where])
        parent == Place(nil, dict_root(d))
        side == IF parent = nil \/ KeyOf[node] < KeyOf[parent] THEN "left" ELSE "right"
        d1 == [d EXCEPT ![side][parent] = node]
        d2 == [d1 EXCEPT !.parent[node] = parent, !.left[node] = nil, !.right[node] = nil,
                         !.nodecount = @ + 1, !.color[node] = "red"]
        d3 == InsertFix(d2, node, parent)
    IN  [d3 EXCEPT !.color[dict_root(d3)] = "black"]

-----------------------------------------------------------------------------
(* dict_delete: the node itself is spliced out, never its neighbour's      *)
(* content moved, because others hold pointers to nodes.                   *)

RECURSIVE DeleteFix(_, _)

BlackSister(d, side, parent) ==
    LET sister == d[Other(side)][parent]
    IN  IF d.color[sister] # "red" THEN d
        ELSE rotate([d EXCEPT !.color[sister] = "black", !.color[parent] = "red"], side, parent)

RedNephew(d, side, sister) ==
    IF d.color[d[Other(side)][sister]] # "black" THEN d
    ELSE rotate([d EXCEPT !.color[d[side][sister]] = "black", !.color[sister] = "red"],
                Other(side), sister)

RaiseSister(d, side, parent) ==
    LET sister == d[Other(side)][parent]
    IN  rotate([d EXCEPT !.color[sister] = d.color[parent], !.color[parent] = "black",
                         !.color[d[Other(side)][sister]] = "black"], side, parent)

FixBeside(d, child, side, parent) ==
    LET sister == d[Other(side)][parent]
    IN  IF d.color[d.left[sister]] = "black" /\ d.color[d.right[sister]] = "black"
        THEN DeleteFix([d EXCEPT !.color[sister] = "red"], parent)
        ELSE [RaiseSister(RedNephew(d, side, sister), side, parent) EXCEPT !.color[child] = "black"]

DeleteFix(d, child) ==
    LET parent == d.parent[child]
        side == IF child = d.left[parent] THEN "left" ELSE "right"
    IN  IF d.color[child] # "black" THEN [d EXCEPT !.color[child] = "black"]
        ELSE FixBeside(BlackSister(d, side, parent), child, side, parent)

SpliceOut(d, node, child) ==
    Relink([d EXCEPT !.parent[child] = d.parent[node]], d.parent[node], node, child)

(* Mutant: the successor keeps its colour in the new place. *)
TakePlace_KeepColor(d, del, next) ==
    [d EXCEPT !.parent[next] = d.parent[del], !.left[next] = d.left[del], !.right[next] = d.right[del]]

TakePlace(d, del, next) ==
    [d EXCEPT !.parent[next] = d.parent[del], !.left[next] = d.left[del], !.right[next] = d.right[del],
              !.color[next] = d.color[del], !.color[del] = d.color[next]]
Adopt(d, next) == [d EXCEPT !.parent[d.left[next]] = next, !.parent[d.right[next]] = next]

(* Splices the successor out and puts it in the place of the deleted node. *)
SpliceTwo(d, del, next) ==
    [tree |-> Relink(Adopt(TakePlace(SpliceOut(d, next, d.right[next]), del, next), next),
                     d.parent[del], del, next),
     child |-> d.right[next]]

SpliceOne(d, del) ==
    LET child == IF d.left[del] # nil THEN d.left[del] ELSE d.right[del]
    IN  [tree |-> SpliceOut(d, del, child), child |-> child]

Unlinked(d, del) ==
    [d EXCEPT !.parent[del] = NULLNODE, !.left[del] = NULLNODE, !.right[del] = NULLNODE,
              !.nodecount = @ - 1]
ColorRoot(d, color) == [d EXCEPT !.color[dict_root(d)] = color]
Rebalanced(d, del, child) ==
    IF d.color[del] = "black" THEN ColorRoot(DeleteFix(ColorRoot(d, "red"), child), "black") ELSE d
AfterSplice(x, del) == Rebalanced(Unlinked(x.tree, del), del, x.child)

dict_delete(d, del) ==
    AfterSplice(IF d.left[del] # nil /\ d.right[del] # nil
                THEN SpliceTwo(d, del, dict_next(d, del)) ELSE SpliceOne(d, del), del)

-----------------------------------------------------------------------------
(* dict_load_begin, dict_load_next and dict_load_end: a sorted sequence of *)
(* nodes becomes a tree without comparisons.  forest is the array tree[],  *)
(* one incomplete tree per level, 0 where there is none.                   *)

RECURSIVE LowerPower(_, _)
LowerPower(full, count) ==    \* DICTCOUNT_T_MAX shifted right until below the count
    IF full >= count /\ full # 0 THEN LowerPower(full \div 2, count) ELSE full

RECURSIVE Close(_)
Close(l) ==      \* hang the complete tree under the waiting tree of its level
    LET top == l.forest[l.level]
    IN  IF top = nil THEN l
        ELSE Close([l EXCEPT !.tree.right[top] = l.complete, !.tree.parent[l.complete] = top,
                             !.complete = top, !.forest[l.level] = nil, !.level = @ + 1])

LoadNode(l, curr) ==
    LET rowEnds == l.complete = NULLNODE /\ l.bottom = 0
        waiting == l.forest[0]
        l1 == IF l.complete = NULLNODE THEN [l EXCEPT !.bottom = @ - 1] ELSE l
        l2 == IF ~rowEnds THEN l1
              ELSE IF waiting = nil THEN [l1 EXCEPT !.base = 1, !.level = 1]
              ELSE Close([l1 EXCEPT !.base = 1, !.level = 1, !.complete = waiting,
                                    !.forest[0] = nil, !.tree.right[waiting] = nil])
    IN  IF l2.complete = NULLNODE
        THEN Close([l2 EXCEPT !.tree.left[curr] = nil, !.tree.right[curr] = nil,
                              !.tree.color[curr] = IF l2.level % 2 = 0 THEN "red" ELSE "black",
                              !.complete = curr])
        ELSE [l2 EXCEPT !.tree.left[curr] = l2.complete, !.tree.parent[l2.complete] = curr,
                        !.tree.color[curr] = IF l2.level % 2 = 0 THEN "black" ELSE "red",
                        !.forest[l2.level] = curr, !.complete = NULLNODE, !.level = l2.base]

RECURSIVE LoadAll(_, _)
LoadAll(l, nodes) == IF nodes = <<>> THEN l ELSE LoadAll(LoadNode(l, Head(nodes)), Tail(nodes))

RECURSIVE CloseAll(_, _)
CloseAll(l, i) ==
    IF i \notin DOMAIN l.forest THEN l
    ELSE LET top == l.forest[i]
         IN  CloseAll(IF top = nil THEN l
                      ELSE [l EXCEPT !.tree.right[top] = l.complete,
                                     !.tree.parent[l.complete] = top, !.complete = top], i + 1)

DICT_DEPTH_MAX == 8    \* 64 in the code, enough for 2^64 nodes

LoadEnd(l, count) ==
    [l.tree EXCEPT !.parent[l.complete] = nil, !.color[nil] = "black", !.color[l.complete] = "black",
                   !.right[nil] = nil, !.left[nil] = l.complete, !.nodecount = count]
Loaded(l) == IF l.complete = NULLNODE THEN [l EXCEPT !.complete = nil] ELSE l

dict_load(d, nodes) ==
    LET count == Len(nodes)
        start == [tree |-> d, complete |-> NULLNODE, level |-> 0, base |-> 0,
                  bottom |-> count - LowerPower(2 ^ DICT_DEPTH_MAX - 1, count),
                  forest |-> [i \in 0 .. DICT_DEPTH_MAX - 1 |-> nil]]
    IN  LoadEnd(CloseAll(Loaded(LoadAll(start, nodes)), 0), count)

(* dict_merge: both trees are walked in order; on equal keys the node of   *)
(* the source comes first.                                                 *)
RECURSIVE MergeWalk(_, _)
MergeWalk(dest, source) ==
    IF dest = <<>> THEN source ELSE IF source = <<>> THEN dest
    ELSE IF KeyOf[Head(dest)] < KeyOf[Head(source)]
         THEN <<Head(dest)>> \o MergeWalk(Tail(dest), source)
         ELSE <<Head(source)>> \o MergeWalk(dest, Tail(source))

dict_merge(dest, source) ==
    dict_load(dest, MergeWalk(Walk(dest, "right", dict_first(dest)),
                              Walk(source, "right", dict_first(source))))

-----------------------------------------------------------------------------
(* dict_verify, the consistency check of the code. *)

RECURSIVE verify_redblack(_, _)
verify_redblack(d, root) ==
    IF root = nil THEN 1
    ELSE LET l == verify_redblack(d, d.left[root])
             r == verify_redblack(d, d.right[root])
             redChild == d.color[d.left[root]] = "red" \/ d.color[d.right[root]] = "red"
         IN  IF l = 0 \/ r = 0 \/ l # r \/ (d.color[root] = "red" /\ redChild) THEN 0
             ELSE IF d.color[root] = "red" THEN l ELSE l + 1

RECURSIVE verify_node_count(_, _)
verify_node_count(d, root) ==
    IF root = nil THEN 0
    ELSE 1 + verify_node_count(d, d.left[root]) + verify_node_count(d, d.right[root])

verify_bintree(d) ==
    LET order == Walk(d, "right", dict_first(d))
    IN  \A i \in 1 .. Len(order) - 1 :
            IF d.dupes THEN KeyOf[order[i]] <= KeyOf[order[i + 1]]
                       ELSE KeyOf[order[i]] < KeyOf[order[i + 1]]

dict_verify(d) ==
    /\ d.color[dict_root(d)] = "black" /\ d.color[nil] = "black"
    /\ d.right[nil] = nil
    /\ d.parent[dict_root(d)] = nil
    /\ verify_bintree(d)
    /\ verify_redblack(d, dict_root(d)) # 0
    /\ verify_node_count(d, dict_root(d)) = d.nodecount
=============================================================================
